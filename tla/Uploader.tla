------------------------------ MODULE Uploader ------------------------------
(***************************************************************************)
(* fluid.uploader.multiFileUploader (MyInfusion.js) with the HTML5         *)
(* strategy: a queue of files, the batch being uploaded, the requests in   *)
(* flight, the buttons and the error panel.                                *)
(*                                                                         *)
(* A handler fires other events, whose listeners run inside it; the        *)
(* operators below pass the uploader's state through them in the order of  *)
(* the code.  Byte counts and the texts of the page are not represented.   *)
(***************************************************************************)
EXTENDS Integers, FiniteSets

CONSTANTS
  File,             \* the user's files, each selected at most once
  Large,            \* those beyond the size limit
  FileUploadLimit,  \* queueSettings.fileUploadLimit, 0 for none
  MaxSelected,      \* bound: files selected in one dialog
  NoFile

ASSUME FileAssumption  == IsFiniteSet(File) /\ Large \subseteq File /\ NoFile \notin File
ASSUME LimitAssumption == FileUploadLimit \in Nat /\ MaxSelected \in Nat

VARIABLES
  upload,     \* the queue and its upload: see Uploads
  buttons,    \* the state of the three buttons
  panel,      \* the error panel: its two sections, and whether it is shown
  failed      \* history: the server has refused a file

uploadVars == <<upload, buttons, panel, failed>>

Status == {"new", "QUEUED", "IN_PROGRESS", "ERROR", "COMPLETE", "CANCELLED"}

(* The queue: place numbers its files from 1, and is 0 of any other.       *)
InQueue(u)     == {f \in File : u.place[f] > 0}
With(u, kinds) == {f \in InQueue(u) : u.status[f] \in kinds}
First(u, files) == CHOOSE f \in files : \A g \in files : u.place[f] <= u.place[g]

(* The files of a batch, and those from fileIdx on, not started yet.       *)
Batch(files) == [files |-> files, left |-> files, numFilesCompleted |-> 0,
                 numFilesErrored |-> 0]

(* a bug: whatever is not in error is ready.                               *)
ReadyFilesToo(u) == With(u, {"QUEUED", "CANCELLED", "COMPLETE"})
ReadyFiles(u)    == With(u, {"QUEUED", "CANCELLED"})
UploadedFiles(u) == With(u, {"COMPLETE"})
ErroredFiles(u)  == With(u, {"ERROR"})

(***************************************************************************)
(* The buttons: shown is "upload" or "pause"; enabled tells whether the    *)
(* upload button can be used, browse whether files can be selected.        *)
(***************************************************************************)
MaxFilesUploaded(u) ==
  Cardinality(UploadedFiles(u)) + Cardinality(ReadyFiles(u)) + Cardinality(ErroredFiles(u))
    = FileUploadLimit
EnableBrowseButton(u) == buttons.browse \/ ~MaxFilesUploaded(u)

SetStateEmpty     == [buttons EXCEPT !.enabled = FALSE]
SetStateDone(u)   == [shown |-> "upload", enabled |-> FALSE, browse |-> EnableBrowseButton(u)]
(* a bug: the browse button stays as it was, disabled by the upload.       *)
SetStateLoadedAsIs(u) == [shown |-> "upload", enabled |-> TRUE, browse |-> buttons.browse]
SetStateLoaded(u) == [shown |-> "upload", enabled |-> TRUE, browse |-> EnableBrowseButton(u)]
SetStateUploading == [buttons EXCEPT !.shown = "pause", !.browse = FALSE]
SetStateFull      == [shown |-> "upload", enabled |-> TRUE, browse |-> FALSE]

(***************************************************************************)
(* The upload: status of the files, the batch, the requests in flight and  *)
(* the one the strategy remembers, and whether the batch has ended in this *)
(* event (then afterUploadComplete was fired).                             *)
(***************************************************************************)
OnFileStart(u, f) ==
  [u EXCEPT !.status[f] = "IN_PROGRESS", !.batch.left = @ \ {f}]
UploadFile(u, f) ==
  [OnFileStart(u, f) EXCEPT !.requests = @ \cup {f}, !.currentXHR = f]
UploadNextFile(u) == UploadFile(u, First(u, u.batch.left))

ShouldUploadNextFile(u) ==
  /\ u.isUploading
  /\ u.batch.numFilesCompleted + u.batch.numFilesErrored < Cardinality(u.batch.files)

AfterUploadComplete(u) ==
  [u EXCEPT !.isUploading = FALSE, !.ended = TRUE, !.batch = Batch({})]

UploadNextOrFinish(u) ==
  IF ShouldUploadNextFile(u) THEN UploadNextFile(u) ELSE AfterUploadComplete(u)

OnFileComplete(u) ==
  UploadNextOrFinish([u EXCEPT !.batch.numFilesCompleted = @ + 1])

(* A file that failed is counted here and once more by onFileComplete; a   *)
(* stopped one only there.                                                 *)
OnFileError(u, f) ==
  LET marked == [u EXCEPT !.status[f] = "ERROR"]
  IN  IF u.isUploading
      THEN UploadNextOrFinish([marked EXCEPT !.batch.numFilesErrored = @ + 1])
      ELSE marked

(* monitorFileUploadXHR: what an answer leads to.                          *)
AnswerTo(u, f, httpStatus) ==
  LET v == [u EXCEPT !.requests = @ \ {f}]
  IN  CASE httpStatus = "200" -> OnFileComplete([v EXCEPT !.status[f] = "COMPLETE"])
        [] httpStatus = "0"   -> OnFileComplete([v EXCEPT !.status[f] = "CANCELLED"])
        [] OTHER              -> OnFileComplete(OnFileError(v, f))

(* The buttons after files were selected, and after one was removed.       *)
UpdateStateAfterFileDialog(u) ==
  IF ReadyFiles(u) = {} THEN buttons
  ELSE IF Cardinality(ReadyFiles(u)) = FileUploadLimit THEN SetStateFull
  ELSE SetStateLoaded(u)

UpdateStateAfterFileRemoval(u) ==
  IF ReadyFiles(u) = {} THEN SetStateEmpty ELSE SetStateLoaded(u)

(* updateStateAfterCompletion, when the batch has ended.                   *)
Settle(u) ==
  /\ upload' = [u EXCEPT !.ended = FALSE]
  /\ buttons' = IF ~u.ended THEN buttons
                ELSE IF ReadyFiles(u) = {} THEN SetStateDone(u)
                ELSE SetStateLoaded(u)

UploadInit ==
  /\ upload = [place |-> [f \in File |-> 0], status |-> [f \in File |-> "new"],
               isUploading |-> FALSE, batch |-> Batch({}), requests |-> {},
               currentXHR |-> NoFile, ended |-> FALSE]
  /\ buttons = [shown |-> "upload", enabled |-> FALSE, browse |-> TRUE]
  /\ panel = [overLimit |-> FALSE, tooLarge |-> FALSE, shown |-> FALSE]
  /\ failed = FALSE

(***************************************************************************)
(* local.addFiles: the selection is filtered from left to right by what    *)
(* remains of the limit, then by size.  The sections of the error panel    *)
(* are emptied first, and the panel is brought up to date at the end.      *)
(***************************************************************************)
Remaining ==
  FileUploadLimit - Cardinality(UploadedFiles(upload)) - Cardinality(ReadyFiles(upload))

Small(selected, n) == {i \in 1 .. n : selected[i] \notin Large}
Spent(selected, i) ==
  /\ FileUploadLimit # 0 /\ Remaining >= 0
  /\ Cardinality(Small(selected, i - 1)) >= Remaining

(* The positions of the files that are added.                              *)
Added(selected) ==
  {i \in DOMAIN selected :
    /\ ~Spent(selected, i) /\ selected[i] \notin Large
    /\ FileUploadLimit = 0 \/ Remaining > 0}

Loaded(selected) ==
  LET added(f) == \E i \in Added(selected) : selected[i] = f
      upTo(f)  == {j \in Added(selected) : \E i \in DOMAIN selected : selected[i] = f /\ j <= i}
  IN  [upload EXCEPT
        !.place  = [f \in File |-> IF added(f)
                                  THEN Cardinality(InQueue(upload)) + Cardinality(upTo(f))
                                  ELSE @[f]],
        !.status = [f \in File |-> IF added(f) THEN "QUEUED" ELSE @[f]]]

AddFiles(selected) ==
  LET overLimit == \E i \in DOMAIN selected : Spent(selected, i)
      tooLarge  == \E i \in DOMAIN selected : ~Spent(selected, i) /\ selected[i] \in Large
  IN  /\ buttons.browse
      /\ \A i \in DOMAIN selected : upload.status[selected[i]] = "new"
      /\ upload' = Loaded(selected)
      /\ buttons' = UpdateStateAfterFileDialog(Loaded(selected))
      /\ panel' = [overLimit |-> overLimit, tooLarge |-> tooLarge,
                   shown |-> overLimit \/ tooLarge]
      /\ UNCHANGED failed

(* The row of a file: its delete key or button, both disabled while a      *)
(* batch is uploaded and without effect on an uploaded file.               *)
Without(f) ==
  [upload EXCEPT !.place = [g \in File |-> IF g = f THEN 0
                                          ELSE IF @[g] > @[f] THEN @[g] - 1 ELSE @[g]]]
RemoveFile(f) ==
  /\ ~upload.isUploading
  /\ f \in InQueue(upload) /\ upload.status[f] # "COMPLETE"
  /\ upload' = Without(f)
  /\ buttons' = UpdateStateAfterFileRemoval(Without(f))
  /\ UNCHANGED <<panel, failed>>

StartUpload ==
  /\ buttons.shown = "upload" /\ buttons.enabled
  /\ upload' = UploadNextFile([upload EXCEPT !.batch = Batch(ReadyFiles(upload)),
                                            !.isUploading = TRUE])
  /\ buttons' = SetStateUploading
  /\ panel' = [overLimit |-> FALSE, tooLarge |-> FALSE, shown |-> FALSE]
  /\ UNCHANGED failed

(* remote.stop: the remembered request is aborted and answers at once.     *)
StopUpload ==
  /\ buttons.shown = "pause"
  /\ LET u == [upload EXCEPT !.isUploading = FALSE]
     IN  Settle(IF u.currentXHR \in u.requests THEN AnswerTo(u, u.currentXHR, "0") ELSE u)
  /\ UNCHANGED <<panel, failed>>

(* The answer of the server, "0" when the connection is lost.              *)
FileAnswer(f) ==
  /\ f \in upload.requests
  /\ \E httpStatus \in {"200", "0", "500"} :
       /\ Settle(AnswerTo(upload, f, httpStatus))
       /\ failed' = (failed \/ httpStatus = "500")
  /\ UNCHANGED panel

(* The delete button of a section of the error panel.                      *)
ClearSection(kind) ==
  /\ panel[kind]
  /\ panel' = [panel EXCEPT ![kind] = FALSE,
                 !.shown = \E k \in {"overLimit", "tooLarge"} \ {kind} : panel[k]]
  /\ UNCHANGED <<upload, buttons, failed>>

Selections ==
  {s \in UNION {[1 .. n -> File] : n \in 1 .. MaxSelected} :
    \A i, j \in DOMAIN s : s[i] = s[j] => i = j}

UploadNext ==
  \/ \E s \in Selections : AddFiles(s)
  \/ \E f \in File : RemoveFile(f) \/ FileAnswer(f)
  \/ StartUpload \/ StopUpload
  \/ \E kind \in {"overLimit", "tooLarge"} : ClearSection(kind)

(* Every request is answered in the end; nothing is asked of the user.     *)
UploadFairness == \A f \in File : WF_uploadVars(FileAnswer(f))
UploadSpec == UploadInit /\ [][UploadNext]_uploadVars /\ UploadFairness

-----------------------------------------------------------------------------
Uploads == [place : [File -> Nat], status : [File -> Status], isUploading : BOOLEAN,
            batch : [files : SUBSET File, left : SUBSET File,
                     numFilesCompleted : Nat, numFilesErrored : Nat],
            requests : SUBSET File, currentXHR : File \cup {NoFile}, ended : BOOLEAN]
UploadTypeOK ==
  /\ upload \in Uploads /\ ~upload.ended
  /\ buttons \in [shown : {"upload", "pause"}, enabled : BOOLEAN, browse : BOOLEAN]
  /\ panel \in [overLimit : BOOLEAN, tooLarge : BOOLEAN, shown : BOOLEAN]
  /\ failed \in BOOLEAN

(* What counts against the limit: every file but those the server refused. *)
Counted(u) == With(u, {"QUEUED", "CANCELLED", "IN_PROGRESS", "COMPLETE"})

(* The files in flight are those in progress.  One request runs at a time, *)
(* and only while the uploader says so, and the limit holds, until the     *)
(* server refuses a file: that file counts twice, so two uploads start or  *)
(* the batch is over while one still runs.                                 *)
Flights ==
  /\ upload.requests = {f \in File : upload.status[f] = "IN_PROGRESS"}
  /\ upload.isUploading => upload.currentXHR \in upload.requests
  /\ ~failed =>
       /\ Cardinality(upload.requests) = IF upload.isUploading THEN 1 ELSE 0
       /\ FileUploadLimit # 0 => Cardinality(Counted(upload)) <= FileUploadLimit

(* The pause button is shown while a batch is uploaded; the upload button  *)
(* can be used when there is something to upload; with files waiting and   *)
(* room left, more can be selected; the error panel is shown while it has  *)
(* something to say.                                                       *)
ButtonsAgree ==
  /\ buttons.shown = "pause" <=> upload.isUploading
  /\ ~upload.isUploading =>
       /\ buttons.enabled <=> ReadyFiles(upload) # {}
       /\ ReadyFiles(upload) # {} /\ Cardinality(InQueue(upload)) < FileUploadLimit
            => buttons.browse
  /\ panel.shown <=> (panel.overLimit \/ panel.tooLarge)

TransfersHold == Flights /\ ButtonsAgree

(* A file that was uploaded is never sent again, and one that is on its    *)
(* way is not sent a second time.                                          *)
SentOnce ==
  \A f \in File : upload'.status[f] = "IN_PROGRESS" /\ upload.status[f] # "IN_PROGRESS"
    => upload.status[f] \in {"QUEUED", "CANCELLED"}

(***************************************************************************)
(* What makes these inductive: what is left of a batch is ready, and there *)
(* is a file left for every answer that asks for one, since one more was   *)
(* started than was counted, whichever of them failed; without an upload   *)
(* there is no batch, and with one nothing can be selected.                *)
(***************************************************************************)
NumCounted(u) == u.batch.numFilesCompleted + u.batch.numFilesErrored

BatchAgrees ==
  /\ upload.batch.left \subseteq ReadyFiles(upload)
  /\ IF upload.isUploading
     THEN /\ Cardinality(upload.batch.left) + NumCounted(upload) + 1
               = Cardinality(upload.batch.files)
          /\ ~buttons.browse
     ELSE upload.batch = Batch({})
  /\ ~failed => upload.requests \subseteq {upload.currentXHR}

UploadInv == UploadTypeOK /\ TransfersHold /\ BatchAgrees

(* A batch ends, whatever the server answers.                              *)
UploadEnds == upload.isUploading ~> ~upload.isUploading
=============================================================================
