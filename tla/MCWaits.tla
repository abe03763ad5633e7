------------------------------- MODULE MCWaits -------------------------------
(***************************************************************************)
(* The components that wait for a timer, a server or another node: the     *)
(* cleaner's lock, and, of the scripts of a page, requests, fetches,       *)
(* uploads, effects and tooltips.                                          *)
(* They share nothing, so a behaviour is one of one of them, its subject,  *)
(* and the others stay as they are at the start.                           *)
(***************************************************************************)
EXTENDS CleanerLock, Ajax, Fetch, Uploader, Effects, Tooltip

VARIABLE subject

waitsVars == <<subject, vars, ajaxVars, fetchVars, uploadVars, effectsVars, tipVars>>

Subjects == {"lock", "requests", "fetches", "uploader", "effects", "tooltip"}

(* What is not the subject starts in one way only.                         *)
WaitsInit ==
  /\ subject \in Subjects
  /\ Init /\ (subject # "lock" => rowLocked = TRUE)
  /\ AjaxInit /\ FetchInit /\ UploadInit
  /\ EffectsInit /\ (subject # "effects" => fx.shown)
  /\ TipInit

Is(s) == subject = s

LockStep ==
  /\ Is("lock") /\ Next
  /\ UNCHANGED <<subject, ajaxVars, fetchVars, uploadVars, effectsVars, tipVars>>
AjaxStep ==
  /\ Is("requests") /\ AjaxNext
  /\ UNCHANGED <<subject, vars, fetchVars, uploadVars, effectsVars, tipVars>>
FetchStep ==
  /\ Is("fetches") /\ FetchNext
  /\ UNCHANGED <<subject, vars, ajaxVars, uploadVars, effectsVars, tipVars>>
UploaderStep ==
  /\ Is("uploader") /\ UploadNext
  /\ UNCHANGED <<subject, vars, ajaxVars, fetchVars, effectsVars, tipVars>>
EffectsStep ==
  /\ Is("effects") /\ EffectsNext
  /\ UNCHANGED <<subject, vars, ajaxVars, fetchVars, uploadVars, tipVars>>
TooltipStep ==
  /\ Is("tooltip") /\ TipNext
  /\ UNCHANGED <<subject, vars, ajaxVars, fetchVars, uploadVars, effectsVars>>

(* The scripts of a page may have nothing more to do; the lock always has. *)
Rest == ~Is("lock") /\ UNCHANGED waitsVars

WaitsNext ==
  LockStep \/ AjaxStep \/ FetchStep \/ UploaderStep \/ EffectsStep \/ TooltipStep \/ Rest

WaitsFairness ==
  /\ \A r \in Run : /\ WF_vars(Is("lock") /\ Clean(r))
                    /\ WF_vars(Is("lock") /\ TimeOut(r))
  /\ \A n \in Node : WF_vars(Is("lock") /\ Restart(n))
  /\ \A r \in Request : /\ WF_ajaxVars(Is("requests") /\ SyncEnds(r))
                        /\ WF_ajaxVars(Is("requests") /\ TimesOut(r))
  /\ \A s \in Spec_ : WF_fetchVars(Is("fetches") /\ Answered(s))
  /\ \A f \in File : WF_uploadVars(Is("uploader") /\ FileAnswer(f))
  /\ WF_effectsVars(Is("effects") /\ FxTick)
  /\ WF_effectsVars(Is("effects") /\ DelayTimer)
  /\ WF_effectsVars(Is("effects") /\ CheckTimer)
  /\ WF_tipVars(Is("tooltip") /\ TipTick)
  /\ WF_tipVars(Is("tooltip") /\ TipDelayTimer)

WaitsSpec == WaitsInit /\ [][WaitsNext]_waitsVars /\ WaitsFairness

-----------------------------------------------------------------------------
(* Every variable has its type, and what the proofs about the lock,        *)
(* requests, fetches, uploads, effects and tooltips argue with holds.      *)
WaitsInv ==
  /\ subject \in Subjects
  /\ Is("lock")     => LockInv
  /\ Is("requests") => AjaxInv
  /\ Is("fetches")  => FetchInv
  /\ Is("uploader") => UploadInv
  /\ Is("effects")  => EffectsInv
  /\ Is("tooltip")  => TipInv

(* A file is not sent twice (Uploader) and a promise of effects is kept    *)
(* only when nothing runs (Effects).                                       *)
StepsHold == [][SentOnce]_uploadVars /\ [][PromiseWaits]_effectsVars

(* A request with a time-out ends (Ajax), a fetch calls back unless what   *)
(* it shares was spoilt (Fetch), a batch of uploads ends (Uploader), the   *)
(* promise of an element's effects is resolved (Effects), and an open      *)
(* tooltip appears or is closed (Tooltip).                                 *)
WaitsEnd ==
  /\ TimeoutEnds /\ FetchEnds /\ UploadEnds
  /\ PromiseEnds /\ OpenAppears
=============================================================================
