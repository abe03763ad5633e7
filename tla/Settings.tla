------------------------------ MODULE Settings ------------------------------
(***************************************************************************)
(* The display preferences of MyInfusion.js: the cookie that keeps them,   *)
(* the options component whose model the controls change, and the          *)
(* enhancers that apply them to the page, to the frame of the sliding      *)
(* panel and to a preview.                                                 *)
(*                                                                         *)
(* A settings value is a text size and whether there is a table of         *)
(* contents.  JavaScript objects matter: Cancel hands the store's object   *)
(* to the model without copying it, and a preview update that was put off  *)
(* reads its object when it runs.  Object 0 is the object of the site's    *)
(* defaults.  Not represented: the frame's and the preview's own tables of *)
(* contents, and the failure of a template.                                *)
(***************************************************************************)
EXTENDS Naturals, Sequences

CONSTANTS Object,      \* identities of settings objects; 0 is the defaults
          Odd,         \* a text that only begins with a number
          NoNumber,    \* a text that is no number at all
          MaxPutOff,   \* bound on the preview updates put off
          NoSettings

MinSize == 1
MaxSize == 2
Setting == [size : MinSize..MaxSize \cup {Odd}, toc : BOOLEAN]
SiteDefaults == [size |-> MinSize, toc |-> FALSE]

ASSUME SettingsAssumption == {0, 1} \subseteq Object /\ NoSettings \notin Setting

VARIABLES
  flavour,   \* "preview", "plain" or "panel"
  autoSave,
  stored,    \* the cookie: the settings saved, or NoSettings
  heap,      \* what each object holds
  selected,  \* the object that is the model's selections
  ready,     \* the templates are there and the buttons are bound
  controls,  \* the settings the controls show
  page,      \* the model of the page's enhancer
  toc,       \* the page's table of contents
  styled,    \* the settings the page's layout, links and inputs follow
  frame,     \* the model of the frame's enhancer
  preview,   \* the model of the preview's enhancer, NoSettings before it exists
  putOff,    \* preview updates put off: the object each one will read
  informed,  \* history: the preview was updated since it exists
  spoilt,    \* history: Cancel made the defaults the model's selections
  panel      \* the sliding panel and the label of its button

shownVars == <<page, toc, styled>>
chosenVars == <<stored, heap, selected, putOff, controls>>
settingsVars == <<flavour, autoSave, ready, frame, preview, informed, spoilt, panel,
                  shownVars, chosenVars>>

Selections == heap[selected]

(* cookieStore.fetch hands out the defaults themselves.                    *)
FetchSaved(saved, objects) == IF saved = NoSettings THEN objects[0] ELSE saved

(***************************************************************************)
(* The enhancer of the page.  A table of contents is created when it is    *)
(* first wanted and drawn once its template has come; what must read the   *)
(* finished page waits for that.                                           *)
(***************************************************************************)
ApplyTocSetting(m) ==
  [state |-> IF m.toc /\ toc.state = "none" THEN "drawing" ELSE toc.state,
   shown |-> m.toc]

UpdatePage(m) ==
  /\ page' = m
  /\ toc' = ApplyTocSetting(m)
  /\ styled' = IF m.toc /\ toc.state = "none" THEN styled ELSE m

AfterRender ==
  /\ toc.state = "drawing"
  /\ toc' = [toc EXCEPT !.state = "drawn"]
  /\ styled' = page
  /\ UNCHANGED <<flavour, autoSave, ready, frame, preview, informed, spoilt, panel,
                 page, chosenVars>>

(***************************************************************************)
(* The options component.                                                  *)
(***************************************************************************)
SettingsInit ==
  /\ flavour \in {"preview", "plain", "panel"}
  /\ autoSave \in BOOLEAN /\ (flavour = "panel" => ~autoSave)
  /\ stored \in {NoSettings} \cup Setting
  /\ selected = 1
  /\ heap = [o \in Object |-> IF o = 1 /\ stored # NoSettings THEN stored ELSE SiteDefaults]
  /\ ready = FALSE
  /\ controls = heap[1]
  /\ page = heap[1]
  /\ toc = [state |-> IF page.toc THEN "drawing" ELSE "none", shown |-> page.toc]
  /\ styled = IF page.toc THEN NoSettings ELSE page
  /\ frame = heap[1]
  /\ preview = NoSettings /\ putOff = <<>> /\ informed = FALSE /\ spoilt = FALSE
  /\ panel = [state |-> "hidden", label |-> "show"]

OnUIOptionsComponentReady ==
  /\ ~ready
  /\ ready' = TRUE
  /\ controls' = Selections
  /\ UNCHANGED <<flavour, autoSave, stored, heap, selected, putOff, shownVars,
                 frame, preview, informed, spoilt, panel>>

(* The listeners of a change: the panel saves and applies it at once, the  *)
(* preview is updated after the handlers that are running.                 *)
Saves == flavour = "panel" \/ autoSave

ModelChanged(new, objects) ==
  /\ stored' = IF Saves THEN objects[new] ELSE stored
  /\ putOff' = IF flavour = "preview" THEN Append(putOff, new) ELSE putOff

(* A refresh that applied the model instead of what is saved would show a  *)
(* reset on the page before it is saved.                                   *)
RefreshUnsaved(saved, objects, changed) ==
  controls' = objects[changed] /\ UpdatePage(objects[changed]) /\ UNCHANGED frame

(* onUIOptionsRefresh: the enhancer reads the store, the controls the model *)
Refresh(saved, objects, changed) ==
  /\ controls' = objects[changed]
  /\ IF flavour = "panel"
     THEN /\ frame' = FetchSaved(saved, objects)
          /\ IF changed = selected THEN UNCHANGED shownVars
             ELSE UpdatePage(objects[changed])
     ELSE UpdatePage(FetchSaved(saved, objects)) /\ UNCHANGED frame

(* textfieldSlider.validateValue: an odd text passes both comparisons.     *)
ValidateValue(old, typed) ==
  CASE typed = NoNumber -> old
    [] typed = Odd   -> Odd
    [] OTHER         -> IF typed < MinSize THEN MinSize
                        ELSE IF typed > MaxSize THEN MaxSize ELSE typed

(* A control changes the selections in place.                              *)
ChangeControl(to) ==
  /\ ready /\ Len(putOff) < MaxPutOff
  /\ heap' = [heap EXCEPT ![selected] = to]
  /\ selected' = selected
  /\ controls' = to
  /\ ModelChanged(selected, heap')
  /\ IF flavour = "panel" THEN UpdatePage(to) ELSE UNCHANGED shownVars
  /\ UNCHANGED <<flavour, autoSave, ready, frame, preview, informed, spoilt, panel>>

TypeSize(typed) ==
  ChangeControl([Selections EXCEPT !.size = ValidateValue(@, typed)])

CheckToc == ChangeControl([Selections EXCEPT !.toc = ~@])

SaveAndApply ==
  /\ ready
  /\ stored' = Selections
  /\ Refresh(stored', heap, selected)
  /\ UNCHANGED <<flavour, autoSave, heap, selected, putOff, ready, preview, informed,
                 spoilt, panel>>

Read(o) == o = 0 \/ \E i \in DOMAIN putOff : o = putOff[i]
Unused(o) == o # selected /\ ~Read(o)

(* The selections become a new object, or that of the defaults.  What an   *)
(* object holds that nothing will read is forgotten.                       *)
Select(o, new) ==
  /\ selected' = o
  /\ heap' = [p \in Object |-> IF p = o THEN new ELSE IF Read(p) THEN heap[p]
                               ELSE SiteDefaults]

(* The plain page saves when it is reset.                                  *)
Reset ==
  /\ ready /\ Len(putOff) < MaxPutOff
  /\ \E o \in Object :
       /\ Unused(o)
       /\ Select(o, heap[0])
       /\ putOff' = IF flavour = "preview" THEN Append(putOff, o) ELSE putOff
       /\ stored' = IF Saves \/ flavour = "plain" THEN heap[0] ELSE stored
       /\ Refresh(stored', heap', o)
  /\ UNCHANGED <<flavour, autoSave, ready, preview, informed, spoilt, panel>>

(* The model takes what the store hands out: a new object parsed from the  *)
(* cookie, or the defaults.                                                *)
CancelChanges ==
  /\ ready /\ Len(putOff) < MaxPutOff
  /\ \E o \in Object :
       /\ IF stored = NoSettings THEN o = 0 ELSE Unused(o)
       /\ Select(o, FetchSaved(stored, heap))
       /\ ModelChanged(o, heap')
       /\ spoilt' = (spoilt \/ o = 0)
       /\ Refresh(stored', heap', o)
  /\ UNCHANGED <<flavour, autoSave, ready, preview, informed, panel>>

(***************************************************************************)
(* The preview and the sliding panel.                                      *)
(***************************************************************************)
PreviewLoads ==
  /\ flavour = "preview" /\ ready /\ preview = NoSettings
  /\ preview' = SiteDefaults
  /\ UNCHANGED <<flavour, autoSave, ready, frame, informed, spoilt, panel, shownVars,
                 chosenVars>>

UpdatePreview ==
  /\ putOff # <<>>
  /\ putOff' = Tail(putOff)
  /\ preview' = IF preview = NoSettings THEN NoSettings ELSE heap[Head(putOff)]
  /\ informed' = (preview # NoSettings)
  /\ UNCHANGED <<flavour, autoSave, stored, heap, selected, ready, controls,
                 shownVars, frame, spoilt, panel>>

TogglePanel ==
  /\ flavour = "panel"
  /\ panel' = IF panel.state = "hidden" THEN [state |-> "showing", label |-> "hide"]
              ELSE [state |-> "hiding", label |-> "show"]
  /\ UNCHANGED <<flavour, autoSave, ready, frame, preview, informed, spoilt, shownVars,
                 chosenVars>>

(* The frame reads the store once the panel is there.                      *)
AfterPanelShow ==
  /\ panel.state = "showing"
  /\ panel' = [panel EXCEPT !.state = "shown"]
  /\ frame' = IF ready THEN FetchSaved(stored, heap) ELSE frame
  /\ UNCHANGED <<flavour, autoSave, ready, preview, informed, spoilt, shownVars, chosenVars>>

AfterPanelHide ==
  /\ panel.state = "hiding"
  /\ panel' = [panel EXCEPT !.state = "hidden"]
  /\ UNCHANGED <<flavour, autoSave, ready, frame, preview, informed, spoilt, shownVars,
                 chosenVars>>

SettingsNext ==
  \/ AfterRender \/ OnUIOptionsComponentReady
  \/ \E typed \in 0..(MaxSize + 1) \cup {Odd, NoNumber} : TypeSize(typed)
  \/ CheckToc \/ SaveAndApply \/ Reset \/ CancelChanges
  \/ PreviewLoads \/ UpdatePreview
  \/ TogglePanel \/ AfterPanelShow \/ AfterPanelHide

SettingsSpec == SettingsInit /\ [][SettingsNext]_settingsVars

-----------------------------------------------------------------------------
SettingsTypeOK ==
  /\ flavour \in {"preview", "plain", "panel"} /\ autoSave \in BOOLEAN
  /\ stored \in {NoSettings} \cup Setting /\ heap \in [Object -> Setting]
  /\ selected \in Object /\ putOff \in Seq(Object) /\ controls \in Setting
  /\ page \in Setting /\ styled \in {NoSettings} \cup Setting
  /\ toc \in [state : {"none", "drawing", "drawn"}, shown : BOOLEAN]
  /\ frame \in Setting /\ preview \in {NoSettings} \cup Setting
  /\ spoilt \in BOOLEAN /\ informed \in BOOLEAN
  /\ panel \in [state : {"hidden", "showing", "shown", "hiding"}, label : {"show", "hide"}]

(* Nothing a user does changes the site's defaults, unless Cancel made     *)
(* them the model when nothing was saved.                                  *)
DefaultsKept == ~spoilt => heap[0] = SiteDefaults

(* The page shows what is saved, or the defaults, until a control that     *)
(* saves at once changes it; the panel's page shows what is selected.      *)
PageFollows ==
  /\ (flavour # "panel" /\ ~autoSave /\ ~spoilt) => page = FetchSaved(stored, heap)
  /\ flavour = "panel" => page = Selections

(* When nothing is put off a preview that was updated once shows the       *)
(* selections, in whatever order objects were replaced meanwhile.          *)
PreviewFollows == (informed /\ putOff = <<>>) => preview = Selections

(* What reads the finished page follows the page's settings, except while  *)
(* the first table of contents is drawn.                                   *)
StylesFollow ==
  /\ toc.state # "drawing" => styled = page
  /\ toc.shown = page.toc

(* The controls show the selections, and the button says what it will do.  *)
ShownAgrees ==
  /\ controls = Selections
  /\ (panel.label = "hide") <=> (panel.state \in {"showing", "shown"})

SettingsHold == DefaultsKept /\ PageFollows /\ PreviewFollows /\ StylesFollow /\ ShownAgrees

(* What makes it inductive: a control changes an object in place, so that  *)
(* only Cancel can have made the defaults the one it changes; and the last *)
(* update put off reads the object that is the model's now.                *)
DefaultsAside == selected = 0 => spoilt

LastIsCurrent ==
  /\ putOff # <<>> => putOff[Len(putOff)] = selected
  /\ preview = NoSettings => ~informed
  /\ flavour # "preview" => putOff = <<>> /\ preview = NoSettings

SettingsInv == SettingsTypeOK /\ SettingsHold /\ DefaultsAside /\ LastIsCurrent
=============================================================================
