----------------------------- MODULE InlineEdit -----------------------------
(***************************************************************************)
(* fluid.inlineEdit with fluid.undoDecorator (MyInfusion.js): texts of a   *)
(* page that turn into a field when clicked, and a link that undoes the    *)
(* last edit of a text or does it again.                                   *)
(*                                                                         *)
(* Moving the focus and putting a field back after a cancelled edit are    *)
(* left to timers of 0 and 1 ms; the browser runs them in the order they   *)
(* were set, but events of the user may come first.                        *)
(***************************************************************************)
EXTENDS Naturals, Sequences, FiniteSets

CONSTANTS
  Editor,      \* the editable texts of the page
  Text,        \* their values
  Empty,       \* the empty text
  Rejected,    \* values an onFinishEdit listener refuses
  MaxTimeouts, \* bound: timers set and not yet run
  NoEditor

ASSUME TextAssumption == Empty \in Text /\ Rejected \subseteq Text
ASSUME EditorAssumption == NoEditor \notin Editor /\ MaxTimeouts \in Nat

VARIABLES
  value,       \* model.value of a text
  display,     \* what is displayed: the value, or "default" in place of nothing
  field,       \* the value of the edit field
  editing,     \* the editors whose isEditing() is true
  fieldsShown, \* the editors that show the field
  fieldFocus,  \* the editor whose field has the focus
  timeouts,    \* callbacks set with setTimeout, in order
  undo,        \* the undo decorator: state, initialModel, extremalModel
  commits      \* history: the last change of a text by its user, as <<from, to>>

editVars == <<value, display, field, editing, fieldsShown, fieldFocus, timeouts,
              undo, commits>>

Default == "default"
Displayed(v) == IF v = Empty THEN Default ELSE v

EditInit ==
  /\ value \in [Editor -> Text]
  /\ display = [e \in Editor |-> Displayed(value[e])]
  /\ field = value
  /\ editing = {} /\ fieldsShown = {} /\ fieldFocus = NoEditor /\ timeouts = <<>>
  /\ undo = [e \in Editor |-> [state |-> "initial", initial |-> value[e],
                               extremal |-> value[e]]]
  /\ commits = [e \in Editor |-> <<value[e], value[e]>>]

(***************************************************************************)
(* updateModelValue for some texts, without a source: a change fires       *)
(* modelChanged, at which the decorator remembers the old model, and draws *)
(* the display and the field anew.                                         *)
(***************************************************************************)
UpdateModelValues(new) ==
  LET changed == {e \in DOMAIN new : new[e] # value[e]}
      remembered(e) == [undo[e] EXCEPT !.state = "changed", !.initial = value[e]]
  IN  /\ value' = [e \in Editor |-> IF e \in changed THEN new[e] ELSE value[e]]
      /\ display' = [e \in Editor |-> IF e \in changed THEN Displayed(new[e]) ELSE display[e]]
      /\ field' = [e \in Editor |-> IF e \in changed THEN new[e] ELSE field[e]]
      /\ undo' = [e \in Editor |-> IF e \in changed THEN remembered(e) ELSE undo[e]]
      /\ commits' = [e \in Editor |-> IF e \in changed THEN <<value[e], new[e]>>
                                      ELSE commits[e]]

(* makeIsEditing: who edits after some began and some finished an edit.    *)
IsEditing(began, finished) == (editing \ finished) \cup began

(* finish: the value of the field becomes the model's, unless a listener   *)
(* refuses it: then the edit goes on.                                      *)
Done(S) == {e \in S : field[e] \notin Rejected}
Finish(S) ==
  /\ UpdateModelValues([e \in Done(S) |-> field[e]])
  /\ editing' = IsEditing({}, Done(S))
  /\ fieldsShown' = fieldsShown \ Done(S)

(* blurHandler: the field that loses the focus finishes its edit.          *)
Blurred == {fieldFocus} \cap editing

(* makeEditHandler: the mouse takes the focus from where it was; the model *)
(* takes over what is displayed; the field gets the focus by a timer.      *)
Edit(e) ==
  LET done  == Done(Blurred)
      taken == IF value[e] = Empty THEN Empty ELSE display[e]
  IN  /\ e \notin fieldsShown /\ Len(timeouts) < MaxTimeouts
      /\ UpdateModelValues([f \in done \cup {e} |-> IF f = e THEN taken ELSE field[f]])
      /\ editing' = IsEditing({e}, done)
      /\ fieldsShown' = (fieldsShown \ done) \cup {e}
      /\ fieldFocus' = NoEditor
      /\ timeouts' = Append(timeouts, <<"caret", e>>)

Type(e, v) ==
  /\ fieldFocus = e /\ e \in editing
  /\ field' = [field EXCEPT ![e] = v]
  /\ UNCHANGED <<value, display, editing, fieldsShown, fieldFocus, timeouts, undo,
                 commits>>

(* finishHandler on Enter.                                                 *)
Enter(e) ==
  /\ fieldFocus = e /\ e \in editing /\ Len(timeouts) < MaxTimeouts
  /\ Finish({e})
  /\ timeouts' = Append(timeouts, <<"button", e>>)
  /\ UNCHANGED fieldFocus

(* cancel hides the field at once and puts it back later.                  *)
(* a bug: what was typed stays in the hidden field.                        *)
CancelWithoutReset(e, set) ==
  /\ editing' = IsEditing({}, {e})
  /\ fieldsShown' = fieldsShown \ {e}
  /\ timeouts' = set
Cancel(e, set) ==
  /\ editing' = IsEditing({}, {e})
  /\ fieldsShown' = fieldsShown \ {e}
  /\ timeouts' = Append(set, <<"reset", e>>)

(* escHandler: the edit button will get the focus, and the edit is over.   *)
EscHandler(e) ==
  /\ fieldFocus = e /\ e \in fieldsShown /\ Len(timeouts) + 1 < MaxTimeouts
  /\ Cancel(e, Append(timeouts, <<"button", e>>))
  /\ UNCHANGED <<value, display, field, fieldFocus, undo, commits>>

(* A click elsewhere on the page, or the browser leaves a hidden field.    *)
Blur ==
  /\ fieldFocus # NoEditor
  /\ Finish(Blurred)
  /\ fieldFocus' = NoEditor
  /\ UNCHANGED timeouts

(* The focus goes to a field, from where it was.                           *)
FocusField(e) == Finish(Blurred \ {e}) /\ fieldFocus' = e

(* A click into a field that is shown without the focus, once its caret    *)
(* has been set.                                                           *)
CaretPending(e) == \E i \in DOMAIN timeouts : timeouts[i] = <<"caret", e>>
ClickField(e) ==
  /\ e \in fieldsShown /\ fieldFocus # e /\ ~CaretPending(e)
  /\ FocusField(e) /\ UNCHANGED timeouts

(* The timers: the caret goes to the field, the focus to the edit button   *)
(* (what is hidden takes no focus), the field takes the model's value.     *)
RunTimer ==
  /\ timeouts # <<>>
  /\ timeouts' = Tail(timeouts)
  /\ LET kind   == Head(timeouts)[1]
         e      == Head(timeouts)[2]
         hidden == IF kind = "caret" THEN e \notin fieldsShown ELSE e \in fieldsShown
     IN  CASE kind # "reset" /\ hidden -> UNCHANGED
                <<value, display, field, editing, fieldsShown, fieldFocus, undo,
                  commits>>
           [] kind = "caret" /\ ~hidden -> FocusField(e)
           [] kind = "button" /\ ~hidden -> Finish(Blurred) /\ fieldFocus' = NoEditor
           [] kind = "reset" ->
                /\ field' = [field EXCEPT ![e] = value[e]]
                /\ UNCHANGED <<value, display, editing, fieldsShown, fieldFocus, undo,
                               commits>>

(***************************************************************************)
(* The links of the decorator, each shown in one state only: updateModel   *)
(* with the decorator as the source, which modelChanged then ignores.      *)
(***************************************************************************)
ShownLink(e) ==
  CASE undo[e].state = "initial"  -> "neither"
    [] undo[e].state = "changed"  -> "undo"
    [] undo[e].state = "reverted" -> "redo"

UpdateModel(e, v) ==
  /\ value' = [value EXCEPT ![e] = v]
  /\ display' = [display EXCEPT ![e] = IF v = value[e] THEN @ ELSE Displayed(v)]
  /\ field' = [field EXCEPT ![e] = IF v = value[e] THEN @ ELSE v]

Undo(e) ==
  /\ fieldFocus = NoEditor             \* the mouse takes the focus first: Blur
  /\ ShownLink(e) = "undo"
  /\ UpdateModel(e, undo[e].initial)
  /\ undo' = [undo EXCEPT ![e].extremal = value[e], ![e].state = "reverted"]
  /\ UNCHANGED <<editing, fieldsShown, fieldFocus, timeouts, commits>>

Redo(e) ==
  /\ fieldFocus = NoEditor
  /\ ShownLink(e) = "redo"
  /\ UpdateModel(e, undo[e].extremal)
  /\ undo' = [undo EXCEPT ![e].state = "changed"]
  /\ UNCHANGED <<editing, fieldsShown, fieldFocus, timeouts, commits>>

EditNext ==
  \/ \E e \in Editor : \/ Edit(e) \/ Enter(e) \/ EscHandler(e) \/ ClickField(e)
                       \/ Undo(e) \/ Redo(e)
                       \/ \E v \in Text : Type(e, v)
  \/ Blur \/ RunTimer

EditSpec == EditInit /\ [][EditNext]_editVars
-----------------------------------------------------------------------------
EditTypeOK ==
  /\ value \in [Editor -> Text] /\ field \in [Editor -> Text]
  /\ display \in [Editor -> Text \cup {Default}]
  /\ editing \subseteq Editor /\ fieldsShown = editing
  /\ fieldFocus \in Editor \cup {NoEditor}
  /\ timeouts \in Seq({"caret", "button", "reset"} \X Editor)
  /\ undo \in [Editor -> [state : {"initial", "changed", "reverted"},
                          initial : Text, extremal : Text]]

(* One step back and forth: the decorator holds the values before and      *)
(* after the last change its user made, whatever was edited, cancelled,    *)
(* undone and redone in between.                                           *)
UndoHolds ==
  \A e \in Editor :
    LET from == commits[e][1]
        to   == commits[e][2]
    IN  CASE undo[e].state = "initial"  -> value[e] = to
          [] undo[e].state = "changed"  -> value[e] = to /\ undo[e].initial = from
          [] undo[e].state = "reverted" -> value[e] = from /\ undo[e].extremal = to

(* Every text displays its value.  Once the timers have run, a field that  *)
(* differs from the value is the one its user stands in, or was refused:   *)
(* no text typed elsewhere waits to be forgotten.                          *)
EditorsAgree ==
  /\ \A e \in Editor : display[e] = Displayed(value[e])
  /\ timeouts = <<>> => \A e \in Editor : field[e] # value[e] =>
       e \in editing /\ (e = fieldFocus \/ field[e] \in Rejected)

EditsHold == UndoHolds /\ EditorsAgree

(* Once the caret stands in a field, what is typed there is changed by     *)
(* nobody else but an undo: the late reset of a cancelled edit never       *)
(* reaches the text of the next edit.                                      *)
TypedIsKept ==
  \A e \in Editor : e \in editing \cap editing' /\ field'[e] # field[e]
    => fieldFocus = e \/ undo'[e] # undo[e] \/ CaretPending(e)

(* What holds between the timers: a change undone is the last one, a field *)
(* that went astray will be reset, and if its text is edited again by      *)
(* then, the caret comes after the reset.                                  *)
RevertedToFirst ==
  \A e \in Editor : undo[e].state = "reverted" => undo[e].initial = commits[e][1]

ResetPending(e) == \E i \in DOMAIN timeouts : timeouts[i] = <<"reset", e>>

FieldsFollow ==
  \A e \in Editor : field[e] # value[e] =>
    \/ e \in editing /\ (e = fieldFocus \/ field[e] \in Rejected)
    \/ ResetPending(e)

ResetBeforeCaret ==
  \A i \in DOMAIN timeouts : \A e \in editing : timeouts[i] = <<"reset", e>> =>
    \E j \in DOMAIN timeouts : j > i /\ timeouts[j] = <<"caret", e>>

EditInv == EditTypeOK /\ EditsHold /\ RevertedToFirst /\ FieldsFollow /\ ResetBeforeCaret
=============================================================================
