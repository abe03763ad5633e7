-------------------------------- MODULE MCPage --------------------------------
(***************************************************************************)
(* Small instances of the components that wait for nothing, checked in one *)
(* run: the login flow, the services manager with one administrator, the   *)
(* page of services, and those scripts of the pages that only events move. *)
(* They share nothing, so a behaviour is one of one of them, its host, and *)
(* the others stay as they are at the start.  Those that are extended have *)
(* their own variables; v1, v2, ... hold the variables of any other host,  *)
(* and the ones it has no use for stay None.  A component is checked by itself when     *)
(* Host holds its name only.                                               *)
(***************************************************************************)
EXTENDS MCServicesManager, LoginFlow, ServicesPage, ChangeApplier, Dialog,
        Slider, InlineEdit, Events, Settings, Selection, Draggable,
        TLC

CONSTANTS
  Host,                        \* the components to check
  m1, m2, m3,                  \* whatever a component tells apart by name
  PlainText, Bad

VARIABLES host, v1, v2, v3, v4, v5, v6, v7, v8, v9, v10, v11

slots    == <<v1, v2, v3, v4, v5, v6, v7, v8, v9, v10, v11>>
widgets  == <<modelVars, dialogVars, sliderVars, editVars, eventVars, settingsVars,
              selectionVars, dragVars>>
pageVars == <<host, slots, vars, loginVars, tableVars, widgets>>

(* Three services in a strict order; moves make the ties (ServicesPage).   *)
InOrder == {<<0, 1, 2>>}

(* A column of ties and a column of a mixed order (Pager).                 *)
Records == ("ties" :> [i \in 0 .. 7 |-> i \div 3]) @@ ("mixed" :> [i \in 0 .. 7 |-> (i * 5) % 7])

(* One module is as high as two others (ModuleLayout).                     *)
Heights == m1 :> 16 @@ m2 :> 32 @@ m3 :> 16

Progress == INSTANCE Progress WITH
  direction <- v1, fx <- v2, timers <- v3, wanted <- v4, crossed <- v5,
  stored <- v6, width <- v7, bar <- v8, fell <- v9, aria <- v10,
  nulled <- v11, Full <- 2, MinWidth <- 1, MaxTimers <- 1, MaxEffects <- 2
SelectorFilters == INSTANCE SelectorFilters WITH
  kids <- v1, marked <- v2, sizcache <- v3, nodeIndex <- v4, done <- v5,
  query <- v6, loop <- v7, left <- v8, asked <- v9, phase <- v10, N <- 2,
  Factor <- 2, MaxFilters <- 2, MaxQueries <- 2
Components == INSTANCE Components WITH
  options <- v1, member <- v2, idToPath <- v3, pathToComponent <- v4,
  frames <- v5, ids <- v6, fires <- v7, failed <- v8, nested <- v9,
  tangled <- v10, Name <- {m1, m2}, Child <- m3, MaxIds <- 9, MaxFires <- 2
Sizzle == INSTANCE Sizzle WITH
  parent <- v1, name <- v2, withId <- v3, query <- v4, set <- v5,
  checkSet <- v6, todo <- v7, results <- v8, phase <- v9, N <- 3,
  Name <- {m1, m2}, MaxParts <- 3
Listeners == INSTANCE Listeners WITH
  kind <- v1, listeners <- v2, sorted <- v3, firings <- v4, adds <- v5,
  asAdded <- v6, Listener <- {m1, m2}, Namespace <- m3, MaxDepth <- 2,
  MaxAdds <- 2
Layout == INSTANCE ModuleLayout WITH
  page <- v1, layout <- v2, predicted <- v3, label <- v4, moved <- v5,
  focus <- v6, Module <- {m1, m2, m3}, Locked <- {m3}, Height <- Heights,
  Columns <- 3
Tabs == INSTANCE Tabs WITH
  opt <- v1, tab <- v2, current <- v3, named <- v4, strayed <- v5,
  Tab <- {m1, m2}, HasUrl <- {m1, m2}, First <- <<m1, m2>>, NoTab <- None
Pager == INSTANCE Pager WITH
  model <- v1, permutation <- v2, rows <- v3, bar <- v4, seen <- v5,
  MaxRange <- 8, PageSizes <- {1, 3}, Column <- {"ties", "mixed"},
  Value <- Records, Locality <- 1, MidLocality <- 1
Placement == INSTANCE Placement WITH
  asked <- v1, css <- v2, wanted <- v3, Window <- 10, Scrolls <- {0, 3},
  Places <- {0, 5, 9}, Sizes <- {3, 4}, Margin <- 1, Offsets <- {0, 2},
  Origins <- {0, 2}
RelativeUrl == INSTANCE RelativeUrl WITH
  outer <- v1, inner <- v2, rel <- v3, Name <- {m1, m2}, Up <- m3,
  MaxDepth <- 3, MaxUp <- 2
Options == INSTANCE Options WITH
  parents <- v1, shape <- v2, policy <- v3, Grade <- 1 .. 4, Field <- {m1},
  Plain <- PlainText
Demands == INSTANCE Demands WITH
  dependentStore <- v1, aliasTable <- v2, answer <- v3, Func <- {m1, m2},
  Contexts <- {1, 2}, MaxBlocks <- 2
Headings == INSTANCE Headings WITH
  headings <- v1, gradual <- v2, Level <- 1 .. 4, MaxHeadings <- 5

ASSUME Pager!RangeAssumption /\ Pager!LocalityAssumption /\ Pager!ValueAssumption

-----------------------------------------------------------------------------
(* The components with variables of their own start in one way only, but   *)
(* for the host.                                                           *)
OneOption == CHOOSE o \in Option : TRUE

OneStart ==
  /\ host # "LoginFlow"     => service = [enabled |-> TRUE, sso |-> TRUE, listed |-> TRUE]
  /\ host # "ChangeApplier" => cull = TRUE /\ guarded = TRUE /\ model = (m1 :> 0 @@ m2 :> 1)
  /\ host # "Slider"        => values = [h \in Handle |-> 0]
  /\ host # "InlineEdit"    => value = [e \in Editor |-> Empty]
  /\ host # "Settings"      => flavour = "plain" /\ autoSave = TRUE /\ stored = NoSettings
  /\ host # "Selection"     => selectables = <<>>
  /\ host # "Draggable"     => opt = OneOption

(* What a host has no use for: the slots from some number on, and those    *)
(* components.                                                             *)
Blank12 ==
  /\ OneStart
  /\ Init /\ LoginInit /\ TableInit /\ ModelInit /\ DialogInit /\ SliderInit
  /\ EditInit /\ EventsInit /\ SettingsInit /\ SelectionInit /\ DragInit
Blank11 == v11 = None /\ Blank12
Blank10 == v10 = None /\ Blank11
Blank9 == v9 = None /\ Blank10
Blank8 == v8 = None /\ Blank9
Blank7 == v7 = None /\ Blank8
Blank6 == v6 = None /\ Blank7
Blank5 == v5 = None /\ Blank6
Blank4 == v4 = None /\ Blank5
Blank3 == v3 = None /\ Blank4
Blank2 == v2 = None /\ Blank3
Blank1 == v1 = None /\ Blank2

Keep12 == UNCHANGED <<vars, loginVars, tableVars, widgets>>
Keep11 == UNCHANGED v11 /\ Keep12
Keep10 == UNCHANGED v10 /\ Keep11
Keep9 == UNCHANGED v9 /\ Keep10
Keep8 == UNCHANGED v8 /\ Keep9
Keep7 == UNCHANGED v7 /\ Keep8
Keep6 == UNCHANGED v6 /\ Keep7
Keep5 == UNCHANGED v5 /\ Keep6
Keep4 == UNCHANGED v4 /\ Keep5
Keep3 == UNCHANGED v3 /\ Keep4

OwnVariables == {"ServicesManager", "LoginFlow", "ServicesPage", "ChangeApplier",
                 "Dialog", "Slider", "InlineEdit", "Events", "Settings",
                 "Selection", "Draggable"}

PageInit ==
  /\ host \in Host
  /\ \/ host \in OwnVariables /\ Blank1
     \/ host = "Progress" /\ Progress!Init /\ Blank12
     \/ host = "SelectorFilters" /\ SelectorFilters!Init /\ Blank11
     \/ host = "Components" /\ Components!Init /\ Blank11
     \/ host = "Sizzle" /\ Sizzle!Init /\ Blank10
     \/ host = "Listeners" /\ Listeners!Init /\ Blank7
     \/ host = "ModuleLayout" /\ Layout!Init /\ Blank7
     \/ host = "Tabs" /\ Tabs!AriaInit /\ Blank6
     \/ host = "Pager" /\ Pager!Init /\ Blank6
     \/ host = "Placement" /\ Placement!Init /\ Blank4
     \/ host = "RelativeUrl" /\ RelativeUrl!Init /\ Blank4
     \/ host = "Options" /\ Options!Init /\ Blank4
     \/ host = "Demands" /\ Demands!Init /\ Blank4
     \/ host = "Headings" /\ Headings!Init /\ Blank3

At(component) == host = component /\ UNCHANGED host

OwnNext ==
  \/ /\ UNCHANGED widgets
     /\ \/ At("ServicesManager") /\ Next /\ UNCHANGED <<loginVars, tableVars>>
        \/ At("LoginFlow") /\ LoginNext /\ UNCHANGED <<vars, tableVars>>
        \/ At("ServicesPage") /\ TableNext /\ UNCHANGED <<vars, loginVars>>
  \/ /\ UNCHANGED <<vars, loginVars, tableVars>>
     /\ \/ At("ChangeApplier") /\ ModelNext
           /\ UNCHANGED <<dialogVars, sliderVars, editVars, eventVars, settingsVars, selectionVars,
                          dragVars>>
        \/ At("Dialog") /\ DialogNext
           /\ UNCHANGED <<modelVars, sliderVars, editVars, eventVars, settingsVars, selectionVars,
                          dragVars>>
        \/ At("Slider") /\ SliderNext
           /\ UNCHANGED <<modelVars, dialogVars, editVars, eventVars, settingsVars, selectionVars,
                          dragVars>>
        \/ At("InlineEdit") /\ EditNext
           /\ UNCHANGED <<modelVars, dialogVars, sliderVars, eventVars, settingsVars, selectionVars,
                          dragVars>>
        \/ At("Events") /\ EventsNext
           /\ UNCHANGED <<modelVars, dialogVars, sliderVars, editVars, settingsVars, selectionVars,
                          dragVars>>
        \/ At("Settings") /\ SettingsNext
           /\ UNCHANGED <<modelVars, dialogVars, sliderVars, editVars, eventVars,
                          selectionVars, dragVars>>
        \/ At("Selection") /\ SelectionNext
           /\ UNCHANGED <<modelVars, dialogVars, sliderVars, editVars, eventVars,
                          settingsVars, dragVars>>
        \/ At("Draggable") /\ DragNext
           /\ UNCHANGED <<modelVars, dialogVars, sliderVars, editVars, eventVars,
                          settingsVars, selectionVars>>

PageNext ==
  \/ UNCHANGED slots /\ OwnNext
  \/ At("Progress") /\ Progress!Next /\ Keep12
  \/ At("SelectorFilters") /\ SelectorFilters!Next /\ Keep11
  \/ At("Components") /\ Components!Next /\ Keep11
  \/ At("Sizzle") /\ Sizzle!Next /\ Keep10
  \/ At("Listeners") /\ Listeners!Next /\ Keep7
  \/ At("ModuleLayout") /\ Layout!Next /\ Keep7
  \/ At("Tabs") /\ Tabs!AriaNext /\ Keep6
  \/ At("Pager") /\ Pager!Next /\ Keep6
  \/ At("Placement") /\ Placement!Next /\ Keep4
  \/ At("RelativeUrl") /\ RelativeUrl!Next /\ Keep4
  \/ At("Options") /\ Options!Next /\ Keep4
  \/ At("Demands") /\ Demands!Next /\ Keep4
  \/ At("Headings") /\ Headings!Next /\ Keep3

PageSpec == PageInit /\ [][PageNext]_pageVars

-----------------------------------------------------------------------------

(* What a step may not do: a moved row leaves the services out of order or *)
(* another row elsewhere (services.js), a page turned to shows other       *)
(* records than its link announced (Pager), a late callback overwrites     *)
(* what is typed (InlineEdit), a dialog opens beneath another (Dialog).    *)
MovesHold ==
  /\ MoveKeepsOrder /\ OthersStay
  /\ [][TypedIsKept]_editVars /\ [][OpensOnTop]_dialogVars
  /\ [][host = "Pager" => Pager!RangesHold]_pageVars


=============================================================================
