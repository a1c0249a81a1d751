----------------------------- MODULE TuiProofs -----------------------------
(***************************************************************************)
(* Proofs about the user interface: the focus of the forms (TuiForms), and *)
(* what confirmations may destroy (TuiApp), for any jobs, answers and      *)
(* other clients.                                                          *)
(***************************************************************************)
EXTENDS TuiApp, TuiForms, FiniteSetTheorems, TLAPS

(***************************************************************************)
(* TuiForms.                                                               *)
(***************************************************************************)
FormsTypeOK ==
    /\ activeSection \in {"executions", "transfers", "newCommand", "newTransfer",
                          "connection"}
    /\ activeFocus \in FocusAreas
    /\ formCursor \in Nat
    /\ commandMode \in 0 .. 2 /\ transferMode \in 0 .. 2
    /\ submissions \subseteq {"executions", "transfers"}

\* The cursor is on a field of the form of the section even while the focus is
\* elsewhere, so that the focus may come back at any time.
CursorFits ==
    MainPanel(activeSection) = "form" =>
        formCursor < FieldCount(activeSection, commandMode, transferMode)

FormsInv == FormsTypeOK /\ CursorFits /\ FocusFitsSection

LEMMA SidebarSections ==
    /\ DOMAIN Sidebar = 1 .. 5
    /\ Sidebar[1] = "executions" /\ Sidebar[2] = "transfers"
    /\ Sidebar[3] = "newCommand" /\ Sidebar[4] = "newTransfer"
    /\ Sidebar[5] = "connection"
BY DEF Sidebar

\* A form has fields, and the lists have none.
LEMMA FieldsOfForms ==
    ASSUME NEW sec \in {"executions", "transfers", "newCommand", "newTransfer",
                        "connection"},
           NEW c \in 0 .. 2, NEW t \in 0 .. 2
    PROVE  /\ FieldCount(sec, c, t) \in 0 .. 5
           /\ MainPanel(sec) = "form" => FieldCount(sec, c, t) > 0
<1>1. CommandModes[c + 1] = "argv" \/ CommandModes[c + 1] # "argv"
  OBVIOUS
<1>2. TransferModes[t + 1] = "upload" \/ TransferModes[t + 1] # "upload"
  OBVIOUS
<1> QED
  BY <1>1, <1>2 DEF FieldCount, MainPanel

LEMMA FormsInvInit == FormsInit => FormsInv
BY DEF FormsInit, FormsInv, FormsTypeOK, CursorFits, FocusFitsSection, FocusAreas,
       MainPanel

LEMMA FormsInvStep == FormsInv /\ [FormsNext]_formsVars => FormsInv'
<1> SUFFICES ASSUME FormsInv, [FormsNext]_formsVars
             PROVE  FormsInv'
  OBVIOUS
<1> USE DEF FormsInv, FormsTypeOK, CursorFits, FocusFitsSection
<1> DEFINE count == FieldCount(activeSection, commandMode, transferMode)
<1>0. count \in 0 .. 5 /\ (MainPanel(activeSection) = "form" => count > 0)
  BY FieldsOfForms
<1>1. CASE FormsTab
  BY <1>0, <1>1 DEF FormsTab, SyncFormFocus, NextFocus, PrevFocus, MainPanel, FocusAreas
<1>2. CASE SidebarMove
  BY <1>0, <1>2, FieldsOfForms, SidebarSections DEF SidebarMove, SyncFormFocus
<1>3. CASE SwitchMode
  BY <1>0, <1>3, FieldsOfForms DEF SwitchMode, SyncFormFocus, MainPanel
<1>4. CASE SubmitForm
  BY <1>0, <1>4, FieldsOfForms DEF SubmitForm, SyncFormFocus, MainPanel
<1>5. CASE TakeSubmission
  BY <1>0, <1>5 DEF TakeSubmission, MainPanel, FocusAreas
<1>6. CASE SubmissionFails
  BY <1>6 DEF SubmissionFails
<1>7. CASE UNCHANGED formsVars
  BY <1>7 DEF formsVars
<1> QED
  BY <1>1, <1>2, <1>3, <1>4, <1>5, <1>6, <1>7 DEF FormsNext

\* Focus, cursor and focused field belong together, however tabs, modes, submissions and
\* their late answers mix (app.go:435-467, 576-599, 846-910, 1709-1765).
THEOREM FocusAlwaysFits == FormsSpec => []FocusFitsSection
<1>1. FormsInv => FocusFitsSection
  BY DEF FormsInv
<1> QED
  BY FormsInvInit, FormsInvStep, <1>1, PTL DEF FormsSpec

(***************************************************************************)
(* TuiApp.                                                                 *)
(***************************************************************************)

\* What is armed is what was announced, and nothing is while the prompt takes the keys.
ArmedIsAnnounced ==
    /\ PromptTakesKeys => pendingAction = "none"
    /\ pendingAction = "delete" => announced = {pendingTargetID}
    /\ pendingAction = "clear" => announced = Jobs

\* A step that asks the daemon to destroy nothing.
AsksNothing == \A m \in mail' \ mail : m.op \notin {"delete", "clear"}

Confirmed ==
    \A m \in mail' \ mail :
        /\ m.op = "delete" => announced = {m.id}
        /\ m.op = "clear" => announced = Jobs

LEMMA AsksNothingIsConfirmed == AsksNothing => Confirmed
BY DEF AsksNothing, Confirmed

LEMMA LoadAsksNothing ==
    ASSUME NEW id, NEW inbox, NEW open, inbox \subseteq mail, LoadDetail(id, inbox, open)
    PROVE  AsksNothing /\ (prompt' => open)
BY DEF LoadDetail, AsksNothing, JobAnswer

LEMMA RefreshAsksNothing ==
    ASSUME NEW gone, mail' = Refreshed \ gone
    PROVE  AsksNothing
BY DEF Refreshed, AsksNothing, ListAnswer

LEMMA ArmedInit == TuiInit => ArmedIsAnnounced
BY DEF TuiInit, ArmedIsAnnounced, PromptTakesKeys

LEMMA AnswersConfirmed ==
    ASSUME ArmedIsAnnounced, NEW m \in mail, TakeAnswer(m)
    PROVE  ArmedIsAnnounced' /\ AsksNothing
<1> USE DEF ArmedIsAnnounced, PromptTakesKeys, placeVars, panelVars, pendingVars,
            listVars
<1>1. CASE TakeList(m)
  BY <1>1, LoadAsksNothing DEF TakeList
<1>2. CASE TakeDetail(m)
  BY <1>2 DEF TakeDetail, AsksNothing
<1>3. CASE TakeSubmitted(m)
  BY <1>3, RefreshAsksNothing DEF TakeSubmitted
<1>4. CASE TakeRefresh(m)
  BY <1>4, RefreshAsksNothing DEF TakeRefresh
<1>5. CASE TakeDeleted(m)
  BY <1>5, RefreshAsksNothing DEF TakeDeleted
<1> QED
  BY <1>1, <1>2, <1>3, <1>4, <1>5 DEF TakeAnswer

LEMMA KeysConfirmed ==
    ASSUME ArmedIsAnnounced, Key
    PROVE  ArmedIsAnnounced' /\ Confirmed
<1> USE AsksNothingIsConfirmed
    DEF ArmedIsAnnounced, PromptTakesKeys, asyncVars, placeVars, panelVars, pendingVars,
        listVars, Disarm, KeyReady
<1>1. CASE KeyTab
  BY <1>1 DEF KeyTab, AsksNothing
<1>2. CASE KeyOther
  BY <1>2 DEF KeyOther, AsksNothing
<1>3. CASE KeyIgnored
  BY <1>3 DEF KeyIgnored, tuiVars, AsksNothing
<1>4. CASE KeyRefresh
  BY <1>4 DEF KeyRefresh, AsksNothing, Refreshed, ListAnswer
<1>5. CASE KeyViewOutput
  BY <1>5, LoadAsksNothing DEF KeyViewOutput
<1>6. CASE KeyDelete
  <2>1. Confirmed
    BY <1>6 DEF KeyDelete, AskDelete, Confirmed, JobAnswer
  <2>2. ArmedIsAnnounced'
    BY <1>6 DEF KeyDelete, CanDelete
  <2> QED
    BY <2>1, <2>2
<1>7. CASE KeyClear
  <2>1. Confirmed
    BY <1>7 DEF KeyClear, Confirmed
  <2>2. ArmedIsAnnounced'
    BY <1>7 DEF KeyClear
  <2> QED
    BY <2>1, <2>2
<1>8. CASE KeyCancel
  BY <1>8 DEF KeyCancel, AsksNothing
<1>9. CASE KeySection
  BY <1>9, LoadAsksNothing DEF KeySection
<1>10. CASE KeyList
  <2>1. AsksNothing
    BY <1>10, LoadAsksNothing DEF KeyList
  <2> QED
    BY <1>10, <2>1 DEF KeyList
<1>11. CASE KeyInput
  BY <1>11 DEF KeyInput, AsksNothing
<1>12. CASE KeyEOF
  BY <1>12 DEF KeyEOF, Input, AsksNothing
<1>13. CASE KeyPrompt
  BY <1>13 DEF KeyPrompt, Input, AsksNothing
<1>14. CASE KeySubmitForm
  BY <1>14 DEF KeySubmitForm, JobAnswer, AsksNothing
<1> QED
  BY <1>1, <1>2, <1>3, <1>4, <1>5, <1>6, <1>7, <1>8, <1>9, <1>10, <1>11, <1>12, <1>13,
     <1>14 DEF Key

LEMMA ArmedStep ==
    ArmedIsAnnounced /\ [TuiNext]_tuiVars => ArmedIsAnnounced' /\ Confirmed
<1> SUFFICES ASSUME ArmedIsAnnounced, [TuiNext]_tuiVars
             PROVE  ArmedIsAnnounced' /\ Confirmed
  OBVIOUS
<1> USE AsksNothingIsConfirmed
    DEF ArmedIsAnnounced, PromptTakesKeys, asyncVars, placeVars, panelVars, pendingVars
<1>1. CASE \E m \in mail : TakeAnswer(m)
  BY <1>1, AnswersConfirmed
<1>2. CASE ServerMoves
  BY <1>2 DEF ServerMoves, AsksNothing
<1>3. CASE Tick
  BY <1>3 DEF Tick, AsksNothing, Refreshed, ListAnswer
<1>4. CASE Key
  BY <1>4, KeysConfirmed
<1>5. CASE Rest
  BY <1>5 DEF Rest, AsksNothing
<1>6. CASE UNCHANGED tuiVars
  BY <1>6 DEF tuiVars, AsksNothing
<1> QED
  BY <1>1, <1>2, <1>3, <1>4, <1>5, <1>6 DEF TuiNext

\* What is deleted or cleared is what the last x or X that was not ignored asked about,
\* with no other key since, whatever answers and other clients did in between
\* (app.go:560-637).
THEOREM DestructionConfirmed == TuiSpec => DestructionIsConfirmed
<1>1. ArmedIsAnnounced /\ [TuiNext]_tuiVars => [Confirmed]_tuiVars
  BY ArmedStep
<1> QED
  BY ArmedInit, ArmedStep, <1>1, PTL DEF TuiSpec, DestructionIsConfirmed, Confirmed

(***************************************************************************)
(* The selection.                                                          *)
(***************************************************************************)

\* The index of an item finds it again: two items of a list have different indexes.
LEMMA IndexFindsItem ==
    ASSUME NEW list \in SUBSET Jobs, NEW id \in list
    PROVE  ItemAt(list, IndexOf(list, id)) = id
<1> DEFINE Above(k) == {j \in list : j > k}
<1>1. IsFiniteSet(list) /\ list \subseteq Nat
  BY FS_Subset, TuiAssumption
<1>2. \A k \in list : IsFiniteSet(Above(k)) /\ IndexOf(list, k) = Cardinality(Above(k))
                        /\ IndexOf(list, k) \in Nat
  BY <1>1, FS_Subset, FS_CardinalityType DEF IndexOf
<1>3. ASSUME NEW i \in list, NEW j \in list, i < j
      PROVE  IndexOf(list, j) # IndexOf(list, i)
  <2>1. /\ \A k \in list : k > j => k > i
        /\ j > i /\ ~(j > j)
    BY <1>1, <1>3
  <2>2. IsFiniteSet(Above(i)) /\ Above(j) \in SUBSET Above(i) /\ Above(j) # Above(i)
    BY <2>1, <1>2, Zenon
  <2>3. Cardinality(Above(j)) # Cardinality(Above(i))
    <3> HIDE DEF Above
    <3> QED
      BY <2>2, FS_Subset
  <2> QED
    BY <2>3, <1>2
<1>4. \A k \in list : IndexOf(list, k) = IndexOf(list, id) => k = id
  <2> SUFFICES ASSUME NEW k \in list, k # id
               PROVE  IndexOf(list, k) # IndexOf(list, id)
    OBVIOUS
  <2>1. k < id \/ id < k
    BY <1>1
  <2> QED
    BY <2>1, <1>3
<1>5. IndexOf(list, id) < Cardinality(list)
  <2>1. Above(id) \subseteq list /\ id \notin Above(id)
    BY <1>1
  <2>2. Cardinality(Above(id)) <= Cardinality(list)
        /\ Cardinality(Above(id)) # Cardinality(list)
    BY <2>1, <1>1, FS_Subset
  <2>3. Cardinality(list) \in Nat
    BY <1>1, FS_CardinalityType
  <2> QED
    BY <1>2, <2>2, <2>3
<1> QED
  BY <1>4, <1>5 DEF ItemAt

\* What clampSelections selects: the submitted item, or else the wanted one.
LEMMA ClampedFindsWanted ==
    ASSUME NEW list \in SUBSET Jobs, NEW wanted \in list, NEW old
    PROVE  ItemAt(list, ClampedIndex(list, wanted, old)) \in {wanted, lastSubmittedID}
BY IndexFindsItem DEF ClampedIndex

\* The id that is kept is the selected one's, or none.
SelectionIsKnown ==
    /\ DOMAIN selectedID = ListSections /\ DOMAIN selection = ListSections
    /\ \A sec \in ListSections :
        selectedID[sec] # NoJob => selectedID[sec] = SelectedIn(sec)

\* RefreshKeepsSelection for a step, where moving in the list closes the prompt.
KeepsSelection ==
    \A sec \in ListSections :
        SelectedIn(sec)' # SelectedIn(sec) /\ SelectedIn(sec) \in lists'[sec] =>
            \/ SelectedIn(sec)' = lastSubmittedID
            \/ KeyList /\ ~prompt'

LEMMA SelectionInit == TuiInit => SelectionIsKnown
BY DEF TuiInit, SelectionIsKnown

LEMMA ListKeepsSelection ==
    ASSUME SelectionIsKnown, NEW m \in mail, TakeList(m)
    PROVE  SelectionIsKnown' /\ KeepsSelection
<1> DEFINE list(sec) == m.items \intersect InSection(sec)
           index(sec) == ClampedIndex(list(sec), WantedID(sec), selection[sec])
<1>1. /\ lists' = [sec \in ListSections |-> list(sec)]
      /\ selection' = [sec \in ListSections |-> index(sec)]
      /\ selectedID' = [sec \in ListSections |-> ItemAt(list(sec), index(sec))]
  BY DEF TakeList
<1>2. \A sec \in ListSections : SelectedIn(sec)' = ItemAt(list(sec), index(sec))
  BY <1>1 DEF SelectedIn
<1>3. SelectionIsKnown'
  BY <1>1, <1>2 DEF SelectionIsKnown
<1>4. ASSUME NEW sec \in ListSections, SelectedIn(sec) \in lists'[sec]
      PROVE  SelectedIn(sec)' \in {SelectedIn(sec), lastSubmittedID}
  <2>1. list(sec) \in SUBSET Jobs
    BY TuiAssumption DEF InSection
  <2>2. WantedID(sec) = SelectedIn(sec)
    BY DEF WantedID, SelectionIsKnown
  <2> QED
    BY <1>1, <1>2, <1>4, <2>1, <2>2, ClampedFindsWanted
<1> QED
  BY <1>3, <1>4 DEF KeepsSelection

LEMMA SelectionStep ==
    SelectionIsKnown /\ [TuiNext]_tuiVars => SelectionIsKnown' /\ KeepsSelection
<1> SUFFICES ASSUME SelectionIsKnown, [TuiNext]_tuiVars
             PROVE  SelectionIsKnown' /\ KeepsSelection
  OBVIOUS
<1>1. ASSUME UNCHANGED <<lists, selection, selectedID>>
      PROVE  SelectionIsKnown' /\ KeepsSelection
  <2>1. \A sec \in ListSections : SelectedIn(sec)' = SelectedIn(sec)
    BY <1>1 DEF SelectedIn
  <2> QED
    BY <1>1, <2>1 DEF SelectionIsKnown, KeepsSelection
<1>2. ASSUME NEW m \in mail, TakeAnswer(m)
      PROVE  SelectionIsKnown' /\ KeepsSelection
  <2>1. CASE TakeList(m)
    BY <2>1, ListKeepsSelection
  <2>2. CASE TakeDetail(m)
    BY <2>2, <1>1 DEF TakeDetail, listVars
  <2>3. CASE TakeSubmitted(m)
    BY <2>3, <1>1 DEF TakeSubmitted, listVars
  <2>4. CASE TakeRefresh(m)
    BY <2>4, <1>1 DEF TakeRefresh, listVars
  <2>5. CASE TakeDeleted(m)
    <3>1. UNCHANGED <<lists, selection>> /\ DOMAIN selectedID' = ListSections
      BY <2>5 DEF TakeDeleted
    <3>2. \A sec \in ListSections : selectedID'[sec] \in {NoJob, selectedID[sec]}
      BY <2>5 DEF TakeDeleted
    <3>3. \A sec \in ListSections : SelectedIn(sec)' = SelectedIn(sec)
      BY <3>1 DEF SelectedIn
    <3> QED
      BY <3>1, <3>2, <3>3 DEF SelectionIsKnown, KeepsSelection
  <2> QED
    BY <1>2, <2>1, <2>2, <2>3, <2>4, <2>5 DEF TakeAnswer
<1>3. CASE KeyList
  <2>1. PICK i : /\ selection' = [selection EXCEPT ![section] = i]
                 /\ selectedID' = [selectedID EXCEPT ![section] =
                                                ItemAt(lists[section], i)]
                 /\ LoadDetail(ItemAt(lists[section], i), mail, FALSE)
    BY <1>3 DEF KeyList
  <2>2. section \in ListSections /\ lists' = lists /\ ~prompt'
    BY <1>3, <2>1 DEF KeyList, LoadDetail
  <2>3. \A sec \in ListSections :
            /\ SelectedIn(sec)' = ItemAt(lists[sec], selection'[sec])
            /\ SelectedIn(sec) = ItemAt(lists[sec], selection[sec])
    BY <2>2 DEF SelectedIn
  <2>4. SelectionIsKnown'
    BY <2>1, <2>2, <2>3 DEF SelectionIsKnown
  <2> QED
    BY <1>3, <2>2, <2>4 DEF KeepsSelection
<1>4. CASE Key /\ ~KeyList
  BY <1>4, <1>1
     DEF Key, KeyTab, KeyOther, KeyIgnored, tuiVars, KeyRefresh, KeyViewOutput,
         KeyDelete, KeyClear, KeyCancel, KeySection, KeyInput, KeyEOF, KeyPrompt,
         KeySubmitForm, listVars
<1>5. CASE ServerMoves \/ Tick \/ Rest \/ UNCHANGED tuiVars
  BY <1>5, <1>1 DEF ServerMoves, Tick, Rest, tuiVars, listVars
<1> QED
  BY <1>2, <1>3, <1>4, <1>5 DEF TuiNext

\* Answers move the selection off a listed item only to the one just submitted
\* (app.go:402-425, 1641-1707).
THEOREM SelectionIsKept == TuiSpec => RefreshKeepsSelection
<1>1. SelectionIsKnown /\ [TuiNext]_tuiVars =>
        \A sec \in ListSections :
            SelectedIn(sec)' # SelectedIn(sec) /\ SelectedIn(sec) \in lists'[sec] =>
                SelectedIn(sec)' = lastSubmittedID \/ KeyList
  BY SelectionStep DEF KeepsSelection
<1> QED
  BY SelectionInit, SelectionStep, <1>1, PTL DEF TuiSpec, RefreshKeepsSelection

\* The open prompt keeps its target, unless a list loses it or brings the one just
\* submitted (app.go:796-831).
THEOREM TargetIsKept == TuiSpec => PromptKeepsTarget
<1>1. SelectionIsKnown /\ [TuiNext]_tuiVars =>
        (prompt /\ prompt' /\ SelectedIn("executions")' # SelectedIn("executions") =>
            \/ SelectedIn("executions") \notin lists'["executions"]
            \/ lastSubmittedID = SelectedIn("executions")')
  BY SelectionStep DEF KeepsSelection, ListSections
<1> QED
  BY SelectionInit, SelectionStep, <1>1, PTL DEF TuiSpec, PromptKeepsTarget

=============================================================================
