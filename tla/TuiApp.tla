------------------------------- MODULE TuiApp -------------------------------
(***************************************************************************)
(* The message loop of the user interface (src/internal/tui/app.go): the   *)
(* lists, the selection, the detail panel, the stdin prompt and the        *)
(* confirmations.  Update starts commands, which run concurrently; their   *)
(* answers reach Update in any order, any time later.  An answer is        *)
(* computed here when its command is started, so it is as stale as it may  *)
(* be: executions end, and other clients start and delete, before it is    *)
(* taken.  A command that fails only sets the error line; it is not sent   *)
(* here.  Equal answers in flight are one.                                 *)
(*                                                                         *)
(* Jobs are named by the order in which they are created, which is the     *)
(* order of the lists (newest first).  The three form sections are one     *)
(* here (TuiForms has their inside); an attach session only keeps keys and *)
(* ticks away for a while, and leaves what is armed (TuiAttach has its     *)
(* events); the running-only     *)
(* filter is off.                                                          *)
(***************************************************************************)
EXTENDS Integers, FiniteSets, TuiFocus

CONSTANTS
    Jobs,          \* ids, numbered in the order of creation
    Transfers,     \* those that are transfers
    Interactive,   \* those that are shell commands or sessions
    NoJob,
    OthersDelete,  \* whether other clients of the same owner delete, too
    MaxInFlight    \* bound on the answers in flight

ASSUME TuiAssumption ==
    /\ Jobs \subseteq Nat /\ IsFiniteSet(Jobs)
    /\ Transfers \subseteq Jobs
    /\ Interactive \subseteq Jobs \ Transfers
    /\ NoJob \notin Jobs
    /\ OthersDelete \in BOOLEAN
    /\ MaxInFlight \in Nat \ {0}

ListSections == {"executions", "transfers"}
TuiSections == ListSections \union {"forms"}

VARIABLES
    server,          \* the daemon's rows
    mail,            \* answers not yet taken
    lists,           \* ids in executions and transfers
    shownRunning,    \* those the lists show as running
    selection,       \* index per list section
    selectedID,
    section, focus,
    detail,          \* the job in the detail panel
    prompt,          \* detailInputOpen
    lastSubmittedID,
    pendingAction, pendingTargetID,
    announced,       \* history: the jobs the last x or X that was not ignored asked
                     \* about, until another key
    idle             \* the user and the daemon do nothing new any more

asyncVars == <<server, mail>>
listVars == <<lists, shownRunning, selection, selectedID>>
placeVars == <<section, focus>>
panelVars == <<detail, prompt>>
pendingVars == <<pendingAction, pendingTargetID, announced>>
tuiVars == <<asyncVars, listVars, placeVars, panelVars, lastSubmittedID,
             pendingVars, idle>>

InSection(sec) == IF sec = "transfers" THEN Transfers ELSE Jobs \ Transfers

\* The item at an index of a list, newest first, and the index of an item.
IndexOf(list, id) == Cardinality({j \in list : j > id})
ItemAt(list, index) ==
    IF index < Cardinality(list)
    THEN CHOOSE id \in list : IndexOf(list, id) = index
    ELSE NoJob

SelectedIn(sec) ==
    IF sec \in ListSections THEN ItemAt(lists[sec], selection[sec]) ELSE NoJob
SelectedItem == SelectedIn(section)

SelectedForInput ==
    IF section = "executions" /\ SelectedItem \in Interactive \intersect shownRunning
    THEN SelectedItem ELSE NoJob

(***************************************************************************)
(* Commands and the daemon.                                                *)
(***************************************************************************)
Room == Cardinality(mail) < MaxInFlight

Stored(rows) == {j \in Jobs : rows[j] \in {"running", "ended"}}
Running(rows) == {j \in Jobs : rows[j] = "running"}

\* The rows get their ids in the order they are created.
NextJob == CHOOSE j \in Jobs : server[j] = "unborn"
                               /\ \A i \in Jobs : server[i] = "unborn" => j <= i

ListAnswer(rows) ==
    [op |-> "list", items |-> Stored(rows), running |-> Running(rows)]
JobAnswer(op, id) == [op |-> op, id |-> id]
Refreshed == mail \union {ListAnswer(server)}

TuiInit ==
    /\ server \in [Jobs -> {"unborn", "running"}]
    /\ \A i, j \in Jobs : i < j /\ server[j] = "running" => server[i] = "running"
    /\ mail = {ListAnswer(server)}
    /\ lists = [s \in ListSections |-> {}]
    /\ shownRunning = {}
    /\ selection = [s \in ListSections |-> 0]
    /\ selectedID = [s \in ListSections |-> NoJob]
    /\ section = "executions" /\ focus = "list"
    /\ detail = NoJob /\ prompt = FALSE
    /\ lastSubmittedID = NoJob
    /\ pendingAction = "none" /\ pendingTargetID = NoJob /\ announced = {}
    /\ idle = FALSE

\* Executions end by themselves, and another client of the same owner starts
\* and deletes.
ServerMoves ==
    /\ ~idle
    /\ \E j \in Jobs :
        \/ server[j] = "running" /\ server' = [server EXCEPT ![j] = "ended"]
        \/ /\ server[j] = "ended" /\ OthersDelete
           /\ server' = [server EXCEPT ![j] = "deleted"]
        \/ /\ server[j] = "unborn" /\ j = NextJob
           /\ server' = [server EXCEPT ![j] = "running"]
    /\ UNCHANGED <<mail, listVars, placeVars, panelVars, lastSubmittedID,
                   pendingVars, idle>>

(***************************************************************************)
(* Shared parts of Update.                                                 *)
(***************************************************************************)

\* loadDetailForSelection: with nothing selected the panel is emptied, and the
\* prompt closed, at once; otherwise the answer does it.  A detail of a job that
\* has been deleted fails.
LoadDetail(id, inbox, open) ==
    IF id = NoJob
    THEN mail' = inbox /\ detail' = NoJob /\ prompt' = FALSE
    ELSE /\ mail' = inbox \union (IF id \in Stored(server)
                                  THEN {JobAnswer("detail", id)} ELSE {})
         /\ prompt' = open
         /\ UNCHANGED detail

\* A seeded fault: the index is kept, whatever is at it now.
ClampedIndexByPlace(list, wanted, old) ==
    IF list = {} THEN 0
    ELSE IF lastSubmittedID \in list THEN IndexOf(list, lastSubmittedID)
    ELSE IF old >= Cardinality(list) THEN Cardinality(list) - 1
    ELSE old

\* clampSelections: the submitted item first, then the one that was selected,
\* then the index, cut to the length of the list.
ClampedIndex(list, wanted, old) ==
    IF list = {} THEN 0
    ELSE IF lastSubmittedID \in list THEN IndexOf(list, lastSubmittedID)
    ELSE IF wanted \in list THEN IndexOf(list, wanted)
    ELSE IF old >= Cardinality(list) THEN Cardinality(list) - 1
    ELSE old

WantedID(sec) ==
    IF selectedID[sec] # NoJob THEN selectedID[sec] ELSE SelectedIn(sec)

(***************************************************************************)
(* Update: answers.                                                        *)
(***************************************************************************)
\* A seeded fault: a list does not load the detail of what it selects.
TakeListOnce(m) ==
    LET list(sec) == m.items \intersect InSection(sec)
        index(sec) == ClampedIndex(list(sec), WantedID(sec), selection[sec])
    IN  /\ m.op = "list"
        /\ lists' = [sec \in ListSections |-> list(sec)]
        /\ shownRunning' = m.running
        /\ selection' = [sec \in ListSections |-> index(sec)]
        /\ selectedID' = [sec \in ListSections |-> ItemAt(list(sec), index(sec))]
        /\ lastSubmittedID' = IF lastSubmittedID \in m.items
                              THEN NoJob ELSE lastSubmittedID
        /\ mail' = mail \ {m}
        /\ UNCHANGED <<server, placeVars, panelVars, pendingVars, idle>>

\* loadExecutions: the lists are replaced and the detail of the selected item is loaded.
TakeList(m) ==
    LET list(sec) == m.items \intersect InSection(sec)
        index(sec) == ClampedIndex(list(sec), WantedID(sec), selection[sec])
    IN  /\ m.op = "list"
        /\ lists' = [sec \in ListSections |-> list(sec)]
        /\ shownRunning' = m.running
        /\ selection' = [sec \in ListSections |-> index(sec)]
        /\ selectedID' = [sec \in ListSections |-> ItemAt(list(sec), index(sec))]
        /\ lastSubmittedID' = IF lastSubmittedID \in m.items
                              THEN NoJob ELSE lastSubmittedID
        /\ LoadDetail(IF section \in ListSections
                      THEN ItemAt(list(section), index(section)) ELSE NoJob,
                      mail \ {m}, prompt)
        /\ UNCHANGED <<server, placeVars, pendingVars, idle>>

\* The answer is shown whichever item is selected by now.  The prompt closes if
\* the selected item takes no input any more.
TakeDetail(m) ==
    /\ m.op = "detail"
    /\ mail' = mail \ {m}
    /\ detail' = m.id
    /\ prompt' = (prompt /\ SelectedForInput # NoJob)
    /\ UNCHANGED <<server, listVars, placeVars, lastSubmittedID, pendingVars, idle>>

\* A start or a transfer that answers moves the user to its section, and the
\* next list selects it.
TakeSubmitted(m) ==
    /\ m.op \in {"start", "transfer"}
    /\ lastSubmittedID' = m.id
    /\ section' = IF m.op = "start" THEN "executions" ELSE "transfers"
    /\ focus' = "sidebar"
    /\ mail' = Refreshed \ {m}
    /\ UNCHANGED <<server, listVars, panelVars, pendingVars, idle>>

\* A cancel and a write to stdin only refresh.
TakeRefresh(m) ==
    /\ m.op = "refresh"
    /\ mail' = Refreshed \ {m}
    /\ UNCHANGED <<server, listVars, placeVars, panelVars, lastSubmittedID,
                   pendingVars, idle>>

\* After a deletion the selection goes by its index again.
TakeDeleted(m) ==
    /\ m.op \in {"delete", "clear"}
    /\ selectedID' = [sec \in ListSections |->
            IF m.op = "clear" \/ (sec = section /\ selectedID[sec] = m.id)
            THEN NoJob ELSE selectedID[sec]]
    /\ lastSubmittedID' = NoJob
    /\ mail' = Refreshed \ {m}
    /\ UNCHANGED <<server, lists, shownRunning, selection, placeVars, panelVars,
                   pendingVars, idle>>

TakeAnswer(m) ==
    /\ m \in mail
    /\ TakeList(m) \/ TakeDetail(m) \/ TakeSubmitted(m) \/ TakeRefresh(m)
       \/ TakeDeleted(m)

\* The tick is armed again whatever happens.
Tick ==
    /\ Room
    /\ mail' = Refreshed
    /\ UNCHANGED <<server, listVars, placeVars, panelVars, lastSubmittedID,
                   pendingVars, idle>>

(***************************************************************************)
(* Update: keys.                                                           *)
(***************************************************************************)
PromptTakesKeys == prompt /\ focus = "detail"
KeyReady == ~idle /\ ~PromptTakesKeys /\ Room

CanDelete ==
    /\ section \in ListSections /\ focus \in {"list", "detail"}
    /\ SelectedItem # NoJob

Disarm == pendingAction' = "none" /\ pendingTargetID' = NoJob /\ announced' = {}

\* tab and shift+tab, in the prompt too, where they leave a confirmation armed.
\* Moving between the fields of a form is left to TuiForms.
KeyTab ==
    /\ ~idle
    /\ focus' \in {NextFocus(section, focus), PrevFocus(section, focus)}
    /\ IF PromptTakesKeys
       THEN announced' = {} /\ UNCHANGED <<pendingAction, pendingTargetID>>
       ELSE Disarm
    /\ UNCHANGED <<asyncVars, listVars, section, panelVars, lastSubmittedID, idle>>

\* esc, ?, and every key without a meaning where the focus is, but x and X.
KeyOther ==
    /\ KeyReady
    /\ Disarm
    /\ UNCHANGED <<asyncVars, listVars, placeVars, panelVars, lastSubmittedID, idle>>

\* x and X where they mean nothing do not disarm.
KeyIgnored ==
    /\ KeyReady
    /\ ~CanDelete \/ section \notin ListSections
    /\ UNCHANGED tuiVars

KeyRefresh ==
    /\ KeyReady
    /\ focus # "form"
    /\ mail' = Refreshed
    /\ Disarm
    /\ UNCHANGED <<server, listVars, placeVars, panelVars, lastSubmittedID, idle>>

\* o in the detail panel of an execution loads the detail anew.
KeyViewOutput ==
    /\ KeyReady
    /\ section = "executions" /\ focus = "detail"
    /\ LoadDetail(SelectedItem, mail, prompt)
    /\ Disarm
    /\ UNCHANGED <<server, listVars, placeVars, lastSubmittedID, idle>>

\* The daemon deletes what has ended; of what runs or is gone it says so.
AskDelete(id) ==
    IF server[id] = "ended"
    THEN /\ server' = [server EXCEPT ![id] = "deleted"]
         /\ mail' = mail \union {JobAnswer("delete", id)}
    ELSE UNCHANGED asyncVars

\* A seeded fault: the second press deletes what is selected by then.
KeyDeleteSelected ==
    /\ KeyReady
    /\ CanDelete
    /\ IF pendingAction = "delete"
       THEN AskDelete(SelectedItem) /\ Disarm
       ELSE /\ pendingAction' = "delete" /\ pendingTargetID' = SelectedItem
            /\ announced' = {SelectedItem}
            /\ UNCHANGED asyncVars
    /\ UNCHANGED <<listVars, placeVars, panelVars, lastSubmittedID, idle>>

\* x names the selected item first and deletes it when pressed again.
KeyDelete ==
    /\ KeyReady
    /\ CanDelete
    /\ IF pendingAction = "delete" /\ pendingTargetID = SelectedItem
       THEN AskDelete(SelectedItem) /\ Disarm
       ELSE /\ pendingAction' = "delete" /\ pendingTargetID' = SelectedItem
            /\ announced' = {SelectedItem}
            /\ UNCHANGED asyncVars
    /\ UNCHANGED <<listVars, placeVars, panelVars, lastSubmittedID, idle>>

\* X does the same for the whole history, wherever the focus is.
KeyClear ==
    /\ KeyReady
    /\ section \in ListSections
    /\ IF pendingAction = "clear"
       THEN /\ server' = [j \in Jobs |-> IF server[j] = "ended"
                                         THEN "deleted" ELSE server[j]]
            /\ mail' = mail \union {[op |-> "clear"]}
            /\ Disarm
       ELSE /\ pendingAction' = "clear" /\ pendingTargetID' = NoJob
            /\ announced' = Jobs
            /\ UNCHANGED asyncVars
    /\ UNCHANGED <<listVars, placeVars, panelVars, lastSubmittedID, idle>>

\* c on what the list shows as running; the daemon cancels what does run and is no
\* transfer.
KeyCancel ==
    /\ KeyReady
    /\ section \in ListSections /\ focus = "list"
    /\ SelectedItem \in shownRunning
    /\ IF SelectedItem \in Running(server) \ Transfers
       THEN /\ server' = [server EXCEPT ![SelectedItem] = "ended"]
            /\ mail' = mail \union {[op |-> "refresh"]}
       ELSE UNCHANGED asyncVars
    /\ Disarm
    /\ UNCHANGED <<listVars, placeVars, panelVars, lastSubmittedID, idle>>

\* up and down in the sidebar: the three form sections are one section here.
SectionNeighbours(sec) ==
    CASE sec = "executions" -> {"transfers"}
      [] sec = "transfers" -> {"executions", "forms"}
      [] OTHER -> {"transfers", "forms"}

KeySection ==
    /\ KeyReady
    /\ focus = "sidebar"
    /\ section' \in SectionNeighbours(section)
    /\ LoadDetail(SelectedIn(section'), mail, FALSE)
    /\ Disarm
    /\ UNCHANGED <<server, listVars, focus, lastSubmittedID, idle>>

\* A seeded fault: moving in the list leaves the prompt open.
KeyListKeepsPrompt ==
    /\ KeyReady
    /\ section \in ListSections /\ focus = "list"
    /\ \E i \in {selection[section] - 1, selection[section] + 1} :
        /\ i \in 0 .. Cardinality(lists[section]) - 1
        /\ selection' = [selection EXCEPT ![section] = i]
        /\ selectedID' = [selectedID EXCEPT ![section] = ItemAt(lists[section], i)]
        /\ LoadDetail(ItemAt(lists[section], i), mail, prompt)
    /\ lastSubmittedID' = NoJob
    /\ Disarm
    /\ UNCHANGED <<server, lists, shownRunning, placeVars, idle>>

\* up and down in a list close the prompt and forget the submitted item.
KeyList ==
    /\ KeyReady
    /\ section \in ListSections /\ focus = "list"
    /\ \E i \in {selection[section] - 1, selection[section] + 1} :
        /\ i \in 0 .. Cardinality(lists[section]) - 1
        /\ selection' = [selection EXCEPT ![section] = i]
        /\ selectedID' = [selectedID EXCEPT ![section] = ItemAt(lists[section], i)]
        /\ LoadDetail(ItemAt(lists[section], i), mail, FALSE)
    /\ lastSubmittedID' = NoJob
    /\ Disarm
    /\ UNCHANGED <<server, lists, shownRunning, placeVars, idle>>

\* i opens the prompt.
KeyInput ==
    /\ KeyReady
    /\ focus = "detail"
    /\ SelectedForInput # NoJob
    /\ prompt' = TRUE
    /\ Disarm
    /\ UNCHANGED <<asyncVars, listVars, placeVars, detail, lastSubmittedID, idle>>

\* A line or EOF goes to what is selected at that moment, if it runs.
Input ==
    mail' = IF SelectedForInput \in Running(server)
            THEN mail \union {[op |-> "refresh"]} ELSE mail

\* e sends EOF.
KeyEOF ==
    /\ KeyReady
    /\ focus = "detail"
    /\ SelectedForInput # NoJob
    /\ Input
    /\ Disarm
    /\ UNCHANGED <<server, listVars, placeVars, panelVars, lastSubmittedID, idle>>

\* esc and enter close the prompt; enter sends the line if there is a target.
KeyPrompt ==
    /\ ~idle /\ PromptTakesKeys /\ Room
    /\ \/ UNCHANGED mail
       \/ SelectedForInput # NoJob /\ Input
    /\ prompt' = FALSE
    /\ announced' = {}
    /\ UNCHANGED <<server, listVars, placeVars, detail, lastSubmittedID,
                   pendingAction, pendingTargetID, idle>>

\* A start or a transfer creates the next row; a transfer has ended when its
\* command answers.
KeySubmitForm ==
    /\ KeyReady
    /\ section = "forms" /\ focus = "form"
    /\ \E j \in Jobs :
        /\ server[j] = "unborn" /\ j = NextJob
        /\ server' = [server EXCEPT ![j] =
                        IF j \in Transfers THEN "ended" ELSE "running"]
        /\ mail' = mail \union
                {JobAnswer(IF j \in Transfers THEN "transfer" ELSE "start", j)}
    /\ Disarm
    /\ UNCHANGED <<listVars, placeVars, panelVars, lastSubmittedID, idle>>

Key ==
    \/ KeyTab \/ KeyOther \/ KeyIgnored \/ KeyRefresh \/ KeyViewOutput
    \/ KeyDelete \/ KeyClear \/ KeyCancel \/ KeySection \/ KeyList
    \/ KeyInput \/ KeyEOF \/ KeyPrompt \/ KeySubmitForm

\* From some moment on nobody presses a key and nothing happens at the daemon.
Rest ==
    /\ ~idle /\ idle' = TRUE
    /\ UNCHANGED <<asyncVars, listVars, placeVars, panelVars, lastSubmittedID,
                   pendingVars>>

TuiNext ==
    \/ \E m \in mail : TakeAnswer(m)
    \/ ServerMoves \/ Tick \/ Key \/ Rest

TakeOther == \E m \in mail : m.op # "detail" /\ TakeAnswer(m)
TakeAnyDetail == \E m \in mail : m.op = "detail" /\ TakeAnswer(m)

\* Every answer reaches Update, and the tick comes for ever.
TuiFairness ==
    WF_tuiVars(Tick) /\ WF_tuiVars(TakeOther) /\ WF_tuiVars(TakeAnyDetail)

TuiSpec == TuiInit /\ [][TuiNext]_tuiVars /\ TuiFairness

(***************************************************************************)
(* Properties.                                                             *)
(***************************************************************************)
\* A deletion is asked of the daemon only for the job that the last x or X that was
\* not ignored named too, and a clearing only after one that announced it, with no other
\* key in between: no answer that moves the selection between two presses of x turns
\* the second one on another job, and X, x, X clears only where the x was ignored
\* (app.go:560-563, 612-637).
DestructionIsConfirmed ==
    [][\A m \in mail' \ mail :
        /\ m.op = "delete" => announced = {m.id}
        /\ m.op = "clear" => announced = Jobs]_tuiVars

\* While the stdin prompt stays open, what it will send to changes only when a new
\* list has lost the execution or brings the one just submitted: never by a key of
\* the user, a late detail or a change of section (app.go:796-831).
PromptKeepsTarget ==
    [][prompt /\ prompt' /\ SelectedIn("executions")' # SelectedIn("executions") =>
        \/ SelectedIn("executions") \notin lists'["executions"]
        \/ lastSubmittedID = SelectedIn("executions")']_tuiVars

\* Only a key moves the selection off an item that is still listed; a refresh
\* does not, however items come and go above it, except to the item just
\* submitted (app.go:402-425, 1641-1684).
RefreshKeepsSelection ==
    [][\A sec \in ListSections :
        SelectedIn(sec)' # SelectedIn(sec) /\ SelectedIn(sec) \in lists'[sec] =>
            SelectedIn(sec)' = lastSubmittedID \/ KeyList]_tuiVars

\* When the user rests, the detail panel ends up with the
\* selected item, although answers come in any order and overwrite each other
\* unchecked (app.go:426-434): the tick repairs it.
DetailCatchesUp == []<>idle => <>[](detail = SelectedItem)

=============================================================================
