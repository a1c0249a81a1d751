------------------------------ MODULE Lifecycle ------------------------------
(***************************************************************************)
(* The life of an execution or a transfer in cmdrad: the persisted row of  *)
(* the jobs table (internal/history/store.go), the in-memory registry of   *)
(* managed executions (internal/execution/manager.go), the child process,  *)
(* the waitForExit goroutine, and the RPC handlers that start, cancel,     *)
(* delete, clear and transfer concurrently.                                *)
(*                                                                         *)
(* A step is what happens between two points where another goroutine may   *)
(* run: one store call (the store has one connection, so its calls are     *)
(* atomic), one critical section of Manager.mu or of an execution's mu,    *)
(* one system call on the process.                                         *)
(***************************************************************************)
EXTENDS Naturals, FiniteSets

CONSTANTS
    Ids,         \* ids newID may draw; the code draws 64 random bits
    Owners,      \* common names of the callers' certificates
    Handlers,    \* RPC handler goroutines
    NoId,        \* a handler's target when it has none
    Refusing,    \* ids whose program may refuse the daemon's signals (as another user)
    Locks,       \* bound: the locks other requests may hold, an id or "store"
    MaxCrashes,  \* bound: daemon crashes
    MaxFaults    \* bound: failing store writes

ASSUME LifecycleAssumption ==
    /\ NoId \notin Ids
    /\ "nobody" \notin Owners
    /\ Refusing \subseteq Ids
    /\ Locks \subseteq Ids \cup {"store"}
    /\ MaxCrashes \in Nat
    /\ MaxFaults \in Nat

VARIABLES
    jobs,            \* id -> row of the jobs table, NoRow when there is none
    used,            \* ids drawn so far
    registered,      \* keys of Manager.executions
    memState,        \* id -> managedExecution.state, "none" when there is no object
    cancelRequested, \* id -> managedExecution.cancelRequested
    held,            \* locks another request holds while it waits for a program or a
                     \* client: the mutex of an execution, the store's one connection
    exitCode,        \* id -> what waitFunc returned
    proc,            \* id -> the child process
    waiter,          \* id -> where waitForExit is
    pc,              \* handler -> where it is
    caller,          \* handler -> owner CN of the request it serves
    target,          \* handler -> id it works on
    todo,            \* handler -> ids ClearHistory has still to delete
    skipped,         \* handler -> ids ClearHistory counted as running
    crashes, faults

store   == <<jobs, used>>
memory  == <<registered, memState, cancelRequested, held>>
process == <<exitCode, proc, waiter>>
handler == <<pc, caller, target, todo, skipped>>
bounds  == <<crashes, faults>>
vars    == <<store, memory, process, handler, bounds>>

FinalStates == {"exited", "canceled", "failed_to_start"}
RowStates   == {"none", "running"} \cup FinalStates
ExitCodes   == {"none", "zero", "nonzero"}
Rows        == [state : RowStates, owner : Owners \cup {"nobody"},
                kind : {"none", "exec", "xfer"}, exit : ExitCodes, pid : BOOLEAN]
NoRow       == [state |-> "none", owner |-> "nobody", kind |-> "none",
                exit |-> "none", pid |-> FALSE]
StartPCs    == {"start_spawn", "start_pid", "start_register", "start_watch"}
DropPCs     == {"delete_map", "clear_map"}
CancelPCs   == {"cancel_map", "cancel_flag", "cancel_probe", "cancel_kill", "cancel_view"}
PCs         == {"idle", "delete_row", "clear", "xfer", "start_view"}
                   \cup StartPCs \cup DropPCs \cup CancelPCs
WaiterPCs   == {"none", "waiting", "exited", "persist", "done"}
ActiveWait  == {"waiting", "exited", "persist"}
ProcStates  == {"none", "alive", "killed", "zombie", "gone"}

TypeOK ==
    /\ jobs \in [Ids -> Rows]
    /\ used \subseteq Ids
    /\ registered \subseteq Ids
    /\ memState \in [Ids -> RowStates]
    /\ cancelRequested \in [Ids -> BOOLEAN]
    /\ held \subseteq Locks
    /\ exitCode \in [Ids -> ExitCodes]
    /\ proc \in [Ids -> ProcStates]
    /\ waiter \in [Ids -> WaiterPCs]
    /\ pc \in [Handlers -> PCs]
    /\ caller \in [Handlers -> Owners \cup {"nobody"}]
    /\ target \in [Handlers -> Ids \cup {NoId}]
    /\ todo \in [Handlers -> SUBSET Ids]
    /\ skipped \in [Handlers -> SUBSET Ids]
    /\ crashes \in 0..MaxCrashes
    /\ faults \in 0..MaxFaults

IdleHandlers ==
    /\ pc = [h \in Handlers |-> "idle"]
    /\ caller = [h \in Handlers |-> "nobody"]
    /\ target = [h \in Handlers |-> NoId]
    /\ todo = [h \in Handlers |-> {}]
    /\ skipped = [h \in Handlers |-> {}]

Init ==
    /\ jobs = [i \in Ids |-> NoRow]
    /\ used = {}
    /\ registered = {}
    /\ memState = [i \in Ids |-> "none"]
    /\ cancelRequested = [i \in Ids |-> FALSE]
    /\ held = {}
    /\ exitCode = [i \in Ids |-> "none"]
    /\ proc = [i \in Ids |-> "none"]
    /\ waiter = [i \in Ids |-> "none"]
    /\ IdleHandlers
    /\ crashes = 0
    /\ faults = 0

-----------------------------------------------------------------------------
(* Helpers *)

Present(i)   == jobs[i].state # "none"
IsRunning(i) == jobs[i].state = "running"
OwnedBy(i,o) == Present(i) /\ jobs[i].owner = o

\* The handler takes up a request, moves on, or answers.
Accept(h, o, i, at) ==
    /\ pc[h] = "idle"
    /\ pc' = [pc EXCEPT ![h] = at]
    /\ caller' = [caller EXCEPT ![h] = o]
    /\ target' = [target EXCEPT ![h] = i]
    /\ UNCHANGED <<todo, skipped>>
Goto(h, from, to) ==
    /\ pc[h] = from
    /\ pc' = [pc EXCEPT ![h] = to]
    /\ UNCHANGED <<caller, target, todo, skipped>>
Answer(h, from) ==
    /\ pc[h] = from
    /\ pc' = [pc EXCEPT ![h] = "idle"]
    /\ caller' = [caller EXCEPT ![h] = "nobody"]
    /\ target' = [target EXCEPT ![h] = NoId]
    /\ todo' = [todo EXCEPT ![h] = {}]
    /\ skipped' = [skipped EXCEPT ![h] = {}]

\* A store call waits for the one connection.  A write goes through, or fails and
\* changes no row.
StoreFree  == "store" \notin held
WriteOK    == UNCHANGED bounds
WriteFails ==
    StoreFree /\ faults < MaxFaults /\ faults' = faults + 1 /\ UNCHANGED crashes

CreateJob(i, o, k) ==
    /\ StoreFree
    /\ i \notin used
    /\ used' = used \cup {i}
    /\ jobs' = [jobs EXCEPT ![i] = [state |-> "running", owner |-> o, kind |-> k,
                                    exit |-> "none", pid |-> FALSE]]
\* Seeded fault: the placeholders of the UPDATE are bound in the wrong order.
CompleteJobSwapped(i, s, x) ==
    /\ StoreFree
    /\ jobs' = [jobs EXCEPT ![i] = IF @.state = "none" THEN @
                                   ELSE [@ EXCEPT !.state = x, !.exit = s]]

\* One UPDATE by primary key: it affects no row once the job is deleted.
CompleteJob(i, s, x) ==
    /\ StoreFree
    /\ jobs' = [jobs EXCEPT ![i] = IF @.state = "none" THEN @
                                   ELSE [@ EXCEPT !.state = s, !.exit = x]]

DeleteJob(i) == StoreFree /\ jobs' = [jobs EXCEPT ![i] = NoRow]

-----------------------------------------------------------------------------
(* Manager.start: row first, then the process, its pid, the registry.      *)

StartBegin(h, o, i) ==
    /\ Accept(h, o, i, "start_spawn")
    /\ CreateJob(i, o, "exec")
    /\ memState' = [memState EXCEPT ![i] = "running"]
    /\ UNCHANGED <<registered, cancelRequested, held, process, bounds>>

StartSpawn(h) ==
    /\ Goto(h, "start_spawn", "start_pid")
    /\ proc' = [proc EXCEPT ![target[h]] = "alive"]
    /\ UNCHANGED <<store, memory, exitCode, waiter, bounds>>
\* Seeded fault: a failing start returns without completing the row.
StartSpawnFailsUnrecorded(h) ==
    /\ Answer(h, "start_spawn")
    /\ memState' = [memState EXCEPT ![target[h]] = "failed_to_start"]
    /\ UNCHANGED <<store, registered, cancelRequested, held, process, bounds>>

\* The program or the pty cannot be started; an error of CompleteJob is dropped.
StartSpawnFails(h) ==
    /\ Answer(h, "start_spawn")
    /\ memState' = [memState EXCEPT ![target[h]] = "failed_to_start"]
    /\ \/ WriteOK /\ CompleteJob(target[h], "failed_to_start", "nonzero")
       \/ WriteFails /\ UNCHANGED jobs
    /\ UNCHANGED <<used, registered, cancelRequested, held, process>>

StartPid(h) ==
    /\ Goto(h, "start_pid", "start_register")
    /\ StoreFree
    /\ Present(target[h])
    /\ jobs' = [jobs EXCEPT ![target[h]].pid = TRUE]
    /\ UNCHANGED <<used, memory, process, bounds>>

\* UpdateJobProcess fails: start returns and nobody ever waits for the process.
StartPidFails(h) ==
    /\ Answer(h, "start_pid")
    /\ WriteFails
    /\ UNCHANGED <<store, memory, process>>

StartRegister(h) ==
    /\ Goto(h, "start_register", "start_watch")
    /\ registered' = registered \cup {target[h]}
    /\ UNCHANGED <<store, memState, cancelRequested, held, process, bounds>>

\* A snapshot for the audit takes the mutex before anybody waits for the process.
StartWatch(h) ==
    /\ Goto(h, "start_watch", "start_view")
    /\ target[h] \notin held
    /\ waiter' = [waiter EXCEPT ![target[h]] = "waiting"]
    /\ UNCHANGED <<store, memory, exitCode, proc, bounds>>

-----------------------------------------------------------------------------
(* The process and waitForExit.                                            *)

ProcExit(i) ==
    /\ proc[i] \in {"alive", "killed"}
    /\ proc' = [proc EXCEPT ![i] = "zombie"]
    /\ UNCHANGED <<store, memory, exitCode, waiter, handler, bounds>>

\* waitFunc returns; an error with exit code 0 is turned into -1.
WaiterReap(i) ==
    /\ waiter[i] = "waiting"
    /\ proc[i] = "zombie"
    /\ waiter' = [waiter EXCEPT ![i] = "exited"]
    /\ proc' = [proc EXCEPT ![i] = "gone"]
    /\ \E x \in {"zero", "nonzero"} : exitCode' = [exitCode EXCEPT ![i] = x]
    /\ UNCHANGED <<store, memory, handler, bounds>>

WaiterFinish(i) ==
    /\ waiter[i] = "exited"
    /\ i \notin held
    /\ waiter' = [waiter EXCEPT ![i] = "persist"]
    /\ memState' = [memState EXCEPT ![i] =
                       IF cancelRequested[i] THEN "canceled" ELSE "exited"]
    /\ UNCHANGED <<store, registered, cancelRequested, held, exitCode, proc, handler,
                   bounds>>
\* Seeded fault: the flag is read again instead of the state decided under the lock.
WaiterPersistRereads(i) ==
    /\ waiter[i] = "persist"
    /\ waiter' = [waiter EXCEPT ![i] = "done"]
    /\ \/ /\ WriteOK
          /\ CompleteJob(i, IF cancelRequested[i] THEN "canceled" ELSE "exited", exitCode[i])
       \/ WriteFails /\ UNCHANGED jobs
    /\ UNCHANGED <<used, memory, exitCode, proc, handler>>

\* The final state is persisted from the snapshot; an error is dropped.
WaiterPersist(i) ==
    /\ waiter[i] = "persist"
    /\ waiter' = [waiter EXCEPT ![i] = "done"]
    /\ \/ WriteOK /\ CompleteJob(i, memState[i], exitCode[i])
       \/ WriteFails /\ UNCHANGED jobs
    /\ UNCHANGED <<used, memory, exitCode, proc, handler>>

-----------------------------------------------------------------------------
(* Delete: check the row, delete it, then forget the managed execution.    *)
\* Seeded faults: the running row, or the owner, is not checked.
DeleteCheckRunning(h, o, i) ==
    /\ StoreFree
    /\ OwnedBy(i, o)
    /\ Accept(h, o, i, "delete_row")
    /\ UNCHANGED <<store, memory, process, bounds>>

DeleteCheckAnyOwner(h, o, i) ==
    /\ StoreFree
    /\ Present(i) /\ ~IsRunning(i)
    /\ Accept(h, o, i, "delete_row")
    /\ UNCHANGED <<store, memory, process, bounds>>

DeleteCheck(h, o, i) ==
    /\ StoreFree
    /\ OwnedBy(i, o)
    /\ ~IsRunning(i)
    /\ Accept(h, o, i, "delete_row")
    /\ UNCHANGED <<store, memory, process, bounds>>

DeleteRow(h) ==
    /\ Goto(h, "delete_row", "delete_map")
    /\ Present(target[h])
    /\ DeleteJob(target[h])
    /\ UNCHANGED <<used, memory, process, bounds>>

\* The row went away in between (ErrNotFound), or the DELETE fails.
DeleteRowFails(h) ==
    /\ Answer(h, "delete_row")
    /\ (StoreFree /\ ~Present(target[h]) /\ UNCHANGED bounds) \/ WriteFails
    /\ UNCHANGED <<store, memory, process>>
\* Seeded fault: the managed execution is not dropped.
DeleteMapKeeps(h) ==
    /\ Answer(h, "delete_map")
    /\ UNCHANGED <<store, memory, process, bounds>>

DeleteMap(h) ==
    /\ Answer(h, "delete_map")
    /\ registered' = registered \ {target[h]}
    /\ UNCHANGED <<store, memState, cancelRequested, held, process, bounds>>

(* ClearHistory: one listing, then the same two deletions for each id of it. *)
\* Seeded fault: running jobs are not skipped.
ClearListAll(h, o) ==
    /\ StoreFree
    /\ pc[h] = "idle"
    /\ pc' = [pc EXCEPT ![h] = "clear"]
    /\ caller' = [caller EXCEPT ![h] = o]
    /\ todo' = [todo EXCEPT ![h] = {i \in Ids : OwnedBy(i, o)}]
    /\ UNCHANGED <<skipped, target, store, memory, process, bounds>>

ClearList(h, o) ==
    /\ StoreFree
    /\ pc[h] = "idle"
    /\ pc' = [pc EXCEPT ![h] = "clear"]
    /\ caller' = [caller EXCEPT ![h] = o]
    /\ todo' = [todo EXCEPT ![h] = {i \in Ids : OwnedBy(i, o) /\ ~IsRunning(i)}]
    /\ skipped' = [skipped EXCEPT ![h] = {i \in Ids : OwnedBy(i, o) /\ IsRunning(i)}]
    /\ UNCHANGED <<target, store, memory, process, bounds>>

ClearRow(h, i) ==
    /\ pc[h] = "clear"
    /\ i \in todo[h]
    /\ Present(i)
    /\ DeleteJob(i)
    /\ pc' = [pc EXCEPT ![h] = "clear_map"]
    /\ target' = [target EXCEPT ![h] = i]
    /\ todo' = [todo EXCEPT ![h] = @ \ {i}]
    /\ UNCHANGED <<used, memory, process, caller, skipped, bounds>>
\* Seeded fault: the deletion is tried again.
ClearMissingRetries(h, i) ==
    /\ pc[h] = "clear"
    /\ i \in todo[h]
    /\ ~Present(i)
    /\ UNCHANGED vars

\* ErrNotFound: somebody else deleted it; the loop goes on.
ClearMissing(h, i) ==
    /\ StoreFree
    /\ pc[h] = "clear"
    /\ i \in todo[h]
    /\ ~Present(i)
    /\ todo' = [todo EXCEPT ![h] = @ \ {i}]
    /\ UNCHANGED <<store, memory, process, pc, caller, target, skipped, bounds>>

ClearMap(h) ==
    /\ pc[h] = "clear_map"
    /\ registered' = registered \ {target[h]}
    /\ pc' = [pc EXCEPT ![h] = "clear"]
    /\ target' = [target EXCEPT ![h] = NoId]
    /\ UNCHANGED <<store, memState, cancelRequested, held, process,
                   caller, todo, skipped, bounds>>

\* The loop is over, or a failing DELETE ends it early.
ClearDone(h) ==
    /\ Answer(h, "clear")
    /\ (todo[h] = {} /\ UNCHANGED bounds) \/ (todo[h] # {} /\ WriteFails)
    /\ UNCHANGED <<store, memory, process>>

-----------------------------------------------------------------------------
(* Cancel: getOwned is a row lookup and then a registry lookup.            *)

CancelBegin(h, o, i) ==
    /\ StoreFree
    /\ OwnedBy(i, o)
    /\ Accept(h, o, i, "cancel_map")
    /\ UNCHANGED <<store, memory, process, bounds>>

CancelMap(h) ==
    /\ Goto(h, "cancel_map", "cancel_flag")
    /\ target[h] \in registered
    /\ UNCHANGED <<store, memory, process, bounds>>

CancelNotFound(h) ==
    /\ Answer(h, "cancel_map")
    /\ target[h] \notin registered
    /\ UNCHANGED <<store, memory, process, bounds>>

\* The flag under the mutex, then SIGTERM and the grace period: the program may
\* heed the signal, which ProcExit allows at any time, or ignore it.
CancelFlag(h) ==
    /\ Goto(h, "cancel_flag", "cancel_probe")
    /\ target[h] \notin held
    /\ cancelRequested' = [cancelRequested EXCEPT ![target[h]] = TRUE]
    /\ UNCHANGED <<store, registered, memState, held, process, bounds>>

\* Signal(0) after the grace period: it fails once the process was waited for.
CancelProbe(h) ==
    /\ Goto(h, "cancel_probe", "cancel_kill")
    /\ proc[target[h]] # "gone"
    /\ UNCHANGED <<store, memory, process, bounds>>

CancelDone(h) ==
    /\ Goto(h, "cancel_probe", "cancel_view")
    /\ proc[target[h]] = "gone" \/ target[h] \in Refusing
    /\ UNCHANGED <<store, memory, process, bounds>>

\* SIGTERM, or the kill, is refused and answered as an error, and so is the kill of a
\* process that was waited for since the probe.  The flag stays.
CancelRefused(h) ==
    /\ \/ Answer(h, "cancel_probe") /\ target[h] \in Refusing
       \/ Answer(h, "cancel_kill") /\ (target[h] \in Refusing \/ proc[target[h]] = "gone")
    /\ UNCHANGED <<store, memory, process, bounds>>
\* Seeded fault: no SIGKILL after the grace period.
CancelKillSkipped(h) ==
    /\ Goto(h, "cancel_kill", "cancel_view")
    /\ UNCHANGED <<store, memory, process, bounds>>

\* Killing a zombie does nothing.
CancelKill(h) ==
    /\ Goto(h, "cancel_kill", "cancel_view")
    /\ proc[target[h]] # "gone"
    /\ proc' = [proc EXCEPT ![target[h]] = IF @ = "alive" THEN "killed" ELSE @]
    /\ UNCHANGED <<store, memory, exitCode, waiter, bounds>>

\* What a start and a cancel answer is a snapshot, which takes the mutex again.
AnswerView(h) ==
    /\ Answer(h, "start_view") \/ Answer(h, "cancel_view")
    /\ target[h] \notin held
    /\ UNCHANGED <<store, memory, process, bounds>>

-----------------------------------------------------------------------------
(* Other requests: WriteStdin keeps the mutex of a running execution while *)
(* its program does not read, and the replay of output keeps the store's   *)
(* connection while its client does not read (ExecIO and OutputPipeline).  *)

OtherLocks(l) ==
    /\ l \in Ids => l \in registered /\ waiter[l] \in {"none", "waiting", "exited"}
    /\ held' = held \cup {l}
    /\ UNCHANGED <<store, registered, memState, cancelRequested, process, handler, bounds>>

OtherUnlocks(l) ==
    /\ held' = held \ {l}
    /\ UNCHANGED <<store, registered, memState, cancelRequested, process, handler, bounds>>

-----------------------------------------------------------------------------
(* StartTransfer and CompleteTransfer: a row and no managed execution.     *)
(* CompleteTransfer reads the row before and after its one UPDATE; nobody  *)
(* can delete the row before it, and what it reads later changes nothing.  *)

XferBegin(h, o, i) ==
    /\ Accept(h, o, i, "xfer")
    /\ CreateJob(i, o, "xfer")
    /\ UNCHANGED <<memory, process, bounds>>

XferEnd(h) ==
    /\ Answer(h, "xfer")
    /\ \/ /\ WriteOK
          /\ OwnedBy(target[h], caller[h])
          /\ \E s \in {"exited", "canceled"} : CompleteJob(target[h], s, "none")
       \/ WriteFails /\ UNCHANGED jobs
    /\ UNCHANGED <<used, memory, process>>

-----------------------------------------------------------------------------
(* The daemon dies or is stopped, and a new one opens the same database.   *)
(* The rows and the child processes are all that is left.                  *)

CrashRestart ==
    /\ crashes < MaxCrashes
    /\ crashes' = crashes + 1
    /\ registered' = {}
    /\ memState' = [i \in Ids |-> "none"]
    /\ cancelRequested' = [i \in Ids |-> FALSE]
    /\ held' = {}
    /\ exitCode' = [i \in Ids |-> "none"]
    /\ waiter' = [i \in Ids |-> "none"]
    /\ pc' = [h \in Handlers |-> "idle"]
    /\ caller' = [h \in Handlers |-> "nobody"]
    /\ target' = [h \in Handlers |-> NoId]
    /\ todo' = [h \in Handlers |-> {}]
    /\ skipped' = [h \in Handlers |-> {}]
    /\ UNCHANGED <<store, proc, faults>>

-----------------------------------------------------------------------------
Request(h) ==
    \E o \in Owners :
       \/ ClearList(h, o)
       \/ \E i \in Ids : \/ StartBegin(h, o, i) \/ XferBegin(h, o, i)
                         \/ DeleteCheck(h, o, i) \/ CancelBegin(h, o, i)

StartStep(h)  == \/ StartSpawn(h) \/ StartSpawnFails(h) \/ StartPid(h)
                 \/ StartPidFails(h) \/ StartRegister(h) \/ StartWatch(h)
DeleteStep(h) == DeleteRow(h) \/ DeleteRowFails(h) \/ DeleteMap(h)
ClearStep(h)  == \/ \E i \in Ids : ClearRow(h, i) \/ ClearMissing(h, i)
                 \/ ClearMap(h) \/ ClearDone(h)
CancelStep(h) == \/ CancelMap(h) \/ CancelNotFound(h) \/ CancelFlag(h)
                 \/ CancelProbe(h) \/ CancelDone(h) \/ CancelRefused(h)
                 \/ CancelKill(h)

HandlerStep(h) == \/ StartStep(h) \/ DeleteStep(h) \/ ClearStep(h) \/ CancelStep(h)
                  \/ AnswerView(h)
WaiterStep(i)  == WaiterReap(i) \/ WaiterFinish(i) \/ WaiterPersist(i)

Next ==
    \/ \E h \in Handlers : Request(h) \/ HandlerStep(h) \/ XferEnd(h)
    \/ \E i \in Ids : ProcExit(i) \/ WaiterStep(i)
    \/ \E l \in Locks : OtherLocks(l) \/ OtherUnlocks(l)
    \/ CrashRestart

Spec == Init /\ [][Next]_vars

\* The Go scheduler runs every handler and every waiter that can run.  Who waits for
\* a mutex or for the store's connection gets it in the end, when it comes free again
\* and again (a starving mutex is handed over; requests for a connection queue up).
\* The kernel delivers SIGKILL.  No program is assumed to exit by itself, no client
\* to send a request or to read, no lock to be freed, and no fault to happen.
Fairness ==
    /\ \A h \in Handlers : SF_vars(HandlerStep(h) /\ UNCHANGED bounds)
    /\ \A i \in Ids : /\ SF_vars(WaiterStep(i) /\ UNCHANGED bounds)
                      /\ WF_vars(ProcExit(i) /\ proc[i] = "killed")

FairSpec == Spec /\ Fairness

-----------------------------------------------------------------------------
(* Properties *)

\* An execution that is being waited for can always be found: its row says
\* running and the registry has it, so Get, List, Attach, WriteStdin and Cancel
\* reach it whatever Delete, Clear and other handlers do, and even after a write
\* of the store has failed (Manager.start, waitForExit, Delete, ClearHistory).
LiveIsVisible ==
    \A i \in Ids : waiter[i] \in ActiveWait =>
        IsRunning(i) /\ jobs[i].kind = "exec" /\ i \in registered

\* No managed execution outlives its row in the registry, except while the
\* handler that deleted the row is about to drop it (Delete and ClearHistory
\* delete in two steps, and ClearHistory skips the second on ErrNotFound).
RegistryTracksRows ==
    \A i \in registered :
        Present(i) \/ \E h \in Handlers : pc[h] \in DropPCs /\ target[h] = i

\* While no store write has failed and the daemon has not restarted, a running
\* row is always some goroutine's business: a start, a transfer or a waiter is
\* going to give it an outcome.
RunningIsManaged ==
    crashes = 0 /\ faults = 0 =>
        \A i \in Ids : IsRunning(i) =>
            \/ waiter[i] \in ActiveWait
            \/ \E h \in Handlers : pc[h] \in StartPCs \cup {"xfer"} /\ target[h] = i

\* The persisted outcome is the one waitForExit decided in memory, with the exit
\* code of the process, and it says canceled only if a Cancel set the flag: what
\* Cancel answers from memory and what Get answers from the row agree.
OutcomeIsTheWaiters ==
    \A i \in Ids :
        jobs[i].state \in {"exited", "canceled"} /\ waiter[i] = "done" =>
            /\ jobs[i].state = memState[i]
            /\ jobs[i].exit = exitCode[i]
            /\ jobs[i].state = "canceled" => cancelRequested[i]

\* A row is deleted, and a cancel flag raised while it exists, only by a handler that
\* serves the owner of that row; checks made before a step still hold when it is taken.
OwnerActs ==
    \A i \in Ids :
        /\ Present(i)
        /\ jobs'[i].state = "none" \/ (~cancelRequested[i] /\ cancelRequested'[i])
        => \E h \in Handlers : caller[h] = jobs[i].owner /\ pc[h] # pc'[h]
OnlyOwnerActs == [][OwnerActs]_vars

\* The table keeps the promise of JobHistory: every step of the daemon is one
\* step of a job's record there or changes none.
Hist == [i \in Ids |->
           IF Present(i) THEN [state |-> jobs[i].state, owner |-> jobs[i].owner,
                               kind |-> jobs[i].kind, exit |-> jobs[i].exit]
           ELSE [state |-> IF i \in used THEN "deleted" ELSE "absent",
                 owner |-> "nobody", kind |-> "none", exit |-> "none"]]
History     == INSTANCE JobHistory WITH hist <- Hist
HistorySpec == History!Spec

HeldForever(l) == <>[](l \in held)
AwaitsMutex(h) ==
    /\ pc[h] \in {"start_watch", "start_view", "cancel_flag", "cancel_view"}
    /\ target[h] \in held

\* A cancel that reaches the execution before its outcome is decided ends it, and
\* the history then says canceled (until the owner deletes the row): the forced
\* kill after the grace period does not depend on the program.  It is in vain only if
\* the program refuses signals, or if another request holds the mutex or the store's
\* connection for ever, so that the outcome is never decided or never stored.
CancelTakesEffect ==
    \A i \in Ids \ Refusing :
        \/ HeldForever(i) \/ HeldForever("store")
        \/ cancelRequested[i] /\ waiter[i] \in {"waiting", "exited"}
            ~> jobs[i].state = "canceled" \/ ~Present(i) \/ crashes > 0 \/ faults > 0

\* Every Start, Delete, Clear and Cancel is answered, unless the execution's mutex
\* or the store's connection is held for ever by a request that waits for a program or a
\* client (manager.go:390, 400, 575, 585, 594-617, store.go:297-318): a lock that comes free
\* again and again is enough, no loop goes on for ever, and a list gone stale under
\* ClearHistory stops nobody.
RequestsAreAnswered ==
    \A h \in Handlers :
        \/ <>[]AwaitsMutex(h) \/ HeldForever("store")
        \/ pc[h] \notin {"idle", "xfer"} ~> pc[h] = "idle"

-----------------------------------------------------------------------------
(* What the documentation says and the code does not do. *)

\* README.md:218, "`c`: cancel the selected running execution or transfer": a
\* cancel of one's own running transfer is not answered with ErrNotFound.
CancelReachesTransfers ==
    [][\A h \in Handlers :
        /\ pc[h] = "cancel_map" /\ pc'[h] = "idle" /\ crashes' = crashes
        /\ IsRunning(target[h])
        => jobs[target[h]].kind # "xfer"]_vars
=============================================================================
