--------------------------- MODULE LifecycleProofs ---------------------------
(***************************************************************************)
(* The safety properties of Lifecycle for any sets of ids, owners and      *)
(* handlers and any bounds on crashes and faults. IInv is the inductive    *)
(* invariant; each of its conjuncts is preserved by a lemma of its own.    *)
(* At the end, from the same invariant, Lifecycle implements JobHistory.   *)
(***************************************************************************)
EXTENDS Lifecycle, TLAPS

\* Handlers that will give the row they created its outcome.
Completers == StartPCs \cup {"xfer"}

\* An id nobody has drawn has left no trace.
UnusedIsClean ==
    /\ \A i \in Ids \ used : jobs[i] = NoRow /\ i \notin registered /\ waiter[i] = "none"
    /\ \A h \in Handlers : target[h] \in used \cup {NoId} /\ todo[h] \subseteq used

\* Which handlers have a target, and which a list to clear.
HandlersAreShaped ==
    \A h \in Handlers :
        /\ pc[h] \notin {"idle", "clear"} => target[h] \in Ids
        /\ pc[h] \notin {"clear", "clear_map"} => todo[h] = {}

\* A completer is alone with its id: no waiter, no registry entry before the last step
\* of a start, and no second completer, so the outcome it writes is the first one.
CompletersAreAlone ==
    \A h \in Handlers : pc[h] \in Completers =>
        /\ IsRunning(target[h])
        /\ waiter[target[h]] = "none"
        /\ pc[h] = "start_watch" <=> target[h] \in registered
        /\ \A g \in Handlers : pc[g] \in Completers /\ target[g] = target[h] => g = h

\* What waitForExit relies on.
WaitersAreVisible ==
    \A i \in Ids :
        /\ waiter[i] \in ActiveWait =>
              IsRunning(i) /\ jobs[i].kind = "exec" /\ i \in registered
        /\ waiter[i] = "persist" => memState[i] \in {"exited", "canceled"}
        /\ waiter[i] \in {"persist", "done"} /\ memState[i] = "canceled" => cancelRequested[i]

\* A check of the owner is still right when it is acted on ...
OwnersAreChecked ==
    \A h \in Handlers :
        /\ pc[h] \in CancelPCs \cup {"delete_row"} /\ Present(target[h]) =>
              jobs[target[h]].owner = caller[h]
        /\ \A i \in todo[h] : Present(i) => jobs[i].owner = caller[h]

\* ... and so is a check that the job has ended; a row whose entry is being
\* dropped is gone for good.
EndsAreChecked ==
    \A h \in Handlers :
        /\ pc[h] = "delete_row" => ~IsRunning(target[h])
        /\ pc[h] \in DropPCs => ~Present(target[h])
        /\ \A i \in todo[h] : ~IsRunning(i)

\* The kind a start's row has, for the waiter it leads to.
StartsAreExecs ==
    \A h \in Handlers : pc[h] \in StartPCs => jobs[target[h]].kind = "exec"

IInv ==
    /\ TypeOK
    /\ UnusedIsClean
    /\ HandlersAreShaped
    /\ CompletersAreAlone
    /\ StartsAreExecs
    /\ WaitersAreVisible
    /\ OwnersAreChecked
    /\ EndsAreChecked
    /\ RegistryTracksRows
    /\ OutcomeIsTheWaiters
    /\ RunningIsManaged


LEMMA CompleteJobEffect ==
  ASSUME jobs \in [Ids -> Rows], NEW i \in Ids, NEW s \in RowStates, NEW x \in ExitCodes,
         IsRunning(i), CompleteJob(i, s, x)
  PROVE  /\ jobs' \in [Ids -> Rows]
         /\ jobs'[i].state = s /\ jobs'[i].exit = x
         /\ jobs'[i].owner = jobs[i].owner /\ jobs'[i].kind = jobs[i].kind
         /\ \A j \in Ids \ {i} : jobs'[j] = jobs[j]
<1>1. jobs' = [jobs EXCEPT ![i] = [jobs[i] EXCEPT !.state = s, !.exit = x]]
  BY DEF IsRunning, CompleteJob
<1>2. jobs[i] \in Rows
  OBVIOUS
<1>3. [jobs[i] EXCEPT !.state = s, !.exit = x] \in Rows
  BY <1>2 DEF Rows
<1> QED
  BY <1>1, <1>2, <1>3 DEF Rows

LEMMA PidEffect ==
  ASSUME jobs \in [Ids -> Rows], NEW i \in Ids, jobs' = [jobs EXCEPT ![i].pid = TRUE]
  PROVE  /\ jobs' \in [Ids -> Rows]
         /\ jobs'[i].state = jobs[i].state /\ jobs'[i].exit = jobs[i].exit
         /\ jobs'[i].owner = jobs[i].owner /\ jobs'[i].kind = jobs[i].kind
         /\ \A j \in Ids \ {i} : jobs'[j] = jobs[j]
<1>1. jobs' = [jobs EXCEPT ![i] = [jobs[i] EXCEPT !.pid = TRUE]]
  OBVIOUS
<1>2. jobs[i] \in Rows
  OBVIOUS
<1>3. [jobs[i] EXCEPT !.pid = TRUE] \in Rows
  BY <1>2 DEF Rows
<1> QED
  BY <1>1, <1>2, <1>3 DEF Rows

\* What an answering handler leaves behind; the others keep their place.
Answered(h) ==
    /\ pc'[h] = "idle" /\ target'[h] = NoId /\ todo'[h] = {}
    /\ \A g \in Handlers \ {h} : /\ pc'[g] = pc[g] /\ target'[g] = target[g]
                                /\ caller'[g] = caller[g] /\ todo'[g] = todo[g]

LEMMA AnswerEffect ==
  ASSUME TypeOK, NEW h \in Handlers, NEW from, Answer(h, from)
  PROVE  pc[h] = from /\ Answered(h)
BY DEF Answer, Answered, TypeOK

\* What the waiter's start, and an answer that is an error or a view, change.
LEMMA WatchEffect ==
  ASSUME TypeOK, HandlersAreShaped, NEW h \in Handlers, StartWatch(h)
  PROVE  /\ pc[h] = "start_watch" /\ target[h] \in Ids
         /\ pc'[h] = "start_view" /\ \A g \in Handlers \ {h} : pc'[g] = pc[g]
         /\ waiter' \in [Ids -> WaiterPCs]
         /\ waiter'[target[h]] = "waiting"
         /\ \A i \in Ids \ {target[h]} : waiter'[i] = waiter[i]
         /\ UNCHANGED <<caller, target, todo, jobs, used, registered, memState,
                        cancelRequested, held, exitCode, proc, crashes, faults>>
<1>1. pc[h] = "start_watch"
  BY DEF StartWatch, Goto
<1>2. target[h] \in Ids
  BY <1>1 DEF HandlersAreShaped
<1> QED
  BY <1>1, <1>2 DEF StartWatch, Goto, TypeOK, WaiterPCs, store, memory, bounds

LEMMA AnswerOnly ==
  ASSUME TypeOK, NEW h \in Handlers, CancelRefused(h) \/ AnswerView(h)
  PROVE  /\ pc[h] \in CancelPCs \cup {"start_view"} /\ Answered(h)
         /\ UNCHANGED <<jobs, used, registered, memState, cancelRequested, held, exitCode,
                        proc, waiter, crashes, faults>>
BY AnswerEffect DEF CancelRefused, AnswerView, CancelPCs, store, memory, process, bounds

LEMMA NoRowFacts == NoRow \in Rows /\ NoRow.state = "none" /\ NoRow.owner = "nobody"
BY DEF NoRow, Rows, RowStates, ExitCodes

\* The row gets its outcome, or the write fails; the table is as before otherwise.
CompletesRow(i) ==
    /\ i \in Ids /\ IsRunning(i)
    /\ jobs' \in [Ids -> Rows]
    /\ \A j \in Ids : /\ j # i => jobs'[j] = jobs[j]
                      /\ jobs'[j].state = "none" <=> jobs[j].state = "none"
                      /\ jobs'[j].owner = jobs[j].owner /\ jobs'[j].kind = jobs[j].kind
    /\ \/ UNCHANGED jobs /\ WriteFails
       \/ jobs'[i].state \in FinalStates /\ WriteOK

\* A handler gives its row the outcome and answers.
HandlerCompletes(h) ==
    /\ pc[h] \in Completers /\ CompletesRow(target[h])
    /\ Answered(h)
    /\ \A i \in Ids \ {target[h]} : memState'[i] = memState[i]
    /\ UNCHANGED <<used, registered, cancelRequested, waiter, exitCode>>

LEMMA HandlersOutcome ==
  ASSUME TypeOK, HandlersAreShaped, CompletersAreAlone, NEW h \in Handlers,
         StartSpawnFails(h) \/ XferEnd(h)
  PROVE  HandlerCompletes(h)
<1>1. pc[h] \in Completers /\ pc[h] \notin {"idle", "clear"}
  BY DEF StartSpawnFails, XferEnd, Answer, StartPCs, Completers
<1>2. target[h] \in Ids /\ IsRunning(target[h])
  BY <1>1 DEF HandlersAreShaped, CompletersAreAlone
<1>3. ASSUME UNCHANGED jobs, WriteFails  PROVE CompletesRow(target[h])
  BY <1>2, <1>3 DEF TypeOK, CompletesRow
<1>4. ASSUME NEW s \in FinalStates, NEW x \in ExitCodes, CompleteJob(target[h], s, x), WriteOK
      PROVE  CompletesRow(target[h])
  <2>1. s \in RowStates /\ s # "none" /\ jobs[target[h]].state # "none"
    BY <1>2 DEF RowStates, FinalStates, IsRunning
  <2> QED
    BY <1>2, <1>4, <2>1, CompleteJobEffect DEF TypeOK, CompletesRow
<1>5. \/ UNCHANGED jobs /\ WriteFails
      \/ \E s \in FinalStates, x \in ExitCodes : CompleteJob(target[h], s, x) /\ WriteOK
  BY DEF StartSpawnFails, XferEnd, FinalStates, ExitCodes
<1>6. CompletesRow(target[h])
  BY <1>3, <1>4, <1>5
<1>7. Answered(h)
  BY AnswerEffect DEF StartSpawnFails, XferEnd
<1>8. /\ \A i \in Ids \ {target[h]} : memState'[i] = memState[i]
      /\ UNCHANGED <<used, registered, cancelRequested, waiter, exitCode>>
  BY DEF StartSpawnFails, XferEnd, TypeOK, memory, process
<1> QED
  BY <1>1, <1>6, <1>7, <1>8 DEF HandlerCompletes

LEMMA WaitersOutcome ==
  ASSUME TypeOK, WaitersAreVisible, NEW i \in Ids, WaiterPersist(i)
  PROVE  CompletesRow(i)
<1>1. IsRunning(i) /\ memState[i] \in {"exited", "canceled"} /\ exitCode[i] \in ExitCodes
  BY DEF WaiterPersist, WaitersAreVisible, ActiveWait, TypeOK
<1>2. CASE UNCHANGED jobs /\ WriteFails
  BY <1>1, <1>2 DEF TypeOK, CompletesRow
<1>3. CASE CompleteJob(i, memState[i], exitCode[i]) /\ WriteOK
  <2>1. /\ memState[i] \in RowStates /\ memState[i] \in FinalStates /\ memState[i] # "none"
        /\ jobs[i].state # "none"
    BY <1>1 DEF RowStates, FinalStates, IsRunning
  <2> QED
    BY <1>1, <1>3, <2>1, CompleteJobEffect DEF TypeOK, CompletesRow
<1> QED
  BY <1>2, <1>3 DEF WaiterPersist

LEMMA TypeOKStep ==
  ASSUME TypeOK, HandlersAreShaped, CompletersAreAlone, WaitersAreVisible, [Next]_vars
  PROVE  TypeOK'
<1>1. ASSUME NEW h \in Handlers, NEW o \in Owners, NEW i \in Ids, StartBegin(h, o, i)
      PROVE  TypeOK'
  BY <1>1
  DEF StartBegin, TypeOK, process, bounds, Accept, CreateJob, Rows, RowStates, ExitCodes,
      PCs, StartPCs
<1>2. ASSUME NEW h \in Handlers, NEW o \in Owners, NEW i \in Ids, XferBegin(h, o, i)
      PROVE  TypeOK'
  BY <1>2
  DEF XferBegin, TypeOK, memory, process, bounds, Accept, CreateJob, Rows, RowStates,
      ExitCodes, PCs
<1>3. ASSUME NEW h \in Handlers, NEW o \in Owners, NEW i \in Ids, DeleteCheck(h, o, i)
      PROVE  TypeOK'
  BY <1>3 DEF DeleteCheck, TypeOK, store, memory, process, bounds, Accept, PCs
<1>4. ASSUME NEW h \in Handlers, NEW o \in Owners, NEW i \in Ids, CancelBegin(h, o, i)
      PROVE  TypeOK'
  BY <1>4 DEF CancelBegin, TypeOK, store, memory, process, bounds, Accept, PCs, CancelPCs
<1>5. ASSUME NEW h \in Handlers, NEW o \in Owners, ClearList(h, o) PROVE TypeOK'
  BY <1>5 DEF ClearList, TypeOK, store, memory, process, bounds, PCs
<1>6. ASSUME NEW h \in Handlers, StartSpawn(h) PROVE TypeOK'
  BY <1>6 DEF StartSpawn, TypeOK, store, memory, bounds, Goto, PCs, StartPCs, ProcStates
<1>7. ASSUME NEW h \in Handlers, StartSpawnFails(h) PROVE TypeOK'
  BY <1>7, LifecycleAssumption, CompleteJobEffect
  DEF StartSpawnFails, TypeOK, HandlersAreShaped, process, bounds, Answer, WriteOK,
      WriteFails, RowStates, FinalStates, ExitCodes, PCs, StartPCs, Completers,
      CompletersAreAlone
<1>8. ASSUME NEW h \in Handlers, StartPid(h) PROVE TypeOK'
  BY <1>8, PidEffect DEF StartPid, TypeOK, memory, process, bounds, Goto, PCs, StartPCs
<1>9. ASSUME NEW h \in Handlers, StartPidFails(h) PROVE TypeOK'
  BY <1>9, LifecycleAssumption
  DEF StartPidFails, TypeOK, store, memory, process, Answer, WriteFails, PCs
<1>10. ASSUME NEW h \in Handlers, StartRegister(h) PROVE TypeOK'
  BY <1>10
  DEF StartRegister, TypeOK, HandlersAreShaped, store, process, bounds, Goto, PCs, StartPCs
<1>11. ASSUME NEW h \in Handlers, StartWatch(h) PROVE TypeOK'
  BY <1>11
  DEF StartWatch, TypeOK, HandlersAreShaped, store, memory, bounds, Goto, PCs, WaiterPCs
<1>12. ASSUME NEW h \in Handlers, DeleteRow(h) PROVE TypeOK'
  BY <1>12, NoRowFacts
  DEF DeleteRow, TypeOK, memory, process, bounds, Goto, DeleteJob, PCs, DropPCs
<1>13. ASSUME NEW h \in Handlers, DeleteRowFails(h) PROVE TypeOK'
  BY <1>13, LifecycleAssumption
  DEF DeleteRowFails, TypeOK, store, memory, process, bounds, Answer, WriteFails, PCs
<1>14. ASSUME NEW h \in Handlers, DeleteMap(h) PROVE TypeOK'
  BY <1>14 DEF DeleteMap, TypeOK, store, process, bounds, Answer, PCs
<1>15. ASSUME NEW h \in Handlers, ClearMap(h) PROVE TypeOK'
  BY <1>15 DEF ClearMap, TypeOK, store, process, bounds, PCs
<1>16. ASSUME NEW h \in Handlers, ClearDone(h) PROVE TypeOK'
  BY <1>16, LifecycleAssumption
  DEF ClearDone, TypeOK, store, memory, process, bounds, Answer, WriteFails, PCs
<1>17. ASSUME NEW h \in Handlers, CancelMap(h) PROVE TypeOK'
  BY <1>17 DEF CancelMap, TypeOK, store, memory, process, bounds, Goto, PCs, CancelPCs
<1>18. ASSUME NEW h \in Handlers, CancelNotFound(h) PROVE TypeOK'
  BY <1>18 DEF CancelNotFound, TypeOK, store, memory, process, bounds, Answer, PCs
<1>19. ASSUME NEW h \in Handlers, CancelFlag(h) PROVE TypeOK'
  BY <1>19 DEF CancelFlag, TypeOK, store, process, bounds, Goto, PCs, CancelPCs
<1>20. ASSUME NEW h \in Handlers, CancelProbe(h) PROVE TypeOK'
  BY <1>20 DEF CancelProbe, TypeOK, store, memory, process, bounds, Goto, PCs, CancelPCs
<1>21. ASSUME NEW h \in Handlers, CancelDone(h) PROVE TypeOK'
  BY <1>21 DEF CancelDone, TypeOK, store, memory, process, bounds, Goto, PCs, CancelPCs
<1>22. ASSUME NEW h \in Handlers, CancelRefused(h) PROVE TypeOK'
  BY <1>22 DEF CancelRefused, TypeOK, store, memory, process, bounds, Answer, PCs
<1>23. ASSUME NEW h \in Handlers, CancelKill(h) PROVE TypeOK'
  BY <1>23 DEF CancelKill, TypeOK, store, memory, bounds, Goto, PCs, CancelPCs, ProcStates
<1>24. ASSUME NEW h \in Handlers, AnswerView(h) PROVE TypeOK'
  BY <1>24 DEF AnswerView, TypeOK, store, memory, process, bounds, Answer, PCs
<1>25. ASSUME NEW h \in Handlers, XferEnd(h) PROVE TypeOK'
  BY <1>25, LifecycleAssumption, CompleteJobEffect
  DEF XferEnd, TypeOK, HandlersAreShaped, memory, process, bounds, Answer, WriteOK,
      WriteFails, RowStates, FinalStates, ExitCodes, PCs, Completers, CompletersAreAlone
<1>26. ASSUME NEW h \in Handlers, NEW i \in Ids, ClearRow(h, i) PROVE TypeOK'
  BY <1>26, NoRowFacts
  DEF ClearRow, TypeOK, memory, process, bounds, DeleteJob, PCs, DropPCs
<1>27. ASSUME NEW h \in Handlers, NEW i \in Ids, ClearMissing(h, i)
      PROVE  TypeOK'
  BY <1>27 DEF ClearMissing, TypeOK, store, memory, process, bounds
<1>28. ASSUME NEW i \in Ids, ProcExit(i) PROVE TypeOK'
  BY <1>28 DEF ProcExit, TypeOK, store, memory, handler, bounds, ProcStates
<1>29. ASSUME NEW i \in Ids, WaiterReap(i) PROVE TypeOK'
  BY <1>29
  DEF WaiterReap, TypeOK, store, memory, handler, bounds, ExitCodes, WaiterPCs, ProcStates
<1>30. ASSUME NEW i \in Ids, WaiterFinish(i) PROVE TypeOK'
  BY <1>30
  DEF WaiterFinish, TypeOK, store, handler, bounds, RowStates, FinalStates, WaiterPCs
<1>31. ASSUME NEW i \in Ids, WaiterPersist(i) PROVE TypeOK'
  BY <1>31, LifecycleAssumption, CompleteJobEffect
  DEF WaiterPersist, TypeOK, memory, handler, bounds, WriteOK, WriteFails, FinalStates, PCs,
      WaiterPCs, ActiveWait, WaitersAreVisible
<1>32. CASE CrashRestart
  BY <1>32, LifecycleAssumption
  DEF CrashRestart, TypeOK, store, RowStates, ExitCodes, PCs, WaiterPCs
<1>33. ASSUME NEW l \in Locks, OtherLocks(l) PROVE TypeOK'
  BY <1>33 DEF TypeOK, OtherLocks, store, memory, process, handler, bounds
<1>34. ASSUME NEW l \in Locks, OtherUnlocks(l) PROVE TypeOK'
  BY <1>34 DEF TypeOK, OtherUnlocks, store, memory, process, handler, bounds
<1>35. CASE UNCHANGED vars
  BY <1>35 DEF TypeOK, vars, store, memory, process, handler, bounds
<1>36. QED
  BY <1>1, <1>2, <1>3, <1>4, <1>5, <1>6, <1>7, <1>8, <1>9, <1>10, <1>11, <1>12,
     <1>13, <1>14, <1>15, <1>16, <1>17, <1>18, <1>19, <1>20, <1>21, <1>22, <1>23,
     <1>24, <1>25, <1>26, <1>27, <1>28, <1>29, <1>30, <1>31, <1>32, <1>33, <1>34,
     <1>35
  DEF Next, Request, HandlerStep, StartStep, DeleteStep, ClearStep, CancelStep, WaiterStep

LEMMA UnusedIsCleanStep ==
  ASSUME TypeOK, HandlersAreShaped, UnusedIsClean, CompletersAreAlone, WaitersAreVisible,
         [Next]_vars
  PROVE  UnusedIsClean'
<1>1. ASSUME NEW h \in Handlers, NEW o \in Owners, NEW i \in Ids, StartBegin(h, o, i)
      PROVE  UnusedIsClean'
  BY <1>1 DEF StartBegin, process, Accept, CreateJob, UnusedIsClean
<1>2. ASSUME NEW h \in Handlers, NEW o \in Owners, NEW i \in Ids, XferBegin(h, o, i)
      PROVE  UnusedIsClean'
  BY <1>2 DEF XferBegin, memory, process, Accept, CreateJob, UnusedIsClean
<1>3. ASSUME NEW h \in Handlers, NEW o \in Owners, NEW i \in Ids, DeleteCheck(h, o, i)
      PROVE  UnusedIsClean'
  BY <1>3, NoRowFacts
  DEF DeleteCheck, store, memory, process, Accept, OwnedBy, Present, UnusedIsClean
<1>4. ASSUME NEW h \in Handlers, NEW o \in Owners, NEW i \in Ids, CancelBegin(h, o, i)
      PROVE  UnusedIsClean'
  BY <1>4, NoRowFacts
  DEF CancelBegin, store, memory, process, Accept, OwnedBy, Present, UnusedIsClean
<1>5. ASSUME NEW h \in Handlers, NEW o \in Owners, ClearList(h, o)
      PROVE  UnusedIsClean'
  BY <1>5, NoRowFacts DEF ClearList, store, memory, process, OwnedBy, Present, UnusedIsClean
<1>6. ASSUME NEW h \in Handlers, StartSpawn(h) PROVE UnusedIsClean'
  BY <1>6 DEF StartSpawn, store, memory, Goto, UnusedIsClean
<1>7. ASSUME NEW h \in Handlers, StartSpawnFails(h) PROVE UnusedIsClean'
  BY <1>7, LifecycleAssumption, CompleteJobEffect
  DEF StartSpawnFails, TypeOK, HandlersAreShaped, process, Answer, RowStates, FinalStates,
      ExitCodes, StartPCs, Completers, UnusedIsClean, CompletersAreAlone
<1>8. ASSUME NEW h \in Handlers, StartPid(h) PROVE UnusedIsClean'
  BY <1>8, LifecycleAssumption, PidEffect DEF StartPid, memory, process, Goto, UnusedIsClean
<1>9. ASSUME NEW h \in Handlers, StartPidFails(h) PROVE UnusedIsClean'
  BY <1>9 DEF StartPidFails, store, memory, process, Answer, UnusedIsClean
<1>10. ASSUME NEW h \in Handlers, StartRegister(h) PROVE UnusedIsClean'
  BY <1>10, NoRowFacts
  DEF StartRegister, store, process, Goto, StartPCs, IsRunning, Completers, UnusedIsClean,
      CompletersAreAlone
<1>11. ASSUME NEW h \in Handlers, StartWatch(h) PROVE UnusedIsClean'
  BY <1>11, WatchEffect, NoRowFacts
  DEF StartPCs, IsRunning, Completers, UnusedIsClean, CompletersAreAlone
<1>12. ASSUME NEW h \in Handlers, DeleteRow(h) PROVE UnusedIsClean'
  BY <1>12 DEF DeleteRow, memory, process, Goto, DeleteJob, UnusedIsClean
<1>13. ASSUME NEW h \in Handlers, DeleteRowFails(h) PROVE UnusedIsClean'
  BY <1>13 DEF DeleteRowFails, store, memory, process, Answer, UnusedIsClean
<1>14. ASSUME NEW h \in Handlers, DeleteMap(h) PROVE UnusedIsClean'
  BY <1>14 DEF DeleteMap, store, process, Answer, UnusedIsClean
<1>15. ASSUME NEW h \in Handlers, ClearMap(h) PROVE UnusedIsClean'
  BY <1>15 DEF ClearMap, store, process, UnusedIsClean
<1>16. ASSUME NEW h \in Handlers, ClearDone(h) PROVE UnusedIsClean'
  BY <1>16 DEF ClearDone, store, memory, process, Answer, UnusedIsClean
<1>17. ASSUME NEW h \in Handlers, CancelMap(h) PROVE UnusedIsClean'
  BY <1>17 DEF CancelMap, store, memory, process, Goto, UnusedIsClean
<1>18. ASSUME NEW h \in Handlers, CancelNotFound(h) PROVE UnusedIsClean'
  BY <1>18 DEF CancelNotFound, store, memory, process, Answer, UnusedIsClean
<1>19. ASSUME NEW h \in Handlers, CancelFlag(h) PROVE UnusedIsClean'
  BY <1>19 DEF CancelFlag, store, process, Goto, UnusedIsClean
<1>20. ASSUME NEW h \in Handlers, CancelProbe(h) PROVE UnusedIsClean'
  BY <1>20 DEF CancelProbe, store, memory, process, Goto, UnusedIsClean
<1>21. ASSUME NEW h \in Handlers, CancelDone(h) PROVE UnusedIsClean'
  BY <1>21 DEF CancelDone, store, memory, process, Goto, UnusedIsClean
<1>22. ASSUME NEW h \in Handlers, CancelRefused(h) PROVE UnusedIsClean'
  BY <1>22, AnswerOnly DEF Answered, UnusedIsClean
<1>23. ASSUME NEW h \in Handlers, CancelKill(h) PROVE UnusedIsClean'
  BY <1>23 DEF CancelKill, store, memory, Goto, UnusedIsClean
<1>24. ASSUME NEW h \in Handlers, AnswerView(h) PROVE UnusedIsClean'
  BY <1>24, AnswerOnly DEF Answered, UnusedIsClean
<1>25. ASSUME NEW h \in Handlers, XferEnd(h) PROVE UnusedIsClean'
  BY <1>25, LifecycleAssumption, CompleteJobEffect
  DEF XferEnd, TypeOK, HandlersAreShaped, memory, process, Answer, RowStates, FinalStates,
      ExitCodes, Completers, UnusedIsClean, CompletersAreAlone
<1>26. ASSUME NEW h \in Handlers, NEW i \in Ids, ClearRow(h, i)
      PROVE  UnusedIsClean'
  BY <1>26 DEF ClearRow, memory, process, DeleteJob, UnusedIsClean
<1>27. ASSUME NEW h \in Handlers, NEW i \in Ids, ClearMissing(h, i)
      PROVE  UnusedIsClean'
  BY <1>27 DEF ClearMissing, store, memory, process, UnusedIsClean
<1>28. ASSUME NEW i \in Ids, ProcExit(i) PROVE UnusedIsClean'
  BY <1>28 DEF ProcExit, store, memory, handler, UnusedIsClean
<1>29. ASSUME NEW i \in Ids, WaiterReap(i) PROVE UnusedIsClean'
  BY <1>29 DEF WaiterReap, store, memory, handler, UnusedIsClean
<1>30. ASSUME NEW i \in Ids, WaiterFinish(i) PROVE UnusedIsClean'
  BY <1>30 DEF WaiterFinish, store, handler, UnusedIsClean
<1>31. ASSUME NEW i \in Ids, WaiterPersist(i) PROVE UnusedIsClean'
  BY <1>31, CompleteJobEffect
  DEF WaiterPersist, TypeOK, memory, handler, ActiveWait, UnusedIsClean, WaitersAreVisible
<1>32. CASE CrashRestart
  BY <1>32 DEF CrashRestart, store, UnusedIsClean
<1>33. ASSUME NEW l \in Locks, OtherLocks(l) PROVE UnusedIsClean'
  BY <1>33 DEF OtherLocks, store, memory, process, handler, UnusedIsClean
<1>34. ASSUME NEW l \in Locks, OtherUnlocks(l) PROVE UnusedIsClean'
  BY <1>34 DEF OtherUnlocks, store, memory, process, handler, UnusedIsClean
<1>35. CASE UNCHANGED vars
  BY <1>35 DEF vars, store, memory, process, handler, UnusedIsClean
<1>36. QED
  BY <1>1, <1>2, <1>3, <1>4, <1>5, <1>6, <1>7, <1>8, <1>9, <1>10, <1>11, <1>12,
     <1>13, <1>14, <1>15, <1>16, <1>17, <1>18, <1>19, <1>20, <1>21, <1>22, <1>23,
     <1>24, <1>25, <1>26, <1>27, <1>28, <1>29, <1>30, <1>31, <1>32, <1>33, <1>34,
     <1>35
  DEF Next, Request, HandlerStep, StartStep, DeleteStep, ClearStep, CancelStep, WaiterStep

LEMMA HandlersAreShapedStep ==
  ASSUME TypeOK, HandlersAreShaped, [Next]_vars
  PROVE  HandlersAreShaped'
<1>1. ASSUME NEW h \in Handlers, NEW o \in Owners, NEW i \in Ids, StartBegin(h, o, i)
      PROVE  HandlersAreShaped'
  BY <1>1 DEF StartBegin, TypeOK, HandlersAreShaped, Accept
<1>2. ASSUME NEW h \in Handlers, NEW o \in Owners, NEW i \in Ids, XferBegin(h, o, i)
      PROVE  HandlersAreShaped'
  BY <1>2 DEF XferBegin, TypeOK, HandlersAreShaped, Accept
<1>3. ASSUME NEW h \in Handlers, NEW o \in Owners, NEW i \in Ids, DeleteCheck(h, o, i)
      PROVE  HandlersAreShaped'
  BY <1>3 DEF DeleteCheck, TypeOK, HandlersAreShaped, Accept
<1>4. ASSUME NEW h \in Handlers, NEW o \in Owners, NEW i \in Ids, CancelBegin(h, o, i)
      PROVE  HandlersAreShaped'
  BY <1>4 DEF CancelBegin, TypeOK, HandlersAreShaped, Accept
<1>5. ASSUME NEW h \in Handlers, NEW o \in Owners, ClearList(h, o)
      PROVE  HandlersAreShaped'
  BY <1>5 DEF ClearList, TypeOK, HandlersAreShaped
<1>6. ASSUME NEW h \in Handlers, StartSpawn(h) PROVE HandlersAreShaped'
  BY <1>6 DEF StartSpawn, HandlersAreShaped, Goto
<1>7. ASSUME NEW h \in Handlers, StartSpawnFails(h) PROVE HandlersAreShaped'
  BY <1>7, CompleteJobEffect DEF StartSpawnFails, TypeOK, HandlersAreShaped, Answer
<1>8. ASSUME NEW h \in Handlers, StartPid(h) PROVE HandlersAreShaped'
  BY <1>8, PidEffect DEF StartPid, HandlersAreShaped, Goto
<1>9. ASSUME NEW h \in Handlers, StartPidFails(h) PROVE HandlersAreShaped'
  BY <1>9 DEF StartPidFails, TypeOK, HandlersAreShaped, Answer
<1>10. ASSUME NEW h \in Handlers, StartRegister(h) PROVE HandlersAreShaped'
  BY <1>10 DEF StartRegister, HandlersAreShaped, Goto
<1>11. ASSUME NEW h \in Handlers, StartWatch(h) PROVE HandlersAreShaped'
  BY <1>11, WatchEffect DEF HandlersAreShaped
<1>12. ASSUME NEW h \in Handlers, DeleteRow(h) PROVE HandlersAreShaped'
  BY <1>12 DEF DeleteRow, HandlersAreShaped, Goto
<1>13. ASSUME NEW h \in Handlers, DeleteRowFails(h) PROVE HandlersAreShaped'
  BY <1>13 DEF DeleteRowFails, TypeOK, HandlersAreShaped, Answer
<1>14. ASSUME NEW h \in Handlers, DeleteMap(h) PROVE HandlersAreShaped'
  BY <1>14 DEF DeleteMap, TypeOK, HandlersAreShaped, Answer
<1>15. ASSUME NEW h \in Handlers, ClearMap(h) PROVE HandlersAreShaped'
  BY <1>15 DEF ClearMap, TypeOK, HandlersAreShaped
<1>16. ASSUME NEW h \in Handlers, ClearDone(h) PROVE HandlersAreShaped'
  BY <1>16 DEF ClearDone, TypeOK, HandlersAreShaped, Answer
<1>17. ASSUME NEW h \in Handlers, CancelMap(h) PROVE HandlersAreShaped'
  BY <1>17 DEF CancelMap, HandlersAreShaped, Goto
<1>18. ASSUME NEW h \in Handlers, CancelNotFound(h) PROVE HandlersAreShaped'
  BY <1>18 DEF CancelNotFound, TypeOK, HandlersAreShaped, Answer
<1>19. ASSUME NEW h \in Handlers, CancelFlag(h) PROVE HandlersAreShaped'
  BY <1>19 DEF CancelFlag, HandlersAreShaped, Goto
<1>20. ASSUME NEW h \in Handlers, CancelProbe(h) PROVE HandlersAreShaped'
  BY <1>20 DEF CancelProbe, HandlersAreShaped, Goto
<1>21. ASSUME NEW h \in Handlers, CancelDone(h) PROVE HandlersAreShaped'
  BY <1>21 DEF CancelDone, HandlersAreShaped, Goto
<1>22. ASSUME NEW h \in Handlers, CancelRefused(h) PROVE HandlersAreShaped'
  BY <1>22 DEF CancelRefused, TypeOK, HandlersAreShaped, Answer
<1>23. ASSUME NEW h \in Handlers, CancelKill(h) PROVE HandlersAreShaped'
  BY <1>23 DEF CancelKill, TypeOK, HandlersAreShaped, Goto
<1>24. ASSUME NEW h \in Handlers, AnswerView(h) PROVE HandlersAreShaped'
  BY <1>24, AnswerOnly DEF Answered, HandlersAreShaped
<1>25. ASSUME NEW h \in Handlers, XferEnd(h) PROVE HandlersAreShaped'
  BY <1>25, AnswerEffect DEF XferEnd, Answered, HandlersAreShaped
<1>26. ASSUME NEW h \in Handlers, NEW i \in Ids, ClearRow(h, i)
      PROVE  HandlersAreShaped'
  BY <1>26 DEF ClearRow, TypeOK, HandlersAreShaped
<1>27. ASSUME NEW h \in Handlers, NEW i \in Ids, ClearMissing(h, i)
      PROVE  HandlersAreShaped'
  BY <1>27 DEF ClearMissing, HandlersAreShaped
<1>28. ASSUME NEW i \in Ids, ProcExit(i) PROVE HandlersAreShaped'
  BY <1>28 DEF ProcExit, HandlersAreShaped, handler
<1>29. ASSUME NEW i \in Ids, WaiterReap(i) PROVE HandlersAreShaped'
  BY <1>29 DEF WaiterReap, HandlersAreShaped, handler
<1>30. ASSUME NEW i \in Ids, WaiterFinish(i) PROVE HandlersAreShaped'
  BY <1>30 DEF WaiterFinish, HandlersAreShaped, handler
<1>31. ASSUME NEW i \in Ids, WaiterPersist(i) PROVE HandlersAreShaped'
  BY <1>31, CompleteJobEffect DEF WaiterPersist, HandlersAreShaped, handler
<1>32. CASE CrashRestart
  BY <1>32 DEF CrashRestart, HandlersAreShaped
<1>33. ASSUME NEW l \in Locks, OtherLocks(l) PROVE HandlersAreShaped'
  BY <1>33 DEF HandlersAreShaped, OtherLocks, handler
<1>34. ASSUME NEW l \in Locks, OtherUnlocks(l) PROVE HandlersAreShaped'
  BY <1>34 DEF HandlersAreShaped, OtherUnlocks, handler
<1>35. CASE UNCHANGED vars
  BY <1>35 DEF HandlersAreShaped, vars, handler
<1>36. QED
  BY <1>1, <1>2, <1>3, <1>4, <1>5, <1>6, <1>7, <1>8, <1>9, <1>10, <1>11, <1>12,
     <1>13, <1>14, <1>15, <1>16, <1>17, <1>18, <1>19, <1>20, <1>21, <1>22, <1>23,
     <1>24, <1>25, <1>26, <1>27, <1>28, <1>29, <1>30, <1>31, <1>32, <1>33, <1>34,
     <1>35
  DEF Next, Request, HandlerStep, StartStep, DeleteStep, ClearStep, CancelStep, WaiterStep

LEMMA CompletersAreAloneStep ==
  ASSUME TypeOK, HandlersAreShaped, UnusedIsClean, CompletersAreAlone, WaitersAreVisible,
         EndsAreChecked, [Next]_vars
  PROVE  CompletersAreAlone'
<1>1. ASSUME NEW h \in Handlers, NEW o \in Owners, NEW i \in Ids, StartBegin(h, o, i)
      PROVE  CompletersAreAlone'
  BY <1>1, NoRowFacts
  DEF StartBegin, TypeOK, process, Accept, CreateJob, IsRunning, UnusedIsClean,
      CompletersAreAlone
<1>2. ASSUME NEW h \in Handlers, NEW o \in Owners, NEW i \in Ids, XferBegin(h, o, i)
      PROVE  CompletersAreAlone'
  BY <1>2, NoRowFacts
  DEF XferBegin, TypeOK, memory, process, Accept, CreateJob, IsRunning, UnusedIsClean,
      CompletersAreAlone
<1>3. ASSUME NEW h \in Handlers, NEW o \in Owners, NEW i \in Ids, DeleteCheck(h, o, i)
      PROVE  CompletersAreAlone'
  BY <1>3
  DEF DeleteCheck, store, memory, process, Accept, StartPCs, IsRunning, Completers,
      CompletersAreAlone
<1>4. ASSUME NEW h \in Handlers, NEW o \in Owners, NEW i \in Ids, CancelBegin(h, o, i)
      PROVE  CompletersAreAlone'
  BY <1>4
  DEF CancelBegin, store, memory, process, Accept, StartPCs, IsRunning, Completers,
      CompletersAreAlone
<1>5. ASSUME NEW h \in Handlers, NEW o \in Owners, ClearList(h, o)
      PROVE  CompletersAreAlone'
  BY <1>5
  DEF ClearList, store, memory, process, StartPCs, IsRunning, Completers, CompletersAreAlone
<1>6. ASSUME NEW h \in Handlers, StartSpawn(h) PROVE CompletersAreAlone'
  BY <1>6
  DEF StartSpawn, store, memory, Goto, StartPCs, IsRunning, Completers, CompletersAreAlone
<1>7. ASSUME NEW h \in Handlers, StartSpawnFails(h) PROVE CompletersAreAlone'
  <2>1. HandlerCompletes(h)
    BY <1>7, HandlersOutcome
  <2> QED
    BY <2>1
    DEF HandlerCompletes, Answered, CompletesRow, StartPCs, IsRunning, Completers,
        HandlersAreShaped, CompletersAreAlone
<1>8. ASSUME NEW h \in Handlers, StartPid(h) PROVE CompletersAreAlone'
  BY <1>8, PidEffect
  DEF StartPid, memory, process, Goto, StartPCs, IsRunning, Completers, CompletersAreAlone
<1>9. ASSUME NEW h \in Handlers, StartPidFails(h) PROVE CompletersAreAlone'
  BY <1>9
  DEF StartPidFails, TypeOK, store, memory, process, Answer, StartPCs, IsRunning,
      Completers, CompletersAreAlone
<1>10. ASSUME NEW h \in Handlers, StartRegister(h) PROVE CompletersAreAlone'
  <2>1. pc[h] = "start_register" /\ pc[h] \in Completers /\ target[h] \in Ids
    BY <1>10 DEF StartRegister, Goto, StartPCs, Completers, HandlersAreShaped
  <2>2. \A g \in Handlers \ {h} : pc[g] \in Completers => target[g] # target[h]
    BY <2>1 DEF CompletersAreAlone
  <2>3. /\ UNCHANGED <<jobs, waiter, target>> /\ registered' = registered \cup {target[h]}
        /\ pc' = [pc EXCEPT ![h] = "start_watch"]
    BY <1>10 DEF StartRegister, Goto, store, process
  <2>4. /\ pc'[h] = "start_watch" /\ \A g \in Handlers \ {h} : pc'[g] = pc[g]
    BY <2>3 DEF TypeOK
  <2> QED
    BY <2>1, <2>2, <2>3, <2>4 DEF IsRunning, CompletersAreAlone
<1>11. ASSUME NEW h \in Handlers, StartWatch(h) PROVE CompletersAreAlone'
  <2>1. pc[h] \in Completers
    BY <1>11, WatchEffect DEF StartPCs, Completers
  <2>2. \A g \in Handlers \ {h} : pc[g] \in Completers => target[g] \in Ids \ {target[h]}
    BY <2>1 DEF CompletersAreAlone, HandlersAreShaped, StartPCs, Completers
  <2> QED
    BY <1>11, <2>2, WatchEffect DEF StartPCs, IsRunning, Completers, CompletersAreAlone
<1>12. ASSUME NEW h \in Handlers, DeleteRow(h) PROVE CompletersAreAlone'
  BY <1>12
  DEF DeleteRow, memory, process, Goto, DeleteJob, StartPCs, IsRunning, Completers,
      CompletersAreAlone, EndsAreChecked
<1>13. ASSUME NEW h \in Handlers, DeleteRowFails(h) PROVE CompletersAreAlone'
  BY <1>13, AnswerEffect
  DEF DeleteRowFails, Answered, store, memory, process, StartPCs, IsRunning, Completers,
      CompletersAreAlone
<1>14. ASSUME NEW h \in Handlers, DeleteMap(h) PROVE CompletersAreAlone'
  <2>1. ~IsRunning(target[h])
    BY <1>14 DEF DeleteMap, Answer, DropPCs, EndsAreChecked, IsRunning, Present
  <2>2. \A g \in Handlers : pc'[g] \in Completers => /\ pc'[g] = pc[g]
                                                     /\ target'[g] = target[g]
    BY <1>14 DEF DeleteMap, Answer, TypeOK, StartPCs, Completers
  <2> QED
    BY <1>14, <2>1, <2>2 DEF DeleteMap, store, process, IsRunning, CompletersAreAlone
<1>15. ASSUME NEW h \in Handlers, ClearMap(h) PROVE CompletersAreAlone'
  <2>1. ~IsRunning(target[h])
    BY <1>15 DEF ClearMap, DropPCs, EndsAreChecked, IsRunning, Present
  <2>2. \A g \in Handlers : pc'[g] \in Completers => /\ pc'[g] = pc[g]
                                                     /\ target'[g] = target[g]
    BY <1>15 DEF ClearMap, TypeOK, StartPCs, Completers
  <2> QED
    BY <1>15, <2>1, <2>2 DEF ClearMap, store, process, IsRunning, CompletersAreAlone
<1>16. ASSUME NEW h \in Handlers, ClearDone(h) PROVE CompletersAreAlone'
  BY <1>16, AnswerEffect
  DEF ClearDone, Answered, store, memory, process, StartPCs, IsRunning, Completers,
      CompletersAreAlone
<1>17. ASSUME NEW h \in Handlers, CancelMap(h) PROVE CompletersAreAlone'
  BY <1>17
  DEF CancelMap, store, memory, process, Goto, StartPCs, IsRunning, Completers,
      CompletersAreAlone
<1>18. ASSUME NEW h \in Handlers, CancelNotFound(h) PROVE CompletersAreAlone'
  BY <1>18, AnswerEffect
  DEF CancelNotFound, Answered, store, memory, process, StartPCs, IsRunning, Completers,
      CompletersAreAlone
<1>19. ASSUME NEW h \in Handlers, CancelFlag(h) PROVE CompletersAreAlone'
  BY <1>19
  DEF CancelFlag, store, process, Goto, StartPCs, IsRunning, Completers, CompletersAreAlone
<1>20. ASSUME NEW h \in Handlers, CancelProbe(h) PROVE CompletersAreAlone'
  BY <1>20
  DEF CancelProbe, store, memory, process, Goto, StartPCs, IsRunning, Completers,
      CompletersAreAlone
<1>21. ASSUME NEW h \in Handlers, CancelDone(h) PROVE CompletersAreAlone'
  BY <1>21
  DEF CancelDone, store, memory, process, Goto, StartPCs, IsRunning, Completers,
      CompletersAreAlone
<1>22. ASSUME NEW h \in Handlers, CancelRefused(h) PROVE CompletersAreAlone'
  BY <1>22, AnswerEffect
  DEF CancelRefused, Answered, store, memory, process, StartPCs, IsRunning, Completers,
      CompletersAreAlone
<1>23. ASSUME NEW h \in Handlers, CancelKill(h) PROVE CompletersAreAlone'
  BY <1>23
  DEF CancelKill, store, memory, Goto, StartPCs, IsRunning, Completers, CompletersAreAlone
<1>24. ASSUME NEW h \in Handlers, AnswerView(h) PROVE CompletersAreAlone'
  BY <1>24, AnswerOnly DEF Answered, StartPCs, IsRunning, Completers, CompletersAreAlone
<1>25. ASSUME NEW h \in Handlers, XferEnd(h) PROVE CompletersAreAlone'
  <2>1. HandlerCompletes(h)
    BY <1>25, HandlersOutcome
  <2> QED
    BY <2>1
    DEF HandlerCompletes, Answered, CompletesRow, StartPCs, IsRunning, Completers,
        HandlersAreShaped, CompletersAreAlone
<1>26. ASSUME NEW h \in Handlers, NEW i \in Ids, ClearRow(h, i)
      PROVE  CompletersAreAlone'
  <2>1. ~IsRunning(i) /\ \A j \in Ids \ {i} : jobs'[j] = jobs[j]
    BY <1>26 DEF ClearRow, DeleteJob, EndsAreChecked, TypeOK
  <2>2. \A g \in Handlers : pc'[g] \in Completers => /\ pc[g] \in Completers
                                                     /\ target'[g] = target[g]
    BY <1>26 DEF ClearRow, StartPCs, Completers, TypeOK
  <2>3. \A g \in Handlers : pc[g] \in Completers => target[g] \in Ids \ {i}
    BY <2>1 DEF CompletersAreAlone, HandlersAreShaped, StartPCs, Completers
  <2> QED
    BY <1>26, <2>1, <2>2, <2>3 DEF ClearRow, memory, process, IsRunning, CompletersAreAlone
<1>27. ASSUME NEW h \in Handlers, NEW i \in Ids, ClearMissing(h, i)
      PROVE  CompletersAreAlone'
  BY <1>27 DEF ClearMissing, store, memory, process, IsRunning, CompletersAreAlone
<1>28. ASSUME NEW i \in Ids, ProcExit(i) PROVE CompletersAreAlone'
  BY <1>28 DEF ProcExit, store, memory, handler, IsRunning, CompletersAreAlone
<1>29. ASSUME NEW i \in Ids, WaiterReap(i) PROVE CompletersAreAlone'
  BY <1>29 DEF WaiterReap, store, memory, handler, IsRunning, CompletersAreAlone
<1>30. ASSUME NEW i \in Ids, WaiterFinish(i) PROVE CompletersAreAlone'
  BY <1>30 DEF WaiterFinish, store, handler, IsRunning, CompletersAreAlone
<1>31. ASSUME NEW i \in Ids, WaiterPersist(i) PROVE CompletersAreAlone'
  <2>1. CompletesRow(i)
    BY <1>31, WaitersOutcome
  <2> QED
    BY <1>31, <2>1
    DEF CompletesRow, WaiterPersist, memory, handler, ActiveWait, IsRunning, Completers,
        HandlersAreShaped, StartPCs, CompletersAreAlone
<1>32. CASE CrashRestart
  BY <1>32 DEF CrashRestart, StartPCs, Completers, CompletersAreAlone
<1>33. ASSUME NEW l \in Locks, OtherLocks(l) PROVE CompletersAreAlone'
  BY <1>33 DEF OtherLocks, store, memory, process, handler, IsRunning, CompletersAreAlone
<1>34. ASSUME NEW l \in Locks, OtherUnlocks(l) PROVE CompletersAreAlone'
  BY <1>34 DEF OtherUnlocks, store, memory, process, handler, IsRunning, CompletersAreAlone
<1>35. CASE UNCHANGED vars
  BY <1>35 DEF vars, store, memory, process, handler, IsRunning, CompletersAreAlone
<1>36. QED
  BY <1>1, <1>2, <1>3, <1>4, <1>5, <1>6, <1>7, <1>8, <1>9, <1>10, <1>11, <1>12,
     <1>13, <1>14, <1>15, <1>16, <1>17, <1>18, <1>19, <1>20, <1>21, <1>22, <1>23,
     <1>24, <1>25, <1>26, <1>27, <1>28, <1>29, <1>30, <1>31, <1>32, <1>33, <1>34,
     <1>35
  DEF Next, Request, HandlerStep, StartStep, DeleteStep, ClearStep, CancelStep, WaiterStep

LEMMA StartsAreExecsStep ==
  ASSUME TypeOK, HandlersAreShaped, CompletersAreAlone, StartsAreExecs, UnusedIsClean,
         WaitersAreVisible, EndsAreChecked, [Next]_vars
  PROVE  StartsAreExecs'
<1>1. ASSUME NEW h \in Handlers, NEW o \in Owners, NEW i \in Ids, StartBegin(h, o, i)
      PROVE  StartsAreExecs'
  BY <1>1 DEF StartBegin, TypeOK, Accept, CreateJob, StartsAreExecs
<1>2. ASSUME NEW h \in Handlers, NEW o \in Owners, NEW i \in Ids, XferBegin(h, o, i)
      PROVE  StartsAreExecs'
  BY <1>2, NoRowFacts
  DEF XferBegin, Accept, CreateJob, StartPCs, IsRunning, Completers, CompletersAreAlone,
      StartsAreExecs, UnusedIsClean
<1>3. ASSUME NEW h \in Handlers, NEW o \in Owners, NEW i \in Ids, DeleteCheck(h, o, i)
      PROVE  StartsAreExecs'
  BY <1>3 DEF DeleteCheck, store, Accept, StartPCs, StartsAreExecs
<1>4. ASSUME NEW h \in Handlers, NEW o \in Owners, NEW i \in Ids, CancelBegin(h, o, i)
      PROVE  StartsAreExecs'
  BY <1>4 DEF CancelBegin, store, Accept, StartPCs, StartsAreExecs
<1>5. ASSUME NEW h \in Handlers, NEW o \in Owners, ClearList(h, o)
      PROVE  StartsAreExecs'
  BY <1>5 DEF ClearList, store, StartPCs, StartsAreExecs
<1>6. ASSUME NEW h \in Handlers, StartSpawn(h) PROVE StartsAreExecs'
  BY <1>6 DEF StartSpawn, store, Goto, StartPCs, StartsAreExecs
<1>7. ASSUME NEW h \in Handlers, StartSpawnFails(h) PROVE StartsAreExecs'
  <2>1. HandlerCompletes(h)
    BY <1>7, HandlersOutcome
  <2> QED
    BY <2>1
    DEF HandlerCompletes, Answered, CompletesRow, StartPCs, Completers, CompletersAreAlone,
        HandlersAreShaped, StartsAreExecs
<1>8. ASSUME NEW h \in Handlers, StartPid(h) PROVE StartsAreExecs'
  BY <1>8, PidEffect DEF StartPid, Goto, StartPCs, StartsAreExecs
<1>9. ASSUME NEW h \in Handlers, StartPidFails(h) PROVE StartsAreExecs'
  BY <1>9 DEF StartPidFails, TypeOK, store, Answer, StartPCs, StartsAreExecs
<1>10. ASSUME NEW h \in Handlers, StartRegister(h) PROVE StartsAreExecs'
  BY <1>10 DEF StartRegister, store, Goto, StartPCs, StartsAreExecs
<1>11. ASSUME NEW h \in Handlers, StartWatch(h) PROVE StartsAreExecs'
  BY <1>11, WatchEffect DEF StartPCs, StartsAreExecs
<1>12. ASSUME NEW h \in Handlers, DeleteRow(h) PROVE StartsAreExecs'
  <2> SUFFICES ASSUME NEW g \in Handlers, pc'[g] \in StartPCs
                PROVE  jobs[target[g]].kind' = "exec"
    BY DEF StartsAreExecs
  <2>1. g # h /\ pc[g] \in StartPCs /\ target'[g] = target[g] /\ target[g] \in Ids
    BY <1>12 DEF DeleteRow, Goto, HandlersAreShaped, StartPCs
  <2>2. target[g] # target[h]
    BY <1>12, <2>1 DEF DeleteRow, Goto, CompletersAreAlone, Completers, EndsAreChecked
  <2>3. jobs'[target[g]] = jobs[target[g]]
    BY <1>12, <2>1, <2>2 DEF DeleteRow, DeleteJob
  <2> QED
    BY <2>1, <2>3 DEF StartsAreExecs
<1>13. ASSUME NEW h \in Handlers, DeleteRowFails(h) PROVE StartsAreExecs'
  BY <1>13 DEF DeleteRowFails, store, Answer, StartPCs, StartsAreExecs
<1>14. ASSUME NEW h \in Handlers, DeleteMap(h) PROVE StartsAreExecs'
  BY <1>14 DEF DeleteMap, store, Answer, StartPCs, StartsAreExecs
<1>15. ASSUME NEW h \in Handlers, ClearMap(h) PROVE StartsAreExecs'
  BY <1>15 DEF ClearMap, store, StartPCs, StartsAreExecs
<1>16. ASSUME NEW h \in Handlers, ClearDone(h) PROVE StartsAreExecs'
  BY <1>16 DEF ClearDone, store, Answer, StartPCs, StartsAreExecs
<1>17. ASSUME NEW h \in Handlers, CancelMap(h) PROVE StartsAreExecs'
  BY <1>17 DEF CancelMap, store, Goto, StartPCs, StartsAreExecs
<1>18. ASSUME NEW h \in Handlers, CancelNotFound(h) PROVE StartsAreExecs'
  BY <1>18 DEF CancelNotFound, store, Answer, StartPCs, StartsAreExecs
<1>19. ASSUME NEW h \in Handlers, CancelFlag(h) PROVE StartsAreExecs'
  BY <1>19 DEF CancelFlag, store, Goto, StartPCs, StartsAreExecs
<1>20. ASSUME NEW h \in Handlers, CancelProbe(h) PROVE StartsAreExecs'
  BY <1>20 DEF CancelProbe, store, Goto, StartPCs, StartsAreExecs
<1>21. ASSUME NEW h \in Handlers, CancelDone(h) PROVE StartsAreExecs'
  BY <1>21 DEF CancelDone, store, Goto, StartPCs, StartsAreExecs
<1>22. ASSUME NEW h \in Handlers, CancelRefused(h) PROVE StartsAreExecs'
  BY <1>22, AnswerOnly DEF Answered, StartPCs, StartsAreExecs
<1>23. ASSUME NEW h \in Handlers, CancelKill(h) PROVE StartsAreExecs'
  BY <1>23 DEF CancelKill, store, Goto, StartPCs, StartsAreExecs
<1>24. ASSUME NEW h \in Handlers, AnswerView(h) PROVE StartsAreExecs'
  BY <1>24, AnswerOnly DEF Answered, StartPCs, StartsAreExecs
<1>25. ASSUME NEW h \in Handlers, XferEnd(h) PROVE StartsAreExecs'
  <2>1. HandlerCompletes(h)
    BY <1>25, HandlersOutcome
  <2> QED
    BY <2>1
    DEF HandlerCompletes, Answered, CompletesRow, StartPCs, Completers, CompletersAreAlone,
        HandlersAreShaped, StartsAreExecs
<1>26. ASSUME NEW h \in Handlers, NEW i \in Ids, ClearRow(h, i)
      PROVE  StartsAreExecs'
  <2> SUFFICES ASSUME NEW g \in Handlers, pc'[g] \in StartPCs
                PROVE  jobs[target[g]].kind' = "exec"
    BY DEF StartsAreExecs
  <2>1. g # h /\ pc[g] \in StartPCs /\ target'[g] = target[g] /\ target[g] \in Ids
    BY <1>26 DEF ClearRow, HandlersAreShaped, StartPCs
  <2>2. target[g] # i
    BY <1>26, <2>1 DEF ClearRow, CompletersAreAlone, Completers, EndsAreChecked
  <2>3. jobs'[target[g]] = jobs[target[g]]
    BY <1>26, <2>1, <2>2 DEF ClearRow, DeleteJob
  <2> QED
    BY <2>1, <2>3 DEF StartsAreExecs
<1>27. ASSUME NEW h \in Handlers, NEW i \in Ids, ClearMissing(h, i)
      PROVE  StartsAreExecs'
  BY <1>27 DEF ClearMissing, store, StartsAreExecs
<1>28. ASSUME NEW i \in Ids, ProcExit(i) PROVE StartsAreExecs'
  BY <1>28 DEF ProcExit, store, handler, StartsAreExecs
<1>29. ASSUME NEW i \in Ids, WaiterReap(i) PROVE StartsAreExecs'
  BY <1>29 DEF WaiterReap, store, handler, StartsAreExecs
<1>30. ASSUME NEW i \in Ids, WaiterFinish(i) PROVE StartsAreExecs'
  BY <1>30 DEF WaiterFinish, store, handler, StartsAreExecs
<1>31. ASSUME NEW i \in Ids, WaiterPersist(i) PROVE StartsAreExecs'
  <2>1. CompletesRow(i)
    BY <1>31, WaitersOutcome
  <2> QED
    BY <1>31, <2>1
    DEF CompletesRow, WaiterPersist, handler, HandlersAreShaped, StartPCs, StartsAreExecs
<1>32. CASE CrashRestart
  BY <1>32 DEF CrashRestart, StartPCs, StartsAreExecs
<1>33. ASSUME NEW l \in Locks, OtherLocks(l) PROVE StartsAreExecs'
  BY <1>33 DEF OtherLocks, store, handler, StartsAreExecs
<1>34. ASSUME NEW l \in Locks, OtherUnlocks(l) PROVE StartsAreExecs'
  BY <1>34 DEF OtherUnlocks, store, handler, StartsAreExecs
<1>35. CASE UNCHANGED vars
  BY <1>35 DEF vars, store, handler, StartsAreExecs
<1>36. QED
  BY <1>1, <1>2, <1>3, <1>4, <1>5, <1>6, <1>7, <1>8, <1>9, <1>10, <1>11, <1>12,
     <1>13, <1>14, <1>15, <1>16, <1>17, <1>18, <1>19, <1>20, <1>21, <1>22, <1>23,
     <1>24, <1>25, <1>26, <1>27, <1>28, <1>29, <1>30, <1>31, <1>32, <1>33, <1>34,
     <1>35
  DEF Next, Request, HandlerStep, StartStep, DeleteStep, ClearStep, CancelStep, WaiterStep

LEMMA WaitersAreVisibleStep ==
  ASSUME TypeOK, HandlersAreShaped, CompletersAreAlone, StartsAreExecs, WaitersAreVisible,
         EndsAreChecked, UnusedIsClean, [Next]_vars
  PROVE  WaitersAreVisible'
<1>1. ASSUME NEW h \in Handlers, NEW o \in Owners, NEW i \in Ids, StartBegin(h, o, i)
      PROVE  WaitersAreVisible'
  BY <1>1
  DEF StartBegin, process, Accept, CreateJob, IsRunning, WaitersAreVisible, UnusedIsClean
<1>2. ASSUME NEW h \in Handlers, NEW o \in Owners, NEW i \in Ids, XferBegin(h, o, i)
      PROVE  WaitersAreVisible'
  BY <1>2
  DEF XferBegin, memory, process, Accept, CreateJob, IsRunning, WaitersAreVisible,
      UnusedIsClean
<1>3. ASSUME NEW h \in Handlers, NEW o \in Owners, NEW i \in Ids, DeleteCheck(h, o, i)
      PROVE  WaitersAreVisible'
  BY <1>3 DEF DeleteCheck, store, memory, process, Accept, IsRunning, WaitersAreVisible
<1>4. ASSUME NEW h \in Handlers, NEW o \in Owners, NEW i \in Ids, CancelBegin(h, o, i)
      PROVE  WaitersAreVisible'
  BY <1>4 DEF CancelBegin, store, memory, process, Accept, IsRunning, WaitersAreVisible
<1>5. ASSUME NEW h \in Handlers, NEW o \in Owners, ClearList(h, o)
      PROVE  WaitersAreVisible'
  BY <1>5 DEF ClearList, store, memory, process, IsRunning, WaitersAreVisible
<1>6. ASSUME NEW h \in Handlers, StartSpawn(h) PROVE WaitersAreVisible'
  BY <1>6 DEF StartSpawn, store, memory, Goto, IsRunning, WaitersAreVisible
<1>7. ASSUME NEW h \in Handlers, StartSpawnFails(h) PROVE WaitersAreVisible'
  <2>1. HandlerCompletes(h)
    BY <1>7, HandlersOutcome
  <2> QED
    BY <2>1
    DEF HandlerCompletes, Answered, CompletesRow, ActiveWait, IsRunning, CompletersAreAlone,
        WaitersAreVisible
<1>8. ASSUME NEW h \in Handlers, StartPid(h) PROVE WaitersAreVisible'
  BY <1>8, PidEffect DEF StartPid, memory, process, Goto, IsRunning, WaitersAreVisible
<1>9. ASSUME NEW h \in Handlers, StartPidFails(h) PROVE WaitersAreVisible'
  BY <1>9
  DEF StartPidFails, store, memory, process, Answer, WriteFails, IsRunning,
      WaitersAreVisible
<1>10. ASSUME NEW h \in Handlers, StartRegister(h) PROVE WaitersAreVisible'
  BY <1>10 DEF StartRegister, store, memory, process, Goto, IsRunning, WaitersAreVisible
<1>11. ASSUME NEW h \in Handlers, StartWatch(h) PROVE WaitersAreVisible'
  <2>1. /\ pc[h] \in Completers /\ pc[h] \in StartPCs /\ IsRunning(target[h])
        /\ target[h] \in registered /\ jobs[target[h]].kind = "exec"
    BY <1>11, WatchEffect DEF StartPCs, Completers, CompletersAreAlone, StartsAreExecs
  <2> QED
    BY <1>11, <2>1, WatchEffect DEF IsRunning, ActiveWait, WaitersAreVisible
<1>12. ASSUME NEW h \in Handlers, DeleteRow(h) PROVE WaitersAreVisible'
  BY <1>12
  DEF DeleteRow, memory, process, Goto, DeleteJob, IsRunning, WaitersAreVisible,
      EndsAreChecked
<1>13. ASSUME NEW h \in Handlers, DeleteRowFails(h) PROVE WaitersAreVisible'
  BY <1>13
  DEF DeleteRowFails, store, memory, process, Answer, WriteFails, IsRunning,
      WaitersAreVisible
<1>14. ASSUME NEW h \in Handlers, DeleteMap(h) PROVE WaitersAreVisible'
  BY <1>14
  DEF DeleteMap, store, process, Answer, DropPCs, IsRunning, Present, WaitersAreVisible,
      EndsAreChecked
<1>15. ASSUME NEW h \in Handlers, ClearMap(h) PROVE WaitersAreVisible'
  BY <1>15
  DEF ClearMap, store, process, DropPCs, IsRunning, Present, WaitersAreVisible,
      EndsAreChecked
<1>16. ASSUME NEW h \in Handlers, ClearDone(h) PROVE WaitersAreVisible'
  BY <1>16
  DEF ClearDone, store, memory, process, Answer, WriteFails, IsRunning, WaitersAreVisible
<1>17. ASSUME NEW h \in Handlers, CancelMap(h) PROVE WaitersAreVisible'
  BY <1>17 DEF CancelMap, store, memory, process, Goto, IsRunning, WaitersAreVisible
<1>18. ASSUME NEW h \in Handlers, CancelNotFound(h) PROVE WaitersAreVisible'
  BY <1>18 DEF CancelNotFound, store, memory, process, Answer, IsRunning, WaitersAreVisible
<1>19. ASSUME NEW h \in Handlers, CancelFlag(h) PROVE WaitersAreVisible'
  BY <1>19 DEF CancelFlag, store, process, Goto, IsRunning, WaitersAreVisible
<1>20. ASSUME NEW h \in Handlers, CancelProbe(h) PROVE WaitersAreVisible'
  BY <1>20 DEF CancelProbe, store, memory, process, Goto, IsRunning, WaitersAreVisible
<1>21. ASSUME NEW h \in Handlers, CancelDone(h) PROVE WaitersAreVisible'
  BY <1>21 DEF CancelDone, store, memory, process, Goto, IsRunning, WaitersAreVisible
<1>22. ASSUME NEW h \in Handlers, CancelRefused(h) PROVE WaitersAreVisible'
  BY <1>22 DEF CancelRefused, store, memory, process, Answer, IsRunning, WaitersAreVisible
<1>23. ASSUME NEW h \in Handlers, CancelKill(h) PROVE WaitersAreVisible'
  BY <1>23 DEF CancelKill, store, memory, Goto, IsRunning, WaitersAreVisible
<1>24. ASSUME NEW h \in Handlers, AnswerView(h) PROVE WaitersAreVisible'
  BY <1>24, AnswerOnly DEF IsRunning, WaitersAreVisible
<1>25. ASSUME NEW h \in Handlers, XferEnd(h) PROVE WaitersAreVisible'
  <2>1. HandlerCompletes(h)
    BY <1>25, HandlersOutcome
  <2> QED
    BY <2>1
    DEF HandlerCompletes, Answered, CompletesRow, ActiveWait, IsRunning, CompletersAreAlone,
        WaitersAreVisible
<1>26. ASSUME NEW h \in Handlers, NEW i \in Ids, ClearRow(h, i)
      PROVE  WaitersAreVisible'
  BY <1>26
  DEF ClearRow, memory, process, DeleteJob, IsRunning, WaitersAreVisible, EndsAreChecked
<1>27. ASSUME NEW h \in Handlers, NEW i \in Ids, ClearMissing(h, i)
      PROVE  WaitersAreVisible'
  BY <1>27 DEF ClearMissing, store, memory, process, IsRunning, WaitersAreVisible
<1>28. ASSUME NEW i \in Ids, ProcExit(i) PROVE WaitersAreVisible'
  BY <1>28 DEF ProcExit, store, memory, IsRunning, WaitersAreVisible
<1>29. ASSUME NEW i \in Ids, WaiterReap(i) PROVE WaitersAreVisible'
  BY <1>29 DEF WaiterReap, store, memory, ActiveWait, IsRunning, WaitersAreVisible
<1>30. ASSUME NEW i \in Ids, WaiterFinish(i) PROVE WaitersAreVisible'
  BY <1>30 DEF WaiterFinish, TypeOK, store, ActiveWait, IsRunning, WaitersAreVisible
<1>31. ASSUME NEW i \in Ids, WaiterPersist(i) PROVE WaitersAreVisible'
  <2>1. CompletesRow(i)
    BY <1>31, WaitersOutcome
  <2> QED
    BY <1>31, <2>1
    DEF CompletesRow, WaiterPersist, memory, TypeOK, ActiveWait, IsRunning,
        WaitersAreVisible
<1>32. CASE CrashRestart
  BY <1>32 DEF CrashRestart, ActiveWait, WaitersAreVisible
<1>33. ASSUME NEW l \in Locks, OtherLocks(l) PROVE WaitersAreVisible'
  BY <1>33 DEF OtherLocks, store, memory, process, IsRunning, WaitersAreVisible
<1>34. ASSUME NEW l \in Locks, OtherUnlocks(l) PROVE WaitersAreVisible'
  BY <1>34 DEF OtherUnlocks, store, memory, process, IsRunning, WaitersAreVisible
<1>35. CASE UNCHANGED vars
  BY <1>35 DEF vars, store, memory, process, IsRunning, WaitersAreVisible
<1>36. QED
  BY <1>1, <1>2, <1>3, <1>4, <1>5, <1>6, <1>7, <1>8, <1>9, <1>10, <1>11, <1>12,
     <1>13, <1>14, <1>15, <1>16, <1>17, <1>18, <1>19, <1>20, <1>21, <1>22, <1>23,
     <1>24, <1>25, <1>26, <1>27, <1>28, <1>29, <1>30, <1>31, <1>32, <1>33, <1>34,
     <1>35
  DEF Next, Request, HandlerStep, StartStep, DeleteStep, ClearStep, CancelStep, WaiterStep

LEMMA OwnersAreCheckedStep ==
  ASSUME TypeOK, HandlersAreShaped, UnusedIsClean, CompletersAreAlone, WaitersAreVisible,
         OwnersAreChecked, [Next]_vars
  PROVE  OwnersAreChecked'
<1>1. ASSUME NEW h \in Handlers, NEW o \in Owners, NEW i \in Ids, StartBegin(h, o, i)
      PROVE  OwnersAreChecked'
  <2>1. ASSUME NEW g \in Handlers,
               pc[g]' \in CancelPCs \cup {"delete_row"}, Present(target[g])'
        PROVE  jobs[target[g]].owner' = caller[g]'
    BY <1>1, <2>1, LifecycleAssumption
    DEF StartBegin, Accept, CreateJob, Present, TypeOK, UnusedIsClean, OwnersAreChecked
  <2>2. ASSUME NEW g \in Handlers, NEW j \in todo[g]', Present(j)'
        PROVE  jobs[j].owner' = caller[g]'
    <3>1. g # h
      BY <1>1, <2>2 DEF StartBegin, Accept, HandlersAreShaped
    <3>2. j \in todo[g] /\ caller[g]' = caller[g]
      BY <1>1, <2>2, <3>1 DEF StartBegin, Accept
    <3>3. jobs[j]' = jobs[j]
      BY <1>1, <3>2 DEF StartBegin, CreateJob, UnusedIsClean
    <3> QED
      BY <2>2, <3>2, <3>3 DEF OwnersAreChecked, Present
  <2> QED
    BY <2>1, <2>2 DEF OwnersAreChecked
<1>2. ASSUME NEW h \in Handlers, NEW o \in Owners, NEW i \in Ids, XferBegin(h, o, i)
      PROVE  OwnersAreChecked'
  <2>1. ASSUME NEW g \in Handlers,
               pc[g]' \in CancelPCs \cup {"delete_row"}, Present(target[g])'
        PROVE  jobs[target[g]].owner' = caller[g]'
    BY <1>2, <2>1, LifecycleAssumption
    DEF XferBegin, Accept, CreateJob, Present, TypeOK, UnusedIsClean, OwnersAreChecked
  <2>2. ASSUME NEW g \in Handlers, NEW j \in todo[g]', Present(j)'
        PROVE  jobs[j].owner' = caller[g]'
    <3>1. g # h
      BY <1>2, <2>2 DEF XferBegin, Accept, HandlersAreShaped
    <3>2. j \in todo[g] /\ caller[g]' = caller[g]
      BY <1>2, <2>2, <3>1 DEF XferBegin, Accept
    <3>3. jobs[j]' = jobs[j]
      BY <1>2, <3>2 DEF XferBegin, CreateJob, UnusedIsClean
    <3> QED
      BY <2>2, <3>2, <3>3 DEF OwnersAreChecked, Present
  <2> QED
    BY <2>1, <2>2 DEF OwnersAreChecked
<1>3. ASSUME NEW h \in Handlers, NEW o \in Owners, NEW i \in Ids, DeleteCheck(h, o, i)
      PROVE  OwnersAreChecked'
  <2>1. ASSUME NEW g \in Handlers,
               pc[g]' \in CancelPCs \cup {"delete_row"}, Present(target[g])'
        PROVE  jobs[target[g]].owner' = caller[g]'
    BY <1>3, <2>1 DEF DeleteCheck, Accept, OwnedBy, Present, store, TypeOK, OwnersAreChecked
  <2>2. ASSUME NEW g \in Handlers, NEW j \in todo[g]', Present(j)'
        PROVE  jobs[j].owner' = caller[g]'
    <3>1. g # h
      BY <1>3, <2>2 DEF DeleteCheck, Accept, HandlersAreShaped
    <3>2. j \in todo[g] /\ caller[g]' = caller[g]
      BY <1>3, <2>2, <3>1 DEF DeleteCheck, Accept
    <3>3. jobs[j]' = jobs[j]
      BY <1>3, <3>2 DEF DeleteCheck, store
    <3> QED
      BY <2>2, <3>2, <3>3 DEF OwnersAreChecked, Present
  <2> QED
    BY <2>1, <2>2 DEF OwnersAreChecked
<1>4. ASSUME NEW h \in Handlers, NEW o \in Owners, NEW i \in Ids, CancelBegin(h, o, i)
      PROVE  OwnersAreChecked'
  <2>1. ASSUME NEW g \in Handlers,
               pc[g]' \in CancelPCs \cup {"delete_row"}, Present(target[g])'
        PROVE  jobs[target[g]].owner' = caller[g]'
    BY <1>4, <2>1 DEF CancelBegin, Accept, OwnedBy, Present, store, TypeOK, OwnersAreChecked
  <2>2. ASSUME NEW g \in Handlers, NEW j \in todo[g]', Present(j)'
        PROVE  jobs[j].owner' = caller[g]'
    <3>1. g # h
      BY <1>4, <2>2 DEF CancelBegin, Accept, HandlersAreShaped
    <3>2. j \in todo[g] /\ caller[g]' = caller[g]
      BY <1>4, <2>2, <3>1 DEF CancelBegin, Accept
    <3>3. jobs[j]' = jobs[j]
      BY <1>4, <3>2 DEF CancelBegin, store
    <3> QED
      BY <2>2, <3>2, <3>3 DEF OwnersAreChecked, Present
  <2> QED
    BY <2>1, <2>2 DEF OwnersAreChecked
<1>5. ASSUME NEW h \in Handlers, NEW o \in Owners, ClearList(h, o)
      PROVE  OwnersAreChecked'
  BY <1>5 DEF ClearList, TypeOK, store, CancelPCs, OwnedBy, Present, OwnersAreChecked
<1>6. ASSUME NEW h \in Handlers, StartSpawn(h) PROVE OwnersAreChecked'
  BY <1>6 DEF StartSpawn, store, Goto, CancelPCs, Present, OwnersAreChecked
<1>7. ASSUME NEW h \in Handlers, StartSpawnFails(h) PROVE OwnersAreChecked'
  <2>1. HandlerCompletes(h)
    BY <1>7, HandlersOutcome
  <2> QED
    BY <2>1, SMTT(30)
    DEF HandlerCompletes, Answered, CompletesRow, CancelPCs, HandlersAreShaped, Present,
        OwnersAreChecked, TypeOK
<1>8. ASSUME NEW h \in Handlers, StartPid(h) PROVE OwnersAreChecked'
  BY <1>8, PidEffect DEF StartPid, Goto, CancelPCs, Present, OwnersAreChecked
<1>9. ASSUME NEW h \in Handlers, StartPidFails(h) PROVE OwnersAreChecked'
  BY <1>9
  DEF StartPidFails, HandlersAreShaped, store, Answer, CancelPCs, Present, OwnersAreChecked
<1>10. ASSUME NEW h \in Handlers, StartRegister(h) PROVE OwnersAreChecked'
  BY <1>10 DEF StartRegister, store, Goto, CancelPCs, Present, OwnersAreChecked
<1>11. ASSUME NEW h \in Handlers, StartWatch(h) PROVE OwnersAreChecked'
  BY <1>11, WatchEffect DEF CancelPCs, Present, OwnersAreChecked
<1>12. ASSUME NEW h \in Handlers, DeleteRow(h) PROVE OwnersAreChecked'
  BY <1>12, NoRowFacts DEF DeleteRow, Goto, DeleteJob, Present, OwnersAreChecked
<1>13. ASSUME NEW h \in Handlers, DeleteRowFails(h) PROVE OwnersAreChecked'
  BY <1>13 DEF DeleteRowFails, TypeOK, store, Answer, CancelPCs, Present, OwnersAreChecked
<1>14. ASSUME NEW h \in Handlers, DeleteMap(h) PROVE OwnersAreChecked'
  BY <1>14
  DEF DeleteMap, HandlersAreShaped, store, Answer, CancelPCs, Present, OwnersAreChecked
<1>15. ASSUME NEW h \in Handlers, ClearMap(h) PROVE OwnersAreChecked'
  BY <1>15 DEF ClearMap, store, CancelPCs, Present, OwnersAreChecked
<1>16. ASSUME NEW h \in Handlers, ClearDone(h) PROVE OwnersAreChecked'
  BY <1>16 DEF ClearDone, TypeOK, store, Answer, CancelPCs, Present, OwnersAreChecked
<1>17. ASSUME NEW h \in Handlers, CancelMap(h) PROVE OwnersAreChecked'
  BY <1>17 DEF CancelMap, store, Goto, CancelPCs, Present, OwnersAreChecked
<1>18. ASSUME NEW h \in Handlers, CancelNotFound(h) PROVE OwnersAreChecked'
  BY <1>18 DEF CancelNotFound, TypeOK, store, Answer, CancelPCs, Present, OwnersAreChecked
<1>19. ASSUME NEW h \in Handlers, CancelFlag(h) PROVE OwnersAreChecked'
  BY <1>19 DEF CancelFlag, store, Goto, CancelPCs, Present, OwnersAreChecked
<1>20. ASSUME NEW h \in Handlers, CancelProbe(h) PROVE OwnersAreChecked'
  BY <1>20 DEF CancelProbe, store, Goto, CancelPCs, Present, OwnersAreChecked
<1>21. ASSUME NEW h \in Handlers, CancelDone(h) PROVE OwnersAreChecked'
  BY <1>21 DEF CancelDone, store, Goto, CancelPCs, Present, OwnersAreChecked
<1>22. ASSUME NEW h \in Handlers, CancelRefused(h) PROVE OwnersAreChecked'
  BY <1>22, AnswerOnly DEF Answered, CancelPCs, Present, OwnersAreChecked
<1>23. ASSUME NEW h \in Handlers, CancelKill(h) PROVE OwnersAreChecked'
  BY <1>23 DEF CancelKill, TypeOK, store, Goto, CancelPCs, Present, OwnersAreChecked
<1>24. ASSUME NEW h \in Handlers, AnswerView(h) PROVE OwnersAreChecked'
  BY <1>24, AnswerOnly DEF Answered, CancelPCs, Present, OwnersAreChecked
<1>25. ASSUME NEW h \in Handlers, XferEnd(h) PROVE OwnersAreChecked'
  <2>1. HandlerCompletes(h)
    BY <1>25, HandlersOutcome
  <2> QED
    BY <2>1, SMTT(30)
    DEF HandlerCompletes, Answered, CompletesRow, CancelPCs, HandlersAreShaped, Present,
        OwnersAreChecked, TypeOK
<1>26. ASSUME NEW h \in Handlers, NEW i \in Ids, ClearRow(h, i)
      PROVE  OwnersAreChecked'
  BY <1>26, NoRowFacts DEF ClearRow, TypeOK, DeleteJob, Present, OwnersAreChecked
<1>27. ASSUME NEW h \in Handlers, NEW i \in Ids, ClearMissing(h, i)
      PROVE  OwnersAreChecked'
  BY <1>27 DEF ClearMissing, store, Present, OwnersAreChecked
<1>28. ASSUME NEW i \in Ids, ProcExit(i) PROVE OwnersAreChecked'
  BY <1>28 DEF ProcExit, store, handler, Present, OwnersAreChecked
<1>29. ASSUME NEW i \in Ids, WaiterReap(i) PROVE OwnersAreChecked'
  BY <1>29 DEF WaiterReap, store, handler, Present, OwnersAreChecked
<1>30. ASSUME NEW i \in Ids, WaiterFinish(i) PROVE OwnersAreChecked'
  BY <1>30 DEF WaiterFinish, store, handler, Present, OwnersAreChecked
<1>31. ASSUME NEW i \in Ids, WaiterPersist(i) PROVE OwnersAreChecked'
  <2>1. CompletesRow(i)
    BY <1>31, WaitersOutcome
  <2> QED
    <3>1. UNCHANGED <<pc, caller, target, todo>>
      BY <1>31 DEF WaiterPersist, handler
    <3>2. \A j \in Ids : Present(j)' => Present(j) /\ jobs'[j].owner = jobs[j].owner
      BY <2>1 DEF CompletesRow, Present
    <3>3. \A h \in Handlers : /\ pc[h] \in CancelPCs \cup {"delete_row"} => target[h] \in Ids
                              /\ todo[h] \subseteq Ids
      BY DEF HandlersAreShaped, CancelPCs, TypeOK
    <3> QED
      BY <3>1, <3>2, <3>3 DEF OwnersAreChecked
<1>32. CASE CrashRestart
  BY <1>32 DEF CrashRestart, CancelPCs, OwnersAreChecked
<1>33. ASSUME NEW l \in Locks, OtherLocks(l) PROVE OwnersAreChecked'
  BY <1>33 DEF OtherLocks, store, handler, Present, OwnersAreChecked
<1>34. ASSUME NEW l \in Locks, OtherUnlocks(l) PROVE OwnersAreChecked'
  BY <1>34 DEF OtherUnlocks, store, handler, Present, OwnersAreChecked
<1>35. CASE UNCHANGED vars
  BY <1>35 DEF vars, store, handler, Present, OwnersAreChecked
<1>36. QED
  BY <1>1, <1>2, <1>3, <1>4, <1>5, <1>6, <1>7, <1>8, <1>9, <1>10, <1>11, <1>12,
     <1>13, <1>14, <1>15, <1>16, <1>17, <1>18, <1>19, <1>20, <1>21, <1>22, <1>23,
     <1>24, <1>25, <1>26, <1>27, <1>28, <1>29, <1>30, <1>31, <1>32, <1>33, <1>34,
     <1>35
  DEF Next, Request, HandlerStep, StartStep, DeleteStep, ClearStep, CancelStep, WaiterStep

LEMMA EndsAreCheckedStep ==
  ASSUME TypeOK, HandlersAreShaped, UnusedIsClean, CompletersAreAlone, WaitersAreVisible,
         EndsAreChecked, [Next]_vars
  PROVE  EndsAreChecked'
<1>1. ASSUME NEW h \in Handlers, NEW o \in Owners, NEW i \in Ids, StartBegin(h, o, i)
      PROVE  EndsAreChecked'
  BY <1>1, LifecycleAssumption
  DEF StartBegin, Accept, CreateJob, DropPCs, IsRunning, Present, UnusedIsClean,
      EndsAreChecked
<1>2. ASSUME NEW h \in Handlers, NEW o \in Owners, NEW i \in Ids, XferBegin(h, o, i)
      PROVE  EndsAreChecked'
  BY <1>2, LifecycleAssumption
  DEF XferBegin, Accept, CreateJob, DropPCs, IsRunning, Present, UnusedIsClean,
      EndsAreChecked
<1>3. ASSUME NEW h \in Handlers, NEW o \in Owners, NEW i \in Ids, DeleteCheck(h, o, i)
      PROVE  EndsAreChecked'
  BY <1>3
  DEF DeleteCheck, TypeOK, store, Accept, DropPCs, IsRunning, Present, EndsAreChecked
<1>4. ASSUME NEW h \in Handlers, NEW o \in Owners, NEW i \in Ids, CancelBegin(h, o, i)
      PROVE  EndsAreChecked'
  BY <1>4 DEF CancelBegin, store, Accept, DropPCs, IsRunning, Present, EndsAreChecked
<1>5. ASSUME NEW h \in Handlers, NEW o \in Owners, ClearList(h, o)
      PROVE  EndsAreChecked'
  BY <1>5 DEF ClearList, store, DropPCs, IsRunning, Present, EndsAreChecked
<1>6. ASSUME NEW h \in Handlers, StartSpawn(h) PROVE EndsAreChecked'
  BY <1>6 DEF StartSpawn, store, Goto, DropPCs, IsRunning, Present, EndsAreChecked
<1>7. ASSUME NEW h \in Handlers, StartSpawnFails(h) PROVE EndsAreChecked'
  <2>1. HandlerCompletes(h)
    BY <1>7, HandlersOutcome
  <2>2. \A j \in Ids : ~IsRunning(j) => jobs'[j] = jobs[j]
    BY <2>1 DEF HandlerCompletes, CompletesRow, IsRunning
  <2>3. \A g \in Handlers : pc[g] \in DropPCs \cup {"delete_row"} => target[g] \in Ids
    BY DEF HandlersAreShaped, DropPCs
  <2>4. \A g \in Handlers : /\ pc'[g] # "idle" => pc'[g] = pc[g] /\ target'[g] = target[g]
                           /\ todo'[g] \subseteq todo[g] /\ todo[g] \subseteq Ids
    BY <2>1 DEF HandlerCompletes, Answered, TypeOK
  <2> QED
    BY <2>2, <2>3, <2>4 DEF DropPCs, IsRunning, Present, EndsAreChecked
<1>8. ASSUME NEW h \in Handlers, StartPid(h) PROVE EndsAreChecked'
  BY <1>8, PidEffect DEF StartPid, Goto, DropPCs, IsRunning, Present, EndsAreChecked
<1>9. ASSUME NEW h \in Handlers, StartPidFails(h) PROVE EndsAreChecked'
  BY <1>9
  DEF StartPidFails, store, Answer, WriteFails, DropPCs, IsRunning, Present, EndsAreChecked
<1>10. ASSUME NEW h \in Handlers, StartRegister(h) PROVE EndsAreChecked'
  BY <1>10 DEF StartRegister, store, Goto, DropPCs, IsRunning, Present, EndsAreChecked
<1>11. ASSUME NEW h \in Handlers, StartWatch(h) PROVE EndsAreChecked'
  BY <1>11, WatchEffect DEF DropPCs, IsRunning, Present, EndsAreChecked
<1>12. ASSUME NEW h \in Handlers, DeleteRow(h) PROVE EndsAreChecked'
  BY <1>12, LifecycleAssumption, NoRowFacts
  DEF DeleteRow, TypeOK, HandlersAreShaped, Goto, DeleteJob, IsRunning, Present,
      EndsAreChecked
<1>13. ASSUME NEW h \in Handlers, DeleteRowFails(h) PROVE EndsAreChecked'
  BY <1>13
  DEF DeleteRowFails, TypeOK, store, Answer, WriteFails, DropPCs, IsRunning, Present,
      EndsAreChecked
<1>14. ASSUME NEW h \in Handlers, DeleteMap(h) PROVE EndsAreChecked'
  BY <1>14 DEF DeleteMap, TypeOK, store, Answer, DropPCs, IsRunning, Present, EndsAreChecked
<1>15. ASSUME NEW h \in Handlers, ClearMap(h) PROVE EndsAreChecked'
  BY <1>15 DEF ClearMap, TypeOK, store, DropPCs, IsRunning, Present, EndsAreChecked
<1>16. ASSUME NEW h \in Handlers, ClearDone(h) PROVE EndsAreChecked'
  BY <1>16
  DEF ClearDone, store, Answer, WriteFails, DropPCs, IsRunning, Present, EndsAreChecked
<1>17. ASSUME NEW h \in Handlers, CancelMap(h) PROVE EndsAreChecked'
  BY <1>17 DEF CancelMap, store, Goto, DropPCs, IsRunning, Present, EndsAreChecked
<1>18. ASSUME NEW h \in Handlers, CancelNotFound(h) PROVE EndsAreChecked'
  BY <1>18 DEF CancelNotFound, store, Answer, DropPCs, IsRunning, Present, EndsAreChecked
<1>19. ASSUME NEW h \in Handlers, CancelFlag(h) PROVE EndsAreChecked'
  BY <1>19 DEF CancelFlag, store, Goto, DropPCs, IsRunning, Present, EndsAreChecked
<1>20. ASSUME NEW h \in Handlers, CancelProbe(h) PROVE EndsAreChecked'
  BY <1>20 DEF CancelProbe, store, Goto, DropPCs, IsRunning, Present, EndsAreChecked
<1>21. ASSUME NEW h \in Handlers, CancelDone(h) PROVE EndsAreChecked'
  BY <1>21 DEF CancelDone, store, Goto, DropPCs, IsRunning, Present, EndsAreChecked
<1>22. ASSUME NEW h \in Handlers, CancelRefused(h) PROVE EndsAreChecked'
  BY <1>22, AnswerOnly DEF Answered, DropPCs, IsRunning, Present, EndsAreChecked
<1>23. ASSUME NEW h \in Handlers, CancelKill(h) PROVE EndsAreChecked'
  BY <1>23 DEF CancelKill, store, Goto, DropPCs, IsRunning, Present, EndsAreChecked
<1>24. ASSUME NEW h \in Handlers, AnswerView(h) PROVE EndsAreChecked'
  BY <1>24, AnswerOnly DEF Answered, DropPCs, IsRunning, Present, EndsAreChecked
<1>25. ASSUME NEW h \in Handlers, XferEnd(h) PROVE EndsAreChecked'
  <2>1. HandlerCompletes(h)
    BY <1>25, HandlersOutcome
  <2>2. \A j \in Ids : ~IsRunning(j) => jobs'[j] = jobs[j]
    BY <2>1 DEF HandlerCompletes, CompletesRow, IsRunning
  <2>3. \A g \in Handlers : pc[g] \in DropPCs \cup {"delete_row"} => target[g] \in Ids
    BY DEF HandlersAreShaped, DropPCs
  <2>4. \A g \in Handlers : /\ pc'[g] # "idle" => pc'[g] = pc[g] /\ target'[g] = target[g]
                           /\ todo'[g] \subseteq todo[g] /\ todo[g] \subseteq Ids
    BY <2>1 DEF HandlerCompletes, Answered, TypeOK
  <2> QED
    BY <2>2, <2>3, <2>4 DEF DropPCs, IsRunning, Present, EndsAreChecked
<1>26. ASSUME NEW h \in Handlers, NEW i \in Ids, ClearRow(h, i)
      PROVE  EndsAreChecked'
  BY <1>26, NoRowFacts DEF ClearRow, TypeOK, DeleteJob, IsRunning, Present, EndsAreChecked
<1>27. ASSUME NEW h \in Handlers, NEW i \in Ids, ClearMissing(h, i)
      PROVE  EndsAreChecked'
  BY <1>27 DEF ClearMissing, store, IsRunning, Present, EndsAreChecked
<1>28. ASSUME NEW i \in Ids, ProcExit(i) PROVE EndsAreChecked'
  BY <1>28 DEF ProcExit, store, handler, IsRunning, Present, EndsAreChecked
<1>29. ASSUME NEW i \in Ids, WaiterReap(i) PROVE EndsAreChecked'
  BY <1>29 DEF WaiterReap, store, handler, IsRunning, Present, EndsAreChecked
<1>30. ASSUME NEW i \in Ids, WaiterFinish(i) PROVE EndsAreChecked'
  BY <1>30 DEF WaiterFinish, store, handler, IsRunning, Present, EndsAreChecked
<1>31. ASSUME NEW i \in Ids, WaiterPersist(i) PROVE EndsAreChecked'
  <2>1. CompletesRow(i)
    BY <1>31, WaitersOutcome
  <2> QED
    BY <1>31, <2>1
    DEF CompletesRow, WaiterPersist, handler, DropPCs, HandlersAreShaped, FinalStates,
        IsRunning, Present, EndsAreChecked, TypeOK
<1>32. CASE CrashRestart
  BY <1>32 DEF CrashRestart, DropPCs, EndsAreChecked
<1>33. ASSUME NEW l \in Locks, OtherLocks(l) PROVE EndsAreChecked'
  BY <1>33 DEF OtherLocks, store, handler, IsRunning, Present, EndsAreChecked
<1>34. ASSUME NEW l \in Locks, OtherUnlocks(l) PROVE EndsAreChecked'
  BY <1>34 DEF OtherUnlocks, store, handler, IsRunning, Present, EndsAreChecked
<1>35. CASE UNCHANGED vars
  BY <1>35 DEF vars, store, handler, IsRunning, Present, EndsAreChecked
<1>36. QED
  BY <1>1, <1>2, <1>3, <1>4, <1>5, <1>6, <1>7, <1>8, <1>9, <1>10, <1>11, <1>12,
     <1>13, <1>14, <1>15, <1>16, <1>17, <1>18, <1>19, <1>20, <1>21, <1>22, <1>23,
     <1>24, <1>25, <1>26, <1>27, <1>28, <1>29, <1>30, <1>31, <1>32, <1>33, <1>34,
     <1>35
  DEF Next, Request, HandlerStep, StartStep, DeleteStep, ClearStep, CancelStep, WaiterStep

LEMMA RegistryTracksRowsStep ==
  ASSUME TypeOK, HandlersAreShaped, CompletersAreAlone, WaitersAreVisible, EndsAreChecked,
         RegistryTracksRows, [Next]_vars
  PROVE  RegistryTracksRows'
<1>1. ASSUME NEW h \in Handlers, NEW o \in Owners, NEW i \in Ids, StartBegin(h, o, i)
      PROVE  RegistryTracksRows'
  BY <1>1, LifecycleAssumption
  DEF StartBegin, Accept, CreateJob, DropPCs, Present, RegistryTracksRows
<1>2. ASSUME NEW h \in Handlers, NEW o \in Owners, NEW i \in Ids, XferBegin(h, o, i)
      PROVE  RegistryTracksRows'
  BY <1>2, LifecycleAssumption
  DEF XferBegin, memory, Accept, CreateJob, DropPCs, Present, RegistryTracksRows
<1>3. ASSUME NEW h \in Handlers, NEW o \in Owners, NEW i \in Ids, DeleteCheck(h, o, i)
      PROVE  RegistryTracksRows'
  BY <1>3 DEF DeleteCheck, store, memory, Accept, DropPCs, Present, RegistryTracksRows
<1>4. ASSUME NEW h \in Handlers, NEW o \in Owners, NEW i \in Ids, CancelBegin(h, o, i)
      PROVE  RegistryTracksRows'
  BY <1>4 DEF CancelBegin, store, memory, Accept, DropPCs, Present, RegistryTracksRows
<1>5. ASSUME NEW h \in Handlers, NEW o \in Owners, ClearList(h, o)
      PROVE  RegistryTracksRows'
  <2> SUFFICES ASSUME NEW k \in registered', ~Present(k)'
                PROVE  \E g \in Handlers : pc'[g] \in DropPCs /\ target'[g] = k
    BY DEF RegistryTracksRows
  <2>1. PICK g \in Handlers : pc[g] \in DropPCs /\ target[g] = k
    BY <1>5 DEF ClearList, memory, store, Present, RegistryTracksRows
  <2>2. pc'[g] = pc[g] /\ target'[g] = target[g]
    BY <1>5, <2>1 DEF ClearList, DropPCs
  <2> QED
    BY <2>1, <2>2
<1>6. ASSUME NEW h \in Handlers, StartSpawn(h) PROVE RegistryTracksRows'
  BY <1>6 DEF StartSpawn, store, memory, Goto, DropPCs, Present, RegistryTracksRows
<1>7. ASSUME NEW h \in Handlers, StartSpawnFails(h) PROVE RegistryTracksRows'
  <2>1. HandlerCompletes(h)
    BY <1>7, HandlersOutcome
  <2> QED
    BY <2>1, SMTT(30)
    DEF HandlerCompletes, Answered, CompletesRow, DropPCs, StartPCs, Completers, Present,
        RegistryTracksRows, TypeOK
<1>8. ASSUME NEW h \in Handlers, StartPid(h) PROVE RegistryTracksRows'
  BY <1>8, PidEffect DEF StartPid, memory, Goto, Present, RegistryTracksRows
<1>9. ASSUME NEW h \in Handlers, StartPidFails(h) PROVE RegistryTracksRows'
  BY <1>9
  DEF StartPidFails, store, memory, Answer, WriteFails, DropPCs, Present, RegistryTracksRows
<1>10. ASSUME NEW h \in Handlers, StartRegister(h) PROVE RegistryTracksRows'
  BY <1>10
  DEF StartRegister, store, Goto, DropPCs, StartPCs, IsRunning, Present, Completers,
      CompletersAreAlone, RegistryTracksRows
<1>11. ASSUME NEW h \in Handlers, StartWatch(h) PROVE RegistryTracksRows'
  BY <1>11, WatchEffect DEF DropPCs, Present, RegistryTracksRows
<1>12. ASSUME NEW h \in Handlers, DeleteRow(h) PROVE RegistryTracksRows'
  BY <1>12
  DEF DeleteRow, TypeOK, memory, Goto, DeleteJob, DropPCs, Present, RegistryTracksRows
<1>13. ASSUME NEW h \in Handlers, DeleteRowFails(h) PROVE RegistryTracksRows'
  BY <1>13
  DEF DeleteRowFails, store, memory, Answer, WriteFails, DropPCs, Present,
      RegistryTracksRows
<1>14. ASSUME NEW h \in Handlers, DeleteMap(h) PROVE RegistryTracksRows'
  BY <1>14 DEF DeleteMap, store, Answer, Present, RegistryTracksRows
<1>15. ASSUME NEW h \in Handlers, ClearMap(h) PROVE RegistryTracksRows'
  BY <1>15 DEF ClearMap, store, Present, RegistryTracksRows
<1>16. ASSUME NEW h \in Handlers, ClearDone(h) PROVE RegistryTracksRows'
  BY <1>16
  DEF ClearDone, store, memory, Answer, WriteFails, DropPCs, Present, RegistryTracksRows
<1>17. ASSUME NEW h \in Handlers, CancelMap(h) PROVE RegistryTracksRows'
  BY <1>17 DEF CancelMap, store, memory, Goto, DropPCs, Present, RegistryTracksRows
<1>18. ASSUME NEW h \in Handlers, CancelNotFound(h) PROVE RegistryTracksRows'
  BY <1>18 DEF CancelNotFound, store, memory, Answer, Present, RegistryTracksRows
<1>19. ASSUME NEW h \in Handlers, CancelFlag(h) PROVE RegistryTracksRows'
  <2> SUFFICES ASSUME NEW k \in registered', ~Present(k)'
                PROVE  \E g \in Handlers : pc'[g] \in DropPCs /\ target'[g] = k
    BY DEF RegistryTracksRows
  <2>1. PICK g \in Handlers : pc[g] \in DropPCs /\ target[g] = k
    BY <1>19 DEF CancelFlag, Goto, store, Present, RegistryTracksRows
  <2>2. pc'[g] = pc[g] /\ target'[g] = target[g]
    BY <1>19, <2>1 DEF CancelFlag, Goto, DropPCs
  <2> QED
    BY <2>1, <2>2
<1>20. ASSUME NEW h \in Handlers, CancelProbe(h) PROVE RegistryTracksRows'
  <2> SUFFICES ASSUME NEW k \in registered', ~Present(k)'
                PROVE  \E g \in Handlers : pc'[g] \in DropPCs /\ target'[g] = k
    BY DEF RegistryTracksRows
  <2>1. PICK g \in Handlers : pc[g] \in DropPCs /\ target[g] = k
    BY <1>20 DEF CancelProbe, Goto, memory, store, Present, RegistryTracksRows
  <2>2. pc'[g] = pc[g] /\ target'[g] = target[g]
    BY <1>20, <2>1 DEF CancelProbe, Goto, DropPCs
  <2> QED
    BY <2>1, <2>2
<1>21. ASSUME NEW h \in Handlers, CancelDone(h) PROVE RegistryTracksRows'
  <2> SUFFICES ASSUME NEW k \in registered', ~Present(k)'
                PROVE  \E g \in Handlers : pc'[g] \in DropPCs /\ target'[g] = k
    BY DEF RegistryTracksRows
  <2>1. PICK g \in Handlers : pc[g] \in DropPCs /\ target[g] = k
    BY <1>21 DEF CancelDone, Goto, memory, store, Present, RegistryTracksRows
  <2>2. pc'[g] = pc[g] /\ target'[g] = target[g]
    BY <1>21, <2>1 DEF CancelDone, Goto, DropPCs
  <2> QED
    BY <2>1, <2>2
<1>22. ASSUME NEW h \in Handlers, CancelRefused(h) PROVE RegistryTracksRows'
  BY <1>22, AnswerOnly DEF Answered, CancelPCs, DropPCs, Present, RegistryTracksRows
<1>23. ASSUME NEW h \in Handlers, CancelKill(h) PROVE RegistryTracksRows'
  BY <1>23 DEF CancelKill, store, memory, Goto, DropPCs, Present, RegistryTracksRows
<1>24. ASSUME NEW h \in Handlers, AnswerView(h) PROVE RegistryTracksRows'
  BY <1>24, AnswerOnly DEF Answered, CancelPCs, DropPCs, Present, RegistryTracksRows
<1>25. ASSUME NEW h \in Handlers, XferEnd(h) PROVE RegistryTracksRows'
  <2>1. HandlerCompletes(h)
    BY <1>25, HandlersOutcome
  <2> QED
    BY <2>1, SMTT(30)
    DEF HandlerCompletes, Answered, CompletesRow, DropPCs, StartPCs, Completers, Present,
        RegistryTracksRows, TypeOK
<1>26. ASSUME NEW h \in Handlers, NEW i \in Ids, ClearRow(h, i)
      PROVE  RegistryTracksRows'
  <2> SUFFICES ASSUME NEW k \in registered', ~Present(k)'
                PROVE  \E g \in Handlers : pc'[g] \in DropPCs /\ target'[g] = k
    BY DEF RegistryTracksRows
  <2>1. CASE k = i
    BY <1>26, <2>1 DEF ClearRow, TypeOK, DropPCs
  <2>2. CASE k # i
    <3>1. k \in registered /\ ~Present(k)
      BY <1>26, <2>2 DEF ClearRow, DeleteJob, memory, Present
    <3>2. PICK g \in Handlers : pc[g] \in DropPCs /\ target[g] = k
      BY <3>1 DEF RegistryTracksRows
    <3>3. pc'[g] = pc[g] /\ target'[g] = target[g]
      BY <1>26, <3>2 DEF ClearRow, DropPCs
    <3> QED
      BY <3>2, <3>3
  <2> QED
    BY <2>1, <2>2
<1>27. ASSUME NEW h \in Handlers, NEW i \in Ids, ClearMissing(h, i)
      PROVE  RegistryTracksRows'
  BY <1>27 DEF ClearMissing, store, memory, Present, RegistryTracksRows
<1>28. ASSUME NEW i \in Ids, ProcExit(i) PROVE RegistryTracksRows'
  BY <1>28 DEF ProcExit, store, memory, handler, Present, RegistryTracksRows
<1>29. ASSUME NEW i \in Ids, WaiterReap(i) PROVE RegistryTracksRows'
  BY <1>29 DEF WaiterReap, store, memory, handler, Present, RegistryTracksRows
<1>30. ASSUME NEW i \in Ids, WaiterFinish(i) PROVE RegistryTracksRows'
  BY <1>30 DEF WaiterFinish, store, handler, Present, RegistryTracksRows
<1>31. ASSUME NEW i \in Ids, WaiterPersist(i) PROVE RegistryTracksRows'
  <2>1. CompletesRow(i)
    BY <1>31, WaitersOutcome
  <2> QED
    BY <1>31, <2>1
    DEF CompletesRow, WaiterPersist, memory, handler, Present, RegistryTracksRows, TypeOK
<1>32. CASE CrashRestart
  BY <1>32 DEF CrashRestart, RegistryTracksRows
<1>33. ASSUME NEW l \in Locks, OtherLocks(l) PROVE RegistryTracksRows'
  BY <1>33 DEF OtherLocks, store, memory, handler, Present, RegistryTracksRows
<1>34. ASSUME NEW l \in Locks, OtherUnlocks(l) PROVE RegistryTracksRows'
  BY <1>34 DEF OtherUnlocks, store, memory, handler, Present, RegistryTracksRows
<1>35. CASE UNCHANGED vars
  BY <1>35 DEF vars, store, memory, handler, Present, RegistryTracksRows
<1>36. QED
  BY <1>1, <1>2, <1>3, <1>4, <1>5, <1>6, <1>7, <1>8, <1>9, <1>10, <1>11, <1>12,
     <1>13, <1>14, <1>15, <1>16, <1>17, <1>18, <1>19, <1>20, <1>21, <1>22, <1>23,
     <1>24, <1>25, <1>26, <1>27, <1>28, <1>29, <1>30, <1>31, <1>32, <1>33, <1>34,
     <1>35
  DEF Next, Request, HandlerStep, StartStep, DeleteStep, ClearStep, CancelStep, WaiterStep

LEMMA OutcomeIsTheWaitersStep ==
  ASSUME TypeOK, HandlersAreShaped, UnusedIsClean, CompletersAreAlone, WaitersAreVisible,
         OutcomeIsTheWaiters, [Next]_vars
  PROVE  OutcomeIsTheWaiters'
<1>1. ASSUME NEW h \in Handlers, NEW o \in Owners, NEW i \in Ids, StartBegin(h, o, i)
      PROVE  OutcomeIsTheWaiters'
  BY <1>1 DEF StartBegin, process, Accept, CreateJob, UnusedIsClean, OutcomeIsTheWaiters
<1>2. ASSUME NEW h \in Handlers, NEW o \in Owners, NEW i \in Ids, XferBegin(h, o, i)
      PROVE  OutcomeIsTheWaiters'
  BY <1>2 DEF XferBegin, memory, process, Accept, CreateJob, OutcomeIsTheWaiters
<1>3. ASSUME NEW h \in Handlers, NEW o \in Owners, NEW i \in Ids, DeleteCheck(h, o, i)
      PROVE  OutcomeIsTheWaiters'
  BY <1>3 DEF DeleteCheck, store, memory, process, Accept, OutcomeIsTheWaiters
<1>4. ASSUME NEW h \in Handlers, NEW o \in Owners, NEW i \in Ids, CancelBegin(h, o, i)
      PROVE  OutcomeIsTheWaiters'
  BY <1>4 DEF CancelBegin, store, memory, process, Accept, OutcomeIsTheWaiters
<1>5. ASSUME NEW h \in Handlers, NEW o \in Owners, ClearList(h, o)
      PROVE  OutcomeIsTheWaiters'
  BY <1>5 DEF ClearList, store, memory, process, OutcomeIsTheWaiters
<1>6. ASSUME NEW h \in Handlers, StartSpawn(h) PROVE OutcomeIsTheWaiters'
  BY <1>6 DEF StartSpawn, store, memory, Goto, OutcomeIsTheWaiters
<1>7. ASSUME NEW h \in Handlers, StartSpawnFails(h) PROVE OutcomeIsTheWaiters'
  <2>1. HandlerCompletes(h)
    BY <1>7, HandlersOutcome
  <2> QED
    BY <2>1
    DEF HandlerCompletes, Answered, CompletesRow, CompletersAreAlone, OutcomeIsTheWaiters
<1>8. ASSUME NEW h \in Handlers, StartPid(h) PROVE OutcomeIsTheWaiters'
  BY <1>8, PidEffect DEF StartPid, memory, process, Goto, OutcomeIsTheWaiters
<1>9. ASSUME NEW h \in Handlers, StartPidFails(h) PROVE OutcomeIsTheWaiters'
  BY <1>9 DEF StartPidFails, store, memory, process, Answer, WriteFails, OutcomeIsTheWaiters
<1>10. ASSUME NEW h \in Handlers, StartRegister(h) PROVE OutcomeIsTheWaiters'
  BY <1>10 DEF StartRegister, store, memory, process, Goto, OutcomeIsTheWaiters
<1>11. ASSUME NEW h \in Handlers, StartWatch(h) PROVE OutcomeIsTheWaiters'
  BY <1>11, WatchEffect DEF OutcomeIsTheWaiters
<1>12. ASSUME NEW h \in Handlers, DeleteRow(h) PROVE OutcomeIsTheWaiters'
  BY <1>12, NoRowFacts DEF DeleteRow, memory, process, Goto, DeleteJob, OutcomeIsTheWaiters
<1>13. ASSUME NEW h \in Handlers, DeleteRowFails(h) PROVE OutcomeIsTheWaiters'
  BY <1>13
  DEF DeleteRowFails, store, memory, process, Answer, WriteFails, OutcomeIsTheWaiters
<1>14. ASSUME NEW h \in Handlers, DeleteMap(h) PROVE OutcomeIsTheWaiters'
  BY <1>14 DEF DeleteMap, store, process, Answer, OutcomeIsTheWaiters
<1>15. ASSUME NEW h \in Handlers, ClearMap(h) PROVE OutcomeIsTheWaiters'
  BY <1>15 DEF ClearMap, store, process, OutcomeIsTheWaiters
<1>16. ASSUME NEW h \in Handlers, ClearDone(h) PROVE OutcomeIsTheWaiters'
  BY <1>16 DEF ClearDone, store, memory, process, Answer, WriteFails, OutcomeIsTheWaiters
<1>17. ASSUME NEW h \in Handlers, CancelMap(h) PROVE OutcomeIsTheWaiters'
  BY <1>17 DEF CancelMap, store, memory, process, Goto, OutcomeIsTheWaiters
<1>18. ASSUME NEW h \in Handlers, CancelNotFound(h) PROVE OutcomeIsTheWaiters'
  BY <1>18 DEF CancelNotFound, store, memory, process, Answer, OutcomeIsTheWaiters
<1>19. ASSUME NEW h \in Handlers, CancelFlag(h) PROVE OutcomeIsTheWaiters'
  BY <1>19 DEF CancelFlag, store, process, Goto, OutcomeIsTheWaiters
<1>20. ASSUME NEW h \in Handlers, CancelProbe(h) PROVE OutcomeIsTheWaiters'
  BY <1>20 DEF CancelProbe, store, memory, process, Goto, OutcomeIsTheWaiters
<1>21. ASSUME NEW h \in Handlers, CancelDone(h) PROVE OutcomeIsTheWaiters'
  BY <1>21 DEF CancelDone, store, memory, process, Goto, OutcomeIsTheWaiters
<1>22. ASSUME NEW h \in Handlers, CancelRefused(h) PROVE OutcomeIsTheWaiters'
  BY <1>22 DEF CancelRefused, store, memory, process, Answer, OutcomeIsTheWaiters
<1>23. ASSUME NEW h \in Handlers, CancelKill(h) PROVE OutcomeIsTheWaiters'
  BY <1>23 DEF CancelKill, store, memory, Goto, OutcomeIsTheWaiters
<1>24. ASSUME NEW h \in Handlers, AnswerView(h) PROVE OutcomeIsTheWaiters'
  BY <1>24, AnswerOnly DEF OutcomeIsTheWaiters
<1>25. ASSUME NEW h \in Handlers, XferEnd(h) PROVE OutcomeIsTheWaiters'
  <2>1. HandlerCompletes(h)
    BY <1>25, HandlersOutcome
  <2> QED
    BY <2>1
    DEF HandlerCompletes, Answered, CompletesRow, CompletersAreAlone, OutcomeIsTheWaiters
<1>26. ASSUME NEW h \in Handlers, NEW i \in Ids, ClearRow(h, i)
      PROVE  OutcomeIsTheWaiters'
  BY <1>26, NoRowFacts DEF ClearRow, memory, process, DeleteJob, OutcomeIsTheWaiters
<1>27. ASSUME NEW h \in Handlers, NEW i \in Ids, ClearMissing(h, i)
      PROVE  OutcomeIsTheWaiters'
  BY <1>27 DEF ClearMissing, store, memory, process, OutcomeIsTheWaiters
<1>28. ASSUME NEW i \in Ids, ProcExit(i) PROVE OutcomeIsTheWaiters'
  BY <1>28 DEF ProcExit, store, memory, OutcomeIsTheWaiters
<1>29. ASSUME NEW i \in Ids, WaiterReap(i) PROVE OutcomeIsTheWaiters'
  BY <1>29 DEF WaiterReap, store, memory, OutcomeIsTheWaiters
<1>30. ASSUME NEW i \in Ids, WaiterFinish(i) PROVE OutcomeIsTheWaiters'
  BY <1>30 DEF WaiterFinish, store, OutcomeIsTheWaiters
<1>31. ASSUME NEW i \in Ids, WaiterPersist(i) PROVE OutcomeIsTheWaiters'
  BY <1>31, CompleteJobEffect
  DEF WaiterPersist, TypeOK, memory, WriteOK, WriteFails, ActiveWait, IsRunning,
      WaitersAreVisible, OutcomeIsTheWaiters
<1>32. CASE CrashRestart
  BY <1>32 DEF CrashRestart, OutcomeIsTheWaiters
<1>33. ASSUME NEW l \in Locks, OtherLocks(l) PROVE OutcomeIsTheWaiters'
  BY <1>33 DEF OtherLocks, store, memory, process, OutcomeIsTheWaiters
<1>34. ASSUME NEW l \in Locks, OtherUnlocks(l) PROVE OutcomeIsTheWaiters'
  BY <1>34 DEF OtherUnlocks, store, memory, process, OutcomeIsTheWaiters
<1>35. CASE UNCHANGED vars
  BY <1>35 DEF vars, store, memory, process, OutcomeIsTheWaiters
<1>36. QED
  BY <1>1, <1>2, <1>3, <1>4, <1>5, <1>6, <1>7, <1>8, <1>9, <1>10, <1>11, <1>12,
     <1>13, <1>14, <1>15, <1>16, <1>17, <1>18, <1>19, <1>20, <1>21, <1>22, <1>23,
     <1>24, <1>25, <1>26, <1>27, <1>28, <1>29, <1>30, <1>31, <1>32, <1>33, <1>34,
     <1>35
  DEF Next, Request, HandlerStep, StartStep, DeleteStep, ClearStep, CancelStep, WaiterStep

\* The row a handler completes is no longer running, or a write has failed; the
\* other running rows keep who they had.
LEMMA RunningIsManagedAnswer ==
  ASSUME TypeOK, RunningIsManaged, NEW h \in Handlers, HandlerCompletes(h)
  PROVE  RunningIsManaged'
<1> SUFFICES ASSUME crashes' = 0, faults' = 0, NEW k \in Ids,
                    IsRunning(k)', waiter'[k] \notin ActiveWait
             PROVE  (\E g \in Handlers : pc[g] \in StartPCs \cup {"xfer"} /\ target[g] = k)'
  BY DEF RunningIsManaged
<1>1. crashes = 0 /\ faults = 0 /\ jobs'[target[h]].state \in FinalStates
  BY LifecycleAssumption
  DEF HandlerCompletes, CompletesRow, WriteOK, WriteFails, bounds, TypeOK
<1>2. k # target[h]
  BY <1>1 DEF IsRunning, FinalStates
<1>3. IsRunning(k) /\ waiter[k] \notin ActiveWait
  BY <1>2 DEF HandlerCompletes, CompletesRow, IsRunning
<1>4. PICK g \in Handlers : pc[g] \in StartPCs \cup {"xfer"} /\ target[g] = k
  BY <1>1, <1>3 DEF RunningIsManaged
<1>5. pc'[g] = pc[g] /\ target'[g] = target[g]
  BY <1>2, <1>4 DEF HandlerCompletes, Answered
<1> QED
  BY <1>4, <1>5

LEMMA RunningIsManagedStep ==
  ASSUME TypeOK, HandlersAreShaped, UnusedIsClean, CompletersAreAlone, WaitersAreVisible,
         EndsAreChecked, RunningIsManaged, [Next]_vars
  PROVE  RunningIsManaged'
<1>1. ASSUME NEW h \in Handlers, NEW o \in Owners, NEW i \in Ids, StartBegin(h, o, i)
      PROVE  RunningIsManaged'
  <2> SUFFICES ASSUME crashes' = 0, faults' = 0, NEW k \in Ids,
                       IsRunning(k)', waiter'[k] \notin ActiveWait
                PROVE  (\E g \in Handlers : pc[g] \in StartPCs \cup {"xfer"} /\ target[g] = k)'
    BY DEF RunningIsManaged
  <2>1. CASE k = i
    BY <1>1, <2>1 DEF StartBegin, Accept, CreateJob, TypeOK, StartPCs
  <2>2. CASE k # i
    <3>1. IsRunning(k) /\ waiter[k] \notin ActiveWait /\ crashes = 0 /\ faults = 0
      BY <1>1, <2>2 DEF StartBegin, Accept, CreateJob, process, bounds, IsRunning
    <3>2. PICK g \in Handlers : pc[g] \in StartPCs \cup {"xfer"} /\ target[g] = k
      BY <3>1 DEF RunningIsManaged
    <3>3. pc'[g] = pc[g] /\ target'[g] = target[g]
      BY <1>1, <3>2 DEF StartBegin, Accept, CreateJob, StartPCs
    <3> QED
      BY <3>2, <3>3
  <2> QED
    BY <2>1, <2>2
<1>2. ASSUME NEW h \in Handlers, NEW o \in Owners, NEW i \in Ids, XferBegin(h, o, i)
      PROVE  RunningIsManaged'
  BY <1>2, LifecycleAssumption
  DEF XferBegin, TypeOK, process, bounds, Accept, CreateJob, StartPCs, IsRunning,
      RunningIsManaged
<1>3. ASSUME NEW h \in Handlers, NEW o \in Owners, NEW i \in Ids, DeleteCheck(h, o, i)
      PROVE  RunningIsManaged'
  BY <1>3
  DEF DeleteCheck, store, process, bounds, Accept, StartPCs, IsRunning, RunningIsManaged
<1>4. ASSUME NEW h \in Handlers, NEW o \in Owners, NEW i \in Ids, CancelBegin(h, o, i)
      PROVE  RunningIsManaged'
  BY <1>4
  DEF CancelBegin, store, process, bounds, Accept, StartPCs, IsRunning, RunningIsManaged
<1>5. ASSUME NEW h \in Handlers, NEW o \in Owners, ClearList(h, o)
      PROVE  RunningIsManaged'
  BY <1>5 DEF ClearList, store, process, bounds, StartPCs, IsRunning, RunningIsManaged
<1>6. ASSUME NEW h \in Handlers, StartSpawn(h) PROVE RunningIsManaged'
  BY <1>6 DEF StartSpawn, store, bounds, Goto, StartPCs, IsRunning, RunningIsManaged
<1>7. ASSUME NEW h \in Handlers, StartSpawnFails(h) PROVE RunningIsManaged'
  BY <1>7, HandlersOutcome, RunningIsManagedAnswer
<1>8. ASSUME NEW h \in Handlers, StartPid(h) PROVE RunningIsManaged'
  BY <1>8, PidEffect
  DEF StartPid, process, bounds, Goto, StartPCs, IsRunning, RunningIsManaged
<1>9. ASSUME NEW h \in Handlers, StartPidFails(h) PROVE RunningIsManaged'
  BY <1>9 DEF StartPidFails, TypeOK, Answer, WriteFails, RunningIsManaged
<1>10. ASSUME NEW h \in Handlers, StartRegister(h) PROVE RunningIsManaged'
  BY <1>10
  DEF StartRegister, store, process, bounds, Goto, StartPCs, IsRunning, Completers,
      CompletersAreAlone, RunningIsManaged
<1>11. ASSUME NEW h \in Handlers, StartWatch(h) PROVE RunningIsManaged'
  <2>1. waiter'[target[h]] \in ActiveWait
    BY <1>11, WatchEffect DEF ActiveWait
  <2>2. \A i \in Ids : waiter[i] \in ActiveWait => waiter'[i] \in ActiveWait
    BY <1>11, <2>1, WatchEffect
  <2> QED
    BY <1>11, <2>1, <2>2, WatchEffect DEF IsRunning, RunningIsManaged
<1>12. ASSUME NEW h \in Handlers, DeleteRow(h) PROVE RunningIsManaged'
  BY <1>12, NoRowFacts
  DEF DeleteRow, process, bounds, Goto, DeleteJob, IsRunning, EndsAreChecked,
      RunningIsManaged
<1>13. ASSUME NEW h \in Handlers, DeleteRowFails(h) PROVE RunningIsManaged'
  BY <1>13
  DEF DeleteRowFails, TypeOK, store, process, bounds, Answer, WriteFails, IsRunning,
      EndsAreChecked, RunningIsManaged
<1>14. ASSUME NEW h \in Handlers, DeleteMap(h) PROVE RunningIsManaged'
  BY <1>14
  DEF DeleteMap, store, process, bounds, Answer, DropPCs, IsRunning, Present,
      EndsAreChecked, RunningIsManaged
<1>15. ASSUME NEW h \in Handlers, ClearMap(h) PROVE RunningIsManaged'
  BY <1>15
  DEF ClearMap, store, process, bounds, DropPCs, IsRunning, Present, EndsAreChecked,
      RunningIsManaged
<1>16. ASSUME NEW h \in Handlers, ClearDone(h) PROVE RunningIsManaged'
  <2> SUFFICES ASSUME crashes' = 0, faults' = 0, NEW k \in Ids,
                       IsRunning(k)', waiter'[k] \notin ActiveWait
                PROVE  (\E g \in Handlers : pc[g] \in StartPCs \cup {"xfer"} /\ target[g] = k)'
    BY DEF RunningIsManaged
  <2>1. IsRunning(k) /\ waiter[k] \notin ActiveWait /\ crashes = 0 /\ faults = 0
    BY <1>16 DEF ClearDone, Answer, WriteFails, process, bounds, store, IsRunning, TypeOK
  <2>2. PICK g \in Handlers : pc[g] \in StartPCs \cup {"xfer"} /\ target[g] = k
    BY <2>1 DEF RunningIsManaged
  <2>3. pc'[g] = pc[g] /\ target'[g] = target[g]
    BY <1>16, <2>2 DEF ClearDone, Answer, WriteFails, StartPCs
  <2> QED
    BY <2>2, <2>3
<1>17. ASSUME NEW h \in Handlers, CancelMap(h) PROVE RunningIsManaged'
  BY <1>17
  DEF CancelMap, store, process, bounds, Goto, IsRunning, Completers, CompletersAreAlone,
      RunningIsManaged
<1>18. ASSUME NEW h \in Handlers, CancelNotFound(h) PROVE RunningIsManaged'
  BY <1>18
  DEF CancelNotFound, store, process, bounds, Answer, StartPCs, IsRunning, RunningIsManaged
<1>19. ASSUME NEW h \in Handlers, CancelFlag(h) PROVE RunningIsManaged'
  <2> SUFFICES ASSUME crashes' = 0, faults' = 0, NEW k \in Ids,
                       IsRunning(k)', waiter'[k] \notin ActiveWait
                PROVE  (\E g \in Handlers : pc[g] \in StartPCs \cup {"xfer"} /\ target[g] = k)'
    BY DEF RunningIsManaged
  <2>1. IsRunning(k) /\ waiter[k] \notin ActiveWait /\ crashes = 0 /\ faults = 0
    BY <1>19 DEF CancelFlag, Goto, process, bounds, store, IsRunning
  <2>2. PICK g \in Handlers : pc[g] \in StartPCs \cup {"xfer"} /\ target[g] = k
    BY <2>1 DEF RunningIsManaged
  <2>3. pc'[g] = pc[g] /\ target'[g] = target[g]
    BY <1>19, <2>2 DEF CancelFlag, Goto, StartPCs
  <2> QED
    BY <2>2, <2>3
<1>20. ASSUME NEW h \in Handlers, CancelProbe(h) PROVE RunningIsManaged'
  <2> SUFFICES ASSUME crashes' = 0, faults' = 0, NEW k \in Ids,
                       IsRunning(k)', waiter'[k] \notin ActiveWait
                PROVE  (\E g \in Handlers : pc[g] \in StartPCs \cup {"xfer"} /\ target[g] = k)'
    BY DEF RunningIsManaged
  <2>1. IsRunning(k) /\ waiter[k] \notin ActiveWait /\ crashes = 0 /\ faults = 0
    BY <1>20 DEF CancelProbe, Goto, process, bounds, store, IsRunning
  <2>2. PICK g \in Handlers : pc[g] \in StartPCs \cup {"xfer"} /\ target[g] = k
    BY <2>1 DEF RunningIsManaged
  <2>3. pc'[g] = pc[g] /\ target'[g] = target[g]
    BY <1>20, <2>2 DEF CancelProbe, Goto, StartPCs
  <2> QED
    BY <2>2, <2>3
<1>21. ASSUME NEW h \in Handlers, CancelDone(h) PROVE RunningIsManaged'
  <2> SUFFICES ASSUME crashes' = 0, faults' = 0, NEW k \in Ids,
                       IsRunning(k)', waiter'[k] \notin ActiveWait
                PROVE  (\E g \in Handlers : pc[g] \in StartPCs \cup {"xfer"} /\ target[g] = k)'
    BY DEF RunningIsManaged
  <2>1. IsRunning(k) /\ waiter[k] \notin ActiveWait /\ crashes = 0 /\ faults = 0
    BY <1>21 DEF CancelDone, Goto, process, bounds, store, IsRunning
  <2>2. PICK g \in Handlers : pc[g] \in StartPCs \cup {"xfer"} /\ target[g] = k
    BY <2>1 DEF RunningIsManaged
  <2>3. pc'[g] = pc[g] /\ target'[g] = target[g]
    BY <1>21, <2>2 DEF CancelDone, Goto, StartPCs
  <2> QED
    BY <2>2, <2>3
<1>22. ASSUME NEW h \in Handlers, CancelRefused(h) PROVE RunningIsManaged'
  BY <1>22, AnswerOnly DEF Answered, CancelPCs, StartPCs, IsRunning, RunningIsManaged
<1>23. ASSUME NEW h \in Handlers, CancelKill(h) PROVE RunningIsManaged'
  BY <1>23 DEF CancelKill, store, bounds, Goto, StartPCs, IsRunning, RunningIsManaged
<1>24. ASSUME NEW h \in Handlers, AnswerView(h) PROVE RunningIsManaged'
  BY <1>24, AnswerOnly DEF Answered, CancelPCs, StartPCs, IsRunning, RunningIsManaged
<1>25. ASSUME NEW h \in Handlers, XferEnd(h) PROVE RunningIsManaged'
  BY <1>25, HandlersOutcome, RunningIsManagedAnswer
<1>26. ASSUME NEW h \in Handlers, NEW i \in Ids, ClearRow(h, i)
      PROVE  RunningIsManaged'
  <2> SUFFICES ASSUME crashes' = 0, faults' = 0, NEW k \in Ids,
                       IsRunning(k)', waiter'[k] \notin ActiveWait
                PROVE  (\E g \in Handlers : pc[g] \in StartPCs \cup {"xfer"} /\ target[g] = k)'
    BY DEF RunningIsManaged
  <2>1. IsRunning(k) /\ waiter[k] \notin ActiveWait /\ crashes = 0 /\ faults = 0
    BY <1>26, NoRowFacts DEF ClearRow, DeleteJob, process, bounds, IsRunning
  <2>2. PICK g \in Handlers : pc[g] \in StartPCs \cup {"xfer"} /\ target[g] = k
    BY <2>1 DEF RunningIsManaged
  <2>3. pc'[g] = pc[g] /\ target'[g] = target[g]
    BY <1>26, <2>2 DEF ClearRow, DeleteJob, StartPCs
  <2> QED
    BY <2>2, <2>3
<1>27. ASSUME NEW h \in Handlers, NEW i \in Ids, ClearMissing(h, i)
      PROVE  RunningIsManaged'
  BY <1>27 DEF ClearMissing, store, process, bounds, IsRunning, RunningIsManaged
<1>28. ASSUME NEW i \in Ids, ProcExit(i) PROVE RunningIsManaged'
  BY <1>28 DEF ProcExit, store, handler, bounds, IsRunning, RunningIsManaged
<1>29. ASSUME NEW i \in Ids, WaiterReap(i) PROVE RunningIsManaged'
  BY <1>29 DEF WaiterReap, store, handler, bounds, ActiveWait, IsRunning, RunningIsManaged
<1>30. ASSUME NEW i \in Ids, WaiterFinish(i) PROVE RunningIsManaged'
  BY <1>30 DEF WaiterFinish, store, handler, bounds, ActiveWait, IsRunning, RunningIsManaged
<1>31. ASSUME NEW i \in Ids, WaiterPersist(i) PROVE RunningIsManaged'
  <2>1. CompletesRow(i)
    BY <1>31, WaitersOutcome
  <2> QED
    BY <1>31, <2>1
    DEF CompletesRow, WaiterPersist, TypeOK, handler, bounds, WriteOK, WriteFails,
        ActiveWait, FinalStates, IsRunning, WaitersAreVisible, RunningIsManaged
<1>32. CASE CrashRestart
  BY <1>32 DEF CrashRestart, TypeOK, RunningIsManaged
<1>33. ASSUME NEW l \in Locks, OtherLocks(l) PROVE RunningIsManaged'
  BY <1>33 DEF OtherLocks, store, process, handler, bounds, IsRunning, RunningIsManaged
<1>34. ASSUME NEW l \in Locks, OtherUnlocks(l) PROVE RunningIsManaged'
  BY <1>34 DEF OtherUnlocks, store, process, handler, bounds, IsRunning, RunningIsManaged
<1>35. CASE UNCHANGED vars
  BY <1>35 DEF vars, store, process, handler, bounds, IsRunning, RunningIsManaged
<1>36. QED
  BY <1>1, <1>2, <1>3, <1>4, <1>5, <1>6, <1>7, <1>8, <1>9, <1>10, <1>11, <1>12,
     <1>13, <1>14, <1>15, <1>16, <1>17, <1>18, <1>19, <1>20, <1>21, <1>22, <1>23,
     <1>24, <1>25, <1>26, <1>27, <1>28, <1>29, <1>30, <1>31, <1>32, <1>33, <1>34,
     <1>35
  DEF Next, Request, HandlerStep, StartStep, DeleteStep, ClearStep, CancelStep, WaiterStep

-----------------------------------------------------------------------------
LEMMA IInvInit == Init => IInv
<1> SUFFICES ASSUME Init PROVE IInv
  OBVIOUS
<1>1. TypeOK
  BY LifecycleAssumption, NoRowFacts
     DEF Init, IdleHandlers, TypeOK, RowStates, ExitCodes, PCs, WaiterPCs, ProcStates
<1>2. UnusedIsClean /\ HandlersAreShaped
  BY DEF Init, IdleHandlers, UnusedIsClean, HandlersAreShaped
<1>3. CompletersAreAlone /\ StartsAreExecs /\ OwnersAreChecked /\ EndsAreChecked
  BY DEF Init, IdleHandlers, CompletersAreAlone, Completers, StartPCs, StartsAreExecs,
         OwnersAreChecked, EndsAreChecked, CancelPCs, DropPCs
<1>4. WaitersAreVisible /\ RegistryTracksRows /\ OutcomeIsTheWaiters
  BY DEF Init, WaitersAreVisible, ActiveWait, RegistryTracksRows, OutcomeIsTheWaiters
<1>5. RunningIsManaged
  BY NoRowFacts DEF Init, RunningIsManaged, IsRunning
<1> QED
  BY <1>1, <1>2, <1>3, <1>4, <1>5 DEF IInv

LEMMA IInvStep == IInv /\ [Next]_vars => IInv'
<1> SUFFICES ASSUME IInv, [Next]_vars PROVE IInv'
  OBVIOUS
<1> USE DEF IInv
<1>1. TypeOK' /\ UnusedIsClean' /\ HandlersAreShaped'
  BY TypeOKStep, UnusedIsCleanStep, HandlersAreShapedStep
<1>2. CompletersAreAlone' /\ StartsAreExecs' /\ WaitersAreVisible'
  BY CompletersAreAloneStep, StartsAreExecsStep, WaitersAreVisibleStep
<1>3. OwnersAreChecked' /\ EndsAreChecked'
  BY OwnersAreCheckedStep, EndsAreCheckedStep
<1>4. RegistryTracksRows' /\ OutcomeIsTheWaiters' /\ RunningIsManaged'
  BY RegistryTracksRowsStep, OutcomeIsTheWaitersStep, RunningIsManagedStep
<1> QED
  BY <1>1, <1>2, <1>3, <1>4

LEMMA Invariant == Spec => []IInv
BY IInvInit, IInvStep, PTL DEF Spec

\* Rows, registry, process and handler states stay within their types through every
\* step of start, delete, clear, cancel, transfer, waitForExit and a restart.
THEOREM TypeCorrect == Spec => []TypeOK
<1>1. IInv => TypeOK
  BY DEF IInv
<1> QED
  BY Invariant, <1>1, PTL

\* An execution that waitForExit still waits for is in the registry and its row says
\* running: no Delete or ClearHistory gets in between.
THEOREM LiveStaysVisible == Spec => []LiveIsVisible
<1>1. IInv => LiveIsVisible
  BY DEF IInv, WaitersAreVisible, LiveIsVisible
<1> QED
  BY Invariant, <1>1, PTL

\* The registry never keeps an execution whose row is gone, but for the step
\* between the two deletions.
THEOREM RegistryHasNoLeak == Spec => []RegistryTracksRows
<1>1. IInv => RegistryTracksRows
  BY DEF IInv
<1> QED
  BY Invariant, <1>1, PTL

\* As long as no store write failed and the daemon did not restart, every running row
\* has a start, a transfer or a waitForExit that will complete it.
THEOREM RunningHasACompleter == Spec => []RunningIsManaged
<1>1. IInv => RunningIsManaged
  BY DEF IInv
<1> QED
  BY Invariant, <1>1, PTL

\* The outcome in the row is the one waitForExit decided in memory, and canceled only
\* if a Cancel asked for it.
THEOREM OutcomeAgrees == Spec => []OutcomeIsTheWaiters
<1>1. IInv => OutcomeIsTheWaiters
  BY DEF IInv
<1> QED
  BY Invariant, <1>1, PTL

LEMMA OwnerStep ==
  ASSUME IInv, [Next]_vars
  PROVE  [OwnerActs]_vars
<1>1. ASSUME NEW h \in Handlers, NEW o \in Owners, NEW i \in Ids, StartBegin(h, o, i)
      PROVE  [OwnerActs]_vars
  BY <1>1 DEF StartBegin, IInv, OwnerActs, Accept, CreateJob, Present
<1>2. ASSUME NEW h \in Handlers, NEW o \in Owners, NEW i \in Ids, XferBegin(h, o, i)
      PROVE  [OwnerActs]_vars
  BY <1>2 DEF XferBegin, IInv, OwnerActs, memory, Accept, CreateJob, Present
<1>3. ASSUME NEW h \in Handlers, NEW o \in Owners, NEW i \in Ids, DeleteCheck(h, o, i)
      PROVE  [OwnerActs]_vars
  BY <1>3 DEF DeleteCheck, IInv, OwnerActs, store, memory, Accept, Present
<1>4. ASSUME NEW h \in Handlers, NEW o \in Owners, NEW i \in Ids, CancelBegin(h, o, i)
      PROVE  [OwnerActs]_vars
  BY <1>4 DEF CancelBegin, IInv, OwnerActs, store, memory, Accept, Present
<1>5. ASSUME NEW h \in Handlers, NEW o \in Owners, ClearList(h, o)
      PROVE  [OwnerActs]_vars
  BY <1>5 DEF ClearList, IInv, OwnerActs, store, memory, Present
<1>6. ASSUME NEW h \in Handlers, StartSpawn(h) PROVE [OwnerActs]_vars
  BY <1>6 DEF StartSpawn, IInv, OwnerActs, store, memory, Goto, Present
<1>7. ASSUME NEW h \in Handlers, StartSpawnFails(h) PROVE [OwnerActs]_vars
  <2>1. HandlerCompletes(h)
    BY <1>7, HandlersOutcome DEF IInv
  <2> QED
    BY <2>1 DEF HandlerCompletes, Answered, CompletesRow, IInv, TypeOK, OwnerActs, Present
<1>8. ASSUME NEW h \in Handlers, StartPid(h) PROVE [OwnerActs]_vars
  BY <1>8, PidEffect DEF StartPid, IInv, OwnerActs, memory, Goto, Present
<1>9. ASSUME NEW h \in Handlers, StartPidFails(h) PROVE [OwnerActs]_vars
  BY <1>9 DEF StartPidFails, IInv, OwnerActs, store, memory, Answer, WriteFails, Present
<1>10. ASSUME NEW h \in Handlers, StartRegister(h) PROVE [OwnerActs]_vars
  BY <1>10 DEF StartRegister, IInv, OwnerActs, store, memory, Goto, Present
<1>11. ASSUME NEW h \in Handlers, StartWatch(h) PROVE [OwnerActs]_vars
  BY <1>11 DEF StartWatch, IInv, OwnerActs, store, memory, Goto, Present
<1>12. ASSUME NEW h \in Handlers, DeleteRow(h) PROVE [OwnerActs]_vars
  BY <1>12
  DEF DeleteRow, IInv, OwnerActs, memory, Goto, DeleteJob, Present, TypeOK, OwnersAreChecked
<1>13. ASSUME NEW h \in Handlers, DeleteRowFails(h) PROVE [OwnerActs]_vars
  BY <1>13 DEF DeleteRowFails, IInv, OwnerActs, store, memory, Answer, WriteFails, Present
<1>14. ASSUME NEW h \in Handlers, DeleteMap(h) PROVE [OwnerActs]_vars
  BY <1>14 DEF DeleteMap, IInv, OwnerActs, store, Answer, Present
<1>15. ASSUME NEW h \in Handlers, ClearMap(h) PROVE [OwnerActs]_vars
  BY <1>15 DEF ClearMap, IInv, OwnerActs, store, Present
<1>16. ASSUME NEW h \in Handlers, ClearDone(h) PROVE [OwnerActs]_vars
  BY <1>16 DEF ClearDone, IInv, OwnerActs, store, memory, Answer, WriteFails, Present
<1>17. ASSUME NEW h \in Handlers, CancelMap(h) PROVE [OwnerActs]_vars
  BY <1>17 DEF CancelMap, IInv, OwnerActs, store, memory, Goto, Present
<1>18. ASSUME NEW h \in Handlers, CancelNotFound(h) PROVE [OwnerActs]_vars
  BY <1>18 DEF CancelNotFound, IInv, OwnerActs, store, memory, Answer, Present
<1>19. ASSUME NEW h \in Handlers, CancelFlag(h) PROVE [OwnerActs]_vars
  BY <1>19
  DEF CancelFlag, IInv, OwnerActs, store, Goto, Present, TypeOK, OwnersAreChecked, CancelPCs
<1>20. ASSUME NEW h \in Handlers, CancelProbe(h) PROVE [OwnerActs]_vars
  BY <1>20 DEF CancelProbe, IInv, OwnerActs, store, memory, Goto, Present
<1>21. ASSUME NEW h \in Handlers, CancelDone(h) PROVE [OwnerActs]_vars
  BY <1>21 DEF CancelDone, IInv, OwnerActs, store, memory, Goto, Present
<1>22. ASSUME NEW h \in Handlers, CancelRefused(h) PROVE [OwnerActs]_vars
  BY <1>22 DEF CancelRefused, IInv, OwnerActs, store, memory, Answer, Present
<1>23. ASSUME NEW h \in Handlers, CancelKill(h) PROVE [OwnerActs]_vars
  BY <1>23 DEF CancelKill, IInv, OwnerActs, store, memory, Goto, Present
<1>24. ASSUME NEW h \in Handlers, AnswerView(h) PROVE [OwnerActs]_vars
  BY <1>24 DEF AnswerView, IInv, OwnerActs, store, memory, Answer, Present
<1>25. ASSUME NEW h \in Handlers, XferEnd(h) PROVE [OwnerActs]_vars
  <2>1. HandlerCompletes(h)
    BY <1>25, HandlersOutcome DEF IInv
  <2> QED
    BY <2>1 DEF HandlerCompletes, Answered, CompletesRow, IInv, TypeOK, OwnerActs, Present
<1>26. ASSUME NEW h \in Handlers, NEW i \in Ids, ClearRow(h, i)
      PROVE  [OwnerActs]_vars
  BY <1>26
  DEF ClearRow, IInv, OwnerActs, memory, DeleteJob, Present, TypeOK, OwnersAreChecked
<1>27. ASSUME NEW h \in Handlers, NEW i \in Ids, ClearMissing(h, i)
      PROVE  [OwnerActs]_vars
  BY <1>27 DEF ClearMissing, IInv, OwnerActs, store, memory, Present
<1>28. ASSUME NEW i \in Ids, ProcExit(i) PROVE [OwnerActs]_vars
  BY <1>28 DEF ProcExit, IInv, OwnerActs, store, memory, Present
<1>29. ASSUME NEW i \in Ids, WaiterReap(i) PROVE [OwnerActs]_vars
  BY <1>29 DEF WaiterReap, IInv, OwnerActs, store, memory, Present
<1>30. ASSUME NEW i \in Ids, WaiterFinish(i) PROVE [OwnerActs]_vars
  BY <1>30 DEF WaiterFinish, IInv, OwnerActs, store, Present
<1>31. ASSUME NEW i \in Ids, WaiterPersist(i) PROVE [OwnerActs]_vars
  <2>1. CompletesRow(i)
    BY <1>31, WaitersOutcome DEF IInv
  <2> QED
    BY <1>31, <2>1 DEF CompletesRow, WaiterPersist, IInv, OwnerActs, Present, memory
<1>32. CASE CrashRestart
  BY <1>32 DEF CrashRestart, IInv, OwnerActs, store, Present
<1>33. ASSUME NEW l \in Locks, OtherLocks(l) PROVE [OwnerActs]_vars
  BY <1>33 DEF OtherLocks, IInv, OwnerActs, store, Present
<1>34. ASSUME NEW l \in Locks, OtherUnlocks(l) PROVE [OwnerActs]_vars
  BY <1>34 DEF OtherUnlocks, IInv, OwnerActs, store, Present
<1>35. CASE UNCHANGED vars
  BY <1>35 DEF IInv, OwnerActs
<1>36. QED
  BY <1>1, <1>2, <1>3, <1>4, <1>5, <1>6, <1>7, <1>8, <1>9, <1>10, <1>11, <1>12,
     <1>13, <1>14, <1>15, <1>16, <1>17, <1>18, <1>19, <1>20, <1>21, <1>22, <1>23,
     <1>24, <1>25, <1>26, <1>27, <1>28, <1>29, <1>30, <1>31, <1>32, <1>33, <1>34,
     <1>35
  DEF Next, Request, HandlerStep, StartStep, DeleteStep, ClearStep, CancelStep, WaiterStep

\* Only a handler that serves the owner of a row deletes it (Delete, ClearHistory) or
\* raises its cancel flag (Cancel), although the check is some steps old by then.
THEOREM OwnerActsAlone == Spec => OnlyOwnerActs
BY Invariant, OwnerStep, PTL DEF Spec, OnlyOwnerActs

-----------------------------------------------------------------------------
(* Lifecycle implements JobHistory: every step creates, finishes or        *)
(* deletes one record of the history, or leaves it alone.                  *)

LEMMA HistoryInit == Init => History!Init
BY NoRowFacts DEF Init, Hist, History!Init, History!Absent, Present

\* Steps that leave the rows' visible columns alone leave the history alone.
LEMMA HistoryUnchanged ==
  ASSUME UNCHANGED store
  PROVE  Hist' = Hist
BY DEF store, Hist, Present

\* One row changes: the other records are as before.
LEMMA HistoryPoint ==
  ASSUME TypeOK, NEW i \in Ids, used' \subseteq used \cup {i}, used \subseteq used',
         \A j \in Ids \ {i} : jobs'[j] = jobs[j]
  PROVE  Hist' = [Hist EXCEPT ![i] = Hist'[i]]
BY DEF Hist, Present

LEMMA HistoryCreate ==
  ASSUME IInv, NEW i \in Ids, NEW o \in Owners, NEW k \in {"exec", "xfer"}, CreateJob(i, o, k)
  PROVE  History!Next
<1>1. Hist[i] = History!Absent
  BY NoRowFacts DEF IInv, UnusedIsClean, CreateJob, Hist, Present, History!Absent
<1>2. Hist'[i] = [state |-> "running", owner |-> o, kind |-> k, exit |-> "none"]
  BY DEF IInv, TypeOK, CreateJob, Hist, Present
<1>3. Hist' = [Hist EXCEPT ![i] = Hist'[i]]
  BY HistoryPoint DEF IInv, TypeOK, CreateJob
<1>4. History!Create(i)
  BY <1>1, <1>2, <1>3 DEF History!Create, History!Kinds
<1> QED
  BY <1>4 DEF History!Next

LEMMA HistoryFinish ==
  ASSUME IInv, NEW i \in Ids, NEW s \in FinalStates, NEW x \in ExitCodes,
         s = "failed_to_start" => x = "nonzero",
         IsRunning(i), CompleteJob(i, s, x), UNCHANGED used
  PROVE  History!Next
<1> USE DEF IInv, RowStates
<1>1. /\ jobs' \in [Ids -> Rows]
      /\ jobs'[i].state = s /\ jobs'[i].exit = x
      /\ jobs'[i].owner = jobs[i].owner /\ jobs'[i].kind = jobs[i].kind
      /\ \A j \in Ids \ {i} : jobs'[j] = jobs[j]
  BY CompleteJobEffect DEF TypeOK
<1>2. Hist[i].state = "running" /\ Hist[i].owner = jobs[i].owner /\ Hist[i].kind = jobs[i].kind
  BY DEF Hist, Present, IsRunning
<1>3. Hist'[i] = [state |-> s, owner |-> Hist[i].owner, kind |-> Hist[i].kind, exit |-> x]
  BY <1>1, <1>2 DEF Hist, Present, FinalStates
<1>4. Hist' = [Hist EXCEPT ![i] = Hist'[i]]
  BY <1>1, HistoryPoint
<1>5. History!Finish(i)
  BY <1>2, <1>3, <1>4
  DEF History!Finish, History!FinalStates, FinalStates, History!ExitCodes, ExitCodes
<1> QED
  BY <1>5 DEF History!Next

LEMMA HistoryDelete ==
  ASSUME IInv, NEW i \in Ids, Present(i), ~IsRunning(i), DeleteJob(i), UNCHANGED used
  PROVE  History!Next
<1>1. Hist[i].state \in History!FinalStates
  BY
  DEF IInv, TypeOK, Rows, RowStates, FinalStates, Hist, Present, IsRunning,
      History!FinalStates
<1>2. i \in used
  BY NoRowFacts DEF IInv, UnusedIsClean, Present
<1>3. Hist'[i] = History!Deleted
  BY <1>2, NoRowFacts DEF IInv, TypeOK, DeleteJob, Hist, Present, History!Deleted
<1>4. Hist' = [Hist EXCEPT ![i] = Hist'[i]]
  BY HistoryPoint DEF IInv, TypeOK, DeleteJob
<1>5. History!Delete(i)
  BY <1>1, <1>3, <1>4 DEF History!Delete
<1> QED
  BY <1>5 DEF History!Next

LEMMA HistoryStep ==
  ASSUME IInv, [Next]_vars
  PROVE  History!Next \/ UNCHANGED Hist
<1>1. ASSUME NEW h \in Handlers, NEW o \in Owners, NEW i \in Ids, StartBegin(h, o, i)
      PROVE  History!Next \/ UNCHANGED Hist
  BY <1>1, HistoryCreate DEF StartBegin
<1>2. ASSUME NEW h \in Handlers, NEW o \in Owners, NEW i \in Ids, XferBegin(h, o, i)
      PROVE  History!Next \/ UNCHANGED Hist
  BY <1>2, HistoryCreate DEF XferBegin
<1>3. ASSUME NEW h \in Handlers, NEW o \in Owners, NEW i \in Ids, DeleteCheck(h, o, i)
      PROVE  History!Next \/ UNCHANGED Hist
  BY <1>3, HistoryUnchanged DEF DeleteCheck, store
<1>4. ASSUME NEW h \in Handlers, NEW o \in Owners, NEW i \in Ids, CancelBegin(h, o, i)
      PROVE  History!Next \/ UNCHANGED Hist
  BY <1>4, HistoryUnchanged DEF CancelBegin, store
<1>5. ASSUME NEW h \in Handlers, NEW o \in Owners, ClearList(h, o)
      PROVE  History!Next \/ UNCHANGED Hist
  BY <1>5, HistoryUnchanged DEF ClearList, store
<1>6. ASSUME NEW h \in Handlers, StartSpawn(h)
      PROVE  History!Next \/ UNCHANGED Hist
  BY <1>6, HistoryUnchanged DEF StartSpawn, store
<1>7. ASSUME NEW h \in Handlers, StartSpawnFails(h)
      PROVE  History!Next \/ UNCHANGED Hist
  <2>1. IsRunning(target[h]) /\ target[h] \in Ids
    BY <1>7
    DEF IInv, StartSpawnFails, Answer, CompletersAreAlone, Completers, StartPCs,
        HandlersAreShaped
  <2>2. CASE UNCHANGED jobs
    BY <1>7, <2>2, HistoryUnchanged DEF StartSpawnFails, store
  <2>3. CASE CompleteJob(target[h], "failed_to_start", "nonzero")
    BY <1>7, <2>1, <2>3, HistoryFinish DEF StartSpawnFails, FinalStates, ExitCodes
  <2> QED
    BY <1>7, <2>2, <2>3 DEF StartSpawnFails
<1>8. ASSUME NEW h \in Handlers, StartPid(h)
      PROVE  History!Next \/ UNCHANGED Hist
  <2>1. target[h] \in Ids
    BY <1>8 DEF IInv, StartPid, Goto, HandlersAreShaped, StartPCs
  <2>2. \A j \in Ids : /\ jobs'[j].state = jobs[j].state /\ jobs'[j].exit = jobs[j].exit
                        /\ jobs'[j].owner = jobs[j].owner /\ jobs'[j].kind = jobs[j].kind
    BY <1>8, <2>1, PidEffect DEF IInv, TypeOK, StartPid
  <2> QED
    BY <1>8, <2>2 DEF StartPid, Hist, Present
<1>9. ASSUME NEW h \in Handlers, StartPidFails(h)
      PROVE  History!Next \/ UNCHANGED Hist
  BY <1>9, HistoryUnchanged DEF StartPidFails, store
<1>10. ASSUME NEW h \in Handlers, StartRegister(h)
      PROVE  History!Next \/ UNCHANGED Hist
  BY <1>10, HistoryUnchanged DEF StartRegister, store
<1>11. ASSUME NEW h \in Handlers, StartWatch(h)
      PROVE  History!Next \/ UNCHANGED Hist
  BY <1>11, HistoryUnchanged DEF StartWatch, store
<1>12. ASSUME NEW h \in Handlers, DeleteRow(h)
      PROVE  History!Next \/ UNCHANGED Hist
  <2>1. target[h] \in Ids /\ ~IsRunning(target[h])
    BY <1>12 DEF IInv, DeleteRow, Goto, HandlersAreShaped, EndsAreChecked
  <2> QED
    BY <1>12, <2>1, HistoryDelete DEF DeleteRow
<1>13. ASSUME NEW h \in Handlers, DeleteRowFails(h)
      PROVE  History!Next \/ UNCHANGED Hist
  BY <1>13, HistoryUnchanged DEF DeleteRowFails, store
<1>14. ASSUME NEW h \in Handlers, DeleteMap(h)
      PROVE  History!Next \/ UNCHANGED Hist
  BY <1>14, HistoryUnchanged DEF DeleteMap, store
<1>15. ASSUME NEW h \in Handlers, ClearMap(h)
      PROVE  History!Next \/ UNCHANGED Hist
  BY <1>15, HistoryUnchanged DEF ClearMap, store
<1>16. ASSUME NEW h \in Handlers, ClearDone(h)
      PROVE  History!Next \/ UNCHANGED Hist
  BY <1>16, HistoryUnchanged DEF ClearDone, store
<1>17. ASSUME NEW h \in Handlers, CancelMap(h)
      PROVE  History!Next \/ UNCHANGED Hist
  BY <1>17, HistoryUnchanged DEF CancelMap, store
<1>18. ASSUME NEW h \in Handlers, CancelNotFound(h)
      PROVE  History!Next \/ UNCHANGED Hist
  BY <1>18, HistoryUnchanged DEF CancelNotFound, store
<1>19. ASSUME NEW h \in Handlers, CancelFlag(h)
      PROVE  History!Next \/ UNCHANGED Hist
  BY <1>19, HistoryUnchanged DEF CancelFlag, store
<1>20. ASSUME NEW h \in Handlers, CancelProbe(h)
      PROVE  History!Next \/ UNCHANGED Hist
  BY <1>20, HistoryUnchanged DEF CancelProbe, store
<1>21. ASSUME NEW h \in Handlers, CancelDone(h)
      PROVE  History!Next \/ UNCHANGED Hist
  BY <1>21, HistoryUnchanged DEF CancelDone, store
<1>22. ASSUME NEW h \in Handlers, CancelRefused(h)
      PROVE  History!Next \/ UNCHANGED Hist
  BY <1>22, HistoryUnchanged DEF CancelRefused, store
<1>23. ASSUME NEW h \in Handlers, CancelKill(h)
      PROVE  History!Next \/ UNCHANGED Hist
  BY <1>23, HistoryUnchanged DEF CancelKill, store
<1>24. ASSUME NEW h \in Handlers, AnswerView(h)
      PROVE  History!Next \/ UNCHANGED Hist
  BY <1>24, HistoryUnchanged DEF AnswerView, store
<1>25. ASSUME NEW h \in Handlers, XferEnd(h)
      PROVE  History!Next \/ UNCHANGED Hist
  <2>1. IsRunning(target[h]) /\ target[h] \in Ids
    BY <1>25 DEF IInv, XferEnd, Answer, CompletersAreAlone, Completers, HandlersAreShaped
  <2>2. CASE UNCHANGED jobs
    BY <1>25, <2>2, HistoryUnchanged DEF XferEnd, store
  <2>3. ASSUME NEW s \in {"exited", "canceled"}, CompleteJob(target[h], s, "none")
        PROVE  History!Next
    BY <1>25, <2>1, <2>3, HistoryFinish DEF XferEnd, FinalStates, ExitCodes
  <2> QED
    BY <1>25, <2>2, <2>3 DEF XferEnd
<1>26. ASSUME NEW h \in Handlers, NEW i \in Ids, ClearRow(h, i)
      PROVE  History!Next \/ UNCHANGED Hist
  <2>1. ~IsRunning(i)
    BY <1>26 DEF IInv, ClearRow, EndsAreChecked
  <2> QED
    BY <1>26, <2>1, HistoryDelete DEF ClearRow
<1>27. ASSUME NEW h \in Handlers, NEW i \in Ids, ClearMissing(h, i)
      PROVE  History!Next \/ UNCHANGED Hist
  BY <1>27, HistoryUnchanged DEF ClearMissing, store
<1>28. ASSUME NEW i \in Ids, ProcExit(i)
      PROVE  History!Next \/ UNCHANGED Hist
  BY <1>28, HistoryUnchanged DEF ProcExit, store
<1>29. ASSUME NEW i \in Ids, WaiterReap(i)
      PROVE  History!Next \/ UNCHANGED Hist
  BY <1>29, HistoryUnchanged DEF WaiterReap, store
<1>30. ASSUME NEW i \in Ids, WaiterFinish(i)
      PROVE  History!Next \/ UNCHANGED Hist
  BY <1>30, HistoryUnchanged DEF WaiterFinish, store
<1>31. ASSUME NEW i \in Ids, WaiterPersist(i)
      PROVE  History!Next \/ UNCHANGED Hist
  <2>1. IsRunning(i) /\ memState[i] \in {"exited", "canceled"} /\ exitCode[i] \in ExitCodes
    BY <1>31 DEF IInv, TypeOK, WaiterPersist, WaitersAreVisible, ActiveWait
  <2>2. CASE UNCHANGED jobs
    BY <1>31, <2>2, HistoryUnchanged DEF WaiterPersist, store
  <2>3. CASE CompleteJob(i, memState[i], exitCode[i])
    BY <1>31, <2>1, <2>3, HistoryFinish DEF WaiterPersist, FinalStates
  <2> QED
    BY <1>31, <2>2, <2>3 DEF WaiterPersist
<1>32. CASE CrashRestart
  BY <1>32, HistoryUnchanged DEF CrashRestart, store
<1>33. ASSUME NEW l \in Locks, OtherLocks(l) PROVE History!Next \/ UNCHANGED Hist
  BY <1>33, HistoryUnchanged DEF OtherLocks, store
<1>34. ASSUME NEW l \in Locks, OtherUnlocks(l) PROVE History!Next \/ UNCHANGED Hist
  BY <1>34, HistoryUnchanged DEF OtherUnlocks, store
<1>35. CASE UNCHANGED vars
  BY <1>35, HistoryUnchanged DEF vars, store
<1>36. QED
  BY <1>1, <1>2, <1>3, <1>4, <1>5, <1>6, <1>7, <1>8, <1>9, <1>10, <1>11, <1>12,
     <1>13, <1>14, <1>15, <1>16, <1>17, <1>18, <1>19, <1>20, <1>21, <1>22, <1>23,
     <1>24, <1>25, <1>26, <1>27, <1>28, <1>29, <1>30, <1>31, <1>32, <1>33, <1>34,
     <1>35
  DEF Next, Request, HandlerStep, StartStep, DeleteStep, ClearStep, CancelStep, WaiterStep

\* Lifecycle implements the history the job table promises: ids are used once, a job
\* has one outcome, and only jobs with an outcome go (store.go, manager.go).
THEOREM ImplementsHistory == Spec => HistorySpec
<1>1. Init => History!Init
  BY HistoryInit
<1>2. IInv /\ [Next]_vars => [History!Next]_Hist
  BY HistoryStep
<1> QED
  BY <1>1, <1>2, Invariant, PTL DEF Spec, HistorySpec, History!Spec
=============================================================================
