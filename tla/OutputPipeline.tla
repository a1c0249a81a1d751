--------------------------- MODULE OutputPipeline ---------------------------
(***************************************************************************)
(* The way of one execution's output: the child process writes units of    *)
(* output into its pipes; for each source a reader goroutine and           *)
(* captureOutput move them into the store and to the one live subscriber;  *)
(* waitForExit closes the pipes, persists the outcome and publishes EOF;   *)
(* Attach handlers subscribe, replay what is stored and forward what is    *)
(* live; ReadOutput handlers replay and may discard.                       *)
(*                                                                         *)
(* A unit is what one Read returns; the k-th unit of a source is k.  Every *)
(* store call is one step: the store has a single connection, and a replay *)
(* keeps its rows open, so no append happens in the middle of one.         *)
(***************************************************************************)
EXTENDS Naturals, Sequences, FiniteSets, SequencesExt

CONSTANTS
    Stdout, Stderr,  \* the sources
    Sessions,        \* Attach streams; each is used once
    NoSession,       \* Manager's nil subscriber
    Readers,         \* ReadOutput handlers
    PtyChoices,      \* whether the execution may be, or is, pty-backed
    MaxUnits,        \* bound: units written
    PipeCap,         \* capacity of a kernel pipe
    QueueCap,        \* capacity of captureOutput's channel (32 in the code)
    ChunkSize,       \* Manager.chunkSize in units
    LiveCap,         \* capacity of a subscriber channel (256 in the code)
    MaxFaults        \* bound: failing appends

ASSUME OutputAssumption ==
    /\ Stdout # Stderr
    /\ NoSession \notin Sessions
    /\ PtyChoices \subseteq BOOLEAN
    /\ MaxUnits \in Nat /\ MaxFaults \in Nat
    /\ {PipeCap, QueueCap, ChunkSize, LiveCap} \subseteq Nat \ {0}

Sources == {Stdout, Stderr}

VARIABLES
    pty,        \* the execution is pty-backed: one source, closed later
    exited,     \* the child process has exited
    written,    \* source -> units written so far
    pipe,       \* source -> units in the kernel
    pipeOpen,   \* the daemon's ends of the pipes are open
    reader,     \* source -> reader goroutine: "read", "done"
    queue,      \* source -> captureOutput's channel and the unit its reader holds
    pending,    \* source -> captureOutput's pending buffer
    capture,    \* source -> where captureOutput is
    current,    \* source -> what appendOutput works on
    log,        \* execution_output rows ever appended; the index is the sequence
    discarded,  \* the rows up to here have been deleted
    row,        \* jobs row: "running", "final", "gone"
    outSize,    \* jobs.output_size_bytes
    memSize,    \* managedExecution.outputSizeBytes
    waiter,     \* where waitForExit is
    eofTo,      \* the subscriber waitForExit took
    subscriber, \* managedExecution.subscriber; attached iff there is one
    live,       \* session -> its channel: sequence numbers, 0 for EOF
    closed,     \* sessions whose channel is closed
    session,    \* session -> where its Attach handler is
    from,       \* session -> first row it is to see
    sent,       \* session -> rows sent to the client
    missed,     \* session -> rows publish dropped on its full channel
    reading,    \* reader handler -> its progress in ReadOutput
    lost,       \* units that disappeared, with their source
    panicked,   \* a send hit a closed channel: the daemon dies
    faults

child    == <<pty, exited, written>>
kernel   == <<pipe, pipeOpen>>
feeding  == <<reader, queue>>
captures == <<pending, capture, current>>
store    == <<log, discarded, row, outSize>>
waiting  == <<waiter, eofTo>>
attach   == <<session, from, sent>>
delivery == <<subscriber, live, closed, attach, missed>>
ghosts   == <<lost, faults>>
upstream == <<child, kernel, feeding>>
stored   == <<store, memSize>>
vars == <<child, kernel, feeding, captures, store, memSize, waiting, delivery, reading, ghosts, panicked>>

Units       == 1..MaxUnits
Used        == IF pty THEN {Stdout} ELSE Sources
NothingHeld == [units |-> <<>>, seq |-> 0, to |-> NoSession]
CapturePCs  == {"select", "append", "grab", "send", "done"}
WaiterPCs   == {"wait", "finish", "persist", "eof_grab", "eof_send", "close", "done"}
SessionPCs  == {"idle", "subscribed", "live", "leaving", "ended"}
ReadPCs     == {"idle", "lookup", "discard"}
Rows        == [source : Sources, units : Seq(Units), offset : Nat]

TypeOK ==
    /\ pty \in BOOLEAN /\ exited \in BOOLEAN /\ pipeOpen \in BOOLEAN /\ panicked \in BOOLEAN
    /\ written \in [Sources -> 0..MaxUnits]
    /\ pipe \in [Sources -> Seq(Units)] /\ \A s \in Sources : Len(pipe[s]) <= PipeCap
    /\ reader \in [Sources -> {"read", "done"}]
    /\ queue \in [Sources -> Seq(Units)] /\ \A s \in Sources : Len(queue[s]) <= QueueCap + 1
    /\ pending \in [Sources -> Seq(Units)] /\ \A s \in Sources : Len(pending[s]) < ChunkSize
    /\ capture \in [Sources -> CapturePCs]
    /\ current \in [Sources -> [units : Seq(Units), seq : Nat, to : Sessions \cup {NoSession}]]
    /\ log \in Seq(Rows)
    /\ discarded \in 0..Len(log)
    /\ row \in {"running", "final", "gone"}
    /\ outSize \in Nat /\ memSize \in Nat
    /\ waiter \in WaiterPCs
    /\ {eofTo, subscriber} \subseteq Sessions \cup {NoSession}
    /\ live \in [Sessions -> Seq(Nat)] /\ \A a \in Sessions : Len(live[a]) <= LiveCap
    /\ closed \subseteq Sessions
    /\ session \in [Sessions -> SessionPCs]
    /\ from \in [Sessions -> Nat]
    /\ sent \in [Sessions -> SUBSET Nat] /\ missed \in [Sessions -> SUBSET Nat]
    /\ reading \in [Readers -> [at : ReadPCs, upto : Nat]]
    /\ lost \subseteq Sources \X Units
    /\ faults \in 0..MaxFaults

Init ==
    /\ pty \in PtyChoices
    /\ exited = FALSE
    /\ written = [s \in Sources |-> 0]
    /\ pipe = [s \in Sources |-> <<>>]
    /\ pipeOpen = TRUE
    /\ reader = [s \in Sources |-> IF s \in Used THEN "read" ELSE "done"]
    /\ queue = [s \in Sources |-> <<>>]
    /\ pending = [s \in Sources |-> <<>>]
    /\ capture = [s \in Sources |-> IF s \in Used THEN "select" ELSE "done"]
    /\ current = [s \in Sources |-> NothingHeld]
    /\ log = <<>> /\ discarded = 0 /\ row = "running" /\ outSize = 0
    /\ memSize = 0
    /\ waiter = "wait" /\ eofTo = NoSession
    /\ subscriber = NoSession
    /\ live = [a \in Sessions |-> <<>>]
    /\ closed = {}
    /\ session = [a \in Sessions |-> "idle"]
    /\ from = [a \in Sessions |-> 0]
    /\ sent = [a \in Sessions |-> {}]
    /\ missed = [a \in Sessions |-> {}]
    /\ reading = [r \in Readers |-> [at |-> "idle", upto |-> 0]]
    /\ lost = {} /\ faults = 0 /\ panicked = FALSE

-----------------------------------------------------------------------------
(* The child process and the reader goroutines.                            *)

ReaderFree(s) == reader[s] = "read" /\ Len(queue[s]) <= QueueCap

ProcWrite(s) ==
    /\ s \in Used /\ ~exited /\ pipeOpen
    /\ written[Stdout] + written[Stderr] < MaxUnits /\ Len(pipe[s]) < PipeCap
    /\ written' = [written EXCEPT ![s] = @ + 1]
    /\ pipe' = [pipe EXCEPT ![s] = Append(@, written'[s])]
    /\ UNCHANGED <<pty, exited, pipeOpen, feeding, captures, stored, waiting, delivery,
                   reading, ghosts, panicked>>

ProcExit ==
    /\ ~exited
    /\ exited' = TRUE
    /\ UNCHANGED <<pty, written, kernel, feeding, captures, stored, waiting, delivery,
                   reading, ghosts, panicked>>

\* The reader takes a unit and sends it on; when the channel is full it holds the
\* unit until there is room, which is one more place in the queue.
ReaderRead(s) ==
    /\ ~panicked /\ ReaderFree(s) /\ pipe[s] # <<>>
    /\ queue' = [queue EXCEPT ![s] = Append(@, Head(pipe[s]))]
    /\ pipe' = [pipe EXCEPT ![s] = Tail(@)]
    /\ UNCHANGED <<child, pipeOpen, reader, captures, stored, waiting, delivery, reading,
                   ghosts, panicked>>
\* Seeded fault: only the end of the process, not a closed pipe, ends the reader.
ReaderEndOnExit(s) ==
    /\ ~panicked /\ ReaderFree(s)
    /\ exited /\ pipe[s] = <<>> /\ pipeOpen
    /\ reader' = [reader EXCEPT ![s] = "done"]
    /\ UNCHANGED <<child, kernel, queue, captures, stored, waiting, delivery,
                   reading, ghosts, panicked>>

\* End of file once the process is gone and the pipe is empty, or an error once
\* the daemon has closed its own end.
ReaderEnd(s) ==
    /\ ~panicked /\ ReaderFree(s)
    /\ (exited /\ pipe[s] = <<>>) \/ ~pipeOpen
    /\ reader' = [reader EXCEPT ![s] = "done"]
    /\ UNCHANGED <<child, kernel, queue, captures, stored, waiting, delivery,
                   reading, ghosts, panicked>>

-----------------------------------------------------------------------------
(* captureOutput and appendOutput.                                         *)

StartAppend(s, data, rest) ==
    /\ current' = [current EXCEPT ![s] = [NothingHeld EXCEPT !.units = data]]
    /\ pending' = [pending EXCEPT ![s] = rest]
    /\ capture' = [capture EXCEPT ![s] = "append"]
    /\ UNCHANGED <<child, kernel, reader, stored, waiting, delivery, reading,
                   ghosts, panicked>>
\* Seeded fault: the buffer is cut one unit late.
CaptureChunkLate(s) ==
    /\ ~panicked /\ capture[s] = "select" /\ queue[s] # <<>>
    /\ queue' = [queue EXCEPT ![s] = Tail(@)]
    /\ LET all == Append(pending[s], Head(queue[s])) IN
       IF Len(all) > ChunkSize
       THEN StartAppend(s, SubSeq(all, 1, ChunkSize), SubSeq(all, ChunkSize + 1, Len(all)))
       ELSE /\ pending' = [pending EXCEPT ![s] = all]
            /\ UNCHANGED <<child, kernel, reader, capture, current, stored,
                           waiting, delivery, reading, ghosts, panicked>>

\* A chunk arrives; a full buffer is appended at once.
CaptureChunk(s) ==
    /\ ~panicked /\ capture[s] = "select" /\ queue[s] # <<>>
    /\ queue' = [queue EXCEPT ![s] = Tail(@)]
    /\ LET all == Append(pending[s], Head(queue[s])) IN
       IF Len(all) >= ChunkSize
       THEN StartAppend(s, SubSeq(all, 1, ChunkSize), SubSeq(all, ChunkSize + 1, Len(all)))
       ELSE /\ pending' = [pending EXCEPT ![s] = all]
            /\ UNCHANGED <<child, kernel, reader, capture, current, stored,
                           waiting, delivery, reading, ghosts, panicked>>
\* The ticker fires, or the channel is closed and drained: flush.
CaptureFlush(s) ==
    /\ ~panicked /\ capture[s] = "select" /\ pending[s] # <<>>
    /\ StartAppend(s, pending[s], <<>>)
    /\ UNCHANGED queue

\* Seeded fault: the channel is closed, and what is still in the buffer forgotten.
CaptureEndUnflushed(s) ==
    /\ ~panicked /\ capture[s] = "select" /\ reader[s] = "done"
    /\ queue[s] = <<>>
    /\ capture' = [capture EXCEPT ![s] = "done"]
    /\ UNCHANGED <<upstream, pending, current, stored, waiting, delivery, reading,
                   ghosts, panicked>>

CaptureEnd(s) ==
    /\ ~panicked /\ capture[s] = "select" /\ reader[s] = "done"
    /\ queue[s] = <<>> /\ pending[s] = <<>>
    /\ capture' = [capture EXCEPT ![s] = "done"]
    /\ UNCHANGED <<upstream, pending, current, stored, waiting, delivery, reading,
                   ghosts, panicked>>
\* Seeded fault: the offset of a row is the counter of the execution in memory.
AppendRowMemOffset(s) ==
    /\ ~panicked /\ capture[s] = "append" /\ row # "gone"
    /\ log' = Append(log, [source |-> s, units |-> current[s].units, offset |-> memSize])
    /\ outSize' = outSize + Len(current[s].units)
    /\ current' = [current EXCEPT ![s].seq = Len(log')]
    /\ capture' = [capture EXCEPT ![s] = "grab"]
    /\ UNCHANGED <<upstream, pending, discarded, row, memSize, waiting, delivery,
                   reading, ghosts, panicked>>

\* store.AppendOutput: one transaction numbers the row and grows output_size.
AppendRow(s) ==
    /\ ~panicked /\ capture[s] = "append" /\ row # "gone"
    /\ log' = Append(log, [source |-> s, units |-> current[s].units, offset |-> outSize])
    /\ outSize' = outSize + Len(current[s].units)
    /\ current' = [current EXCEPT ![s].seq = Len(log')]
    /\ capture' = [capture EXCEPT ![s] = "grab"]
    /\ UNCHANGED <<upstream, pending, discarded, row, memSize, waiting, delivery,
                   reading, ghosts, panicked>>

\* The job was deleted or the transaction fails: the data is dropped silently.
AppendFails(s) ==
    /\ ~panicked /\ capture[s] = "append"
    /\ \/ row = "gone" /\ UNCHANGED faults
       \/ faults < MaxFaults /\ faults' = faults + 1
    /\ lost' = lost \cup ({s} \X ToSet(current[s].units))
    /\ current' = [current EXCEPT ![s] = NothingHeld]
    /\ capture' = [capture EXCEPT ![s] = "select"]
    /\ UNCHANGED <<upstream, pending, stored, waiting, delivery, reading, panicked>>

\* The size is counted under the lock, and then publish takes the subscriber under
\* it; nothing modelled reads the size in between, so the two are one step.
PublishGrab(s) ==
    /\ ~panicked /\ capture[s] = "grab"
    /\ memSize' = memSize + Len(current[s].units)
    /\ IF subscriber = NoSession
       THEN /\ current' = [current EXCEPT ![s] = NothingHeld]
            /\ capture' = [capture EXCEPT ![s] = "select"]
       ELSE /\ current' = [current EXCEPT ![s].to = subscriber]
            /\ capture' = [capture EXCEPT ![s] = "send"]
    /\ UNCHANGED <<upstream, pending, store, waiting, delivery, reading, ghosts, panicked>>
\* Seeded fault: the newest event overtakes those a slow client has not taken.
PublishSendFirst(s) ==
    /\ ~panicked /\ capture[s] = "send"
    /\ LET a == current[s].to IN
       /\ panicked' = (a \in closed)
       /\ IF a \notin closed /\ Len(live[a]) < LiveCap
          THEN live' = [live EXCEPT ![a] = <<current[s].seq>> \o @] /\ UNCHANGED missed
          ELSE missed' = [missed EXCEPT ![a] = @ \cup {current[s].seq}] /\ UNCHANGED live
    /\ current' = [current EXCEPT ![s] = NothingHeld]
    /\ capture' = [capture EXCEPT ![s] = "select"]
    /\ UNCHANGED <<upstream, pending, stored, waiting, subscriber, closed, attach,
                   reading, ghosts>>

\* It sends after releasing the lock: a closed channel panics, a full one drops the event.
PublishSend(s) ==
    /\ ~panicked /\ capture[s] = "send"
    /\ LET a == current[s].to IN
       /\ panicked' = (a \in closed)
       /\ IF a \notin closed /\ Len(live[a]) < LiveCap
          THEN live' = [live EXCEPT ![a] = Append(@, current[s].seq)] /\ UNCHANGED missed
          ELSE missed' = [missed EXCEPT ![a] = @ \cup {current[s].seq}] /\ UNCHANGED live
    /\ current' = [current EXCEPT ![s] = NothingHeld]
    /\ capture' = [capture EXCEPT ![s] = "select"]
    /\ UNCHANGED <<upstream, pending, stored, waiting, subscriber, closed, attach,
                   reading, ghosts>>

-----------------------------------------------------------------------------
(* waitForExit.                                                            *)

InPipes == UNION {{s} \X ToSet(pipe[s]) : s \in Sources}
ClosePipes ==
    /\ pipeOpen' = FALSE
    /\ pipe' = [s \in Sources |-> <<>>]
    /\ lost' = lost \cup InPipes

\* cmd.Wait returns; for plain pipes it has closed the daemon's read ends, and
\* what the readers have not read yet is gone.
WaiterReap ==
    /\ ~panicked /\ waiter = "wait" /\ exited
    /\ waiter' = "finish"
    /\ IF pty THEN UNCHANGED <<kernel, lost>> ELSE ClosePipes
    /\ UNCHANGED <<child, feeding, captures, stored, eofTo, delivery, reading, faults,
                   panicked>>

\* The state changes in memory and the pty's master is closed.
WaiterFinish ==
    /\ ~panicked /\ waiter = "finish"
    /\ waiter' = "persist"
    /\ IF pty THEN ClosePipes ELSE UNCHANGED <<kernel, lost>>
    /\ UNCHANGED <<child, feeding, captures, stored, eofTo, delivery, reading, faults,
                   panicked>>

\* CompleteJob; its error is dropped.
WaiterPersist ==
    /\ ~panicked /\ waiter = "persist"
    /\ waiter' = "eof_grab"
    /\ \/ row' = "final" /\ UNCHANGED faults
       \/ faults < MaxFaults /\ faults' = faults + 1 /\ UNCHANGED row
    /\ UNCHANGED <<upstream, captures, log, discarded, outSize, memSize, eofTo, delivery,
                   reading, lost, panicked>>

\* Seeded fault: EOF is published before the outcome is persisted.
EofGrabEarly ==
    /\ ~panicked /\ waiter = "persist"
    /\ waiter' = IF subscriber = NoSession THEN "done" ELSE "eof_send"
    /\ eofTo' = subscriber
    /\ subscriber' = NoSession
    /\ UNCHANGED <<upstream, captures, stored, live, closed, attach, missed, reading,
                   ghosts, panicked>>

\* publish(EOF): take the subscriber and end the attachment, send, close.
EofGrab ==
    /\ ~panicked /\ waiter = "eof_grab"
    /\ waiter' = IF subscriber = NoSession THEN "done" ELSE "eof_send"
    /\ eofTo' = subscriber
    /\ subscriber' = NoSession
    /\ UNCHANGED <<upstream, captures, stored, live, closed, attach, missed, reading,
                   ghosts, panicked>>

EofSend ==
    /\ ~panicked /\ waiter = "eof_send"
    /\ waiter' = "close"
    /\ live' = IF Len(live[eofTo]) < LiveCap
               THEN [live EXCEPT ![eofTo] = Append(@, 0)] ELSE live
    /\ UNCHANGED <<upstream, captures, stored, eofTo, subscriber, closed, attach, missed,
                   reading, ghosts, panicked>>
\* Seeded fault: the channel is left open, the EOF event being deemed enough.
EofCloseSkipped ==
    /\ ~panicked /\ waiter = "close"
    /\ waiter' = "done"
    /\ UNCHANGED <<upstream, captures, stored, eofTo, delivery, reading, ghosts, panicked>>

EofClose ==
    /\ ~panicked /\ waiter = "close"
    /\ waiter' = "done"
    /\ closed' = closed \cup {eofTo}
    /\ UNCHANGED <<upstream, captures, stored, eofTo, subscriber, live, attach, missed,
                   reading, ghosts, panicked>>

-----------------------------------------------------------------------------
(* Attach handlers.                                                        *)

\* Manager.Attach; a second subscriber is refused with ErrAlreadyAttached.
AttachSubscribe(a) ==
    /\ ~panicked /\ session[a] = "idle" /\ row # "gone" /\ subscriber = NoSession
    /\ session' = [session EXCEPT ![a] = "subscribed"]
    /\ subscriber' = a
    /\ UNCHANGED <<upstream, captures, stored, waiting, live, closed, from, sent, missed,
                   reading, ghosts, panicked>>
\* Manager.StreamOutput from offset o: the rows that begin at o or later, in the
\* order of their offsets.
Replayed(o) == {n \in discarded + 1 .. Len(log) : log[n].offset >= o}

\* Seeded fault: the rows are read before the subscription, so the last may be missing.
AttachReplayEarly(a) ==
    /\ ~panicked /\ session[a] = "subscribed" /\ row # "gone"
    /\ session' = [session EXCEPT ![a] = "live"]
    /\ from' = [from EXCEPT ![a] = discarded + 1]
    /\ \E n \in discarded .. Len(log) : sent' = [sent EXCEPT ![a] = discarded + 1 .. n]
    /\ UNCHANGED <<upstream, captures, stored, waiting, subscriber, live, closed, missed,
                   reading, ghosts, panicked>>

\* The stored rows are replayed first if the client asked for them, from the offset
\* it gave; what it is to see begins with the first of them.
AttachReplay(a) ==
    /\ ~panicked /\ session[a] = "subscribed" /\ row # "gone"
    /\ session' = [session EXCEPT ![a] = "live"]
    /\ \/ \E o \in 0..outSize :
             /\ from' = [from EXCEPT ![a] = Min(Replayed(o) \cup {Len(log) + 1})]
             /\ sent' = [sent EXCEPT ![a] = Replayed(o)]
       \/ /\ from' = [from EXCEPT ![a] = Len(log) + 1]
          /\ UNCHANGED sent
    /\ UNCHANGED <<upstream, captures, stored, waiting, subscriber, live, closed, missed,
                   reading, ghosts, panicked>>

AttachForward(a) ==
    /\ ~panicked /\ session[a] = "live" /\ live[a] # <<>> /\ Head(live[a]) # 0
    /\ live' = [live EXCEPT ![a] = Tail(@)]
    /\ sent' = [sent EXCEPT ![a] = @ \cup {Head(live[a])}]
    /\ UNCHANGED <<upstream, captures, stored, waiting, subscriber, closed, session,
                   from, missed, reading, ghosts, panicked>>

\* EOF or a closed channel: Get the row, send the exit event or the error.
AttachExit(a) ==
    /\ ~panicked /\ session[a] = "live"
    /\ IF live[a] = <<>> THEN a \in closed ELSE Head(live[a]) = 0
    /\ session' = [session EXCEPT ![a] = "leaving"]
    /\ UNCHANGED <<upstream, captures, stored, waiting, from, sent, subscriber, live,
                   closed, missed, reading, ghosts, panicked>>

\* The replay finds no row.
AttachNoRow(a) ==
    /\ ~panicked /\ session[a] = "subscribed" /\ row = "gone"
    /\ session' = [session EXCEPT ![a] = "leaving"]
    /\ UNCHANGED <<upstream, captures, stored, waiting, from, sent, subscriber, live, closed,
                   missed, reading, ghosts, panicked>>

\* The client hangs up, or a control frame fails.
AttachBreak(a) ==
    /\ ~panicked /\ session[a] \in {"subscribed", "live"}
    /\ session' = [session EXCEPT ![a] = "leaving"]
    /\ UNCHANGED <<upstream, captures, stored, waiting, from, sent, subscriber, live,
                   closed, missed, reading, ghosts, panicked>>
\* Seeded fault: a detach clears whatever subscriber there is.
AttachDetachAny(a) ==
    /\ ~panicked /\ session[a] = "leaving"
    /\ session' = [session EXCEPT ![a] = "ended"]
    /\ subscriber' = NoSession
    /\ live' = [live EXCEPT ![a] = <<>>]
    /\ from' = [from EXCEPT ![a] = 0]
    /\ sent' = [sent EXCEPT ![a] = {}]
    /\ missed' = [missed EXCEPT ![a] = {}]
    /\ UNCHANGED <<upstream, captures, stored, waiting, closed, reading, ghosts, panicked>>

\* The deferred detach ends the attachment only if it is still this one;
\* the handler returns and what it saw is forgotten.
AttachDetach(a) ==
    /\ ~panicked /\ session[a] = "leaving"
    /\ session' = [session EXCEPT ![a] = "ended"]
    /\ subscriber' = IF subscriber = a THEN NoSession ELSE subscriber
    /\ live' = [live EXCEPT ![a] = <<>>]
    /\ from' = [from EXCEPT ![a] = 0]
    /\ sent' = [sent EXCEPT ![a] = {}]
    /\ missed' = [missed EXCEPT ![a] = {}]
    /\ UNCHANGED <<upstream, captures, stored, waiting, closed, reading, ghosts, panicked>>

-----------------------------------------------------------------------------
(* ReadOutput handlers, and the removal of the job.                        *)

\* StreamOutput looks the job up, sends its rows and deletes all rows of the job if
\* the client asked for it and the job had ended at the lookup.  Without a discard
\* it changes nothing, and it is left out.
ReadLookup(r) ==
    /\ ~panicked /\ reading[r].at = "idle" /\ row = "final"
    /\ reading' = [reading EXCEPT ![r].at = "lookup"]
    /\ UNCHANGED <<upstream, captures, stored, waiting, delivery, ghosts, panicked>>

ReadRows(r) ==
    /\ ~panicked /\ reading[r].at = "lookup"
    /\ reading' = [reading EXCEPT ![r] = [at |-> "discard", upto |-> Len(log)]]
    /\ UNCHANGED <<upstream, captures, stored, waiting, delivery, ghosts, panicked>>

ReadDiscard(r) ==
    /\ ~panicked /\ reading[r].at = "discard"
    /\ reading' = [reading EXCEPT ![r] = [at |-> "idle", upto |-> 0]]
    /\ discarded' = Len(log)
    /\ UNCHANGED <<upstream, captures, log, row, outSize, memSize, waiting, delivery, ghosts,
                   panicked>>

\* Delete or ClearHistory of the finished job; its rows go with it.
DeleteJob ==
    /\ ~panicked /\ row = "final"
    /\ row' = "gone"
    /\ discarded' = Len(log)
    /\ UNCHANGED <<upstream, captures, log, outSize, memSize, waiting, delivery, reading,
                   ghosts, panicked>>

-----------------------------------------------------------------------------
ReaderStep(s)  == ReaderRead(s) \/ ReaderEnd(s)
CaptureStep(s) == \/ CaptureChunk(s) \/ CaptureFlush(s) \/ CaptureEnd(s) \/ AppendRow(s)
                  \/ AppendFails(s) \/ PublishGrab(s) \/ PublishSend(s)
WaiterStep     == \/ WaiterReap \/ WaiterFinish \/ WaiterPersist
                  \/ EofGrab \/ EofSend \/ EofClose
SessionStep(a) == \/ AttachReplay(a) \/ AttachNoRow(a) \/ AttachForward(a)
                  \/ AttachExit(a) \/ AttachDetach(a)
Client(a)      == AttachSubscribe(a) \/ AttachBreak(a)
ReadStep(r)    == ReadLookup(r) \/ ReadRows(r) \/ ReadDiscard(r)

\* A panic takes the whole daemon down: only the child goes on after it.
Next ==
    \/ \E s \in Sources : ProcWrite(s) \/ ReaderStep(s) \/ CaptureStep(s)
    \/ ProcExit
    \/ WaiterStep
    \/ \E a \in Sessions : Client(a) \/ SessionStep(a)
    \/ \E r \in Readers : ReadStep(r)
    \/ DeleteJob

Spec == Init /\ [][Next]_vars

\* Every goroutine that can run is run, and an attached client takes what it is
\* sent or hangs up.  Nothing is assumed of the child, of requests or of faults.
Fairness ==
    /\ \A s \in Sources : /\ WF_vars(ReaderStep(s))
                         /\ WF_vars(CaptureStep(s))
    /\ WF_vars(WaiterStep)
    /\ \A a \in Sessions : WF_vars(SessionStep(a))

FairSpec == Spec /\ Fairness

-----------------------------------------------------------------------------
(* Properties *)

FromSource(s)  == {n \in 1..Len(log) : log[n].source = s}
Persisted(s)   == UNION {ToSet(log[n].units) : n \in FromSource(s)}
BeingAppended(s) == IF capture[s] = "append" THEN current[s].units ELSE <<>>
InTransit(s)   == BeingAppended(s) \o pending[s] \o queue[s] \o pipe[s]
Surviving(s)   == {k \in 1..written[s] : <<s, k>> \notin lost}

Increasing(q)  == \A i, j \in 1..Len(q) : i < j => q[i] < q[j]
Before(p, q)   == \A i \in 1..Len(p), j \in 1..Len(q) : p[i] < q[j]

\* Output is neither reordered, duplicated nor silently dropped on its way from
\* the child to the store: put together, the rows of a source and the stages behind
\* them hold exactly the units the child wrote, in order, less those lost when the
\* pipes were closed under the readers or when an append failed (captureOutput,
\* appendOutput); and a capture goroutine that has ended has left nothing behind in a
\* buffer, channel or pipe (manager.go:741-745: the last flush is after the channel
\* is closed).
StagesInOrder ==
    \A s \in Sources :
        /\ Increasing(InTransit(s))
        /\ \A n \in FromSource(s) :
              /\ Increasing(log[n].units) /\ Before(log[n].units, InTransit(s))
              /\ \A m \in FromSource(s) : m < n => Before(log[m].units, log[n].units)
        /\ Persisted(s) \cup ToSet(InTransit(s)) = Surviving(s)
        /\ capture[s] = "done" => Persisted(s) = Surviving(s)

Uncounted(s) == IF capture[s] = "grab" THEN Len(current[s].units) ELSE 0

\* Each row starts where the row before it ends, across both sources, and the counter
\* kept under the lock lags the stored one by no more than the appends not yet
\* accounted for.
OffsetsContiguous ==
    /\ \A n \in 1..Len(log) :
          log[n].offset = IF n = 1 THEN 0 ELSE log[n-1].offset + Len(log[n-1].units)
    /\ outSize = memSize + Uncounted(Stdout) + Uncounted(Stderr)

RowEnds == {0} \cup {log[n].offset + Len(log[n].units) : n \in 1..Len(log)}

\* A client that resumes behind the last chunk it has, at its offset plus its length,
\* gets every row with output that it does not have and no other, and the order of
\* offsets in which a replay sends them is the order in which they were stored
\* (store.go:253-301): the rows of both sources tile the output, and none is empty.
ResumeIsExact ==
    /\ OffsetsContiguous
    /\ \A o \in RowEnds : \A n \in discarded + 1 .. Len(log) :
          n \in Replayed(o) <=> log[n].offset + Len(log[n].units) > o
    /\ \A m, n \in 1..Len(log) : m < n => log[m].offset < log[n].offset

\* A session that subscribes before it replays misses nothing while it is the
\* subscriber: every row is sent, queued for it, about to be published to it, or
\* was dropped because its channel was full (Service.Attach, publish).
AttachHasNoGap ==
    \A a \in Sessions : session[a] = "live" /\ subscriber = a =>
        \A n \in from[a]..Len(log) :
            \/ n \in sent[a] \cup missed[a] \cup ToSet(live[a])
            \/ \E s \in Sources :
                  /\ current[s].seq = n
                  /\ capture[s] = "send" => current[s].to = a

\* The live events of one source reach a session in the order of their rows (two
\* sources may overtake one another between the append and the send).
LiveInSourceOrder ==
    \A a \in Sessions : \A m, n \in 1..Len(live[a]) :
        /\ m < n /\ live[a][m] # 0 /\ live[a][n] # 0
        /\ log[live[a][m]].source = log[live[a][n]].source
        => live[a][m] < live[a][n]

\* There is one subscriber at a time, and only its own end or EOF ends an
\* attachment: a late detach of an earlier session leaves a new one alone, and whom
\* EOF has detached is either about to get it or has its channel closed, even if the
\* channel was too full for EOF (manager.go:862-880).
AttachmentIsKept ==
    \A a \in Sessions :
        session[a] \in {"subscribed", "live"} =>
            \/ subscriber = a
            \/ eofTo = a /\ (waiter \in {"eof_send", "close"} \/ a \in closed)

\* A client that learns of the end, by the EOF event or by the closed channel, finds
\* the outcome in the row it reads next, unless persisting it failed (waitForExit:
\* EOF is published after the final state is persisted).
EofAfterOutcome ==
    \A a \in Sessions : a \in closed \/ 0 \in ToSet(live[a]) => row # "running" \/ faults > 0

\* Once the child has exited its output is drained: every capture goroutine ends.
PipelineDrains == exited ~> panicked \/ \A s \in Sources : capture[s] = "done"

\* A session attached before EOF gets to its end, even if its channel was full
\* when EOF was sent, because the channel is closed.
AttachmentEnds ==
    \A a \in Sessions :
        /\ subscriber = a /\ exited
        /\ waiter \in {"wait", "finish", "persist", "eof_grab"}
        ~> session[a] = "ended" \/ panicked

-----------------------------------------------------------------------------
(* What the documentation says and the code does not do. *)

\* README.md:3, "a long-running Go daemon": no goroutine sends on the channel that
\* waitForExit has closed, which would end the process.
NoSendOnClosed == ~panicked

\* README.md:17, "Output is persisted there for replay": when every goroutine of the
\* execution is done, and no write of the store failed, all it wrote is persisted.
OutputIsComplete ==
    faults = 0 /\ row # "gone" /\ waiter = "done" /\ (\A s \in Sources : capture[s] = "done")
        => \A s \in Sources : Persisted(s) = 1..written[s]

\* README.md:17, output "can be discarded after a successful read": what a read
\* discards, it has sent.
DiscardedWasRead ==
    [][\A r \in Readers :
        reading[r].at = "discard" /\ reading'[r].at = "idle" => discarded' = reading[r].upto]_vars
=============================================================================
