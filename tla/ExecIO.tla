------------------------------- MODULE ExecIO -------------------------------
(***************************************************************************)
(* The mutex of a managed execution (managedExecution.mu) and the bounded  *)
(* pipes to and from its child.  WriteStdin holds the mutex while it       *)
(* writes, ResizePTY while it talks to the terminal and to the store; the  *)
(* capture goroutine, Cancel and waitForExit need it to make progress.     *)
(*                                                                         *)
(* Nothing is assumed of the child: it reads or leaves its input alone,    *)
(* closes it, prints as much as it likes, and ends when it likes.          *)
(***************************************************************************)
EXTENDS Naturals, Sequences, FiniteSets

CONSTANTS
    Writers,    \* WriteStdin calls
    Closers,    \* those whose message closes the input
    Resizers,   \* ResizePTY calls
    Free,       \* nobody: the mutex has no holder, the size is that of the start
    MsgLen,     \* units in one WriteStdin message
    InCap,      \* units the child's input can hold
    OutCap      \* units its output can hold, the capture goroutine's buffers included

ASSUME ExecIOAssumption ==
    /\ Free \notin Writers \cup Resizers
    /\ Writers \cap Resizers = {}
    /\ Closers \subseteq Writers
    /\ {MsgLen, InCap, OutCap} \subseteq Nat \ {0}

VARIABLES
    pty,        \* the execution is pty-backed
    mu,         \* holder of managedExecution.mu
    stdin,      \* managedExecution.stdin (or pty) is not nil
    input,      \* number of units in the child's input
    accepted,   \* units ever written to the input
    child,      \* "running", "killed", "exited"
    listening,  \* the child has not closed its end of the stdin pipe
    output,     \* number of units in the child's output
    writer,     \* writer -> where its call is
    left,       \* writer -> units still to write
    resizer,    \* resizer -> where its call is
    memSize,    \* managedExecution.ptyRows, ptyCols: the resizer that asked for it
    rowSize,    \* jobs.pty_rows, pty_cols, likewise
    capture,    \* "select", "publish"
    cancel,     \* where Cancel is
    waiter      \* where waitForExit is

terminal == <<resizer, memSize, rowSize>>
writing  == <<writer, left>>
pipes    == <<input, accepted, output>>
vars     == <<pty, mu, stdin, pipes, child, listening, writing, terminal, capture, cancel, waiter>>

EOT  == 0
WriterPCs  == {"idle", "lock", "write", "ok", "failed"}
ResizerPCs == {"idle", "lock", "store", "ok", "refused", "unstored"}
CancelPCs  == {"idle", "lock", "kill", "view", "done", "refused"}

TypeOK ==
    /\ pty \in BOOLEAN /\ stdin \in BOOLEAN
    /\ mu \in Writers \cup Resizers \cup {Free}
    /\ input \in 0..InCap
    /\ accepted \in Seq(Writers \X (0..MsgLen))
    /\ child \in {"running", "killed", "exited"}
    /\ listening \in BOOLEAN
    /\ output \in 0..OutCap
    /\ writer \in [Writers -> WriterPCs]
    /\ left \in [Writers -> 0..MsgLen]
    /\ resizer \in [Resizers -> ResizerPCs]
    /\ {memSize, rowSize} \subseteq Resizers \cup {Free}
    /\ capture \in {"select", "publish"}
    /\ cancel \in CancelPCs
    /\ waiter \in {"wait", "lock", "done"}

Init ==
    /\ pty \in BOOLEAN
    /\ mu = Free /\ stdin = TRUE
    /\ input = 0 /\ accepted = <<>> /\ output = 0
    /\ child = "running" /\ listening = TRUE
    /\ writer = [w \in Writers |-> "idle"]
    /\ left = [w \in Writers |-> MsgLen]
    /\ resizer = [z \in Resizers |-> "idle"]
    /\ memSize = Free /\ rowSize = Free
    /\ capture = "select" /\ cancel = "idle" /\ waiter = "wait"

\* Nobody will read any more: the write fails with EPIPE, EIO or ErrClosed.
InputGone == child = "exited" \/ ~listening

\* The call w has something to write, or an EOT to send, but there is no room for it.
WaitsForRoom(w) ==
    /\ writer[w] = "write"
    /\ left[w] > 0 \/ (w \in Closers /\ pty)
    /\ input = InCap /\ ~InputGone

-----------------------------------------------------------------------------
(* WriteStdin, from the lookup of the execution to the unlock.             *)

WriteBegin(w) ==
    /\ writer[w] = "idle"
    /\ writer' = [writer EXCEPT ![w] = "lock"]
    /\ UNCHANGED <<pty, mu, stdin, pipes, child, listening, left, terminal, capture, cancel, waiter>>
\* Seeded faults: the message is written without the lock, or without asking whether
\* there is still an input.
WriteLockNever(w) ==
    /\ writer[w] = "lock" /\ mu = Free /\ stdin
    /\ writer' = [writer EXCEPT ![w] = "write"]
    /\ UNCHANGED <<pty, mu, stdin, pipes, child, listening, left, terminal, capture, cancel, waiter>>

WriteLockUnchecked(w) ==
    /\ writer[w] = "lock" /\ mu = Free
    /\ mu' = w /\ writer' = [writer EXCEPT ![w] = "write"]
    /\ UNCHANGED <<pty, stdin, pipes, child, listening, left, terminal, capture, cancel, waiter>>

\* The lock; without an input the call fails and gives it back at once.
WriteLock(w) ==
    /\ writer[w] = "lock" /\ mu = Free
    /\ IF stdin THEN mu' = w /\ writer' = [writer EXCEPT ![w] = "write"]
                ELSE UNCHANGED mu /\ writer' = [writer EXCEPT ![w] = "failed"]
    /\ UNCHANGED <<pty, stdin, pipes, child, listening, left, terminal, capture, cancel, waiter>>
\* Seeded fault: the pipe takes more than it can hold.
WriteUnitAnyway(w) ==
    /\ writer[w] = "write" /\ left[w] > 0
    /\ ~InputGone /\ input <= InCap
    /\ input' = input + 1
    /\ accepted' = Append(accepted, <<w, left[w]>>)
    /\ left' = [left EXCEPT ![w] = @ - 1]
    /\ UNCHANGED <<pty, mu, stdin, output, child, listening, writer, terminal, capture, cancel, waiter>>

\* Seeded fault: after a short write, what the pipe took already is written again.
WriteUnitAgain(w) ==
    /\ writer[w] = "write" /\ left[w] > 0
    /\ ~InputGone /\ input < InCap
    /\ input' = input + 1
    /\ accepted' = Append(accepted, <<w, left[w]>>)
    /\ UNCHANGED left \/ left' = [left EXCEPT ![w] = @ - 1]
    /\ UNCHANGED <<pty, mu, stdin, output, child, listening, writer, terminal, capture, cancel, waiter>>

\* Each unit waits for room in the pipe, with the mutex held.
WriteUnit(w) ==
    /\ writer[w] = "write" /\ left[w] > 0
    /\ ~InputGone /\ input < InCap
    /\ input' = input + 1
    /\ accepted' = Append(accepted, <<w, left[w]>>)
    /\ left' = [left EXCEPT ![w] = @ - 1]
    /\ UNCHANGED <<pty, mu, stdin, output, child, listening, writer, terminal, capture, cancel, waiter>>

\* The message is written: close the pipe, or send EOT to a terminal, if it was
\* the last one, and unlock.
WriteEnd(w) ==
    /\ writer[w] = "write" /\ left[w] = 0
    /\ mu' = Free
    /\ writer' = [writer EXCEPT ![w] = "ok"]
    /\ \/ /\ w \notin Closers \/ ~pty
          /\ stdin' = (stdin /\ w \notin Closers)
          /\ UNCHANGED <<input, accepted>>
       \/ /\ w \in Closers /\ pty /\ ~InputGone /\ input < InCap
          /\ input' = input + 1
          /\ accepted' = Append(accepted, <<w, EOT>>)
          /\ UNCHANGED stdin
    /\ UNCHANGED <<pty, output, child, listening, left, terminal, capture, cancel, waiter>>
\* Seeded fault: a failing write returns without unlocking.
WriteFailsLocked(w) ==
    /\ writer[w] = "write"
    /\ (InputGone /\ left[w] > 0) \/ (child = "exited" /\ w \in Closers)
    /\ writer' = [writer EXCEPT ![w] = "failed"]
    /\ UNCHANGED <<pty, mu, stdin, pipes, child, listening, left, terminal, capture, cancel, waiter>>

\* The reader is gone: the write, the EOT or the closing of a pipe that Wait has closed
\* already fails, and the deferred unlock runs.
WriteFails(w) ==
    /\ writer[w] = "write"
    /\ (InputGone /\ left[w] > 0) \/ (child = "exited" /\ w \in Closers)
    /\ mu' = Free
    /\ writer' = [writer EXCEPT ![w] = "failed"]
    /\ UNCHANGED <<pty, stdin, pipes, child, listening, left, terminal, capture, cancel, waiter>>

-----------------------------------------------------------------------------
(* The child and the capture of its output.                                *)

ChildRead ==
    /\ child = "running" /\ listening /\ input > 0
    /\ input' = input - 1
    /\ UNCHANGED <<pty, mu, stdin, accepted, output, child, listening, writing, terminal,
                   capture, cancel, waiter>>

\* Whatever it has read: programs print on their own, or more than they are given.
ChildWrite ==
    /\ child = "running" /\ output < OutCap
    /\ output' = output + 1
    /\ UNCHANGED <<pty, mu, stdin, input, accepted, child, listening, writing, terminal,
                   capture, cancel, waiter>>

\* A program may close its stdin pipe and go on.
ChildCloses ==
    /\ child = "running" /\ listening /\ ~pty
    /\ listening' = FALSE
    /\ UNCHANGED <<pty, mu, stdin, pipes, child, writing, terminal, capture, cancel, waiter>>

ChildExit ==
    /\ child \in {"running", "killed"}
    /\ child' = "exited"
    /\ UNCHANGED <<pty, mu, stdin, pipes, listening, writing, terminal, capture, cancel, waiter>>

\* A chunk is taken and its row appended; counting it needs the mutex.
CaptureTake ==
    /\ capture = "select" /\ output > 0
    /\ output' = output - 1
    /\ capture' = "publish"
    /\ UNCHANGED <<pty, mu, stdin, input, accepted, child, listening, writing, terminal, cancel, waiter>>

CapturePublish ==
    /\ capture = "publish" /\ mu = Free
    /\ capture' = "select"
    /\ UNCHANGED <<pty, mu, stdin, pipes, child, listening, writing, terminal, cancel, waiter>>

-----------------------------------------------------------------------------
(* Cancel, waitForExit, ResizePTY.                                         *)

CancelBegin ==
    /\ cancel = "idle"
    /\ cancel' = "lock"
    /\ UNCHANGED <<pty, mu, stdin, pipes, child, listening, writing, terminal, capture, waiter>>

CancelLock ==
    /\ cancel = "lock" /\ mu = Free
    /\ cancel' = "kill"
    /\ UNCHANGED <<pty, mu, stdin, pipes, child, listening, writing, terminal, capture, waiter>>
\* Seeded fault: a program that ignores SIGTERM is left alone.
CancelKillSkipped ==
    /\ cancel = "kill"
    /\ cancel' = "view"
    /\ UNCHANGED <<pty, mu, stdin, pipes, child, listening, writing, terminal, capture, waiter>>

\* SIGTERM, the grace period and SIGKILL need no lock; the answer is a snapshot, or
\* the error of the signal that the system refused.
CancelKill ==
    /\ cancel = "kill"
    /\ \/ /\ cancel' = "view"
          /\ child' = IF child = "running" THEN "killed" ELSE child
       \/ /\ child # "exited"
          /\ cancel' = "refused"
          /\ UNCHANGED child
    /\ UNCHANGED <<pty, mu, stdin, pipes, listening, writing, terminal, capture, waiter>>

CancelView ==
    /\ cancel = "view" /\ mu = Free
    /\ cancel' = "done"
    /\ UNCHANGED <<pty, mu, stdin, pipes, child, listening, writing, terminal, capture, waiter>>

WaiterReap ==
    /\ waiter = "wait" /\ child = "exited"
    /\ waiter' = "lock"
    /\ UNCHANGED <<pty, mu, stdin, pipes, child, listening, writing, terminal, capture, cancel>>

\* The final state is set and stdin or the pty closed and forgotten.
WaiterFinish ==
    /\ waiter = "lock" /\ mu = Free
    /\ waiter' = "done"
    /\ stdin' = FALSE
    /\ UNCHANGED <<pty, mu, pipes, child, listening, writing, terminal, capture, cancel>>

ResizeBegin(z) ==
    /\ resizer[z] = "idle"
    /\ resizer' = [resizer EXCEPT ![z] = "lock"]
    /\ UNCHANGED <<pty, mu, stdin, pipes, child, listening, writing, memSize, rowSize,
                   capture, cancel, waiter>>
\* Seeded fault: the size is noted and stored without the lock.
ResizeLockNever(z) ==
    /\ resizer[z] = "lock" /\ mu = Free /\ pty /\ stdin
    /\ resizer' = [resizer EXCEPT ![z] = "store"]
    /\ memSize' = z
    /\ UNCHANGED <<pty, mu, stdin, pipes, child, listening, writing, rowSize, capture, cancel, waiter>>

\* The terminal is resized and the size noted in memory; without a pty, or when the
\* system refuses the size, the call fails and memory keeps the old one.
ResizeLock(z) ==
    /\ resizer[z] = "lock" /\ mu = Free
    /\ \/ /\ pty /\ stdin
          /\ mu' = z
          /\ resizer' = [resizer EXCEPT ![z] = "store"]
          /\ memSize' = z
       \/ /\ resizer' = [resizer EXCEPT ![z] = "refused"]
          /\ UNCHANGED <<mu, memSize>>
    /\ UNCHANGED <<pty, stdin, pipes, child, listening, writing, rowSize, capture, cancel, waiter>>

\* The row is written, or the error of the store is the answer and memory is ahead.
ResizeStore(z) ==
    /\ resizer[z] = "store"
    /\ \/ rowSize' = z /\ resizer' = [resizer EXCEPT ![z] = "ok"]
       \/ UNCHANGED rowSize /\ resizer' = [resizer EXCEPT ![z] = "unstored"]
    /\ mu' = Free
    /\ UNCHANGED <<pty, stdin, pipes, child, listening, writing, memSize, capture, cancel, waiter>>

-----------------------------------------------------------------------------
WriterStep(w) == WriteLock(w) \/ WriteUnit(w) \/ WriteEnd(w) \/ WriteFails(w)
ChildStep     == ChildRead \/ ChildWrite \/ ChildCloses \/ ChildExit
CaptureStep   == CaptureTake \/ CapturePublish
CancelStep    == CancelLock \/ CancelKill \/ CancelView
WaiterStep    == WaiterReap \/ WaiterFinish
ResizeStep(z) == ResizeLock(z) \/ ResizeStore(z)

Next ==
    \/ \E w \in Writers : WriteBegin(w) \/ WriterStep(w)
    \/ ChildStep
    \/ CaptureStep
    \/ CancelBegin \/ CancelStep
    \/ WaiterStep
    \/ \E z \in Resizers : ResizeBegin(z) \/ ResizeStep(z)

Spec == Init /\ [][Next]_vars

\* Goroutines run when they can, and a killed child dies; a living one owes nothing.
Fairness ==
    /\ \A w \in Writers : WF_vars(WriterStep(w))
    /\ WF_vars(ChildExit /\ child = "killed")
    /\ WF_vars(CaptureStep) /\ WF_vars(CancelStep) /\ WF_vars(WaiterStep)
    /\ \A z \in Resizers : WF_vars(ResizeStep(z))

FairSpec == Spec /\ Fairness

-----------------------------------------------------------------------------
(* Properties *)

\* Where the units of a message stand in the input.
UnitsOf(w) == {p \in 1..Len(accepted) : accepted[p][1] = w /\ accepted[p][2] # EOT}

\* Concurrent WriteStdin calls do not mix their messages: a unit is followed by
\* the next unit of the same message, and a call that succeeded wrote all of its
\* message (WriteStdin keeps the mutex across its blocking writes).
MessagesStayWhole ==
    /\ \A p \in 1..Len(accepted) - 1 :
          accepted[p][2] > 1 => accepted[p+1] = <<accepted[p][1], accepted[p][2] - 1>>
    /\ \A w \in Writers : writer[w] = "ok" => Cardinality(UnitsOf(w)) = MsgLen

\* Nothing is written to an input that an earlier end-of-file closed or that
\* waitForExit has closed: the nil check and the write are one critical section.
InputOnlyWhileOpen == [][accepted' # accepted => stdin]_vars

\* The terminal size in memory, which Attach reports, and the size in the jobs row, which
\* Get reports, differ only while a resize is between the two and after one whose caller
\* was answered with the error of the store; the row holds the size of a resize that was
\* answered with success, whatever the order in which concurrent resizes get through.
SizesAgree ==
    /\ rowSize # Free => resizer[rowSize] = "ok"
    /\ \/ memSize = rowSize
       \/ memSize # Free /\ resizer[memSize] \in {"store", "unstored"}

\* All that the calls that have had the mutex so far had to write, and whether the
\* child's input can hold it.
Served  == {w \in Writers : writer[w] \notin {"idle", "lock"}}
Asked   == (Served \X (1..MsgLen)) \cup ((Served \cap Closers) \X {EOT})
AllFits == IsFiniteSet(Asked) /\ Cardinality(Asked) <= InCap

\* No WriteStdin waits for the child, with the mutex held that Cancel, captureOutput,
\* waitForExit and detach need (manager.go:594-622), while its message and those before
\* it fit into the child's input; nothing else is asked of the child, not even that it
\* reads.
NoWriteWaits == AllFits => \A w \in Writers : ~WaitsForRoom(w)

\* The child does not leave a WriteStdin waiting for ever: again and again it makes
\* room, closes its input, or ends.
ChildMakesRoom == \A w \in Writers : []<>~WaitsForRoom(w)

\* As long as the child does not leave a writer waiting, a Cancel ends it and answers, or
\* answers that the system refused the signal; who waits for the mutex gets it, however
\* long the messages before it, and whatever the child prints.
CancelEndsChild ==
    ChildMakesRoom => (cancel = "lock" ~> \/ child = "exited" /\ cancel = "done"
                                          \/ cancel = "refused")

\* Under the same condition every WriteStdin and ResizePTY call returns.
CallsReturn ==
    ChildMakesRoom =>
       /\ \A w \in Writers : writer[w] = "lock" ~> writer[w] \in {"ok", "failed"}
       /\ \A z \in Resizers : resizer[z] = "lock" ~> resizer[z] \in {"ok", "refused", "unstored"}

-----------------------------------------------------------------------------
(* What the documentation says and the code does not do. *)

\* agent.proto on CancelExecutionRequest, "The server performs graceful termination
\* and force kill after grace_period_seconds": a requested cancel kills the child,
\* whatever the size of a message a WriteStdin is writing, unless the system refuses
\* the signal.
CancelKills == cancel = "lock" ~> child = "exited" \/ cancel = "refused"
=============================================================================
