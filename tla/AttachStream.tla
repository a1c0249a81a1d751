---------------------------- MODULE AttachStream ----------------------------
(***************************************************************************)
(* An attach stream from end to end: the client (AttachSession, WriteStdin *)
(* and runAttach), the handler and its receiving goroutine                 *)
(* (service.go, Attach).  What is published to the handler is the business *)
(* of OutputPipeline, what a write to stdin does that of ExecIO; here a    *)
(* write just blocks until the child reads, ends or has no stdin, and      *)
(* holds the mutex of the execution as long.                               *)
(***************************************************************************)
EXTENDS Integers, Sequences

CONSTANTS
    MaxFrames,    \* bound on what a session sends
    MaxLive,      \* bound on the output of the child
    Buffer          \* what a stream buffers each way

ASSUME AttachStreamAssumption ==
    MaxFrames \in Nat /\ MaxLive \in Nat /\ Buffer \in Nat \ {0}

VARIABLES
    mode,         \* "writer" is Client.WriteStdin, "session" an attached user
    peer,         \* "idle", "started", "acked", "closing", "ok", "failed"
    link,         \* "none", "open", "broken"
    toServer, halfClosed, frames,
    ack, outs, exitSent, status,   \* what is on its way to the client
    attachHandler,   \* "none", "begun", "attached", "replaying", "selecting",
                     \* "detaching", "returned"
    answer,          \* what the handler returns when it has detached
    attached,        \* the daemon's mark of the execution, for this handler
    eof,             \* EOF has been published to this handler
    elder,           \* the goroutine of an earlier session is in WriteStdin
    receiver,        \* "none", "recv", "writing", "closing", "canceling", "reporting",
                     \* "ended"
    report, recvErr, \* its error and the channel to the handler: "none", "eof", "error"
    process,         \* "running", "ended", "finished" when waitForExit is through
    stdinOpen, liveOutput,
    delivered        \* history: the child's input took the writer's

peerVars == <<mode, peer>>
upVars == <<toServer, halfClosed, frames>>
downVars == <<ack, outs, exitSent, status>>
serverVars == <<attachHandler, answer, attached, eof, elder>>
receiverVars == <<receiver, report, recvErr>>
childVars == <<process, stdinOpen, liveOutput, delivered>>
attachStreamVars == <<peerVars, link, upVars, downVars, serverVars, receiverVars,
                      childVars>>

AttachStreamInit ==
    /\ mode \in {"writer", "session"}
    /\ peer = "idle" /\ link = "none"
    /\ toServer = <<>> /\ halfClosed = FALSE /\ frames = 0
    /\ ack = FALSE /\ outs = 0 /\ exitSent = FALSE /\ status = "none"
    /\ attachHandler = "none" /\ answer = "ok" /\ attached = FALSE /\ eof = FALSE
    /\ receiver = "none" /\ report = "none" /\ recvErr = "none"
    /\ process = "running" /\ stdinOpen \in BOOLEAN /\ liveOutput = 0
    /\ elder \in {FALSE, stdinOpen}
    /\ delivered = FALSE

PeerDone == peer \in {"ok", "failed"}
\* The stream's context of the handler.
ContextDone == link = "broken" \/ attachHandler = "returned"
\* WriteStdin keeps the mutex of the execution while it waits for the child.
Writing == receiver \in {"writing", "closing"}
MutexFree == ~Writing /\ ~elder

(***************************************************************************)
(* The client.  When its call or session is over, so is its context.       *)
(***************************************************************************)
PeerEnds(how) ==
    /\ peer' = how
    /\ link' = "broken"

PeerStarts ==
    /\ peer = "idle"
    /\ peer' = "started" /\ link' = "open" /\ attachHandler' = "begun"
    /\ UNCHANGED <<mode, upVars, downVars, answer, attached, eof, elder, receiverVars,
                   childVars>>

\* The ack; a writer then sends its input and ends its side of the stream.
PeerAcked ==
    /\ peer = "started" /\ link = "open" /\ ack
    /\ ack' = FALSE
    /\ IF mode = "writer"
       THEN peer' = "closing" /\ toServer' = <<"stdin">> /\ halfClosed' = TRUE
       ELSE peer' = "acked" /\ UNCHANGED <<toServer, halfClosed>>
    /\ UNCHANGED <<mode, link, frames, outs, exitSent, status, serverVars, receiverVars,
                   childVars>>

\* The goroutines of a session: stdin is pumped to its end, window sizes and a
\* cancel are control frames.
PeerSends ==
    /\ peer = "acked" /\ link = "open" /\ status = "none"
    /\ frames < MaxFrames /\ Len(toServer) < Buffer
    /\ \E f \in {"stdin", "eof", "resize", "cancel"} : toServer' = Append(toServer, f)
    /\ frames' = frames + 1
    /\ UNCHANGED <<peerVars, link, halfClosed, downVars, serverVars, receiverVars,
                   childVars>>

PeerReceives ==
    /\ peer \in {"acked", "closing"} /\ link = "open"
    /\ outs > 0 /\ outs' = outs - 1
    /\ UNCHANGED <<peerVars, link, upVars, ack, exitSent, status, serverVars,
                   receiverVars, childVars>>

\* The exit ends a session; the end of the stream ends a writer, with success if
\* the handler returned no error, and an error ends both.
PeerLearns ==
    /\ link = "open" /\ outs = 0 /\ ~ack
    /\ \/ peer = "acked" /\ exitSent /\ PeerEnds("ok")
       \/ peer \in {"acked", "closing"} /\ status = "ok" /\ PeerEnds("ok")
       \/ peer \in {"started", "acked", "closing"} /\ status = "error"
          /\ PeerEnds("failed")
    /\ UNCHANGED <<mode, upVars, downVars, serverVars, receiverVars, childVars>>

\* The user interrupts or detaches, a timeout passes, the connection is lost.
PeerLeaves ==
    /\ peer \in {"started", "acked", "closing"}
    /\ PeerEnds("failed")
    /\ UNCHANGED <<mode, upVars, downVars, serverVars, receiverVars, childVars>>

(***************************************************************************)
(* The handler.                                                            *)
(***************************************************************************)

\* The deferred detach comes first.
Return(r) ==
    /\ attachHandler' = "detaching" /\ answer' = r
    /\ UNCHANGED <<attached, eof, elder, status>>

\* Manager.Attach waits for the mutex; it refuses an execution that is attached
\* already or not found, and takes one that has ended for as good as any other.
HandlerAttaches ==
    /\ attachHandler = "begun" /\ MutexFree
    /\ \/ /\ attachHandler' = "attached" /\ attached' = TRUE
          /\ UNCHANGED status
       \/ /\ attachHandler' = "returned"
          /\ status' = IF link = "open" THEN "error" ELSE status
          /\ UNCHANGED attached
    /\ UNCHANGED <<peerVars, link, upVars, ack, outs, exitSent, answer, eof, elder,
                   receiverVars, childVars>>

HandlerAcks ==
    /\ attachHandler = "attached"
    /\ IF link = "open"
       THEN /\ ack' = TRUE /\ attachHandler' = "replaying"
            /\ UNCHANGED <<answer, attached, eof, elder, status>>
       ELSE Return("error") /\ UNCHANGED ack
    /\ UNCHANGED <<peerVars, link, upVars, outs, exitSent, receiverVars, childVars>>

\* The replay of at most one row; then the receiving goroutine is started.
HandlerReplays ==
    /\ attachHandler = "replaying"
    /\ \/ /\ link = "open" /\ outs < Buffer
          /\ outs' \in {outs, outs + 1}
          /\ attachHandler' = "selecting" /\ receiver' = "recv"
          /\ UNCHANGED <<answer, attached, eof, elder, status>>
       \/ link = "broken" /\ Return("error") /\ UNCHANGED <<outs, receiver>>
    /\ UNCHANGED <<peerVars, link, upVars, ack, exitSent, report, recvErr, childVars>>

SelectError ==
    /\ attachHandler = "selecting" /\ recvErr # "none"
    /\ recvErr' = "none"
    /\ Return(IF recvErr = "eof" THEN "ok" ELSE "error")
    /\ UNCHANGED <<peerVars, link, upVars, ack, outs, exitSent, receiver, report,
                   childVars>>

SelectOutput ==
    /\ attachHandler = "selecting" /\ liveOutput > 0
    /\ liveOutput' = liveOutput - 1
    /\ \/ /\ link = "open" /\ outs < Buffer
          /\ outs' = outs + 1
          /\ UNCHANGED <<serverVars, status>>
       \/ link = "broken" /\ Return("error") /\ UNCHANGED outs
    /\ UNCHANGED <<peerVars, link, upVars, ack, exitSent, receiverVars, process,
                   stdinOpen, delivered>>

\* The live channel is closed, or its last event is EOF: the exit is sent, if the
\* execution can still be looked up.
SelectExit ==
    /\ attachHandler = "selecting" /\ liveOutput = 0 /\ eof
    /\ \/ Return("ok") /\ exitSent' = (link = "open")
       \/ Return("error") /\ UNCHANGED exitSent
    /\ UNCHANGED <<peerVars, link, upVars, ack, outs, receiverVars, childVars>>

SelectDone ==
    /\ attachHandler = "selecting" /\ link = "broken"
    /\ Return("error")
    /\ UNCHANGED <<peerVars, link, upVars, ack, outs, exitSent, receiverVars, childVars>>

\* detach waits for the mutex; only then the handler returns.
HandlerReturns ==
    /\ attachHandler = "detaching" /\ MutexFree
    /\ attachHandler' = "returned" /\ attached' = FALSE
    /\ status' = IF link = "open" THEN answer ELSE status
    /\ UNCHANGED <<peerVars, link, upVars, ack, outs, exitSent, answer, eof, elder,
                   receiverVars, childVars>>

(***************************************************************************)
(* The receiving goroutine.                                                *)
(***************************************************************************)

\* What has arrived may be taken although the stream is over.
ReceiverTakes ==
    /\ receiver = "recv"
    /\ toServer # <<>>
    /\ toServer' = Tail(toServer)
    /\ receiver' = CASE Head(toServer) = "stdin" -> "writing"
                     [] Head(toServer) = "eof" -> "closing"
                     [] Head(toServer) = "cancel" -> "canceling"
                     [] OTHER -> "recv"
    /\ UNCHANGED <<peerVars, link, halfClosed, frames, downVars, serverVars, report,
                   recvErr, childVars>>

\* The child's input takes what is written: there is room, or the child cares to read.
\* The end of the input closes a pipe and not a terminal.
ReceiverWrites ==
    /\ Writing
    /\ process = "running" /\ stdinOpen
    /\ receiver' = "recv" /\ delivered' = TRUE
    /\ stdinOpen' \in IF receiver = "closing" THEN BOOLEAN ELSE {TRUE}
    /\ UNCHANGED <<peerVars, link, upVars, downVars, serverVars, report, recvErr, process,
                   liveOutput>>

\* A seeded fault: an input that is refused is not reported.
ReceiverRefusedQuietly ==
    /\ Writing
    /\ process # "running" \/ ~stdinOpen
    /\ receiver' = "recv"
    /\ UNCHANGED <<peerVars, link, upVars, downVars, serverVars, report, recvErr,
                   childVars>>

\* WriteStdin fails when the child has ended or its stdin has been closed.
ReceiverRefused ==
    /\ Writing
    /\ process # "running" \/ ~stdinOpen
    /\ receiver' = "reporting" /\ report' = "error"
    /\ UNCHANGED <<peerVars, link, upVars, downVars, serverVars, recvErr, childVars>>

\* Manager.Cancel waits for the mutex; after the grace period the child has ended,
\* unless the system refuses the signal.
ReceiverCancels ==
    /\ receiver = "canceling" /\ MutexFree
    /\ \/ /\ receiver' = "recv" /\ UNCHANGED report
          /\ process' = IF process = "running" THEN "ended" ELSE process
       \/ /\ receiver' = "reporting" /\ report' = "error"
          /\ UNCHANGED process
    /\ UNCHANGED <<peerVars, link, upVars, downVars, serverVars, recvErr, stdinOpen,
                   liveOutput, delivered>>

\* Recv returns the end of the client's side, or an error when the stream is over.
ReceiverEnds ==
    /\ receiver = "recv"
    /\ \/ ContextDone /\ report' = "error"
       \/ halfClosed /\ toServer = <<>> /\ report' = "eof"
    /\ receiver' = "reporting"
    /\ UNCHANGED <<peerVars, link, upVars, downVars, serverVars, recvErr, childVars>>

\* A seeded fault: the channel holds nothing, so that the handler has to be there.
ReceiverReportsUnbuffered ==
    /\ receiver = "reporting" /\ attachHandler = "selecting"
    /\ recvErr' = report /\ receiver' = "ended"
    /\ UNCHANGED <<peerVars, link, upVars, downVars, serverVars, report, childVars>>

\* The channel has room for the one error that is ever sent.
ReceiverReports ==
    /\ receiver = "reporting" /\ recvErr = "none"
    /\ recvErr' = report /\ receiver' = "ended"
    /\ UNCHANGED <<peerVars, link, upVars, downVars, serverVars, report, childVars>>

(***************************************************************************)
(* The child, the capture of its output and waitForExit.                   *)
(***************************************************************************)
ChildWrites ==
    /\ process = "running" /\ attached /\ MutexFree
    /\ liveOutput < MaxLive
    /\ liveOutput' = liveOutput + 1
    /\ UNCHANGED <<peerVars, link, upVars, downVars, serverVars, receiverVars, process,
                   stdinOpen, delivered>>

ChildExits ==
    /\ process = "running" /\ process' = "ended"
    /\ UNCHANGED <<peerVars, link, upVars, downVars, serverVars, receiverVars, stdinOpen,
                   liveOutput, delivered>>

\* The final state is set, the row completed and EOF published to whoever is
\* attached now; who attaches later has missed it.
WaiterFinishes ==
    /\ process = "ended" /\ MutexFree
    /\ process' = "finished"
    /\ eof' = attached /\ attached' = FALSE
    /\ UNCHANGED <<peerVars, link, upVars, downVars, attachHandler, answer, elder,
                   receiverVars, stdinOpen, liveOutput, delivered>>

\* The earlier session's write is through: the child has read, or ended.
ElderWrites ==
    /\ elder /\ process = "running" /\ elder' = FALSE
    /\ UNCHANGED <<peerVars, link, upVars, downVars, attachHandler, answer, attached,
                   eof, receiverVars, childVars>>

ElderRefused ==
    /\ elder /\ process # "running" /\ elder' = FALSE
    /\ UNCHANGED <<peerVars, link, upVars, downVars, attachHandler, answer, attached,
                   eof, receiverVars, childVars>>

PeerStep == PeerStarts \/ PeerAcked \/ PeerReceives \/ PeerLearns
AttachHandlerStep ==
    \/ HandlerAttaches \/ HandlerAcks \/ HandlerReplays
    \/ SelectError \/ SelectOutput \/ SelectExit \/ SelectDone \/ HandlerReturns
ReceiverStep ==
    \/ ReceiverTakes \/ ReceiverRefused \/ ReceiverCancels \/ ReceiverEnds
    \/ ReceiverReports
ExitStep == WaiterFinishes \/ ElderRefused

AttachStreamNext ==
    \/ PeerStep \/ PeerSends \/ PeerLeaves \/ AttachHandlerStep
    \/ ReceiverStep \/ ReceiverWrites \/ ChildWrites \/ ChildExits
    \/ ExitStep \/ ElderWrites

\* The goroutines go on when they can.  A child need not read its stdin, so
\* ReceiverWrites and ElderWrites are not fair.
AttachStreamFairness ==
    /\ WF_attachStreamVars(AttachHandlerStep)
    /\ WF_attachStreamVars(ReceiverStep)
    /\ WF_attachStreamVars(ExitStep)

AttachStreamSpec ==
    AttachStreamInit /\ [][AttachStreamNext]_attachStreamVars /\ AttachStreamFairness

(***************************************************************************)
(* Properties.                                                             *)
(***************************************************************************)

\* A WriteStdin waits for a child that neither reads nor ends.
WriteBlocks == ~MutexFree /\ process = "running" /\ stdinOpen

\* When the client is gone the handler and its receiving goroutine end and the
\* execution can be attached to again, wherever the three were (service.go:218-281);
\* unless a WriteStdin, of this session or of an earlier one, waits for ever with the
\* mutex that Attach, detach and Cancel need: then nothing is freed before the child
\* reads or ends.
LeavingFreesAttachment ==
    \/ []<>(PeerDone => /\ ~attached /\ attachHandler \in {"none", "returned"}
                        /\ receiver \in {"none", "ended"})
    \/ <>[]WriteBlocks

\* WriteStdin reports success only when the input was accepted by the child's input or
\* the child has ended: the answer is the mere end of the stream, which an exit, an
\* error and the end of the input race for (client.go:329, service.go:254).
WrittenMeansDelivered ==
    mode = "writer" /\ peer = "ok" => delivered \/ process # "running"

=============================================================================
