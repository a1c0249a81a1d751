----------------------------- MODULE Transfers -----------------------------
(***************************************************************************)
(* One transfer from end to end: the client library (client.go), the       *)
(* stream, the handler of the daemon with the walker of an archive         *)
(* (service.go), the row of the transfer (manager.go) and the daemon being *)
(* stopped (run.go).  File contents are numbers of chunks.                 *)
(***************************************************************************)
EXTENDS Integers

CONSTANTS
    MaxChunks,   \* bound on the size of a file
    Window       \* what a stream buffers of data that was not received

ASSUME TransferAssumption == MaxChunks \in Nat /\ Window \in Nat \ {0}

Kinds == {"upload", "download", "archive"}

VARIABLES
    kind,
    caller,       \* "ends" when the client's context ends as its call returns
                  \* (cmdractl exits, cmdraui cancels), "keeps" otherwise
    size,         \* chunks of the source file
    client,       \* "idle", "sending", "waiting", "receiving", "ok", "failed"
    clientBytes,  \* chunks read or written by the client
    stream,       \* "none", "open", "halfClosed", "finished", "failed", "broken"
    wire,         \* chunks in the stream
    final,        \* an end-of-file chunk or a response is in the stream, behind the data
    handler,      \* "none", "begun", "moving", "row", "last", "returned"
    moved,        \* chunks read or written by the handler
    outcome,      \* what "row" will write: "exited", "failed", "canceled"
    row,          \* "none", "running", "exited", "failed" (which is exited with an
                  \* error message), "canceled"
    unrecorded,   \* history: the row could not be completed
    walker,       \* of an archive: "none", "busy", "done", "failed"
    walked, pipe, \* chunks the walker has made, and of these in the pipe
    daemon        \* "serving", "draining", "drained", "cut", "closed"

clientVars == <<client, clientBytes>>
streamVars == <<stream, wire, final>>
handlerVars == <<handler, moved, outcome>>
walkerVars == <<walker, walked, pipe>>
fixedVars == <<kind, caller, size>>
rowVars == <<row, unrecorded>>
transferVars == <<fixedVars, clientVars, streamVars, handlerVars, rowVars, walkerVars,
                  daemon>>

TransferInit ==
    /\ kind \in Kinds
    /\ caller \in {"ends", "keeps"}
    /\ size \in 0 .. MaxChunks
    /\ client = "idle" /\ clientBytes = 0
    /\ stream = "none" /\ wire = 0 /\ final = FALSE
    /\ handler = "none" /\ moved = 0 /\ outcome = "exited"
    /\ row = "none" /\ unrecorded = FALSE
    /\ walker = "none" /\ walked = 0 /\ pipe = 0
    /\ daemon = "serving"

Alive == stream \in {"open", "halfClosed"}
ClientDone == client \in {"ok", "failed"}
DaemonUp == daemon # "closed"

(***************************************************************************)
(* The client.  Its call returns by ClientReturns only; the stream of a    *)
(* call that failed stays as it is, unless the caller's context ends.      *)
(***************************************************************************)
ClientReturns(result) ==
    /\ client' = result
    /\ stream' = IF caller = "ends" /\ Alive THEN "broken" ELSE stream

\* Opening the stream; an upload sends its metadata too.
ClientOpens ==
    /\ client = "idle" /\ daemon = "serving"
    /\ stream' = "open"
    /\ handler' = "begun"
    /\ client' = IF kind = "upload" THEN "sending" ELSE "receiving"
    /\ UNCHANGED <<fixedVars, clientBytes, wire, final, moved, outcome, rowVars,
                   walkerVars, daemon>>

\* The local file cannot be opened, read or written.
ClientFails ==
    /\ client \in {"sending", "receiving"}
    /\ ClientReturns("failed")
    /\ UNCHANGED <<fixedVars, clientBytes, wire, final, handlerVars, rowVars, walkerVars,
                   daemon>>

\* Send blocks while the window is full, and fails on a stream that ended.
ClientSends ==
    /\ client = "sending" /\ Alive
    /\ clientBytes < size /\ wire < Window
    /\ clientBytes' = clientBytes + 1
    /\ wire' = wire + 1
    /\ UNCHANGED <<fixedVars, client, stream, final, handlerVars, rowVars, walkerVars,
                   daemon>>

ClientHalfCloses ==
    /\ client = "sending" /\ Alive
    /\ clientBytes = size
    /\ stream' = "halfClosed"
    /\ client' = "waiting"
    /\ UNCHANGED <<fixedVars, clientBytes, wire, final, handlerVars, rowVars, walkerVars,
                   daemon>>

ClientReceives ==
    /\ client = "receiving" /\ wire > 0
    /\ stream # "broken"
    /\ wire' = wire - 1
    /\ clientBytes' = clientBytes + 1
    /\ UNCHANGED <<fixedVars, client, stream, final, handlerVars, rowVars, walkerVars,
                   daemon>>

\* The response of an upload or the last chunk of a download.
ClientSucceeds ==
    /\ client \in {"waiting", "receiving"}
    /\ final /\ (client = "receiving" => wire = 0)
    /\ stream # "broken"
    /\ ClientReturns("ok")
    /\ UNCHANGED <<fixedVars, clientBytes, wire, final, handlerVars, rowVars, walkerVars,
                   daemon>>

\* The error of the handler comes behind its data; a broken stream fails at once.
ClientLearnsError ==
    /\ client \in {"sending", "waiting", "receiving"}
    /\ \/ stream = "failed" /\ (client = "receiving" => wire = 0)
       \/ stream = "broken"
    /\ ClientReturns("failed")
    /\ UNCHANGED <<fixedVars, clientBytes, wire, final, handlerVars, rowVars, walkerVars,
                   daemon>>

\* The connection is lost, the user interrupts the client or a timeout ends it.
StreamBreaks ==
    /\ Alive
    /\ stream' = "broken"
    /\ UNCHANGED <<fixedVars, clientVars, wire, final, handlerVars, rowVars, walkerVars,
                   daemon>>

(***************************************************************************)
(* The handler.                                                            *)
(***************************************************************************)
Conclude(result) == handler' = "row" /\ outcome' = result

\* StartTransfer creates the row; then the file is opened, or the walker of an
\* archive started.  A request that is refused has no row.
HandlerStarts ==
    /\ DaemonUp /\ handler = "begun"
    /\ \/ /\ row' = "running"
          /\ \/ handler' = "moving" /\ UNCHANGED outcome
             \/ kind # "archive" /\ Conclude("failed")
          /\ walker' = IF kind = "archive" THEN "busy" ELSE walker
          /\ UNCHANGED stream
       \/ /\ handler' = "returned"
          /\ stream' = IF Alive THEN "failed" ELSE stream
          /\ UNCHANGED <<row, outcome, walker>>
    /\ UNCHANGED <<fixedVars, clientVars, wire, final, moved, unrecorded, walked, pipe,
                   daemon>>

UploadChunk ==
    /\ DaemonUp /\ kind = "upload" /\ handler = "moving"
    /\ Alive /\ wire > 0
    /\ wire' = wire - 1
    /\ \/ moved' = moved + 1 /\ UNCHANGED <<handler, outcome>>
       \/ Conclude("failed") /\ UNCHANGED moved
    /\ UNCHANGED <<fixedVars, clientVars, stream, final, rowVars, walkerVars, daemon>>

\* A seeded fault: the end of a broken stream is taken for the end of the file.
UploadEndsAnyhow ==
    /\ DaemonUp /\ kind = "upload" /\ handler = "moving"
    /\ \/ stream = "halfClosed" /\ wire = 0 /\ Conclude("exited")
       \/ stream = "broken" /\ Conclude("exited")
    /\ UNCHANGED <<fixedVars, clientVars, streamVars, moved, rowVars, walkerVars, daemon>>

\* The end of the file, or an error of the stream, which counts as a cancel.
UploadEnds ==
    /\ DaemonUp /\ kind = "upload" /\ handler = "moving"
    /\ \/ stream = "halfClosed" /\ wire = 0 /\ Conclude("exited")
       \/ stream = "broken" /\ Conclude("canceled")
    /\ UNCHANGED <<fixedVars, clientVars, streamVars, moved, rowVars, walkerVars, daemon>>

\* A seeded fault: a stream that has ended ends the handler and not the row.
DownloadChunkForgets ==
    /\ DaemonUp /\ kind # "upload" /\ handler = "moving"
    /\ IF kind = "archive" THEN pipe > 0 ELSE moved < size
    /\ pipe' = IF kind = "archive" THEN pipe - 1 ELSE pipe
    /\ \/ /\ Alive /\ wire < Window
          /\ wire' = wire + 1 /\ moved' = moved + 1
          /\ UNCHANGED handler
       \/ /\ stream = "broken" /\ handler' = "returned"
          /\ UNCHANGED <<wire, moved>>
    /\ UNCHANGED <<fixedVars, clientVars, stream, final, outcome, rowVars, walker, walked,
                   daemon>>

\* A chunk of the file or of the pipe is sent, or the stream has ended.
DownloadChunk ==
    /\ DaemonUp /\ kind # "upload" /\ handler = "moving"
    /\ IF kind = "archive" THEN pipe > 0 ELSE moved < size
    /\ pipe' = IF kind = "archive" THEN pipe - 1 ELSE pipe
    /\ \/ /\ Alive /\ wire < Window
          /\ wire' = wire + 1 /\ moved' = moved + 1
          /\ UNCHANGED <<handler, outcome>>
       \/ /\ stream = "broken" /\ Conclude("canceled")
          /\ UNCHANGED <<wire, moved>>
    /\ UNCHANGED <<fixedVars, clientVars, stream, final, rowVars, walker, walked, daemon>>

\* The end of the file or of the pipe, or the error of the walker.
DownloadEnds ==
    /\ DaemonUp /\ kind # "upload" /\ handler = "moving"
    /\ \/ kind = "download" /\ moved = size /\ Conclude("exited")
       \/ kind = "archive" /\ walker = "done" /\ pipe = 0 /\ Conclude("exited")
       \/ kind = "archive" /\ walker = "failed" /\ pipe = 0 /\ Conclude("failed")
    /\ UNCHANGED <<fixedVars, clientVars, streamVars, moved, rowVars, walkerVars, daemon>>

\* The file of a download cannot be read on.
ReadFails ==
    /\ DaemonUp /\ kind = "download" /\ handler = "moving"
    /\ Conclude("failed")
    /\ UNCHANGED <<fixedVars, clientVars, streamVars, moved, rowVars, walkerVars, daemon>>

\* CompleteTransfer, and whether it says that it failed: when the row could not be
\* written, or not be read again.  Only an upload cares, which then answers an error.
HandlerCompletes ==
    /\ DaemonUp /\ handler = "row"
    /\ \/ row' = outcome /\ UNCHANGED unrecorded
       \/ unrecorded' = TRUE /\ UNCHANGED row
    /\ \E ok \in IF unrecorded' THEN {FALSE} ELSE BOOLEAN :
          IF outcome = "exited" /\ (ok \/ kind # "upload")
          THEN handler' = "last" /\ UNCHANGED stream
          ELSE handler' = "returned" /\ stream' = IF Alive THEN "failed" ELSE stream
    /\ UNCHANGED <<fixedVars, clientVars, wire, final, moved, outcome, walkerVars,
                   daemon>>

\* The response, or the last chunk, and the end of the stream.
HandlerFinishes ==
    /\ DaemonUp /\ handler = "last"
    /\ handler' = "returned"
    /\ IF Alive THEN final' = TRUE /\ stream' = "finished"
                ELSE UNCHANGED <<stream, final>>
    /\ UNCHANGED <<fixedVars, clientVars, wire, moved, outcome, rowVars, walkerVars, daemon>>

(***************************************************************************)
(* The walker of an archive writes into a pipe that holds nothing: a write *)
(* returns when the handler has read it.                                   *)
(***************************************************************************)
WalkerWrites ==
    /\ DaemonUp /\ walker = "busy"
    /\ walked < size /\ pipe = 0
    /\ walked' = walked + 1 /\ pipe' = 1
    /\ UNCHANGED <<fixedVars, clientVars, streamVars, handlerVars, rowVars, walker, daemon>>

\* It closes the pipe, with the error if there was one.
WalkerEnds ==
    /\ DaemonUp /\ walker = "busy" /\ pipe = 0
    /\ \/ walked = size /\ walker' = "done"
       \/ walker' = "failed"
    /\ UNCHANGED <<fixedVars, clientVars, streamVars, handlerVars, rowVars, walked, pipe,
                   daemon>>

(***************************************************************************)
(* Stopping the daemon: runForeground, stop and close.                     *)
(***************************************************************************)
StopBegins ==
    /\ daemon = "serving" /\ daemon' = "draining"
    /\ UNCHANGED <<fixedVars, clientVars, streamVars, handlerVars, rowVars, walkerVars>>

\* A seeded fault: the graceful stop does not wait for the handlers.
StopDrainedEarly ==
    /\ daemon = "draining"
    /\ daemon' = "drained"
    /\ UNCHANGED <<fixedVars, clientVars, streamVars, handlerVars, rowVars, walkerVars>>

\* GracefulStop waits for the handlers,
StopDrained ==
    /\ daemon = "draining"
    /\ handler \in {"none", "returned"}
    /\ daemon' = "drained"
    /\ UNCHANGED <<fixedVars, clientVars, streamVars, handlerVars, rowVars, walkerVars>>

\* for the grace period; then Stop breaks the connections and waits no longer.
StopTimesOut ==
    /\ daemon = "draining"
    /\ daemon' = "cut"
    /\ stream' = IF Alive THEN "broken" ELSE stream
    /\ UNCHANGED <<fixedVars, clientVars, wire, final, handlerVars, rowVars, walkerVars>>

\* The server ends with an error of its listener: nothing is stopped or waited for.
ServeFails ==
    /\ daemon = "serving" /\ daemon' = "cut"
    /\ UNCHANGED <<fixedVars, clientVars, streamVars, handlerVars, rowVars, walkerVars>>

\* The database is closed and the process ends, with what is left running in it.
StopCloses ==
    /\ daemon \in {"drained", "cut"}
    /\ daemon' = "closed"
    /\ stream' = IF Alive THEN "broken" ELSE stream
    /\ UNCHANGED <<fixedVars, clientVars, wire, final, handlerVars, rowVars, walkerVars>>

ClientStep ==
    \/ ClientOpens \/ ClientSends \/ ClientHalfCloses \/ ClientReceives
    \/ ClientSucceeds \/ ClientLearnsError
HandlerStep ==
    \/ HandlerStarts \/ UploadChunk \/ UploadEnds \/ DownloadChunk \/ DownloadEnds
    \/ HandlerCompletes \/ HandlerFinishes
WalkerStep == WalkerWrites \/ WalkerEnds
StopStep == StopBegins \/ StopDrained \/ StopTimesOut \/ ServeFails \/ StopCloses

TransferNext ==
    ClientStep \/ ClientFails \/ StreamBreaks \/ HandlerStep \/ ReadFails
    \/ WalkerStep \/ StopStep

\* Every part goes on when it can; files and streams need not fail.
TransferFairness ==
    /\ WF_transferVars(ClientStep)
    /\ WF_transferVars(HandlerStep)
    /\ WF_transferVars(WalkerStep)

TransferSpec == TransferInit /\ [][TransferNext]_transferVars /\ TransferFairness

(***************************************************************************)
(* Properties.                                                             *)
(***************************************************************************)

\* A client that is told of success has moved the whole file: broken streams, errors of
\* either side and a daemon that stops are never taken for the end of the file, neither
\* for the client nor for the row.  The row says so too, for an upload always and for a
\* download unless its completion failed, which the handler ignores (client.go:394,
\* client.go:547, service.go:283, service.go:420, service.go:507).
SuccessMeansWhole ==
    /\ client = "ok" =>
          /\ clientBytes = size /\ moved = size
          /\ row = "exited" \/ (kind # "upload" /\ unrecorded)
    /\ row = "exited" => moved = size

\* No handler whose client ends its context runs for ever, unless the daemon stops:
\* it is not left waiting for a chunk, for room in the stream, for the pipe or for the
\* walker; and its row runs on only if completing it failed.  (service.go:328,
\* service.go:437; a client that keeps its context leaves the row running.)
TransfersEnd ==
    []<>(\/ caller = "keeps" \/ daemon = "closed"
         \/ /\ handler \in {"none", "returned"}
            /\ row = "running" => unrecorded)

\* A graceful stop that needs no force leaves no transfer running in the history but
\* those whose completion failed (run.go:121-143); one that is cut short may, and so may
\* the end after an error of the listener, which waits for nobody (run.go:52-56).
DrainedMeansFinished == daemon = "drained" /\ row = "running" => unrecorded

=============================================================================
