---------------------------- MODULE StreamProofs ----------------------------
(***************************************************************************)
(* Proofs about the two streams that move data between a client and the    *)
(* daemon: a transfer (Transfers), for files of any length and any window, *)
(* and an attach stream (AttachStream), for any number of frames, any      *)
(* output of the child and any buffers.                                    *)
(***************************************************************************)
EXTENDS Transfers, AttachStream, TLAPS

-----------------------------------------------------------------------------
(* Transfers.                                                              *)

\* The types that the proof needs.
Counters ==
    /\ kind \in Kinds
    /\ clientBytes \in Nat /\ size \in Nat /\ wire \in Nat /\ moved \in Nat
    /\ walked \in Nat /\ pipe \in Nat
    /\ outcome \in {"exited", "failed", "canceled"}

\* What an end of the file reported to the client says of the row.
Recorded == row = "exited" \/ (kind # "upload" /\ unrecorded)

\* Where the client and the handler are says what the other variables are for.
PlacesFit ==
    /\ client = "idle" => handler = "none"
    /\ client \in {"sending", "waiting"} => kind = "upload"
    /\ client = "receiving" => kind # "upload"
    /\ row = "running" => handler \in {"moving", "row"} \/ unrecorded
    /\ row = "exited" => handler \in {"last", "returned"}
    /\ unrecorded => handler \in {"last", "returned"}
    /\ final => handler = "returned"
    /\ handler = "last" \/ final => Recorded

\* No chunk of an upload is lost before the handler gives up, and none
\* behind the end of the client's side.
UploadsAreCounted ==
    kind = "upload" =>
        /\ clientBytes <= size
        /\ handler \in {"none", "begun", "moving"} => clientBytes = wire + moved
        /\ stream = "halfClosed" => clientBytes = size

\* No chunk of a download is lost; of an archive none in the pipe either, until the
\* handler gives up.
DownloadsAreCounted ==
    kind # "upload" =>
        /\ moved = clientBytes + wire
        /\ stream # "halfClosed"
        /\ kind = "archive" /\ handler \in {"none", "begun", "moving"} =>
                walked = moved + pipe
        /\ walker = "done" => walked = size

\* "exited" is concluded at the end of the file only.
EndsAreReached ==
    \/ handler = "row" /\ outcome = "exited"
    \/ handler = "last"
    \/ final
    \/ row = "exited"
    =>
        moved = size /\ (kind = "upload" => clientBytes = size)

OkIsFinal == client = "ok" => final /\ clientBytes = size /\ moved = size

\* A drained daemon has no handler left and takes no request.
DrainedIsQuiet == daemon = "drained" => handler \in {"none", "returned"}

TransferInv ==
    /\ Counters /\ PlacesFit /\ UploadsAreCounted /\ DownloadsAreCounted
    /\ EndsAreReached /\ OkIsFinal /\ DrainedIsQuiet

LEMMA TransferInvInit == TransferInit => TransferInv
BY TransferAssumption
   DEF TransferInit, TransferInv, Counters, PlacesFit, UploadsAreCounted,
       DownloadsAreCounted, Recorded,
       EndsAreReached, OkIsFinal, DrainedIsQuiet, Kinds

LEMMA TransferInvStep == TransferInv /\ [TransferNext]_transferVars => TransferInv'
<1> SUFFICES ASSUME TransferInv, [TransferNext]_transferVars
             PROVE  TransferInv'
  OBVIOUS
<1> USE TransferAssumption
    DEF TransferInv, Counters, PlacesFit, Recorded, UploadsAreCounted, DownloadsAreCounted,
        EndsAreReached, OkIsFinal, DrainedIsQuiet, Kinds, Alive, DaemonUp,
        fixedVars, rowVars, clientVars, streamVars, handlerVars, walkerVars
<1>1. CASE ClientOpens
  BY <1>1 DEF ClientOpens
<1>2. CASE ClientSends
  BY <1>2 DEF ClientSends
<1>3. CASE ClientHalfCloses
  BY <1>3 DEF ClientHalfCloses
<1>4. CASE ClientReceives
  BY <1>4 DEF ClientReceives
<1>5. CASE ClientSucceeds
  BY <1>5 DEF ClientSucceeds, ClientReturns
<1>6. CASE ClientLearnsError
  BY <1>6 DEF ClientLearnsError, ClientReturns
<1>7. CASE ClientFails
  BY <1>7 DEF ClientFails, ClientReturns
<1>8. CASE StreamBreaks
  BY <1>8 DEF StreamBreaks
<1>9. CASE HandlerStarts
  BY <1>9 DEF HandlerStarts, Conclude
<1>10. CASE UploadChunk
  BY <1>10 DEF UploadChunk, Conclude
<1>11. CASE UploadEnds
  BY <1>11 DEF UploadEnds, Conclude
<1>12. CASE DownloadChunk
  BY <1>12 DEF DownloadChunk, Conclude
<1>13. CASE DownloadEnds
  BY <1>13 DEF DownloadEnds, Conclude
<1>14. CASE ReadFails
  BY <1>14 DEF ReadFails, Conclude
<1>15. CASE HandlerCompletes
  BY <1>15 DEF HandlerCompletes
<1>16. CASE HandlerFinishes
  BY <1>16 DEF HandlerFinishes
<1>17. CASE WalkerWrites
  BY <1>17 DEF WalkerWrites
<1>18. CASE WalkerEnds
  BY <1>18 DEF WalkerEnds
<1>19. CASE StopBegins
  BY <1>19 DEF StopBegins
<1>20. CASE StopDrained
  BY <1>20 DEF StopDrained
<1>21. CASE StopTimesOut
  BY <1>21 DEF StopTimesOut
<1>22. CASE StopCloses
  BY <1>22 DEF StopCloses
<1>24. CASE ServeFails
  BY <1>24 DEF ServeFails
<1>23. CASE UNCHANGED transferVars
  BY <1>23 DEF transferVars
<1> QED
  BY <1>1, <1>2, <1>3, <1>4, <1>5, <1>6, <1>7, <1>8, <1>9, <1>10, <1>11, <1>12, <1>13,
     <1>14, <1>15, <1>16, <1>17, <1>18, <1>19, <1>20, <1>21, <1>22, <1>23,
     <1>24
     DEF TransferNext, ClientStep, HandlerStep, WalkerStep, StopStep

LEMMA TransferInvariant == TransferSpec => []TransferInv
BY TransferInvInit, TransferInvStep, PTL DEF TransferSpec

\* A client that is told of success has moved the whole file, and so has a transfer
\* whose row says exited, whatever breaks, fails or stops; the row of a success says so
\* for every upload, and for a download whose completion did not fail (client.go:394-446,
\* 547-580, service.go:283-509).
THEOREM SuccessIsWhole == TransferSpec => []SuccessMeansWhole
<1>1. TransferInv => SuccessMeansWhole
  BY DEF TransferInv, PlacesFit, EndsAreReached, OkIsFinal, Recorded, SuccessMeansWhole
<1> QED
  BY TransferInvariant, <1>1, PTL

\* A graceful stop that was not cut short leaves no transfer running in the history but
\* those whose completion failed (run.go:121-143).
THEOREM DrainedIsFinished == TransferSpec => []DrainedMeansFinished
<1>1. TransferInv => DrainedMeansFinished
  BY DEF TransferInv, PlacesFit, DrainedIsQuiet, DrainedMeansFinished
<1> QED
  BY TransferInvariant, <1>1, PTL

-----------------------------------------------------------------------------
(* Attach streams.                                                         *)

\* What a writer may be told success for.
InputSettled == delivered \/ process # "running"

\* A writer sends one frame of input, behind which its side of the stream ends.
OneFrame ==
    /\ peer # "acked"
    /\ toServer \in {<<>>, <<"stdin">>}
    /\ ~halfClosed => toServer = <<>>

\* The receiving goroutine is started by the handler, once.
ReceiverIsStarted ==
    /\ peer = "idle" => attachHandler = "none"
    /\ attachHandler \in {"none", "begun", "attached", "replaying"} => receiver = "none"
    /\ eof => process # "running"

\* The input is taken before the end of the writer's side is seen, and from there
\* the end goes through the goroutine, its channel, detach and the status to the writer.
EndIsBehindInput ==
    /\ halfClosed /\ toServer = <<>> /\ receiver \in {"none", "recv"} => InputSettled
    /\ receiver = "reporting" /\ report = "eof" => InputSettled
    /\ recvErr = "eof" => InputSettled
    /\ attachHandler = "detaching" /\ answer = "ok" => InputSettled
    /\ status = "ok" => InputSettled
    /\ peer = "ok" => InputSettled

AttachInv == ReceiverIsStarted /\ (mode = "writer" => OneFrame /\ EndIsBehindInput)

LEMMA AttachInvInit == AttachStreamInit => AttachInv
BY DEF AttachStreamInit, AttachInv, ReceiverIsStarted, OneFrame, EndIsBehindInput,
       InputSettled

LEMMA AttachInvStep == AttachInv /\ [AttachStreamNext]_attachStreamVars => AttachInv'
<1> SUFFICES ASSUME AttachInv, [AttachStreamNext]_attachStreamVars
             PROVE  AttachInv'
  OBVIOUS
<1> USE DEF AttachInv, ReceiverIsStarted, OneFrame, EndIsBehindInput, InputSettled,
            peerVars, upVars, downVars, serverVars, receiverVars, childVars
<1>1. CASE PeerStarts
  BY <1>1 DEF PeerStarts
<1>2. CASE PeerAcked
  BY <1>2 DEF PeerAcked
<1>3. CASE PeerReceives
  BY <1>3 DEF PeerReceives
<1>4. CASE PeerLearns
  BY <1>4 DEF PeerLearns, PeerEnds
<1>5. CASE PeerSends
  BY <1>5 DEF PeerSends
<1>6. CASE PeerLeaves
  BY <1>6 DEF PeerLeaves, PeerEnds
<1>7. CASE HandlerAttaches
  BY <1>7 DEF HandlerAttaches
<1>8. CASE HandlerAcks
  BY <1>8 DEF HandlerAcks, Return
<1>9. CASE HandlerReplays
  BY <1>9 DEF HandlerReplays, Return
<1>10. CASE SelectError
  BY <1>10 DEF SelectError, Return
<1>11. CASE SelectOutput
  BY <1>11 DEF SelectOutput, Return
<1>12. CASE SelectExit
  BY <1>12 DEF SelectExit, Return
<1>13. CASE SelectDone
  BY <1>13 DEF SelectDone, Return
<1>14. CASE ReceiverTakes
  <2>1. mode = "writer" => toServer = <<"stdin">> /\ toServer' = <<>>
                           /\ receiver' = "writing"
    <3>1. Tail(<<"stdin">>) = <<>> /\ Head(<<"stdin">>) = "stdin"
      OBVIOUS
    <3>2. toServer # <<>> /\ toServer' = Tail(toServer)
          /\ (Head(toServer) = "stdin" => receiver' = "writing")
      BY <1>14 DEF ReceiverTakes
    <3> QED
      BY <3>1, <3>2
  <2>2. receiver = "recv" /\ receiver' \notin {"none", "reporting"}
    BY <1>14 DEF ReceiverTakes
  <2>3. UNCHANGED <<peerVars, halfClosed, downVars, serverVars, report, recvErr,
                  childVars>>
    BY <1>14 DEF ReceiverTakes
  <2>4. UNCHANGED <<peer, mode, attachHandler, answer, eof, status, process, delivered>>
    BY <2>3
  <2>5. ReceiverIsStarted'
    BY <2>2, <2>4
  <2>6. mode = "writer" => OneFrame' /\ EndIsBehindInput'
    BY <2>1, <2>2, <2>3, <2>4
  <2> QED
    BY <2>4, <2>5, <2>6
<1>15. CASE ReceiverRefused
  BY <1>15 DEF ReceiverRefused, Writing
<1>16. CASE ReceiverCancels
  BY <1>16 DEF ReceiverCancels
<1>17. CASE ReceiverEnds
  BY <1>17 DEF ReceiverEnds
<1>18. CASE ReceiverReports
  BY <1>18 DEF ReceiverReports
<1>19. CASE ReceiverWrites
  BY <1>19 DEF ReceiverWrites, Writing
<1>20. CASE ChildWrites
  BY <1>20 DEF ChildWrites
<1>21. CASE ChildExits
  BY <1>21 DEF ChildExits
<1>23. CASE HandlerReturns
  BY <1>23 DEF HandlerReturns
<1>24. CASE WaiterFinishes
  BY <1>24 DEF WaiterFinishes
<1>25. CASE ElderWrites \/ ElderRefused
  BY <1>25 DEF ElderWrites, ElderRefused
<1>22. CASE UNCHANGED attachStreamVars
  BY <1>22 DEF attachStreamVars
<1> QED
  BY <1>1, <1>2, <1>3, <1>4, <1>5, <1>6, <1>7, <1>8, <1>9, <1>10, <1>11, <1>12, <1>13,
     <1>14, <1>15, <1>16, <1>17, <1>18, <1>19, <1>20, <1>21, <1>22, <1>23,
     <1>24, <1>25
     DEF AttachStreamNext, PeerStep, AttachHandlerStep, ReceiverStep, ExitStep

\* WriteStdin never reports success for an input that the child's input has not accepted
\* while the child runs (client.go:329-371, service.go:219-266).
THEOREM WrittenIsDelivered == AttachStreamSpec => []WrittenMeansDelivered
<1>1. AttachInv => WrittenMeansDelivered
  BY DEF AttachInv, EndIsBehindInput, InputSettled, WrittenMeansDelivered
<1> QED
  BY AttachInvInit, AttachInvStep, <1>1, PTL DEF AttachStreamSpec
=============================================================================
