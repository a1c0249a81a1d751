------------------------ MODULE OutputPipelineProofs ------------------------
(***************************************************************************)
(* Proofs about OutputPipeline, for any bounds and capacities, any number  *)
(* of sessions and readers, with and without a pty.                        *)
(*                                                                         *)
(* The steps of captureOutput are reduced to four effects first (Quiet,    *)
(* Appended, Grabbed, Published); the invariants about rows and channels   *)
(* have one step per effect and one per other action that disturbs them.   *)
(***************************************************************************)
EXTENDS OutputPipeline, WellFoundedInduction, TLAPS

\* The types, with what they need to be inductive.
Taken == Sessions \cup {NoSession}
Held == [units : Seq(Units), seq : Nat, to : Taken]

SourceTypes ==
    /\ pty \in BOOLEAN /\ exited \in BOOLEAN /\ pipeOpen \in BOOLEAN
    /\ written \in [Sources -> 0..MaxUnits]
    /\ pipe \in [Sources -> Seq(Units)]
    /\ \A s \in Sources : Len(pipe[s]) <= PipeCap
    /\ reader \in [Sources -> {"read", "done"}]
    /\ queue \in [Sources -> Seq(Units)]
    /\ \A s \in Sources : Len(queue[s]) <= QueueCap + 1

CaptureTypes ==
    /\ pending \in [Sources -> Seq(Units)]
    /\ \A s \in Sources : Len(pending[s]) < ChunkSize
    /\ capture \in [Sources -> CapturePCs]
    /\ current \in [Sources -> Held]

StoreTypes ==
    /\ log \in Seq(Rows)
    /\ discarded \in 0..Len(log)
    /\ row \in {"running", "final", "gone"}
    /\ outSize \in Nat /\ memSize \in Nat
    /\ lost \subseteq Sources \X Units
    /\ faults \in 0..MaxFaults

DeliveryTypes ==
    /\ panicked \in BOOLEAN
    /\ waiter \in WaiterPCs
    /\ eofTo \in Taken /\ subscriber \in Taken
    /\ waiter \in {"eof_send", "close"} => eofTo \in Sessions
    /\ live \in [Sessions -> Seq(Nat)]
    /\ \A a \in Sessions : Len(live[a]) <= LiveCap
    /\ closed \subseteq Sessions
    /\ session \in [Sessions -> SessionPCs]
    /\ from \in [Sessions -> Nat]
    /\ sent \in [Sessions -> SUBSET Nat]
    /\ missed \in [Sessions -> SUBSET Nat]
    /\ reading \in [Readers -> [at : ReadPCs, upto : Nat]]
    /\ \A s \in Sources : capture[s] = "send" => current[s].to \in Sessions

Types == SourceTypes /\ CaptureTypes /\ StoreTypes /\ DeliveryTypes


\* Who is attached is known from both sides; EOF takes the subscriber once.
Attachments ==
    /\ AttachmentIsKept
    /\ subscriber # NoSession => session[subscriber] \in {"subscribed", "live", "leaving"}
    /\ waiter \in {"wait", "finish", "persist", "eof_grab"} => eofTo = NoSession

\* Between the append and the send a capture goroutine holds a row of its own source.
HeldRows ==
    \A s \in Sources :
        IF capture[s] \in {"grab", "send"}
        THEN current[s].seq \in 1..Len(log) /\ log[current[s].seq].source = s
        ELSE current[s].seq = 0

\* What is queued for a client is a row or EOF.
LiveRows ==
    \A a \in Sessions : \A i \in 1..Len(live[a]) : live[a][i] \in 0..Len(log)

\* waitForExit persists, sends EOF and closes in this order.
EndsInOrder ==
    /\ waiter \in {"eof_grab", "eof_send", "close", "done"} => row # "running" \/ faults > 0
    /\ waiter \notin {"close", "done"} =>
          \A a \in Sessions : \A i \in 1..Len(live[a]) : live[a][i] # 0
    /\ waiter # "done" => closed = {}

\* The stored size is where the next row starts.
SizeIsEnd ==
    outSize = IF log = <<>> THEN 0 ELSE log[Len(log)].offset + Len(log[Len(log)].units)

\* Every row has output, and begins where an earlier one ends or later.
RowsFollow ==
    /\ \A s \in Sources : capture[s] = "append" => Len(current[s].units) >= 1
    /\ \A n \in 1..Len(log) : /\ Len(log[n].units) >= 1
                              /\ log[n].offset + Len(log[n].units) <= outSize
    /\ \A m, n \in 1..Len(log) : m < n => log[m].offset + Len(log[m].units) <= log[n].offset

\* A live session has a first row.
StartsAtRow == \A a \in Sessions : session[a] = "live" => from[a] >= 1

\* A row still held is later than every row of its source in a client's channel.
HeldIsLast ==
    \A a \in Sessions : \A s \in Sources : \A i \in 1..Len(live[a]) :
        /\ capture[s] \in {"grab", "send"}
        /\ live[a][i] # 0 /\ log[live[a][i]].source = s
        => live[a][i] < current[s].seq

-----------------------------------------------------------------------------
(* Facts about sequences and records.                                      *)

LEMMA TypesSay == Types => TypeOK
  BY
     DEF Types, SourceTypes, CaptureTypes, StoreTypes, DeliveryTypes, TypeOK, Held,
         Taken
LEMMA SeqFacts == ASSUME NEW S, NEW q \in Seq(S), NEW e \in S
  PROVE /\ Append(q,e) \in Seq(S) /\ Len(Append(q,e)) = Len(q)+1
        /\ q # <<>> => Head(q) \in S /\ Tail(q) \in Seq(S) /\ Len(Tail(q)) = Len(q) - 1
        /\ <<>> \in Seq(S) /\ Len(q) \in Nat
  OBVIOUS
LEMMA ToSetType == ASSUME NEW S, NEW q \in Seq(S) PROVE ToSet(q) \subseteq S
  BY DEF ToSet


LEMMA HeldFacts ==
  /\ NothingHeld \in Held
  /\ \A u \in Seq(Units) : [NothingHeld EXCEPT !.units = u] \in Held
  /\ \A h \in Held :
        /\ h.units \in Seq(Units) /\ Len(h.units) \in Nat /\ h.seq \in Nat /\ h.to \in Taken
        /\ \A n \in Nat : [h EXCEPT !.seq = n] \in Held
        /\ \A a \in Taken : [h EXCEPT !.to = a] \in Held
  BY DEF Held, Taken, NothingHeld

LEMMA ChunkFacts ==
  ASSUME NEW q \in Seq(Units), Len(q) >= ChunkSize, ChunkSize \in Nat
  PROVE  /\ SubSeq(q, 1, ChunkSize) \in Seq(Units)
         /\ SubSeq(q, ChunkSize + 1, Len(q)) \in Seq(Units)
         /\ Len(SubSeq(q, ChunkSize + 1, Len(q))) = Len(q) - ChunkSize
  OBVIOUS

\* The library has no fact about Min; a set of naturals has a least member.
LEMMA Smallest ==
  ASSUME NEW S, S \subseteq Nat, S # {}
  PROVE  Min(S) \in S /\ \A n \in S : Min(S) <= n
<1> DEFINE R == {ss \in Nat \X Nat : ss[1] < ss[2]}
<1>1. IsWellFoundedOn(R, Nat)
  <2>1. OpToRel(<, Nat) = R
    BY Zenon DEF OpToRel
  <2> QED
    BY <2>1, NatLessThanWellFounded, Zenon
<1>2. \A x, y \in Nat : y < x => <<y, x>> \in R
  OBVIOUS
<1>3. PICK x \in S : \A y \in S : <<y, x>> \notin R
  BY <1>1, WFMin, Zenon
<1>4. \A y \in S : ~(y < x)
  <2> HIDE DEF R
  <2> QED
    BY <1>2, <1>3, Zenon
<1>5. \A y \in S : x <= y
  BY <1>4, x \in Nat
<1> QED
  BY <1>5 DEF Min

USE OutputAssumption

LEMMA RowFacts ==
  ASSUME NEW rows \in Seq(Rows), NEW s \in Sources, NEW u \in Seq(Units), NEW n \in Nat
  PROVE  LET new == Append(rows, [source |-> s, units |-> u, offset |-> n]) IN
         new \in Seq(Rows) /\ Len(new) = Len(rows) + 1 /\ Len(rows) \in Nat
  <1>1. [source |-> s, units |-> u, offset |-> n] \in Rows
    BY DEF Rows
  <1> QED
    BY <1>1, SeqFacts

LEMMA StoredRow ==
  ASSUME StoreTypes, NEW n \in 1..Len(log)
  PROVE  /\ log[n] \in Rows /\ log[n].source \in Sources /\ log[n].units \in Seq(Units)
         /\ log[n].offset \in Nat /\ Len(log[n].units) \in Nat
<1>1. log[n] \in Rows
  BY DEF StoreTypes
<1> QED
  BY <1>1 DEF Rows

\* Of two rows the later one begins behind the end of the earlier one.
LEMMA RowsInOrder ==
  ASSUME StoreTypes, RowsFollow, NEW m \in 1..Len(log), NEW n \in 1..Len(log), m < n
  PROVE  /\ log[m].offset < log[n].offset
         /\ log[m].offset + Len(log[m].units) <= log[n].offset
         /\ log[m].offset + Len(log[m].units) < log[n].offset + Len(log[n].units)
<1> DEFINE Begin(k) == log[k].offset
           Size(k) == Len(log[k].units)
<1>1. Begin(m) \in Nat /\ Size(m) \in Nat /\ Begin(n) \in Nat /\ Size(n) \in Nat
  BY StoredRow
<1>2. Size(m) >= 1 /\ Size(n) >= 1
  BY DEF RowsFollow
<1>3. Begin(m) + Size(m) <= Begin(n)
  BY DEF RowsFollow
<1> HIDE DEF Begin, Size
<1>4. Begin(m) < Begin(n) /\ Begin(m) + Size(m) < Begin(n) + Size(n)
  BY <1>1, <1>2, <1>3
<1> QED
  BY <1>3, <1>4 DEF Begin, Size

LEMMA FirstRow ==
  ASSUME StoreTypes, NEW o \in Nat
  PROVE  Min(Replayed(o) \cup {Len(log) + 1}) \in 1..Len(log) + 1
<1>1. Len(log) \in Nat /\ discarded \in Nat
  BY DEF StoreTypes
<1>2. Replayed(o) \cup {Len(log) + 1} \subseteq 1..Len(log) + 1
  BY <1>1 DEF Replayed
<1> QED
  BY <1>2, Smallest

\* A replay sends all rows from its first one on.
LEMMA ReplayIsSuffix ==
  ASSUME StoreTypes, RowsFollow, NEW o \in Nat
  PROVE  Replayed(o) = Min(Replayed(o) \cup {Len(log) + 1}) .. Len(log)
<1> DEFINE S == Replayed(o) \cup {Len(log) + 1}
<1>1. Len(log) \in Nat /\ discarded \in Nat
  BY DEF StoreTypes
<1>2. S \subseteq Nat
  BY <1>1 DEF Replayed
<1>3. Min(S) \in S /\ \A n \in S : Min(S) <= n
  BY <1>2, Smallest
<1>4. ASSUME NEW n \in Replayed(o) PROVE n \in Min(S)..Len(log)
  BY <1>1, <1>2, <1>3 DEF Replayed
<1>5. ASSUME NEW n \in Min(S)..Len(log) PROVE n \in Replayed(o)
  <2> DEFINE m == Min(S)
  <2>1. m \in Replayed(o) /\ n \in Nat /\ n >= m
    BY <1>1, <1>2, <1>3
  <2> HIDE DEF S, m
  <2>2. m \in 1..Len(log) /\ m > discarded /\ log[m].offset >= o
    BY <1>1, <2>1 DEF Replayed
  <2>3. n \in 1..Len(log) /\ n > discarded
    BY <1>1, <1>5, <2>1, <2>2 DEF m
  <2>4. log[n].offset \in Nat /\ log[m].offset \in Nat
    BY <2>2, <2>3, StoredRow
  <2>5. log[n].offset >= log[m].offset
    <3>1. m = n \/ m < n
      BY <2>1, <2>2, <2>3
    <3> QED
      BY <2>2, <2>3, <2>4, <3>1, RowsInOrder
  <2> QED
    BY <1>1, <2>2, <2>3, <2>4, <2>5, SMTT(30) DEF Replayed
<1> QED
  BY <1>4, <1>5

-----------------------------------------------------------------------------
(* The types, part by part; each has a step for every action that changes  *)
(* its variables.                                                          *)

LEMMA SourceTypesKept ==
  ASSUME SourceTypes, CaptureTypes, [Next]_vars
  PROVE  SourceTypes'
<1>1. ASSUME NEW s \in Sources, ProcWrite(s) PROVE SourceTypes'
  <2>1. /\ written' = [written EXCEPT ![s] = written[s] + 1]
        /\ pipe' = [pipe EXCEPT ![s] = Append(pipe[s], written'[s])]
        /\ Len(pipe[s]) < PipeCap /\ written[Stdout] + written[Stderr] < MaxUnits
        /\ UNCHANGED <<pty, exited, pipeOpen, reader, queue>>
    BY <1>1 DEF ProcWrite, feeding
  <2>2. /\ written \in [Sources -> 0..MaxUnits] /\ pipe[s] \in Seq(Units)
    BY DEF SourceTypes
  <2>3. written[s] + 1 \in 1..MaxUnits
    BY <2>1, <2>2 DEF Sources
  <2>4. written' \in [Sources -> 0..MaxUnits] /\ written'[s] \in Units
    BY <2>1, <2>2, <2>3 DEF Units
  <2>5. /\ Append(pipe[s], written'[s]) \in Seq(Units)
        /\ Len(Append(pipe[s], written'[s])) <= PipeCap
    BY <2>1, <2>2, <2>4
  <2> QED
    BY <2>1, <2>4, <2>5 DEF SourceTypes
<1>2. ASSUME NEW s \in Sources, ReaderRead(s) PROVE SourceTypes'
  <2>1. /\ pipe[s] \in Seq(Units) /\ queue[s] \in Seq(Units)
        /\ Len(pipe[s]) <= PipeCap /\ Len(queue[s]) <= QueueCap
        /\ pipe[s] # <<>>
        /\ UNCHANGED <<child, pipeOpen, reader>>
        /\ pipe' = [pipe EXCEPT ![s] = Tail(pipe[s])]
        /\ queue' = [queue EXCEPT ![s] = Append(queue[s], Head(pipe[s]))]
    BY <1>2 DEF SourceTypes, ReaderRead, ReaderFree
  <2>2. /\ Head(pipe[s]) \in Units /\ Tail(pipe[s]) \in Seq(Units)
        /\ Len(Tail(pipe[s])) <= PipeCap
    BY <2>1
  <2>3. /\ Append(queue[s], Head(pipe[s])) \in Seq(Units)
        /\ Len(Append(queue[s], Head(pipe[s]))) <= QueueCap + 1
    BY <2>1, <2>2
  <2> QED
    BY <2>1, <2>2, <2>3 DEF SourceTypes, child
<1>3. ASSUME NEW s \in Sources, ReaderEnd(s) PROVE SourceTypes'
  BY <1>3
     DEF ReaderEnd, ReaderFree, SourceTypes, Sources, Units, StartAppend, child,
         kernel, feeding, captures, store, waiting, attach, delivery, ghosts, upstream,
         stored
<1>4. ASSUME NEW s \in Sources, CaptureChunk(s) PROVE SourceTypes'
  <2>1. /\ UNCHANGED <<child, kernel, reader>>
        /\ queue[s] \in Seq(Units) /\ queue[s] # <<>> /\ Len(queue[s]) <= QueueCap + 1
        /\ queue' = [queue EXCEPT ![s] = Tail(queue[s])]
    BY <1>4 DEF SourceTypes, CaptureChunk, StartAppend
  <2>2. Tail(queue[s]) \in Seq(Units) /\ Len(Tail(queue[s])) <= QueueCap + 1
    BY <2>1
  <2> QED
    BY <2>1, <2>2 DEF SourceTypes, child, kernel
<1>5. ASSUME ProcExit PROVE SourceTypes'
  BY <1>5
     DEF ProcExit, SourceTypes, Sources, Units, StartAppend, child, kernel, feeding,
         captures, store, waiting, attach, delivery, ghosts, upstream, stored
<1>6. ASSUME WaiterReap PROVE SourceTypes'
  <2>1. /\ pipeOpen' = FALSE \/ pipeOpen' = pipeOpen
        /\ pipe' = [s \in Sources |-> <<>>] \/ pipe' = pipe
        /\ UNCHANGED <<child, reader, queue>>
    BY <1>6 DEF WaiterReap, ClosePipes, kernel, feeding, child
  <2>2. pipe' \in [Sources -> Seq(Units)] /\ \A s \in Sources : Len(pipe'[s]) <= PipeCap
    <3>1. <<>> \in Seq(Units) /\ Len(<<>>) <= PipeCap
      OBVIOUS
    <3> QED
      BY <2>1, <3>1 DEF SourceTypes
  <2> QED
    BY <2>1, <2>2 DEF SourceTypes, child
<1>7. ASSUME WaiterFinish PROVE SourceTypes'
  <2>1. /\ pipeOpen' = FALSE \/ pipeOpen' = pipeOpen
        /\ pipe' = [s \in Sources |-> <<>>] \/ pipe' = pipe
        /\ UNCHANGED <<child, reader, queue>>
    BY <1>7 DEF WaiterFinish, ClosePipes, kernel, feeding, child
  <2>2. pipe' \in [Sources -> Seq(Units)] /\ \A s \in Sources : Len(pipe'[s]) <= PipeCap
    <3>1. <<>> \in Seq(Units) /\ Len(<<>>) <= PipeCap
      OBVIOUS
    <3> QED
      BY <2>1, <3>1 DEF SourceTypes
  <2> QED
    BY <2>1, <2>2 DEF SourceTypes, child
<1>8. ASSUME NEW s \in Sources,
               CaptureFlush(s) \/ CaptureEnd(s) \/ AppendRow(s)
            \/ AppendFails(s) \/ PublishGrab(s) \/ PublishSend(s)
      PROVE  UNCHANGED <<pty, exited, pipeOpen, written, pipe, reader, queue>>
  BY <1>8
     DEF CaptureFlush, CaptureEnd, AppendRow, AppendFails, PublishGrab, PublishSend,
         StartAppend, child, kernel, feeding, upstream
<1>9. ASSUME WaiterPersist \/ EofGrab \/ EofSend
            \/ EofClose \/ DeleteJob
      PROVE  UNCHANGED <<pty, exited, pipeOpen, written, pipe, reader, queue>>
  BY <1>9
     DEF WaiterPersist, EofGrab, EofSend, EofClose, DeleteJob, child, kernel, feeding,
         upstream
<1>10. ASSUME NEW a \in Sessions,
               AttachSubscribe(a) \/ AttachBreak(a) \/ AttachReplay(a)
            \/ AttachNoRow(a) \/ AttachForward(a) \/ AttachExit(a)
            \/ AttachDetach(a)
      PROVE  UNCHANGED <<pty, exited, pipeOpen, written, pipe, reader, queue>>
  BY <1>10
     DEF AttachSubscribe, AttachBreak, AttachReplay, AttachNoRow, AttachForward,
         AttachExit, AttachDetach, child, kernel, feeding, upstream
<1>11. ASSUME NEW r \in Readers, ReadLookup(r) \/ ReadRows(r) \/ ReadDiscard(r)
      PROVE  UNCHANGED <<pty, exited, pipeOpen, written, pipe, reader, queue>>
  BY <1>11 DEF ReadLookup, ReadRows, ReadDiscard, child, kernel, feeding, upstream
<1>12. CASE UNCHANGED <<pty, exited, pipeOpen, written, pipe, reader, queue>>
  BY <1>12
     DEF SourceTypes, Sources, Units, StartAppend, child, kernel, feeding, captures,
         store, waiting, attach, delivery, ghosts, upstream, stored
<1>13. CASE UNCHANGED vars
  BY <1>12, <1>13 DEF vars, child, kernel, feeding, upstream
<1> QED
  BY <1>1, <1>2, <1>3, <1>4, <1>5, <1>6, <1>7, <1>8, <1>9, <1>10, <1>11, <1>12, <1>13
     DEF Next, ReaderStep, CaptureStep, WaiterStep, SessionStep, Client, ReadStep

LEMMA CaptureTypesKept ==
  ASSUME Types, [Next]_vars
  PROVE  CaptureTypes'
<1>1. ASSUME NEW s \in Sources, CaptureChunk(s) PROVE CaptureTypes'
  <2> DEFINE all == Append(pending[s], Head(queue[s]))
  <2>1. /\ queue[s] \in Seq(Units) /\ queue[s] # <<>>
        /\ pending[s] \in Seq(Units) /\ Len(pending[s]) < ChunkSize
        /\ capture \in [Sources -> CapturePCs] /\ current \in [Sources -> Held]
    BY <1>1 DEF Types, SourceTypes, CaptureTypes, CaptureChunk
  <2>2. all \in Seq(Units) /\ Len(all) <= ChunkSize
    BY <2>1
  <2>3. CASE Len(all) >= ChunkSize
    <3> DEFINE rest == SubSeq(all, ChunkSize + 1, Len(all))
               data == SubSeq(all, 1, ChunkSize)
    <3>1. rest \in Seq(Units) /\ Len(rest) < ChunkSize /\ data \in Seq(Units)
      BY <2>2, <2>3, ChunkFacts
    <3>2. StartAppend(s, data, rest)
      BY <1>1, <2>3 DEF CaptureChunk
    <3> HIDE DEF all, rest, data
    <3> QED
      BY <2>1, <3>1, <3>2, HeldFacts DEF StartAppend, Types, CaptureTypes, CapturePCs
  <2>4. CASE ~(Len(all) >= ChunkSize)
    <3>1. pending' = [pending EXCEPT ![s] = all] /\ UNCHANGED <<capture, current>>
      BY <1>1, <2>4 DEF CaptureChunk
    <3> HIDE DEF all
    <3>2. Len(all) < ChunkSize
      BY <2>2, <2>4
    <3> QED
      BY <2>1, <2>2, <3>1, <3>2 DEF Types, CaptureTypes
  <2> QED
    BY <2>3, <2>4
<1>2. ASSUME NEW s \in Sources, CaptureFlush(s) PROVE CaptureTypes'
  <2>1. pending[s] \in Seq(Units) /\ <<>> \in Seq(Units) /\ Len(<<>>) < ChunkSize
    BY DEF Types, CaptureTypes
  <2>2. StartAppend(s, pending[s], <<>>)
    BY <1>2 DEF CaptureFlush
  <2> QED
    BY <2>1, <2>2, HeldFacts DEF StartAppend, Types, CaptureTypes, CapturePCs
<1>3. ASSUME NEW s \in Sources, CaptureEnd(s) PROVE CaptureTypes'
  BY <1>3
     DEF CaptureEnd, Types, SourceTypes, CaptureTypes, StoreTypes, DeliveryTypes,
         CapturePCs, Held, Taken, NothingHeld, child, kernel, feeding, captures, store,
         waiting, attach, delivery, ghosts, upstream, stored
<1>4. ASSUME NEW s \in Sources, AppendRow(s) PROVE CaptureTypes'
  <2>1. /\ UNCHANGED pending
        /\ capture' = [capture EXCEPT ![s] = "grab"]
        /\ log' = Append(log, [source |-> s, units |-> current[s].units, offset |-> outSize])
        /\ current' = [current EXCEPT ![s].seq = Len(log')]
    BY <1>4 DEF AppendRow
  <2>2. current[s] \in Held /\ log \in Seq(Rows)
    BY DEF Types, CaptureTypes, StoreTypes
  <2>3. Len(log') \in Nat
    BY <2>1, <2>2, RowFacts DEF Types, StoreTypes
  <2>4. [current[s] EXCEPT !.seq = Len(log')] \in Held
    BY <2>2, <2>3, HeldFacts
  <2> QED
    BY <2>1, <2>4 DEF Types, CaptureTypes, CapturePCs
<1>5. ASSUME NEW s \in Sources, AppendFails(s) PROVE CaptureTypes'
  <2>1. /\ UNCHANGED pending
        /\ capture' = [capture EXCEPT ![s] = "select"]
        /\ current' = [current EXCEPT ![s] = NothingHeld]
    BY <1>5 DEF AppendFails
  <2> QED
    BY <2>1, HeldFacts DEF Types, CaptureTypes, CapturePCs
<1>6. ASSUME NEW s \in Sources, PublishGrab(s) PROVE CaptureTypes'
  <2>1. CASE subscriber = NoSession
    BY <1>6, <2>1, HeldFacts DEF PublishGrab, Types, CaptureTypes, CapturePCs
  <2>2. CASE subscriber # NoSession
    <3>1. /\ UNCHANGED pending
          /\ capture' = [capture EXCEPT ![s] = "send"]
          /\ current' = [current EXCEPT ![s].to = subscriber]
      BY <1>6, <2>2 DEF PublishGrab
    <3>2. [current[s] EXCEPT !.to = subscriber] \in Held
      BY HeldFacts DEF Types, CaptureTypes, DeliveryTypes
    <3> QED
      BY <3>1, <3>2 DEF Types, CaptureTypes, CapturePCs
  <2> QED
    BY <2>1, <2>2
<1>7. ASSUME NEW s \in Sources, PublishSend(s) PROVE CaptureTypes'
  <2>1. /\ UNCHANGED pending
        /\ capture' = [capture EXCEPT ![s] = "select"]
        /\ current' = [current EXCEPT ![s] = NothingHeld]
    BY <1>7 DEF PublishSend
  <2> QED
    BY <2>1, HeldFacts DEF Types, CaptureTypes, CapturePCs
<1>8. ASSUME NEW s \in Sources, ProcWrite(s) \/ ReaderRead(s) \/ ReaderEnd(s)
      PROVE  UNCHANGED <<pending, capture, current>>
  BY <1>8 DEF ProcWrite, ReaderRead, ReaderEnd, captures
<1>9. ASSUME ProcExit \/ WaiterReap \/ WaiterFinish
            \/ WaiterPersist \/ EofGrab \/ EofSend
            \/ EofClose \/ DeleteJob
      PROVE  UNCHANGED <<pending, capture, current>>
  BY <1>9
     DEF ProcExit, WaiterReap, WaiterFinish, WaiterPersist, EofGrab, EofSend, EofClose,
         DeleteJob, captures
<1>10. ASSUME NEW a \in Sessions,
               AttachSubscribe(a) \/ AttachBreak(a) \/ AttachReplay(a)
            \/ AttachNoRow(a) \/ AttachForward(a) \/ AttachExit(a)
            \/ AttachDetach(a)
      PROVE  UNCHANGED <<pending, capture, current>>
  BY <1>10
     DEF AttachSubscribe, AttachBreak, AttachReplay, AttachNoRow, AttachForward,
         AttachExit, AttachDetach, captures
<1>11. ASSUME NEW r \in Readers, ReadLookup(r) \/ ReadRows(r) \/ ReadDiscard(r)
      PROVE  UNCHANGED <<pending, capture, current>>
  BY <1>11 DEF ReadLookup, ReadRows, ReadDiscard, captures
<1>12. CASE UNCHANGED <<pending, capture, current>>
  BY <1>12
     DEF Types, SourceTypes, CaptureTypes, StoreTypes, DeliveryTypes, CapturePCs, Held,
         Taken, NothingHeld, child, kernel, feeding, captures, store, waiting, attach,
         delivery, ghosts, upstream, stored
<1>13. CASE UNCHANGED vars
  BY <1>12, <1>13 DEF vars, captures
<1> QED
  BY <1>1, <1>2, <1>3, <1>4, <1>5, <1>6, <1>7, <1>8, <1>9, <1>10, <1>11, <1>12, <1>13
     DEF Next, ReaderStep, CaptureStep, WaiterStep, SessionStep, Client, ReadStep

LEMMA StoreTypesKept ==
  ASSUME Types, [Next]_vars
  PROVE  StoreTypes'
<1>1. ASSUME NEW s \in Sources, AppendRow(s) PROVE StoreTypes'
  <2>1. /\ log' = Append(log, [source |-> s, units |-> current[s].units, offset |-> outSize])
        /\ outSize' = outSize + Len(current[s].units)
        /\ UNCHANGED <<discarded, row, memSize, ghosts>>
    BY <1>1 DEF AppendRow
  <2>2. current[s].units \in Seq(Units) /\ Len(current[s].units) \in Nat
    BY HeldFacts DEF Types, CaptureTypes
  <2>3. log' \in Seq(Rows) /\ Len(log') = Len(log) + 1 /\ Len(log) \in Nat
    BY <2>1, <2>2, RowFacts DEF Types, StoreTypes
  <2>4. discarded' \in 0..Len(log')
    BY <2>1, <2>3 DEF Types, StoreTypes
  <2>5. outSize' \in Nat
    BY <2>1, <2>2 DEF Types, StoreTypes
  <2> QED
    BY <2>1, <2>3, <2>4, <2>5 DEF Types, StoreTypes, ghosts
<1>2. ASSUME NEW s \in Sources, AppendFails(s) PROVE StoreTypes'
  <2>1. /\ lost' = lost \cup ({s} \X ToSet(current[s].units))
        /\ faults' = faults \/ (faults < MaxFaults /\ faults' = faults + 1)
        /\ UNCHANGED <<log, discarded, row, outSize, memSize>>
    BY <1>2 DEF AppendFails, stored, store
  <2>2. ToSet(current[s].units) \subseteq Units
    BY HeldFacts, ToSetType DEF Types, CaptureTypes
  <2> QED
    BY <2>1, <2>2 DEF Types, StoreTypes
<1>3. ASSUME NEW s \in Sources, PublishGrab(s) PROVE StoreTypes'
  <2>1. memSize' = memSize + Len(current[s].units) /\ UNCHANGED <<store, ghosts>>
    BY <1>3 DEF PublishGrab
  <2>2. Len(current[s].units) \in Nat
    BY HeldFacts DEF Types, CaptureTypes
  <2> QED
    BY <2>1, <2>2 DEF Types, StoreTypes, store, ghosts
<1>4. ASSUME WaiterReap PROVE StoreTypes'
  <2>1. /\ lost' = lost \/ lost' = lost \cup InPipes
        /\ UNCHANGED <<log, discarded, row, outSize, memSize, faults>>
    BY <1>4 DEF WaiterReap, ClosePipes, stored, store
  <2>2. InPipes \subseteq Sources \X Units
    BY ToSetType DEF InPipes, Types, SourceTypes
  <2> QED
    BY <2>1, <2>2 DEF Types, StoreTypes
<1>5. ASSUME WaiterFinish PROVE StoreTypes'
  <2>1. /\ lost' = lost \/ lost' = lost \cup InPipes
        /\ UNCHANGED <<log, discarded, row, outSize, memSize, faults>>
    BY <1>5 DEF WaiterFinish, ClosePipes, stored, store
  <2>2. InPipes \subseteq Sources \X Units
    BY ToSetType DEF InPipes, Types, SourceTypes
  <2> QED
    BY <2>1, <2>2 DEF Types, StoreTypes
<1>6. ASSUME WaiterPersist PROVE StoreTypes'
  BY <1>6
     DEF WaiterPersist, Types, StoreTypes, child, kernel, feeding, captures, store,
         waiting, attach, delivery, ghosts, upstream, stored
<1>7. ASSUME NEW r \in Readers, ReadDiscard(r) PROVE StoreTypes'
  BY <1>7
     DEF ReadDiscard, Types, StoreTypes, child, kernel, feeding, captures, store,
         waiting, attach, delivery, ghosts, upstream, stored
<1>8. ASSUME DeleteJob PROVE StoreTypes'
  BY <1>8
     DEF DeleteJob, Types, StoreTypes, child, kernel, feeding, captures, store,
         waiting, attach, delivery, ghosts, upstream, stored
<1>9. ASSUME NEW s \in Sources,
               ProcWrite(s) \/ ReaderRead(s) \/ ReaderEnd(s)
            \/ CaptureChunk(s) \/ CaptureFlush(s) \/ CaptureEnd(s)
            \/ PublishSend(s)
      PROVE  UNCHANGED <<log, discarded, row, outSize, memSize, lost, faults>>
  BY <1>9
     DEF ProcWrite, ReaderRead, ReaderEnd, CaptureChunk, CaptureFlush, CaptureEnd,
         PublishSend, StartAppend, store, stored, ghosts
<1>10. ASSUME ProcExit \/ EofGrab \/ EofSend
            \/ EofClose
      PROVE  UNCHANGED <<log, discarded, row, outSize, memSize, lost, faults>>
  BY <1>10 DEF ProcExit, EofGrab, EofSend, EofClose, store, stored, ghosts
<1>11. ASSUME NEW a \in Sessions,
               AttachSubscribe(a) \/ AttachBreak(a) \/ AttachReplay(a)
            \/ AttachNoRow(a) \/ AttachForward(a) \/ AttachExit(a)
            \/ AttachDetach(a)
      PROVE  UNCHANGED <<log, discarded, row, outSize, memSize, lost, faults>>
  BY <1>11
     DEF AttachSubscribe, AttachBreak, AttachReplay, AttachNoRow, AttachForward,
         AttachExit, AttachDetach, store, stored, ghosts
<1>12. ASSUME NEW r \in Readers, ReadLookup(r) \/ ReadRows(r)
      PROVE  UNCHANGED <<log, discarded, row, outSize, memSize, lost, faults>>
  BY <1>12 DEF ReadLookup, ReadRows, store, stored, ghosts
<1>13. CASE UNCHANGED <<log, discarded, row, outSize, memSize, lost, faults>>
  BY <1>13
     DEF Types, StoreTypes, child, kernel, feeding, captures, store, waiting, attach,
         delivery, ghosts, upstream, stored
<1>14. CASE UNCHANGED vars
  BY <1>13, <1>14 DEF vars, store, stored, ghosts
<1> QED
  BY <1>1, <1>2, <1>3, <1>4, <1>5, <1>6, <1>7, <1>8, <1>9, <1>10, <1>11, <1>12, <1>13,
     <1>14
     DEF Next, ReaderStep, CaptureStep, WaiterStep, SessionStep, Client, ReadStep

LEMMA DeliveryTypesKept ==
  ASSUME Types, [Next]_vars
  PROVE  DeliveryTypes'
<1>1. ASSUME NEW s \in Sources, CaptureChunk(s) PROVE DeliveryTypes'
  <2>1. UNCHANGED <<panicked, waiting, delivery, reading>>
    BY <1>1 DEF CaptureChunk, StartAppend
  <2>2. \A t \in Sources : capture'[t] = "send" => current'[t].to \in Sessions
    BY <1>1 DEF CaptureChunk, StartAppend, Types, CaptureTypes, DeliveryTypes
  <2> QED
    BY <2>1, <2>2 DEF Types, DeliveryTypes, waiting, delivery, attach
<1>2. ASSUME NEW s \in Sources, CaptureFlush(s) PROVE DeliveryTypes'
  <2>1. UNCHANGED <<panicked, waiting, delivery, reading>>
    BY <1>2 DEF CaptureFlush, StartAppend
  <2>2. \A t \in Sources : capture'[t] = "send" => current'[t].to \in Sessions
    BY <1>2 DEF CaptureFlush, StartAppend, Types, CaptureTypes, DeliveryTypes
  <2> QED
    BY <2>1, <2>2 DEF Types, DeliveryTypes, waiting, delivery, attach
<1>3. ASSUME NEW s \in Sources, CaptureEnd(s) PROVE DeliveryTypes'
  <2>1. UNCHANGED <<panicked, waiting, delivery, reading>>
    BY <1>3 DEF CaptureEnd, StartAppend
  <2>2. \A t \in Sources : capture'[t] = "send" => current'[t].to \in Sessions
    BY <1>3 DEF CaptureEnd, StartAppend, Types, CaptureTypes, DeliveryTypes
  <2> QED
    BY <2>1, <2>2 DEF Types, DeliveryTypes, waiting, delivery, attach
<1>4. ASSUME NEW s \in Sources, AppendRow(s) PROVE DeliveryTypes'
  <2>1. UNCHANGED <<panicked, waiting, delivery, reading>>
    BY <1>4 DEF AppendRow, StartAppend
  <2>2. \A t \in Sources : capture'[t] = "send" => current'[t].to \in Sessions
    BY <1>4 DEF AppendRow, StartAppend, Types, CaptureTypes, DeliveryTypes
  <2> QED
    BY <2>1, <2>2 DEF Types, DeliveryTypes, waiting, delivery, attach
<1>5. ASSUME NEW s \in Sources, AppendFails(s) PROVE DeliveryTypes'
  <2>1. UNCHANGED <<panicked, waiting, delivery, reading>>
    BY <1>5 DEF AppendFails, StartAppend
  <2>2. \A t \in Sources : capture'[t] = "send" => current'[t].to \in Sessions
    BY <1>5 DEF AppendFails, StartAppend, Types, CaptureTypes, DeliveryTypes
  <2> QED
    BY <2>1, <2>2 DEF Types, DeliveryTypes, waiting, delivery, attach
<1>6. ASSUME NEW s \in Sources, PublishGrab(s) PROVE DeliveryTypes'
  <2>1. UNCHANGED <<panicked, waiting, delivery, reading>>
    BY <1>6 DEF PublishGrab
  <2>2. \A t \in Sources : capture'[t] = "send" => current'[t].to \in Sessions
    <3>1. CASE subscriber = NoSession
      BY <1>6, <3>1 DEF PublishGrab, Types, CaptureTypes, DeliveryTypes
    <3>2. CASE subscriber # NoSession
      <4>1. subscriber \in Sessions /\ current' = [current EXCEPT ![s].to = subscriber]
            /\ capture' = [capture EXCEPT ![s] = "send"]
        BY <1>6, <3>2 DEF PublishGrab, Types, DeliveryTypes, Taken
      <4>2. current'[s].to = subscriber /\ \A t \in Sources \ {s} : current'[t] = current[t]
        BY <4>1 DEF Types, CaptureTypes, Held
      <4> QED
        BY <4>1, <4>2 DEF Types, CaptureTypes, DeliveryTypes
    <3> QED
      BY <3>1, <3>2
  <2> QED
    BY <2>1, <2>2 DEF Types, DeliveryTypes, waiting, delivery, attach
<1>7. ASSUME NEW s \in Sources, PublishSend(s) PROVE DeliveryTypes'
  <2> DEFINE a == current[s].to
  <2>1. /\ a \in Sessions /\ current[s].seq \in Nat
        /\ live[a] \in Seq(Nat) /\ missed[a] \subseteq Nat
    BY <1>7 DEF PublishSend, Types, CaptureTypes, DeliveryTypes, Held
  <2>2. /\ Append(live[a], current[s].seq) \in Seq(Nat)
        /\ Len(Append(live[a], current[s].seq)) = Len(live[a]) + 1
        /\ missed[a] \cup {current[s].seq} \in SUBSET Nat
    BY <2>1, SeqFacts
  <2>3. /\ panicked' \in BOOLEAN
        /\ \/ /\ Len(live[a]) < LiveCap /\ UNCHANGED missed
              /\ live' = [live EXCEPT ![a] = Append(live[a], current[s].seq)]
           \/ /\ UNCHANGED live
              /\ missed' = [missed EXCEPT ![a] = missed[a] \cup {current[s].seq}]
        /\ current' = [current EXCEPT ![s] = NothingHeld]
        /\ capture' = [capture EXCEPT ![s] = "select"]
        /\ UNCHANGED <<waiting, subscriber, closed, attach, reading>>
    BY <1>7 DEF PublishSend
  <2>4. \A t \in Sources : capture'[t] = "send" => current'[t].to \in Sessions
    BY <2>3 DEF Types, CaptureTypes, DeliveryTypes
  <2>5. missed' \in [Sessions -> SUBSET Nat]
    BY <2>2, <2>3 DEF Types, DeliveryTypes
  <2>6. live' \in [Sessions -> Seq(Nat)] /\ \A b \in Sessions : Len(live'[b]) <= LiveCap
    <3> HIDE DEF a
    <3>1. live \in [Sessions -> Seq(Nat)] /\ \A b \in Sessions : Len(live[b]) <= LiveCap /\ Len(live[b]) \in Nat
      BY DEF Types, DeliveryTypes
    <3>2. CASE live' = live
      BY <3>1, <3>2
    <3>3. CASE Len(live[a]) < LiveCap /\ live' = [live EXCEPT ![a] = Append(live[a], current[s].seq)]
      <4>1. \A b \in Sessions : live'[b] = IF b = a THEN Append(live[a], current[s].seq) ELSE live[b]
        BY <2>1, <3>1, <3>3
      <4>2. Len(Append(live[a], current[s].seq)) <= LiveCap
        BY <2>1, <2>2, <3>1, <3>3
      <4> QED
        BY <2>1, <2>2, <3>1, <3>3, <4>1, <4>2
    <3> QED
      BY <2>3, <3>2, <3>3
  <2> QED
    BY <2>3, <2>4, <2>5, <2>6 DEF Types, DeliveryTypes, waiting, attach
<1>8. ASSUME WaiterReap PROVE DeliveryTypes'
  BY <1>8
     DEF WaiterReap, ClosePipes, InPipes, Types, CaptureTypes, StoreTypes,
         DeliveryTypes, CapturePCs, Held, Taken, NothingHeld, SessionPCs, WaiterPCs,
         ReadPCs, child, kernel, feeding, captures, store, waiting, attach, delivery,
         ghosts, upstream, stored
<1>9. ASSUME WaiterFinish PROVE DeliveryTypes'
  BY <1>9
     DEF WaiterFinish, ClosePipes, InPipes, Types, CaptureTypes, StoreTypes,
         DeliveryTypes, CapturePCs, Held, Taken, NothingHeld, SessionPCs, WaiterPCs,
         ReadPCs, child, kernel, feeding, captures, store, waiting, attach, delivery,
         ghosts, upstream, stored
<1>10. ASSUME WaiterPersist PROVE DeliveryTypes'
  BY <1>10
     DEF WaiterPersist, Types, CaptureTypes, StoreTypes, DeliveryTypes, CapturePCs,
         Held, Taken, NothingHeld, SessionPCs, WaiterPCs, ReadPCs, child, kernel,
         feeding, captures, store, waiting, attach, delivery, ghosts, upstream, stored
<1>11. ASSUME EofGrab PROVE DeliveryTypes'
  BY <1>11
     DEF EofGrab, Types, CaptureTypes, StoreTypes, DeliveryTypes, CapturePCs, Held,
         Taken, NothingHeld, SessionPCs, WaiterPCs, ReadPCs, child, kernel, feeding,
         captures, store, waiting, attach, delivery, ghosts, upstream, stored
<1>12. ASSUME EofSend PROVE DeliveryTypes'
  BY <1>12
     DEF EofSend, Types, CaptureTypes, StoreTypes, DeliveryTypes, CapturePCs, Held,
         Taken, NothingHeld, SessionPCs, WaiterPCs, ReadPCs, child, kernel, feeding,
         captures, store, waiting, attach, delivery, ghosts, upstream, stored
<1>13. ASSUME EofClose PROVE DeliveryTypes'
  BY <1>13
     DEF EofClose, Types, CaptureTypes, StoreTypes, DeliveryTypes, CapturePCs, Held,
         Taken, NothingHeld, SessionPCs, WaiterPCs, ReadPCs, child, kernel, feeding,
         captures, store, waiting, attach, delivery, ghosts, upstream, stored
<1>14. ASSUME NEW a \in Sessions, AttachSubscribe(a) PROVE DeliveryTypes'
  BY <1>14
     DEF AttachSubscribe, Types, CaptureTypes, StoreTypes, DeliveryTypes, CapturePCs,
         Held, Taken, NothingHeld, SessionPCs, WaiterPCs, ReadPCs, child, kernel,
         feeding, captures, store, waiting, attach, delivery, ghosts, upstream, stored
<1>15. ASSUME NEW a \in Sessions, AttachBreak(a) PROVE DeliveryTypes'
  BY <1>15
     DEF AttachBreak, Types, CaptureTypes, StoreTypes, DeliveryTypes, CapturePCs, Held,
         Taken, NothingHeld, SessionPCs, WaiterPCs, ReadPCs, child, kernel, feeding,
         captures, store, waiting, attach, delivery, ghosts, upstream, stored
<1>16. ASSUME NEW a \in Sessions, AttachReplay(a) PROVE DeliveryTypes'
  <2>1. /\ session' = [session EXCEPT ![a] = "live"]
        /\ UNCHANGED <<captures, waiting, subscriber, live, closed, missed, reading, panicked>>
    BY <1>16 DEF AttachReplay
  <2>2. /\ Len(log) \in Nat /\ discarded \in Nat /\ outSize \in Nat
        /\ from \in [Sessions -> Nat] /\ sent \in [Sessions -> SUBSET Nat]
    BY DEF Types, StoreTypes, DeliveryTypes
  <2>3. from' \in [Sessions -> Nat] /\ sent' \in [Sessions -> SUBSET Nat]
    <3>1. CASE from' = [from EXCEPT ![a] = Len(log) + 1] /\ UNCHANGED sent
      BY <2>2, <3>1
    <3>2. ASSUME NEW o \in 0..outSize,
                 from' = [from EXCEPT ![a] = Min(Replayed(o) \cup {Len(log) + 1})],
                 sent' = [sent EXCEPT ![a] = Replayed(o)]
          PROVE  from' \in [Sessions -> Nat] /\ sent' \in [Sessions -> SUBSET Nat]
      <4>1. Min(Replayed(o) \cup {Len(log) + 1}) \in Nat
        BY <2>2, FirstRow DEF Types
      <4>2. Replayed(o) \subseteq Nat
        BY <2>2 DEF Replayed
      <4> QED
        BY <2>2, <3>2, <4>1, <4>2
    <3> QED
      BY <1>16, <3>1, <3>2 DEF AttachReplay
  <2>4. session' \in [Sessions -> SessionPCs]
    BY <2>1 DEF Types, DeliveryTypes, SessionPCs
  <2> QED
    BY <2>1, <2>3, <2>4 DEF Types, DeliveryTypes, waiting, captures
<1>17. ASSUME NEW a \in Sessions, AttachNoRow(a) PROVE DeliveryTypes'
  BY <1>17
     DEF AttachNoRow, Types, CaptureTypes, StoreTypes, DeliveryTypes, CapturePCs, Held,
         Taken, NothingHeld, SessionPCs, WaiterPCs, ReadPCs, child, kernel, feeding,
         captures, store, waiting, attach, delivery, ghosts, upstream, stored
<1>18. ASSUME NEW a \in Sessions, AttachForward(a) PROVE DeliveryTypes'
  <2>1. /\ live[a] # <<>>
        /\ live' = [live EXCEPT ![a] = Tail(live[a])]
        /\ sent' = [sent EXCEPT ![a] = sent[a] \cup {Head(live[a])}]
        /\ UNCHANGED <<captures, waiting, subscriber, closed, session, from, missed,
                       reading, panicked>>
    BY <1>18 DEF AttachForward
  <2>2. live[a] \in Seq(Nat) /\ sent[a] \in SUBSET Nat /\ Len(live[a]) <= LiveCap
    BY DEF Types, DeliveryTypes
  <2>3. /\ Head(live[a]) \in Nat /\ Tail(live[a]) \in Seq(Nat)
        /\ Len(Tail(live[a])) <= LiveCap
    BY <2>1, <2>2
  <2>4. sent' \in [Sessions -> SUBSET Nat]
    BY <2>1, <2>2, <2>3 DEF Types, DeliveryTypes
  <2>5. live' \in [Sessions -> Seq(Nat)] /\ \A b \in Sessions : Len(live'[b]) <= LiveCap
    BY <2>1, <2>3 DEF Types, DeliveryTypes
  <2> QED
    BY <2>1, <2>4, <2>5 DEF Types, DeliveryTypes, waiting, captures
<1>19. ASSUME NEW a \in Sessions, AttachExit(a) PROVE DeliveryTypes'
  BY <1>19
     DEF AttachExit, Types, CaptureTypes, StoreTypes, DeliveryTypes, CapturePCs, Held,
         Taken, NothingHeld, SessionPCs, WaiterPCs, ReadPCs, child, kernel, feeding,
         captures, store, waiting, attach, delivery, ghosts, upstream, stored
<1>20. ASSUME NEW a \in Sessions, AttachDetach(a) PROVE DeliveryTypes'
  BY <1>20
     DEF AttachDetach, Types, CaptureTypes, StoreTypes, DeliveryTypes, CapturePCs,
         Held, Taken, NothingHeld, SessionPCs, WaiterPCs, ReadPCs, child, kernel,
         feeding, captures, store, waiting, attach, delivery, ghosts, upstream, stored
<1>21. ASSUME NEW r \in Readers, ReadLookup(r) PROVE DeliveryTypes'
  <2>1. UNCHANGED <<panicked, waiting, delivery, capture, current>>
    BY <1>21 DEF ReadLookup, captures
  <2>2. reading' \in [Readers -> [at : ReadPCs, upto : Nat]]
    BY <1>21 DEF ReadLookup, Types, StoreTypes, DeliveryTypes, ReadPCs
  <2> QED
    BY <2>1, <2>2 DEF Types, DeliveryTypes, waiting, delivery, attach
<1>22. ASSUME NEW r \in Readers, ReadRows(r) PROVE DeliveryTypes'
  <2>1. UNCHANGED <<panicked, waiting, delivery, capture, current>>
    BY <1>22 DEF ReadRows, captures
  <2>2. reading' \in [Readers -> [at : ReadPCs, upto : Nat]]
    BY <1>22 DEF ReadRows, Types, StoreTypes, DeliveryTypes, ReadPCs
  <2> QED
    BY <2>1, <2>2 DEF Types, DeliveryTypes, waiting, delivery, attach
<1>23. ASSUME NEW r \in Readers, ReadDiscard(r) PROVE DeliveryTypes'
  <2>1. UNCHANGED <<panicked, waiting, delivery, capture, current>>
    BY <1>23 DEF ReadDiscard, captures
  <2>2. reading' \in [Readers -> [at : ReadPCs, upto : Nat]]
    BY <1>23 DEF ReadDiscard, Types, StoreTypes, DeliveryTypes, ReadPCs
  <2> QED
    BY <2>1, <2>2 DEF Types, DeliveryTypes, waiting, delivery, attach
<1>24. ASSUME NEW s \in Sources, ProcWrite(s) \/ ReaderRead(s) \/ ReaderEnd(s)
      PROVE  UNCHANGED <<panicked, waiting, delivery, reading, capture, current>>
  BY <1>24 DEF ProcWrite, ReaderRead, ReaderEnd, captures, waiting, attach, delivery
<1>25. ASSUME ProcExit \/ DeleteJob
      PROVE  UNCHANGED <<panicked, waiting, delivery, reading, capture, current>>
  BY <1>25 DEF ProcExit, DeleteJob, captures, waiting, attach, delivery
<1>26. CASE UNCHANGED <<panicked, waiting, delivery, reading, capture, current>>
  BY <1>26
     DEF Types, CaptureTypes, StoreTypes, DeliveryTypes, CapturePCs, Held, Taken,
         NothingHeld, SessionPCs, WaiterPCs, ReadPCs, child, kernel, feeding, captures,
         store, waiting, attach, delivery, ghosts, upstream, stored
<1>27. CASE UNCHANGED vars
  BY <1>26, <1>27 DEF vars, captures, waiting, attach, delivery
<1> QED
  BY <1>1, <1>2, <1>3, <1>4, <1>5, <1>6, <1>7, <1>8, <1>9, <1>10, <1>11, <1>12, <1>13,
     <1>14, <1>15, <1>16, <1>17, <1>18, <1>19, <1>20, <1>21, <1>22, <1>23, <1>24,
     <1>25, <1>26, <1>27
     DEF Next, ReaderStep, CaptureStep, WaiterStep, SessionStep, Client, ReadStep

\* A new subscriber needs the place free, and a detach frees only its own.
LEMMA AttachmentsKept ==
  ASSUME Types, Attachments, [Next]_vars
  PROVE  Attachments'
<1>1. ASSUME WaiterReap PROVE Attachments'
  BY <1>1
     DEF WaiterReap, ClosePipes, InPipes, Types, DeliveryTypes, Attachments,
         AttachmentIsKept, SessionPCs, WaiterPCs, Taken, waiting, delivery, attach
<1>2. ASSUME WaiterFinish PROVE Attachments'
  BY <1>2
     DEF WaiterFinish, ClosePipes, InPipes, Types, DeliveryTypes, Attachments,
         AttachmentIsKept, SessionPCs, WaiterPCs, Taken, waiting, delivery, attach
<1>3. ASSUME WaiterPersist PROVE Attachments'
  BY <1>3
     DEF WaiterPersist, Types, DeliveryTypes, Attachments, AttachmentIsKept,
         SessionPCs, WaiterPCs, Taken, waiting, delivery, attach
<1>4. ASSUME EofGrab PROVE Attachments'
  BY <1>4
     DEF EofGrab, Types, DeliveryTypes, Attachments, AttachmentIsKept, SessionPCs,
         WaiterPCs, Taken, waiting, delivery, attach
<1>5. ASSUME EofSend PROVE Attachments'
  BY <1>5
     DEF EofSend, Types, DeliveryTypes, Attachments, AttachmentIsKept, SessionPCs,
         WaiterPCs, Taken, waiting, delivery, attach
<1>6. ASSUME EofClose PROVE Attachments'
  BY <1>6
     DEF EofClose, Types, DeliveryTypes, Attachments, AttachmentIsKept, SessionPCs,
         WaiterPCs, Taken, waiting, delivery, attach
<1>7. ASSUME NEW a \in Sessions, AttachSubscribe(a) PROVE Attachments'
  BY <1>7
     DEF AttachSubscribe, Types, DeliveryTypes, Attachments, AttachmentIsKept,
         SessionPCs, WaiterPCs, Taken, waiting, delivery, attach
<1>8. ASSUME NEW a \in Sessions, AttachBreak(a) PROVE Attachments'
  BY <1>8
     DEF AttachBreak, Types, DeliveryTypes, Attachments, AttachmentIsKept, SessionPCs,
         WaiterPCs, Taken, waiting, delivery, attach
<1>9. ASSUME NEW a \in Sessions, AttachReplay(a) PROVE Attachments'
  BY <1>9
     DEF AttachReplay, Types, DeliveryTypes, Attachments, AttachmentIsKept, SessionPCs,
         WaiterPCs, Taken, waiting, delivery, attach
<1>10. ASSUME NEW a \in Sessions, AttachNoRow(a) PROVE Attachments'
  BY <1>10
     DEF AttachNoRow, Types, DeliveryTypes, Attachments, AttachmentIsKept, SessionPCs,
         WaiterPCs, Taken, waiting, delivery, attach
<1>11. ASSUME NEW a \in Sessions, AttachExit(a) PROVE Attachments'
  BY <1>11
     DEF AttachExit, Types, DeliveryTypes, Attachments, AttachmentIsKept, SessionPCs,
         WaiterPCs, Taken, waiting, delivery, attach
<1>12. ASSUME NEW a \in Sessions, AttachDetach(a) PROVE Attachments'
  BY <1>12
     DEF AttachDetach, Types, DeliveryTypes, Attachments, AttachmentIsKept, SessionPCs,
         WaiterPCs, Taken, waiting, delivery, attach
<1>13. ASSUME NEW s \in Sources,
               ProcWrite(s) \/ ReaderRead(s) \/ ReaderEnd(s)
            \/ CaptureChunk(s) \/ CaptureFlush(s) \/ CaptureEnd(s)
            \/ AppendRow(s) \/ AppendFails(s) \/ PublishGrab(s)
            \/ PublishSend(s)
      PROVE  UNCHANGED <<waiting, subscriber, session, closed>>
  BY <1>13
     DEF ProcWrite, ReaderRead, ReaderEnd, CaptureChunk, CaptureFlush, CaptureEnd,
         AppendRow, AppendFails, PublishGrab, PublishSend, StartAppend, waiting,
         attach, delivery
<1>14. ASSUME ProcExit \/ DeleteJob
      PROVE  UNCHANGED <<waiting, subscriber, session, closed>>
  BY <1>14 DEF ProcExit, DeleteJob, waiting, attach, delivery
<1>15. ASSUME NEW a \in Sessions, AttachForward(a)
      PROVE  UNCHANGED <<waiting, subscriber, session, closed>>
  BY <1>15 DEF AttachForward, waiting, attach, delivery
<1>16. ASSUME NEW r \in Readers, ReadLookup(r) \/ ReadRows(r) \/ ReadDiscard(r)
      PROVE  UNCHANGED <<waiting, subscriber, session, closed>>
  BY <1>16 DEF ReadLookup, ReadRows, ReadDiscard, waiting, attach, delivery
<1>17. CASE UNCHANGED <<waiting, subscriber, session, closed>>
  BY <1>17
     DEF Types, DeliveryTypes, Attachments, AttachmentIsKept, SessionPCs, WaiterPCs,
         Taken, waiting, delivery, attach
<1>18. CASE UNCHANGED vars
  BY <1>17, <1>18 DEF vars, waiting, attach, delivery
<1> QED
  BY <1>1, <1>2, <1>3, <1>4, <1>5, <1>6, <1>7, <1>8, <1>9, <1>10, <1>11, <1>12, <1>13,
     <1>14, <1>15, <1>16, <1>17, <1>18
     DEF Next, ReaderStep, CaptureStep, WaiterStep, SessionStep, Client, ReadStep


-----------------------------------------------------------------------------
(* What a step of captureOutput does to the rows, to what it holds and *)
(* to the channels.                                                        *)

KeepsOthers(s) == \A t \in Sources \ {s} : capture'[t] = capture[t] /\ current'[t] = current[t]

\* It reads, starts an append, or the append fails.
Quiet(s) ==
    /\ capture[s] \notin {"grab", "send"} /\ capture'[s] \notin {"grab", "send"}
    /\ current'[s].seq \in {0, current[s].seq}
    /\ capture'[s] = "append" => Len(current'[s].units) >= 1
    /\ faults' \in Nat /\ faults' >= faults
    /\ KeepsOthers(s) /\ UNCHANGED <<log, outSize, memSize, delivery, waiter, row>>

Appended(s) ==
    /\ capture[s] = "append" /\ capture'[s] = "grab"
    /\ log' = Append(log, [source |-> s, units |-> current[s].units, offset |-> outSize])
    /\ outSize' = outSize + Len(current[s].units)
    /\ current'[s].seq = Len(log') /\ current'[s].units = current[s].units
    /\ KeepsOthers(s) /\ UNCHANGED <<memSize, delivery, waiter, row, faults>>

Grabbed(s) ==
    /\ capture[s] = "grab"
    /\ memSize' = memSize + Len(current[s].units)
    /\ IF subscriber = NoSession
       THEN capture'[s] = "select" /\ current'[s].seq = 0
       ELSE /\ capture'[s] = "send"
            /\ current'[s].seq = current[s].seq /\ current'[s].to = subscriber
    /\ KeepsOthers(s) /\ UNCHANGED <<log, outSize, delivery, waiter, row, faults>>

Published(s) ==
    /\ capture[s] = "send" /\ capture'[s] = "select" /\ current'[s].seq = 0
    /\ LET a == current[s].to IN
       /\ a \in Sessions
       /\ \A b \in Sessions \ {a} : live'[b] = live[b] /\ missed'[b] = missed[b]
       /\ \/ live'[a] = Append(live[a], current[s].seq) /\ missed'[a] = missed[a]
          \/ live'[a] = live[a] /\ missed'[a] = missed[a] \cup {current[s].seq}
    /\ KeepsOthers(s)
    /\ UNCHANGED <<log, outSize, memSize, subscriber, closed, attach, waiter, row, faults>>

LEMMA CaptureEffects ==
  ASSUME Types, NEW s \in Sources, CaptureStep(s)
  PROVE  Quiet(s) \/ Appended(s) \/ Grabbed(s) \/ Published(s)
<1>0. /\ capture \in [Sources -> CapturePCs] /\ current \in [Sources -> Held]
      /\ live \in [Sessions -> Seq(Nat)] /\ missed \in [Sessions -> SUBSET Nat]
      /\ faults \in Nat
  BY DEF Types, CaptureTypes, StoreTypes, DeliveryTypes
<1>1. ASSUME NEW data \in Seq(Units), NEW rest, data # <<>>,
             StartAppend(s, data, rest), capture[s] = "select"
      PROVE  Quiet(s)
  BY <1>0, <1>1
     DEF StartAppend, Quiet, KeepsOthers, Held, NothingHeld, stored, store, waiting,
         ghosts
<1>2. CASE CaptureChunk(s)
  <2> DEFINE all == Append(pending[s], Head(queue[s]))
  <2>1. CASE Len(Append(pending[s], Head(queue[s]))) >= ChunkSize
    <3>1. pending[s] \in Seq(Units) /\ queue[s] \in Seq(Units) /\ queue[s] # <<>>
      BY <1>2 DEF CaptureChunk, Types, SourceTypes, CaptureTypes
    <3>2. all \in Seq(Units)
      BY <3>1
    <3>3. SubSeq(all, 1, ChunkSize) \in Seq(Units) /\ SubSeq(all, 1, ChunkSize) # <<>>
      <4> HIDE DEF all
      <4> QED
        BY <2>1, <3>2 DEF all
    <3> QED
      BY <1>1, <1>2, <2>1, <3>3 DEF CaptureChunk
  <2>2. CASE ~(Len(Append(pending[s], Head(queue[s]))) >= ChunkSize)
    BY <1>0, <1>2, <2>2
       DEF CaptureChunk, Quiet, KeepsOthers, stored, store, waiting, ghosts
  <2> QED
    BY <2>1, <2>2
<1>3. CASE CaptureFlush(s)
  BY <1>1, <1>3 DEF CaptureFlush, Types, CaptureTypes
<1>4. CASE CaptureEnd(s)
  BY <1>0, <1>4 DEF CaptureEnd, Quiet, KeepsOthers, stored, store, waiting, ghosts
<1>5. CASE AppendRow(s)
  BY <1>0, <1>5 DEF AppendRow, Appended, KeepsOthers, Held, waiting, ghosts
<1>6. CASE AppendFails(s)
  BY <1>0, <1>6
     DEF AppendFails, Quiet, KeepsOthers, Held, NothingHeld, stored, store, waiting
<1>7. CASE PublishGrab(s)
  <2>1. CASE subscriber = NoSession
    BY <1>0, <1>7, <2>1
       DEF PublishGrab, Grabbed, KeepsOthers, Held, NothingHeld, store, waiting, ghosts
  <2>2. CASE subscriber # NoSession
    BY <1>0, <1>7, <2>2
       DEF PublishGrab, Grabbed, KeepsOthers, Held, store, waiting, ghosts
  <2> QED
    BY <2>1, <2>2
<1>8. CASE PublishSend(s)
  <2>1. current[s].to \in Sessions
    BY <1>8 DEF PublishSend, Types, DeliveryTypes
  <2>2. capture[s] = "send" /\ capture'[s] = "select" /\ current'[s].seq = 0 /\ KeepsOthers(s)
    BY <1>0, <1>8 DEF PublishSend, KeepsOthers, Held, NothingHeld
  <2>3. UNCHANGED <<log, outSize, memSize, subscriber, closed, attach, waiter, row, faults>>
    BY <1>8 DEF PublishSend, stored, store, waiting, ghosts
  <2> QED
    BY <1>0, <1>8, <2>1, <2>2, <2>3 DEF PublishSend, Published
<1> QED
  BY <1>2, <1>3, <1>4, <1>5, <1>6, <1>7, <1>8 DEF CaptureStep

\* What is new in a channel after a send.
LEMMA ChannelGrows ==
  ASSUME Types, NEW s \in Sources, Published(s), NEW b \in Sessions, NEW i \in 1..Len(live'[b])
  PROVE  \/ i \in 1..Len(live[b]) /\ live'[b][i] = live[b][i]
         \/ /\ b = current[s].to /\ i = Len(live[b]) + 1
            /\ live'[b][i] = current[s].seq
<1>1. live[b] \in Seq(Nat) /\ current[s].seq \in Nat
  BY HeldFacts DEF Types, DeliveryTypes, CaptureTypes
<1>2. CASE live'[b] = live[b]
  BY <1>2
<1>3. CASE b = current[s].to /\ live'[b] = Append(live[b], current[s].seq)
  BY <1>1, <1>3
<1> QED
  BY <1>2, <1>3 DEF Published

LEMMA EofGrows ==
  ASSUME Types, EofSend, NEW b \in Sessions, NEW i \in 1..Len(live'[b])
  PROVE  \/ i \in 1..Len(live[b]) /\ live'[b][i] = live[b][i]
         \/ i = Len(live[b]) + 1 /\ live'[b][i] = 0
<1>1. live \in [Sessions -> Seq(Nat)] /\ eofTo \in Sessions
  BY DEF EofSend, Types, DeliveryTypes
<1>2. live'[b] = live[b] \/ live'[b] = Append(live[b], 0)
  BY <1>1 DEF EofSend
<1>3. CASE live'[b] = live[b]
  BY <1>3
<1>4. CASE live'[b] = Append(live[b], 0)
  BY <1>1, <1>4
<1> QED
  BY <1>2, <1>3, <1>4

LEMMA ChannelShrinks ==
  ASSUME Types, NEW a \in Sessions, AttachForward(a), NEW b \in Sessions,
         NEW i \in 1..Len(live'[b])
  PROVE  IF b = a THEN i + 1 \in 1..Len(live[b]) /\ live'[b][i] = live[b][i + 1]
                  ELSE i \in 1..Len(live[b]) /\ live'[b][i] = live[b][i]
<1>1. /\ live \in [Sessions -> Seq(Nat)] /\ live[a] # <<>>
      /\ live' = [live EXCEPT ![a] = Tail(live[a])]
  BY DEF AttachForward, Types, DeliveryTypes
<1> QED
  BY <1>1

LEMMA LogGrows ==
  ASSUME Types, NEW s \in Sources, Appended(s)
  PROVE  /\ Len(log) \in Nat /\ Len(log') = Len(log) + 1 /\ log' # <<>>
         /\ \A n \in 1..Len(log) : log'[n] = log[n]
         /\ log'[Len(log')].source = s /\ log'[Len(log')].offset = outSize
         /\ log'[Len(log')].units = current[s].units
<1>1. log \in Seq(Rows)
  BY DEF Types, StoreTypes
<1>2. current[s].units \in Seq(Units) /\ outSize \in Nat
  BY HeldFacts DEF Types, StoreTypes, CaptureTypes
<1>3. log' = Append(log, [source |-> s, units |-> current[s].units, offset |-> outSize])
  BY DEF Appended
<1> QED
  BY <1>1, <1>2, <1>3

\* Appending takes hold of a row, publishing lets it go.
LEMMA HeldRowsKept ==
  ASSUME Types, HeldRows, [Next]_vars
  PROVE  HeldRows'
<1>1. ASSUME NEW s \in Sources, Quiet(s) PROVE HeldRows'
  BY <1>1 DEF Quiet, HeldRows, KeepsOthers
<1>2. ASSUME NEW s \in Sources, Appended(s) PROVE HeldRows'
  <2>1. /\ Len(log) \in Nat /\ Len(log') = Len(log) + 1 /\ log'[Len(log')].source = s
        /\ \A n \in 1..Len(log) : log'[n] = log[n]
    BY <1>2, LogGrows
  <2> SUFFICES ASSUME NEW t \in Sources
               PROVE  IF capture'[t] \in {"grab", "send"}
                      THEN current'[t].seq \in 1..Len(log') /\ log'[current'[t].seq].source = t
                      ELSE current'[t].seq = 0
    BY DEF HeldRows
  <2>2. CASE t = s
    BY <1>2, <2>1, <2>2 DEF Appended
  <2>3. CASE t # s
    <3>1. capture'[t] = capture[t] /\ current'[t] = current[t]
      BY <1>2, <2>3 DEF Appended, KeepsOthers
    <3> QED
      BY <2>1, <3>1 DEF HeldRows
  <2> QED
    BY <2>2, <2>3
<1>3. ASSUME NEW s \in Sources, Grabbed(s) PROVE HeldRows'
  BY <1>3 DEF Grabbed, HeldRows, KeepsOthers
<1>4. ASSUME NEW s \in Sources, Published(s) PROVE HeldRows'
  BY <1>4 DEF Published, HeldRows, KeepsOthers
<1>5. ASSUME NEW s \in Sources, ProcWrite(s) \/ ReaderRead(s) \/ ReaderEnd(s)
      PROVE  UNCHANGED <<log, capture, current>>
  BY <1>5 DEF ProcWrite, ReaderRead, ReaderEnd, captures, store, stored
<1>6. ASSUME ProcExit \/ WaiterReap \/ WaiterFinish
            \/ WaiterPersist \/ EofGrab \/ EofSend
            \/ EofClose \/ DeleteJob
      PROVE  UNCHANGED <<log, capture, current>>
  BY <1>6
     DEF ProcExit, WaiterReap, WaiterFinish, WaiterPersist, EofGrab, EofSend, EofClose,
         DeleteJob, captures, store, stored
<1>7. ASSUME NEW a \in Sessions,
               AttachSubscribe(a) \/ AttachBreak(a) \/ AttachReplay(a)
            \/ AttachNoRow(a) \/ AttachForward(a) \/ AttachExit(a)
            \/ AttachDetach(a)
      PROVE  UNCHANGED <<log, capture, current>>
  BY <1>7
     DEF AttachSubscribe, AttachBreak, AttachReplay, AttachNoRow, AttachForward,
         AttachExit, AttachDetach, captures, store, stored
<1>8. ASSUME NEW r \in Readers, ReadLookup(r) \/ ReadRows(r) \/ ReadDiscard(r)
      PROVE  UNCHANGED <<log, capture, current>>
  BY <1>8 DEF ReadLookup, ReadRows, ReadDiscard, captures, store, stored
<1>9. CASE UNCHANGED <<log, capture, current>>
  BY <1>9 DEF HeldRows, KeepsOthers
<1>10. CASE UNCHANGED vars
  BY <1>9, <1>10 DEF vars, captures, store, stored
<1> QED
  BY CaptureEffects, <1>1, <1>2, <1>3, <1>4, <1>5, <1>6, <1>7, <1>8, <1>9, <1>10
     DEF Next, ReaderStep, WaiterStep, SessionStep, Client, ReadStep

\* Only held rows and EOF enter a channel.
LEMMA LiveRowsKept ==
  ASSUME Types, HeldRows, LiveRows, [Next]_vars
  PROVE  LiveRows'
<1>1. ASSUME NEW s \in Sources, Quiet(s) PROVE LiveRows'
  BY <1>1 DEF Quiet, Types, DeliveryTypes, LiveRows, delivery, stored, store
<1>2. ASSUME NEW s \in Sources, Appended(s) PROVE LiveRows'
  BY <1>2, LogGrows DEF Appended, LiveRows, delivery
<1>3. ASSUME NEW s \in Sources, Grabbed(s) PROVE LiveRows'
  BY <1>3 DEF Grabbed, Types, DeliveryTypes, LiveRows, delivery, stored, store
<1>4. ASSUME NEW s \in Sources, Published(s) PROVE LiveRows'
  <2>1. current[s].seq \in 1..Len(log) /\ log' = log
    BY <1>4 DEF Published, HeldRows
  <2> QED
    <3> SUFFICES ASSUME NEW b \in Sessions, NEW i \in 1..Len(live'[b])
                 PROVE  live'[b][i] \in 0..Len(log')
      BY DEF LiveRows
    <3>1. \/ i \in 1..Len(live[b]) /\ live'[b][i] = live[b][i]
          \/ live'[b][i] = current[s].seq
      BY <1>4, ChannelGrows
    <3> QED
      BY <2>1, <3>1, SMTT(30) DEF LiveRows
<1>5. ASSUME EofSend PROVE LiveRows'
  <2>1. Len(log) \in Nat /\ log' = log
    BY <1>5 DEF EofSend, stored, store, Types, StoreTypes
  <2> QED
    <3> SUFFICES ASSUME NEW b \in Sessions, NEW i \in 1..Len(live'[b])
                 PROVE  live'[b][i] \in 0..Len(log')
      BY DEF LiveRows
    <3>1. \/ i \in 1..Len(live[b]) /\ live'[b][i] = live[b][i]
          \/ live'[b][i] = 0
      BY <1>5, EofGrows
    <3> QED
      BY <2>1, <3>1 DEF LiveRows
<1>6. ASSUME NEW a \in Sessions, AttachForward(a) PROVE LiveRows'
  <2>1. log' = log
    BY <1>6 DEF AttachForward, stored, store
  <2> SUFFICES ASSUME NEW b \in Sessions, NEW i \in 1..Len(live'[b])
               PROVE  live'[b][i] \in 0..Len(log')
    BY DEF LiveRows
  <2>2. PICK x \in 1..Len(live[b]) : live'[b][i] = live[b][x]
    BY <1>6, ChannelShrinks
  <2> QED
    BY <2>1, <2>2 DEF LiveRows
<1>7. ASSUME NEW a \in Sessions, AttachDetach(a) PROVE LiveRows'
  <2>1. /\ live \in [Sessions -> Seq(Nat)]
        /\ live' = [live EXCEPT ![a] = <<>>] /\ log' = log
    BY <1>7 DEF AttachDetach, Types, DeliveryTypes, stored, store
  <2> QED
    BY <2>1 DEF LiveRows
<1>8. ASSUME NEW s \in Sources, ProcWrite(s) \/ ReaderRead(s) \/ ReaderEnd(s)
      PROVE  UNCHANGED <<log, live>>
  BY <1>8 DEF ProcWrite, ReaderRead, ReaderEnd, store, stored, delivery
<1>9. ASSUME ProcExit \/ WaiterReap \/ WaiterFinish
            \/ WaiterPersist \/ EofGrab \/ EofClose
            \/ DeleteJob
      PROVE  UNCHANGED <<log, live>>
  BY <1>9
     DEF ProcExit, WaiterReap, WaiterFinish, WaiterPersist, EofGrab, EofClose,
         DeleteJob, store, stored, delivery
<1>10. ASSUME NEW a \in Sessions,
               AttachSubscribe(a) \/ AttachBreak(a) \/ AttachReplay(a)
            \/ AttachNoRow(a) \/ AttachExit(a)
      PROVE  UNCHANGED <<log, live>>
  BY <1>10
     DEF AttachSubscribe, AttachBreak, AttachReplay, AttachNoRow, AttachExit, store,
         stored, delivery
<1>11. ASSUME NEW r \in Readers, ReadLookup(r) \/ ReadRows(r) \/ ReadDiscard(r)
      PROVE  UNCHANGED <<log, live>>
  BY <1>11 DEF ReadLookup, ReadRows, ReadDiscard, store, stored, delivery
<1>12. CASE UNCHANGED <<log, live>>
  BY <1>12 DEF Types, DeliveryTypes, LiveRows, delivery, stored, store
<1>13. CASE UNCHANGED vars
  BY <1>12, <1>13 DEF vars, store, stored, delivery
<1> QED
  BY CaptureEffects, <1>1, <1>2, <1>3, <1>4, <1>5, <1>6, <1>7, <1>8, <1>9, <1>10,
     <1>11, <1>12, <1>13
     DEF Next, ReaderStep, WaiterStep, SessionStep, Client, ReadStep

\* The stages of waitForExit do not overtake one another.
LEMMA EndsInOrderKept ==
  ASSUME Types, HeldRows, EndsInOrder, [Next]_vars
  PROVE  EndsInOrder'
<1>1. ASSUME NEW s \in Sources, Quiet(s) PROVE EndsInOrder'
  BY <1>1
     DEF Quiet, Types, StoreTypes, DeliveryTypes, EndsInOrder, WaiterPCs, waiting,
         delivery, stored, store, ghosts
<1>2. ASSUME NEW s \in Sources, Appended(s) PROVE EndsInOrder'
  BY <1>2
     DEF Appended, Types, StoreTypes, DeliveryTypes, EndsInOrder, WaiterPCs, waiting,
         delivery, stored, store, ghosts
<1>3. ASSUME NEW s \in Sources, Grabbed(s) PROVE EndsInOrder'
  BY <1>3
     DEF Grabbed, Types, StoreTypes, DeliveryTypes, EndsInOrder, WaiterPCs, waiting,
         delivery, stored, store, ghosts
<1>4. ASSUME NEW s \in Sources, Published(s) PROVE EndsInOrder'
  <2>1. current[s].seq # 0 /\ UNCHANGED <<waiter, row, faults, closed>>
    BY <1>4 DEF Published, HeldRows
  <2> QED
    <3>1. ASSUME waiter \notin {"close", "done"},
                 NEW b \in Sessions, NEW i \in 1..Len(live'[b])
          PROVE  live'[b][i] # 0
      <4>1. \/ i \in 1..Len(live[b]) /\ live'[b][i] = live[b][i]
            \/ live'[b][i] = current[s].seq
        BY <1>4, ChannelGrows
      <4> QED
        BY <2>1, <3>1, <4>1 DEF EndsInOrder
    <3> QED
      BY <2>1, <3>1 DEF EndsInOrder
<1>5. ASSUME WaiterReap PROVE EndsInOrder'
  BY <1>5
     DEF WaiterReap, ClosePipes, InPipes, Types, StoreTypes, DeliveryTypes,
         EndsInOrder, WaiterPCs, waiting, delivery, stored, store, ghosts
<1>6. ASSUME WaiterFinish PROVE EndsInOrder'
  BY <1>6
     DEF WaiterFinish, ClosePipes, InPipes, Types, StoreTypes, DeliveryTypes,
         EndsInOrder, WaiterPCs, waiting, delivery, stored, store, ghosts
<1>7. ASSUME WaiterPersist PROVE EndsInOrder'
  BY <1>7
     DEF WaiterPersist, Types, StoreTypes, DeliveryTypes, EndsInOrder, WaiterPCs,
         waiting, delivery, stored, store, ghosts
<1>8. ASSUME EofGrab PROVE EndsInOrder'
  BY <1>8
     DEF EofGrab, Types, StoreTypes, DeliveryTypes, EndsInOrder, WaiterPCs, waiting,
         delivery, stored, store, ghosts
<1>9. ASSUME EofSend PROVE EndsInOrder'
  BY <1>9
     DEF EofSend, Types, StoreTypes, DeliveryTypes, EndsInOrder, WaiterPCs, waiting,
         delivery, stored, store, ghosts
<1>10. ASSUME EofClose PROVE EndsInOrder'
  BY <1>10
     DEF EofClose, Types, StoreTypes, DeliveryTypes, EndsInOrder, WaiterPCs, waiting,
         delivery, stored, store, ghosts
<1>11. ASSUME NEW a \in Sessions, AttachForward(a) PROVE EndsInOrder'
  <2>1. UNCHANGED <<waiter, row, faults, closed>>
    BY <1>11 DEF AttachForward, stored, store, waiting, ghosts
  <2>2. ASSUME waiter \notin {"close", "done"},
               NEW b \in Sessions, NEW i \in 1..Len(live'[b])
        PROVE  live'[b][i] # 0
    <3>1. PICK x \in 1..Len(live[b]) : live'[b][i] = live[b][x]
      BY <1>11, ChannelShrinks
    <3> QED
      BY <2>2, <3>1 DEF EndsInOrder
  <2> QED
    BY <2>1, <2>2 DEF EndsInOrder
<1>12. ASSUME NEW a \in Sessions, AttachDetach(a) PROVE EndsInOrder'
  <2>1. /\ live \in [Sessions -> Seq(Nat)]
        /\ live' = [live EXCEPT ![a] = <<>>]
        /\ UNCHANGED <<waiter, row, faults, closed>>
    BY <1>12 DEF AttachDetach, Types, DeliveryTypes, stored, store, waiting, ghosts
  <2> QED
    BY <2>1 DEF EndsInOrder
<1>13. ASSUME DeleteJob PROVE EndsInOrder'
  BY <1>13
     DEF DeleteJob, Types, StoreTypes, DeliveryTypes, EndsInOrder, WaiterPCs, waiting,
         delivery, stored, store, ghosts
<1>14. ASSUME NEW s \in Sources, ProcWrite(s) \/ ReaderRead(s) \/ ReaderEnd(s)
      PROVE  UNCHANGED <<waiter, row, faults, live, closed>>
  BY <1>14
     DEF ProcWrite, ReaderRead, ReaderEnd, store, stored, waiting, delivery, ghosts
<1>15. ASSUME ProcExit
      PROVE  UNCHANGED <<waiter, row, faults, live, closed>>
  BY <1>15 DEF ProcExit, store, stored, waiting, delivery, ghosts
<1>16. ASSUME NEW a \in Sessions,
               AttachSubscribe(a) \/ AttachBreak(a) \/ AttachReplay(a)
            \/ AttachNoRow(a) \/ AttachExit(a)
      PROVE  UNCHANGED <<waiter, row, faults, live, closed>>
  BY <1>16
     DEF AttachSubscribe, AttachBreak, AttachReplay, AttachNoRow, AttachExit, store,
         stored, waiting, delivery, ghosts
<1>17. ASSUME NEW r \in Readers, ReadLookup(r) \/ ReadRows(r) \/ ReadDiscard(r)
      PROVE  UNCHANGED <<waiter, row, faults, live, closed>>
  BY <1>17
     DEF ReadLookup, ReadRows, ReadDiscard, store, stored, waiting, delivery, ghosts
<1>18. CASE UNCHANGED <<waiter, row, faults, live, closed>>
  BY <1>18
     DEF Types, StoreTypes, DeliveryTypes, EndsInOrder, WaiterPCs, waiting, delivery,
         stored, store, ghosts
<1>19. CASE UNCHANGED vars
  BY <1>18, <1>19 DEF vars, store, stored, waiting, delivery, ghosts
<1> QED
  BY CaptureEffects, <1>1, <1>2, <1>3, <1>4, <1>5, <1>6, <1>7, <1>8, <1>9, <1>10,
     <1>11, <1>12, <1>13, <1>14, <1>15, <1>16, <1>17, <1>18, <1>19
     DEF Next, ReaderStep, WaiterStep, SessionStep, Client, ReadStep

\* An append starts where the last row ends; what it adds is uncounted until PublishGrab.
LEMMA OffsetsKept ==
  ASSUME Types, OffsetsContiguous, SizeIsEnd, [Next]_vars
  PROVE  (OffsetsContiguous /\ SizeIsEnd)'
<1>1. ASSUME NEW s \in Sources, Quiet(s) PROVE (OffsetsContiguous /\ SizeIsEnd)'
  BY <1>1 DEF Quiet, OffsetsContiguous, SizeIsEnd, Uncounted, Sources, KeepsOthers
<1>2. ASSUME NEW s \in Sources, Appended(s) PROVE (OffsetsContiguous /\ SizeIsEnd)'
  <2>1. /\ Len(log) \in Nat /\ log' # <<>>
        /\ outSize \in Nat /\ Len(current[s].units) \in Nat
    <3>1. log \in Seq(Rows) /\ outSize \in Nat /\ Len(current[s].units) \in Nat
      BY HeldFacts DEF Types, CaptureTypes, StoreTypes
    <3>2. log' # <<>>
      BY <1>2, LogGrows
    <3> QED
      BY <3>1, <3>2
  <2>2. SizeIsEnd'
    BY <1>2, <2>1, LogGrows DEF Appended, SizeIsEnd
  <2>3. \A n \in 1..Len(log') :
          log'[n].offset = IF n = 1 THEN 0 ELSE log'[n-1].offset + Len(log'[n-1].units)
    <3> TAKE n \in 1..Len(log')
    <3>0. /\ Len(log') = Len(log) + 1 /\ log'[Len(log')].offset = outSize
          /\ \A m \in 1..Len(log) : log'[m] = log[m]
      BY <1>2, LogGrows
    <3>1. CASE n <= Len(log)
      <4>1. n \in 1..Len(log) /\ (n # 1 => n - 1 \in 1..Len(log))
        BY <2>1, <3>0, <3>1
      <4> QED
        BY <3>0, <4>1 DEF OffsetsContiguous
    <3>2. CASE n = Len(log')
      <4>1. CASE Len(log) = 0
        <5>1. log = <<>>
          BY <4>1 DEF Types, StoreTypes
        <5> QED
          BY <3>0, <3>2, <4>1, <5>1 DEF SizeIsEnd
      <4>2. CASE Len(log) # 0
        <5>1. log # <<>> /\ n # 1 /\ n - 1 = Len(log) /\ Len(log) \in 1..Len(log)
          BY <2>1, <3>0, <3>2, <4>2
        <5> QED
          BY <3>0, <3>2, <5>1 DEF SizeIsEnd
      <4> QED
        BY <4>1, <4>2
    <3> QED
      BY <2>1, <3>0, <3>1, <3>2
  <2>4. outSize' = memSize' + Uncounted(Stdout)' + Uncounted(Stderr)'
    <3>1. Uncounted(s) = 0 /\ Uncounted(s)' = Len(current[s].units)
      BY <1>2 DEF Appended, Uncounted
    <3>2. \A t \in Sources \ {s} : Uncounted(t)' = Uncounted(t) /\ Uncounted(t) \in Nat
      BY <1>2, HeldFacts DEF Appended, KeepsOthers, Uncounted, Types, CaptureTypes
    <3>3. outSize = memSize + Uncounted(Stdout) + Uncounted(Stderr) /\ memSize \in Nat
      BY DEF OffsetsContiguous, Types, StoreTypes
    <3>4. outSize' = outSize + Len(current[s].units) /\ memSize' = memSize
      BY <1>2 DEF Appended
    <3>5. CASE s = Stdout
      <4>1. Stderr \in Sources \ {s}
        BY <3>5 DEF Sources
      <4>2. Uncounted(Stderr)' = Uncounted(Stderr) /\ Uncounted(Stderr) \in Nat
        BY <3>2, <4>1
      <4>3. Uncounted(Stdout) = 0 /\ Uncounted(Stdout)' = Len(current[s].units)
        BY <3>1, <3>5 DEF Uncounted
      <4> QED
        BY <2>1, <3>3, <3>4, <4>2, <4>3
    <3>6. CASE s = Stderr
      <4>1. Stdout \in Sources \ {s}
        BY <3>6 DEF Sources
      <4>2. Uncounted(Stdout)' = Uncounted(Stdout) /\ Uncounted(Stdout) \in Nat
        BY <3>2, <4>1
      <4>3. Uncounted(Stderr) = 0 /\ Uncounted(Stderr)' = Len(current[s].units)
        BY <3>1, <3>6 DEF Uncounted
      <4> QED
        BY <2>1, <3>3, <3>4, <4>2, <4>3
    <3> QED
      BY <3>5, <3>6 DEF Sources
  <2> QED
    BY <2>2, <2>3, <2>4 DEF OffsetsContiguous
<1>3. ASSUME NEW s \in Sources, Grabbed(s) PROVE (OffsetsContiguous /\ SizeIsEnd)'
  <2>1. Uncounted(s) = Len(current[s].units) /\ Uncounted(s)' = 0
    BY <1>3 DEF Grabbed, Uncounted
  <2>2. \A t \in Sources \ {s} : Uncounted(t)' = Uncounted(t) /\ Uncounted(t) \in Nat
    BY <1>3, HeldFacts DEF Grabbed, KeepsOthers, Uncounted, Types, CaptureTypes
  <2>3. /\ outSize = memSize + Uncounted(Stdout) + Uncounted(Stderr)
        /\ memSize \in Nat /\ Len(current[s].units) \in Nat
    BY HeldFacts DEF OffsetsContiguous, Types, CaptureTypes, StoreTypes
  <2>4. memSize' = memSize + Len(current[s].units) /\ UNCHANGED <<log, outSize>>
    BY <1>3 DEF Grabbed
  <2>5. outSize' = memSize' + Uncounted(Stdout)' + Uncounted(Stderr)'
    <3>1. CASE s = Stdout
      <4>1. Stderr \in Sources \ {s}
        BY <3>1 DEF Sources
      <4>2. Uncounted(Stderr)' = Uncounted(Stderr) /\ Uncounted(Stderr) \in Nat
        BY <2>2, <4>1
      <4>3. Uncounted(Stdout) = Len(current[s].units) /\ Uncounted(Stdout)' = 0
        BY <2>1, <3>1 DEF Uncounted
      <4> QED
        BY <2>3, <2>4, <4>2, <4>3
    <3>2. CASE s = Stderr
      <4>1. Stdout \in Sources \ {s}
        BY <3>2 DEF Sources
      <4>2. Uncounted(Stdout)' = Uncounted(Stdout) /\ Uncounted(Stdout) \in Nat
        BY <2>2, <4>1
      <4>3. Uncounted(Stderr) = Len(current[s].units) /\ Uncounted(Stderr)' = 0
        BY <2>1, <3>2 DEF Uncounted
      <4> QED
        BY <2>3, <2>4, <4>2, <4>3
    <3> QED
      BY <3>1, <3>2 DEF Sources
  <2> QED
    BY <2>4, <2>5 DEF OffsetsContiguous, SizeIsEnd
<1>4. ASSUME NEW s \in Sources, Published(s) PROVE (OffsetsContiguous /\ SizeIsEnd)'
  BY <1>4 DEF Published, OffsetsContiguous, SizeIsEnd, Uncounted, Sources, KeepsOthers
<1>5. ASSUME NEW s \in Sources, ProcWrite(s) \/ ReaderRead(s) \/ ReaderEnd(s)
      PROVE  UNCHANGED <<log, outSize, memSize, capture, current>>
  BY <1>5 DEF ProcWrite, ReaderRead, ReaderEnd, captures, store, stored
<1>6. ASSUME ProcExit \/ WaiterReap \/ WaiterFinish
            \/ WaiterPersist \/ EofGrab \/ EofSend
            \/ EofClose \/ DeleteJob
      PROVE  UNCHANGED <<log, outSize, memSize, capture, current>>
  BY <1>6
     DEF ProcExit, WaiterReap, WaiterFinish, WaiterPersist, EofGrab, EofSend, EofClose,
         DeleteJob, captures, store, stored
<1>7. ASSUME NEW a \in Sessions,
               AttachSubscribe(a) \/ AttachBreak(a) \/ AttachReplay(a)
            \/ AttachNoRow(a) \/ AttachForward(a) \/ AttachExit(a)
            \/ AttachDetach(a)
      PROVE  UNCHANGED <<log, outSize, memSize, capture, current>>
  BY <1>7
     DEF AttachSubscribe, AttachBreak, AttachReplay, AttachNoRow, AttachForward,
         AttachExit, AttachDetach, captures, store, stored
<1>8. ASSUME NEW r \in Readers, ReadLookup(r) \/ ReadRows(r) \/ ReadDiscard(r)
      PROVE  UNCHANGED <<log, outSize, memSize, capture, current>>
  BY <1>8 DEF ReadLookup, ReadRows, ReadDiscard, captures, store, stored
<1>9. CASE UNCHANGED <<log, outSize, memSize, capture, current>>
  BY <1>9 DEF OffsetsContiguous, SizeIsEnd, Uncounted, Sources, KeepsOthers
<1>10. CASE UNCHANGED vars
  BY <1>9, <1>10 DEF vars, captures, store, stored
<1> QED
  BY CaptureEffects, <1>1, <1>2, <1>3, <1>4, <1>5, <1>6, <1>7, <1>8, <1>9, <1>10
     DEF Next, ReaderStep, WaiterStep, SessionStep, Client, ReadStep


\* A new row begins at the size stored so far.
LEMMA RowsFollowKept ==
  ASSUME Types, RowsFollow, [Next]_vars
  PROVE  RowsFollow'
<1>1. ASSUME NEW s \in Sources, Quiet(s) PROVE RowsFollow'
  BY <1>1 DEF Quiet, KeepsOthers, RowsFollow
<1>2. ASSUME NEW s \in Sources, Appended(s) PROVE RowsFollow'
  <2>1. /\ Len(log) \in Nat /\ Len(log') = Len(log) + 1
        /\ \A n \in 1..Len(log) : log'[n] = log[n]
        /\ log'[Len(log')].offset = outSize /\ log'[Len(log')].units = current[s].units
    BY <1>2, LogGrows
  <2>2. /\ outSize \in Nat /\ Len(current[s].units) \in Nat /\ Len(current[s].units) >= 1
        /\ outSize' = outSize + Len(current[s].units)
    BY <1>2, HeldFacts DEF Appended, RowsFollow, Types, StoreTypes, CaptureTypes
  <2>3. \A n \in 1..Len(log) : log[n].offset \in Nat /\ Len(log[n].units) \in Nat
    BY StoredRow DEF Types
  <2>4. \A n \in 1..Len(log') : n \in 1..Len(log) \/ n = Len(log')
    BY <2>1
  <2>5. ASSUME NEW n \in 1..Len(log')
        PROVE  Len(log'[n].units) >= 1 /\ log'[n].offset + Len(log'[n].units) <= outSize'
    <3>1. CASE n \in 1..Len(log)
      <4>1. /\ log'[n] = log[n] /\ Len(log[n].units) >= 1
            /\ log[n].offset + Len(log[n].units) <= outSize
        BY <2>1, <3>1 DEF RowsFollow
      <4>2. log[n].offset + Len(log[n].units) \in Nat
        BY <2>3, <3>1
      <4>3. log[n].offset + Len(log[n].units) <= outSize'
        <5> DEFINE end == log[n].offset + Len(log[n].units)
                   more == Len(current[s].units)
        <5>1. end \in Nat /\ end <= outSize /\ outSize \in Nat /\ more \in Nat /\ outSize' = outSize + more
          BY <2>2, <4>1, <4>2
        <5> HIDE DEF end, more
        <5>2. end <= outSize'
          BY <5>1
        <5> QED
          BY <5>2 DEF end
      <4> QED
        BY <4>1, <4>3
    <3>2. CASE n = Len(log')
      BY <2>1, <2>2, <3>2
    <3> QED
      BY <2>4, <3>1, <3>2
  <2>6. ASSUME NEW m \in 1..Len(log'), NEW n \in 1..Len(log'), m < n
        PROVE  log'[m].offset + Len(log'[m].units) <= log'[n].offset
    <3>1. m \in 1..Len(log)
      BY <2>1, <2>4, <2>6
    <3> QED
      BY <2>1, <2>4, <2>6, <3>1 DEF RowsFollow
  <2>7. \A t \in Sources : capture'[t] = "append" => Len(current'[t].units) >= 1
    BY <1>2 DEF Appended, KeepsOthers, RowsFollow
  <2> QED
    BY <2>5, <2>6, <2>7 DEF RowsFollow
<1>3. ASSUME NEW s \in Sources, Grabbed(s) PROVE RowsFollow'
  BY <1>3 DEF Grabbed, KeepsOthers, RowsFollow
<1>4. ASSUME NEW s \in Sources, Published(s) PROVE RowsFollow'
  BY <1>4 DEF Published, KeepsOthers, RowsFollow
<1>5. ASSUME NEW s \in Sources, ProcWrite(s) \/ ReaderRead(s) \/ ReaderEnd(s)
      PROVE  UNCHANGED <<log, outSize, capture, current>>
  BY <1>5 DEF ProcWrite, ReaderRead, ReaderEnd, captures, store, stored
<1>6. ASSUME ProcExit \/ WaiterReap \/ WaiterFinish
            \/ WaiterPersist \/ EofGrab \/ EofSend
            \/ EofClose \/ DeleteJob
      PROVE  UNCHANGED <<log, outSize, capture, current>>
  BY <1>6
     DEF ProcExit, WaiterReap, WaiterFinish, WaiterPersist, EofGrab, EofSend, EofClose,
         DeleteJob, captures, store, stored
<1>7. ASSUME NEW a \in Sessions,
               AttachSubscribe(a) \/ AttachBreak(a) \/ AttachReplay(a)
            \/ AttachNoRow(a) \/ AttachForward(a) \/ AttachExit(a)
            \/ AttachDetach(a)
      PROVE  UNCHANGED <<log, outSize, capture, current>>
  BY <1>7
     DEF AttachSubscribe, AttachBreak, AttachReplay, AttachNoRow, AttachForward,
         AttachExit, AttachDetach, captures, store, stored
<1>8. ASSUME NEW r \in Readers, ReadLookup(r) \/ ReadRows(r) \/ ReadDiscard(r)
      PROVE  UNCHANGED <<log, outSize, capture, current>>
  BY <1>8 DEF ReadLookup, ReadRows, ReadDiscard, captures, store, stored
<1>9. CASE UNCHANGED <<log, outSize, capture, current>>
  BY <1>9 DEF RowsFollow
<1>10. CASE UNCHANGED vars
  BY <1>9, <1>10 DEF vars, captures, store, stored
<1> QED
  BY CaptureEffects, <1>1, <1>2, <1>3, <1>4, <1>5, <1>6, <1>7, <1>8, <1>9, <1>10
     DEF Next, ReaderStep, WaiterStep, SessionStep, Client, ReadStep

-----------------------------------------------------------------------------
(* No gap for a subscriber, and the order in its channel.                  *)

Covered(a) == sent[a] \cup missed[a] \cup ToSet(live[a])

LEMMA SetsOfChannels ==
  ASSUME NEW q \in Seq(Nat), NEW e \in Nat
  PROVE  /\ ToSet(q) \subseteq ToSet(Append(q, e)) /\ e \in ToSet(Append(q, e))
         /\ q # <<>> => ToSet(q) \subseteq ToSet(Tail(q)) \cup {Head(q)}
<1>1. ToSet(q) \subseteq ToSet(Append(q, e)) /\ e \in ToSet(Append(q, e))
  <2>1. \A i \in 1..Len(q) : Append(q, e)[i] = q[i] /\ i \in 1..Len(Append(q, e))
    OBVIOUS
  <2>2. Append(q, e)[Len(q) + 1] = e /\ Len(q) + 1 \in 1..Len(Append(q, e))
    OBVIOUS
  <2>3. DOMAIN q = 1..Len(q) /\ DOMAIN Append(q, e) = 1..Len(Append(q, e))
    OBVIOUS
  <2> QED
    BY <2>1, <2>2, <2>3 DEF ToSet
<1>2. ASSUME q # <<>> PROVE ToSet(q) \subseteq ToSet(Tail(q)) \cup {Head(q)}
  <2>1. \A i \in 1..Len(q) : i = 1 \/ (i - 1 \in 1..Len(Tail(q)) /\ Tail(q)[i - 1] = q[i])
    BY <1>2
  <2>2. DOMAIN q = 1..Len(q) /\ DOMAIN Tail(q) = 1..Len(Tail(q)) /\ Head(q) = q[1]
    BY <1>2
  <2> SUFFICES ASSUME NEW i \in 1..Len(q)
               PROVE  q[i] \in ToSet(Tail(q)) \cup {Head(q)}
    BY <2>2 DEF ToSet
  <2>3. CASE i = 1
    BY <2>2, <2>3
  <2>4. CASE i - 1 \in DOMAIN Tail(q) /\ Tail(q)[i - 1] = q[i]
    BY <2>4 DEF ToSet
  <2> QED
    BY <2>1, <2>2, <2>3, <2>4
<1> QED
  BY <1>1, <1>2

\* A step that touches no row and nothing a capture goroutine holds keeps the
\* invariant if it forgets nothing of a subscriber.
LEMMA CoverKept ==
  ASSUME AttachHasNoGap, UNCHANGED <<log, capture, current>>,
         \A b \in Sessions : session'[b] = "live" /\ subscriber' = b =>
            /\ session[b] = "live" /\ subscriber = b /\ from'[b] = from[b]
            /\ Covered(b) \subseteq Covered(b)'
  PROVE  AttachHasNoGap'
<1> SUFFICES ASSUME NEW b \in Sessions, session'[b] = "live", subscriber' = b,
                    NEW n \in from'[b]..Len(log')
             PROVE  \/ n \in Covered(b)'
                    \/ \E s \in Sources : /\ current'[s].seq = n
                                          /\ capture'[s] = "send" => current'[s].to = b
  BY DEF AttachHasNoGap, Covered
<1>1. n \in Covered(b) \/ \E s \in Sources : /\ current[s].seq = n
                                             /\ capture[s] = "send" => current[s].to = b
  BY DEF AttachHasNoGap, Covered
<1> QED
  BY <1>1

\* A replay starts at the first row it sends or behind the last one stored.
LEMMA StartsKept ==
  ASSUME Types, StartsAtRow, [Next]_vars
  PROVE  StartsAtRow'
<1>1. ASSUME NEW s \in Sources, Quiet(s) PROVE StartsAtRow'
  BY <1>1 DEF Quiet, StartsAtRow, delivery, attach
<1>2. ASSUME NEW s \in Sources, Appended(s) PROVE StartsAtRow'
  BY <1>2 DEF Appended, StartsAtRow, delivery, attach
<1>3. ASSUME NEW s \in Sources, Grabbed(s) PROVE StartsAtRow'
  BY <1>3 DEF Grabbed, StartsAtRow, delivery, attach
<1>4. ASSUME NEW s \in Sources, Published(s) PROVE StartsAtRow'
  BY <1>4 DEF Published, StartsAtRow, delivery, attach
<1>5. ASSUME NEW a \in Sessions, AttachSubscribe(a) PROVE StartsAtRow'
  BY <1>5 DEF AttachSubscribe, Types, DeliveryTypes, StoreTypes, StartsAtRow
<1>6. ASSUME NEW a \in Sessions, AttachBreak(a) PROVE StartsAtRow'
  BY <1>6 DEF AttachBreak, Types, DeliveryTypes, StoreTypes, StartsAtRow
<1>7. ASSUME NEW a \in Sessions, AttachReplay(a) PROVE StartsAtRow'
  <2>1. /\ session' = [session EXCEPT ![a] = "live"]
        /\ \/ \E o \in 0..outSize :
                 from' = [from EXCEPT ![a] = Min(Replayed(o) \cup {Len(log) + 1})]
           \/ from' = [from EXCEPT ![a] = Len(log) + 1]
    BY <1>7 DEF AttachReplay
  <2>2. /\ Len(log) \in Nat /\ outSize \in Nat
        /\ from \in [Sessions -> Nat] /\ session \in [Sessions -> SessionPCs]
    BY DEF Types, StoreTypes, DeliveryTypes
  <2>3. \A o \in 0..outSize : Min(Replayed(o) \cup {Len(log) + 1}) \in 1..Len(log) + 1
    BY <2>2, FirstRow DEF Types
  <2>4. PICK n \in 1..Len(log) + 1 : from' = [from EXCEPT ![a] = n]
    <3>1. Len(log) + 1 \in 1..Len(log) + 1
      BY <2>2
    <3> QED
      BY <2>1, <2>3, <3>1, Zenon
  <2> QED
    BY <2>1, <2>2, <2>4 DEF StartsAtRow
<1>8. ASSUME NEW a \in Sessions, AttachNoRow(a) PROVE StartsAtRow'
  BY <1>8 DEF AttachNoRow, Types, DeliveryTypes, StoreTypes, StartsAtRow
<1>9. ASSUME NEW a \in Sessions, AttachExit(a) PROVE StartsAtRow'
  BY <1>9 DEF AttachExit, Types, DeliveryTypes, StoreTypes, StartsAtRow
<1>10. ASSUME NEW a \in Sessions, AttachDetach(a) PROVE StartsAtRow'
  BY <1>10 DEF AttachDetach, Types, DeliveryTypes, StoreTypes, StartsAtRow
<1>11. ASSUME NEW s \in Sources, ProcWrite(s) \/ ReaderRead(s) \/ ReaderEnd(s)
      PROVE  UNCHANGED <<session, from>>
  BY <1>11 DEF ProcWrite, ReaderRead, ReaderEnd, attach, delivery
<1>12. ASSUME ProcExit \/ WaiterReap \/ WaiterFinish
            \/ WaiterPersist \/ EofGrab \/ EofSend
            \/ EofClose \/ DeleteJob
      PROVE  UNCHANGED <<session, from>>
  BY <1>12
     DEF ProcExit, WaiterReap, WaiterFinish, WaiterPersist, EofGrab, EofSend, EofClose,
         DeleteJob, attach, delivery
<1>13. ASSUME NEW a \in Sessions, AttachForward(a)
      PROVE  UNCHANGED <<session, from>>
  BY <1>13 DEF AttachForward, attach, delivery
<1>14. ASSUME NEW r \in Readers, ReadLookup(r) \/ ReadRows(r) \/ ReadDiscard(r)
      PROVE  UNCHANGED <<session, from>>
  BY <1>14 DEF ReadLookup, ReadRows, ReadDiscard, attach, delivery
<1>15. CASE UNCHANGED <<session, from>>
  BY <1>15 DEF Types, DeliveryTypes, StoreTypes, StartsAtRow
<1>16. CASE UNCHANGED vars
  BY <1>15, <1>16 DEF vars, attach, delivery
<1> QED
  BY CaptureEffects, <1>1, <1>2, <1>3, <1>4, <1>5, <1>6, <1>7, <1>8, <1>9, <1>10,
     <1>11, <1>12, <1>13, <1>14, <1>15, <1>16
     DEF Next, ReaderStep, WaiterStep, SessionStep, Client, ReadStep

\* A row is held from its append until it is in the subscriber's channel or dropped.
LEMMA NoGapKept ==
  ASSUME Types, HeldRows, StartsAtRow, RowsFollow, AttachHasNoGap, [Next]_vars
  PROVE  AttachHasNoGap'
<1>1. ASSUME NEW s \in Sources, Quiet(s) PROVE AttachHasNoGap'
  <2> SUFFICES ASSUME NEW b \in Sessions, session[b] = "live", subscriber = b,
                      NEW n \in from[b]..Len(log')
               PROVE  \/ n \in Covered(b)'
                      \/ \E t \in Sources : /\ current'[t].seq = n
                                            /\ capture'[t] = "send" => current'[t].to = b
    BY <1>1 DEF AttachHasNoGap, Covered, Quiet, delivery, attach
  <2>1. \/ n \in Covered(b)
        \/ \E t \in Sources : /\ current[t].seq = n
                              /\ capture[t] = "send" => current[t].to = b
    BY <1>1 DEF Quiet, AttachHasNoGap, Covered
  <2>2. Covered(b)' = Covered(b)
    BY <1>1 DEF Quiet, Covered, delivery, attach
  <2>3. n >= 1 /\ current[s].seq = 0
    BY <1>1 DEF Quiet, HeldRows, StartsAtRow, Types, DeliveryTypes
  <2> QED
    BY <1>1, <2>1, <2>2, <2>3 DEF Quiet, KeepsOthers
<1>2. ASSUME NEW s \in Sources, Appended(s) PROVE AttachHasNoGap'
  <2> SUFFICES ASSUME NEW b \in Sessions, session[b] = "live", subscriber = b,
                      NEW n \in from[b]..Len(log')
               PROVE  \/ n \in Covered(b)'
                      \/ \E t \in Sources : /\ current'[t].seq = n
                                            /\ capture'[t] = "send" => current'[t].to = b
    BY <1>2 DEF AttachHasNoGap, Covered, Appended, delivery, attach
  <2>1. Covered(b)' = Covered(b)
    BY <1>2 DEF Appended, Covered, delivery, attach
  <2>2. CASE n = Len(log')
    BY <1>2, <2>2 DEF Appended
  <2>3. CASE n # Len(log')
    <3>0. from[b] \in Nat /\ from[b] >= 1 /\ current[s].seq = 0
      BY <1>2 DEF Appended, HeldRows, StartsAtRow, Types, DeliveryTypes
    <3>1. n \in from[b]..Len(log) /\ n >= 1 /\ current[s].seq = 0
      <4>1. Len(log) \in Nat /\ Len(log') = Len(log) + 1
        BY <1>2, LogGrows
      <4> QED
        BY <2>3, <3>0, <4>1
    <3>2. \/ n \in Covered(b)
          \/ \E t \in Sources : /\ current[t].seq = n
                                /\ capture[t] = "send" => current[t].to = b
      BY <3>1 DEF AttachHasNoGap, Covered
    <3> QED
      BY <1>2, <2>1, <3>1, <3>2 DEF Appended, KeepsOthers
  <2> QED
    BY <2>2, <2>3
<1>3. ASSUME NEW s \in Sources, Grabbed(s) PROVE AttachHasNoGap'
  <2> SUFFICES ASSUME NEW b \in Sessions, session[b] = "live", subscriber = b,
                      NEW n \in from[b]..Len(log')
               PROVE  \/ n \in Covered(b)'
                      \/ \E t \in Sources : /\ current'[t].seq = n
                                            /\ capture'[t] = "send" => current'[t].to = b
    BY <1>3 DEF AttachHasNoGap, Covered, Grabbed, delivery, attach
  <2>1. \/ n \in Covered(b)
        \/ \E t \in Sources : /\ current[t].seq = n
                              /\ capture[t] = "send" => current[t].to = b
    BY <1>3 DEF Grabbed, AttachHasNoGap, Covered
  <2>2. Covered(b)' = Covered(b)
    BY <1>3 DEF Grabbed, Covered, delivery, attach
  <2>3. current'[s].seq = current[s].seq /\ current'[s].to = b
    BY <1>3 DEF Grabbed
  <2> QED
    BY <1>3, <2>1, <2>2, <2>3 DEF Grabbed, KeepsOthers
<1>4. ASSUME NEW s \in Sources, Published(s) PROVE AttachHasNoGap'
  <2> SUFFICES ASSUME NEW b \in Sessions, session[b] = "live", subscriber = b,
                      NEW n \in from[b]..Len(log')
               PROVE  \/ n \in Covered(b)'
                      \/ \E t \in Sources : /\ current'[t].seq = n
                                            /\ capture'[t] = "send" => current'[t].to = b
    BY <1>4 DEF AttachHasNoGap, Covered, Published, delivery, attach
  <2>1. \/ n \in Covered(b)
        \/ \E t \in Sources : /\ current[t].seq = n
                              /\ capture[t] = "send" => current[t].to = b
    BY <1>4 DEF Published, AttachHasNoGap, Covered
  <2>2. /\ live[b] \in Seq(Nat) /\ current[s].seq \in Nat
        /\ sent'[b] = sent[b]
    BY <1>4, HeldFacts DEF Published, Types, DeliveryTypes, CaptureTypes, attach
  <2>3. \/ live'[b] = live[b] /\ missed'[b] = missed[b] /\ current[s].to # b
        \/ live'[b] = Append(live[b], current[s].seq) /\ missed'[b] = missed[b]
        \/ live'[b] = live[b] /\ missed'[b] = missed[b] \cup {current[s].seq}
    BY <1>4 DEF Published
  <2>4. Covered(b) \subseteq Covered(b)'
    BY <2>2, <2>3, SetsOfChannels DEF Covered
  <2>5. current[s].to = b => current[s].seq \in Covered(b)'
    BY <2>2, <2>3, SetsOfChannels DEF Covered
  <2> QED
    BY <1>4, <2>1, <2>4, <2>5 DEF Published, KeepsOthers
<1>5. ASSUME EofGrab PROVE AttachHasNoGap'
  BY <1>5, CoverKept DEF EofGrab, captures, stored, store
<1>6. ASSUME EofSend PROVE AttachHasNoGap'
  <2>1. UNCHANGED <<log, captures, subscriber, attach, missed>>
    BY <1>6 DEF EofSend, stored, store
  <2>2. ASSUME NEW b \in Sessions PROVE Covered(b) \subseteq Covered(b)'
    <3>1. live \in [Sessions -> Seq(Nat)]
      BY DEF Types, DeliveryTypes
    <3>2. live'[b] = live[b] \/ live'[b] = Append(live[b], 0)
      BY <1>6, <3>1 DEF EofSend
    <3> QED
      BY <2>1, <3>1, <3>2, SetsOfChannels DEF Covered, attach
  <2> QED
    BY <2>1, <2>2, CoverKept DEF attach, captures
<1>7. ASSUME NEW a \in Sessions, AttachSubscribe(a) PROVE AttachHasNoGap'
  <2>1. /\ UNCHANGED <<log, captures>> /\ subscriber' = a
        /\ session' = [session EXCEPT ![a] = "subscribed"]
    BY <1>7 DEF AttachSubscribe, stored, store
  <2> QED
    BY <2>1, CoverKept DEF Types, DeliveryTypes, captures
<1>8. ASSUME NEW a \in Sessions, AttachBreak(a) PROVE AttachHasNoGap'
  <2>1. /\ UNCHANGED <<log, captures, subscriber, live, missed, from, sent>>
        /\ session' = [session EXCEPT ![a] = "leaving"]
    BY <1>8 DEF AttachBreak, stored, store
  <2> QED
    BY <2>1, CoverKept DEF Types, DeliveryTypes, Covered, captures
<1>9. ASSUME NEW a \in Sessions, AttachReplay(a) PROVE AttachHasNoGap'
  <2>1. /\ UNCHANGED <<log, captures, subscriber, live, missed>>
        /\ session[a] = "subscribed" /\ session' = [session EXCEPT ![a] = "live"]
        /\ \/ \E o \in 0..outSize :
                 /\ from' = [from EXCEPT ![a] = Min(Replayed(o) \cup {Len(log) + 1})]
                 /\ sent' = [sent EXCEPT ![a] = Replayed(o)]
           \/ from' = [from EXCEPT ![a] = Len(log) + 1] /\ UNCHANGED sent
    BY <1>9 DEF AttachReplay, stored, store
  <2>2. /\ from \in [Sessions -> Nat] /\ sent \in [Sessions -> SUBSET Nat]
        /\ session \in [Sessions -> SessionPCs] /\ Len(log) \in Nat /\ outSize \in Nat
    BY DEF Types, StoreTypes, DeliveryTypes
  <2> SUFFICES ASSUME NEW b \in Sessions, session'[b] = "live", subscriber' = b,
                      NEW n \in from'[b]..Len(log')
               PROVE  \/ n \in Covered(b)'
                      \/ \E t \in Sources : /\ current'[t].seq = n
                                            /\ capture'[t] = "send" => current'[t].to = b
    BY DEF AttachHasNoGap, Covered
  <2>3. CASE b = a
    <3>1. ASSUME NEW o \in 0..outSize,
                 from' = [from EXCEPT ![a] = Min(Replayed(o) \cup {Len(log) + 1})],
                 sent' = [sent EXCEPT ![a] = Replayed(o)]
          PROVE  n \in Covered(b)'
      <4>1. Replayed(o) = Min(Replayed(o) \cup {Len(log) + 1}) .. Len(log)
        BY <2>2, ReplayIsSuffix DEF Types
      <4>2. /\ from'[b] = Min(Replayed(o) \cup {Len(log) + 1})
            /\ sent'[b] = Replayed(o) /\ log' = log
        BY <2>1, <2>2, <2>3, <3>1
      <4>3. n \in sent'[b]
        BY <4>1, <4>2
      <4> QED
        BY <4>3 DEF Covered
    <3>2. CASE from' = [from EXCEPT ![a] = Len(log) + 1]
      <4>1. from'[b] = Len(log) + 1 /\ log' = log
        BY <2>1, <2>2, <2>3, <3>2
      <4> QED
        BY <2>2, <4>1
    <3> QED
      BY <2>1, <3>1, <3>2
  <2>4. CASE b # a
    <3>1. /\ session[b] = "live" /\ subscriber = b /\ from'[b] = from[b] /\ sent'[b] = sent[b]
          /\ n \in from[b]..Len(log)
      BY <2>1, <2>2, <2>4
    <3>2. Covered(b)' = Covered(b)
      BY <2>1, <3>1 DEF Covered
    <3>3. \/ n \in Covered(b)
          \/ \E t \in Sources : /\ current[t].seq = n
                                /\ capture[t] = "send" => current[t].to = b
      BY <3>1 DEF AttachHasNoGap, Covered
    <3> QED
      BY <2>1, <3>2, <3>3 DEF captures
  <2> QED
    BY <2>3, <2>4
<1>10. ASSUME NEW a \in Sessions, AttachNoRow(a) PROVE AttachHasNoGap'
  <2>1. /\ UNCHANGED <<log, captures, subscriber, live, missed, from, sent>>
        /\ session' = [session EXCEPT ![a] = "leaving"]
    BY <1>10 DEF AttachNoRow, stored, store
  <2> QED
    BY <2>1, CoverKept DEF Types, DeliveryTypes, Covered, captures
<1>11. ASSUME NEW a \in Sessions, AttachForward(a) PROVE AttachHasNoGap'
  <2>1. /\ UNCHANGED <<log, captures, subscriber, session, from, missed>>
        /\ live[a] # <<>> /\ live' = [live EXCEPT ![a] = Tail(live[a])]
        /\ sent' = [sent EXCEPT ![a] = sent[a] \cup {Head(live[a])}]
    BY <1>11 DEF AttachForward, stored, store
  <2>2. live \in [Sessions -> Seq(Nat)] /\ sent \in [Sessions -> SUBSET Nat]
    BY DEF Types, DeliveryTypes
  <2>3. ASSUME NEW b \in Sessions PROVE Covered(b) \subseteq Covered(b)'
    <3>1. CASE b = a
      <4>1. /\ live'[a] = Tail(live[a]) /\ sent'[a] = sent[a] \cup {Head(live[a])}
            /\ missed'[a] = missed[a] /\ live[a] \in Seq(Nat)
        BY <2>1, <2>2
      <4>2. ToSet(live[a]) \subseteq ToSet(Tail(live[a])) \cup {Head(live[a])}
        BY <2>1, <4>1, SetsOfChannels
      <4> QED
        BY <3>1, <4>1, <4>2 DEF Covered
    <3>2. CASE b # a
      BY <2>1, <2>2, <3>2 DEF Covered
    <3> QED
      BY <3>1, <3>2
  <2> QED
    BY <2>1, <2>3, CoverKept DEF captures
<1>12. ASSUME NEW a \in Sessions, AttachExit(a) PROVE AttachHasNoGap'
  <2>1. /\ UNCHANGED <<log, captures, subscriber, live, missed, from, sent>>
        /\ session' = [session EXCEPT ![a] = "leaving"]
    BY <1>12 DEF AttachExit, stored, store
  <2> QED
    BY <2>1, CoverKept DEF Types, DeliveryTypes, Covered, captures
<1>13. ASSUME NEW a \in Sessions, AttachDetach(a) PROVE AttachHasNoGap'
  <2>1. /\ UNCHANGED <<log, captures>>
        /\ session' = [session EXCEPT ![a] = "ended"]
        /\ subscriber' = subscriber \/ subscriber' = NoSession
        /\ live' = [live EXCEPT ![a] = <<>>] /\ from' = [from EXCEPT ![a] = 0]
        /\ sent' = [sent EXCEPT ![a] = {}] /\ missed' = [missed EXCEPT ![a] = {}]
    BY <1>13 DEF AttachDetach, stored, store
  <2>2. /\ session \in [Sessions -> SessionPCs] /\ live \in [Sessions -> Seq(Nat)]
        /\ from \in [Sessions -> Nat]
        /\ sent \in [Sessions -> SUBSET Nat] /\ missed \in [Sessions -> SUBSET Nat]
    BY DEF Types, DeliveryTypes
  <2>3. ASSUME NEW b \in Sessions, session'[b] = "live", subscriber' = b
        PROVE  /\ session[b] = "live" /\ subscriber = b /\ from'[b] = from[b]
               /\ Covered(b) \subseteq Covered(b)'
    BY <2>1, <2>2, <2>3 DEF Covered
  <2> QED
    BY <2>1, <2>3, CoverKept DEF captures
<1>14. ASSUME NEW s \in Sources, ProcWrite(s) \/ ReaderRead(s) \/ ReaderEnd(s)
      PROVE  UNCHANGED <<session, subscriber, from, sent, missed, live, current, capture, log>>
  BY <1>14
     DEF ProcWrite, ReaderRead, ReaderEnd, captures, store, stored, attach, delivery
<1>15. ASSUME ProcExit \/ WaiterReap \/ WaiterFinish
            \/ WaiterPersist \/ EofClose \/ DeleteJob
      PROVE  UNCHANGED <<session, subscriber, from, sent, missed, live, current, capture, log>>
  BY <1>15
     DEF ProcExit, WaiterReap, WaiterFinish, WaiterPersist, EofClose, DeleteJob,
         captures, store, stored, attach, delivery
<1>16. ASSUME NEW r \in Readers, ReadLookup(r) \/ ReadRows(r) \/ ReadDiscard(r)
      PROVE  UNCHANGED <<session, subscriber, from, sent, missed, live, current, capture, log>>
  BY <1>16
     DEF ReadLookup, ReadRows, ReadDiscard, captures, store, stored, attach, delivery
<1>17. CASE UNCHANGED <<session, subscriber, from, sent, missed, live, current, capture, log>>
  BY <1>17 DEF AttachHasNoGap
<1>18. CASE UNCHANGED vars
  BY <1>17, <1>18 DEF vars, captures, store, stored, attach, delivery
<1> QED
  BY CaptureEffects, <1>1, <1>2, <1>3, <1>4, <1>5, <1>6, <1>7, <1>8, <1>9, <1>10,
     <1>11, <1>12, <1>13, <1>14, <1>15, <1>16, <1>17, <1>18
     DEF Next, ReaderStep, WaiterStep, SessionStep, Client, ReadStep

\* A source has one row in hand at a time, and it is its latest.
LEMMA OrderKept ==
  ASSUME Types, HeldRows, LiveRows, LiveInSourceOrder, HeldIsLast, [Next]_vars
  PROVE  (LiveInSourceOrder /\ HeldIsLast)'
<1>1. ASSUME NEW s \in Sources, Quiet(s) PROVE (LiveInSourceOrder /\ HeldIsLast)'
  BY <1>1 DEF Quiet, KeepsOthers, LiveInSourceOrder, HeldIsLast, delivery
<1>2. ASSUME NEW s \in Sources, Appended(s) PROVE (LiveInSourceOrder /\ HeldIsLast)'
  <2>1. live' = live
    BY <1>2 DEF Appended, delivery
  <2>2. ASSUME NEW b \in Sessions, NEW i \in 1..Len(live[b]), live[b][i] # 0
        PROVE  log'[live[b][i]] = log[live[b][i]] /\ live[b][i] < Len(log')
               /\ live[b][i] \in Nat
    <3>1. Len(log) \in Nat /\ Len(log') = Len(log) + 1 /\ \A n \in 1..Len(log) : log'[n] = log[n]
      BY <1>2, LogGrows
    <3>2. live[b][i] \in 1..Len(log)
      BY <2>2, <3>1 DEF LiveRows
    <3> QED
      BY <3>1, <3>2
  <2>3. LiveInSourceOrder'
    <3> SUFFICES ASSUME NEW b \in Sessions, NEW m \in 1..Len(live[b]),
                        NEW n \in 1..Len(live[b]), m < n,
                        live[b][m] # 0, live[b][n] # 0,
                        log'[live[b][m]].source = log'[live[b][n]].source
                 PROVE  live[b][m] < live[b][n]
      BY <2>1 DEF LiveInSourceOrder
    <3>1. log[live[b][m]].source = log[live[b][n]].source
      BY <2>2
    <3> QED
      BY <3>1 DEF LiveInSourceOrder
  <2>4. current'[s].seq = Len(log') /\ KeepsOthers(s)
    BY <1>2 DEF Appended
  <2>5. HeldIsLast'
    <3> SUFFICES ASSUME NEW b \in Sessions, NEW t \in Sources, NEW i \in 1..Len(live[b]),
                        capture'[t] \in {"grab", "send"}, live[b][i] # 0,
                        log'[live[b][i]].source = t
                 PROVE  live[b][i] < current'[t].seq
      BY <2>1 DEF HeldIsLast
    <3>1. CASE t = s
      BY <2>2, <2>4, <3>1
    <3>2. CASE t # s
      <4>1. log[live[b][i]].source = t /\ capture[t] = capture'[t] /\ current'[t] = current[t]
        BY <2>2, <2>4, <3>2 DEF KeepsOthers
      <4> QED
        BY <4>1 DEF HeldIsLast
    <3> QED
      BY <3>1, <3>2
  <2> QED
    BY <2>3, <2>5
<1>3. ASSUME NEW s \in Sources, Grabbed(s) PROVE (LiveInSourceOrder /\ HeldIsLast)'
  <2>1. UNCHANGED <<live, log>> /\ LiveInSourceOrder'
    BY <1>3 DEF Grabbed, LiveInSourceOrder, delivery
  <2>2. \A t \in Sources : capture'[t] \in {"grab", "send"} =>
          capture[t] \in {"grab", "send"} /\ current'[t].seq = current[t].seq
    BY <1>3 DEF Grabbed, KeepsOthers
  <2> QED
    BY <2>1, <2>2 DEF HeldIsLast
<1>4. ASSUME NEW s \in Sources, Published(s) PROVE (LiveInSourceOrder /\ HeldIsLast)'
  <2>1. /\ log' = log /\ capture[s] = "send" /\ KeepsOthers(s) /\ capture'[s] = "select"
        /\ current[s].seq \in 1..Len(log) /\ log[current[s].seq].source = s
    BY <1>4 DEF Published, HeldRows
  <2>2. ASSUME NEW b \in Sessions, NEW i \in 1..Len(live'[b])
        PROVE  \/ i \in 1..Len(live[b]) /\ live'[b][i] = live[b][i]
               \/ i = Len(live[b]) + 1 /\ live'[b][i] = current[s].seq
    BY <1>4, ChannelGrows
  <2>3. \A b \in Sessions : Len(live[b]) \in Nat
    BY DEF Types, DeliveryTypes
  <2>4. LiveInSourceOrder'
    <3> SUFFICES ASSUME NEW b \in Sessions, NEW m \in 1..Len(live'[b]),
                        NEW n \in 1..Len(live'[b]), m < n,
                        live'[b][m] # 0, live'[b][n] # 0,
                        log[live'[b][m]].source = log[live'[b][n]].source
                 PROVE  live'[b][m] < live'[b][n]
      BY <2>1 DEF LiveInSourceOrder
    <3>1. m \in 1..Len(live[b]) /\ live'[b][m] = live[b][m]
      <4>1. CASE m = Len(live[b]) + 1
        BY <2>2, <2>3, <4>1
      <4> QED
        BY <2>2, <4>1
    <3>2. CASE n \in 1..Len(live[b]) /\ live'[b][n] = live[b][n]
      BY <3>1, <3>2 DEF LiveInSourceOrder
    <3>3. CASE live'[b][n] = current[s].seq
      BY <2>1, <3>1, <3>3 DEF HeldIsLast
    <3> QED
      BY <2>2, <3>2, <3>3
  <2>5. HeldIsLast'
    <3> SUFFICES ASSUME NEW b \in Sessions, NEW t \in Sources, NEW i \in 1..Len(live'[b]),
                        capture'[t] \in {"grab", "send"}, live'[b][i] # 0,
                        log[live'[b][i]].source = t
                 PROVE  live'[b][i] < current'[t].seq
      BY <2>1 DEF HeldIsLast
    <3>1. t # s /\ capture'[t] = capture[t] /\ current'[t] = current[t]
      BY <2>1 DEF KeepsOthers
    <3>2. i \in 1..Len(live[b]) /\ live'[b][i] = live[b][i]
      BY <2>1, <2>2, <3>1
    <3> QED
      BY <3>1, <3>2 DEF HeldIsLast
  <2> QED
    BY <2>4, <2>5
<1>5. ASSUME EofSend PROVE (LiveInSourceOrder /\ HeldIsLast)'
  <2>1. UNCHANGED <<log, captures>>
    BY <1>5 DEF EofSend, stored, store
  <2>2. ASSUME NEW b \in Sessions, NEW i \in 1..Len(live'[b]), live'[b][i] # 0
        PROVE  i \in 1..Len(live[b]) /\ live'[b][i] = live[b][i]
    BY <1>5, <2>2, EofGrows
  <2>3. LiveInSourceOrder'
    BY <2>1, <2>2 DEF LiveInSourceOrder
  <2>4. HeldIsLast'
    BY <2>1, <2>2 DEF HeldIsLast, captures
  <2> QED
    BY <2>3, <2>4
<1>6. ASSUME NEW a \in Sessions, AttachForward(a) PROVE (LiveInSourceOrder /\ HeldIsLast)'
  <2>1. UNCHANGED <<log, captures>>
    BY <1>6 DEF AttachForward, stored, store
  <2>2. ASSUME NEW b \in Sessions, NEW i \in 1..Len(live'[b])
        PROVE  IF b = a THEN i + 1 \in 1..Len(live[b]) /\ live'[b][i] = live[b][i + 1]
                        ELSE i \in 1..Len(live[b]) /\ live'[b][i] = live[b][i]
    BY <1>6, ChannelShrinks
  <2>3. LiveInSourceOrder'
    <3> SUFFICES ASSUME NEW b \in Sessions, NEW m \in 1..Len(live'[b]),
                        NEW n \in 1..Len(live'[b]), m < n,
                        live'[b][m] # 0, live'[b][n] # 0,
                        log[live'[b][m]].source = log[live'[b][n]].source
                 PROVE  live'[b][m] < live'[b][n]
      BY <2>1 DEF LiveInSourceOrder
    <3>1. CASE b = a
      <4> DEFINE x == m + 1
                 y == n + 1
      <4>1. x \in 1..Len(live[b]) /\ live'[b][m] = live[b][x]
        BY <2>2, <3>1
      <4>2. y \in 1..Len(live[b]) /\ live'[b][n] = live[b][y]
        BY <2>2, <3>1
      <4>3. x < y
        OBVIOUS
      <4> HIDE DEF x, y
      <4> QED
        BY <4>1, <4>2, <4>3 DEF LiveInSourceOrder
    <3>2. CASE b # a
      BY <2>2, <3>2 DEF LiveInSourceOrder
    <3> QED
      BY <3>1, <3>2
  <2>4. HeldIsLast'
    <3> SUFFICES ASSUME NEW b \in Sessions, NEW t \in Sources, NEW i \in 1..Len(live'[b]),
                        capture[t] \in {"grab", "send"}, live'[b][i] # 0,
                        log[live'[b][i]].source = t
                 PROVE  live'[b][i] < current[t].seq
      BY <2>1 DEF HeldIsLast, captures
    <3>1. PICK x \in 1..Len(live[b]) : live'[b][i] = live[b][x]
      BY <2>2
    <3> QED
      BY <3>1 DEF HeldIsLast
  <2> QED
    BY <2>3, <2>4
<1>7. ASSUME NEW a \in Sessions, AttachDetach(a) PROVE (LiveInSourceOrder /\ HeldIsLast)'
  <2>1. /\ UNCHANGED <<log, captures>>
        /\ live \in [Sessions -> Seq(Nat)] /\ live' = [live EXCEPT ![a] = <<>>]
    BY <1>7 DEF AttachDetach, Types, DeliveryTypes, stored, store
  <2>2. ASSUME NEW b \in Sessions, NEW i \in 1..Len(live'[b])
        PROVE  i \in 1..Len(live[b]) /\ live'[b][i] = live[b][i]
    BY <2>1
  <2>3. LiveInSourceOrder'
    BY <2>1, <2>2 DEF LiveInSourceOrder
  <2>4. HeldIsLast'
    BY <2>1, <2>2 DEF HeldIsLast, captures
  <2> QED
    BY <2>3, <2>4
<1>8. ASSUME NEW s \in Sources, ProcWrite(s) \/ ReaderRead(s) \/ ReaderEnd(s)
      PROVE  UNCHANGED <<log, live, current, capture>>
  BY <1>8 DEF ProcWrite, ReaderRead, ReaderEnd, captures, store, stored, delivery
<1>9. ASSUME ProcExit \/ WaiterReap \/ WaiterFinish
            \/ WaiterPersist \/ EofGrab \/ EofClose
            \/ DeleteJob
      PROVE  UNCHANGED <<log, live, current, capture>>
  BY <1>9
     DEF ProcExit, WaiterReap, WaiterFinish, WaiterPersist, EofGrab, EofClose,
         DeleteJob, captures, store, stored, delivery
<1>10. ASSUME NEW a \in Sessions,
               AttachSubscribe(a) \/ AttachBreak(a) \/ AttachReplay(a)
            \/ AttachNoRow(a) \/ AttachExit(a)
      PROVE  UNCHANGED <<log, live, current, capture>>
  BY <1>10
     DEF AttachSubscribe, AttachBreak, AttachReplay, AttachNoRow, AttachExit, captures,
         store, stored, delivery
<1>11. ASSUME NEW r \in Readers, ReadLookup(r) \/ ReadRows(r) \/ ReadDiscard(r)
      PROVE  UNCHANGED <<log, live, current, capture>>
  BY <1>11 DEF ReadLookup, ReadRows, ReadDiscard, captures, store, stored, delivery
<1>12. CASE UNCHANGED <<log, live, current, capture>>
  BY <1>12 DEF LiveInSourceOrder, HeldIsLast
<1>13. CASE UNCHANGED vars
  BY <1>12, <1>13 DEF vars, captures, store, stored, delivery
<1> QED
  BY CaptureEffects, <1>1, <1>2, <1>3, <1>4, <1>5, <1>6, <1>7, <1>8, <1>9, <1>10,
     <1>11, <1>12, <1>13
     DEF Next, ReaderStep, WaiterStep, SessionStep, Client, ReadStep


-----------------------------------------------------------------------------
IInv ==
    /\ Types
    /\ Attachments /\ EndsInOrder
    /\ HeldRows /\ LiveRows /\ StartsAtRow /\ HeldIsLast
    /\ OffsetsContiguous /\ SizeIsEnd /\ RowsFollow
    /\ AttachHasNoGap /\ LiveInSourceOrder

LEMMA IInvInit == Init => IInv
<1> SUFFICES ASSUME Init PROVE IInv
  OBVIOUS
<1>1. \A S : <<>> \in Seq(S) /\ Len(<<>>) = 0
  OBVIOUS
<1>2. SourceTypes
  <2>1. pty \in BOOLEAN /\ PipeCap >= 0 /\ QueueCap + 1 >= 0 /\ 0 \in 0..MaxUnits
    BY DEF Init
  <2> QED
    BY <1>1, <2>1 DEF Init, SourceTypes
<1>3. CaptureTypes
  BY <1>1, HeldFacts DEF Init, CaptureTypes, CapturePCs
<1>4. StoreTypes
  BY <1>1 DEF Init, StoreTypes
<1>5. DeliveryTypes
  <2>1. LiveCap >= 0
    OBVIOUS
  <2>2. /\ live \in [Sessions -> Seq(Nat)] /\ \A a \in Sessions : Len(live[a]) <= LiveCap
        /\ sent \in [Sessions -> SUBSET Nat] /\ missed \in [Sessions -> SUBSET Nat]
    BY <1>1, <2>1 DEF Init
  <2>3. reading \in [Readers -> [at : ReadPCs, upto : Nat]]
    BY DEF Init, ReadPCs
  <2>4. \A s \in Sources : capture[s] # "send"
    BY DEF Init
  <2> QED
    BY <2>2, <2>3, <2>4 DEF Init, DeliveryTypes, Taken, WaiterPCs, SessionPCs
<1>6. Attachments /\ EndsInOrder /\ StartsAtRow
  BY DEF Init, Attachments, AttachmentIsKept, EndsInOrder, StartsAtRow
<1>7. HeldRows /\ LiveRows /\ HeldIsLast
  BY DEF Init, HeldRows, LiveRows, HeldIsLast, NothingHeld
<1>8. OffsetsContiguous /\ SizeIsEnd
  <2>1. Uncounted(Stdout) = 0 /\ Uncounted(Stderr) = 0
    BY DEF Init, Uncounted, Sources
  <2>2. Len(log) = 0 /\ log = <<>> /\ outSize = 0 /\ memSize = 0
    BY <1>1 DEF Init
  <2> QED
    BY <2>1, <2>2 DEF OffsetsContiguous, SizeIsEnd
<1>9. AttachHasNoGap /\ LiveInSourceOrder
  BY DEF Init, AttachHasNoGap, LiveInSourceOrder
<1>10. RowsFollow
  BY DEF Init, RowsFollow
<1> QED
  BY <1>2, <1>3, <1>4, <1>5, <1>6, <1>7, <1>8, <1>9, <1>10 DEF IInv, Types

LEMMA IInvStep == IInv /\ [Next]_vars => IInv'
<1> SUFFICES ASSUME IInv, [Next]_vars PROVE IInv'
  OBVIOUS
<1> USE DEF IInv
<1>1. Types'
  BY SourceTypesKept, CaptureTypesKept, StoreTypesKept, DeliveryTypesKept DEF Types
<1>2. Attachments' /\ EndsInOrder'
  BY AttachmentsKept, EndsInOrderKept
<1>3. HeldRows' /\ LiveRows' /\ StartsAtRow'
  BY HeldRowsKept, LiveRowsKept, StartsKept
<1>4. (OffsetsContiguous /\ SizeIsEnd)' /\ RowsFollow'
  BY OffsetsKept, RowsFollowKept
<1>5. AttachHasNoGap' /\ (LiveInSourceOrder /\ HeldIsLast)'
  BY NoGapKept, OrderKept
<1> QED
  BY <1>1, <1>2, <1>3, <1>4, <1>5

LEMMA Invariant == Spec => []IInv
BY IInvInit, IInvStep, PTL DEF Spec

\* Every variable of the pipeline keeps its type: pipes, queues, chunks and channels
\* stay inside their capacities (manager.go:840-1070).
THEOREM TypeCorrect == Spec => []TypeOK
<1>1. IInv => TypeOK
  BY TypesSay DEF IInv
<1> QED
  BY Invariant, <1>1, PTL

\* The rows of an execution tile its output, whichever source they are of, and a client
\* that resumes at the end of a chunk it has gets the rest, once and in order
\* (Store.AppendOutput, Store.StreamOutput, Service.Attach).
THEOREM ResumeGetsTheRest == Spec => []ResumeIsExact
<1>1. ASSUME IInv PROVE ResumeIsExact
  <2> DEFINE End(n) == log[n].offset + Len(log[n].units)
  <2>0. Len(log) \in Nat /\ discarded \in Nat
    BY <1>1 DEF IInv, Types, StoreTypes
  <2>1. \A n \in 1..Len(log) : /\ log[n].offset \in Nat /\ Len(log[n].units) \in Nat
                               /\ Len(log[n].units) >= 1
    BY <1>1, StoredRow DEF IInv, Types, RowsFollow
  <2>2. \A m, n \in 1..Len(log) : m < n => End(m) <= log[n].offset /\ End(m) < End(n)
    BY <1>1, RowsInOrder DEF IInv, Types
  <2>3. \A m, n \in 1..Len(log) : m < n => log[m].offset < log[n].offset
    BY <1>1, RowsInOrder DEF IInv, Types
  <2>4. ASSUME NEW o \in RowEnds, NEW n \in discarded + 1 .. Len(log)
        PROVE  n \in Replayed(o) <=> End(n) > o
    <3>1. n \in 1..Len(log)
      BY <2>0
    <3>2. n \in Replayed(o) <=> log[n].offset >= o
      BY DEF Replayed
    <3>3. CASE o = 0
      BY <2>1, <3>1, <3>2, <3>3
    <3>4. ASSUME NEW m \in 1..Len(log), o = End(m)
          PROVE  n \in Replayed(o) <=> End(n) > o
      <4>1. /\ End(m) \in Nat /\ End(n) \in Nat /\ log[n].offset \in Nat
            /\ log[n].offset < End(n)
        <5> DEFINE begin == log[n].offset
                   size == Len(log[n].units)
        <5>1. begin \in Nat /\ size \in Nat /\ size >= 1 /\ End(m) \in Nat
          BY <2>1, <3>1
        <5> HIDE DEF begin, size
        <5>2. begin + size \in Nat /\ begin < begin + size
          BY <5>1
        <5> QED
          BY <5>1, <5>2 DEF begin, size
      <4>2. CASE m < n
        <5>1. End(m) <= log[n].offset /\ End(m) < End(n)
          BY <2>2, <3>1, <4>2
        <5> HIDE DEF End
        <5> QED
          BY <3>2, <3>4, <4>1, <5>1
      <4>3. CASE ~(m < n)
        <5>1. m = n \/ n < m
          BY <3>1, <4>3
        <5>2. End(n) <= End(m)
          BY <2>2, <3>1, <4>1, <5>1
        <5> HIDE DEF End
        <5> QED
          BY <3>2, <3>4, <4>1, <5>2
      <4> QED
        BY <4>2, <4>3
    <3> QED
      BY <3>3, <3>4 DEF RowEnds
  <2> QED
    BY <1>1, <2>3, <2>4 DEF ResumeIsExact, IInv
<1> QED
  BY Invariant, <1>1, PTL

\* A subscriber misses no row between its replay and the live events
\* (Service.Attach, publish).
THEOREM SubscriberMissesNothing == Spec => []AttachHasNoGap
<1>1. IInv => AttachHasNoGap
  BY DEF IInv
<1> QED
  BY Invariant, <1>1, PTL

\* Live events of a source arrive in the order of their rows (publish).
THEOREM SourcesStayInOrder == Spec => []LiveInSourceOrder
<1>1. IInv => LiveInSourceOrder
  BY DEF IInv
<1> QED
  BY Invariant, <1>1, PTL

\* Only its own end or EOF ends an attachment, and whom EOF detaches learns of it
\* (Manager.Attach and its detach, publish).
THEOREM AttachmentSurvives == Spec => []AttachmentIsKept
<1>1. IInv => AttachmentIsKept
  BY DEF IInv, Attachments
<1> QED
  BY Invariant, <1>1, PTL

\* Who learns of the end finds the outcome (waitForExit).
THEOREM EndComesLast == Spec => []EofAfterOutcome
<1>1. IInv => EofAfterOutcome
  <2> SUFFICES ASSUME IInv, NEW a \in Sessions, a \in closed \/ 0 \in ToSet(live[a])
               PROVE  row # "running" \/ faults > 0
    BY DEF EofAfterOutcome
  <2>1. waiter \in {"close", "done"}
    <3>1. CASE a \in closed
      BY <3>1 DEF IInv, EndsInOrder
    <3>2. CASE 0 \in ToSet(live[a])
      <4>1. live[a] \in Seq(Nat)
        BY DEF IInv, Types, DeliveryTypes
      <4>2. PICK i \in 1..Len(live[a]) : live[a][i] = 0
        BY <3>2, <4>1 DEF ToSet
      <4> QED
        BY <4>2 DEF IInv, EndsInOrder
    <3> QED
      BY <3>1, <3>2
  <2> QED
    BY <2>1 DEF IInv, EndsInOrder
<1> QED
  BY Invariant, <1>1, PTL

=============================================================================
