---------------------------- MODULE ExecIOProofs ----------------------------
(***************************************************************************)
(* What holds of the mutex of an execution for any number of WriteStdin    *)
(* and ResizePTY calls, messages of any length and pipes of any capacity.  *)
(***************************************************************************)
EXTENDS ExecIO, FiniteSetTheorems, TLAPS

\* The mutex belongs to the call that is in its critical section; a writer found
\* the input open, and a resizer has put its own size into memory.
LockIsHeld ==
    /\ \A w \in Writers : (writer[w] = "write") <=> (mu = w)
    /\ \A z \in Resizers : (resizer[z] = "store") <=> (mu = z)
    /\ mu \in Writers => stdin
    /\ mu \in Resizers => memSize = mu
    /\ SizesAgree

IInv == TypeOK /\ LockIsHeld

LEMMA TypeOKStep ==
  ASSUME TypeOK, [Next]_vars
  PROVE  TypeOK'
<1>1. ASSUME NEW w \in Writers, WriteBegin(w)  PROVE TypeOK'
  BY <1>1 DEF WriteBegin, TypeOK, WriterPCs, pipes, terminal
<1>2. ASSUME NEW w \in Writers, WriteLock(w)  PROVE TypeOK'
  BY <1>2 DEF WriteLock, TypeOK, WriterPCs, pipes, terminal
<1>3. ASSUME NEW w \in Writers, WriteUnit(w)  PROVE TypeOK'
  BY <1>3, ExecIOAssumption DEF WriteUnit, TypeOK, ResizerPCs, terminal
<1>4. ASSUME NEW w \in Writers, WriteEnd(w)  PROVE TypeOK'
  <2>1. input' \in 0..InCap /\ accepted' \in Seq(Writers \X (0..MsgLen))
    <3>1. CASE UNCHANGED <<input, accepted>>
      BY <3>1 DEF TypeOK
    <3>2. CASE input < InCap /\ input' = input + 1 /\ accepted' = Append(accepted, <<w, EOT>>)
      <4>1. <<w, EOT>> \in Writers \X (0..MsgLen)
        BY ExecIOAssumption DEF EOT
      <4> QED
        BY <3>2, <4>1, ExecIOAssumption DEF TypeOK
    <3> QED
      BY <1>4, <3>1, <3>2 DEF WriteEnd
  <2>2. stdin' \in BOOLEAN
    BY <1>4, Zenon DEF WriteEnd, TypeOK
  <2> QED
    BY <1>4, <2>1, <2>2 DEF WriteEnd, TypeOK, WriterPCs, terminal
<1>5. ASSUME NEW w \in Writers, WriteFails(w)  PROVE TypeOK'
  BY <1>5 DEF WriteFails, TypeOK, WriterPCs, pipes, terminal
<1>6. CASE ChildRead
  BY <1>6, ExecIOAssumption DEF ChildRead, TypeOK, writing, terminal
<1>7. CASE ChildWrite
  <2>1. output' \in 0..OutCap
    BY <1>7, ExecIOAssumption DEF ChildWrite, TypeOK
  <2> QED
    BY <1>7, <2>1 DEF ChildWrite, TypeOK, writing, terminal
<1>21. CASE ChildCloses
  BY <1>21 DEF ChildCloses, TypeOK, pipes, writing, terminal
<1>8. CASE ChildExit
  BY <1>8 DEF ChildExit, TypeOK, pipes, writing, terminal
<1>9. CASE CaptureTake
  BY <1>9, ExecIOAssumption DEF CaptureTake, TypeOK, writing, terminal
<1>10. CASE CapturePublish
  BY <1>10 DEF CapturePublish, TypeOK, pipes, writing, terminal
<1>11. CASE CancelBegin
  BY <1>11 DEF CancelBegin, TypeOK, CancelPCs, pipes, writing, terminal
<1>12. CASE CancelLock
  BY <1>12 DEF CancelLock, TypeOK, CancelPCs, pipes, writing, terminal
<1>13. CASE CancelKill
  BY <1>13 DEF CancelKill, TypeOK, CancelPCs, pipes, writing, terminal
<1>14. CASE CancelView
  BY <1>14 DEF CancelView, TypeOK, CancelPCs, pipes, writing, terminal
<1>15. CASE WaiterReap
  BY <1>15 DEF WaiterReap, TypeOK, pipes, writing, terminal
<1>16. CASE WaiterFinish
  BY <1>16 DEF WaiterFinish, TypeOK, pipes, writing, terminal
<1>17. ASSUME NEW z \in Resizers, ResizeBegin(z)  PROVE TypeOK'
  BY <1>17 DEF ResizeBegin, TypeOK, ResizerPCs, pipes, writing
<1>18. ASSUME NEW z \in Resizers, ResizeLock(z)  PROVE TypeOK'
  BY <1>18 DEF ResizeLock, TypeOK, ResizerPCs, pipes, writing
<1>19. ASSUME NEW z \in Resizers, ResizeStore(z)  PROVE TypeOK'
  BY <1>19 DEF ResizeStore, TypeOK, ResizerPCs, pipes, writing
<1>20. CASE UNCHANGED vars
  BY <1>20 DEF vars, TypeOK, pipes, writing, terminal
<1> QED
  BY <1>1, <1>2, <1>3, <1>4, <1>5, <1>6, <1>7, <1>8, <1>9, <1>10,
     <1>11, <1>12, <1>13, <1>14, <1>15, <1>16, <1>17, <1>18, <1>19, <1>20, <1>21
  DEF Next, WriterStep, ChildStep, CaptureStep, CancelStep, WaiterStep, ResizeStep

LEMMA LockIsHeldStep ==
  ASSUME TypeOK, LockIsHeld, [Next]_vars
  PROVE  LockIsHeld'
<1>1. ASSUME NEW w \in Writers, WriteBegin(w)  PROVE LockIsHeld'
  BY <1>1 DEF WriteBegin, LockIsHeld, SizesAgree, terminal
<1>2. ASSUME NEW w \in Writers, WriteLock(w)  PROVE LockIsHeld'
  BY <1>2, ExecIOAssumption DEF WriteLock, TypeOK, LockIsHeld, SizesAgree, terminal
<1>3. ASSUME NEW w \in Writers, WriteUnit(w)  PROVE LockIsHeld'
  BY <1>3 DEF WriteUnit, LockIsHeld, SizesAgree, terminal
<1>4. ASSUME NEW w \in Writers, WriteEnd(w)  PROVE LockIsHeld'
  BY <1>4, ExecIOAssumption DEF WriteEnd, TypeOK, LockIsHeld, SizesAgree, terminal
<1>5. ASSUME NEW w \in Writers, WriteFails(w)  PROVE LockIsHeld'
  BY <1>5, ExecIOAssumption DEF WriteFails, TypeOK, LockIsHeld, SizesAgree, terminal
<1>6. CASE ChildRead
  BY <1>6 DEF ChildRead, LockIsHeld, SizesAgree, writing, terminal
<1>7. CASE ChildWrite
  BY <1>7 DEF ChildWrite, LockIsHeld, SizesAgree, writing, terminal
<1>21. CASE ChildCloses
  BY <1>21 DEF ChildCloses, LockIsHeld, SizesAgree, writing, terminal
<1>8. CASE ChildExit
  BY <1>8 DEF ChildExit, LockIsHeld, SizesAgree, writing, terminal
<1>9. CASE CaptureTake
  BY <1>9 DEF CaptureTake, LockIsHeld, SizesAgree, writing, terminal
<1>10. CASE CapturePublish
  BY <1>10 DEF CapturePublish, LockIsHeld, SizesAgree, writing, terminal
<1>11. CASE CancelBegin
  BY <1>11 DEF CancelBegin, LockIsHeld, SizesAgree, writing, terminal
<1>12. CASE CancelLock
  BY <1>12 DEF CancelLock, LockIsHeld, SizesAgree, writing, terminal
<1>13. CASE CancelKill
  BY <1>13 DEF CancelKill, LockIsHeld, SizesAgree, writing, terminal
<1>14. CASE CancelView
  BY <1>14 DEF CancelView, LockIsHeld, SizesAgree, writing, terminal
<1>15. CASE WaiterReap
  BY <1>15 DEF WaiterReap, LockIsHeld, SizesAgree, writing, terminal
<1>16. CASE WaiterFinish
  BY <1>16, ExecIOAssumption DEF WaiterFinish, LockIsHeld, SizesAgree, writing, terminal
<1>17. ASSUME NEW z \in Resizers, ResizeBegin(z)  PROVE LockIsHeld'
  BY <1>17 DEF ResizeBegin, LockIsHeld, SizesAgree, writing
<1>18. ASSUME NEW z \in Resizers, ResizeLock(z)  PROVE LockIsHeld'
  BY <1>18, ExecIOAssumption DEF ResizeLock, TypeOK, LockIsHeld, SizesAgree, writing
<1>19. ASSUME NEW z \in Resizers, ResizeStore(z)  PROVE LockIsHeld'
  BY <1>19, ExecIOAssumption DEF ResizeStore, TypeOK, LockIsHeld, SizesAgree, writing
<1>20. CASE UNCHANGED vars
  BY <1>20 DEF vars, LockIsHeld, SizesAgree, writing, terminal
<1> QED
  BY <1>1, <1>2, <1>3, <1>4, <1>5, <1>6, <1>7, <1>8, <1>9, <1>10,
     <1>11, <1>12, <1>13, <1>14, <1>15, <1>16, <1>17, <1>18, <1>19, <1>20, <1>21
  DEF Next, WriterStep, ChildStep, CaptureStep, CancelStep, WaiterStep, ResizeStep

LEMMA IInvInit == Init => IInv
<1> SUFFICES ASSUME Init  PROVE IInv
  OBVIOUS
<1>1. input \in 0..InCap /\ output \in 0..OutCap /\ left \in [Writers -> 0..MsgLen]
  BY ExecIOAssumption DEF Init
<1>2. accepted \in Seq(Writers \X (0..MsgLen))
  BY DEF Init
<1>3. TypeOK
  BY <1>1, <1>2 DEF Init, TypeOK, WriterPCs, ResizerPCs, CancelPCs
<1>4. LockIsHeld
  BY ExecIOAssumption DEF Init, LockIsHeld, SizesAgree
<1> QED
  BY <1>3, <1>4 DEF IInv

LEMMA Invariant == Spec => []IInv
<1>1. IInv /\ [Next]_vars => IInv'
  BY TypeOKStep, LockIsHeldStep DEF IInv
<1> QED
  BY IInvInit, <1>1, PTL DEF Spec

\* Every variable keeps its type; in particular the pipes never hold more than
\* their capacity (WriteUnit, WriteEnd, ChildWrite).
THEOREM TypeCorrect == Spec => []TypeOK
<1>1. IInv => TypeOK
  BY DEF IInv
<1> QED
  BY Invariant, <1>1, PTL

\* Memory and the jobs row differ only while a resize is between the two or after one
\* whose caller was told that it could not be stored, and the row holds the size of a
\* successful one, in whatever order concurrent resizes get the mutex (ResizePTY).
THEOREM ResizesAgree == Spec => []SizesAgree
<1>1. IInv => SizesAgree
  BY DEF IInv, LockIsHeld
<1> QED
  BY Invariant, <1>1, PTL

\* No unit gets into an input that EOF or the exit has closed (WriteStdin,
\* waitForExit): who writes has the mutex since it found the input open.
THEOREM WritesFindInputOpen == Spec => InputOnlyWhileOpen
<1>1. IInv /\ [Next]_vars => [accepted' # accepted => stdin]_vars
  <2> SUFFICES ASSUME IInv, Next, accepted' # accepted
               PROVE  stdin
    BY DEF vars
  <2>1. PICK w \in Writers : WriteUnit(w) \/ WriteEnd(w)
    BY DEF Next, WriterStep, ChildStep, CaptureStep, CancelStep, WaiterStep, ResizeStep,
           WriteBegin, WriteLock, WriteFails, ChildRead, ChildWrite, ChildCloses, ChildExit, CaptureTake,
           CapturePublish, CancelBegin, CancelLock, CancelKill, CancelView, WaiterReap,
           WaiterFinish, ResizeBegin, ResizeLock, ResizeStore, pipes
  <2>2. writer[w] = "write"
    BY <2>1 DEF WriteUnit, WriteEnd
  <2> QED
    BY <2>2 DEF IInv, LockIsHeld
<1> QED
  BY Invariant, <1>1, PTL DEF Spec, InputOnlyWhileOpen

-----------------------------------------------------------------------------
(* Messages stay whole. *)

\* The last unit written is the end of its message, or its writer is about to write
\* the next one, or nobody will ever write again; what a writer has still to write is
\* what its message lacks.
MessagesInOrder ==
    /\ \A p \in 1..Len(accepted) - 1 :
          accepted[p][2] > 1 => accepted[p+1] = <<accepted[p][1], accepted[p][2] - 1>>
    /\ Len(accepted) > 0 /\ accepted[Len(accepted)][2] > 1 =>
          \/ InputGone
          \/ /\ mu = accepted[Len(accepted)][1]
             /\ left[mu] = accepted[Len(accepted)][2] - 1
UnitsAreCounted ==
    \A w \in Writers : /\ Cardinality(UnitsOf(w)) = MsgLen - left[w]
                       /\ writer[w] = "ok" => left[w] = 0

LEMMA UnitsAreFinite == \A w \in Writers : TypeOK => IsFiniteSet(UnitsOf(w))
<1> SUFFICES ASSUME NEW w \in Writers, TypeOK  PROVE IsFiniteSet(UnitsOf(w))
  OBVIOUS
<1>1. IsFiniteSet(1..Len(accepted))
  BY FS_Interval
<1>2. UnitsOf(w) \subseteq 1..Len(accepted)
  BY DEF UnitsOf
<1> QED
  BY <1>1, <1>2, FS_Subset

\* A unit that is appended counts for its writer alone, an EOT for nobody.
LEMMA AppendedUnit ==
  ASSUME TypeOK, NEW w \in Writers, NEW k \in 0..MsgLen, accepted' = Append(accepted, <<w, k>>)
  PROVE  /\ \A v \in Writers : v # w \/ k = EOT => UnitsOf(v)' = UnitsOf(v)
         /\ k # EOT => Cardinality(UnitsOf(w)') = Cardinality(UnitsOf(w)) + 1
<1>1. /\ Len(accepted') = Len(accepted) + 1
      /\ Len(accepted) \in Nat
      /\ accepted'[Len(accepted) + 1] = <<w, k>>
      /\ \A p \in 1..Len(accepted) : accepted'[p] = accepted[p]
  BY DEF TypeOK
<1>2. \A v \in Writers : v # w \/ k = EOT => UnitsOf(v)' = UnitsOf(v)
  BY <1>1 DEF UnitsOf
<1>3. ASSUME k # EOT
      PROVE  Cardinality(UnitsOf(w)') = Cardinality(UnitsOf(w)) + 1
  <2>1. UnitsOf(w)' = UnitsOf(w) \cup {Len(accepted) + 1}
    BY <1>1, <1>3 DEF UnitsOf
  <2>2. Len(accepted) + 1 \notin UnitsOf(w)
    BY <1>1 DEF UnitsOf
  <2> QED
    BY <2>1, <2>2, UnitsAreFinite, FS_AddElement
<1> QED
  BY <1>2, <1>3

\* Who has closed its input, or ended, never reads again.
LEMMA InputStaysGone ==
  ASSUME [Next]_vars
  PROVE  InputGone => InputGone'
<1>1. child = "exited" => child' = "exited"
  BY DEF Next, WriterStep, ChildStep, CaptureStep, CancelStep, WaiterStep, ResizeStep,
         WriteBegin, WriteLock, WriteUnit, WriteEnd, WriteFails, ChildRead, ChildWrite,
         ChildCloses, ChildExit, CaptureTake, CapturePublish, CancelBegin, CancelLock,
         CancelKill, CancelView, WaiterReap, WaiterFinish, ResizeBegin, ResizeLock,
         ResizeStore, vars
<1>2. ~listening => ~listening'
  BY DEF Next, WriterStep, ChildStep, CaptureStep, CancelStep, WaiterStep, ResizeStep,
         WriteBegin, WriteLock, WriteUnit, WriteEnd, WriteFails, ChildRead, ChildWrite,
         ChildCloses, ChildExit, CaptureTake, CapturePublish, CancelBegin, CancelLock,
         CancelKill, CancelView, WaiterReap, WaiterFinish, ResizeBegin, ResizeLock,
         ResizeStore, vars
<1> QED
  BY <1>1, <1>2 DEF InputGone

LEMMA MessagesInOrderStep ==
  ASSUME TypeOK, LockIsHeld, MessagesInOrder, [Next]_vars
  PROVE  MessagesInOrder'
<1>1. ASSUME UNCHANGED accepted,
             Len(accepted) > 0 /\ accepted[Len(accepted)][2] > 1 =>
                InputGone' \/ (mu' = mu /\ left' = left)
      PROVE  MessagesInOrder'
  BY <1>1, InputStaysGone DEF MessagesInOrder
<1>2. ASSUME NEW w \in Writers, NEW k \in 0..MsgLen, mu = w, ~InputGone, left[w] = k,
             accepted' = Append(accepted, <<w, k>>),
             k > 1 => mu' = w /\ left'[w] = k - 1
      PROVE  MessagesInOrder'
  <2>1. /\ Len(accepted') = Len(accepted) + 1
        /\ Len(accepted) \in Nat
        /\ accepted'[Len(accepted) + 1] = <<w, k>>
        /\ \A p \in 1..Len(accepted) : accepted'[p] = accepted[p]
    BY <1>2
  <2>2. ASSUME NEW p \in 1..Len(accepted') - 1, accepted'[p][2] > 1
        PROVE  accepted'[p+1] = <<accepted'[p][1], accepted'[p][2] - 1>>
    <3>1. CASE p = Len(accepted)
      BY <1>2, <2>1, <2>2, <3>1 DEF MessagesInOrder
    <3>2. CASE p \in 1..Len(accepted) - 1
      BY <2>1, <2>2, <3>2 DEF MessagesInOrder
    <3> QED
      BY <2>1, <3>1, <3>2
  <2>3. accepted'[Len(accepted')][2] > 1 =>
           mu' = accepted'[Len(accepted')][1] /\ left'[mu'] = accepted'[Len(accepted')][2] - 1
    BY <1>2, <2>1
  <2> QED
    BY <2>2, <2>3 DEF MessagesInOrder
<1>3. ASSUME Len(accepted) > 0, accepted[Len(accepted)][2] > 1
      PROVE  InputGone \/ \E w \in Writers : mu = w /\ left[w] > 0
  <2>1. accepted[Len(accepted)] \in Writers \X (0..MsgLen)
    BY <1>3 DEF TypeOK
  <2> QED
    BY <1>3, <2>1 DEF MessagesInOrder
<1>4. ASSUME NEW w \in Writers, WriteLock(w)  PROVE MessagesInOrder'
  BY <1>1, <1>3, <1>4, InputStaysGone, ExecIOAssumption DEF WriteLock, pipes
<1>5. ASSUME NEW w \in Writers, WriteUnit(w)  PROVE MessagesInOrder'
  <2>1. mu = w /\ left[w] \in 0..MsgLen /\ left'[w] = left[w] - 1
    BY <1>5 DEF WriteUnit, LockIsHeld, TypeOK
  <2> QED
    BY <1>2, <1>5, <2>1 DEF WriteUnit
<1>6. ASSUME NEW w \in Writers, WriteEnd(w)  PROVE MessagesInOrder'
  <2>1. mu = w /\ left[w] = 0
    BY <1>6 DEF WriteEnd, LockIsHeld
  <2>2. CASE UNCHANGED accepted
    BY <1>1, <1>3, <1>6, <2>1, <2>2, InputStaysGone DEF WriteEnd
  <2>3. CASE ~InputGone /\ accepted' = Append(accepted, <<w, EOT>>)
    BY <1>2, <2>1, <2>3, ExecIOAssumption DEF EOT
  <2> QED
    BY <1>6, <2>2, <2>3 DEF WriteEnd
<1>7. ASSUME NEW w \in Writers, WriteFails(w)  PROVE MessagesInOrder'
  <2>1. InputGone
    BY <1>7 DEF WriteFails, InputGone
  <2> QED
    BY <1>1, <1>7, <2>1, InputStaysGone DEF WriteFails, pipes
<1>8. ASSUME NEW w \in Writers, WriteBegin(w)  PROVE MessagesInOrder'
  BY <1>1, <1>8 DEF WriteBegin, pipes
<1>9. CASE ChildStep
  BY <1>1, <1>9 DEF ChildStep, ChildRead, ChildWrite, ChildCloses, ChildExit, pipes, writing
<1>11. CASE CaptureStep
  BY <1>1, <1>11 DEF CaptureStep, CaptureTake, CapturePublish, pipes, writing
<1>12. CASE CancelBegin \/ CancelStep
  <2>1. UNCHANGED <<accepted, mu, left>>
    BY <1>12 DEF CancelBegin, CancelStep, CancelLock, CancelKill, CancelView, pipes, writing
  <2> QED
    BY <1>1, <2>1
<1>13. CASE WaiterStep
  BY <1>1, <1>13 DEF WaiterStep, WaiterReap, WaiterFinish, pipes, writing
<1>14. ASSUME NEW z \in Resizers, ResizeBegin(z) \/ ResizeStep(z)
      PROVE  MessagesInOrder'
  <2>1. mu \notin Writers \/ UNCHANGED mu
    BY <1>14, ExecIOAssumption
    DEF ResizeBegin, ResizeStep, ResizeLock, ResizeStore, LockIsHeld
  <2>2. UNCHANGED <<accepted, left>>
    BY <1>14 DEF ResizeBegin, ResizeStep, ResizeLock, ResizeStore, pipes, writing
  <2> QED
    BY <1>1, <1>3, <2>1, <2>2, InputStaysGone
<1>15. CASE UNCHANGED vars
  BY <1>1, <1>15 DEF vars, pipes, writing
<1> QED
  BY <1>4, <1>5, <1>6, <1>7, <1>8, <1>9, <1>11, <1>12, <1>13, <1>14, <1>15
  DEF Next, WriterStep

LEMMA UnitsAreCountedStep ==
  ASSUME TypeOK, UnitsAreCounted, [Next]_vars
  PROVE  UnitsAreCounted'
<1>1. ASSUME UNCHANGED <<accepted, left>>, \A w \in Writers : writer'[w] = "ok" => writer[w] = "ok"
      PROVE  UnitsAreCounted'
  BY <1>1 DEF UnitsAreCounted, UnitsOf
<1>2. ASSUME NEW w \in Writers, WriteUnit(w)  PROVE UnitsAreCounted'
  <2>1. /\ left[w] \in 1..MsgLen
        /\ left' = [left EXCEPT ![w] = left[w] - 1]
        /\ accepted' = Append(accepted, <<w, left[w]>>)
        /\ writer[w] = "write" /\ writer' = writer
    BY <1>2 DEF WriteUnit, TypeOK
  <2>2. /\ Cardinality(UnitsOf(w)') = Cardinality(UnitsOf(w)) + 1
        /\ \A v \in Writers \ {w} : UnitsOf(v)' = UnitsOf(v)
    BY <2>1, AppendedUnit DEF EOT
  <2>3. left'[w] = left[w] - 1 /\ \A v \in Writers \ {w} : left'[v] = left[v]
    BY <2>1 DEF TypeOK
  <2>4. Cardinality(UnitsOf(w)') = MsgLen - left'[w]
    BY <2>1, <2>2, <2>3, ExecIOAssumption DEF UnitsAreCounted
  <2> QED
    BY <2>1, <2>2, <2>3, <2>4 DEF UnitsAreCounted
<1>3. ASSUME NEW w \in Writers, WriteEnd(w)  PROVE UnitsAreCounted'
  <2>1. \A v \in Writers : UnitsOf(v)' = UnitsOf(v)
    <3>1. CASE UNCHANGED accepted
      BY <3>1 DEF UnitsOf
    <3>2. CASE accepted' = Append(accepted, <<w, EOT>>)
      BY <3>2, AppendedUnit, ExecIOAssumption DEF EOT
    <3> QED
      BY <1>3, <3>1, <3>2 DEF WriteEnd
  <2>2. left' = left /\ left[w] = 0 /\ \A v \in Writers \ {w} : writer'[v] = writer[v]
    BY <1>3 DEF WriteEnd
  <2> QED
    BY <2>1, <2>2 DEF UnitsAreCounted
<1>4. ASSUME NEW w \in Writers, WriteBegin(w) \/ WriteLock(w) \/ WriteFails(w)
      PROVE  UnitsAreCounted'
  BY <1>1, <1>4 DEF WriteBegin, WriteLock, WriteFails, TypeOK, pipes
<1>5. CASE ChildStep
  BY <1>1, <1>5 DEF ChildStep, ChildRead, ChildWrite, ChildCloses, ChildExit, pipes, writing
<1>6. CASE CaptureStep
  BY <1>1, <1>6 DEF CaptureStep, CaptureTake, CapturePublish, pipes, writing
<1>7. CASE CancelBegin \/ CancelStep
  BY <1>1, <1>7
  DEF CancelBegin, CancelStep, CancelLock, CancelKill, CancelView, pipes, writing
<1>8. CASE WaiterStep
  BY <1>1, <1>8 DEF WaiterStep, WaiterReap, WaiterFinish, pipes, writing
<1>9. ASSUME NEW z \in Resizers, ResizeBegin(z) \/ ResizeStep(z)
      PROVE  UnitsAreCounted'
  BY <1>1, <1>9 DEF ResizeBegin, ResizeStep, ResizeLock, ResizeStore, pipes, writing
<1>10. CASE UNCHANGED vars
  BY <1>1, <1>10 DEF vars, pipes, writing
<1> QED
  BY <1>2, <1>3, <1>4, <1>5, <1>6, <1>7, <1>8, <1>9, <1>10 DEF Next, WriterStep

\* Concurrent WriteStdin calls never mix their messages, and one that succeeded has
\* written its whole message, however many calls and units there are.
THEOREM MessagesAreWhole == Spec => []MessagesStayWhole
<1>1. Init => MessagesInOrder /\ UnitsAreCounted
  <2> SUFFICES ASSUME Init  PROVE MessagesInOrder /\ UnitsAreCounted
    OBVIOUS
  <2>1. \A w \in Writers : UnitsOf(w) = {}
    BY DEF Init, UnitsOf
  <2>2. UnitsAreCounted
    <3> SUFFICES ASSUME NEW w \in Writers
                 PROVE  Cardinality(UnitsOf(w)) = MsgLen - left[w] /\ writer[w] # "ok"
      BY DEF UnitsAreCounted
    <3>1. Cardinality(UnitsOf(w)) = 0
      BY <2>1, FS_EmptySet
    <3>2. MsgLen - left[w] = 0
      BY ExecIOAssumption DEF Init
    <3> QED
      BY <3>1, <3>2 DEF Init
  <2> QED
    BY <2>2 DEF Init, MessagesInOrder
<1>2. /\ IInv /\ MessagesInOrder /\ UnitsAreCounted
      /\ [Next]_vars
      => (MessagesInOrder /\ UnitsAreCounted)'
  BY MessagesInOrderStep, UnitsAreCountedStep DEF IInv
<1>3. MessagesInOrder /\ UnitsAreCounted => MessagesStayWhole
  <2> SUFFICES ASSUME MessagesInOrder, UnitsAreCounted  PROVE MessagesStayWhole
    OBVIOUS
  <2>1. ASSUME NEW w \in Writers, writer[w] = "ok"  PROVE Cardinality(UnitsOf(w)) = MsgLen
    <3>1. Cardinality(UnitsOf(w)) = MsgLen - left[w] /\ left[w] = 0
      BY <2>1 DEF UnitsAreCounted
    <3> QED
      BY <3>1, ExecIOAssumption
  <2> QED
    BY <2>1 DEF MessagesInOrder, MessagesStayWhole
<1> QED
  BY Invariant, <1>1, <1>2, <1>3, PTL DEF Spec

-----------------------------------------------------------------------------
(* Nobody waits with the mutex held while all that was asked for fits.     *)

\* What is in the input was accepted.
InputWasAccepted == input <= Len(accepted)

\* No unit is accepted twice, those of a message by their numbers, which go down,
\* an EOT because its call ends with it; and none before its call has had the mutex.
Given == {accepted[p] : p \in 1..Len(accepted)}
AcceptedOnce ==
    /\ IsFiniteSet(Given) /\ Cardinality(Given) = Len(accepted)
    /\ \A w \in Writers, k \in Nat : <<w, k>> \in Given =>
          /\ w \in Served
          /\ IF k = EOT THEN w \in Closers /\ writer[w] = "ok" ELSE left[w] < k

\* The only two steps that write, and what they leave as it is.
Accepts(w, k) ==
    /\ writer[w] = "write" /\ input' = input + 1 /\ accepted' = Append(accepted, <<w, k>>)
    /\ IF k = EOT
       THEN w \in Closers /\ left' = left /\ writer' = [writer EXCEPT ![w] = "ok"]
       ELSE /\ k = left[w] /\ left' = [left EXCEPT ![w] = k - 1] /\ UNCHANGED writer

\* A call that has had the mutex has had it for good, and so with one that has succeeded.
WritersGoOn == /\ Served \subseteq Served'
               /\ \A v \in Writers : writer[v] = "ok" => writer'[v] = "ok"

LEMMA WritesAccept ==
  ASSUME TypeOK, NEW w \in Writers, WriteUnit(w) \/ WriteEnd(w)
  PROVE  \/ \E k \in 0..MsgLen : Accepts(w, k)
         \/ /\ UNCHANGED <<input, accepted, left>>
            /\ WritersGoOn
<1>1. CASE WriteUnit(w)
  <2>1. left[w] \in 0..MsgLen /\ left[w] # EOT
    BY <1>1 DEF WriteUnit, TypeOK, EOT
  <2>2. Accepts(w, left[w])
    BY <1>1, <2>1 DEF WriteUnit, Accepts
  <2> QED
    BY <2>1, <2>2
<1>2. CASE WriteEnd(w)
  <2>1. CASE UNCHANGED <<input, accepted>>
    BY <1>2, <2>1 DEF WriteEnd, TypeOK, WritersGoOn, Served
  <2>2. CASE w \in Closers /\ input' = input + 1 /\ accepted' = Append(accepted, <<w, EOT>>)
    <3>1. Accepts(w, EOT)
      BY <1>2, <2>2 DEF WriteEnd, Accepts
    <3> QED
      BY <3>1, ExecIOAssumption DEF EOT
  <2> QED
    BY <1>2, <2>1, <2>2 DEF WriteEnd
<1> QED
  BY <1>1, <1>2

LEMMA AcceptedGrows ==
  ASSUME TypeOK, NEW w \in Writers, NEW k \in 0..MsgLen, accepted' = Append(accepted, <<w, k>>)
  PROVE  /\ Len(accepted) \in Nat /\ Len(accepted') = Len(accepted) + 1
         /\ Given' = Given \cup {<<w, k>>}
<1>1. /\ Len(accepted') = Len(accepted) + 1
      /\ Len(accepted) \in Nat
      /\ accepted'[Len(accepted) + 1] = <<w, k>>
      /\ \A p \in 1..Len(accepted) : accepted'[p] = accepted[p]
  BY DEF TypeOK
<1>2. 1..Len(accepted') = 1..Len(accepted) \cup {Len(accepted) + 1}
  BY <1>1
<1> QED
  BY <1>1, <1>2 DEF Given

LEMMA InputWasAcceptedStep ==
  ASSUME TypeOK, InputWasAccepted, [Next]_vars
  PROVE  InputWasAccepted'
<1>1. input \in Nat /\ Len(accepted) \in Nat
  BY ExecIOAssumption DEF TypeOK
<1>2. CASE UNCHANGED <<input, accepted>>
  BY <1>2 DEF InputWasAccepted
<1>3. ASSUME NEW w \in Writers, WriteUnit(w) \/ WriteEnd(w) PROVE InputWasAccepted'
  <2>1. ASSUME NEW k \in 0..MsgLen, Accepts(w, k) PROVE InputWasAccepted'
    BY <1>1, <2>1, AcceptedGrows DEF Accepts, InputWasAccepted
  <2> QED
    BY <1>2, <1>3, <2>1, WritesAccept
<1>4. CASE ChildRead
  BY <1>1, <1>4 DEF ChildRead, InputWasAccepted
<1>5. ASSUME NEW w \in Writers, WriteBegin(w) \/ WriteLock(w) \/ WriteFails(w)
      PROVE  UNCHANGED <<input, accepted>>
  BY <1>5 DEF WriteBegin, WriteLock, WriteFails, pipes
<1>6. ASSUME ChildWrite \/ ChildCloses \/ ChildExit \/ CaptureStep \/ CancelBegin
             \/ CancelStep \/ WaiterStep
      PROVE  UNCHANGED <<input, accepted>>
  BY <1>6 DEF ChildWrite, ChildCloses, ChildExit, CaptureStep, CaptureTake, CapturePublish,
              CancelBegin, CancelStep, CancelLock, CancelKill, CancelView, WaiterStep,
              WaiterReap, WaiterFinish, pipes
<1>7. ASSUME NEW z \in Resizers, ResizeBegin(z) \/ ResizeStep(z)
      PROVE  UNCHANGED <<input, accepted>>
  BY <1>7 DEF ResizeBegin, ResizeStep, ResizeLock, ResizeStore, pipes
<1>8. CASE UNCHANGED vars
  BY <1>2, <1>8 DEF vars, pipes
<1> QED
  BY <1>2, <1>3, <1>4, <1>5, <1>6, <1>7, <1>8 DEF Next, WriterStep, ChildStep

LEMMA AcceptedOnceStep ==
  ASSUME TypeOK, AcceptedOnce, [Next]_vars
  PROVE  AcceptedOnce'
<1>0. UNCHANGED writer => WritersGoOn
  BY DEF WritersGoOn, Served
<1>1. ASSUME UNCHANGED <<accepted, left>>, WritersGoOn
      PROVE  AcceptedOnce'
  BY <1>1 DEF AcceptedOnce, Given, WritersGoOn
<1>2. ASSUME NEW w \in Writers, NEW k \in 0..MsgLen, Accepts(w, k) PROVE AcceptedOnce'
  <2>1. /\ Len(accepted) \in Nat /\ Len(accepted') = Len(accepted) + 1
        /\ Given' = Given \cup {<<w, k>>} /\ k \in Nat
    BY <1>2, AcceptedGrows, ExecIOAssumption DEF Accepts
  <2>2. <<w, k>> \notin Given
    BY <1>2, <2>1 DEF Accepts, AcceptedOnce, TypeOK
  <2>3. IsFiniteSet(Given') /\ Cardinality(Given') = Len(accepted')
    BY <2>1, <2>2, FS_AddElement DEF AcceptedOnce
  <2>4. ASSUME NEW v \in Writers, NEW m \in Nat, <<v, m>> \in Given'
        PROVE  /\ v \in Served'
               /\ IF m = EOT THEN v \in Closers /\ writer'[v] = "ok" ELSE left'[v] < m
    <3>1. /\ left \in [Writers -> 0..MsgLen] /\ writer \in [Writers -> WriterPCs]
          /\ MsgLen \in Nat
      BY ExecIOAssumption DEF TypeOK
    <3>2. CASE v = w /\ m = k
      BY <1>2, <3>1, <3>2 DEF Accepts, EOT, Served
    <3>3. CASE <<v, m>> \in Given
      <4>1. /\ v \in Served
            /\ IF m = EOT THEN v \in Closers /\ writer[v] = "ok" ELSE left[v] < m
        BY <3>3 DEF AcceptedOnce
      <4>2. left'[v] <= left[v] /\ left[v] \in Nat /\ left'[v] \in Int
        BY <1>2, <2>1, <3>1 DEF Accepts
      <4>3. (writer[v] = "ok" => writer'[v] = "ok") /\ (v \in Served => v \in Served')
        BY <1>2, <3>1 DEF Accepts, Served
      <4> QED
        BY <4>1, <4>2, <4>3
    <3> QED
      BY <2>1, <2>4, <3>2, <3>3
  <2> QED
    BY <2>3, <2>4 DEF AcceptedOnce
<1>3. ASSUME NEW w \in Writers, WriteUnit(w) \/ WriteEnd(w) PROVE AcceptedOnce'
  BY <1>1, <1>2, <1>3, WritesAccept
<1>4. ASSUME NEW w \in Writers, WriteBegin(w) \/ WriteLock(w) \/ WriteFails(w)
      PROVE  AcceptedOnce'
  BY <1>1, <1>4 DEF WriteBegin, WriteLock, WriteFails, TypeOK, pipes, WritersGoOn, Served
<1>5. CASE ChildStep
  BY <1>0, <1>1, <1>5 DEF ChildStep, ChildRead, ChildWrite, ChildCloses, ChildExit, pipes, writing
<1>6. CASE CaptureStep
  BY <1>0, <1>1, <1>6 DEF CaptureStep, CaptureTake, CapturePublish, pipes, writing
<1>7. CASE CancelBegin \/ CancelStep
  BY <1>0, <1>1, <1>7
  DEF CancelBegin, CancelStep, CancelLock, CancelKill, CancelView, pipes, writing
<1>8. CASE WaiterStep
  BY <1>0, <1>1, <1>8 DEF WaiterStep, WaiterReap, WaiterFinish, pipes, writing
<1>9. ASSUME NEW z \in Resizers, ResizeBegin(z) \/ ResizeStep(z)
      PROVE  AcceptedOnce'
  BY <1>0, <1>1, <1>9 DEF ResizeBegin, ResizeStep, ResizeLock, ResizeStore, pipes, writing
<1>10. CASE UNCHANGED vars
  BY <1>0, <1>1, <1>10 DEF vars, pipes, writing
<1> QED
  BY <1>3, <1>4, <1>5, <1>6, <1>7, <1>8, <1>9, <1>10 DEF Next, WriterStep

\* A WriteStdin that waits with the mutex held has to write, with those before it, more
\* than the child's input can hold (manager.go:594-617): what the input holds was
\* accepted, each unit once, and the unit that the writer waits with was not.
THEOREM FittingInputNeverWaits == Spec => []NoWriteWaits
<1>1. Init => InputWasAccepted /\ AcceptedOnce
  <2> SUFFICES ASSUME Init  PROVE InputWasAccepted /\ AcceptedOnce
    OBVIOUS
  <2>1. Given = {} /\ Len(accepted) = 0
    BY DEF Init, Given
  <2>2. AcceptedOnce
    BY <2>1, FS_EmptySet DEF AcceptedOnce
  <2> QED
    BY <2>1, <2>2 DEF Init, InputWasAccepted
<1>2. /\ IInv /\ InputWasAccepted /\ AcceptedOnce
      /\ [Next]_vars
      => (InputWasAccepted /\ AcceptedOnce)'
  BY InputWasAcceptedStep, AcceptedOnceStep DEF IInv
<1>3. IInv /\ InputWasAccepted /\ AcceptedOnce => NoWriteWaits
  <2> SUFFICES ASSUME TypeOK, InputWasAccepted, AcceptedOnce, AllFits,
                      NEW w \in Writers, WaitsForRoom(w)
               PROVE  FALSE
    BY DEF IInv, NoWriteWaits
  <2>1. writer[w] = "write" /\ (left[w] > 0 \/ w \in Closers)
    BY DEF WaitsForRoom
  <2> DEFINE next == <<w, left[w]>>
  <2>2. /\ Len(accepted) \in Nat /\ left[w] \in 0..MsgLen /\ MsgLen \in Nat
        /\ InCap \in Nat
    BY ExecIOAssumption DEF TypeOK
  <2>3. next \in Asked \ Given
    BY <2>1, <2>2 DEF Asked, Served, AcceptedOnce, EOT
  <2>4. Given \subseteq Asked
    <3> SUFFICES ASSUME NEW p \in 1..Len(accepted) PROVE accepted[p] \in Asked
      BY DEF Given
    <3>0. accepted \in Seq(Writers \X (0..MsgLen))
      BY DEF TypeOK
    <3>1. PICK v \in Writers, k \in 0..MsgLen : accepted[p] = <<v, k>>
      BY <3>0
    <3>2. <<v, k>> \in Given /\ k \in Nat
      BY <2>2, <3>1 DEF Given
    <3>3. v \in Served /\ (k = EOT => v \in Closers)
      BY <3>2 DEF AcceptedOnce
    <3>4. k # EOT => k \in 1..MsgLen
      BY <2>2 DEF EOT
    <3>5. <<v, k>> \in Asked
      BY <3>3, <3>4 DEF Asked
    <3> QED
      BY <3>1, <3>5
  <2>5. Cardinality(Given \cup {next}) = Len(accepted) + 1
    BY <2>3, FS_AddElement DEF AcceptedOnce
  <2>6. Cardinality(Given \cup {next}) <= Cardinality(Asked)
    BY <2>3, <2>4, FS_Subset DEF AllFits
  <2>7. InCap <= Len(accepted)
    BY <2>2 DEF WaitsForRoom, InputWasAccepted
  <2>8. Cardinality(Asked) \in Nat
    BY FS_CardinalityType DEF AllFits
  <2> QED
    BY <2>2, <2>5, <2>6, <2>7, <2>8 DEF AllFits
<1> QED
  BY Invariant, <1>1, <1>2, <1>3, PTL DEF Spec
=============================================================================
