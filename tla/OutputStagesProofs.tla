------------------------- MODULE OutputStagesProofs -------------------------
(***************************************************************************)
(* Proofs about OutputPipeline, continued: output is neither reordered,    *)
(* duplicated nor silently dropped on its way from the child to the store, *)
(* and a capture goroutine that has ended has left nothing behind.         *)
(*                                                                         *)
(* What is on its way is one sequence, whatever stage holds it.  A step    *)
(* leaves that sequence of a source alone, extends it by what the child    *)
(* writes, or takes a piece off one of its ends: a piece that is persisted *)
(* or a piece that is lost.  There is one lemma per effect.                *)
(***************************************************************************)
EXTENDS OutputPipelineProofs, SequenceTheorems

-----------------------------------------------------------------------------
(* Sequences put together.                                                 *)

LEMMA JoinedAt ==
  ASSUME NEW S, NEW p \in Seq(S), NEW q \in Seq(S)
  PROVE  /\ Len(p) \in Nat /\ Len(q) \in Nat /\ Len(p \o q) = Len(p) + Len(q)
         /\ p \o q \in Seq(S)
         /\ \A i \in 1..Len(p) : i \in 1..Len(p \o q) /\ (p \o q)[i] = p[i]
         /\ \A i \in 1..Len(q) : /\ Len(p) + i \in 1..Len(p \o q)
                                 /\ (p \o q)[Len(p) + i] = q[i]
         /\ \A i \in 1..Len(p \o q) :
               \/ i \in 1..Len(p) /\ (p \o q)[i] = p[i]
               \/ i - Len(p) \in 1..Len(q) /\ (p \o q)[i] = q[i - Len(p)]
  BY ConcatProperties, LenProperties

LEMMA JoinedSet ==
  ASSUME NEW S, NEW p \in Seq(S), NEW q \in Seq(S)
  PROVE  ToSet(p \o q) = ToSet(p) \cup ToSet(q)
<1>1. ASSUME NEW i \in 1..Len(p) PROVE p[i] \in ToSet(p \o q)
  <2>1. i \in 1..Len(p \o q) /\ (p \o q)[i] = p[i]
    BY JoinedAt
  <2> QED
    BY <2>1 DEF ToSet
<1>2. ASSUME NEW i \in 1..Len(q) PROVE q[i] \in ToSet(p \o q)
  <2>1. Len(p) + i \in 1..Len(p \o q) /\ (p \o q)[Len(p) + i] = q[i]
    BY JoinedAt
  <2> QED
    BY <2>1 DEF ToSet
<1>3. ASSUME NEW i \in 1..Len(p \o q) PROVE (p \o q)[i] \in ToSet(p) \cup ToSet(q)
  <2>1. \/ i \in 1..Len(p) /\ (p \o q)[i] = p[i]
        \/ i - Len(p) \in 1..Len(q) /\ (p \o q)[i] = q[i - Len(p)]
    BY JoinedAt
  <2> QED
    BY <2>1 DEF ToSet
<1>4. \A s \in Seq(S) : ToSet(s) = {s[i] : i \in 1..Len(s)}
  BY DEF ToSet
<1>5. p \o q \in Seq(S)
  BY ConcatProperties
<1>6. ASSUME NEW e \in ToSet(p \o q) PROVE e \in ToSet(p) \cup ToSet(q)
  <2>1. PICK i \in 1..Len(p \o q) : e = (p \o q)[i]
    <3> DEFINE r == p \o q
    <3> HIDE DEF r
    <3>1. r \in Seq(S) /\ e \in ToSet(r)
      BY <1>5 DEF r
    <3>2. \E i \in 1..Len(r) : e = r[i]
      BY <1>4, <3>1
    <3> QED
      BY <3>2 DEF r
  <2> QED
    BY <1>3, <2>1
<1>7. ToSet(p) \cup ToSet(q) \subseteq ToSet(p \o q)
  BY <1>1, <1>2, <1>4
<1> QED
  BY <1>6, <1>7

LEMMA JoinedBefore ==
  ASSUME NEW p \in Seq(Nat), NEW q \in Seq(Nat), NEW r \in Seq(Nat)
  PROVE  /\ Before(r, p \o q) <=> Before(r, p) /\ Before(r, q)
         /\ Before(p \o q, r) <=> Before(p, r) /\ Before(q, r)
<1>0. /\ Len(p) \in Nat /\ Len(q) \in Nat
      /\ \A i \in 1..Len(p) : i \in 1..Len(p \o q) /\ (p \o q)[i] = p[i]
      /\ \A i \in 1..Len(q) : /\ Len(p) + i \in 1..Len(p \o q)
                              /\ (p \o q)[Len(p) + i] = q[i]
      /\ \A i \in 1..Len(p \o q) :
            \/ i \in 1..Len(p) /\ (p \o q)[i] = p[i]
            \/ i - Len(p) \in 1..Len(q) /\ (p \o q)[i] = q[i - Len(p)]
  BY JoinedAt
<1>1. Before(r, p \o q) => Before(r, p) /\ Before(r, q)
  BY <1>0 DEF Before
<1>2. Before(r, p) /\ Before(r, q) => Before(r, p \o q)
  BY <1>0 DEF Before
<1>3. Before(p \o q, r) => Before(p, r) /\ Before(q, r)
  BY <1>0 DEF Before
<1>4. Before(p, r) /\ Before(q, r) => Before(p \o q, r)
  BY <1>0 DEF Before
<1> QED
  BY <1>1, <1>2, <1>3, <1>4

LEMMA JoinedIncreasing ==
  ASSUME NEW p \in Seq(Nat), NEW q \in Seq(Nat)
  PROVE  Increasing(p \o q) <=> Increasing(p) /\ Increasing(q) /\ Before(p, q)
<1> DEFINE n == Len(p)
<1>0. /\ Len(p) \in Nat /\ Len(q) \in Nat
      /\ \A i \in 1..Len(p) : i \in 1..Len(p \o q) /\ (p \o q)[i] = p[i]
      /\ \A i \in 1..Len(q) : /\ Len(p) + i \in 1..Len(p \o q)
                              /\ (p \o q)[Len(p) + i] = q[i]
      /\ \A i \in 1..Len(p \o q) :
            \/ i \in 1..Len(p) /\ (p \o q)[i] = p[i]
            \/ i - Len(p) \in 1..Len(q) /\ (p \o q)[i] = q[i - Len(p)]
  BY JoinedAt
<1>1. ASSUME Increasing(p \o q) PROVE Increasing(p) /\ Increasing(q) /\ Before(p, q)
  <2>1. Increasing(p)
    BY <1>0, <1>1 DEF Increasing
  <2>2. ASSUME NEW i \in 1..Len(q), NEW j \in 1..Len(q), i < j PROVE q[i] < q[j]
    <3>1. n + i < n + j
      BY <1>0, <2>2
    <3> QED
      BY <1>0, <1>1, <3>1 DEF Increasing
  <2>3. ASSUME NEW i \in 1..n, NEW j \in 1..Len(q) PROVE p[i] < q[j]
    <3>1. i < n + j
      BY <1>0
    <3> QED
      BY <1>0, <1>1, <3>1 DEF Increasing
  <2> QED
    BY <2>1, <2>2, <2>3 DEF Increasing, Before
<1>2. ASSUME Increasing(p), Increasing(q), Before(p, q) PROVE Increasing(p \o q)
  <2> SUFFICES ASSUME NEW i \in 1..Len(p \o q), NEW j \in 1..Len(p \o q), i < j
               PROVE  (p \o q)[i] < (p \o q)[j]
    BY DEF Increasing
  <2>1. CASE i \in 1..n /\ (p \o q)[i] = p[i] /\ j \in 1..n /\ (p \o q)[j] = p[j]
    BY <1>2, <2>1 DEF Increasing
  <2>2. CASE /\ i \in 1..n /\ (p \o q)[i] = p[i]
             /\ j - n \in 1..Len(q) /\ (p \o q)[j] = q[j - n]
    BY <1>2, <2>2 DEF Before
  <2>3. CASE /\ i - n \in 1..Len(q) /\ (p \o q)[i] = q[i - n]
             /\ j - n \in 1..Len(q) /\ (p \o q)[j] = q[j - n]
    <3>1. i - n < j - n
      BY <1>0
    <3> QED
      BY <1>2, <2>3, <3>1 DEF Increasing
  <2>4. ~(i - n \in 1..Len(q) /\ j \in 1..n)
    BY <1>0
  <2> QED
    BY <1>0, <2>1, <2>2, <2>3, <2>4
<1> QED
  BY <1>1, <1>2

\* The two equations are named so that their instances need no reasoning about \o.
Regroups(b, x, y, z) == b \o x \o y \o z = b \o (x \o y \o z)
HeadMoves(x, q, p)   == x \o Append(q, Head(p)) \o Tail(p) = x \o q \o p

LEMMA JoinFour ==
  ASSUME NEW S, NEW b \in Seq(S), NEW x \in Seq(S), NEW y \in Seq(S), NEW z \in Seq(S)
  PROVE  Regroups(b, x, y, z)
<1>1. b \o x \o y = b \o (x \o y)
  OBVIOUS
<1>2. ASSUME NEW u \in Seq(S) PROVE (b \o u) \o z = b \o (u \o z)
  BY SMTT(30)
<1>3. x \o y \in Seq(S)
  OBVIOUS
<1> QED
  BY <1>1, <1>2, <1>3, Zenon DEF Regroups

LEMMA JoinLast ==
  ASSUME NEW S, NEW p \in Seq(S), NEW q \in Seq(S), NEW e \in S
  PROVE  p \o Append(q, e) = (p \o q) \o <<e>>
<1>1. Append(q, e) = q \o <<e>> /\ <<e>> \in Seq(S)
  BY AppendIsConcat
<1>2. \A r \in Seq(S) : p \o (q \o r) = (p \o q) \o r
  OBVIOUS
<1> QED
  BY <1>1, <1>2

LEMMA HeadFirst ==
  ASSUME NEW S, NEW p \in Seq(S), p # <<>>
  PROVE  p = <<Head(p)>> \o Tail(p)
<1>1. SubSeq(p, 1, Len(p)) = <<Head(p)>> \o SubSeq(p, 2, Len(p))
  <2>1. 1 \in 1..Len(p) /\ Len(p) \in 1..Len(p) /\ Head(p) = p[1]
    OBVIOUS
  <2> QED
    BY <2>1, SubSeqRecursiveFirst
<1> QED
  BY <1>1, SubSeqFull, TailIsSubSeq

\* A unit that goes from the head of one stage to the tail of the one before it
\* leaves the whole as it was.
LEMMA MoveHead ==
  ASSUME NEW S, NEW x \in Seq(S), NEW q \in Seq(S), NEW p \in Seq(S), p # <<>>
  PROVE  HeadMoves(x, q, p)
<1>1. Head(p) \in S /\ Tail(p) \in Seq(S) /\ <<Head(p)>> \in Seq(S)
  BY HeadTailProperties
<1>2. ASSUME NEW h \in Seq(S), NEW t \in Seq(S)
      PROVE  (x \o (q \o h)) \o t = (x \o q) \o (h \o t)
  <2>1. x \o (q \o h) = (x \o q) \o h
    OBVIOUS
  <2>2. ASSUME NEW y \in Seq(S) PROVE (y \o h) \o t = y \o (h \o t)
    BY SMTT(30)
  <2>3. x \o q \in Seq(S)
    OBVIOUS
  <2> QED
    BY <2>1, <2>2, <2>3, Zenon
<1>3. Append(q, Head(p)) = q \o <<Head(p)>>
  BY <1>1, AppendIsConcat
<1>4. p = <<Head(p)>> \o Tail(p)
  BY HeadFirst
<1>5. (x \o (q \o <<Head(p)>>)) \o Tail(p) = (x \o q) \o (<<Head(p)>> \o Tail(p))
  BY <1>1, <1>2, Zenon
<1> QED
  BY <1>3, <1>4, <1>5, Zenon DEF HeadMoves

USE OutputAssumption

LEMMA MoveFirst ==
  ASSUME NEW q \in Seq(Units), NEW p \in Seq(Units), p # <<>>
  PROVE  Append(q, Head(p)) \o Tail(p) = q \o p
<1>1. /\ Head(p) \in Units /\ <<>> \in Seq(Units) /\ Append(q, Head(p)) \in Seq(Units)
  OBVIOUS
<1>2. (<<>> \o Append(q, Head(p))) \o Tail(p) = (<<>> \o q) \o p
  <2>1. HeadMoves(<<>>, q, p)
    BY <1>1, MoveHead
  <2> QED
    BY <2>1 DEF HeadMoves
<1>3. <<>> \o q = q /\ <<>> \o Append(q, Head(p)) = Append(q, Head(p))
  BY <1>1, ConcatEmptySeq
<1> QED
  BY <1>2, <1>3

LEMMA SplitAgain ==
  ASSUME NEW q \in Seq(Units), Len(q) >= ChunkSize
  PROVE  SubSeq(q, 1, ChunkSize) \o SubSeq(q, ChunkSize + 1, Len(q)) = q
<1>1. 1 \in 1..Len(q) + 1 /\ ChunkSize \in 1 - 1 .. Len(q) /\ Len(q) \in ChunkSize..Len(q)
  <2>1. Len(q) \in Nat /\ ChunkSize \in Nat
    OBVIOUS
  <2> QED
    BY <2>1
<1>2. SubSeq(q, 1, ChunkSize) \o SubSeq(q, ChunkSize + 1, Len(q)) = SubSeq(q, 1, Len(q))
  BY <1>1, ConcatAdjacentSubSeq
<1> QED
  BY <1>2, SubSeqFull

-----------------------------------------------------------------------------
(* What a step does to what is on its way from one source.                 *)

\* StagesInOrder for one source; with it, what is lost had been written.
Stage(s) ==
    /\ Increasing(InTransit(s))
    /\ \A n \in FromSource(s) :
          /\ Increasing(log[n].units) /\ Before(log[n].units, InTransit(s))
          /\ \A m \in FromSource(s) : m < n => Before(log[m].units, log[n].units)
    /\ Persisted(s) \cup ToSet(InTransit(s)) = Surviving(s)
    /\ \A k \in Units : <<s, k>> \in lost => k <= written[s]

RowsKept(s) == FromSource(s)' = FromSource(s) /\ \A n \in FromSource(s) : log'[n] = log[n]
LostKept(s) == \A k \in Units : <<s, k>> \in lost' <=> <<s, k>> \in lost

Moved(s) ==
    /\ InTransit(s)' = InTransit(s)
    /\ written'[s] = written[s] /\ LostKept(s) /\ RowsKept(s)

Wrote(s) ==
    /\ written'[s] = written[s] + 1 /\ written'[s] \in Units
    /\ InTransit(s)' = InTransit(s) \o <<written'[s]>>
    /\ LostKept(s) /\ RowsKept(s)

Dropped(s, d) ==
    /\ InTransit(s)' \in Seq(Units)
    /\ InTransit(s) = d \o InTransit(s)' \/ InTransit(s) = InTransit(s)' \o d
    /\ \A k \in Units : <<s, k>> \in lost' <=> <<s, k>> \in lost \/ k \in ToSet(d)
    /\ written'[s] = written[s] /\ RowsKept(s)

Stored(s, d) ==
    /\ InTransit(s)' \in Seq(Units) /\ InTransit(s) = d \o InTransit(s)'
    /\ FromSource(s)' = FromSource(s) \cup {Len(log) + 1}
    /\ log'[Len(log) + 1].units = d /\ \A n \in FromSource(s) : log'[n] = log[n]
    /\ written'[s] = written[s] /\ LostKept(s)

LEMMA TransitTypes ==
  ASSUME Types, NEW s \in Sources
  PROVE  /\ BeingAppended(s) \in Seq(Units) /\ pending[s] \in Seq(Units)
         /\ queue[s] \in Seq(Units) /\ pipe[s] \in Seq(Units)
         /\ InTransit(s) \in Seq(Units) /\ written[s] \in 0..MaxUnits
<1>1. current[s].units \in Seq(Units) /\ <<>> \in Seq(Units)
  BY HeldFacts DEF Types, CaptureTypes
<1>2. /\ BeingAppended(s) \in Seq(Units) /\ pending[s] \in Seq(Units)
      /\ queue[s] \in Seq(Units) /\ pipe[s] \in Seq(Units) /\ written[s] \in 0..MaxUnits
  BY <1>1 DEF BeingAppended, Types, SourceTypes, CaptureTypes
<1>3. BeingAppended(s) \o pending[s] \in Seq(Units)
  BY <1>2, ConcatProperties
<1>4. BeingAppended(s) \o pending[s] \o queue[s] \in Seq(Units)
  BY <1>2, <1>3, ConcatProperties
<1>5. InTransit(s) \in Seq(Units)
  BY <1>2, <1>4, ConcatProperties DEF InTransit
<1> QED
  BY <1>2, <1>5

LEMMA DisjointSets ==
  ASSUME NEW p \in Seq(Nat), NEW q \in Seq(Nat), Before(p, q) \/ Before(q, p)
  PROVE  ToSet(p) \cap ToSet(q) = {}
<1> SUFFICES ASSUME NEW e, e \in ToSet(p), e \in ToSet(q) PROVE FALSE
  OBVIOUS
<1>1. PICK i \in 1..Len(p) : e = p[i]
  BY DEF ToSet
<1>2. PICK j \in 1..Len(q) : e = q[j]
  BY DEF ToSet
<1>3. p[i] < q[j] \/ q[j] < p[i]
  BY DEF Before
<1>4. p[i] \in Nat /\ q[j] \in Nat
  BY SMTT(30)
<1> QED
  BY <1>1, <1>2, <1>3, <1>4

LEMMA UnitSeq == \A q \in Seq(Units) : q \in Seq(Nat) /\ ToSet(q) \subseteq Units
<1>1. Units \subseteq Nat
  BY DEF Units
<1> QED
  BY <1>1, SeqMonotonic, ToSetType

LEMMA RowUnits ==
  ASSUME Types, NEW s \in Sources, NEW n \in FromSource(s)
  PROVE  n \in 1..Len(log) /\ log[n].units \in Seq(Units)
  BY StoredRow DEF Types, FromSource

\* What is stored or on its way stays, and nothing of it is lost.
LEMMA MovedKeeps ==
  ASSUME Types, NEW s \in Sources, Stage(s), Moved(s)
  PROVE  Stage(s)'
<1>1. Surviving(s)' = Surviving(s)
  <2>1. 1..written[s] \subseteq Units
    BY TransitTypes DEF Units
  <2> QED
    BY <2>1 DEF Surviving, Moved, LostKept
<1>2. Persisted(s)' = Persisted(s)
  BY DEF Persisted, Moved, RowsKept
<1> QED
  BY <1>1, <1>2 DEF Stage, Moved, LostKept, RowsKept

\* A new unit is the next after all that were written before.
LEMMA WroteKeeps ==
  ASSUME Types, NEW s \in Sources, Stage(s), Wrote(s)
  PROVE  Stage(s)'
<1> DEFINE T == InTransit(s)
           w == written[s] + 1
           last == <<w>>
<1>1. /\ T \in Seq(Units) /\ written[s] \in Nat /\ w \in Units /\ w \in Nat
      /\ 1..written[s] \subseteq Units /\ 1..w = 1..written[s] \cup {w} /\ written[s] < w
      /\ last \in Seq(Units) /\ Len(last) = 1 /\ last[1] = w
  <2>1. T \in Seq(Units) /\ written[s] \in 0..MaxUnits
    BY TransitTypes
  <2>2. w \in 1..MaxUnits
    BY <2>1 DEF Wrote, Units
  <2>3. 1..written[s] \subseteq 1..MaxUnits /\ 1..w = 1..written[s] \cup {w}
    BY <2>1
  <2> QED
    BY <2>1, <2>2, <2>3 DEF Units
<1>2. InTransit(s)' = T \o last /\ written'[s] = w /\ LostKept(s) /\ RowsKept(s)
  BY DEF Wrote
<1>3. Increasing(last) /\ ToSet(last) = {w}
  BY <1>1 DEF Increasing, ToSet
<1> HIDE DEF T, w, last
<1>4. /\ Increasing(T) /\ Persisted(s) \cup ToSet(T) = Surviving(s)
      /\ \A k \in Units : <<s, k>> \in lost => k <= written[s]
  BY DEF Stage, T
<1>5. \A e \in Persisted(s) \cup ToSet(T) : e \in Nat /\ e < w
  <2>1. Surviving(s) \subseteq 1..written[s]
    BY DEF Surviving
  <2> QED
    BY <1>1, <1>4, <2>1
<1>6. \A q \in Seq(Units) : ToSet(q) \subseteq Persisted(s) \cup ToSet(T) => Before(q, last)
  BY <1>1, <1>5 DEF Before, ToSet
<1>7. T \in Seq(Nat) /\ last \in Seq(Nat)
  BY <1>1, UnitSeq
<1>8. Increasing(T \o last)
  <2>1. Before(T, last)
    BY <1>1, <1>6
  <2> QED
    BY <1>3, <1>4, <1>7, <2>1, JoinedIncreasing
<1>9. ASSUME NEW n \in FromSource(s) PROVE Before(log[n].units, T \o last)
  <2> DEFINE r == log[n].units
  <2>1. r \in Seq(Units) /\ r \in Seq(Nat)
    BY RowUnits, UnitSeq
  <2>2. Before(r, last)
    BY <1>6, <2>1 DEF Persisted
  <2>3. Before(r, T)
    BY DEF Stage, T
  <2> HIDE DEF r
  <2>4. Before(r, T \o last)
    BY <1>7, <2>1, <2>2, <2>3, JoinedBefore
  <2> QED
    BY <2>4 DEF r
<1>10. Persisted(s)' \cup ToSet(InTransit(s))' = Surviving(s)'
  <2>1. ToSet(T \o last) = ToSet(T) \cup {w}
    BY <1>1, <1>3, JoinedSet
  <2>2. Persisted(s)' = Persisted(s)
    BY <1>2 DEF Persisted, RowsKept
  <2>3. <<s, w>> \notin lost
    BY <1>1, <1>4
  <2>4. Surviving(s)' = Surviving(s) \cup {w}
    <3>1. Surviving(s)' = {k \in 1..w : <<s, k>> \notin lost'}
      BY <1>2 DEF Surviving
    <3>2. \A k \in 1..w : <<s, k>> \notin lost' <=> <<s, k>> \notin lost
      BY <1>1, <1>2 DEF LostKept
    <3> QED
      BY <1>1, <2>3, <3>1, <3>2 DEF Surviving
  <2> QED
    BY <1>2, <1>4, <2>1, <2>2, <2>4
<1>11. \A k \in Units : <<s, k>> \in lost' => k <= written'[s]
  <2> SUFFICES ASSUME NEW k \in Units, <<s, k>> \in lost' PROVE k <= w
    BY <1>2
  <2>1. k <= written[s] /\ k \in Nat
    BY <1>2, <1>4 DEF LostKept, Units
  <2> QED
    BY <1>1, <2>1
<1> QED
  BY <1>2, <1>8, <1>9, <1>10, <1>11 DEF Stage, RowsKept

\* What is lost off either end was there once, and the rest keeps its order.
LEMMA DroppedKeeps ==
  ASSUME Types, NEW s \in Sources, Stage(s), NEW d \in Seq(Units), Dropped(s, d)
  PROVE  Stage(s)'
<1> DEFINE T == InTransit(s)
           R == InTransit(s)'
<1>1. T \in Seq(Nat) /\ R \in Seq(Nat) /\ d \in Seq(Nat) /\ 1..written[s] \subseteq Units
  BY TransitTypes, UnitSeq, SMTT(30) DEF Units, Dropped
<1>2. T = d \o R \/ T = R \o d
  BY DEF Dropped
<1>3. /\ Increasing(T) /\ Persisted(s) \cup ToSet(T) = Surviving(s)
      /\ \A k \in Units : <<s, k>> \in lost => k <= written[s]
      /\ \A n \in FromSource(s) : Before(log[n].units, T)
  BY DEF Stage
<1> HIDE DEF T, R
<1>4. Increasing(R) /\ ToSet(T) = ToSet(R) \cup ToSet(d) /\ (Before(d, R) \/ Before(R, d))
  <2>1. CASE T = d \o R
    BY <1>1, <1>3, <2>1, JoinedIncreasing, JoinedSet
  <2>2. CASE T = R \o d
    BY <1>1, <1>3, <2>2, JoinedIncreasing, JoinedSet
  <2> QED
    BY <1>2, <2>1, <2>2
<1>5. ASSUME NEW n \in FromSource(s)
      PROVE  Before(log[n].units, R) /\ Before(log[n].units, d)
  <2> DEFINE r == log[n].units
  <2>1. r \in Seq(Nat) /\ Before(r, T)
    BY <1>3, RowUnits, UnitSeq
  <2> HIDE DEF r
  <2>2. Before(r, d \o R) => Before(r, d) /\ Before(r, R)
    BY <1>1, <2>1, JoinedBefore
  <2>3. Before(r, R \o d) => Before(r, d) /\ Before(r, R)
    BY <1>1, <2>1, JoinedBefore
  <2> QED
    BY <1>2, <2>1, <2>2, <2>3, Zenon DEF r
<1>6. ToSet(d) \cap ToSet(R) = {} /\ ToSet(d) \cap Persisted(s) = {}
  <2>1. ToSet(d) \cap ToSet(R) = {}
    BY <1>1, <1>4, DisjointSets
  <2>2. ASSUME NEW n \in FromSource(s) PROVE ToSet(d) \cap ToSet(log[n].units) = {}
    BY <1>1, <1>5, RowUnits, UnitSeq, DisjointSets
  <2> QED
    BY <2>1, <2>2 DEF Persisted
<1>7. Persisted(s)' = Persisted(s)
  BY DEF Persisted, Dropped, RowsKept
<1>8. Surviving(s)' = Surviving(s) \ ToSet(d)
  BY <1>1 DEF Surviving, Dropped
<1>9. Persisted(s)' \cup ToSet(R) = Surviving(s)'
  BY <1>3, <1>4, <1>6, <1>7, <1>8
<1>10. \A k \in Units : <<s, k>> \in lost' => k <= written'[s]
  <2>1. \A k \in ToSet(d) : k \in 1..written[s]
    BY <1>3, <1>4 DEF Surviving
  <2> QED
    BY <1>3, <2>1 DEF Dropped
<1> QED
  BY <1>4, <1>5, <1>9, <1>10 DEF Stage, Dropped, RowsKept, R

\* What becomes a row was ahead of everything still on its way.
LEMMA StoredKeeps ==
  ASSUME Types, NEW s \in Sources, Stage(s), NEW d \in Seq(Units), Stored(s, d)
  PROVE  Stage(s)'
<1> DEFINE T == InTransit(s)
           R == InTransit(s)'
           N == Len(log) + 1
<1>1. /\ T \in Seq(Nat) /\ R \in Seq(Nat) /\ d \in Seq(Nat) /\ 1..written[s] \subseteq Units
  BY TransitTypes, UnitSeq, SMTT(30) DEF Units, Stored
<1>2. T = d \o R
  BY DEF Stored
<1>3. /\ Increasing(T) /\ Persisted(s) \cup ToSet(T) = Surviving(s)
      /\ \A k \in Units : <<s, k>> \in lost => k <= written[s]
      /\ \A n \in FromSource(s) : Before(log[n].units, T)
  BY DEF Stage
<1>4. /\ FromSource(s)' = FromSource(s) \cup {N} /\ log'[N].units = d
      /\ \A n \in FromSource(s) : log'[n] = log[n]
      /\ written'[s] = written[s] /\ LostKept(s)
  BY DEF Stored
<1>5. N \in Nat /\ \A n \in FromSource(s) : n \in Nat /\ n < N
  BY DEF FromSource, Types, StoreTypes
<1> HIDE DEF T, R, N
<1>6. Increasing(d) /\ Increasing(R) /\ Before(d, R) /\ ToSet(T) = ToSet(d) \cup ToSet(R)
  BY <1>1, <1>2, <1>3, JoinedIncreasing, JoinedSet
<1>7. ASSUME NEW n \in FromSource(s)
      PROVE  Before(log[n].units, R) /\ Before(log[n].units, d)
  <2> DEFINE r == log[n].units
  <2>1. r \in Seq(Nat) /\ Before(r, T)
    BY <1>3, RowUnits, UnitSeq
  <2> HIDE DEF r
  <2>2. Before(r, d \o R) => Before(r, d) /\ Before(r, R)
    BY <1>1, <2>1, JoinedBefore
  <2> QED
    BY <1>2, <2>1, <2>2, Zenon DEF r
<1>8. ASSUME NEW n \in FromSource(s)'
      PROVE  /\ Increasing(log'[n].units) /\ Before(log'[n].units, R)
             /\ \A m \in FromSource(s)' : m < n => Before(log'[m].units, log'[n].units)
  <2>1. CASE n = N
    <3>1. ASSUME NEW m \in FromSource(s)', m < n PROVE Before(log'[m].units, d)
      <4>1. m \in FromSource(s)
        BY <1>4, <1>5, <2>1, <3>1
      <4> QED
        BY <1>4, <1>7, <4>1
    <3> QED
      BY <1>4, <1>6, <2>1, <3>1
  <2>2. CASE n \in FromSource(s)
    <3>1. ASSUME NEW m \in FromSource(s)', m < n PROVE m \in FromSource(s)
      BY <1>4, <1>5, <2>2, <3>1
    <3>2. log'[n] = log[n] /\ Increasing(log[n].units)
      BY <1>4, <2>2 DEF Stage
    <3>3. \A m \in FromSource(s) : m < n => Before(log'[m].units, log'[n].units)
      BY <1>4, <2>2 DEF Stage
    <3> QED
      BY <1>7, <2>2, <3>1, <3>2, <3>3
  <2> QED
    BY <1>4, <2>1, <2>2
<1>9. Persisted(s)' = Persisted(s) \cup ToSet(d)
  <2>1. Persisted(s)' = UNION {ToSet(log'[n].units) : n \in FromSource(s) \cup {N}}
    BY <1>4 DEF Persisted
  <2>2. UNION {ToSet(log'[n].units) : n \in FromSource(s)} = Persisted(s)
    BY <1>4 DEF Persisted
  <2> QED
    BY <1>4, <2>1, <2>2
<1>10. Surviving(s)' = Surviving(s)
  BY <1>1, <1>4 DEF Surviving, LostKept
<1>11. Persisted(s)' \cup ToSet(R) = Surviving(s)'
  BY <1>3, <1>6, <1>9, <1>10
<1>12. \A k \in Units : <<s, k>> \in lost' => k <= written'[s]
  BY <1>3, <1>4 DEF LostKept
<1> QED
  BY <1>6, <1>8, <1>11, <1>12 DEF Stage, R

-----------------------------------------------------------------------------
(* Which step has which effect.                                            *)

SameStages(s) ==
    /\ written'[s] = written[s] /\ pipe'[s] = pipe[s] /\ queue'[s] = queue[s]
    /\ pending'[s] = pending[s] /\ capture'[s] = capture[s] /\ current'[s] = current[s]

LEMMA UntouchedMoves ==
  ASSUME NEW s \in Sources, SameStages(s), LostKept(s), RowsKept(s)
  PROVE  Moved(s)
  BY DEF SameStages, Moved, InTransit, BeingAppended

LEMMA SameLog ==
  ASSUME log' = log, NEW s \in Sources
  PROVE  RowsKept(s)
  BY DEF RowsKept, FromSource

LEMMA WriteIsWrote ==
  ASSUME Types, NEW s \in Sources, ProcWrite(s)
  PROVE  Wrote(s) /\ \A t \in Sources \ {s} : Moved(t)
<1> DEFINE w == written[s] + 1
<1>1. /\ written' = [written EXCEPT ![s] = w] /\ pipe' = [pipe EXCEPT ![s] = Append(@, w)]
      /\ UNCHANGED <<queue, pending, capture, current, log, lost>>
      /\ written[Stdout] + written[Stderr] < MaxUnits
  BY DEF ProcWrite, feeding, captures, store, stored, ghosts, Types, SourceTypes
<1>2. /\ \A t \in Sources : written[t] \in 0..MaxUnits
      /\ written \in [Sources -> 0..MaxUnits] /\ pipe \in [Sources -> Seq(Units)]
  BY DEF Types, SourceTypes
<1>3. w \in Units
  BY <1>1, <1>2 DEF Sources, Units
<1>4. \A t \in Sources : LostKept(t) /\ RowsKept(t)
  BY <1>1, SameLog DEF LostKept
<1>5. Wrote(s)
  <2> DEFINE x == BeingAppended(s) \o pending[s] \o queue[s]
  <2>1. x \in Seq(Units)
    BY TransitTypes, ConcatProperties
  <2>2. InTransit(s)' = x \o Append(pipe[s], w)
    BY <1>1, <1>2 DEF InTransit, BeingAppended
  <2>3. InTransit(s) = x \o pipe[s]
    BY DEF InTransit
  <2> HIDE DEF x, w
  <2>4. x \o Append(pipe[s], w) = (x \o pipe[s]) \o <<w>>
    BY <1>2, <1>3, <2>1, JoinLast
  <2>5. written'[s] = w
    BY <1>1, <1>2
  <2> QED
    BY <1>3, <1>4, <2>2, <2>3, <2>4, <2>5 DEF Wrote, w
<1>6. ASSUME NEW t \in Sources \ {s} PROVE Moved(t)
  BY <1>1, <1>2, <1>4, UntouchedMoves DEF SameStages
<1> QED
  BY <1>5, <1>6

LEMMA ReadMoves ==
  ASSUME Types, NEW s \in Sources, ReaderRead(s)
  PROVE  \A t \in Sources : Moved(t)
<1>1. /\ pipe[s] # <<>> /\ queue' = [queue EXCEPT ![s] = Append(@, Head(pipe[s]))]
      /\ pipe' = [pipe EXCEPT ![s] = Tail(@)]
      /\ UNCHANGED <<written, pending, capture, current, log, lost>>
  BY DEF ReaderRead, child, captures, store, stored, ghosts
<1>2. pipe \in [Sources -> Seq(Units)] /\ queue \in [Sources -> Seq(Units)]
  BY DEF Types, SourceTypes
<1>3. \A t \in Sources : LostKept(t) /\ RowsKept(t)
  BY <1>1, SameLog DEF LostKept
<1>4. InTransit(s)' = InTransit(s)
  <2> DEFINE x == BeingAppended(s) \o pending[s]
  <2>1. x \in Seq(Units)
    BY TransitTypes, ConcatProperties
  <2>2. InTransit(s)' = x \o Append(queue[s], Head(pipe[s])) \o Tail(pipe[s])
    BY <1>1, <1>2 DEF InTransit, BeingAppended
  <2>3. InTransit(s) = x \o queue[s] \o pipe[s]
    BY DEF InTransit
  <2> HIDE DEF x
  <2>4. queue[s] \in Seq(Units) /\ pipe[s] \in Seq(Units)
    BY <1>2
  <2>5. x \o Append(queue[s], Head(pipe[s])) \o Tail(pipe[s]) = x \o queue[s] \o pipe[s]
    <3> DEFINE q == queue[s]
               p == pipe[s]
    <3>1. q \in Seq(Units) /\ p \in Seq(Units) /\ p # <<>>
      BY <1>1, <2>4
    <3> HIDE DEF q, p
    <3>2. x \o Append(q, Head(p)) \o Tail(p) = x \o q \o p
      <4>1. HeadMoves(x, q, p)
        BY <2>1, <3>1, MoveHead
      <4> QED
        BY <4>1 DEF HeadMoves
    <3> QED
      BY <3>2 DEF q, p
  <2> QED
    BY <2>2, <2>3, <2>5
<1>5. Moved(s)
  BY <1>1, <1>3, <1>4 DEF Moved
<1>6. ASSUME NEW t \in Sources \ {s} PROVE Moved(t)
  BY <1>1, <1>2, <1>3, UntouchedMoves DEF SameStages
<1> QED
  BY <1>5, <1>6

\* Both kinds of append put into the buffer what they take out of it.
LEMMA ChunkMoves ==
  ASSUME Types, NEW s \in Sources, CaptureChunk(s)
  PROVE  \A t \in Sources : Moved(t)
<1> DEFINE all == Append(pending[s], Head(queue[s]))
           data == SubSeq(all, 1, ChunkSize)
           rest == SubSeq(all, ChunkSize + 1, Len(all))
<1>1. /\ capture[s] = "select" /\ queue[s] # <<>> /\ queue' = [queue EXCEPT ![s] = Tail(@)]
      /\ UNCHANGED <<written, pipe, log, lost>>
      /\ \A t \in Sources \ {s} : SameStages(t)
      /\ \/ /\ Len(all) >= ChunkSize
            /\ BeingAppended(s)' = data /\ pending'[s] = rest
         \/ BeingAppended(s)' = <<>> /\ pending'[s] = all
  <2>1. /\ queue \in [Sources -> Seq(Units)] /\ pending \in [Sources -> Seq(Units)]
        /\ capture \in [Sources -> CapturePCs] /\ current \in [Sources -> Held]
    BY DEF Types, SourceTypes, CaptureTypes
  <2>2. CASE Len(all) >= ChunkSize /\ StartAppend(s, data, rest)
    <3> HIDE DEF all, data, rest
    <3>1. /\ current'[s].units = data /\ pending'[s] = rest /\ capture'[s] = "append"
          /\ UNCHANGED <<written, pipe, log, lost>>
          /\ \A t \in Sources \ {s} : /\ current'[t] = current[t] /\ pending'[t] = pending[t]
                                     /\ capture'[t] = capture[t]
      BY <2>1, <2>2
         DEF StartAppend, NothingHeld, child, kernel, stored, store, ghosts
    <3> QED
      BY <2>1, <2>2, <3>1 DEF CaptureChunk, SameStages, BeingAppended
  <2>3. CASE pending' = [pending EXCEPT ![s] = all] /\ UNCHANGED <<child, kernel, capture, current, stored, ghosts>>
    <3> HIDE DEF all, data, rest
    <3> QED
      BY <2>1, <2>3
         DEF CaptureChunk, SameStages, BeingAppended, child, kernel, stored, store, ghosts
  <2> QED
    BY <2>2, <2>3 DEF CaptureChunk
<1>2. /\ pending[s] \in Seq(Units) /\ queue[s] \in Seq(Units) /\ pipe[s] \in Seq(Units)
      /\ Head(queue[s]) \in Units /\ Tail(queue[s]) \in Seq(Units) /\ <<>> \in Seq(Units)
  BY <1>1, TransitTypes, HeadTailProperties
<1>3. all \in Seq(Units)
  BY <1>2, AppendProperties
<1>4. BeingAppended(s)' \o pending'[s] = all
  <2> HIDE DEF all
  <2>1. Len(all) >= ChunkSize => data \o rest = all
    BY <1>3, SplitAgain
  <2>2. <<>> \o all = all
    BY <1>3, ConcatEmptySeq
  <2> HIDE DEF data, rest
  <2> QED
    BY <1>1, <2>1, <2>2
<1>5. InTransit(s)' = InTransit(s)
  <2>1. queue'[s] = Tail(queue[s]) /\ pipe'[s] = pipe[s]
    BY <1>1 DEF Types, SourceTypes
  <2>2. InTransit(s)' = all \o Tail(queue[s]) \o pipe[s]
    BY <1>4, <2>1 DEF InTransit
  <2>3. all \o Tail(queue[s]) = pending[s] \o queue[s]
    BY <1>1, <1>2, MoveFirst
  <2>4. InTransit(s) = pending[s] \o queue[s] \o pipe[s]
    <3>1. BeingAppended(s) = <<>> /\ <<>> \o pending[s] = pending[s]
      BY <1>1, <1>2, ConcatEmptySeq DEF BeingAppended
    <3> QED
      BY <3>1 DEF InTransit
  <2> QED
    BY <2>2, <2>3, <2>4
<1>6. \A t \in Sources : LostKept(t) /\ RowsKept(t)
  BY <1>1, SameLog DEF LostKept
<1>7. \A t \in Sources \ {s} : Moved(t)
  BY <1>1, <1>6, UntouchedMoves
<1> QED
  BY <1>1, <1>5, <1>6, <1>7 DEF Moved

LEMMA FlushMoves ==
  ASSUME Types, NEW s \in Sources, CaptureFlush(s)
  PROVE  \A t \in Sources : Moved(t)
<1>1. /\ capture[s] = "select" /\ BeingAppended(s)' = pending[s] /\ pending'[s] = <<>>
      /\ UNCHANGED <<written, pipe, queue, log, lost>>
      /\ \A t \in Sources \ {s} : SameStages(t)
  BY DEF CaptureFlush, StartAppend, BeingAppended, SameStages, NothingHeld, Types,
         CaptureTypes, Held, child, kernel, stored, store, ghosts
<1>2. pending[s] \o <<>> = pending[s] /\ <<>> \o pending[s] = pending[s]
  BY TransitTypes, ConcatEmptySeq
<1>3. InTransit(s)' = InTransit(s)
  BY <1>1, <1>2 DEF InTransit, BeingAppended
<1>4. \A t \in Sources : LostKept(t) /\ RowsKept(t)
  BY <1>1, SameLog DEF LostKept
<1>5. \A t \in Sources \ {s} : Moved(t)
  BY <1>1, <1>4, UntouchedMoves
<1> QED
  BY <1>1, <1>3, <1>4, <1>5 DEF Moved

\* The end of captureOutput and the two steps of publish hold nothing back.
LEMMA PublishMoves ==
  ASSUME Types, NEW s \in Sources, CaptureEnd(s) \/ PublishGrab(s) \/ PublishSend(s)
  PROVE  \A t \in Sources : Moved(t)
<1>1. /\ capture[s] # "append" /\ capture'[s] # "append"
      /\ UNCHANGED <<written, pipe, queue, pending, log, lost>>
      /\ \A t \in Sources \ {s} : capture'[t] = capture[t] /\ current'[t] = current[t]
  <2>1. capture \in [Sources -> CapturePCs] /\ current \in [Sources -> Held]
    BY DEF Types, CaptureTypes
  <2>2. CASE CaptureEnd(s)
    BY <2>1, <2>2 DEF CaptureEnd, upstream, child, kernel, feeding, stored, store, ghosts
  <2>3. CASE PublishGrab(s)
    BY <2>1, <2>3 DEF PublishGrab, upstream, child, kernel, feeding, stored, store, ghosts
  <2>4. CASE PublishSend(s)
    BY <2>1, <2>4 DEF PublishSend, upstream, child, kernel, feeding, stored, store, ghosts
  <2> QED
    BY <2>2, <2>3, <2>4
<1>2. \A t \in Sources : BeingAppended(t)' = BeingAppended(t)
  BY <1>1 DEF BeingAppended
<1>3. \A t \in Sources : LostKept(t) /\ RowsKept(t)
  BY <1>1, SameLog DEF LostKept
<1> QED
  BY <1>1, <1>2, <1>3 DEF Moved, InTransit

\* The data of an append is at the head of what is on its way.
LEMMA AppendTakesHead ==
  ASSUME Types, NEW s \in Sources, capture[s] = "append", capture'[s] # "append",
         UNCHANGED <<pending, queue, pipe>>
  PROVE  InTransit(s)' \in Seq(Units) /\ InTransit(s) = current[s].units \o InTransit(s)'
<1> DEFINE b == current[s].units
           x == pending[s]
           y == queue[s]
           z == pipe[s]
<1>1. b \in Seq(Units) /\ x \in Seq(Units) /\ y \in Seq(Units) /\ z \in Seq(Units)
  BY TransitTypes DEF BeingAppended
<1>2. InTransit(s) = b \o x \o y \o z /\ InTransit(s)' = <<>> \o x \o y \o z
  BY DEF InTransit, BeingAppended
<1> HIDE DEF b, x, y, z
<1>3. <<>> \o x = x /\ x \o y \in Seq(Units)
  BY <1>1, ConcatEmptySeq, ConcatProperties
<1>4. x \o y \o z \in Seq(Units)
  BY <1>1, <1>3, ConcatProperties
<1>5. b \o x \o y \o z = b \o (x \o y \o z)
  <2>1. Regroups(b, x, y, z)
    BY <1>1, JoinFour
  <2> QED
    BY <2>1 DEF Regroups
<1> QED
  BY <1>2, <1>3, <1>4, <1>5 DEF b

LEMMA AppendIsStored ==
  ASSUME Types, NEW s \in Sources, AppendRow(s)
  PROVE  /\ current[s].units \in Seq(Units) /\ Stored(s, current[s].units)
         /\ \A t \in Sources \ {s} : Moved(t)
<1>1. /\ capture[s] = "append" /\ capture'[s] # "append"
      /\ UNCHANGED <<written, pipe, queue, pending, lost>>
      /\ \A t \in Sources \ {s} : capture'[t] = capture[t] /\ current'[t] = current[t]
      /\ log' = Append(log, [source |-> s, units |-> current[s].units, offset |-> outSize])
  BY DEF AppendRow, upstream, child, kernel, feeding, ghosts, Types, CaptureTypes
<1>2. log \in Seq(Rows) /\ current[s].units \in Seq(Units) /\ outSize \in Nat
  BY HeldFacts DEF Types, CaptureTypes, StoreTypes
<1>3. /\ Len(log') = Len(log) + 1 /\ Len(log) \in Nat
      /\ \A n \in 1..Len(log) : log'[n] = log[n]
      /\ log'[Len(log) + 1].units = current[s].units /\ log'[Len(log) + 1].source = s
  BY <1>1, <1>2
<1>4. FromSource(s)' = FromSource(s) \cup {Len(log) + 1}
  BY <1>3 DEF FromSource
<1>5. ASSUME NEW t \in Sources \ {s} PROVE RowsKept(t)
  BY <1>3 DEF RowsKept, FromSource
<1>6. \A t \in Sources : LostKept(t)
  BY <1>1 DEF LostKept
<1>7. ASSUME NEW t \in Sources \ {s} PROVE Moved(t)
  BY <1>1, <1>5, <1>6, UntouchedMoves DEF SameStages
<1>8. InTransit(s)' \in Seq(Units) /\ InTransit(s) = current[s].units \o InTransit(s)'
  BY <1>1, AppendTakesHead
<1>9. \A n \in FromSource(s) : log'[n] = log[n]
  BY <1>3 DEF FromSource
<1> QED
  BY <1>1, <1>2, <1>3, <1>4, <1>6, <1>7, <1>8, <1>9 DEF Stored

LEMMA FailIsDropped ==
  ASSUME Types, NEW s \in Sources, AppendFails(s)
  PROVE  /\ current[s].units \in Seq(Units) /\ Dropped(s, current[s].units)
         /\ \A t \in Sources \ {s} : Moved(t)
<1>1. /\ capture[s] = "append" /\ capture'[s] # "append"
      /\ UNCHANGED <<written, pipe, queue, pending, log>>
      /\ \A t \in Sources \ {s} : capture'[t] = capture[t] /\ current'[t] = current[t]
      /\ lost' = lost \cup ({s} \X ToSet(current[s].units))
  BY DEF AppendFails, upstream, child, kernel, feeding, stored, store, Types, CaptureTypes
<1>2. current[s].units \in Seq(Units)
  BY HeldFacts DEF Types, CaptureTypes
<1>3. /\ \A k \in Units : <<s, k>> \in lost' <=> <<s, k>> \in lost \/ k \in ToSet(current[s].units)
      /\ \A t \in Sources \ {s} : LostKept(t)
  BY <1>1 DEF LostKept
<1>4. \A t \in Sources : RowsKept(t)
  BY <1>1, SameLog
<1>5. ASSUME NEW t \in Sources \ {s} PROVE Moved(t)
  BY <1>1, <1>3, <1>4, UntouchedMoves DEF SameStages
<1>6. InTransit(s)' \in Seq(Units) /\ InTransit(s) = current[s].units \o InTransit(s)'
  BY <1>1, AppendTakesHead
<1> QED
  BY <1>1, <1>2, <1>3, <1>4, <1>5, <1>6 DEF Dropped

\* What is in a pipe is at the tail.
LEMMA CloseIsDropped ==
  ASSUME Types, ClosePipes, UNCHANGED <<written, queue, captures, log>>, NEW s \in Sources
  PROVE  pipe[s] \in Seq(Units) /\ Dropped(s, pipe[s])
<1> DEFINE x == BeingAppended(s) \o pending[s] \o queue[s]
<1>1. pipe[s] \in Seq(Units) /\ x \in Seq(Units)
  <2>1. BeingAppended(s) \o pending[s] \in Seq(Units)
    BY TransitTypes, ConcatProperties
  <2> QED
    BY <2>1, TransitTypes, ConcatProperties
<1>2. InTransit(s) = x \o pipe[s] /\ InTransit(s)' = x \o <<>>
  BY DEF InTransit, BeingAppended, ClosePipes, captures
<1> HIDE DEF x
<1>3. x \o <<>> = x
  BY <1>1, ConcatEmptySeq
<1>4. \A k \in Units : <<s, k>> \in lost' <=> <<s, k>> \in lost \/ k \in ToSet(pipe[s])
  BY DEF ClosePipes, InPipes
<1> QED
  BY <1>1, <1>2, <1>3, <1>4, SameLog DEF Dropped

LEMMA StagesKept ==
  ASSUME Types, \A s \in Sources : Stage(s), [Next]_vars
  PROVE  \A s \in Sources : Stage(s)'
<1> DEFINE All == \A s \in Sources : Stage(s)'
<1>1. ASSUME NEW s \in Sources, ProcWrite(s) PROVE All
  BY <1>1, WriteIsWrote, WroteKeeps, MovedKeeps
<1>2. ASSUME NEW s \in Sources, ReaderRead(s) PROVE All
  BY <1>2, ReadMoves, MovedKeeps
<1>3. ASSUME NEW s \in Sources, CaptureChunk(s) PROVE All
  BY <1>3, ChunkMoves, MovedKeeps
<1>4. ASSUME NEW s \in Sources, CaptureFlush(s) PROVE All
  BY <1>4, FlushMoves, MovedKeeps
<1>5. ASSUME NEW s \in Sources, CaptureEnd(s) \/ PublishGrab(s) \/ PublishSend(s) PROVE All
  BY <1>5, PublishMoves, MovedKeeps
<1>6. ASSUME NEW s \in Sources, AppendRow(s) PROVE All
  <2>1. current[s].units \in Seq(Units) /\ Stored(s, current[s].units)
    BY <1>6, AppendIsStored
  <2>2. Stage(s)'
    BY <2>1, StoredKeeps
  <2> QED
    BY <1>6, <2>2, AppendIsStored, MovedKeeps
<1>7. ASSUME NEW s \in Sources, AppendFails(s) PROVE All
  <2>1. current[s].units \in Seq(Units) /\ Dropped(s, current[s].units)
    BY <1>7, FailIsDropped
  <2>2. Stage(s)'
    BY <2>1, DroppedKeeps
  <2> QED
    BY <1>7, <2>2, FailIsDropped, MovedKeeps
<1>8. ASSUME ClosePipes, UNCHANGED <<written, queue, captures, log>> PROVE All
  <2> SUFFICES ASSUME NEW s \in Sources PROVE Stage(s)'
    OBVIOUS
  <2>1. pipe[s] \in Seq(Units) /\ Dropped(s, pipe[s])
    BY <1>8, CloseIsDropped
  <2> QED
    BY <2>1, DroppedKeeps
<1>9. CASE UNCHANGED <<written, pipe, queue, pending, capture, current, log, lost>>
  <2>1. \A s \in Sources : SameStages(s) /\ LostKept(s) /\ RowsKept(s)
    BY <1>9, SameLog DEF SameStages, LostKept
  <2> QED
    BY <2>1, UntouchedMoves, MovedKeeps
<1>10. CASE WaiterReap
  BY <1>8, <1>9, <1>10
     DEF WaiterReap, child, kernel, feeding, captures, stored, store
<1>11. CASE WaiterFinish
  BY <1>8, <1>9, <1>11
     DEF WaiterFinish, child, kernel, feeding, captures, stored, store
<1>12. ASSUME NEW s \in Sources, ReaderEnd(s)
      PROVE  UNCHANGED <<written, pipe, queue, pending, capture, current, log, lost>>
  BY <1>12 DEF ReaderEnd, child, kernel, captures, stored, store, ghosts
<1>13. ASSUME ProcExit \/ WaiterPersist \/ EofGrab \/ EofSend \/ EofClose \/ DeleteJob
      PROVE  UNCHANGED <<written, pipe, queue, pending, capture, current, log, lost>>
  BY <1>13
     DEF ProcExit, WaiterPersist, EofGrab, EofSend, EofClose, DeleteJob, upstream, child,
         kernel, feeding, captures, stored, store, ghosts
<1>14. ASSUME NEW a \in Sessions,
               AttachSubscribe(a) \/ AttachBreak(a) \/ AttachReplay(a)
            \/ AttachNoRow(a) \/ AttachForward(a) \/ AttachExit(a)
            \/ AttachDetach(a)
      PROVE  UNCHANGED <<written, pipe, queue, pending, capture, current, log, lost>>
  BY <1>14
     DEF AttachSubscribe, AttachBreak, AttachReplay, AttachNoRow, AttachForward,
         AttachExit, AttachDetach, upstream, child, kernel, feeding, captures, stored,
         store, ghosts
<1>15. ASSUME NEW r \in Readers, ReadLookup(r) \/ ReadRows(r) \/ ReadDiscard(r)
      PROVE  UNCHANGED <<written, pipe, queue, pending, capture, current, log, lost>>
  BY <1>15
     DEF ReadLookup, ReadRows, ReadDiscard, upstream, child, kernel, feeding, captures,
         stored, store, ghosts
<1>16. CASE UNCHANGED vars
  BY <1>9, <1>16
     DEF vars, child, kernel, feeding, captures, store, ghosts
<1> QED
  BY <1>1, <1>2, <1>3, <1>4, <1>5, <1>6, <1>7, <1>9, <1>10, <1>11, <1>12, <1>13, <1>14,
     <1>15, <1>16
     DEF Next, ReaderStep, CaptureStep, WaiterStep, SessionStep, Client, ReadStep

-----------------------------------------------------------------------------
(* A goroutine that has ended has drained what is before it.               *)

Drained ==
    \A s \in Sources :
        /\ reader[s] = "done" => pipe[s] = <<>> /\ (s \in Used => exited \/ ~pipeOpen)
        /\ capture[s] = "done" => reader[s] = "done" /\ queue[s] = <<>> /\ pending[s] = <<>>
        /\ ~pipeOpen => pipe[s] = <<>>

LEMMA PtyStays ==
  ASSUME [Next]_vars
  PROVE  pty' = pty
<1>1. ASSUME NEW s \in Sources, ProcWrite(s) \/ ReaderRead(s) \/ ReaderEnd(s) PROVE pty' = pty
  BY <1>1 DEF ProcWrite, ReaderRead, ReaderEnd, child
<1>2. ASSUME NEW s \in Sources,
             CaptureChunk(s) \/ CaptureFlush(s) \/ CaptureEnd(s) \/ AppendRow(s)
          \/ AppendFails(s) \/ PublishGrab(s) \/ PublishSend(s)
      PROVE  pty' = pty
  BY <1>2
     DEF CaptureChunk, CaptureFlush, StartAppend, CaptureEnd, AppendRow, AppendFails,
         PublishGrab, PublishSend, upstream, child
<1>3. ASSUME ProcExit \/ WaiterReap \/ WaiterFinish \/ WaiterPersist \/ EofGrab \/ EofSend
          \/ EofClose \/ DeleteJob
      PROVE  pty' = pty
  BY <1>3
     DEF ProcExit, WaiterReap, WaiterFinish, WaiterPersist, EofGrab, EofSend, EofClose,
         DeleteJob, upstream, child
<1>4. ASSUME NEW a \in Sessions,
             AttachSubscribe(a) \/ AttachBreak(a) \/ AttachReplay(a) \/ AttachNoRow(a)
          \/ AttachForward(a) \/ AttachExit(a) \/ AttachDetach(a)
      PROVE  pty' = pty
  BY <1>4
     DEF AttachSubscribe, AttachBreak, AttachReplay, AttachNoRow, AttachForward,
         AttachExit, AttachDetach, upstream, child
<1>5. ASSUME NEW r \in Readers, ReadLookup(r) \/ ReadRows(r) \/ ReadDiscard(r)
      PROVE  pty' = pty
  BY <1>5 DEF ReadLookup, ReadRows, ReadDiscard, upstream, child
<1>6. CASE UNCHANGED vars
  BY <1>6 DEF vars, child
<1> QED
  BY <1>1, <1>2, <1>3, <1>4, <1>5, <1>6
     DEF Next, ReaderStep, CaptureStep, WaiterStep, SessionStep, Client, ReadStep

LEMMA DrainedKept ==
  ASSUME Types, Drained, [Next]_vars
  PROVE  Drained'
<1> DEFINE Behind == <<pipe, pipeOpen, exited, reader, queue, pending>>
<1>1. /\ pipe \in [Sources -> Seq(Units)] /\ queue \in [Sources -> Seq(Units)]
      /\ reader \in [Sources -> {"read", "done"}] /\ pending \in [Sources -> Seq(Units)]
      /\ capture \in [Sources -> CapturePCs] /\ exited \in BOOLEAN /\ pipeOpen \in BOOLEAN
  BY DEF Types, SourceTypes, CaptureTypes
<1>2. Used' = Used
  BY PtyStays DEF Used
<1>3. ASSUME NEW s \in Sources, ProcWrite(s) PROVE Drained'
  BY <1>1, <1>2, <1>3
     DEF ProcWrite, Drained, feeding, captures
<1>4. CASE ProcExit
  BY <1>1, <1>2, <1>4 DEF ProcExit, Drained, kernel, feeding, captures
<1>5. ASSUME NEW s \in Sources, ReaderRead(s) PROVE Drained'
  <2>1. reader[s] # "done" /\ pipe[s] # <<>>
    BY <1>5 DEF ReaderRead, ReaderFree
  <2>2. capture[s] # "done" /\ pipeOpen
    BY <2>1, <1>1 DEF Drained
  <2> QED
    BY <1>1, <1>2, <1>5, <2>1, <2>2 DEF ReaderRead, Drained, child, captures
<1>6. ASSUME NEW s \in Sources, ReaderEnd(s) PROVE Drained'
  BY <1>1, <1>2, <1>6 DEF ReaderEnd, ReaderFree, Drained, child, kernel, captures
<1>7. ASSUME NEW s \in Sources, CaptureChunk(s) \/ CaptureFlush(s) PROVE Drained'
  <2>1. /\ UNCHANGED <<pipe, pipeOpen, exited, reader>> /\ capture[s] = "select"
        /\ capture'[s] # "done"
        /\ \A t \in Sources \ {s} : /\ capture'[t] = capture[t] /\ queue'[t] = queue[t]
                                    /\ pending'[t] = pending[t]
    BY <1>1, <1>7
       DEF CaptureChunk, CaptureFlush, StartAppend, child, kernel
  <2> QED
    BY <1>2, <2>1 DEF Drained
<1>8. ASSUME NEW s \in Sources, CaptureEnd(s) PROVE Drained'
  BY <1>1, <1>2, <1>8 DEF CaptureEnd, Drained, upstream, child, kernel, feeding
<1>9. ASSUME NEW s \in Sources,
             AppendRow(s) \/ AppendFails(s) \/ PublishGrab(s) \/ PublishSend(s)
      PROVE  Drained'
  <2>1. UNCHANGED Behind /\ \A t \in Sources : capture'[t] = "done" => capture[t] = "done"
    BY <1>1, <1>9
       DEF AppendRow, AppendFails, PublishGrab, PublishSend, upstream, child, kernel, feeding
  <2> QED
    BY <1>2, <2>1 DEF Drained
<1>10. ASSUME WaiterReap \/ WaiterFinish PROVE Drained'
  <2>1. UNCHANGED <<exited, reader, queue, pending, capture>>
    BY <1>10 DEF WaiterReap, WaiterFinish, child, feeding, captures
  <2>2. CASE ClosePipes
    BY <1>2, <2>1, <2>2 DEF ClosePipes, Drained
  <2>3. CASE UNCHANGED kernel
    BY <1>2, <2>1, <2>3 DEF kernel, Drained
  <2> QED
    BY <1>10, <2>2, <2>3 DEF WaiterReap, WaiterFinish
<1>11. CASE UNCHANGED <<Behind, capture>>
  BY <1>2, <1>11 DEF Drained
<1>12. ASSUME WaiterPersist \/ EofGrab \/ EofSend \/ EofClose \/ DeleteJob
       PROVE  UNCHANGED <<Behind, capture>>
  BY <1>12
     DEF WaiterPersist, EofGrab, EofSend, EofClose, DeleteJob, upstream, child, kernel,
         feeding, captures
<1>13. ASSUME NEW a \in Sessions,
               AttachSubscribe(a) \/ AttachBreak(a) \/ AttachReplay(a)
            \/ AttachNoRow(a) \/ AttachForward(a) \/ AttachExit(a) \/ AttachDetach(a)
       PROVE  UNCHANGED <<Behind, capture>>
  BY <1>13
     DEF AttachSubscribe, AttachBreak, AttachReplay, AttachNoRow, AttachForward,
         AttachExit, AttachDetach, upstream, child, kernel, feeding, captures
<1>14. ASSUME NEW r \in Readers, ReadLookup(r) \/ ReadRows(r) \/ ReadDiscard(r)
       PROVE  UNCHANGED <<Behind, capture>>
  BY <1>14
     DEF ReadLookup, ReadRows, ReadDiscard, upstream, child, kernel, feeding, captures
<1>15. CASE UNCHANGED vars
  BY <1>11, <1>15 DEF vars, child, kernel, feeding, captures
<1> QED
  BY <1>3, <1>4, <1>5, <1>6, <1>7, <1>8, <1>9, <1>10, <1>11, <1>12, <1>13, <1>14, <1>15
     DEF Next, ReaderStep, CaptureStep, WaiterStep, SessionStep, Client, ReadStep

-----------------------------------------------------------------------------
StageInv == /\ \A s \in Sources : Stage(s)
            /\ Drained

LEMMA StageInit == Init => StageInv
<1> SUFFICES ASSUME Init PROVE StageInv
  OBVIOUS
<1>1. ASSUME NEW s \in Sources PROVE Stage(s)
  <2>1. FromSource(s) = {}
    BY DEF Init, FromSource
  <2>2. InTransit(s) = <<>>
    <3>1. /\ BeingAppended(s) = <<>> /\ pending[s] = <<>> /\ queue[s] = <<>>
          /\ pipe[s] = <<>>
      BY DEF Init, BeingAppended
    <3>2. <<>> \o <<>> = <<>>
      BY ConcatEmptySeq
    <3> QED
      BY <3>1, <3>2, Zenon DEF InTransit
  <2>3. Persisted(s) = {} /\ ToSet(InTransit(s)) = {} /\ Increasing(InTransit(s))
    BY <2>1, <2>2 DEF Persisted, ToSet, Increasing
  <2>4. Surviving(s) = {} /\ lost = {}
    BY DEF Init, Surviving
  <2> QED
    BY <2>1, <2>3, <2>4 DEF Stage
<1>2. Drained
  BY DEF Init, Drained
<1> QED
  BY <1>1, <1>2 DEF StageInv

LEMMA StageInvariant == Spec => [](Types /\ StageInv)
<1>1. IInv => Types
  BY DEF IInv
<1>2. Types /\ StageInv /\ [Next]_vars => StageInv'
  BY StagesKept, DrainedKept DEF StageInv
<1> QED
  BY Invariant, StageInit, <1>1, <1>2, PTL DEF Spec

\* Between the child and the store output is neither reordered nor duplicated, and
\* what is missing was lost for a reason the model names; what a capture goroutine that
\* has ended has not persisted was lost, for nothing is left in a buffer, channel or
\* pipe (captureOutput, appendOutput).
THEOREM OutputStaysInOrder == Spec => []StagesInOrder
<1>1. ASSUME StageInv, NEW s \in Sources, capture[s] = "done"
      PROVE  Persisted(s) = Surviving(s)
  <2>1. /\ BeingAppended(s) = <<>> /\ pending[s] = <<>> /\ queue[s] = <<>>
        /\ pipe[s] = <<>>
    BY <1>1 DEF StageInv, Drained, BeingAppended
  <2>2. InTransit(s) = <<>>
    <3>1. <<>> \o <<>> = <<>>
      BY ConcatEmptySeq
    <3> QED
      BY <2>1, <3>1, Zenon DEF InTransit
  <2>3. ToSet(InTransit(s)) = {}
    BY <2>2 DEF ToSet
  <2> QED
    BY <1>1, <2>3 DEF StageInv, Stage
<1>2. StageInv => StagesInOrder
  BY <1>1 DEF StageInv, Stage, StagesInOrder
<1> QED
  BY StageInvariant, <1>2, PTL
=============================================================================
