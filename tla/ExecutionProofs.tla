--------------------------- MODULE ExecutionProofs ---------------------------
(***************************************************************************)
(* Two resource bounds of the execution core, for every number of entries, *)
(* tags, pipeline stages and FIFO slots, and every workload: the occupancy *)
(* count of the integer station is exact, and the result FIFOs of the      *)
(* multiplier and the divider never overflow.                              *)
(*                                                                         *)
(* Both are inductive once the registers are known to hold values of their *)
(* kinds (CoreType, RsType, ShimType).  The count needs that the two ports *)
(* take different valid entries and that the slots are given different     *)
(* free ones, which in turn needs the count.  The credits need that a      *)
(* pipeline never holds more unflushed operations than it held, plus the   *)
(* one that entered, less the one that left.                               *)
(***************************************************************************)
EXTENDS Execution, FiniteSetTheorems, SequenceTheorems, WellFoundedInduction, TLAPS

(* Steps are first-order unless they say otherwise: those that need        *)
(* arithmetic, or that reason about sets and functions by extension, say   *)
(* SMT.                                                                    *)
USE Zenon

MaybeId == Id \cup {None}

-----------------------------------------------------------------------------
(* The multiplier and the divider.                                         *)

ShimType ==
  \A p \in Pipe : /\ trk[p] \in [1 .. Stages[p] -> Tracked \cup {None}]
                  /\ fifo[p] \in Seq(Tracked)

(* A set of positions, moved up by one, with the first one added.          *)
LEMMA ShiftedCardinality ==
  ASSUME NEW n \in Nat, NEW S \in SUBSET (1 .. n), NEW T,
         \A i \in T : i \in 1 .. n /\ (i = 1 \/ i - 1 \in S)
  PROVE  /\ Cardinality(S) \in Nat /\ Cardinality(T) \in Nat
         /\ Cardinality(T) <= Cardinality(S) + 1
         /\ 1 \notin T => Cardinality(T) <= Cardinality(S)
<1> DEFINE U == T \ {1}
           down == [i \in U |-> i - 1]
<1>1. IsFiniteSet(1 .. n)
  BY FS_Interval, SMT
<1>2. IsFiniteSet(S) /\ IsFiniteSet(T)
  BY <1>1, FS_Subset
<1>3. down \in Injection(U, S)
  BY SMT DEF Injection, IsInjective
<1>4. Cardinality(U) <= Cardinality(S)
  BY <1>2, <1>3, FS_Injection, SMT
<1>5. Cardinality(U) = IF 1 \in T THEN Cardinality(T) - 1 ELSE Cardinality(T)
  BY <1>2, FS_RemoveElement
<1>6. Cardinality(S) \in Nat /\ Cardinality(T) \in Nat
  BY <1>2, FS_CardinalityType
<1> QED
  BY <1>4, <1>5, <1>6, SMT

(* Marking keeps an entry an entry, and never unmarks it.                  *)
LEMMA MarkType ==
  ASSUME NEW e \in Tracked \cup {None}, NEW fl
  PROVE  /\ Mark(e, fl) \in Tracked \cup {None}
         /\ e = None => Mark(e, fl) = None
         /\ e # None => Mark(e, fl) \in Tracked /\ (e.flushed => Mark(e, fl).flushed)
BY DEF Mark, Tracked, Squashes, IsYounger

(* One cycle of a FIFO: its type, and that it grows only by what leaves    *)
(* the pipeline.                                                           *)
LEMMA FifoStep ==
  ASSUME ShimType, NEW p \in Pipe, NEW accepted, NEW fl
  PROVE  /\ FifoNext(p, accepted, fl) \in Seq(Tracked)
         /\ Len(FifoNext(p, accepted, fl)) <= Len(fifo[p]) + (IF Completing(p) THEN 1 ELSE 0)
         /\ fl.all => Len(FifoNext(p, accepted, fl)) = 0
<1> DEFINE marked == [i \in 1 .. Len(fifo[p]) |-> Mark(fifo[p][i], fl)]
           pops   == fifo[p] # << >> /\ (accepted \/ HeadFlushed(p))
           rest   == IF pops THEN Tail(marked) ELSE marked
<1>1. fifo[p] \in Seq(Tracked) /\ Len(fifo[p]) \in Nat
  BY LenProperties DEF ShimType
<1>2. marked \in [1 .. Len(fifo[p]) -> Tracked]
  <2>1. \A i \in 1 .. Len(fifo[p]) : fifo[p][i] \in Tracked
    BY <1>1, ElementOfSeq
  <2>2. \A i \in 1 .. Len(fifo[p]) : Mark(fifo[p][i], fl) \in Tracked
    <3>1. ASSUME NEW e \in Tracked PROVE Mark(e, fl) \in Tracked
      BY MarkType DEF Mark, Tracked
    <3> QED
      BY <2>1, <3>1
  <2> QED
    BY <2>2
<1>3. marked \in Seq(Tracked) /\ Len(marked) = Len(fifo[p])
  <2> HIDE DEF marked
  <2>1. marked \in Seq(Tracked)
    BY <1>1, <1>2, SeqDef, SMT
  <2>2. 1 .. Len(marked) = 1 .. Len(fifo[p]) /\ Len(marked) \in Nat
    BY <1>2, <2>1, LenProperties
  <2> QED
    BY <1>1, <2>1, <2>2, SMT
<1>4. rest \in Seq(Tracked) /\ Len(rest) <= Len(fifo[p]) /\ Len(rest) \in Nat
  <2> HIDE DEF marked
  <2>1. CASE pops
    <3>1. marked # << >>
      BY <1>1, <1>3, <2>1, EmptySeq
    <3>2. Tail(marked) \in Seq(Tracked) /\ Len(Tail(marked)) = Len(marked) - 1
      BY <1>3, <3>1, HeadTailProperties
    <3> QED
      BY <1>1, <1>3, <2>1, <3>2, LenProperties, SMT
  <2>2. CASE ~pops
    BY <1>1, <1>3, <2>2, SMT
  <2> QED
    BY <2>1, <2>2
<1>5. FifoNext(p, accepted, fl) =
        IF fl.all THEN << >> ELSE IF Completing(p) THEN Append(rest, Pushed(p, fl)) ELSE rest
  BY DEF FifoNext
<1> HIDE DEF rest
<1>6. CASE fl.all
  <2>1. << >> \in Seq(Tracked) /\ Len(<< >>) = 0
    BY EmptySeq
  <2>2. FifoNext(p, accepted, fl) = << >>
    BY <1>5, <1>6
  <2>3. Len(FifoNext(p, accepted, fl)) = 0 /\ FifoNext(p, accepted, fl) \in Seq(Tracked)
    BY <2>1, <2>2
  <2>4. 0 <= Len(fifo[p]) + (IF Completing(p) THEN 1 ELSE 0)
    <3>1. ASSUME NEW a \in Nat, NEW o \in {0, 1} PROVE 0 <= a + o
      BY SMT
    <3>2. (IF Completing(p) THEN 1 ELSE 0) \in {0, 1}
      OBVIOUS
    <3> QED
      BY <1>1, <3>1, <3>2
  <2> QED
    BY <2>3, <2>4
<1>7. CASE ~fl.all /\ Completing(p)
  <2>1. Stages[p] \in 1 .. Stages[p]
    BY ShimAssumption, SMT
  <2>2. Last(p) \in Tracked
    BY <1>7, <2>1 DEF Completing, Last, ShimType
  <2>3. Pushed(p, fl) \in Tracked
    BY <1>7, <2>2, MarkType, SMT DEF Pushed, Completing
  <2>4. Append(rest, Pushed(p, fl)) \in Seq(Tracked) /\ Len(Append(rest, Pushed(p, fl))) = Len(rest) + 1
    BY <1>4, <2>3, SMT
  <2> QED
    BY <1>1, <1>4, <1>5, <1>7, <2>4, SMT
<1>8. CASE ~fl.all /\ ~Completing(p)
  BY <1>1, <1>4, <1>5, <1>8, SMT
<1> QED
  BY <1>6, <1>7, <1>8

(* One cycle of a pipeline: its type, and that the credits cover it.       *)
LEMMA PipeStep ==
  ASSUME ShimType, NEW p \in Pipe, NEW issue \in MaybeId, NEW fl, NEW next,
         next = TrkNext(p, issue, fl)
  PROVE  LET old == InFlight(p)
             new == {i \in 1 .. Stages[p] : next[i] # None /\ ~next[i].flushed}
         IN /\ next \in [1 .. Stages[p] -> Tracked \cup {None}]
            /\ Cardinality(old) \in Nat /\ Cardinality(new) \in Nat
            /\ fl.all => Cardinality(new) = 0
            /\ Cardinality(new) <= Cardinality(old) - (IF Completing(p) THEN 1 ELSE 0)
                                     + (IF Busy(p) THEN 0 ELSE 1)
<1> DEFINE n    == Stages[p]
           old  == InFlight(p)
           kept == old \ {n}
           new  == {i \in 1 .. n : next[i] # None /\ ~next[i].flushed}
<1>1. n \in Nat \ {0}
  BY ShimAssumption
<1>2. \A i \in 1 .. n : trk[p][i] \in Tracked \cup {None}
  BY DEF ShimType
<1>3. \A i \in 1 .. n : i > 1 => i - 1 \in 1 .. n
  BY <1>1, SMT
<1>4. ASSUME issue # None PROVE [result |-> issue, flushed |-> FALSE] \in Tracked
  BY <1>4 DEF Tracked, MaybeId
<1>5. \A i \in 1 .. n : next[i] = IF fl.all THEN None
                                 ELSE IF i > 1 THEN Mark(trk[p][i - 1], fl)
                                 ELSE IF issue = None \/ Busy(p) THEN None
                                 ELSE Mark([result |-> issue, flushed |-> FALSE], fl)
  BY DEF TrkNext
<1>6. \A i \in 1 .. n : next[i] \in Tracked \cup {None}
  <2> SUFFICES ASSUME NEW i \in 1 .. n PROVE next[i] \in Tracked \cup {None}
    OBVIOUS
  <2>1. i > 1 => Mark(trk[p][i - 1], fl) \in Tracked \cup {None}
    BY <1>2, <1>3, MarkType
  <2>2. issue # None => Mark([result |-> issue, flushed |-> FALSE], fl) \in Tracked \cup {None}
    BY <1>4, MarkType
  <2> QED
    BY <1>5, <2>1, <2>2
<1>7. next \in [1 .. n -> Tracked \cup {None}]
  BY <1>6 DEF TrkNext
<1>8. \A i \in new : i \in 1 .. n /\ (i = 1 \/ i - 1 \in kept)
  <2>1. SUFFICES ASSUME NEW i \in new, i > 1 PROVE i - 1 \in old /\ i - 1 # n
    BY <1>1, SMT
  <2>2. i - 1 \in 1 .. n /\ i - 1 # n
    BY <1>1, <1>3, <2>1, SMT
  <2>3. next[i] = Mark(trk[p][i - 1], fl) /\ next[i] # None /\ ~next[i].flushed
    BY <1>5, <2>1
  <2>4. trk[p][i - 1] # None /\ ~trk[p][i - 1].flushed
    BY <1>2, <2>2, <2>3, MarkType
  <2> QED
    BY <2>2, <2>4 DEF InFlight
<1>9. Busy(p) => 1 \notin new
  BY <1>1, <1>5, SMT
<1>10. old \subseteq 1 .. n /\ kept \subseteq 1 .. n
  BY DEF InFlight
<1>11. IsFiniteSet(old) /\ Cardinality(old) \in Nat
  <2>1. IsFiniteSet(1 .. n)
    BY <1>1, FS_Interval, SMT
  <2> QED
    BY <1>10, <2>1, FS_Subset, FS_CardinalityType
<1>12. Cardinality(kept) = Cardinality(old) - (IF Completing(p) THEN 1 ELSE 0)
  <2>1. n \in old <=> Completing(p)
    BY <1>1, SMT DEF InFlight, Completing, Last
  <2>2. Cardinality(old \ {n}) = IF n \in old THEN Cardinality(old) - 1 ELSE Cardinality(old)
    BY <1>11, FS_RemoveElement
  <2> HIDE DEF n, old
  <2> QED
    BY <1>11, <2>1, <2>2, SMT
<1>13. fl.all => new = {}
  BY <1>5
<1> HIDE DEF n, old, kept, new
<1>14. /\ Cardinality(new) \in Nat /\ Cardinality(kept) \in Nat
       /\ Cardinality(new) <= Cardinality(kept) + 1
       /\ 1 \notin new => Cardinality(new) <= Cardinality(kept)
  BY <1>1, <1>8, <1>10, ShiftedCardinality
<1>15. Cardinality({}) = 0
  BY FS_EmptySet
<1>16. fl.all => Cardinality(new) = 0
  BY <1>13, <1>15
<1>17. Cardinality(new) <= Cardinality(kept) + (IF Busy(p) THEN 0 ELSE 1)
  BY <1>9, <1>14, SMT
<1>18. Cardinality(new) <= Cardinality(old) - (IF Completing(p) THEN 1 ELSE 0)
                            + (IF Busy(p) THEN 0 ELSE 1)
  BY <1>11, <1>12, <1>14, <1>17
<1> QED
  BY <1>7, <1>11, <1>14, <1>16, <1>18 DEF n, old, new

(* The credits: what is in a pipeline finds room in the FIFO behind it.    *)
LEMMA ShimStep ==
  ASSUME ShimType, FifosHaveRoom, NEW issue \in [Pipe -> MaybeId], NEW accepted, NEW fl,
         ShimClock(issue, accepted, fl)
  PROVE  ShimType' /\ FifosHaveRoom'
<1>1. ASSUME NEW p \in Pipe
      PROVE  /\ trk'[p] \in [1 .. Stages[p] -> Tracked \cup {None}]
             /\ fifo'[p] \in Seq(Tracked)
             /\ Len(fifo'[p]) + Cardinality(InFlight(p)') <= FifoDepth
  <2> DEFINE out == IF Completing(p) THEN 1 ELSE 0
             in  == IF Busy(p) THEN 0 ELSE 1
  <2>1. trk'[p] = TrkNext(p, issue[p], fl) /\ fifo'[p] = FifoNext(p, accepted[p], fl)
    BY DEF ShimClock
  <2>2. fifo'[p] \in Seq(Tracked) /\ Len(fifo'[p]) <= Len(fifo[p]) + out
    BY <2>1, FifoStep
  <2>3. /\ trk'[p] \in [1 .. Stages[p] -> Tracked \cup {None}]
        /\ Cardinality(InFlight(p)) \in Nat /\ Cardinality(InFlight(p)') \in Nat
        /\ Cardinality(InFlight(p)') <= Cardinality(InFlight(p)) - out + in
    BY <2>1, PipeStep, SMT DEF InFlight
  <2>4. Len(fifo[p]) \in Nat /\ Len(fifo'[p]) \in Nat
    BY <2>2, LenProperties DEF ShimType
  <2>5. Len(fifo[p]) + Cardinality(InFlight(p)) + in <= FifoDepth
    BY <2>3, <2>4, ShimAssumption, SMT DEF Busy, FifosHaveRoom
  <2>6. out \in {0, 1} /\ in \in {0, 1} /\ FifoDepth \in Nat
    BY ShimAssumption
  <2> HIDE DEF out, in
  <2>7. Len(fifo'[p]) + Cardinality(InFlight(p)') <= FifoDepth
    <3>1. ASSUME NEW a \in Nat, NEW b \in Nat, NEW c \in Nat, NEW d \in Nat,
                 NEW o \in {0, 1}, NEW i \in {0, 1}, NEW depth \in Nat,
                 c <= a + o, d <= b - o + i, a + b + i <= depth
          PROVE  c + d <= depth
      BY <3>1, SMT
    <3> QED
      BY <2>2, <2>3, <2>4, <2>5, <2>6, <3>1
  <2> QED
    BY <2>2, <2>3, <2>7
<1> QED
  BY <1>1 DEF ShimType, FifosHaveRoom

-----------------------------------------------------------------------------
(* The reservation station.                                                *)

RsType ==
  /\ rs_entry \in [Index -> Entry \cup {None}]
  /\ stage2 \in Entry \cup {None} /\ stage2b \in Entry \cup {None}

(* Priority encoders find their entry.                                     *)
LEMMA LowestIn == ASSUME NEW S \in SUBSET Nat, S # {} PROVE Lowest(S) \in S
<1> DEFINE R == {ss \in Nat \X Nat : ss[1] < ss[2]}
<1>1. IsWellFoundedOn(R, Nat)
  BY NatLessThanWellFounded DEF OpToRel
<1>2. PICK i \in S : \A j \in S : ~(<< j, i >> \in R)
  BY <1>1, WFMin
<1>3. \A j \in S : i <= j
  <2>1. SUFFICES ASSUME NEW j \in S PROVE ~(j < i)
    BY SMT
  <2>2. << j, i >> \in Nat \X Nat /\ << j, i >>[1] = j /\ << j, i >>[2] = i
    OBVIOUS
  <2> QED
    BY <1>2, <2>2
<1> QED
  BY <1>2, <1>3 DEF Lowest

(* A wakeup keeps a source a source.                                       *)
LEMMA WakeType ==
  ASSUME NEW s \in Source, NEW cdb, cdb[1] \in MaybeId, cdb[2] \in MaybeId
  PROVE  CdbWake(s, cdb) \in Source /\ DispatchWake(s, cdb) \in Source
BY DEF CdbWake, DispatchWake, LaneHit, Filled, Source, MaybeId

(* A resident entry that listens to the lanes and the repair stays an     *)
(* entry.                                                                  *)
LEMMA ResidentType ==
  ASSUME RsType, NEW i \in rs_valid, NEW cdb, cdb[1] \in MaybeId, cdb[2] \in MaybeId,
         NEW repair, \A k \in {1, 2}, s \in Sources : repair[k][s] \in MaybeId
  PROVE  Resident(i, cdb, repair) \in Entry /\ Bypassed(i, cdb) \in Entry
<1>1. rs_entry[i] \in Entry
  BY DEF RsType, rs_valid
<1>2. \A k \in Sources : rs_entry[i].src[k] \in Source
  BY <1>1 DEF Entry
<1>3. \A k \in Sources : ResidentWake(i, k, cdb, repair) \in Source
  <2>1. SUFFICES ASSUME NEW k \in Sources PROVE ResidentWake(i, k, cdb, repair) \in Source
    OBVIOUS
  <2>2. ASSUME NEW s \in Source, NEW v \in MaybeId PROVE Filled(s, v) \in Source
    BY DEF Filled, Source, MaybeId
  <2>3. repair[1][k] \in MaybeId /\ repair[2][k] \in MaybeId /\ rs_entry[i].src[k] \in Source
    BY <1>2
  <2> QED
    BY <2>2, <2>3, WakeType DEF ResidentWake
<1>4. \A k \in Sources : CdbWake(rs_entry[i].src[k], cdb) \in Source
  BY <1>2, WakeType
<1>5. ASSUME NEW f \in [Sources -> Source] PROVE [rs_entry[i] EXCEPT !.src = f] \in Entry
  BY <1>1 DEF Entry
<1>6. Resident(i, cdb, repair) \in Entry
  BY <1>3, <1>5 DEF Resident
<1>7. Bypassed(i, cdb) \in Entry
  BY <1>4, <1>5 DEF Bypassed
<1> QED
  BY <1>6, <1>7

(* Each port takes at most one valid entry, no two the same one, and none  *)
(* during a flush.                                                         *)
LEMMA FireFacts ==
  ASSUME NEW ready, NEW ready2, NEW cdb, NEW fl
  PROVE  LET fire  == IssueFire(ready, cdb, fl)
             fire2 == IssueFire2(ready2, cdb, fl)
         IN /\ fire = {} \/ \E i \in rs_valid : fire = {i} /\ ~fl.all /\ ~fl.en
            /\ fire2 = {} \/ \E i \in rs_valid : fire2 = {i} /\ ~fl.all /\ ~fl.en
            /\ fire \cap fire2 = {}
<1>1. EntryReady(cdb) \subseteq rs_valid /\ Ports1(cdb) \subseteq EntryReady(cdb)
  BY DEF EntryReady, Ports1
<1>2. rs_valid \subseteq Nat
  BY RsAssumption, SMT DEF rs_valid, Index
<1>3. EntryReady(cdb) # {} => Lowest(EntryReady(cdb)) \in EntryReady(cdb)
  BY <1>1, <1>2, LowestIn
<1>4. Ports1(cdb) # {} => Lowest(Ports1(cdb)) \in Ports1(cdb)
  BY <1>1, <1>2, LowestIn
<1>5. Lowest(EntryReady(cdb)) \notin Ports1(cdb)
  BY DEF Ports1
<1> QED
  BY <1>1, <1>3, <1>4, <1>5 DEF IssueFire, IssueFire2, CanIssue

(* The flags dispatch obeys leave a free entry for each slot.              *)
LEMMA FreeFacts ==
  ASSUME CountMatches
  PROVE  /\ rs_valid \subseteq Index /\ IsFiniteSet(Index) /\ IsFiniteSet(rs_valid)
         /\ rs_count \in 0 .. RsDepth
         /\ ~Full => FreeIdx \in Index \ rs_valid
         /\ ~FullFor2 => ~Full /\ FreeIdx2 \in Index \ (rs_valid \cup {FreeIdx})
<1>1. IsFiniteSet(Index) /\ Cardinality(Index) = RsDepth
  BY RsAssumption, FS_Interval, SMT DEF Index
<1>2. rs_valid \subseteq Index
  BY DEF rs_valid
<1>3. IsFiniteSet(rs_valid) /\ Cardinality(rs_valid) <= RsDepth /\ Cardinality(rs_valid) \in Nat
  BY <1>1, <1>2, FS_Subset, FS_CardinalityType
<1>4. rs_count \in 0 .. RsDepth
  BY <1>3, RsAssumption, SMT DEF CountMatches
<1>5. ASSUME ~Full PROVE FreeIdx \in Index \ rs_valid
  <2>1. rs_valid # Index
    BY <1>1, <1>5 DEF Full, CountMatches
  <2>2. Index \ rs_valid # {} /\ Index \ rs_valid \in SUBSET Nat
    <3>1. Index \subseteq Nat
      BY RsAssumption, SMT DEF Index
    <3> QED
      BY <1>2, <2>1, <3>1
  <2> QED
    BY <2>2, LowestIn DEF FreeIdx
<1>6. ASSUME ~FullFor2 PROVE ~Full /\ FreeIdx2 \in Index \ (rs_valid \cup {FreeIdx})
  <2>1. ~Full
    BY <1>4, <1>6, RsAssumption, SMT DEF Full, FullFor2
  <2>2. FreeIdx \in Index \ rs_valid
    BY <1>5, <2>1
  <2>3. Cardinality(rs_valid \cup {FreeIdx}) = Cardinality(rs_valid) + 1
    BY <1>3, <2>2, FS_AddElement
  <2>4. Cardinality(rs_valid) + 1 # RsDepth
    BY <1>4, <1>6, RsAssumption, SMT DEF FullFor2, CountMatches
  <2>5. rs_valid \cup {FreeIdx} # Index
    BY <1>1, <2>3, <2>4
  <2>6. /\ Index \ (rs_valid \cup {FreeIdx}) # {}
        /\ Index \ (rs_valid \cup {FreeIdx}) \in SUBSET Nat
    <3>1. Index \subseteq Nat
      BY RsAssumption, SMT DEF Index
    <3> QED
      BY <1>2, <2>2, <2>5, <3>1
  <2> QED
    BY <2>1, <2>6, LowestIn DEF FreeIdx2
<1> QED
  BY <1>1, <1>2, <1>3, <1>4, <1>5, <1>6

(* Some members leave a finite set, then others enter it.                  *)
LEMMA DisjointCardinality ==
  ASSUME NEW S, NEW T, IsFiniteSet(S), IsFiniteSet(T), S \cap T = {}
  PROVE  IsFiniteSet(S \cup T) /\ Cardinality(S \cup T) = Cardinality(S) + Cardinality(T)
<1>1. IsFiniteSet(S \cup T)
      /\ Cardinality(S \cup T) = Cardinality(S) + Cardinality(T) - Cardinality(S \cap T)
  BY FS_Union
<1>2. Cardinality(S) \in Nat /\ Cardinality(T) \in Nat /\ Cardinality(S \cap T) = 0
  BY FS_CardinalityType, FS_EmptySet
<1> QED
  BY <1>1, <1>2, SMT

(* The cardinality of the valid entries when at most two leave and at      *)
(* most two others enter.                                                  *)
LEMMA LeaveAndEnter ==
  ASSUME NEW S, IsFiniteSet(S), NEW F \in SUBSET S, NEW G \in SUBSET S, F \cap G = {},
         NEW A, NEW B, A \cap S = {}, B \cap (S \cup A) = {}, IsFiniteSet(A), IsFiniteSet(B)
  PROVE  Cardinality((S \ (F \cup G)) \cup A \cup B)
           = Cardinality(S) - Cardinality(F) - Cardinality(G) + Cardinality(A) + Cardinality(B)
<1> DEFINE K == S \ (F \cup G)
<1>1. IsFiniteSet(F) /\ IsFiniteSet(G) /\ IsFiniteSet(K)
  BY FS_Subset
<1>2. /\ Cardinality(S) \in Nat /\ Cardinality(K) \in Nat /\ Cardinality(F) \in Nat
      /\ Cardinality(G) \in Nat /\ Cardinality(A) \in Nat /\ Cardinality(B) \in Nat
  BY <1>1, FS_CardinalityType
<1>3. IsFiniteSet(F \cup G) /\ Cardinality(F \cup G) = Cardinality(F) + Cardinality(G)
  BY <1>1, DisjointCardinality
<1>4. K \cap (F \cup G) = {} /\ K \cup (F \cup G) = S /\ K \cap A = {} /\ (K \cup A) \cap B = {}
  OBVIOUS
<1> HIDE DEF K
<1>5. Cardinality(S) = Cardinality(K) + Cardinality(F \cup G)
  BY <1>1, <1>3, <1>4, DisjointCardinality
<1>6. IsFiniteSet(K \cup A) /\ Cardinality(K \cup A) = Cardinality(K) + Cardinality(A)
  BY <1>1, <1>4, DisjointCardinality
<1>7. Cardinality((K \cup A) \cup B) = Cardinality(K \cup A) + Cardinality(B)
  BY <1>4, <1>6, DisjointCardinality
<1> QED
  BY <1>2, <1>3, <1>5, <1>6, <1>7, SMT DEF K

(* A set with at most one member, counted as a bit.                        *)
LEMMA BitCardinality ==
  ASSUME NEW X, X = {} \/ \E i : X = {i}
  PROVE  /\ IsFiniteSet(X) /\ Cardinality(X) \in {0, 1}
         /\ Cardinality(X) = Bit(X # {})
<1>1. CASE X = {}
  BY <1>1, FS_EmptySet DEF Bit
<1>2. CASE X # {}
  <2>1. PICK i : X = {i}
    BY <1>2
  <2>2. IsFiniteSet({i}) /\ Cardinality({i}) = 1
    BY FS_Singleton
  <2> QED
    BY <1>2, <2>1, <2>2 DEF Bit
<1> QED
  BY <1>1, <1>2

(* One cycle of the station, for inputs of the right kind.                 *)
LEMMA RsStep ==
  ASSUME RsType, CountMatches,
         NEW d, d[1] \in Entry \cup {None}, d[2] \in Entry \cup {None},
         NEW ready, NEW ready2, NEW fl,
         NEW cdb, cdb[1] \in MaybeId, cdb[2] \in MaybeId,
         NEW repair, \A k \in {1, 2}, s \in Sources : repair[k][s] \in MaybeId,
         RsClock(d, ready, ready2, cdb, repair, fl)
  PROVE  RsType' /\ CountMatches'
<1> DEFINE fire  == IssueFire(ready, cdb, fl)
           fire2 == IssueFire2(ready2, cdb, fl)
           disp1 == DispatchFire1(d) /\ ~fl.all /\ ~fl.en
           disp2 == DispatchFire2(d) /\ ~fl.all /\ ~fl.en
           keeps == {i \in rs_valid : ~fl.all /\ ~Squashes(fl, rs_entry[i].id.tag)}
                      \ (fire \cup fire2)
           A     == IF disp1 THEN {FreeIdx} ELSE {}
           B     == IF disp2 THEN {AllocIdx2(d)} ELSE {}
<1>1. /\ rs_entry' = [i \in Index |->
                        IF disp2 /\ i = AllocIdx2(d) THEN Dispatched(d[2], cdb)
                        ELSE IF disp1 /\ i = FreeIdx THEN Dispatched(d[1], cdb)
                        ELSE IF i \in keeps THEN Resident(i, cdb, repair) ELSE None]
      /\ rs_count' = IF fl.all THEN 0
                     ELSE IF fl.en THEN Cardinality(keeps)
                     ELSE rs_count - Bit(fire # {}) - Bit(fire2 # {}) + Bit(disp1) + Bit(disp2)
      /\ stage2' = StageNext(stage2, fire, ready, cdb, fl)
      /\ stage2b' = StageNext(stage2b, fire2, ready2, cdb, fl)
  BY DEF RsClock
<1>2. /\ fire = {} \/ \E i \in rs_valid : fire = {i} /\ ~fl.all /\ ~fl.en
      /\ fire2 = {} \/ \E i \in rs_valid : fire2 = {i} /\ ~fl.all /\ ~fl.en
      /\ fire \cap fire2 = {}
  BY FireFacts
<1>3. /\ rs_valid \subseteq Index /\ IsFiniteSet(rs_valid) /\ rs_count \in 0 .. RsDepth
      /\ ~Full => FreeIdx \in Index \ rs_valid
      /\ ~FullFor2 => ~Full /\ FreeIdx2 \in Index \ (rs_valid \cup {FreeIdx})
  BY FreeFacts
<1>4. disp1 => d[1] \in Entry /\ FreeIdx \in Index \ rs_valid
  BY <1>3 DEF DispatchFire1
<1>5. disp2 => /\ d[2] \in Entry /\ AllocIdx2(d) \in Index \ rs_valid
               /\ disp1 => AllocIdx2(d) # FreeIdx
  BY <1>3 DEF DispatchFire1, DispatchFire2, AllocIdx2
<1>6. \A e \in Entry : Dispatched(e, cdb) \in Entry
  <2>1. SUFFICES ASSUME NEW e \in Entry PROVE Dispatched(e, cdb) \in Entry
    OBVIOUS
  <2>2. \A k \in Sources : DispatchWake(e.src[k], cdb) \in Source
    BY WakeType DEF Entry
  <2> QED
    BY <2>2 DEF Dispatched, Entry
<1>7. \A i \in rs_valid : Resident(i, cdb, repair) \in Entry /\ Bypassed(i, cdb) \in Entry
  BY ResidentType
<1>8. keeps \subseteq rs_valid
  OBVIOUS
<1>9. RsType'
  <2>1. rs_entry' \in [Index -> Entry \cup {None}]
    <3> HIDE DEF keeps, disp1, disp2
    <3> QED
      BY <1>1, <1>4, <1>5, <1>6, <1>7, <1>8
  <2>2. ASSUME NEW st \in Entry \cup {None}, NEW f, NEW r,
               f = {} \/ \E i \in rs_valid : f = {i}
        PROVE  StageNext(st, f, r, cdb, fl) \in Entry \cup {None}
    <3>1. f # {} => (CHOOSE i \in f : TRUE) \in rs_valid
      BY <2>2
    <3> QED
      BY <1>7, <3>1 DEF StageNext
  <2> HIDE DEF fire, fire2
  <2> QED
    BY <1>1, <1>2, <2>1, <2>2 DEF RsType
<1>10. rs_valid' = keeps \cup A \cup B
  <2> HIDE DEF keeps, disp1, disp2
  <2>1. \A i \in Index : rs_entry'[i] # None <=> i \in keeps \cup A \cup B
    BY <1>1, <1>4, <1>5, <1>6, <1>7, <1>8, EntryAssumption
  <2>2. keeps \cup A \cup B \subseteq Index
    BY <1>3, <1>4, <1>5, <1>8
  <2>3. rs_valid' = {i \in Index : rs_entry'[i] # None}
    BY DEF rs_valid, Index
  <2> HIDE DEF A, B
  <2> QED
    BY <2>1, <2>2, <2>3
<1>11. CASE fl.all \/ fl.en
  <2>1. A = {} /\ B = {}
    BY <1>11
  <2>2. rs_valid' = keeps
    <3> HIDE DEF keeps, A, B
    <3> QED
      BY <1>10, <2>1
  <2>3. fl.all => keeps = {}
    OBVIOUS
  <2>4. Cardinality({}) = 0
    BY FS_EmptySet
  <2>5. CountMatches'
    <3> HIDE DEF keeps
    <3> QED
      BY <1>1, <1>11, <2>2, <2>3, <2>4 DEF CountMatches
  <2> QED
    BY <1>9, <2>5
<1>12. CASE ~fl.all /\ ~fl.en
  <2>1. keeps = rs_valid \ (fire \cup fire2)
    BY <1>12 DEF Squashes
  <2>2. fire \in SUBSET rs_valid /\ fire2 \in SUBSET rs_valid
    BY <1>2
  <2>3. A \cap rs_valid = {} /\ B \cap (rs_valid \cup A) = {}
    <3> HIDE DEF disp1, disp2
    <3> QED
      BY <1>4, <1>5
  <2>4. /\ fire = {} \/ \E i : fire = {i}
        /\ fire2 = {} \/ \E i : fire2 = {i}
        /\ A = {} \/ \E i : A = {i}
        /\ B = {} \/ \E i : B = {i}
    BY <1>2
  <2>5. (A # {} <=> disp1) /\ (B # {} <=> disp2)
    OBVIOUS
  <2> HIDE DEF fire, fire2, keeps, A, B, disp1, disp2
  <2>6. /\ IsFiniteSet(A) /\ Cardinality(A) = Bit(disp1)
        /\ IsFiniteSet(B) /\ Cardinality(B) = Bit(disp2)
        /\ Cardinality(fire) = Bit(fire # {}) /\ Cardinality(fire2) = Bit(fire2 # {})
    BY <2>4, <2>5, BitCardinality DEF Bit
  <2>7. Cardinality((rs_valid \ (fire \cup fire2)) \cup A \cup B)
          = Cardinality(rs_valid) - Cardinality(fire) - Cardinality(fire2)
              + Cardinality(A) + Cardinality(B)
    BY <1>2, <1>3, <2>2, <2>3, <2>6, LeaveAndEnter, SMT
  <2>8. CountMatches'
    BY <1>1, <1>10, <1>12, <2>1, <2>6, <2>7 DEF CountMatches
  <2> QED
    BY <1>9, <2>8
<1> QED
  BY <1>11, <1>12

-----------------------------------------------------------------------------
(* The bus, the adapters and the registers around them.                    *)

CoreType ==
  /\ head_ptr \in Ptr /\ tail_ptr \in Ptr /\ rob_done \subseteq Tag
  /\ rob_epoch \in [Tag -> {0, 1}] /\ rob_value \in [Tag -> MaybeId]
  /\ waiting \subseteq Id
  /\ cdb_bus[1] \in MaybeId /\ cdb_bus[2] \in MaybeId
  /\ held_result \in [Fu -> MaybeId]
  /\ early_mispredict_pending \in Tag \cup {None}
  /\ early_backend_recovery_pending \in Tag \cup {None}

(* The arbiter passes results through.                                     *)
LEMMA LanesType ==
  ASSUME NEW req \in [Fu -> MaybeId], NEW kill
  PROVE  CdbLanes(req, kill)[1] \in MaybeId /\ CdbLanes(req, kill)[2] \in MaybeId
<1> DEFINE Place == [request : MaybeId, fu : Fu]
           List  == [first : Place, second : Place]
<1>1. \A f \in Fu : MakeLeaf(req, f) \in List
  BY DEF MakeLeaf, NoResult, MaybeId, Fu
<1>2. \A h \in List, l \in List : MergeTopTwo(h, l) \in List
  BY DEF MergeTopTwo
<1>3. {"MUL", "MEM", "ALU", "ALU2", "DIV", "FP_DIV", "FP_MUL", "FP_ADD"} \subseteq Fu
  BY DEF Fu
<1> HIDE DEF List
<1>4. HighFour(req) \in List /\ LowFour(req) \in List
  BY <1>1, <1>2, <1>3 DEF HighFour, LowFour
<1>5. TreeRoot(req) \in List
  BY <1>2, <1>4 DEF TreeRoot
<1>6. TreeRoot(req).first.request \in MaybeId /\ TreeRoot(req).second.request \in MaybeId
  BY <1>5 DEF List
<1> QED
  BY <1>6 DEF CdbLanes, MaybeId

(* Tags are tags.                                                          *)
LEMMA TagTypes ==
  ASSUME CoreType
  PROVE  /\ \A p \in Int : Idx(p) \in Tag
         /\ \A p \in Int, n \in Int : PtrAdd(p, n) \in Ptr
         /\ HeadTag \in Tag
         /\ \A k \in {1, 2} : TailTag(k) \in Tag /\ NewId(k) \in Id
         /\ Live \subseteq Tag /\ Producers \subseteq Tag
         /\ \A t \in Tag : Current(t) \in Id
<1>1. \A p \in Int : Idx(p) \in Tag
  BY DepthAssumption, SMT DEF Idx, Tag
<1>2. \A p \in Int, n \in Int : PtrAdd(p, n) \in Ptr
  BY DepthAssumption, SMT DEF PtrAdd, Ptr
<1>3. Ptr \subseteq Int /\ head_ptr \in Ptr /\ tail_ptr \in Ptr
  BY DepthAssumption, SMT DEF CoreType, Ptr
<1>4. HeadTag \in Tag
  BY <1>1, <1>3 DEF HeadTag
<1>5. \A k \in {1, 2} : TailTag(k) \in Tag
  <2>1. \A k \in {1, 2} : PtrAdd(tail_ptr, k - 1) \in Ptr
    BY <1>2, <1>3, SMT
  <2> QED
    BY <1>1, <1>3, <2>1 DEF TailTag
<1>6. \A k \in {1, 2} : NewId(k) \in Id
  BY <1>5, SMT DEF NewId, Id, CoreType
<1>7. Live \subseteq Tag
  <2>1. \A n \in 0 .. Count - 1 : Idx(PtrAdd(head_ptr, n)) \in Tag
    <3>1. SUFFICES ASSUME NEW n \in Int PROVE Idx(PtrAdd(head_ptr, n)) \in Tag
      BY SMT
    <3>2. PtrAdd(head_ptr, n) \in Int
      BY <1>2, <1>3
    <3> QED
      BY <1>1, <3>2
  <2> QED
    BY <2>1 DEF Live
<1>8. \A t \in Tag : Current(t) \in Id
  BY DEF Current, Id, CoreType
<1> QED
  BY <1>1, <1>2, <1>4, <1>5, <1>6, <1>7, <1>8 DEF Producers

(* What a bundle is made of.                                               *)
LEMMA BundleType ==
  ASSUME CoreType, NEW fl, NEW b \in Bundles(fl)
  PROVE  /\ Len(b) \in {0, 1, 2}
         /\ \A k \in 1 .. Len(b) : \A s \in Sources : b[k].src[s] \in Tag \cup {None}
<1>1. \A tags : \A i \in Instrs(tags) : \A s \in Sources : i.src[s] \in tags \cup {None}
  BY DEF Instrs
<1>2. Producers \subseteq Tag /\ TailTag(1) \in Tag
  BY TagTypes
<1>3. CASE b = << >>
  BY <1>3, SMT
<1>4. ASSUME NEW c \in Slot1
      PROVE  Len(c) = 1 /\ \A s \in Sources : c[1].src[s] \in Tag \cup {None}
  <2>1. PICK i \in Instrs(Producers) : c = << i >>
    BY DEF Slot1
  <2> QED
    BY <1>1, <1>2, <2>1
<1>5. CASE b \in Slot1
  BY <1>4, <1>5, SMT
<1>6. CASE b \in Slot2
  <2>1. PICK c \in Slot1, i \in Instrs(Producers \cup {TailTag(1)}) : b = << c[1], i >>
    BY <1>6, SMT DEF Slot2
  <2>2. \A s \in Sources : i.src[s] \in Tag \cup {None}
    BY <1>1, <1>2, SMT
  <2>3. Len(b) = 2 /\ b[1] = c[1] /\ b[2] = i
    BY <2>1
  <2> QED
    BY <1>4, <2>2, <2>3, SMT
<1> QED
  BY <1>3, <1>5, <1>6 DEF Bundles

(* What the units, the station and the adapters put on their wires.        *)
LEMMA ResultTypes ==
  ASSUME CoreType, RsType, ShimType, NEW mem \in MemResults, NEW fl
  PROVE  /\ FuResults(mem) \in [Fu -> MaybeId]
         /\ [f \in Fu |-> FuComplete(f, FuResults(mem)[f], fl)] \in [Fu -> MaybeId]
<1>1. \A st \in Entry \cup {None} : \A r \in BOOLEAN : AluOut(Issue(st, r)) \in MaybeId
  BY DEF AluOut, Issue, Entry, MaybeId
<1>2. IntReady \in BOOLEAN /\ IntReady2 \in BOOLEAN
  BY DEF IntReady, IntReady2, ResultPending, RecoveryHold
<1>3. ASSUME NEW p \in Pipe PROVE ShimOut(p) \in MaybeId
  <2>1. fifo[p] \in Seq(Tracked)
    BY DEF ShimType
  <2>2. fifo[p] # << >> => Head(fifo[p]) \in Tracked
    BY <2>1, HeadTailProperties
  <2> QED
    BY <2>2 DEF ShimOut, Tracked, MaybeId
<1>4. mem \in MaybeId
  BY DEF MemResults, Waiting, CoreType, MaybeId
<1>5. ASSUME NEW f \in Fu PROVE FuResults(mem)[f] \in MaybeId
  <2>1. CASE f = "ALU"
    BY <1>1, <1>2, <2>1 DEF FuResults, RsType, Fu, Pipe
  <2>2. CASE f = "ALU2"
    BY <1>1, <1>2, <2>2 DEF FuResults, RsType, Fu, Pipe
  <2>3. CASE f \in Pipe
    BY <1>3, <2>3 DEF FuResults, Fu, Pipe
  <2>4. CASE f = "MEM"
    BY <1>4, <2>4 DEF FuResults, Fu, Pipe
  <2>5. CASE f \notin {"ALU", "ALU2", "MEM"} \cup Pipe
    BY <2>5 DEF FuResults, Fu, Pipe, MaybeId
  <2> QED
    BY <2>1, <2>2, <2>3, <2>4, <2>5
<1>6. FuResults(mem) \in [Fu -> MaybeId]
  BY <1>5 DEF FuResults
<1>7. ASSUME NEW f \in Fu PROVE FuComplete(f, FuResults(mem)[f], fl) \in MaybeId
  BY <1>5 DEF FuComplete, CoreType, MaybeId
<1> QED
  BY <1>6, <1>7

(* What dispatch presents to the station, and what the buffer answers.     *)
LEMMA DispatchTypes ==
  ASSUME CoreType, NEW fl, NEW b \in Bundles(fl)
  PROVE  /\ RsDispatch(b, 1) \in Entry \cup {None} /\ RsDispatch(b, 2) \in Entry \cup {None}
         /\ \A k \in {1, 2}, s \in Sources : DoneRepair[k][s] \in MaybeId
<1>1. ASSUME NEW k \in {1, 2}, k \in IntSlots(b) PROVE RsDispatch(b, k) \in Entry
  <2>1. k \in 1 .. Len(b)
    BY <1>1 DEF IntSlots
  <2>2. \A s \in Sources : b[k].src[s] \in Tag \cup {None}
    BY <2>1, BundleType
  <2>3. \A t \in Tag : WantOf(t, b) \in Id
    BY TagTypes DEF WantOf
  <2>4. \A t \in Tag \cup {None} : SourceOf(t, b) \in Source
    BY <2>3 DEF SourceOf, Source
  <2>5. NewId(k) \in Id
    BY TagTypes
  <2>6. [s \in Sources |-> SourceOf(b[k].src[s], b)] \in [Sources -> Source]
    BY <2>2, <2>4
  <2> QED
    BY <1>1, <2>5, <2>6 DEF RsDispatch, Entry
<1>2. \A k \in {1, 2}, s \in Sources : DoneRepair[k][s] \in MaybeId
  BY DEF DoneRepair, CoreType, MaybeId
<1> QED
  BY <1>1, <1>2 DEF RsDispatch

-----------------------------------------------------------------------------
(* The whole core.                                                         *)

(* The inductive invariant.                                                *)
ExecInv == CoreType /\ RsType /\ ShimType /\ CountMatches /\ FifosHaveRoom

(* Reset establishes the invariant.                                        *)
LEMMA ExecInit == ASSUME Init PROVE ExecInv
<1> USE DEF Init
<1>1. CoreType
  BY DepthAssumption, SMT DEF CoreType, AdapterInit, MaybeId, Ptr
<1>2. RsType
  BY DEF RsType, RsInit
<1>3. ASSUME NEW p \in Pipe
      PROVE  /\ trk[p] \in [1 .. Stages[p] -> Tracked \cup {None}] /\ fifo[p] = << >>
             /\ InFlight(p) = {}
  BY DEF ShimInit, InFlight
<1>4. << >> \in Seq(Tracked) /\ Len(<< >>) = 0 /\ Cardinality({}) = 0
  BY EmptySeq, FS_EmptySet
<1>5. ShimType
  BY <1>3, <1>4 DEF ShimType
<1>6. FifosHaveRoom
  <2>1. ASSUME NEW p \in Pipe PROVE Len(fifo[p]) = 0 /\ Cardinality(InFlight(p)) = 0
    BY <1>3, <1>4
  <2> QED
    BY <2>1, ShimAssumption, SMT DEF FifosHaveRoom
<1>7. CountMatches
  <2>1. rs_valid = {}
    BY DEF RsInit, rs_valid
  <2> QED
    BY <1>4, <2>1 DEF CountMatches, RsInit
<1> QED
  BY <1>1, <1>2, <1>5, <1>6, <1>7 DEF ExecInv

(* A cycle keeps the types of the buffer, the bus and the adapters.        *)
LEMMA CoreStep ==
  ASSUME ExecInv, NEW full \in BOOLEAN, NEW b \in Bundles(Flush(full)),
         NEW commit \in 0 .. 2, NEW mul \in MulIssues, NEW mem \in MemResults,
         NEW mispredicted \in {FALSE, MayMispredict(Flush(full))},
         Cycle(b, commit, mul, mem, mispredicted, full)
  PROVE  CoreType'
<1> DEFINE fl  == Flush(full)
           in  == FuResults(mem)
           req == [f \in Fu |-> FuComplete(f, in[f], fl)]
           new == {TailTag(k) : k \in 1 .. Len(b)}
<1>1. CoreType /\ RsType /\ ShimType
  BY DEF ExecInv
<1>2. in \in [Fu -> MaybeId] /\ req \in [Fu -> MaybeId]
  BY <1>1, ResultTypes
<1>3. Len(b) \in {0, 1, 2} /\ \A k \in 1 .. Len(b) : TailTag(k) \in Tag /\ NewId(k) \in Id
  <2>1. Len(b) \in {0, 1, 2}
    BY <1>1, BundleType
  <2>2. 1 .. Len(b) \subseteq {1, 2}
    <3>1. ASSUME NEW n \in {0, 1, 2} PROVE 1 .. n \subseteq {1, 2}
      BY SMT
    <3> QED
      BY <2>1, <3>1
  <2> QED
    BY <1>1, <2>1, <2>2, TagTypes
<1>4. /\ RobClock(b, commit, fl, Resolved(fl))
      /\ AdapterClock(in, Grants(req, fl.all), fl)
      /\ cdb_bus' = CdbLanes(req, fl.all)
      /\ waiting' = {NewId(k) : k \in (1 .. Len(b)) \ IntSlots(b)}
                      \cup {w \in waiting \ {mul, mem} : ~fl.all /\ ~Squashes(fl, w.tag)}
      /\ early_mispredict_pending' =
           IF mispredicted /\ ~fl.all THEN CHOOSE t \in Resolved(fl) : TRUE ELSE None
      /\ early_backend_recovery_pending' = IF fl.all THEN None ELSE early_mispredict_pending
  BY DEF Cycle
<1>5. Resolved(fl) \subseteq Tag
  BY <1>1 DEF Resolved, Issue, RsType, Entry, Id
<1>6. fl.en \in BOOLEAN /\ (fl.en => fl.tag \in Tag)
  BY <1>1 DEF Flush, CoreType
<1>7. new \subseteq Tag
  BY <1>3
<1>8. \A r \in Lanes(cdb_bus) : r \in Id /\ r.tag \in Tag
  BY <1>1 DEF Lanes, CoreType, MaybeId, Id
<1> HIDE DEF fl, in, req, new
<1>9. head_ptr' \in Ptr /\ tail_ptr' \in Ptr
  <2>1. head_ptr \in Int /\ tail_ptr \in Int /\ head_ptr \in Ptr
    BY <1>1, DepthAssumption, SMT DEF CoreType, Ptr
  <2>2. fl.en => ((fl.tag - HeadTag) % Depth) + 1 \in Int
    BY <1>1, <1>6, TagTypes, DepthAssumption, SMT DEF Tag
  <2> QED
    BY <1>1, <1>3, <1>4, <2>1, <2>2, TagTypes, SMT DEF RobClock
<1>10. rob_done' \subseteq Tag
  <2>1. rob_done' = DoneNext(new, Resolved(fl), fl)
    BY <1>4 DEF RobClock, new
  <2> QED
    BY <1>1, <1>5, <1>8, <2>1 DEF DoneNext, Arrived, CoreType
<1>11. rob_value' \in [Tag -> MaybeId]
  <2>1. rob_value' = [t \in Tag |-> IF ~fl.all /\ \E r \in Lanes(cdb_bus) : r.tag = t
                                   THEN CHOOSE r \in Lanes(cdb_bus) : r.tag = t
                                   ELSE rob_value[t]]
    BY <1>4 DEF RobClock
  <2>2. \A t \in Tag : rob_value[t] \in MaybeId
    BY <1>1 DEF CoreType
  <2> QED
    BY <1>8, <2>1, <2>2 DEF MaybeId
<1>12. rob_epoch' \in [Tag -> {0, 1}]
  <2>1. rob_epoch' = [t \in Tag |-> IF t \in new THEN 1 - rob_epoch[t] ELSE rob_epoch[t]]
    BY <1>4 DEF RobClock, new
  <2>2. \A t \in Tag : rob_epoch[t] \in {0, 1} /\ 1 - rob_epoch[t] \in {0, 1}
    BY <1>1, SMT DEF CoreType
  <2> QED
    BY <2>1, <2>2
<1>13. waiting' \subseteq Id
  BY <1>1, <1>3, <1>4 DEF CoreType
<1>14. cdb_bus'[1] \in MaybeId /\ cdb_bus'[2] \in MaybeId
  BY <1>2, <1>4, LanesType
<1>15. held_result' \in [Fu -> MaybeId]
  BY <1>1, <1>2, <1>4 DEF AdapterClock, PayloadNext, CoreType, MaybeId
<1>16. early_mispredict_pending' \in Tag \cup {None}
  <2>1. mispredicted => Resolved(fl) # {}
    BY DEF MayMispredict, fl
  <2> QED
    BY <1>4, <1>5, <2>1
<1>17. early_backend_recovery_pending' \in Tag \cup {None}
  BY <1>1, <1>4 DEF CoreType
<1> QED
  BY <1>9, <1>10, <1>11, <1>12, <1>13, <1>14, <1>15, <1>16, <1>17 DEF CoreType

(* A cycle preserves the invariant: the core types feed the station and    *)
(* the shims inputs of the right kind, RsStep and ShimStep do the rest.    *)
LEMMA ExecStep == ASSUME ExecInv, [Next]_vars PROVE ExecInv'
<1>1. CASE UNCHANGED vars
  <2>1. /\ CoreType' = CoreType /\ RsType' = RsType /\ ShimType' = ShimType
        /\ CountMatches' = CountMatches /\ FifosHaveRoom' = FifosHaveRoom
    BY <1>1 DEF vars, CoreType, RsType, ShimType, CountMatches, FifosHaveRoom, rs_valid, InFlight
  <2> QED
    BY <2>1 DEF ExecInv
<1>2. CASE Next
  <2>1. PICK full \in BOOLEAN :
          \E mispredicted \in {FALSE, MayMispredict(Flush(full))},
             commit \in 0 .. Committable(Flush(full)),
             mul \in MulIssues, mem \in MemResults, b \in Bundles(Flush(full)) :
            Cycle(b, commit, mul, mem, mispredicted, full)
    BY <1>2 DEF Next
  <2>2. PICK mispredicted \in {FALSE, MayMispredict(Flush(full))},
             commit \in 0 .. Committable(Flush(full)),
             mul \in MulIssues, mem \in MemResults, b \in Bundles(Flush(full)) :
            Cycle(b, commit, mul, mem, mispredicted, full)
    BY <2>1
  <2>3. commit \in 0 .. 2
    <3>1. Committable(Flush(full)) \in 0 .. 2
      BY SMT DEF Committable
    <3> QED
      BY <3>1, SMT
  <2>4. CoreType'
    BY <2>2, <2>3, CoreStep
  <2>5. RsType' /\ CountMatches'
    BY <2>2, DispatchTypes, RsStep DEF ExecInv, Cycle, CoreType
  <2>6. ShimType' /\ FifosHaveRoom'
    <3>1. mul \in MaybeId
      BY DEF MulIssues, Waiting, ExecInv, CoreType, MaybeId
    <3>2. [p \in Pipe |-> IF mul # None /\ (rob_unit[mul.tag] = "mul") = (p = "MUL")
                          THEN mul ELSE None] \in [Pipe -> MaybeId]
      BY <3>1 DEF MaybeId
    <3> QED
      BY <2>2, <3>2, ShimStep DEF ExecInv, Cycle
  <2> QED
    BY <2>4, <2>5, <2>6 DEF ExecInv
<1> QED
  BY <1>1, <1>2

(* The invariant holds always.                                             *)
LEMMA ExecInductive == Spec => []ExecInv
<1>1. Init => ExecInv
  BY ExecInit
<1>2. ExecInv /\ [Next]_vars => ExecInv'
  BY ExecStep
<1> QED
  BY <1>1, <1>2, PTL DEF Spec

(* The occupancy count, which the full flags of the integer station are    *)
(* computed from, equals the number of valid entries whatever dispatch,    *)
(* the two issue ports and a partial flush do in the same cycle.           *)
THEOREM CountCorrect == Spec => []CountMatches
<1>1. ExecInv => CountMatches
  BY DEF ExecInv
<1> QED
  BY <1>1, ExecInductive, PTL

(* The credits of the multiplier and the divider: no result that leaves a  *)
(* pipeline finds its FIFO full, whatever the depths of both and however   *)
(* long the bus keeps the FIFO from draining.                              *)
THEOREM RoomCorrect == Spec => []FifosHaveRoom
<1>1. ExecInv => FifosHaveRoom
  BY DEF ExecInv
<1> QED
  BY <1>1, ExecInductive, PTL

(* Both counters are right together, for every size of the station, the    *)
(* pipelines and the FIFOs.                                                *)
THEOREM CreditsAlwaysAgree == Spec => []CreditsAgree
<1> QED
  BY CountCorrect, RoomCorrect, PTL DEF CreditsAgree

=============================================================================
