------------------------- MODULE ReorderBufferProofs -------------------------
(***************************************************************************)
(* Proofs about the reorder buffer on its own, for every depth, every set  *)
(* of instruction classes and every workload.                              *)
(***************************************************************************)
EXTENDS ReorderBufferSpec, ReorderBufferLemmas, SequenceTheorems

(* Steps are first-order unless they say otherwise: those that need        *)
(* arithmetic, or that reason about sets and functions by extension, say   *)
(* SMT.                                                                    *)
USE Zenon

(* The inductive invariant: types, and the consistency of the ring.        *)
RobInv == TypeOK /\ RingInv

(* Reset establishes the invariant.                                        *)
LEMMA InitInv == Init => RobInv
<1> SUFFICES ASSUME Init PROVE RobInv
  OBVIOUS
<1> USE DEF Init, RobInit
<1>1. 0 \in Ptr /\ 0 \in Tag /\ 1 \in Tag
  BY DepthAssumption, SMT DEF Ptr, Tag
<1>2. rob_class \in [Tag -> AllClasses]
  BY DEF AllClasses
<1>3. head_clear_mask \subseteq Tag /\ head_next_clear_mask \subseteq Tag
  BY <1>1
<1> QED
  BY <1>1, <1>2, <1>3, RingReset DEF RobInv, TypeOK, SerialStates

(* The flush commands and requests of the specification keep the contract. *)
LEMMA ContractKept ==
  ASSUME NEW fl \in Flushes, NEW req \in Requests(fl)
  PROVE  FlushContract(fl) /\ RequestContract(req, fl)
BY DEF Flushes, LegalFlush, Requests, LegalRequest, FlushContract, RequestContract

(* What is allocated has a class.                                          *)
LEMMA RequestClasses ==
  ASSUME workload \in Workloads, NEW fl, NEW req \in Requests(fl)
  PROVE  /\ AllocWidth(req, fl) >= 1 => req.slot1 \in AllClasses
         /\ AllocWidth(req, fl) = 2 => req.slot2 \in AllClasses
<1>1. workload.classes \subseteq AllClasses
  BY WorkloadAssumption, ClassAssumption
<1>2. req.slot1 \in workload.classes \cup {NoReq} /\ req.slot2 \in workload.classes \cup {NoReq}
  BY DEF Requests
<1> QED
  BY <1>1, <1>2, SMT DEF AllocWidth, AllocEn, AllocEn2

(* The early field of a record of completions holds at most one of the     *)
(* entries it may hold.                                                    *)
LEMMA EarlyField ==
  ASSUME NEW A, NEW B, NEW E,
         NEW c \in [store : A, branch : B, early : {{}} \cup {{t} : t \in E}]
  PROVE  c.early \subseteq E
<1>1. c.early \in {{}} \cup {{t} : t \in E}
  OBVIOUS
<1> QED
  BY <1>1

(* A request is at most two wide.                                          *)
LEMMA RequestWidthRange == ASSUME NEW req PROVE RequestWidth(req) \in 0 .. 2
  BY SMT DEF RequestWidth

(* A cycle preserves the types of all registers.                           *)
LEMMA TypeStep ==
  ASSUME RobInv, NEW fl \in Flushes, NEW req \in Requests(fl), NEW cdb \in CdbBundles(workload),
         NEW c \in Completions, NEW st \in Statuses(fl),
         Cycle(req, [cdb |-> cdb, store |-> c.store, branch |-> c.branch, early |-> c.early],
               fl, st)
  PROVE  TypeOK'
<1> DEFINE wb    == [cdb |-> cdb, store |-> c.store, branch |-> c.branch, early |-> c.early]
           w     == CommitWidth(wb, fl, st)
           n     == AllocWidth(req, fl)
           alloc == Allocated(n)
<1>1. Clock(req, wb, fl, st) /\ TypeOK /\ RingInv
  BY DEF Cycle, RobInv
<1>0. FlushContract(fl) /\ RequestContract(req, fl)
  BY ContractKept
<1>2. head_ptr' \in Ptr /\ tail_ptr' \in Ptr /\ ValidIsWindow' /\ MasksFollowHead'
  BY <1>0, <1>1, WindowStep, MaskStep
<1>3. /\ rob_valid' \subseteq Tag
      /\ head_clear_mask' \subseteq Tag /\ head_next_clear_mask' \subseteq Tag
  <2>1. HeadIdx' \in Tag /\ HeadNextIdx' \in Tag
    BY <1>2, FullDistance DEF HeadIdx, HeadNextIdx
  <2> QED
    BY <1>2, <2>1 DEF ValidIsWindow, MasksFollowHead
<1>4. TailIdx \in Tag /\ TailIdx2 \in Tag /\ alloc \subseteq Tag
  BY <1>1, CountFacts DEF TypeOK, Allocated
<1>5. /\ n \in 0 .. 2
      /\ n >= 1 => req.slot1 \in AllClasses
      /\ n = 2 => req.slot2 \in AllClasses
  BY <1>0, <1>1, AllocFacts, RequestClasses DEF TypeOK
<1>6. rob_class' \in [Tag -> AllClasses]
  <2>1. rob_class' = NextClass(req, alloc) /\ rob_class \in [Tag -> AllClasses]
    BY <1>1 DEF Clock, TypeOK
  <2>2. \A i \in alloc : IF i = TailIdx THEN n >= 1 ELSE n = 2
    BY <1>5, SMT DEF Allocated
  <2> QED
    BY <1>5, <2>1, <2>2 DEF NextClass
<1>7. \A ws : TagsOf(Live(ws, fl)) \subseteq Tag
  BY <1>1 DEF TagsOf, Live, TypeOK
<1>8. rob_done' \subseteq Tag
  <2>1. rob_done' = NextDone(req, wb, fl, alloc)
    BY <1>1 DEF Clock
  <2> QED
    BY <1>1, <1>4, <1>7, <2>1 DEF NextDone, AllocatedAs, TypeOK
<1>9. rob_exception' \subseteq Tag
  <2>1. rob_exception' = NextException(wb, fl, alloc)
    BY <1>1 DEF Clock
  <2> QED
    BY <1>1, <1>4, <2>1, SMT DEF NextException, TagsOf, Live, TypeOK
<1>10. rob_mispredicted' \subseteq Tag
  <2>1. rob_mispredicted' = NextMispredicted(req, wb, fl, alloc)
    BY <1>1 DEF Clock
  <2> QED
    BY <1>1, <1>4, <2>1 DEF NextMispredicted, AllocatedAs, TagsOf, Live, TypeOK
<1>11. rob_early_recovered' \subseteq Tag
  <2>1. rob_early_recovered' = (rob_early_recovered \ alloc) \cup c.early
    BY <1>1 DEF Clock, NextEarlyRecovered
  <2> DEFINE E == {u \in rob_valid \cap rob_done \cap rob_mispredicted :
                      rob_class[u] = "branch" /\ u \notin rob_early_recovered}
  <2>3. c.early \subseteq E
    BY EarlyField, SMT DEF Completions
  <2>4. rob_valid \subseteq Tag
    BY <1>1 DEF TypeOK
  <2>2. c.early \subseteq Tag
    BY <2>3, <2>4
  <2> HIDE DEF E
  <2> QED
    BY <1>1, <2>1, <2>2 DEF TypeOK
<1>12. serial_state' \in SerialStates
  <2>1. serial_state' = IF fl.all THEN "IDLE" ELSE SerialStateNext(wb, fl, st)
    BY <1>1 DEF Clock
  <2>2. SerialStateNext(wb, fl, st) \in SerialStates
    BY <1>1, SerialStep DEF TypeOK
  <2> QED
    BY <2>1, <2>2 DEF SerialStates
<1>13. /\ dispatch_full_q' \in BOOLEAN /\ dispatch_full_for_2_q' \in BOOLEAN
       /\ fence_i_committed' \in BOOLEAN
  <2>1. NextDispatchFull(req, fl) \in BOOLEAN
    BY DEF NextDispatchFull
  <2>4. NextDispatchFullFor2(req, fl) \in BOOLEAN
    <3>0. Count \in Int
      BY <1>1, CountFacts, SMT DEF TypeOK
    <3>1. Count \in Int /\ RequestWidth(req) \in 0 .. 2
      BY <3>0, RequestWidthRange
    <3>2. fl.all \/ fl.en => PtrSub(FlushTail(fl), head_ptr) = Count'
      BY <1>0, <1>1, WindowStep
    <3>3. Count' \in Int
      BY <1>2, FullDistance DEF Count
    <3>4. (Count' >= Depth - 1) \in BOOLEAN /\ (Count >= Depth - 1 - RequestWidth(req)) \in BOOLEAN
      BY <3>1, <3>3, DepthAssumption, SMT
    <3>5. CASE fl.all \/ fl.en
      BY <3>2, <3>4, <3>5 DEF NextDispatchFullFor2
    <3>6. CASE ~(fl.all \/ fl.en)
      BY <3>4, <3>6 DEF NextDispatchFullFor2
    <3> QED
      BY <3>5, <3>6
  <2>2. fence_i_committed' = (w >= 1 /\ HeadIs({"fence_i"}))
    BY <1>1 DEF Clock
  <2> HIDE DEF w
  <2>3. fence_i_committed' \in BOOLEAN
    BY <2>2
  <2> QED
    BY <1>1, <2>1, <2>3, <2>4 DEF Clock
<1>14. /\ mispredict_recovery_pending' \in BOOLEAN /\ priv_user' \in BOOLEAN
       /\ workload' \in Workloads
  <2>1. st.user \in BOOLEAN
    BY <1>1 DEF Statuses, TypeOK
  <2> QED
    BY <1>1, <2>1 DEF Cycle, CommitMispredictionRaw, TypeOK
<1> QED
  BY <1>2, <1>3, <1>6, <1>8, <1>9, <1>10, <1>11, <1>12, <1>13, <1>14 DEF TypeOK

(* Every step, a stutter included, preserves the invariant.                *)
LEMMA StepInv == RobInv /\ [Next]_vars => RobInv'
<1> SUFFICES ASSUME RobInv, [Next]_vars PROVE RobInv'
  OBVIOUS
<1>1. CASE Next
  <2>a. PICK fl \in Flushes :
          \E st \in Statuses(fl), c \in Completions, cdb \in CdbBundles(workload), req \in Requests(fl) :
            Cycle(req, [cdb |-> cdb, store |-> c.store, branch |-> c.branch, early |-> c.early],
                  fl, st)
    BY <1>1 DEF Next
  <2>1. PICK st \in Statuses(fl), c \in Completions, cdb \in CdbBundles(workload), req \in Requests(fl) :
          Cycle(req, [cdb |-> cdb, store |-> c.store, branch |-> c.branch, early |-> c.early],
                fl, st)
    BY <2>a
  <2> DEFINE wb == [cdb |-> cdb, store |-> c.store, branch |-> c.branch, early |-> c.early]
  <2>2. Clock(req, wb, fl, st)
    BY <2>1 DEF Cycle
  <2>3. TypeOK'
    BY <2>1, TypeStep
  <2>4. RingInv'
    BY <2>2, ContractKept, RingClock DEF RobInv
  <2> QED
    BY <2>3, <2>4 DEF RobInv
<1>2. CASE UNCHANGED vars
  BY <1>2, RingStutter DEF vars, robVars, RobInv, TypeOK
<1> QED
  BY <1>1, <1>2

(* The invariant holds of the buffer at every depth, for every mix of      *)
(* instruction classes.                                                    *)
THEOREM RobCorrect == Spec => []RobInv
<1> QED
  BY InitInv, StepInv, PTL DEF Spec

(* Every register keeps its width.                                         *)
THEOREM TypeCorrect == Spec => []TypeOK
<1>1. RobInv => TypeOK
  BY DEF RobInv
<1> QED
  BY <1>1, RobCorrect, PTL

(* The valid bits are exactly the entries between the pointers.            *)
THEOREM ValidCorrect == Spec => []ValidIsWindow
<1>1. RobInv => ValidIsWindow
  BY DEF RobInv, RingInv
<1> QED
  BY <1>1, RobCorrect, PTL

(* The one-hot head masks are the head pointer's.                          *)
THEOREM MasksCorrect == Spec => []MasksFollowHead
<1>1. RobInv => MasksFollowHead
  BY DEF RobInv, RingInv
<1> QED
  BY <1>1, RobCorrect, PTL

(* The registered full flags never promise room that is not there.         *)
THEOREM BackPressureCorrect == Spec => []BackPressureCovers
<1>1. RobInv => BackPressureCovers
  BY DEF RobInv, RingInv
<1> QED
  BY <1>1, RobCorrect, PTL

-----------------------------------------------------------------------------
(* The serializer and what retires.                                        *)

(* A recorded fault belongs to a finished entry, and not to a JALR, whose  *)
(* late link value would erase it.                                         *)
FaultsAreDone == \A i \in rob_valid \cap rob_exception : i \in rob_done /\ rob_class[i] # "jalr"

RecoveryIsIdle == mispredict_recovery_pending => serial_state = "IDLE"

WaitingIsDone ==
  serial_state # "IDLE" =>
    /\ HeadIdx \in rob_done
    /\ serial_state = "TRAP_WAIT" => HeadIdx \in rob_exception \/ priv_user

SerialInv == RobInv /\ SerialHead /\ FaultsAreDone /\ RecoveryIsIdle /\ WaitingIsDone

(* A result for a live entry is for an unfinished one, or is the link      *)
(* value of a JALR.                                                        *)
LEMMA CdbFacts ==
  ASSUME NEW w \in CdbWrites(workload), w.tag \in rob_valid
  PROVE  \/ w.tag \notin rob_done /\ rob_class[w.tag] # "jalr"
         \/ w.tag \in rob_done /\ rob_class[w.tag] = "jalr" /\ ~w.exception
<1>1. \/ w.tag \in Waiting(CsrClasses \cup AtomicClasses \cup {"int"})
      \/ w.tag \in Waiting({"store"})
      \/ w.tag \in rob_done /\ rob_class[w.tag] = "jalr" /\ w.exception = FALSE
  BY DEF CdbWrites
<1> QED
  BY <1>1 DEF Waiting, CsrClasses, AtomicClasses

(* The results of a cycle are for different entries.                       *)
LEMMA CdbDistinct ==
  ASSUME TypeOK, NEW cdb \in CdbBundles(workload)
  PROVE  /\ cdb \subseteq CdbWrites(workload)
         /\ \A v, w \in cdb : v.tag = w.tag => v = w
<1> DEFINE pairs == {q \in CdbWrites(workload) \X CdbWrites(workload) : q[1].tag < q[2].tag}
<1>1. \/ cdb = {}
      \/ \E w \in CdbWrites(workload) : cdb = {w}
      \/ \E p \in pairs : cdb = {p[1], p[2]}
  BY DEF CdbBundles
<1>2. CASE cdb = {} \/ \E w \in CdbWrites(workload) : cdb = {w}
  BY <1>2
<1>3. CASE \E p \in pairs : cdb = {p[1], p[2]}
  <2>1. PICK p \in pairs : cdb = {p[1], p[2]}
    BY <1>3
  <2>2. p[1] \in CdbWrites(workload) /\ p[2] \in CdbWrites(workload) /\ p[1].tag < p[2].tag
    OBVIOUS
  <2>3. \A w \in CdbWrites(workload) : w.tag \in Tag
    BY CountFacts DEF CdbWrites, Waiting, TypeOK
  <2>4. p[1].tag # p[2].tag
    BY <2>2, <2>3, DepthAssumption, SMT DEF Tag
  <2> QED
    BY <2>1, <2>2, <2>4
<1> QED
  BY <1>1, <1>2, <1>3

(* How the flags of live entries change in a cycle.                        *)
LEMMA FlagStep ==
  ASSUME SerialInv, NEW fl \in Flushes, NEW req \in Requests(fl), NEW cdb \in CdbBundles(workload), NEW c,
         NEW wb, wb = [cdb |-> cdb, store |-> c.store, branch |-> c.branch, early |-> c.early],
         NEW st, Clock(req, wb, fl, st), NEW i \in rob_valid
  PROVE  /\ i \in Tag \ Allocated(AllocWidth(req, fl)) /\ rob_class'[i] = rob_class[i]
         /\ i \in rob_done => i \in rob_done'
         /\ i \in rob_exception => i \in rob_exception'
         /\ CdbHit(wb, i) /\ ~fl.all => i \in rob_done'
         /\ i \notin rob_exception /\ i \in rob_exception' =>
              i \in rob_done' \ rob_done /\ rob_class[i] # "jalr" /\ ~CdbHit(wb, i)
<1> DEFINE alloc   == Allocated(AllocWidth(req, fl))
           arrived == Live(wb.cdb, fl)
<1>1. /\ rob_class' = NextClass(req, alloc)
      /\ rob_done' = NextDone(req, wb, fl, alloc)
      /\ rob_exception' = NextException(wb, fl, alloc)
  BY DEF Clock
<1>2. i \in Tag \ alloc
  BY ContractKept, LiveNotAllocated DEF SerialInv, RobInv, TypeOK
<1>3. rob_class'[i] = rob_class[i]
  BY <1>1, <1>2 DEF NextClass
<1>4. i \in rob_done \/ i \in TagsOf(arrived) => i \in rob_done'
  BY <1>1, <1>2 DEF NextDone, TagsOf, Live
<1>5. i \in rob_exception' <=>
        \/ i \in rob_exception /\ i \notin TagsOf(arrived)
        \/ i \in TagsOf({w \in arrived : w.exception})
  BY <1>1, <1>2 DEF NextException
<1>6. wb.cdb \subseteq CdbWrites(workload) /\ (\A v, w \in wb.cdb : v.tag = w.tag => v = w)
  BY CdbDistinct DEF SerialInv, RobInv
<1>7. i \in rob_exception => i \notin TagsOf(arrived)
  BY <1>6, CdbFacts, SMT DEF TagsOf, Live, SerialInv, FaultsAreDone
<1>8. CdbHit(wb, i) /\ ~fl.all => i \in TagsOf(arrived)
  BY DEF CdbHit, TagsOf, Live
<1>9. ASSUME i \in TagsOf({w \in arrived : w.exception})
      PROVE  i \notin rob_done /\ rob_class[i] # "jalr" /\ ~CdbHit(wb, i) /\ i \in TagsOf(arrived)
  <2>1. PICK w \in wb.cdb : w.exception /\ w.tag = i /\ w \in arrived
    BY <1>9 DEF TagsOf, Live
  <2>2. i \notin rob_done /\ rob_class[i] # "jalr"
    BY <1>6, <2>1, CdbFacts
  <2>3. ~CdbHit(wb, i)
    BY <1>6, <2>1 DEF CdbHit
  <2> QED
    BY <2>1, <2>2, <2>3 DEF TagsOf
<1> QED
  BY <1>2, <1>3, <1>4, <1>5, <1>7, <1>8, <1>9

(* A cycle preserves the invariant of the serializer.                      *)
LEMMA CycleSerial ==
  ASSUME SerialInv, NEW fl \in Flushes, NEW req \in Requests(fl), NEW cdb \in CdbBundles(workload), NEW c,
         NEW st \in Statuses(fl),
         Cycle(req, [cdb |-> cdb, store |-> c.store, branch |-> c.branch, early |-> c.early],
               fl, st)
  PROVE  SerialHead' /\ FaultsAreDone' /\ RecoveryIsIdle' /\ WaitingIsDone'
<1> DEFINE wb    == [cdb |-> cdb, store |-> c.store, branch |-> c.branch, early |-> c.early]
           alloc == Allocated(AllocWidth(req, fl))
<1>1. /\ Clock(req, wb, fl, st)
      /\ mispredict_recovery_pending' = CommitMispredictionRaw(wb, fl, st)
      /\ priv_user' = st.user
  BY DEF Cycle
<1>2. RingInv /\ SerialHead /\ FlushContract(fl) /\ RequestContract(req, fl)
  BY ContractKept DEF SerialInv, RobInv
<1>3. fl.after_head => serial_state = "IDLE"
  BY DEF Flushes, LegalFlush, SerialInv, RecoveryIsIdle
<1> HIDE DEF wb
<1>4. /\ SerialHead'
      /\ serial_state' # "IDLE" =>
           /\ ~fl.all /\ serial_state' = SerialStateNext(wb, fl, st)
           /\ CommitWidth(wb, fl, st) = 0 /\ HeadIdx' = HeadIdx
           /\ HeadIdx \in rob_valid
  BY <1>1, <1>2, <1>3, SerialHeadStep
<1>5. \A i \in rob_valid :
         /\ i \notin alloc /\ rob_class'[i] = rob_class[i]
         /\ i \in rob_done => i \in rob_done'
         /\ i \in rob_exception => i \in rob_exception'
         /\ CdbHit(wb, i) /\ ~fl.all => i \in rob_done'
         /\ i \notin rob_exception /\ i \in rob_exception' =>
              i \in rob_done' \ rob_done /\ rob_class[i] # "jalr" /\ ~CdbHit(wb, i)
  BY <1>1, FlagStep DEF wb
<1>6. FaultsAreDone'
  <2>1. rob_valid' \subseteq rob_valid \cup alloc
    BY <1>1 DEF Clock, NextValid
  <2>2. alloc \cap rob_exception' = {}
    <3>1. rob_exception' \subseteq (rob_exception \ alloc) \cup rob_valid
      BY <1>1 DEF Clock, NextException, TagsOf, Live
    <3> QED
      BY <1>5, <3>1
  <2> QED
    BY <1>5, <2>1, <2>2 DEF FaultsAreDone, SerialInv
<1>7. RecoveryIsIdle'
  <2>1. CommitMispredictionRaw(wb, fl, st) => CommitWidth(wb, fl, st) # 0
    BY SMT DEF CommitMispredictionRaw, CommitWidth
  <2> QED
    BY <1>1, <1>4, <2>1 DEF RecoveryIsIdle
<1>8. WaitingIsDone'
  <2> SUFFICES ASSUME serial_state' # "IDLE"
               PROVE  /\ HeadIdx \in rob_done'
                      /\ serial_state' = "TRAP_WAIT" => HeadIdx \in rob_exception' \/ st.user
    BY <1>1, <1>4 DEF WaitingIsDone
  <2>1. ~fl.all /\ serial_state' = SerialStateNext(wb, fl, st) /\ HeadIdx \in rob_valid
    BY <1>4
  <2>2. CASE serial_state = "IDLE"
    <3>1. HeadEnters(wb, fl, st) /\ serial_state' = SerialEntry(st)
      BY <2>1, <2>2 DEF SerialStateNext
    <3>2. HeadIdx \in rob_done \/ CdbHit(wb, HeadIdx)
      BY <1>2, <3>1, HeadOnly DEF HeadEnters, HeadReady
    <3>3. SerialEntry(st) = "TRAP_WAIT" => HeadException(st)
      BY DEF SerialEntry
    <3>4. HeadException(st) => HeadIdx \in rob_exception \/ st.user
      BY <1>2, HeadOnly DEF HeadException
    <3> QED
      BY <1>5, <2>1, <3>1, <3>2, <3>3, <3>4
  <2>3. CASE serial_state # "IDLE"
    <3>1. /\ HeadIdx \in rob_done
          /\ serial_state = "TRAP_WAIT" => HeadIdx \in rob_exception \/ priv_user
      BY <2>3 DEF SerialInv, WaitingIsDone
    <3>2. serial_state' = "TRAP_WAIT" => serial_state = "TRAP_WAIT"
      BY <2>1, <2>3, <1>2 DEF SerialStateNext, SerialHead, SerialStates
    <3>3. st.user = priv_user
      BY <2>1 DEF Statuses
    <3> QED
      BY <1>5, <2>1, <3>1, <3>2, <3>3
  <2> QED
    BY <2>2, <2>3
<1> QED
  BY <1>4, <1>6, <1>7, <1>8

(* The cycle that a step is.                                               *)
LEMMA NextIsCycle ==
  ASSUME Next
  PROVE  \E fl \in Flushes :
           \E st \in Statuses(fl), c \in Completions, cdb \in CdbBundles(workload), req \in Requests(fl) :
             Cycle(req, [cdb |-> cdb, store |-> c.store, branch |-> c.branch, early |-> c.early],
                   fl, st)
BY DEF Next

(* Reset, and every step, establish the invariant.                         *)
LEMMA InitSerial == Init => SerialInv
BY InitInv DEF Init, RobInit, SerialInv, SerialHead, SerialStates, FaultsAreDone,
               RecoveryIsIdle, WaitingIsDone

LEMMA StepSerial == SerialInv /\ [Next]_vars => SerialInv'
<1> SUFFICES ASSUME SerialInv, [Next]_vars PROVE SerialInv'
  OBVIOUS
<1>1. RobInv'
  BY StepInv DEF SerialInv
<1>2. CASE Next
  <2>1. PICK fl \in Flushes :
          \E st \in Statuses(fl), c \in Completions, cdb \in CdbBundles(workload), req \in Requests(fl) :
            Cycle(req, [cdb |-> cdb, store |-> c.store, branch |-> c.branch, early |-> c.early],
                  fl, st)
    BY <1>2, NextIsCycle
  <2>2. PICK st \in Statuses(fl), c \in Completions, cdb \in CdbBundles(workload), req \in Requests(fl) :
          Cycle(req, [cdb |-> cdb, store |-> c.store, branch |-> c.branch, early |-> c.early],
                fl, st)
    BY <2>1
  <2> QED
    BY <1>1, <2>2, CycleSerial DEF SerialInv
<1>3. CASE UNCHANGED vars
  BY <1>1, <1>3 DEF vars, robVars, SerialInv, SerialHead, HeadIdx, FaultsAreDone, RecoveryIsIdle,
                    WaitingIsDone
<1> QED
  BY <1>2, <1>3

(* The invariant of the serializer holds in every reachable state.         *)
THEOREM SerialCorrect == Spec => []SerialInv
<1> QED
  BY InitSerial, StepSerial, PTL DEF Spec

(* The serializer waits only for the finished instruction at the head that *)
(* made it wait.                                                           *)
THEOREM SerialMatches == Spec => []SerialStateMatchesHead
<1>1. SerialInv => SerialStateMatchesHead
  <2> SUFFICES ASSUME SerialInv, serial_state # "IDLE"
               PROVE  SerialStateMatchesHead
    BY DEF SerialStateMatchesHead
  <2>1. /\ HeadIdx \in rob_valid \cap rob_done /\ WaitsIn(rob_class[HeadIdx], serial_state)
        /\ serial_state = "TRAP_WAIT" => HeadIdx \in rob_exception \/ priv_user
        /\ serial_state \in SerialStates
    BY DEF SerialInv, SerialHead, WaitingIsDone
  <2> QED
    BY <2>1 DEF SerialStateMatchesHead, WaitsIn, SerialStates
<1> QED
  BY <1>1, SerialCorrect, PTL

(* Everything the buffer keeps in two places agrees, at every depth.       *)
THEOREM RegistersAlwaysAgree == Spec => []RegistersAgree
<1> QED
  BY TypeCorrect, ValidCorrect, MasksCorrect, BackPressureCorrect, SerialMatches, PTL
     DEF RegistersAgree

-----------------------------------------------------------------------------
(* What retires in a cycle.                                                *)

(* The head pointer moves past the entries that commit.                    *)
LEMMA RetiringFacts ==
  ASSUME RingInv, NEW fl, NEW req, NEW wb, NEW st, Clock(req, wb, fl, st)
  PROVE  /\ PtrSub(head_ptr', head_ptr) = CommitWidth(wb, fl, st)
         /\ head_ptr' # head_ptr <=> CommitWidth(wb, fl, st) >= 1
         /\ \A i \in Retiring : \/ i = HeadIdx /\ CommitWidth(wb, fl, st) >= 1
                                \/ i = HeadNextIdx /\ CommitWidth(wb, fl, st) = 2
<1> DEFINE w == CommitWidth(wb, fl, st)
<1>1. head_ptr' = PtrAdd(head_ptr, w) /\ w \in 0 .. 2 /\ head_ptr \in Ptr
  BY RetireFacts DEF Clock, RingInv
<1> HIDE DEF w
<1>2. PtrSub(head_ptr', head_ptr) = w /\ (head_ptr' # head_ptr <=> w >= 1)
  BY <1>1, DepthAssumption, SMT DEF PtrSub, PtrAdd, Ptr
<1>3. \A i \in Retiring : i \in Tag /\ TagSub(i, HeadIdx) < w
  BY <1>2 DEF Retiring, RingInv, ValidIsWindow
<1>4. \A i \in Retiring : \/ TagSub(i, HeadIdx) = 0 /\ w >= 1
                          \/ TagSub(i, HeadIdx) = 1 /\ w = 2
  BY <1>1, <1>3, HeadAges, SMT DEF Tag
<1> QED
  BY <1>2, <1>3, <1>4, HeadAges DEF w

(* The conditions under which an entry commits, read at the entry.         *)
LEMMA CommitConditions ==
  ASSUME RingInv, NEW wb, NEW fl, NEW st, NEW i,
         \/ i = HeadIdx /\ CommitWidth(wb, fl, st) >= 1
         \/ i = HeadNextIdx /\ CommitWidth(wb, fl, st) = 2
  PROVE  /\ i \in rob_valid /\ i \notin rob_exception /\ (i \in rob_done \/ CdbHit(wb, i))
         /\ CommitWidth(wb, fl, st) = 2 /\ rob_class[i] \in BranchClasses =>
              i \notin rob_mispredicted
<1>1. /\ \A S : OnehotRead(S, head_clear_mask) <=> HeadIdx \in S
      /\ \A S : OnehotRead(S, head_next_clear_mask) <=> HeadNextIdx \in S
      /\ \A S : HeadIs(S) <=> rob_class[HeadIdx] \in S
      /\ \A S : HeadNextIs(S) <=> rob_class[HeadNextIdx] \in S
  BY DEF RingInv, MasksFollowHead, HeadIs, HeadNextIs, OnehotRead
<1>2. /\ HeadReady(wb) /\ ~HeadException(st)
      /\ CommitWidth(wb, fl, st) = 2 => HeadNextReady(wb) /\ HeadOk2Wide(st) /\ HeadNextOk2Wide
  BY SMT DEF CommitWidth, CommitEn, CommitReadyEarly, Commit2Ready
<1>3. CASE i = HeadIdx
  BY <1>1, <1>2, <1>3 DEF HeadReady, HeadException, HeadOk2Wide
<1>4. CASE i = HeadNextIdx /\ CommitWidth(wb, fl, st) = 2
  BY <1>1, <1>2, <1>4 DEF HeadNextReady, HeadNextOk2Wide
<1> QED
  BY <1>3, <1>4

(* What a cycle may not do, in one lemma.                                  *)
LEMMA CycleRetires ==
  ASSUME SerialInv, NEW fl \in Flushes, NEW req \in Requests(fl), NEW cdb \in CdbBundles(workload), NEW c,
         NEW st \in Statuses(fl),
         Cycle(req, [cdb |-> cdb, store |-> c.store, branch |-> c.branch, early |-> c.early],
               fl, st)
  PROVE  /\ Retiring \cap rob_exception' = {}
         /\ PtrSub(head_ptr', head_ptr) = 2 =>
              \A i \in Retiring : rob_class[i] \in BranchClasses => i \notin rob_mispredicted
         /\ head_ptr' # head_ptr =>
              /\ rob_class[HeadIdx] = "fence_i" => serial_state = "FENCE_I_SYNC"
              /\ rob_class[HeadIdx] \in CsrClasses => serial_state = "CSR_EXEC"
              /\ rob_class[HeadIdx] # "mret"
<1> DEFINE wb == [cdb |-> cdb, store |-> c.store, branch |-> c.branch, early |-> c.early]
           w  == CommitWidth(wb, fl, st)
<1>1. Clock(req, wb, fl, st) /\ RingInv /\ SerialHead
  BY DEF Cycle, SerialInv, RobInv
<1>2. /\ PtrSub(head_ptr', head_ptr) = w /\ (head_ptr' # head_ptr <=> w >= 1)
      /\ \A i \in Retiring : \/ i = HeadIdx /\ w >= 1
                             \/ i = HeadNextIdx /\ w = 2
  BY <1>1, RetiringFacts
<1>3. \A i \in Retiring :
         /\ i \in rob_valid /\ i \notin rob_exception /\ (i \in rob_done \/ CdbHit(wb, i))
         /\ w = 2 /\ rob_class[i] \in BranchClasses => i \notin rob_mispredicted
  BY <1>1, <1>2, CommitConditions
<1>4. Retiring \cap rob_exception' = {}
  <2>1. \A i \in rob_valid : i \notin rob_exception /\ i \in rob_exception' =>
                             i \notin rob_done /\ ~CdbHit(wb, i)
    BY <1>1, FlagStep
  <2> HIDE DEF wb
  <2> QED
    BY <1>3, <2>1
<1>5. ASSUME w >= 1
      PROVE  /\ rob_class[HeadIdx] = "fence_i" => serial_state = "FENCE_I_SYNC"
             /\ rob_class[HeadIdx] \in CsrClasses => serial_state = "CSR_EXEC"
             /\ rob_class[HeadIdx] # "mret"
  <2>1. ~fl.all
    BY <1>1, <1>5, RetireFacts
  <2>2. ~st.mret_done
    BY <2>1 DEF Statuses
  <2> QED
    BY <1>1, <1>5, <2>2, SerialRetires
<1> HIDE DEF w, wb
<1> QED
  BY <1>2, <1>3, <1>4, <1>5

(* Every step of the specification retires only what it may.               *)
LEMMA StepRetires == SerialInv /\ [Next]_vars => [RetireOk]_vars
<1> SUFFICES ASSUME SerialInv, Next PROVE RetireOk
  OBVIOUS
<1>1. PICK fl \in Flushes :
        \E st \in Statuses(fl), c \in Completions, cdb \in CdbBundles(workload), req \in Requests(fl) :
          Cycle(req, [cdb |-> cdb, store |-> c.store, branch |-> c.branch, early |-> c.early],
                fl, st)
  BY NextIsCycle
<1>2. PICK st \in Statuses(fl), c \in Completions, cdb \in CdbBundles(workload), req \in Requests(fl) :
        Cycle(req, [cdb |-> cdb, store |-> c.store, branch |-> c.branch, early |-> c.early],
              fl, st)
  BY <1>1
<1> QED
  BY <1>2, CycleRetires DEF RetireOk

(* Nothing retires with an exception, not even with one that arrives in    *)
(* the cycle of its retirement; an unrepaired misprediction retires alone; *)
(* FENCE.I and CSR accesses retire only through the serializer, MRET never.*)
THEOREM RetirementIsLawful == Spec => RetiresLawfully
<1> QED
  BY SerialCorrect, StepRetires, PTL DEF Spec, RetiresLawfully

-----------------------------------------------------------------------------
(* The ring implements the instruction window.                             *)

(* The entry of index i as the window shows it.                            *)
View(cls, done, exc, i) == [cls |-> cls[i], done |-> i \in done, exception |-> i \in exc]

LEMMA ViewFields ==
  ASSUME NEW cls, NEW done, NEW exc, NEW i
  PROVE  /\ View(cls, done, exc, i).cls = cls[i]
         /\ View(cls, done, exc, i).done <=> i \in done
         /\ View(cls, done, exc, i).exception <=> i \in exc
         /\ View(cls, done, exc, i).exception \in BOOLEAN
<1> DEFINE a == i \in done
           b == i \in exc
           v == [cls |-> cls[i], done |-> a, exception |-> b]
<1>1. b \in BOOLEAN
  BY SMT
<1> HIDE DEF a, b
<1>2. v.cls = cls[i] /\ v.done = a /\ v.exception = b
  OBVIOUS
<1>3. v = View(cls, done, exc, i)
  BY DEF View, a, b
<1> HIDE DEF v
<1>4. (v.done <=> a) /\ (v.exception <=> b) /\ v.exception \in BOOLEAN
  BY <1>1, <1>2
<1> QED
  BY <1>2, <1>3, <1>4 DEF a, b

(* A function on 1 .. n is a sequence of length n.                         *)
LEMMA FunctionLength ==
  ASSUME NEW n \in Nat, NEW f, DOMAIN f = 1 .. n, f = [k \in 1 .. n |-> f[k]]
  PROVE  Len(f) = n
<1>1. f \in Seq({f[k] : k \in 1 .. n})
  BY SeqDef, SMT
<1> QED
  BY <1>1, LenProperties, SMT

(* The position k of the window is a live entry of age k - 1, and keeps    *)
(* its place when w entries retire in front of it.                         *)
LEMMA PositionFacts ==
  ASSUME RingInv, NEW w \in 0 .. 2, head_ptr' = PtrAdd(head_ptr, w), NEW k \in 1 .. Count, k > w
  PROVE  /\ TagAdd(HeadIdx, k - 1) \in rob_valid
         /\ TagAdd(HeadIdx', k - w - 1) = TagAdd(HeadIdx, k - 1)
<1>1. /\ head_ptr \in Ptr /\ Count \in 0 .. Depth /\ HeadIdx \in Tag
      /\ rob_valid = {i \in Tag : TagSub(i, HeadIdx) < Count}
  BY CountFacts, SMT DEF RingInv, ValidIsWindow
<1>2. HeadIdx' = TagAdd(HeadIdx, w)
  BY <1>1, PtrAddIdx, DepthAssumption, SMT DEF HeadIdx
<1>3. TagAdd(HeadIdx, k - 1) \in Tag /\ TagSub(TagAdd(HeadIdx, k - 1), HeadIdx) = k - 1
  BY <1>1, DepthAssumption, SMT DEF Tag, TagAdd, TagSub
<1>4. TagAdd(TagAdd(HeadIdx, w), k - w - 1) = TagAdd(HeadIdx, k - 1)
  BY <1>1, DepthAssumption, SMT DEF Tag, TagAdd
<1> QED
  BY <1>1, <1>2, <1>3, <1>4, SMT

(* A flush leaves a prefix of the window.                                  *)
LEMMA FlushShrinks ==
  ASSUME RingInv, NEW fl, FlushContract(fl), fl.all \/ fl.en
  PROVE  PtrSub(FlushTail(fl), head_ptr) \in 0 .. Count
<1>1. /\ head_ptr \in Ptr /\ Count \in 0 .. Depth /\ HeadIdx \in Tag
      /\ rob_valid = {i \in Tag : TagSub(i, HeadIdx) < Count}
  BY CountFacts, SMT DEF RingInv, ValidIsWindow
<1>2. CASE fl.all \/ fl.after_head
  BY <1>1, <1>2, DepthAssumption, SMT DEF FlushTail, PtrSub, Ptr
<1>3. CASE ~(fl.all \/ fl.after_head)
  <2>1. fl.tag \in rob_valid
    BY <1>3 DEF FlushContract
  <2>2. TagSub(fl.tag, HeadIdx) \in Tag /\ TagSub(fl.tag, HeadIdx) < Count
    BY <1>1, <2>1, TagSubFacts
  <2>3. FlushTail(fl) = PtrAdd(head_ptr, TagSub(fl.tag, HeadIdx) + 1)
    BY <1>3 DEF FlushTail
  <2> HIDE DEF FlushTail
  <2>4. PtrSub(FlushTail(fl), head_ptr) = TagSub(fl.tag, HeadIdx) + 1
    BY <1>1, <2>2, <2>3, DepthAssumption, SMT DEF PtrSub, PtrAdd, Ptr, Tag
  <2> QED
    BY <1>1, <2>2, <2>4, SMT DEF Tag
<1> QED
  BY <1>2, <1>3

(* A live entry keeps its class and its outcome through a cycle.           *)
LEMMA EntryEvolves ==
  ASSUME SerialInv, NEW fl \in Flushes, NEW req \in Requests(fl), NEW cdb \in CdbBundles(workload), NEW c,
         NEW wb, wb = [cdb |-> cdb, store |-> c.store, branch |-> c.branch, early |-> c.early],
         NEW st, Clock(req, wb, fl, st), NEW i \in rob_valid
  PROVE  Abstract!Evolves(View(rob_class, rob_done, rob_exception, i),
                          View(rob_class', rob_done', rob_exception', i))
<1> DEFINE v == View(rob_class, rob_done, rob_exception, i)
           u == View(rob_class', rob_done', rob_exception', i)
<1>1. /\ rob_class'[i] = rob_class[i]
      /\ i \in rob_done => i \in rob_done'
      /\ i \in rob_exception => i \in rob_exception'
      /\ i \notin rob_exception /\ i \in rob_exception' => i \notin rob_done
  BY FlagStep
<1>2. /\ v.cls = rob_class[i] /\ u.cls = rob_class'[i]
      /\ v.done <=> i \in rob_done
      /\ u.done <=> i \in rob_done'
      /\ v.exception <=> i \in rob_exception
      /\ u.exception <=> i \in rob_exception'
      /\ v.exception \in BOOLEAN /\ u.exception \in BOOLEAN
  BY ViewFields, SMT
<1> HIDE DEF v, u
<1>3. u.cls = v.cls
  BY <1>1, <1>2
<1>4. v.done => u.done /\ u.exception = v.exception
  <2>1. v.done => u.done /\ (u.exception <=> v.exception)
    BY <1>1, <1>2
  <2> QED
    BY <1>2, <2>1
<1>5. Abstract!Evolves(v, u)
  BY <1>3, <1>4 DEF Abstract!Evolves
<1> QED
  BY <1>5 DEF v, u

(* Two entries that retire together are of classes that may.               *)
LEMMA PairsAreWide ==
  ASSUME RingInv, NEW wb, NEW fl, NEW st, CommitWidth(wb, fl, st) = 2
  PROVE  rob_class[HeadIdx] \in Ok2WideClass /\ rob_class[HeadNextIdx] \in Ok2WideClass
<1>1. HeadIs(Ok2WideClass) /\ HeadNextIs(Ok2WideClass)
  BY SMT DEF CommitWidth, Commit2Ready, HeadOk2Wide, HeadNextOk2Wide
<1> QED
  BY <1>1 DEF RingInv, MasksFollowHead, HeadIs, HeadNextIs

(* A cycle of the ring is a cycle of the window: what commits leaves at    *)
(* the front, a flush keeps a prefix, everything else stays in order.      *)
LEMMA CycleRefines ==
  ASSUME SerialInv, NEW fl \in Flushes, NEW req \in Requests(fl), NEW cdb \in CdbBundles(workload), NEW c,
         NEW st \in Statuses(fl),
         Cycle(req, [cdb |-> cdb, store |-> c.store, branch |-> c.branch, early |-> c.early],
               fl, st)
  PROVE  Abstract!Next
<1> DEFINE wb == [cdb |-> cdb, store |-> c.store, branch |-> c.branch, early |-> c.early]
           w  == CommitWidth(wb, fl, st)
           k  == IF fl.all \/ fl.en THEN Count' ELSE Count - w
<1>0. /\ fl.all \/ fl.en => k = Count'
      /\ ~(fl.all \/ fl.en) => k = Count - w
  OBVIOUS
<1> HIDE DEF k
<1>1. Clock(req, wb, fl, st) /\ RingInv /\ FlushContract(fl) /\ RequestContract(req, fl)
  BY ContractKept DEF Cycle, SerialInv, RobInv
<1>2. /\ w \in 0 .. 2 /\ w <= Count /\ (w >= 1 => ~fl.all /\ ~fl.en)
      /\ head_ptr' = PtrAdd(head_ptr, w)
      /\ Count \in 0 .. Depth /\ Count' \in 0 .. Depth
  <2>1. Count \in 0 .. Depth /\ Count' \in 0 .. Depth
    <3>1. RingInv'
      BY <1>1, RingClock
    <3>2. head_ptr \in Ptr /\ tail_ptr \in Ptr /\ head_ptr' \in Ptr /\ tail_ptr' \in Ptr
      BY <1>1, <3>1 DEF RingInv
    <3>3. Count <= Depth /\ Count' <= Depth
      BY <1>1, <3>1 DEF RingInv, ValidIsWindow
    <3>4. \A p, q \in Ptr : PtrSub(p, q) \in Nat
      BY DepthAssumption, SMT DEF PtrSub, Ptr
    <3> QED
      BY <3>2, <3>3, <3>4, DepthAssumption, SMT DEF Count
  <2> QED
    BY <1>1, <2>1, RetireFacts DEF Clock
<1>3. /\ fl.all \/ fl.en => Count' <= Count /\ w = 0
      /\ ~(fl.all \/ fl.en) => Count' = Count + RequestWidth(req) - w
      /\ RequestWidth(req) \in 0 .. 2
  BY <1>1, <1>2, WindowStep, FlushShrinks, RequestWidthRange, SMT
<1>4. \A i \in rob_valid : Abstract!Evolves(View(rob_class, rob_done, rob_exception, i),
                                            View(rob_class', rob_done', rob_exception', i))
  BY <1>1, EntryEvolves
<1>5. \A j \in 1 .. w : ~View(rob_class, rob_done, rob_exception, TagAdd(HeadIdx, j - 1)).exception
  <2> SUFFICES ASSUME NEW j \in 1 .. w PROVE ~View(rob_class, rob_done, rob_exception, TagAdd(HeadIdx, j - 1)).exception
    OBVIOUS
  <2>1. HeadIdx \in Tag
    BY <1>1, CountFacts DEF RingInv, ValidIsWindow
  <2>2. TagAdd(HeadIdx, 0) = HeadIdx
    BY <2>1, DepthAssumption, SMT DEF TagAdd, Tag
  <2>3. j = 1 \/ (j = 2 /\ w = 2)
    BY <1>2, SMT
  <2>4. TagAdd(HeadIdx, j - 1) \notin rob_exception
    BY <1>1, <1>2, <2>2, <2>3, CommitConditions, SMT DEF HeadNextIdx
  <2> QED
    BY <2>4, ViewFields
<1>6. w = 2 => /\ rob_class[TagAdd(HeadIdx, 0)] \notin SerialClasses \cup AtomicClasses
               /\ rob_class[TagAdd(HeadIdx, 1)] \notin SerialClasses \cup AtomicClasses
  <2>1. HeadIdx \in Tag
    BY <1>1, CountFacts DEF RingInv, ValidIsWindow
  <2>2. TagAdd(HeadIdx, 0) = HeadIdx
    BY <2>1, DepthAssumption, SMT DEF TagAdd, Tag
  <2> QED
    BY <1>1, <2>2, PairsAreWide DEF HeadNextIdx, Ok2WideClass
<1> HIDE DEF w, wb
<1>7. k \in 0 .. Depth /\ w + k <= Count /\ k <= Count'
  BY <1>0, <1>2, <1>3, DepthAssumption, SMT
<1>8. \A j \in 1 .. k : /\ TagAdd(HeadIdx, w + j - 1) \in rob_valid
                        /\ TagAdd(HeadIdx', j - 1) = TagAdd(HeadIdx, w + j - 1)
  <2> SUFFICES ASSUME NEW j \in 1 .. k
               PROVE  /\ TagAdd(HeadIdx, w + j - 1) \in rob_valid
                      /\ TagAdd(HeadIdx', j - 1) = TagAdd(HeadIdx, w + j - 1)
    OBVIOUS
  <2>1. w + j \in 1 .. Count /\ w + j > w /\ (w + j) - w - 1 = j - 1
    BY <1>2, <1>7, SMT
  <2> QED
    BY <1>1, <1>2, <2>1, PositionFacts, SMT
<1>9. /\ w + k < Count => w = 0 /\ Count' = k
      /\ Count' <= k + 2
  BY <1>0, <1>2, <1>3, SMT
<1>10. /\ Len(Window) = Count /\ Len(Window') = Count'
       /\ \A j \in 1 .. Count : Window[j] = View(rob_class, rob_done, rob_exception, TagAdd(HeadIdx, j - 1))
       /\ \A j \in 1 .. Count' :
            Window'[j] = View(rob_class', rob_done', rob_exception', TagAdd(HeadIdx', j - 1))
  <2>1. Len(Window) = Count
    BY <1>2, FunctionLength, SMT DEF Window
  <2>2. Len(Window') = Count'
    BY <1>2, FunctionLength, SMT DEF Window
  <2>3. \A j \in 1 .. Count :
          Window[j] = View(rob_class, rob_done, rob_exception, TagAdd(HeadIdx, j - 1))
    BY DEF Window, View
  <2>4. \A j \in 1 .. Count' :
          Window'[j] = View(rob_class', rob_done', rob_exception', TagAdd(HeadIdx', j - 1))
    BY DEF Window, View
  <2> QED
    BY <2>1, <2>2, <2>3, <2>4
<1>11. /\ \A j \in 1 .. w : ~Window[j].exception
       /\ w = 2 => /\ Window[1].cls \notin SerialClasses \cup AtomicClasses
                   /\ Window[2].cls \notin SerialClasses \cup AtomicClasses
  BY <1>2, <1>5, <1>6, <1>10, ViewFields, SMT
<1>12. \A j \in 1 .. k : Abstract!Evolves(Window[w + j], Window'[j])
  <2> SUFFICES ASSUME NEW j \in 1 .. k PROVE Abstract!Evolves(Window[w + j], Window'[j])
    OBVIOUS
  <2> DEFINE i == TagAdd(HeadIdx, w + j - 1)
  <2>1. w + j \in 1 .. Count /\ j \in 1 .. Count'
    BY <1>2, <1>7, SMT
  <2>2. /\ Window[w + j] = View(rob_class, rob_done, rob_exception, i)
        /\ Window'[j] = View(rob_class', rob_done', rob_exception', i)
    <3>1. Window[w + j] = View(rob_class, rob_done, rob_exception, i)
      <4>1. PICK m \in 1 .. Count : m = w + j
        BY <2>1
      <4>2. Window[m] = View(rob_class, rob_done, rob_exception, TagAdd(HeadIdx, m - 1))
        BY <1>10
      <4>3. m - 1 = w + j - 1
        BY <1>2, <1>7, <4>1, SMT
      <4> QED
        BY <4>1, <4>2, <4>3
    <3>2. Window'[j] = View(rob_class', rob_done', rob_exception', TagAdd(HeadIdx', j - 1))
      BY <1>10, <2>1
    <3>3. TagAdd(HeadIdx', j - 1) = i
      BY <1>8
    <3> HIDE DEF i
    <3> QED
      BY <3>1, <3>2, <3>3
  <2> QED
    BY <1>4, <1>8, <2>2
<1>13. Abstract!Cycle(w, k)
  <2>1. /\ w + k <= Len(Window) /\ k <= Len(Window')
        /\ w + k < Len(Window) => w = 0 /\ Len(Window') = k
        /\ Len(Window') <= k + 2 /\ Len(Window') <= Depth
    BY <1>2, <1>7, <1>9, <1>10, SMT
  <2> QED
    BY <1>11, <1>12, <2>1 DEF Abstract!Cycle
<1> QED
  BY <1>2, <1>7, <1>13 DEF Abstract!Next

(* Reset starts with an empty window.                                      *)
LEMMA InitRefines == Init => Abstract!Init
<1> SUFFICES ASSUME Init PROVE Window = << >>
  BY DEF Abstract!Init
<1>1. Count = 0
  BY DepthAssumption, SMT DEF Init, RobInit, Count, PtrSub
<1>2. 1 .. Count = {}
  BY <1>1, SMT
<1> QED
  BY <1>2, SMT DEF Window

(* Every step of the ring is a step of the window, or leaves it alone.     *)
LEMMA StepRefines == SerialInv /\ [Next]_vars => [Abstract!Next]_Window
<1> SUFFICES ASSUME SerialInv, [Next]_vars PROVE [Abstract!Next]_Window
  OBVIOUS
<1>1. CASE Next
  <2>1. PICK fl \in Flushes :
          \E st \in Statuses(fl), c \in Completions, cdb \in CdbBundles(workload), req \in Requests(fl) :
            Cycle(req, [cdb |-> cdb, store |-> c.store, branch |-> c.branch, early |-> c.early],
                  fl, st)
    BY <1>1 DEF Next
  <2>2. PICK st \in Statuses(fl), c \in Completions, cdb \in CdbBundles(workload), req \in Requests(fl) :
          Cycle(req, [cdb |-> cdb, store |-> c.store, branch |-> c.branch, early |-> c.early],
                fl, st)
    BY <2>1
  <2> QED
    BY <2>2, CycleRefines
<1>2. CASE UNCHANGED vars
  BY <1>2 DEF vars, robVars, Window, Count, HeadIdx
<1> QED
  BY <1>1, <1>2

(* The ring with its pointers, wrap bits, masks and flags implements the   *)
(* instruction window at every depth: it retires in order and without      *)
(* gaps, squashes only suffixes, appends at most two, never retires an     *)
(* exception, and never changes the outcome of a finished entry.           *)
THEOREM RobImplementsWindow == Spec => ImplementsWindow
<1> QED
  BY SerialCorrect, InitRefines, StepRefines, PTL DEF Spec, ImplementsWindow, Abstract!Spec

=============================================================================
