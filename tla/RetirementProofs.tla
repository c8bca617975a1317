-------------------------- MODULE RetirementProofs --------------------------
(***************************************************************************)
(* No full flush loses a committed store and none clips the write of an    *)
(* atomic, for every program, depth of the reorder buffer and depth of the *)
(* store queue.                                                            *)
(*                                                                         *)
(* The store queue is wiped by a flush that is decided a cycle earlier on  *)
(* a registered status.  The argument: that status covers the stores in    *)
(* the queue and on the registered commit bus (StatusCovers); a trap and a *)
(* return look at it when they are taken; FENCE.I looked at it before its  *)
(* cache sync and nothing retires meanwhile (SyncIsDrained), which holds   *)
(* because only FENCE.I waits in the sync state (SerialHead) and a retired *)
(* misprediction never flushes a waiting head (RecoveryIsIdle).            *)
(***************************************************************************)
EXTENDS Retirement, ReorderBufferLemmas, FiniteSetTheorems

(* Steps are first-order unless they say otherwise: those that need        *)
(* arithmetic, or that reason about sets and functions by extension, say   *)
(* SMT.                                                                    *)
USE Zenon

(* The class of an entry is that of the instruction at its address.        *)
ClassesMatch == \A i \in rob_valid : rob_class[i] = ClassAt(rob_pc[i])

RecoveryIsIdle ==
  /\ mispredict_recovery_pending \in BOOLEAN
  /\ mispredict_recovery_pending => serial_state = "IDLE"

NoStoreOnBus == \A k \in DOMAIN commit_q : ClassAt(commit_q[k]) \notin StoreLike

StatusCovers == sq_committed_empty => sq_committed = 0 /\ NoStoreOnBus

SyncIsDrained == serial_state = "FENCE_I_SYNC" => sq_committed_empty

FlushIsDrained == trap_taken_prev \/ mret_taken_prev \/ fence_i_committed => sq_committed = 0

DrainInv ==
  /\ RingInv /\ ClassesMatch /\ SerialHead /\ RecoveryIsIdle
  /\ StatusCovers /\ SyncIsDrained /\ FlushIsDrained

-----------------------------------------------------------------------------
(* The contract of the reorder buffer.                                     *)

(* The flush command keeps it.                                             *)
LEMMA FlushKept == ASSUME RecoveryIsIdle PROVE FlushContract(Flush)
<1>1. 0 \in Tag
  BY DepthAssumption, SMT DEF Tag
<1> QED
  BY <1>1 DEF RecoveryIsIdle, FlushContract, Flush, FullFlush

(* A bundle is empty, a single instruction, or a pair that may enter.      *)
LEMMA BundleKinds ==
  ASSUME NEW bundle \in Bundles
  PROVE  \/ bundle = << >>
         \/ MayDispatch /\ bundle = << fetch_pc >>
         \/ /\ MayDispatch /\ bundle = << fetch_pc, program.code[fetch_pc].pred >>
            /\ MayPair(fetch_pc, program.code[fetch_pc].pred)
BY DEF Bundles

(* So does the request of a bundle, whose slots hold the bundle's classes. *)
LEMMA RequestKept ==
  ASSUME NEW bundle \in Bundles
  PROVE  /\ RequestContract(Request(bundle), Flush)
         /\ Request(bundle).slot1 # NoReq => Request(bundle).slot1 = ClassAt(bundle[1])
         /\ Request(bundle).slot2 # NoReq => Request(bundle).slot2 = ClassAt(bundle[2])
<1>1. MayDispatch => ~Flush.all /\ ~Flush.en /\ ~dispatch_full_q
  BY DEF MayDispatch, FlushPipeline, Flush, FullFlush
<1>2. CASE bundle = << >>
  BY <1>2, SMT DEF Request, RequestContract
<1>3. CASE MayDispatch /\ bundle = << fetch_pc >>
  BY <1>1, <1>3, SMT DEF Request, RequestContract
<1>4. CASE /\ MayDispatch /\ bundle = << fetch_pc, program.code[fetch_pc].pred >>
           /\ MayPair(fetch_pc, program.code[fetch_pc].pred)
  <2>1. ClassAt(bundle[1]) \in AllClasses /\ ~dispatch_full_for_2_q
    BY <1>4 DEF MayPair, Pairable
  <2> QED
    BY <1>1, <1>4, <2>1, ClassAssumption DEF Request, RequestContract
<1> QED
  BY <1>2, <1>3, <1>4, BundleKinds

-----------------------------------------------------------------------------
(* One cycle.                                                              *)

(* The class of every live entry stays that of its instruction.            *)
LEMMA ClassesStep ==
  ASSUME RingInv, RecoveryIsIdle, ClassesMatch, NEW bundle \in Bundles, NEW wb, NEW st,
         Clock(Request(bundle), wb, Flush, st),
         FrontEndClock(bundle, Allocated(AllocWidth(Request(bundle), Flush)), wb)
  PROVE  ClassesMatch'
<1> DEFINE req   == Request(bundle)
           n     == AllocWidth(req, Flush)
           alloc == Allocated(n)
<1>1. /\ rob_valid' \subseteq rob_valid \cup alloc
      /\ rob_class' = NextClass(req, alloc)
  BY DEF Clock, NextValid
<1>2. /\ rob_pc' = [i \in Tag |-> IF i \notin alloc THEN rob_pc[i]
                                 ELSE IF i = TailIdx THEN bundle[1] ELSE bundle[2]]
      /\ program' = program
  BY DEF FrontEndClock
<1>3. alloc \subseteq Tag /\ rob_valid \subseteq Tag
  BY CountFacts DEF RingInv, ValidIsWindow, Allocated
<1>4. SUFFICES ASSUME NEW i \in rob_valid'
               PROVE  rob_class'[i] = program.code[rob_pc'[i]].cls
  BY <1>2 DEF ClassesMatch, ClassAt
<1>5. CASE i \notin alloc
  BY <1>1, <1>2, <1>3, <1>5 DEF NextClass, ClassesMatch, ClassAt
<1>6. CASE i \in alloc
  <2>1. IF i = TailIdx THEN n >= 1 ELSE n = 2
    BY <1>6, FlushKept, RequestKept, AllocFacts, SMT DEF Allocated
  <2>2. (n >= 1 => req.slot1 # NoReq) /\ (n = 2 => req.slot2 # NoReq)
    BY SMT DEF AllocWidth, AllocEn, AllocEn2
  <2>3. IF i = TailIdx THEN rob_class'[i] = req.slot1 /\ rob_pc'[i] = bundle[1]
                       ELSE rob_class'[i] = req.slot2 /\ rob_pc'[i] = bundle[2]
    BY <1>1, <1>2, <1>3, <1>6 DEF NextClass
  <2> HIDE DEF n, req, alloc
  <2> QED
    BY <2>1, <2>2, <2>3, RequestKept DEF ClassAt, req
<1> QED
  BY <1>5, <1>6

(* The registered status covers what the queue holds a cycle later.        *)
LEMMA StatusStep ==
  ASSUME RingInv, ClassesMatch, StatusCovers, NEW wb, NEW st, NEW in, NEW drained \in Drained,
         program' = program,
         ControlClock(wb, st, in, CommitWidth(wb, Flush, st)),
         MemoryClock(wb, drained, CommitWidth(wb, Flush, st))
  PROVE  /\ StatusCovers'
         /\ FullFlush \/ sq_committed_empty => sq_committed' = 0
         /\ FullFlush \/ (sq_committed_empty /\ CommitWidth(wb, Flush, st) = 0) => sq_committed_empty'
<1> DEFINE w == CommitWidth(wb, Flush, st)
<1>1. w \in 0 .. 2 /\ w <= Count
  BY RetireFacts
<1>2. /\ commit_q' = CASE FullFlush \/ w = 0 -> << >>
                       [] ~FullFlush /\ w = 1 -> << rob_pc[HeadIdx] >>
                       [] ~FullFlush /\ w = 2 -> << rob_pc[HeadIdx], rob_pc[HeadNextIdx] >>
      /\ sq_committed' = IF FullFlush THEN 0 ELSE sq_committed + StoresRetired - drained
      /\ sq_committed_empty' =
           \/ FullFlush
           \/ /\ sq_committed = 0 /\ StoresRetired = 0
              /\ \A i \in Committed(w) : rob_class[i] \notin StoreLike
  BY DEF ControlClock, MemoryClock
<1> HIDE DEF w
<1>3. NoStoreOnBus => StoresRetired = 0
  <2> SUFFICES ASSUME NoStoreOnBus PROVE StoresRetired = 0
    OBVIOUS
  <2>1. \A k \in DOMAIN Retired : ClassAt(Retired[k]) \notin StoreLike
    BY SMT DEF Retired, NoStoreOnBus
  <2>2. {k \in DOMAIN Retired : ClassAt(Retired[k]) \in StoreLike} = {}
    BY <2>1
  <2> QED
    BY <2>2, FS_EmptySet DEF StoresRetired
<1>4. sq_committed = 0 => drained = 0
  BY SMT DEF Drained
<1>5. FullFlush \/ (sq_committed = 0 /\ StoresRetired = 0) => sq_committed' = 0
  BY <1>2, <1>4, SMT
<1>6. FullFlush \/ sq_committed_empty => sq_committed' = 0
  BY <1>3, <1>5 DEF StatusCovers
<1>7. FullFlush \/ (sq_committed_empty /\ w = 0) => sq_committed_empty'
  BY <1>2, <1>3, SMT DEF StatusCovers, Committed
<1>8. ASSUME sq_committed_empty' PROVE NoStoreOnBus'
  <2>1. NoStoreOnBus' <=> \A k \in DOMAIN commit_q' :
                             program.code[commit_q'[k]].cls \notin StoreLike
    BY DEF NoStoreOnBus, ClassAt
  <2>2. CASE FullFlush \/ w = 0
    BY <1>2, <2>1, <2>2, SMT
  <2>3. CASE ~FullFlush /\ w # 0
    <3>1. \A i \in Committed(w) : rob_class[i] \notin StoreLike
      BY <1>2, <1>8, <2>3
    <3>2. /\ HeadIdx \in Committed(w) /\ (w = 2 => HeadNextIdx \in Committed(w))
          /\ HeadIdx \in rob_valid /\ (w = 2 => HeadNextIdx \in rob_valid)
      <4>1. HeadIdx \in Committed(w) /\ (w = 2 => HeadNextIdx \in Committed(w))
        BY <1>1, <2>3, SMT DEF Committed, RingInv, MasksFollowHead
      <4>2. HeadIdx \in Tag /\ HeadNextIdx \in Tag /\ Count \in Int
        BY CountFacts, SMT DEF RingInv
      <4> QED
        BY <1>1, <2>3, <4>1, <4>2, HeadAges, SMT DEF RingInv, ValidIsWindow
    <3>3. /\ program.code[rob_pc[HeadIdx]].cls \notin StoreLike
          /\ w = 2 => program.code[rob_pc[HeadNextIdx]].cls \notin StoreLike
      BY <3>1, <3>2 DEF ClassesMatch, ClassAt
    <3>4. CASE w = 1
      <4>1. commit_q' = << rob_pc[HeadIdx] >>
        BY <1>2, <2>3, <3>4, SMT
      <4> QED
        BY <2>1, <3>3, <4>1, SMT
    <3>5. CASE w = 2
      <4>1. commit_q' = << rob_pc[HeadIdx], rob_pc[HeadNextIdx] >>
        BY <1>2, <2>3, <3>5, SMT
      <4> QED
        BY <2>1, <3>3, <3>5, <4>1, SMT
    <3> QED
      BY <1>1, <2>3, <3>4, <3>5, SMT
  <2> QED
    BY <2>2, <2>3
<1>9. StatusCovers'
  BY <1>2, <1>5, <1>8 DEF StatusCovers
<1> QED
  BY <1>6, <1>7, <1>9 DEF w

(* Reset establishes the invariant.                                        *)
LEMMA InitDrain == Init => DrainInv
<1> SUFFICES ASSUME Init PROVE DrainInv
  OBVIOUS
<1>1. RobInit /\ TrapInit(0)
  BY DEF Init
<1>2. RingInv
  BY <1>1, RingReset
<1>3. rob_valid = {} /\ serial_state = "IDLE" /\ ~fence_i_committed
  BY <1>1 DEF RobInit
<1>4. ~trap_taken_prev /\ ~mret_taken_prev
  BY <1>1 DEF TrapInit
<1>5. commit_q = << >> /\ sq_committed = 0 /\ ~mispredict_recovery_pending
      /\ mispredict_recovery_pending \in BOOLEAN
  BY DEF Init
<1>6. NoStoreOnBus
  BY <1>5, SMT DEF NoStoreOnBus
<1> QED
  BY <1>2, <1>3, <1>4, <1>5, <1>6
     DEF DrainInv, ClassesMatch, SerialHead, SerialStates, RecoveryIsIdle, StatusCovers,
         SyncIsDrained, FlushIsDrained

(* A clock cycle preserves it.                                             *)
LEMMA CycleDrain ==
  ASSUME DrainInv, NEW bundle \in Bundles, NEW wb, NEW sync_done, NEW drained \in Drained,
         Cycle(bundle, wb, sync_done, drained)
  PROVE  DrainInv'
<1> DEFINE st  == Status(sync_done)
           in  == TrapInputs(wb, st)
           w   == CommitWidth(wb, Flush, st)
           req == Request(bundle)
<1>1. /\ Clock(req, wb, Flush, st) /\ TrapClock(in)
      /\ FrontEndClock(bundle, Allocated(AllocWidth(req, Flush)), wb)
      /\ RecoveryClock(wb, st, in) /\ ControlClock(wb, st, in, w)
      /\ MemoryClock(wb, drained, w)
  BY DEF Cycle
<1>2. st.sq_empty = sq_committed_empty /\ in.sq_empty = sq_committed_empty
  BY DEF Status, TrapInputs
<1> HIDE DEF st, in, w, req
<1>3. /\ RingInv /\ ClassesMatch /\ SerialHead /\ RecoveryIsIdle
      /\ StatusCovers /\ SyncIsDrained /\ FlushIsDrained
  BY DEF DrainInv
<1>4. RingInv'
  BY <1>1, <1>3, FlushKept, RequestKept, RingClock DEF req
<1>5. ClassesMatch'
  BY <1>1, <1>3, ClassesStep DEF req
<1>6. SerialHead' /\ (serial_state' # "IDLE" => ~Flush.all /\ w = 0)
  <2>1. Flush.after_head => serial_state = "IDLE"
    BY <1>3 DEF RecoveryIsIdle, Flush
  <2> QED
    BY <1>1, <1>3, <2>1, FlushKept, RequestKept, SerialHeadStep DEF req, w
<1>7. /\ StatusCovers'
      /\ FullFlush \/ sq_committed_empty => sq_committed' = 0
      /\ FullFlush \/ (sq_committed_empty /\ w = 0) => sq_committed_empty'
  BY <1>1, <1>3, StatusStep DEF w, FrontEndClock
<1>8. RecoveryIsIdle'
  <2>1. mispredict_recovery_pending' = (~FullFlush /\ CommitMispredictionRaw(wb, Flush, st))
    BY <1>1 DEF RecoveryClock
  <2>2. CommitMispredictionRaw(wb, Flush, st) => w # 0
    BY SMT DEF CommitMispredictionRaw, CommitWidth, w
  <2> QED
    BY <1>6, <2>1, <2>2 DEF RecoveryIsIdle
<1>9. SyncIsDrained'
  <2> SUFFICES ASSUME serial_state' = "FENCE_I_SYNC" PROVE sq_committed_empty'
    BY DEF SyncIsDrained
  <2>1. ~Flush.all /\ w = 0 /\ SerialStateNext(wb, Flush, st) = "FENCE_I_SYNC"
    BY <1>1, <1>6 DEF Clock
  <2>2. sq_committed_empty
    <3>1. CASE serial_state = "FENCE_I_SYNC"
      BY <1>3, <3>1 DEF SyncIsDrained
    <3>2. CASE serial_state = "WAIT_SQ"
      BY <1>2, <2>1, <3>2 DEF SerialStateNext
    <3>3. CASE serial_state = "IDLE"
      <4>1. SerialEntry(st) = "FENCE_I_SYNC"
        BY <2>1, <3>3 DEF SerialStateNext
      <4>2. st.sq_empty
        BY <4>1 DEF SerialEntry
      <4> QED
        BY <1>2, <4>2
    <3>4. CASE serial_state \in {"CSR_EXEC", "MRET_EXEC", "WFI_WAIT", "TRAP_WAIT"}
      BY <2>1, <3>4 DEF SerialStateNext
    <3> QED
      BY <1>3, <3>1, <3>2, <3>3, <3>4 DEF SerialHead, SerialStates
  <2> QED
    BY <1>7, <2>1, <2>2
<1>10. FlushIsDrained'
  <2>1. trap_taken_prev' \/ mret_taken_prev' => sq_committed_empty
    BY <1>1, <1>2 DEF TrapClock, TakeTrap, TakeMret
  <2>2. fence_i_committed' => sq_committed_empty
    <3>1. fence_i_committed' => w >= 1 /\ HeadIs({"fence_i"})
      BY <1>1 DEF Clock, w
    <3> QED
      BY <1>3, <3>1, HeadOnly, SerialRetires, SMT DEF SyncIsDrained, w
  <2> QED
    BY <1>7, <2>1, <2>2 DEF FlushIsDrained
<1> QED
  BY <1>4, <1>5, <1>6, <1>7, <1>8, <1>9, <1>10 DEF DrainInv

(* Every step, a stutter included, preserves it.                           *)
LEMMA StepDrain == DrainInv /\ [Next]_vars => DrainInv'
<1> SUFFICES ASSUME DrainInv, [Next]_vars PROVE DrainInv'
  OBVIOUS
<1>1. CASE Next
  <2>1. PICK bundle \in Bundles, wb \in Results, sync_done \in SyncDone, drained \in Drained :
          Cycle(bundle, wb, sync_done, drained)
    BY <1>1 DEF Next, Step
  <2> QED
    BY <2>1, CycleDrain
<1>2. CASE UNCHANGED vars
  <2>1. RingInv'
    BY <1>2, RingStutter DEF vars, DrainInv
  <2> QED
    BY <1>2, <2>1
       DEF vars, robVars, trapVars, feVars, recVars, ctlVars, memVars, DrainInv, ClassesMatch,
           ClassAt, SerialHead, HeadIdx, RecoveryIsIdle, StatusCovers, NoStoreOnBus,
           SyncIsDrained, FlushIsDrained
<1> QED
  BY <1>1, <1>2

(* The invariant holds in every reachable state.                           *)
THEOREM DrainCorrect == Spec => []DrainInv
<1> QED
  BY InitDrain, StepDrain, PTL DEF Spec

(* A full flush, by a trap, a return or FENCE.I, finds no committed store  *)
(* in the queue it wipes: whatever the program, no store is lost.          *)
THEOREM NoStoreLost == Spec => []NoCommittedStoreLost
<1>1. DrainInv => NoCommittedStoreLost
  BY DEF DrainInv, FlushIsDrained, NoCommittedStoreLost, FullFlush
<1> QED
  BY <1>1, DrainCorrect, PTL

-----------------------------------------------------------------------------
(* No flush clips the memory write of an atomic.  The atomic writes while  *)
(* it is the unfinished head, so nothing retires that could flush it, and  *)
(* the shield, registered since it was launched, defers interrupts         *)
(* (AmoShielded).  The trap unit's latched exception is the other way to a *)
(* trap and is not shielded: it always belongs to a finished head, or the  *)
(* buffer is empty (PendingIsHeads).                                       *)

(* A recorded fault belongs to a finished instruction.                     *)
FaultsAreDone == rob_valid \cap rob_exception \subseteq rob_done

HeadFaults ==
  /\ HeadIdx \in rob_valid \cap rob_done
  /\ HeadIdx \in rob_exception \/ (priv_user /\ rob_class[HeadIdx] \in NeedsMPriv)

TrapWaits == serial_state = "TRAP_WAIT" => HeadFaults \/ trap_taken_prev

PendingIsHeads ==
  exception_pending => /\ HeadFaults \/ (rob_valid = {} /\ sq_committed_empty)
                       /\ ~mispredict_recovery_pending

AmoAtHead == HeadIdx \in rob_valid \ rob_done /\ rob_class[HeadIdx] = "amo"

AmoShielded ==
  /\ amo_state \in {"idle", "read", "write", "written"}
  /\ amo_state # "idle" => /\ AmoAtHead /\ amo_at_head_shield_q
                           /\ ~mispredict_recovery_pending /\ ~fence_i_committed
  /\ amo_state \in {"write", "written"} => ~trap_taken_prev /\ ~mret_taken_prev

AmoInv == DrainInv /\ FaultsAreDone /\ TrapWaits /\ PendingIsHeads /\ AmoShielded

(* Results arrive for unfinished instructions of the right classes.        *)
LEMMA ResultFacts ==
  ASSUME NEW wb \in Results
  PROVE  /\ wb.early = {}
         /\ \A w \in wb.cdb \cup wb.store \cup wb.branch : w.tag \in rob_valid \ rob_done
         /\ \A w \in wb.store : rob_class[w.tag] = "store"
         /\ \A w \in wb.branch : rob_class[w.tag] = "jalr"
<1>1. CASE wb = NoResult
  BY <1>1 DEF NoResult
<1>2. CASE \E t \in Waiting({"int"} \cup CsrClasses)
                      \cup (IF amo_state = "written" THEN Waiting({"amo"}) \cap {HeadIdx} ELSE {}) :
             wb = [NoResult EXCEPT !.cdb =
                     {[tag |-> t, exception |-> program.code[rob_pc[t]].fault # "none"]}]
  <2>1. PICK t \in rob_valid \ rob_done :
          wb = [NoResult EXCEPT !.cdb =
                  {[tag |-> t, exception |-> program.code[rob_pc[t]].fault # "none"]}]
    BY <1>2 DEF Waiting
  <2> DEFINE e == program.code[rob_pc[t]].fault # "none"
  <2>2. wb = [NoResult EXCEPT !.cdb = {[tag |-> t, exception |-> e]}]
    BY <2>1
  <2> HIDE DEF e
  <2> QED
    BY <2>2, SMT DEF NoResult
<1>3. CASE \E t \in Waiting({"store"}) : wb = [NoResult EXCEPT !.store = {[tag |-> t]}]
  BY <1>3, SMT DEF Waiting, NoResult
<1>4. CASE \E t \in Waiting({"jalr"}) :
             wb = [NoResult EXCEPT !.branch = {[tag |-> t, mispredicted |-> Mispredicts(rob_pc[t])]}]
  <2>1. PICK t \in Waiting({"jalr"}) :
          wb = [NoResult EXCEPT !.branch = {[tag |-> t, mispredicted |-> Mispredicts(rob_pc[t])]}]
    BY <1>4
  <2> DEFINE e == Mispredicts(rob_pc[t])
  <2>2. wb = [NoResult EXCEPT !.branch = {[tag |-> t, mispredicted |-> e]}]
    BY <2>1
  <2> HIDE DEF e
  <2> QED
    BY <2>2, SMT DEF NoResult, Waiting
<1> QED
  BY <1>1, <1>2, <1>3, <1>4 DEF Results

(* An unflushed head that does not retire stays as it is, but for the      *)
(* result that arrives for it.                                             *)
LEMMA HeadStays ==
  ASSUME RingInv, NEW fl, NEW req, FlushContract(fl), RequestContract(req, fl), NEW wb, NEW st,
         Clock(req, wb, fl, st), CommitWidth(wb, fl, st) = 0, ~fl.all, ~fl.en,
         HeadIdx \in rob_valid
  PROVE  /\ HeadIdx' = HeadIdx /\ HeadIdx \in rob_valid'
         /\ rob_class'[HeadIdx] = rob_class[HeadIdx]
         /\ HeadIdx \in rob_done => HeadIdx \in rob_done'
         /\ HeadIdx \in rob_done' =>
              \/ HeadIdx \in rob_done
              \/ \E w \in wb.cdb \cup wb.store \cup wb.branch : w.tag = HeadIdx
         /\ HeadIdx \in rob_exception /\ (\A w \in wb.cdb : w.tag # HeadIdx) =>
              HeadIdx \in rob_exception'
<1> DEFINE alloc == Allocated(AllocWidth(req, fl))
<1>1. HeadIdx \notin alloc /\ HeadIdx \in Tag
  BY LiveNotAllocated, CountFacts DEF RingInv
<1>2. /\ head_ptr' = PtrAdd(head_ptr, 0)
      /\ rob_valid' = NextValid(fl, alloc, Committed(0))
      /\ rob_done' = NextDone(req, wb, fl, alloc)
      /\ rob_exception' = NextException(wb, fl, alloc)
      /\ rob_class' = NextClass(req, alloc)
  BY DEF Clock
<1> HIDE DEF alloc
<1>3. HeadIdx' = HeadIdx
  BY <1>2, DepthAssumption, SMT DEF RingInv, Ptr, PtrAdd, HeadIdx
<1>4. HeadIdx \in rob_valid'
  BY <1>1, <1>2, SMT DEF NextValid, Flushed, Committed
<1>5. rob_class'[HeadIdx] = rob_class[HeadIdx]
  BY <1>1, <1>2 DEF NextClass
<1>6. HeadIdx \in rob_done => HeadIdx \in rob_done'
  BY <1>1, <1>2 DEF NextDone
<1>7. HeadIdx \in rob_done' =>
        \/ HeadIdx \in rob_done
        \/ \E w \in wb.cdb \cup wb.store \cup wb.branch : w.tag = HeadIdx
  BY <1>1, <1>2 DEF NextDone, AllocatedAs, TagsOf, Live
<1>8. HeadIdx \in rob_exception /\ (\A w \in wb.cdb : w.tag # HeadIdx) => HeadIdx \in rob_exception'
  BY <1>1, <1>2 DEF NextException, TagsOf, Live
<1> QED
  BY <1>3, <1>4, <1>5, <1>6, <1>7, <1>8

(* What the head's exception signal is here: a recorded fault, or an       *)
(* instruction that user mode may not execute.                             *)
LEMMA HeadExceptionIs ==
  ASSUME RingInv, NEW sync_done
  PROVE  HeadException(Status(sync_done)) <=>
           HeadIdx \in rob_exception \/ (priv_user /\ rob_class[HeadIdx] \in NeedsMPriv)
<1>1. Status(sync_done).user = priv_user /\ Status(sync_done).counteren
  BY DEF Status
<1> QED
  BY <1>1, HeadOnly DEF HeadException

(* A fault is recorded together with the completion.                       *)
LEMMA FaultsStep ==
  ASSUME FaultsAreDone, NEW fl, NEW req, NEW wb, NEW st, Clock(req, wb, fl, st)
  PROVE  FaultsAreDone'
<1> DEFINE alloc   == Allocated(AllocWidth(req, fl))
           arrived == TagsOf(Live(wb.cdb, fl))
<1>1. /\ rob_valid' \subseteq rob_valid \cup alloc
      /\ rob_done' = NextDone(req, wb, fl, alloc)
      /\ rob_exception' = NextException(wb, fl, alloc)
  BY DEF Clock, NextValid
<1>2. rob_exception' \subseteq (rob_exception \ alloc) \cup arrived
  BY <1>1 DEF NextException, TagsOf
<1>3. arrived \subseteq rob_done' /\ rob_done \ alloc \subseteq rob_done'
  BY <1>1 DEF NextDone, TagsOf, Live
<1> HIDE DEF alloc, arrived
<1> QED
  BY <1>1, <1>2, <1>3 DEF FaultsAreDone

(* A faulting head retires nothing and returns from nothing.               *)
LEMMA FaultHolds ==
  ASSUME RingInv, HeadFaults, NEW wb, NEW fl, NEW sync_done
  PROVE  CommitWidth(wb, fl, Status(sync_done)) = 0 /\ ~MretStart(wb, Status(sync_done))
BY HeadExceptionIs DEF HeadFaults, CommitWidth, CommitEn, CommitReadyEarly, MretStart

(* An exception the buffer reports is its head's.                          *)
LEMMA ReportedFault ==
  ASSUME RingInv, FaultsAreDone, TrapWaits, RecoveryIsIdle, ~trap_taken_prev,
         NEW wb, NEW sync_done, TrapPending(wb, Status(sync_done))
  PROVE  HeadFaults /\ ~mispredict_recovery_pending
<1> DEFINE st == Status(sync_done)
<1>1. CASE serial_state = "TRAP_WAIT"
  BY <1>1 DEF TrapWaits, RecoveryIsIdle
<1>2. CASE HeadReady(wb) /\ ~st.hold /\ HeadException(st)
  <2>1. st.hold = CommitHold
    BY DEF Status
  <2>2. ~mispredict_recovery_pending
    <3>1. mispredict_recovery_pending => CommitHold
      BY DEF CommitHold
    <3> QED
      BY <1>2, <2>1, <3>1
  <2>3. HeadIdx \in rob_exception \/ (priv_user /\ rob_class[HeadIdx] \in NeedsMPriv)
    BY <1>2, HeadExceptionIs
  <2>4. HeadIdx \in rob_valid /\ (HeadIdx \in rob_done \/ rob_class[HeadIdx] \in CdbBypassOk)
    BY <1>2, HeadOnly DEF HeadReady
  <2>5. HeadIdx \in rob_done
    BY <2>3, <2>4 DEF FaultsAreDone, NeedsMPriv, CdbBypassOk, SerialClasses, CsrClasses
  <2> QED
    BY <2>2, <2>3, <2>4, <2>5 DEF HeadFaults
<1> QED
  BY <1>1, <1>2 DEF TrapPending

(* The parts of a cycle that the atomic argument looks at.                 *)
LEMMA AmoParts ==
  ASSUME NEW bundle, NEW wb, NEW sync_done, NEW drained,
         Cycle(bundle, wb, sync_done, drained)
  PROVE  LET st == Status(sync_done)
             in == TrapInputs(wb, st)
         IN /\ Clock(Request(bundle), wb, Flush, st)
            /\ trap_taken_prev' <=> TakeTrap(in)
            /\ mret_taken_prev' <=> TakeMret(in)
            /\ exception_pending' <=> NextExceptionPending(in)
            /\ mispredict_recovery_pending' <=> ~FullFlush /\ CommitMispredictionRaw(wb, Flush, st)
            /\ FullFlush => sq_committed_empty'
            /\ amo_at_head_shield_q' <=> HeadIs({"amo"}) /\ HeadIdx \in rob_valid
            /\ amo_state' \in AmoNext(wb)
            /\ CsrClock(st, in)
<1> DEFINE st == Status(sync_done)
           in == TrapInputs(wb, st)
           w  == CommitWidth(wb, Flush, st)
<1>1. /\ Clock(Request(bundle), wb, Flush, st) /\ TrapClock(in)
      /\ RecoveryClock(wb, st, in) /\ ControlClock(wb, st, in, w)
      /\ CsrClock(st, in) /\ MemoryClock(wb, drained, w)
  BY DEF Cycle
<1> HIDE DEF st, in, w
<1>2. /\ trap_taken_prev' <=> TakeTrap(in)
      /\ mret_taken_prev' <=> TakeMret(in)
      /\ exception_pending' <=> NextExceptionPending(in)
  BY <1>1 DEF TrapClock
<1>3. mispredict_recovery_pending' <=> ~FullFlush /\ CommitMispredictionRaw(wb, Flush, st)
  BY <1>1 DEF RecoveryClock
<1>4. FullFlush => sq_committed_empty'
  BY <1>1 DEF MemoryClock
<1>5. amo_at_head_shield_q' <=> HeadIs({"amo"}) /\ HeadIdx \in rob_valid
  BY <1>1 DEF ControlClock
<1>6. amo_state' \in AmoNext(wb)
  BY <1>1 DEF MemoryClock
<1> QED
  BY <1>1, <1>2, <1>3, <1>4, <1>5, <1>6 DEF st, in

(* What the trap unit is told.                                             *)
LEMMA InputsAre ==
  ASSUME NEW wb, NEW st
  PROVE  /\ TrapInputs(wb, st).exception_valid <=> TrapPending(wb, st)
         /\ TrapInputs(wb, st).mret_start <=> MretStart(wb, st)
         /\ TrapInputs(wb, st).sq_empty <=> sq_committed_empty
         /\ TrapInputs(wb, st).amo_at_head <=> amo_at_head_shield_q
<1> DEFINE e == TrapPending(wb, st)
           m == MretStart(wb, st)
           g == GloballyEnabled(mstatus_mie, priv_user)
<1>1. TrapInputs(wb, st) =
        [irq |-> i_interrupts, mie |-> mie, enabled |-> g, sq_empty |-> sq_committed_empty,
         amo_at_head |-> amo_at_head_shield_q, exception_valid |-> e,
         exception_pc |-> rob_pc[HeadIdx], mret_start |-> m]
  BY DEF TrapInputs
<1> HIDE DEF e, m, g
<1>2. /\ TrapInputs(wb, st).exception_valid = e /\ TrapInputs(wb, st).mret_start = m
      /\ TrapInputs(wb, st).sq_empty = sq_committed_empty
      /\ TrapInputs(wb, st).amo_at_head = amo_at_head_shield_q
  BY <1>1, SMT
<1> QED
  BY <1>2 DEF e, m

(* Only a trap or a return changes the mode.                               *)
LEMMA CsrKeepsMode ==
  ASSUME NEW st, NEW in, CsrClock(st, in), ~TakeTrap(in), ~TakeMret(in)
  PROVE  priv_user' = priv_user
BY DEF CsrClock, csrVars

(* The fields of the flush command.                                        *)
LEMMA FlushIs ==
  /\ Flush.all <=> FullFlush
  /\ Flush.en <=> mispredict_recovery_pending /\ ~trap_taken_prev /\ ~mret_taken_prev
  /\ Flush.after_head <=> mispredict_recovery_pending
<1> DEFINE a == FullFlush
           e == mispredict_recovery_pending /\ ~trap_taken_prev /\ ~mret_taken_prev
<1>1. Flush = [all |-> a, en |-> e, after_head |-> mispredict_recovery_pending, tag |-> 0]
  BY DEF Flush
<1> HIDE DEF a, e
<1>2. Flush.all = a /\ Flush.en = e /\ Flush.after_head = mispredict_recovery_pending
  BY <1>1
<1> QED
  BY <1>2 DEF a, e

(* A faulting head goes on faulting until its trap or a flush.             *)
LEMMA FaultKept ==
  ASSUME RingInv, RecoveryIsIdle, HeadFaults, ~FullFlush, ~mispredict_recovery_pending,
         NEW bundle \in Bundles, NEW wb \in Results, NEW sync_done, NEW drained,
         Cycle(bundle, wb, sync_done, drained), ~TakeTrap(TrapInputs(wb, Status(sync_done)))
  PROVE  HeadFaults'
<1> DEFINE st == Status(sync_done)
           in == TrapInputs(wb, st)
<1>1. CommitWidth(wb, Flush, st) = 0 /\ ~MretStart(wb, st)
  BY FaultHolds
<1>2. ~TakeMret(in)
  BY <1>1, InputsAre DEF TakeMret
<1>3. priv_user' = priv_user
  <2>1. CsrClock(st, in)
    BY AmoParts
  <2> QED
    BY <1>2, <2>1, CsrKeepsMode
<1>4. ~Flush.all /\ ~Flush.en
  BY FlushIs
<1>5. HeadIdx \in rob_valid \cap rob_done /\ \A w \in wb.cdb : w.tag # HeadIdx
  BY ResultFacts DEF HeadFaults
<1>6. Clock(Request(bundle), wb, Flush, st)
  BY AmoParts
<1>7. /\ HeadIdx' = HeadIdx /\ HeadIdx \in rob_valid' /\ HeadIdx \in rob_done'
      /\ rob_class'[HeadIdx] = rob_class[HeadIdx]
      /\ HeadIdx \in rob_exception => HeadIdx \in rob_exception'
  <2> HIDE DEF st
  <2> QED
    BY <1>1, <1>4, <1>5, <1>6, HeadStays, FlushKept, RequestKept
<1> QED
  BY <1>3, <1>7 DEF HeadFaults

(* Nothing retires: no misprediction is recovered and no FENCE.I flushes.  *)
LEMMA NoCommitNoFlush ==
  ASSUME NEW bundle, NEW wb, NEW sync_done, NEW drained,
         Cycle(bundle, wb, sync_done, drained),
         CommitWidth(wb, Flush, Status(sync_done)) = 0
  PROVE  ~mispredict_recovery_pending' /\ ~fence_i_committed'
<1> DEFINE st == Status(sync_done)
<1>1. ~CommitEn(wb, Flush, st)
  BY SMT DEF CommitWidth
<1>2. mispredict_recovery_pending' <=> ~FullFlush /\ CommitMispredictionRaw(wb, Flush, st)
  BY AmoParts
<1>3. ~mispredict_recovery_pending'
  BY <1>1, <1>2 DEF CommitMispredictionRaw
<1>4. Clock(Request(bundle), wb, Flush, st)
  BY AmoParts
<1>5. fence_i_committed' = (CommitWidth(wb, Flush, st) >= 1 /\ HeadIs({"fence_i"}))
  BY <1>4 DEF Clock
<1>6. ~(CommitWidth(wb, Flush, st) >= 1)
  BY SMT
<1> QED
  BY <1>3, <1>5, <1>6

(* The serializer waits for a trap only at a faulting head.                *)
LEMMA TrapWaitsStep ==
  ASSUME AmoInv, NEW bundle \in Bundles, NEW wb \in Results, NEW sync_done, NEW drained,
         Cycle(bundle, wb, sync_done, drained)
  PROVE  TrapWaits'
<1> DEFINE st == Status(sync_done)
           in == TrapInputs(wb, st)
<1> SUFFICES ASSUME serial_state' = "TRAP_WAIT", ~trap_taken_prev' PROVE HeadFaults'
  BY DEF TrapWaits
<1>1. /\ RingInv /\ SerialHead /\ RecoveryIsIdle /\ FaultsAreDone /\ TrapWaits
  BY DEF AmoInv, DrainInv
<1>2. Clock(Request(bundle), wb, Flush, st)
  BY AmoParts
<1>3. ~Flush.all /\ SerialStateNext(wb, Flush, st) = "TRAP_WAIT"
  <2>1. Flush.after_head => serial_state = "IDLE"
    BY <1>1 DEF RecoveryIsIdle, Flush
  <2> HIDE DEF st
  <2> QED
    BY <1>1, <1>2, <2>1, FlushKept, RequestKept, SerialHeadStep
<1>4. ~FullFlush /\ ~trap_taken_prev
  BY <1>3, FlushIs DEF FullFlush
<1>5. TrapPending(wb, st)
  <2>1. CASE serial_state = "TRAP_WAIT"
    BY <2>1 DEF TrapPending
  <2>2. CASE serial_state = "IDLE"
    <3>1. HeadEnters(wb, Flush, st) /\ SerialEntry(st) = "TRAP_WAIT"
      BY <1>3, <2>2 DEF SerialStateNext
    <3>2. HeadException(st)
      BY <3>1 DEF SerialEntry
    <3> QED
      BY <3>1, <3>2, ResultFacts DEF HeadEnters, TrapPending
  <2>3. CASE serial_state \in SerialStates \ {"IDLE", "TRAP_WAIT"}
    BY <1>3, <2>3 DEF SerialStateNext, SerialStates
  <2> QED
    BY <1>1, <2>1, <2>2, <2>3 DEF SerialHead
<1>6. HeadFaults /\ ~mispredict_recovery_pending
  BY <1>1, <1>4, <1>5, ReportedFault
<1>7. ~TakeTrap(in)
  BY AmoParts
<1> QED
  BY <1>1, <1>4, <1>6, <1>7, FaultKept

(* A latched exception is the head's, or a flush has just emptied the      *)
(* buffer and the store queue, and its trap is taken at once.              *)
LEMMA PendingStep ==
  ASSUME AmoInv, NEW bundle \in Bundles, NEW wb \in Results, NEW sync_done, NEW drained,
         Cycle(bundle, wb, sync_done, drained)
  PROVE  PendingIsHeads'
<1> DEFINE st == Status(sync_done)
           in == TrapInputs(wb, st)
<1> SUFFICES ASSUME exception_pending'
             PROVE  /\ HeadFaults' \/ (rob_valid' = {} /\ sq_committed_empty')
                    /\ ~mispredict_recovery_pending'
  BY DEF PendingIsHeads
<1>1. RingInv /\ RecoveryIsIdle /\ FaultsAreDone /\ TrapWaits /\ PendingIsHeads
  BY DEF AmoInv, DrainInv
<1>2. NextExceptionPending(in)
  BY AmoParts
<1>3. ~TakeTrap(in) /\ ~trap_taken_prev /\ (in.exception_valid \/ exception_pending)
  BY <1>2 DEF NextExceptionPending
<1>4. HeadFaults /\ ~mispredict_recovery_pending
  <2>1. CASE in.exception_valid
    <3>1. TrapPending(wb, st)
      BY <2>1, InputsAre
    <3> QED
      BY <1>1, <1>3, <3>1, ReportedFault
  <2>2. CASE exception_pending
    <3>1. ~sq_committed_empty
      BY <1>3, <2>2, InputsAre DEF TakeTrap
    <3> QED
      BY <1>1, <2>2, <3>1 DEF PendingIsHeads
  <2> QED
    BY <1>3, <2>1, <2>2
<1>5. ~mispredict_recovery_pending'
  BY <1>1, <1>4, FaultHolds, NoCommitNoFlush
<1>6. CASE FullFlush
  <2>1. sq_committed_empty'
    BY <1>6, AmoParts
  <2>2. Clock(Request(bundle), wb, Flush, st) /\ Flush.all
    BY <1>6, AmoParts, FlushIs
  <2>3. rob_valid \subseteq Tag /\ Flushed(Flush) = Tag
    BY <1>1, <2>2 DEF RingInv, ValidIsWindow, Flushed
  <2>4. AllocWidth(Request(bundle), Flush) = 0
    BY <2>2 DEF AllocWidth, AllocEn
  <2>5. rob_valid' = {}
    BY <2>2, <2>3, <2>4, SMT DEF Clock, NextValid, Allocated
  <2> QED
    BY <1>5, <2>1, <2>5
<1>7. CASE ~FullFlush
  BY <1>1, <1>3, <1>4, <1>5, <1>7, FaultKept
<1> QED
  BY <1>6, <1>7

(* An atomic that has launched stays the unfinished head, shielded.        *)
LEMMA ShieldStep ==
  ASSUME AmoInv, NEW bundle \in Bundles, NEW wb \in Results, NEW sync_done, NEW drained,
         Cycle(bundle, wb, sync_done, drained)
  PROVE  AmoShielded'
<1> DEFINE st == Status(sync_done)
           in == TrapInputs(wb, st)
<1>1. RingInv /\ RecoveryIsIdle /\ PendingIsHeads /\ AmoShielded
  BY DEF AmoInv, DrainInv
<1>2. amo_state' \in AmoNext(wb)
  BY AmoParts
<1>3. CASE amo_state' = "idle"
  BY <1>3 DEF AmoShielded
<1>4. CASE amo_state' # "idle"
  <2>1. /\ ~FullFlush /\ ~Flush.en /\ HeadIdx \notin TagsOf(wb.cdb)
        /\ amo_state' = amo_state \/
             \/ amo_state = "idle" /\ AmoWaits /\ amo_state' = "read"
             \/ amo_state = "read" /\ amo_state' = "write"
             \/ amo_state = "write" /\ amo_state' = "written"
    BY <1>1, <1>2, <1>4 DEF AmoNext, AmoShielded
  <2>2. AmoAtHead
    BY <1>1, <1>4, <2>1 DEF AmoShielded, AmoWaits, Waiting, AmoAtHead
  <2>3. \A w \in wb.cdb \cup wb.store \cup wb.branch : w.tag # HeadIdx
    BY <2>1, <2>2, ResultFacts DEF TagsOf, AmoAtHead
  <2>4. ~HeadReady(wb)
    BY <1>1, <2>2, <2>3, HeadOnly DEF HeadReady, CdbHit, AmoAtHead
  <2>5. CommitWidth(wb, Flush, st) = 0 /\ ~MretStart(wb, st)
    BY <2>4 DEF CommitWidth, CommitEn, CommitReadyEarly, MretStart
  <2>6. ~mispredict_recovery_pending' /\ ~fence_i_committed'
    BY <2>5, NoCommitNoFlush
  <2>7. AmoAtHead'
    <3>1. Clock(Request(bundle), wb, Flush, st)
      BY AmoParts
    <3>2. ~Flush.all /\ HeadIdx \in rob_valid
      BY <2>1, <2>2, FlushIs DEF AmoAtHead
    <3>3. /\ HeadIdx' = HeadIdx /\ HeadIdx \in rob_valid' /\ rob_class'[HeadIdx] = rob_class[HeadIdx]
          /\ HeadIdx \in rob_done' => HeadIdx \in rob_done
      <4> HIDE DEF st
      <4> QED
        BY <1>1, <2>1, <2>3, <2>5, <3>1, <3>2, HeadStays, FlushKept, RequestKept
    <3> QED
      BY <2>2, <3>3 DEF AmoAtHead
  <2>8. amo_at_head_shield_q'
    <3>1. HeadIs({"amo"}) /\ HeadIdx \in rob_valid
      BY <1>1, <2>2, HeadOnly DEF AmoAtHead
    <3> QED
      BY <3>1, AmoParts
  <2>9. ASSUME amo_state' \in {"write", "written"} PROVE ~trap_taken_prev' /\ ~mret_taken_prev'
    <3>1. amo_at_head_shield_q
      BY <1>1, <2>1, <2>9 DEF AmoShielded
    <3>2. ~exception_pending
      BY <1>1, <2>2 DEF PendingIsHeads, HeadFaults, AmoAtHead
    <3>3. ~TakeTrap(in) /\ ~TakeMret(in)
      BY <2>5, <3>1, <3>2, InputsAre DEF TakeTrap, TakeMret
    <3> QED
      BY <3>3, AmoParts
  <2>10. amo_state' \in {"idle", "read", "write", "written"}
    BY <1>1, <2>1 DEF AmoShielded
  <2> QED
    BY <2>6, <2>7, <2>8, <2>9, <2>10 DEF AmoShielded
<1> QED
  BY <1>3, <1>4

(* Reset establishes the invariant, and every step preserves it.           *)
LEMMA InitAmo == Init => AmoInv
<1> SUFFICES ASSUME Init PROVE AmoInv
  OBVIOUS
<1>1. DrainInv
  BY InitDrain
<1>2. rob_valid = {} /\ serial_state = "IDLE"
  BY DEF Init, RobInit
<1>3. ~exception_pending
  BY DEF Init, TrapInit
<1>4. amo_state = "idle"
  BY DEF Init
<1> QED
  BY <1>1, <1>2, <1>3, <1>4
     DEF AmoInv, FaultsAreDone, TrapWaits, PendingIsHeads, AmoShielded

LEMMA StepAmo == AmoInv /\ [Next]_vars => AmoInv'
<1> SUFFICES ASSUME AmoInv, [Next]_vars PROVE AmoInv'
  OBVIOUS
<1>1. DrainInv'
  BY StepDrain DEF AmoInv
<1>2. CASE Next
  <2>1. PICK bundle \in Bundles, wb \in Results, sync_done \in SyncDone, drained \in Drained :
          Cycle(bundle, wb, sync_done, drained)
    BY <1>2 DEF Next, Step
  <2>2. Clock(Request(bundle), wb, Flush, Status(sync_done))
    BY <2>1, AmoParts
  <2>3. FaultsAreDone'
    BY <2>2, FaultsStep DEF AmoInv
  <2>4. TrapWaits' /\ PendingIsHeads' /\ AmoShielded'
    BY <2>1, TrapWaitsStep, PendingStep, ShieldStep
  <2> QED
    BY <1>1, <2>3, <2>4 DEF AmoInv
<1>3. CASE UNCHANGED vars
  BY <1>1, <1>3
     DEF vars, robVars, trapVars, feVars, recVars, ctlVars, csrVars, memVars, AmoInv, FaultsAreDone,
         TrapWaits, PendingIsHeads, AmoShielded, HeadFaults, AmoAtHead, HeadIdx
<1> QED
  BY <1>2, <1>3

(* AmoInv holds in every reachable state.                                  *)
THEOREM AmoCorrect == Spec => []AmoInv
<1> QED
  BY InitAmo, StepAmo, PTL DEF Spec

(* No trap, return, FENCE.I or misprediction flushes an atomic whose       *)
(* memory write has begun: whatever the program and the interrupts, memory *)
(* never keeps the write of an atomic that did not retire.                 *)
THEOREM NoAmoWriteOrphaned == Spec => []NoOrphanedAmoWrite
<1>1. AmoInv => NoOrphanedAmoWrite
  BY FlushIs DEF AmoInv, AmoShielded, NoOrphanedAmoWrite, FullFlush
<1> QED
  BY <1>1, AmoCorrect, PTL

=============================================================================
