------------------------ MODULE BranchRecoveryProofs ------------------------
(***************************************************************************)
(* Proofs about misprediction recovery, for every depth of the reorder     *)
(* buffer, every number of checkpoints and every workload.                 *)
(***************************************************************************)
EXTENDS BranchRecovery, ReorderBufferLemmas

(* Steps are first-order unless they say otherwise: those that need        *)
(* arithmetic, or that reason about sets and functions by extension, say   *)
(* SMT.                                                                    *)
USE Zenon

-----------------------------------------------------------------------------
(* The invariant behind the input contract of the reorder buffer.          *)

(* What the early-recovery path knows of the branch it is recovering.      *)
RecoveringEarly(t) ==
  /\ t \in rob_valid /\ t \in rob_done /\ t \in rob_mispredicted /\ t \notin rob_early_recovered
  /\ rob_class[t] = "branch"

ContractTypes ==
  /\ early_mispredict_pending \in BOOLEAN /\ early_backend_recovery_pending \in BOOLEAN
  /\ mispredict_recovery_pending \in BOOLEAN /\ trap_taken_reg \in BOOLEAN
  /\ fence_i_committed \in BOOLEAN /\ pd_valid_q \in BOOLEAN
  /\ early_mispredict_tag \in Tag /\ early_backend_flush_tag \in Tag
  /\ mispredict_commit_q.tag \in Tag

(* The registers of the recovery path are a pipeline of three cycles that  *)
(* one branch at a time goes through.                                      *)
ContractInv ==
  /\ RingInv /\ ContractTypes
  /\ early_mispredict_pending =>
       RecoveringEarly(early_mispredict_tag) /\ ~early_backend_recovery_pending
  /\ early_backend_recovery_pending => early_backend_flush_tag \in rob_valid /\ ~pd_valid_q
  /\ fence_i_committed => ~early_backend_recovery_pending /\ ~mispredict_recovery_pending
  /\ rob_valid \cap rob_early_recovered \subseteq rob_done

-----------------------------------------------------------------------------
(* What the inputs of a cycle may be.                                      *)

EarlyMark == IF EarlyMispredictActive THEN {early_mispredict_tag} ELSE {}
Inputs(cdb, issue, mispredicted) ==
  [cdb |-> cdb, store |-> {}, branch |-> BranchUpdate(issue, mispredicted), early |-> EarlyMark]

(* The flush command and the bundle keep the contract of the ring.         *)
LEMMA ContractKept ==
  ASSUME ContractInv, NEW req \in Bundles
  PROVE  FlushContract(Flush) /\ RequestContract(req, Flush)
<1>1. FlushContract(Flush)
  BY DEF ContractInv, ContractTypes, FlushContract, Flush, FlushAll, FlushEn, FlushTag,
         fence_i_flush
<1>2. /\ req.slot1 # NoReq => /\ DispatchValid /\ ~dispatch_full_q /\ ~FullFlushSideEffectKill
      /\ req.slot2 # NoReq => req.slot1 # NoReq /\ ~dispatch_full_for_2_q
  BY DEF Bundles, LegalBundle
<1>3. DispatchValid /\ ~FullFlushSideEffectKill => ~Flush.all /\ ~Flush.en
  BY DEF ContractInv, ContractTypes, DispatchValid, FullFlushSideEffectKill, Flush, FlushAll,
         FlushEn, fence_i_flush
<1> QED
  BY <1>1, <1>2, <1>3 DEF RequestContract

(* A branch resolves that is live, unfinished and not being flushed.       *)
LEMMA UpdateFacts ==
  ASSUME NEW issue \in Issues, NEW mispredicted, NEW b \in BranchUpdate(issue, mispredicted)
  PROVE  /\ b.tag \in rob_valid /\ b.tag \notin rob_done /\ rob_class[b.tag] \in {"branch", "jalr"}
         /\ b.mispredicted = mispredicted
         /\ ~early_mispredict_pending /\ issue = {b.tag} /\ ~IssueIsFlushed(b.tag)
<1>1. PICK t \in issue : b = [tag |-> t, mispredicted |-> mispredicted] /\ ~IssueIsFlushed(t)
  BY DEF BranchUpdate
<1>2. ~early_mispredict_pending /\ \E u \in Waiting({"branch", "jalr"}) : issue = {u}
  BY DEF Issues
<1> QED
  BY <1>1, <1>2 DEF Waiting

(* At most one branch resolves.                                            *)
LEMMA OneUpdate ==
  ASSUME NEW issue \in Issues, NEW mispredicted,
         NEW b \in BranchUpdate(issue, mispredicted), NEW c \in BranchUpdate(issue, mispredicted)
  PROVE  b.tag = c.tag
BY UpdateFacts, SMT

(* No result on the bus is for a branch that has not resolved.             *)
LEMMA CdbNotBranch ==
  ASSUME NEW cdb \in CdbBundles(workload), NEW v \in cdb, v.tag \in rob_valid, v.tag \notin rob_done
  PROVE  rob_class[v.tag] \notin BranchClasses
<1>1. v \in CdbWrites(workload)
  BY DEF CdbBundles
<1>2. v.tag \in Waiting(CsrClasses \cup AtomicClasses \cup {"int"})
        \/ v.tag \in Waiting({"store"})
  <2> DEFINE A == Waiting(CsrClasses \cup AtomicClasses \cup {"int"})
             B == Waiting({"store"})
             C == {t \in rob_valid \cap rob_done : rob_class[t] = "jalr"}
             D == {TailIdx} \ rob_valid
             E == workload.faults
             F == workload.faults \ {FALSE}
             G == {FALSE}
  <2>1. v.tag \notin C /\ v.tag \notin D
    OBVIOUS
  <2>2. v \in [tag : A, exception : E] \cup [tag : B, exception : F]
          \cup [tag : C, exception : G] \cup [tag : D, exception : G]
    BY <1>1 DEF CdbWrites
  <2> HIDE DEF A, B, C, D, E, F, G
  <2>3. v.tag \in A \/ v.tag \in B
    BY <2>1, <2>2
  <2> QED
    BY <2>3 DEF A, B
<1> QED
  BY <1>2 DEF Waiting, CsrClasses, AtomicClasses, BranchClasses

(* A branch that has not resolved does not retire.                         *)
LEMMA UnresolvedStays ==
  ASSUME RingInv, NEW cdb \in CdbBundles(workload), NEW wb, wb.cdb = cdb, NEW fl, NEW st,
         NEW t \in rob_valid \ rob_done, rob_class[t] \in BranchClasses
  PROVE  t \notin Committed(CommitWidth(wb, fl, st))
<1>1. ~CdbHit(wb, t)
  BY CdbNotBranch DEF CdbHit
<1>2. head_clear_mask = {HeadIdx} /\ head_next_clear_mask = {HeadNextIdx}
  BY DEF RingInv, MasksFollowHead
<1>3. CommitWidth(wb, fl, st) >= 1 => t # HeadIdx
  <2>1. CommitWidth(wb, fl, st) >= 1 => HeadReady(wb)
    BY SMT DEF CommitWidth, CommitEn, CommitReadyEarly
  <2> QED
    BY <1>1, <1>2, <2>1 DEF HeadReady, OnehotRead
<1>4. CommitWidth(wb, fl, st) = 2 => t # HeadNextIdx
  <2>1. CommitWidth(wb, fl, st) = 2 => HeadNextReady(wb)
    BY SMT DEF CommitWidth, Commit2Ready
  <2> QED
    BY <1>1, <1>2, <2>1 DEF HeadNextReady, OnehotRead
<1> QED
  BY <1>2, <1>3, <1>4 DEF Committed

(* What a cycle does to the registers, without its LET.                    *)
LEMMA CycleParts ==
  ASSUME NEW req, NEW cdb, NEW issue, NEW mispredicted, NEW st, NEW trap,
         Cycle(req, cdb, issue, mispredicted, st, trap)
  PROVE  /\ Clock(req, Inputs(cdb, issue, mispredicted), Flush, st)
         /\ EarlyRecoveryClock(BranchUpdate(issue, mispredicted))
         /\ FlushControllerClock(Inputs(cdb, issue, mispredicted), st)
         /\ trap_taken_reg' = trap
         /\ pd_valid_q' \in BOOLEAN /\ if_valid_q' \in BOOLEAN
         /\ pd_valid_q' => if_valid_q /\ ~FlushPipeline
         /\ if_valid_q' <=> ~FlushPipeline
BY DEF Cycle, Inputs, EarlyMark

LEMMA ClockParts ==
  ASSUME NEW req, NEW wb, NEW fl, NEW st, Clock(req, wb, fl, st)
  PROVE  /\ head_ptr' = PtrAdd(head_ptr, CommitWidth(wb, fl, st))
         /\ rob_valid' = NextValid(fl, Allocated(AllocWidth(req, fl)),
                                   Committed(CommitWidth(wb, fl, st)))
         /\ rob_done' = NextDone(req, wb, fl, Allocated(AllocWidth(req, fl)))
         /\ rob_mispredicted' = NextMispredicted(req, wb, fl, Allocated(AllocWidth(req, fl)))
         /\ rob_early_recovered' = NextEarlyRecovered(wb, Allocated(AllocWidth(req, fl)))
         /\ rob_class' = NextClass(req, Allocated(AllocWidth(req, fl)))
         /\ fence_i_committed' => CommitWidth(wb, fl, st) >= 1 /\ HeadIs({"fence_i"})
         /\ fence_i_committed' \in BOOLEAN
BY DEF Clock

LEMMA InputParts ==
  ASSUME NEW cdb, NEW issue, NEW mispredicted
  PROVE  /\ Inputs(cdb, issue, mispredicted).cdb = cdb
         /\ Inputs(cdb, issue, mispredicted).store = {}
         /\ Inputs(cdb, issue, mispredicted).branch = BranchUpdate(issue, mispredicted)
         /\ Inputs(cdb, issue, mispredicted).early = EarlyMark
BY DEF Inputs

LEMMA EarlyParts ==
  ASSUME NEW update, EarlyRecoveryClock(update)
  PROVE  /\ early_mispredict_pending' => ~FlushAll /\ EarlyFire(update) # {}
         /\ early_mispredict_pending' \in BOOLEAN
         /\ EarlyCapture(update) = {} => /\ early_mispredict_tag' = early_mispredict_tag
                                         /\ early_mispredict_checkpoint_id' =
                                              early_mispredict_checkpoint_id
         /\ EarlyCapture(update) # {} =>
              \E t \in EarlyCapture(update) :
                early_mispredict_tag' = t /\ early_mispredict_checkpoint_id' = rob_checkpoint_id[t]
         /\ early_backend_recovery_pending' <=> EarlyMispredictActive
         /\ early_backend_recovery_pending' \in BOOLEAN
         /\ early_backend_flush_tag' =
              IF EarlyMispredictActive THEN early_mispredict_tag ELSE early_backend_flush_tag
BY DEF EarlyRecoveryClock, EarlyMispredictActive

(* Live entries keep their class, and stay done.                           *)
LEMMA LiveKept ==
  ASSUME ContractInv, NEW req \in Bundles, NEW wb, NEW st, Clock(req, wb, Flush, st)
  PROVE  /\ rob_valid \subseteq Tag
         /\ \A i \in rob_valid : /\ i \notin Allocated(AllocWidth(req, Flush))
                                 /\ rob_class'[i] = rob_class[i]
                                 /\ i \in rob_done => i \in rob_done'
<1> DEFINE alloc == Allocated(AllocWidth(req, Flush))
<1>1. rob_valid \subseteq Tag /\ rob_valid \cap alloc = {}
  BY ContractKept, LiveNotAllocated DEF ContractInv, RingInv, ValidIsWindow
<1>2. rob_class' = NextClass(req, alloc) /\ rob_done' = NextDone(req, wb, Flush, alloc)
  BY ClockParts
<1> HIDE DEF alloc
<1>3. \A i \in rob_valid : rob_class'[i] = rob_class[i]
  BY <1>1, <1>2 DEF NextClass
<1>4. \A i \in rob_valid : i \in rob_done => i \in rob_done'
  BY <1>1, <1>2 DEF NextDone
<1> QED
  BY <1>1, <1>3, <1>4 DEF alloc

(* Without a flush, what does not retire stays.                            *)
LEMMA NoFlushKeeps ==
  ASSUME ~FlushAll, ~FlushEn, NEW req, NEW wb, NEW st, Clock(req, wb, Flush, st),
         NEW t \in rob_valid, t \notin Committed(CommitWidth(wb, Flush, st))
  PROVE  t \in rob_valid'
<1>1. rob_valid' = ((rob_valid \ Flushed(Flush)) \cup Allocated(AllocWidth(req, Flush)))
                     \ Committed(CommitWidth(wb, Flush, st))
  BY ClockParts DEF NextValid
<1>2. Flushed(Flush) = {}
  BY DEF Flushed, Flush
<1> QED
  BY <1>1, <1>2

(* A branch that starts early recovery is live, finished and mispredicted  *)
(* in the next cycle, and nothing else is under recovery then.             *)
LEMMA FireStep ==
  ASSUME ContractInv, NEW req \in Bundles, NEW cdb \in CdbBundles(workload), NEW issue \in Issues,
         NEW mispredicted \in BOOLEAN, NEW st, NEW trap,
         Cycle(req, cdb, issue, mispredicted, st, trap), early_mispredict_pending'
  PROVE  RecoveringEarly(early_mispredict_tag)' /\ ~early_backend_recovery_pending'
<1> DEFINE wb     == Inputs(cdb, issue, mispredicted)
           update == BranchUpdate(issue, mispredicted)
           alloc  == Allocated(AllocWidth(req, Flush))
<1>1. Clock(req, wb, Flush, st) /\ EarlyRecoveryClock(update)
  BY CycleParts
<1>2. /\ wb.cdb = cdb /\ wb.branch = update /\ wb.early = EarlyMark
  BY InputParts, SMT
<1>3. PICK t \in EarlyFire(update) : ~FlushAll
  BY <1>1, EarlyParts
<1>4. PICK b \in update : /\ b.tag = t /\ b.mispredicted
                         /\ ~early_mispredict_pending /\ ~early_backend_recovery_pending
                         /\ rob_class[t] # "jalr" /\ ~mispredict_recovery_pending
  BY <1>3 DEF EarlyFire, EarlyCapture
<1>5. /\ t \in rob_valid /\ t \notin rob_done /\ rob_class[t] = "branch"
  BY <1>4, UpdateFacts, SMT
<1>6. EarlyCapture(update) = {t}
  <2>1. t \in EarlyCapture(update)
    BY <1>3 DEF EarlyFire
  <2>2. \A u \in EarlyCapture(update) : u = t
    BY <1>4, OneUpdate DEF EarlyCapture
  <2> QED
    BY <2>1, <2>2
<1> HIDE DEF wb, update
<1>7. early_mispredict_tag' = t /\ ~EarlyMispredictActive /\ ~early_backend_recovery_pending'
  BY <1>1, <1>4, <1>6, EarlyParts DEF EarlyMispredictActive
<1>8. t \notin alloc /\ rob_class'[t] = "branch"
  BY <1>1, <1>5, LiveKept
<1> HIDE DEF alloc
<1>9. t \in rob_valid'
  <2>1. ~FlushEn
    BY <1>4 DEF FlushEn
  <2>2. t \notin Committed(CommitWidth(wb, Flush, st))
    BY <1>2, <1>5, UnresolvedStays DEF BranchClasses, ContractInv
  <2> QED
    BY <1>1, <1>3, <1>5, <2>1, <2>2, NoFlushKeeps
<1>10. /\ rob_done' = NextDone(req, wb, Flush, alloc)
       /\ rob_mispredicted' = NextMispredicted(req, wb, Flush, alloc)
       /\ rob_early_recovered' = NextEarlyRecovered(wb, alloc)
  BY <1>1, ClockParts DEF alloc
<1>11. b \in Live(wb.branch, Flush) /\ b \in Live(wb.cdb \cup wb.store \cup wb.branch, Flush)
  BY <1>2, <1>3, <1>4, <1>5 DEF Live, Flush
<1>12. t \in rob_done'
  BY <1>4, <1>10, <1>11 DEF NextDone, TagsOf
<1>13. t \in rob_mispredicted'
  BY <1>4, <1>10, <1>11 DEF NextMispredicted, TagsOf
<1>14. t \notin rob_early_recovered'
  BY <1>2, <1>5, <1>7, <1>10 DEF NextEarlyRecovered, ContractInv, EarlyMark
<1> QED
  BY <1>7, <1>8, <1>9, <1>12, <1>13, <1>14 DEF RecoveringEarly

(* The branch under early recovery is live in the next cycle, when its     *)
(* flush reaches the back end: commit is blocked meanwhile.                *)
LEMMA BackendStep ==
  ASSUME ContractInv, NEW req \in Bundles, NEW cdb \in CdbBundles(workload), NEW issue \in Issues,
         NEW mispredicted \in BOOLEAN, NEW st, NEW trap,
         Cycle(req, cdb, issue, mispredicted, st, trap), early_backend_recovery_pending'
  PROVE  /\ EarlyMispredictActive /\ ~FlushAll /\ ~FlushEn
         /\ early_backend_flush_tag' = early_mispredict_tag
         /\ CommitWidth(Inputs(cdb, issue, mispredicted), Flush, st) = 0
         /\ early_mispredict_tag \in rob_valid' /\ ~pd_valid_q'
<1> DEFINE wb == Inputs(cdb, issue, mispredicted)
<1>1. /\ Clock(req, wb, Flush, st) /\ EarlyRecoveryClock(BranchUpdate(issue, mispredicted))
      /\ pd_valid_q' => ~FlushPipeline
  BY CycleParts
<1>2. EarlyMispredictActive /\ early_backend_flush_tag' = early_mispredict_tag
  BY <1>1, EarlyParts
<1>3. ~FlushAll /\ ~FlushEn
  BY <1>2 DEF EarlyMispredictActive, FlushAll, FlushEn, ContractInv
<1>4. wb.early # {}
  BY <1>2 DEF Inputs, EarlyMark
<1> HIDE DEF wb
<1>5. CommitWidth(wb, Flush, st) = 0
  BY <1>4 DEF CommitWidth, CommitEn, CommitReadyEarly
<1>6. early_mispredict_tag \in rob_valid'
  <2>1. early_mispredict_tag \in rob_valid
    BY <1>2 DEF EarlyMispredictActive, ContractInv, RecoveringEarly
  <2> QED
    BY <1>1, <1>3, <1>5, <2>1, NoFlushKeeps, SMT DEF Committed
<1> QED
  BY <1>1, <1>2, <1>3, <1>5, <1>6 DEF FlushPipeline, wb

(* FENCE.I retires in a cycle in which no recovery starts.                 *)
LEMMA FenceStep ==
  ASSUME ContractInv, NEW cdb, NEW issue, NEW mispredicted, NEW req, NEW st, NEW trap,
         Cycle(req, cdb, issue, mispredicted, st, trap), fence_i_committed'
  PROVE  ~early_backend_recovery_pending' /\ ~mispredict_recovery_pending'
<1> DEFINE wb == Inputs(cdb, issue, mispredicted)
<1>1. /\ Clock(req, wb, Flush, st) /\ EarlyRecoveryClock(BranchUpdate(issue, mispredicted))
      /\ FlushControllerClock(wb, st) /\ wb.early = EarlyMark
  BY CycleParts DEF Inputs
<1> HIDE DEF wb
<1>2. CommitWidth(wb, Flush, st) >= 1 /\ HeadIs({"fence_i"})
  BY <1>1, ClockParts
<1>3. wb.early = {}
  BY <1>2, SMT DEF CommitWidth, CommitEn, CommitReadyEarly
<1>4. ~early_backend_recovery_pending'
  BY <1>1, <1>3, EarlyParts DEF EarlyMark
<1>5. mispredict_recovery_pending' => HeadIs(BranchClasses)
  BY <1>1 DEF FlushControllerClock, CommitIsMisprediction, CommitMispredictionRaw
<1> QED
  BY <1>2, <1>4, <1>5, HeadOnly, SMT DEF ContractInv, BranchClasses

(* The types of the contract's registers.                                  *)
LEMMA ContractTypesStep ==
  ASSUME ContractInv, NEW req \in Bundles, NEW cdb \in CdbBundles(workload), NEW issue \in Issues,
         NEW mispredicted \in BOOLEAN, NEW st, NEW trap \in BOOLEAN,
         Cycle(req, cdb, issue, mispredicted, st, trap)
  PROVE  ContractTypes'
<1> DEFINE wb == Inputs(cdb, issue, mispredicted)
           update == BranchUpdate(issue, mispredicted)
<1>1. /\ Clock(req, wb, Flush, st) /\ EarlyRecoveryClock(update) /\ FlushControllerClock(wb, st)
      /\ trap_taken_reg' = trap /\ pd_valid_q' \in BOOLEAN
  BY CycleParts
<1>2. \A t \in EarlyCapture(update) : t \in Tag
  BY <1>1, UpdateFacts, LiveKept, SMT DEF EarlyCapture
<1> HIDE DEF wb, update
<1>3. /\ early_mispredict_pending' \in BOOLEAN /\ early_backend_recovery_pending' \in BOOLEAN
      /\ fence_i_committed' \in BOOLEAN
  BY <1>1, EarlyParts, ClockParts
<1>4. early_mispredict_tag' \in Tag
  BY <1>1, <1>2, EarlyParts DEF ContractInv, ContractTypes
<1>5. early_backend_flush_tag' \in Tag
  BY <1>1, EarlyParts DEF ContractInv, ContractTypes
<1>6. mispredict_recovery_pending' \in BOOLEAN
  BY <1>1 DEF FlushControllerClock
<1>7. mispredict_commit_q'.tag \in Tag
  <2>1. HeadIdx \in Tag
    BY CountFacts DEF ContractInv, RingInv
  <2>2. \/ mispredict_commit_q' = [tag |-> HeadIdx, id |-> rob_checkpoint_id[HeadIdx]]
        \/ mispredict_commit_q' = mispredict_commit_q
    BY <1>1 DEF FlushControllerClock
  <2> QED
    BY <2>1, <2>2, SMT DEF ContractInv, ContractTypes
<1> QED
  BY <1>1, <1>3, <1>4, <1>5, <1>6, <1>7 DEF ContractTypes

(* A cycle preserves the invariant.                                        *)
LEMMA ContractStep ==
  ASSUME ContractInv, NEW req \in Bundles, NEW cdb \in CdbBundles(workload), NEW issue \in Issues,
         NEW mispredicted \in BOOLEAN, NEW st, NEW trap \in BOOLEAN,
         Cycle(req, cdb, issue, mispredicted, st, trap)
  PROVE  ContractInv'
<1> DEFINE wb    == Inputs(cdb, issue, mispredicted)
           alloc == Allocated(AllocWidth(req, Flush))
<1>1. Clock(req, wb, Flush, st) /\ wb.early = EarlyMark
  BY CycleParts DEF Inputs
<1> HIDE DEF wb
<1>2. RingInv'
  BY <1>1, ContractKept, RingClock DEF ContractInv
<1>3. ContractTypes'
  BY ContractTypesStep
<1>4. early_mispredict_pending' =>
        RecoveringEarly(early_mispredict_tag)' /\ ~early_backend_recovery_pending'
  BY FireStep
<1>5. early_backend_recovery_pending' => early_backend_flush_tag' \in rob_valid' /\ ~pd_valid_q'
  BY BackendStep
<1>6. fence_i_committed' => ~early_backend_recovery_pending' /\ ~mispredict_recovery_pending'
  BY FenceStep
<1>7. \A i \in rob_valid' \cap rob_early_recovered' : i \in rob_done'
  <2>1. /\ rob_valid' \subseteq rob_valid \cup alloc
        /\ rob_early_recovered' = (rob_early_recovered \ alloc) \cup EarlyMark
    BY <1>1, ClockParts, SMT DEF NextValid, NextEarlyRecovered
  <2>2. EarlyMark \subseteq rob_valid \cap rob_done
    BY DEF EarlyMark, EarlyMispredictActive, ContractInv, RecoveringEarly
  <2>3. \A i \in rob_valid : i \notin alloc /\ (i \in rob_done => i \in rob_done')
    BY <1>1, LiveKept
  <2> HIDE DEF alloc
  <2> QED
    BY <2>1, <2>2, <2>3 DEF ContractInv
<1> QED
  BY <1>2, <1>3, <1>4, <1>5, <1>6, <1>7 DEF ContractInv

LEMMA ContractInit == Init => ContractInv
<1> SUFFICES ASSUME Init PROVE ContractInv
  OBVIOUS
<1>1. RingInv
  BY RingReset DEF Init
<1>2. 0 \in Tag
  BY DepthAssumption, SMT DEF Tag
<1>3. mispredict_commit_q.tag = 0
  BY DEF Init
<1>4. ContractTypes
  BY <1>2, <1>3 DEF Init, RobInit, ContractTypes
<1>5. /\ ~early_mispredict_pending /\ ~early_backend_recovery_pending /\ ~fence_i_committed
      /\ rob_valid = {}
  BY DEF Init, RobInit
<1> QED
  BY <1>1, <1>4, <1>5 DEF ContractInv

(* The cycle that a step is.                                               *)
LEMMA NextIsCycle ==
  ASSUME Next
  PROVE  \E trap \in BOOLEAN, st \in Statuses, issue \in Issues, cdb \in CdbBundles(workload),
            req \in Bundles, mispredicted \in BOOLEAN :
              Cycle(req, cdb, issue, mispredicted, st, trap)
<1>1. PICK trap \in BOOLEAN, st \in Statuses, issue \in Issues, cdb \in CdbBundles(workload),
           req \in Bundles :
        \E mispredicted \in (IF issue = {} THEN {FALSE} ELSE BOOLEAN) :
          Cycle(req, cdb, issue, mispredicted, st, trap)
  BY DEF Next
<1>2. (IF issue = {} THEN {FALSE} ELSE BOOLEAN) \subseteq BOOLEAN
  OBVIOUS
<1>3. \E mispredicted \in BOOLEAN : Cycle(req, cdb, issue, mispredicted, st, trap)
  BY <1>1, <1>2
<1> QED
  BY <1>3

LEMMA ContractNext == ContractInv /\ [Next]_vars => ContractInv'
<1> SUFFICES ASSUME ContractInv, [Next]_vars PROVE ContractInv'
  OBVIOUS
<1>1. CASE Next
  BY <1>1, NextIsCycle, ContractStep
<1>2. CASE UNCHANGED vars
  <2>1. UNCHANGED robVars /\ RingInv'
    BY <1>2, RingStutter DEF vars, ContractInv
  <2> QED
    BY <1>2, <2>1, SMT DEF vars, recoveryVars, robVars, ContractInv, ContractTypes, RecoveringEarly
<1> QED
  BY <1>1, <1>2

THEOREM ContractCorrect == Spec => []ContractInv
<1> QED
  BY ContractInit, ContractNext, PTL DEF Spec

(* The recovery path keeps the input contract of the reorder buffer: the   *)
(* flush tag is live two cycles after its branch resolved, the mark goes   *)
(* to an unrecovered mispredicted branch, FENCE.I never meets a recovery.  *)
THEOREM RecoveryKeepsContract == Spec => []RobContractKept
<1>1. ContractInv => RobContractKept
  <2> SUFFICES ASSUME ContractInv PROVE RobContractKept
    OBVIOUS
  <2> DEFINE fl == [Flush EXCEPT !.tag = IF FlushEn /\ ~mispredict_recovery_pending
                                         THEN FlushTag ELSE 0]
  <2>1. /\ fl.all = FlushAll /\ fl.en = FlushEn /\ fl.after_head = mispredict_recovery_pending
        /\ fl.tag = IF FlushEn /\ ~mispredict_recovery_pending THEN FlushTag ELSE 0
    BY DEF Flush
  <2> HIDE DEF fl
  <2>2. /\ ~(FlushAll /\ FlushEn)
        /\ mispredict_recovery_pending => FlushAll \/ FlushEn
        /\ FlushEn /\ ~mispredict_recovery_pending => FlushTag \in rob_valid
    BY DEF ContractInv, ContractTypes, FlushAll, FlushEn, FlushTag
  <2>3. LegalFlush(fl, mispredict_recovery_pending)
    BY <2>1, <2>2 DEF LegalFlush
  <2>4. EarlyMispredictActive =>
          /\ early_mispredict_tag \in (rob_valid \cap rob_done \cap rob_mispredicted)
                                        \ rob_early_recovered
          /\ rob_class[early_mispredict_tag] = "branch"
    BY DEF EarlyMispredictActive, ContractInv, RecoveringEarly
  <2>5. fence_i_flush => ~early_backend_recovery_pending /\ ~mispredict_recovery_pending
    BY DEF fence_i_flush, ContractInv
  <2> QED
    BY <2>3, <2>4, <2>5 DEF RobContractKept, fl
<1> QED
  BY <1>1, ContractCorrect, PTL

-----------------------------------------------------------------------------
(* Wrong paths.                                                            *)

(* Mispredicted branches in flight that no recovery has repaired.          *)
Unrepaired == {t \in rob_valid \cap rob_mispredicted :
                 rob_class[t] \in BranchClasses /\ t \notin rob_early_recovered}

(* Whoever is on a wrong path is younger than a branch that has yet to     *)
(* squash it, and whoever is younger than such a branch is on a wrong path.*)
WrongPathInv ==
  /\ wrong_path \subseteq rob_valid /\ rob_valid \cap rob_mispredicted \subseteq rob_done
  /\ \A t \in Unrepaired : \A i \in rob_valid : Younger(i, t) => i \in wrong_path
  /\ \A i \in wrong_path :
       \/ mispredict_recovery_pending
       \/ \E t \in rob_valid \cap rob_mispredicted :
            /\ rob_class[t] \in BranchClasses /\ Younger(i, t)
            /\ t \in Unrepaired \/ (early_backend_recovery_pending /\ t = early_backend_flush_tag)
  /\ mispredict_recovery_pending => rob_valid \subseteq wrong_path
  /\ early_backend_recovery_pending =>
       \A i \in rob_valid : Younger(i, early_backend_flush_tag) => i \in wrong_path

(* The two notions of age order tags alike.                                *)
LEMMA AgeOrder ==
  ASSUME NEW h \in Tag, NEW i \in Tag, NEW t \in Tag
  PROVE  PtrSub(i, h) > PtrSub(t, h) <=> TagSub(i, h) > TagSub(t, h)
BY DepthAssumption, SMT DEF Tag, PtrSub, TagSub

(* What a cycle does to the set of live entries.                           *)
LEMMA ValidParts ==
  ASSUME ContractInv, NEW req \in Bundles, NEW wb, NEW st, Clock(req, wb, Flush, st),
         NEW w, w = CommitWidth(wb, Flush, st),
         NEW alloc, alloc = Allocated(AllocWidth(req, Flush))
  PROVE  /\ rob_valid' = ((rob_valid \ Flushed(Flush)) \cup alloc) \ Committed(w)
         /\ rob_valid \subseteq Tag /\ alloc \subseteq Tag /\ rob_valid \cap alloc = {}
         /\ w \in 0 .. 2 /\ (w >= 1 => ~FlushAll /\ ~FlushEn)
         /\ Committed(w) = {i \in rob_valid : TagSub(i, HeadIdx) < w}
         /\ FlushAll \/ FlushEn => alloc = {}
<1>1. rob_valid' = ((rob_valid \ Flushed(Flush)) \cup alloc) \ Committed(w)
  BY ClockParts DEF NextValid
<1>2. rob_valid \subseteq Tag /\ rob_valid \cap alloc = {}
  BY LiveKept
<1>3. HeadIdx \in Tag /\ TailIdx \in Tag /\ TailIdx2 \in Tag /\ Count \in Int
  BY CountFacts, SMT DEF ContractInv, RingInv
<1>4. alloc \subseteq Tag
  BY <1>3 DEF Allocated
<1>5. /\ w \in 0 .. 2 /\ w <= Count /\ (w >= 1 => ~Flush.all /\ ~Flush.en)
      /\ Committed(w) = {i \in Tag : TagSub(i, HeadIdx) < w}
  BY RetireFacts, SMT DEF ContractInv
<1>6. Flush.all = FlushAll /\ Flush.en = FlushEn
  BY DEF Flush
<1>7. Committed(w) = {i \in rob_valid : TagSub(i, HeadIdx) < w}
  <2>1. \A i \in Tag : TagSub(i, HeadIdx) \in Int
    BY <1>3, TagSubFacts, SMT DEF Tag
  <2>2. rob_valid = {i \in Tag : TagSub(i, HeadIdx) < Count}
    BY DEF ContractInv, RingInv, ValidIsWindow
  <2> QED
    BY <1>3, <1>5, <2>1, <2>2, SMT
<1>8. FlushAll \/ FlushEn => alloc = {}
  <2>1. FlushAll \/ FlushEn => AllocWidth(req, Flush) = 0
    BY <1>6 DEF AllocWidth, AllocEn
  <2> QED
    BY <2>1, SMT DEF Allocated
<1> QED
  BY <1>1, <1>2, <1>4, <1>5, <1>6, <1>7, <1>8

(* The same in terms of sets: what allocation adds and retirement takes.   *)
LEMMA ValidSets ==
  ASSUME ContractInv, NEW req \in Bundles, NEW wb, NEW st, Clock(req, wb, Flush, st)
  PROVE  /\ rob_valid' = ((rob_valid \ Flushed(Flush)) \cup Allocated(AllocWidth(req, Flush)))
                           \ Committed(CommitWidth(wb, Flush, st))
         /\ rob_valid' \subseteq rob_valid \cup Allocated(AllocWidth(req, Flush))
         /\ rob_valid' \cap rob_valid \cap Flushed(Flush) = {}
         /\ Allocated(AllocWidth(req, Flush)) \subseteq rob_valid'
         /\ Committed(CommitWidth(wb, Flush, st)) \subseteq rob_valid
         /\ rob_valid' \cap Committed(CommitWidth(wb, Flush, st)) = {}
         /\ rob_valid \subseteq Tag /\ Allocated(AllocWidth(req, Flush)) \subseteq Tag
         /\ rob_valid \cap Allocated(AllocWidth(req, Flush)) = {}
         /\ FlushAll \/ FlushEn => Allocated(AllocWidth(req, Flush)) = {}
         /\ FlushAll \/ FlushEn => Committed(CommitWidth(wb, Flush, st)) = {}
<1> DEFINE alloc   == Allocated(AllocWidth(req, Flush))
           w       == CommitWidth(wb, Flush, st)
           retired == Committed(w)
<1>1. /\ rob_valid' = ((rob_valid \ Flushed(Flush)) \cup alloc) \ retired
      /\ rob_valid \subseteq Tag /\ alloc \subseteq Tag /\ rob_valid \cap alloc = {}
      /\ FlushAll \/ FlushEn => alloc = {}
  BY ValidParts
<1>2. retired = {i \in rob_valid : TagSub(i, HeadIdx) < w}
  BY ValidParts
<1>3. FlushAll \/ FlushEn => retired = {}
  <2>1. w \in 0 .. 2 /\ (w >= 1 => ~FlushAll /\ ~FlushEn)
    BY ValidParts
  <2> HIDE DEF w
  <2>2. FlushAll \/ FlushEn => w = 0
    BY <2>1, SMT
  <2>3. Committed(0) = {}
    BY SMT DEF Committed
  <2> QED
    BY <2>2, <2>3
<1> HIDE DEF w, alloc, retired
<1>4. /\ rob_valid' \subseteq rob_valid \cup alloc /\ rob_valid' \cap rob_valid \cap Flushed(Flush) = {}
      /\ alloc \subseteq rob_valid' /\ retired \subseteq rob_valid /\ rob_valid' \cap retired = {}
  BY <1>1, <1>2
<1> QED
  BY <1>1, <1>3, <1>4 DEF w, alloc, retired

(* What a flush takes.                                                     *)
LEMMA FlushedParts ==
  ASSUME ContractInv
  PROVE  /\ FlushAll => Flushed(Flush) = Tag
         /\ ~FlushAll /\ ~FlushEn => Flushed(Flush) = {}
         /\ ~FlushAll /\ mispredict_recovery_pending => FlushEn /\ Flushed(Flush) = Tag
         /\ ~FlushAll /\ early_backend_recovery_pending => FlushEn
         /\ FlushEn => ~FlushAll
         /\ FlushEn /\ ~mispredict_recovery_pending =>
              /\ early_backend_recovery_pending
              /\ Flushed(Flush) = {i \in Tag : Younger(i, early_backend_flush_tag)}
<1>1. /\ Flush.all = FlushAll /\ Flush.en = FlushEn
      /\ Flush.after_head = mispredict_recovery_pending /\ Flush.tag = FlushTag
  BY DEF Flush
<1>2. /\ FlushEn => ~FlushAll
      /\ ~FlushAll /\ mispredict_recovery_pending => FlushEn
      /\ ~FlushAll /\ early_backend_recovery_pending => FlushEn
      /\ FlushEn /\ ~mispredict_recovery_pending =>
           early_backend_recovery_pending /\ FlushTag = early_backend_flush_tag
  BY DEF FlushAll, FlushEn, FlushTag, ContractInv, ContractTypes
<1> QED
  BY <1>1, <1>2 DEF Flushed, ShouldFlushEntry, Younger

(* The ages of the entries that stay fall by what retires; new entries are *)
(* younger than all of them.                                               *)
LEMMA StepAges ==
  ASSUME ContractInv, NEW req \in Bundles, NEW wb, NEW st, Clock(req, wb, Flush, st)
  PROVE  /\ \A i, t \in rob_valid \cap rob_valid' : Younger(i, t)' <=> Younger(i, t)
         /\ \A i \in rob_valid' \ rob_valid, t \in rob_valid \cap rob_valid' :
              Younger(i, t)' /\ ~Younger(t, i)'
<1> DEFINE w     == CommitWidth(wb, Flush, st)
           n     == AllocWidth(req, Flush)
           alloc == Allocated(n)
<1>1. /\ rob_valid' = ((rob_valid \ Flushed(Flush)) \cup alloc) \ Committed(w)
      /\ rob_valid \subseteq Tag /\ alloc \subseteq Tag
      /\ w \in 0 .. 2
      /\ Committed(w) = {i \in rob_valid : TagSub(i, HeadIdx) < w}
  BY ValidParts, SMT
<1>2. head_ptr' = PtrAdd(head_ptr, w) /\ head_ptr \in Ptr /\ HeadIdx \in Tag /\ Count \in Int
  BY ClockParts, CountFacts, SMT DEF ContractInv, RingInv
<1>3. /\ n \in 0 .. 2 /\ (n >= 1 => Count + n <= Depth)
  BY ContractKept, AllocFacts DEF ContractInv
<1>4. n >= 1 => alloc = {i \in Tag : TagSub(i, HeadIdx) >= Count /\ TagSub(i, HeadIdx) < Count + n}
  BY <1>3, AllocatedAges DEF ContractInv
<1>5. n = 0 => alloc = {}
  BY SMT DEF Allocated
<1> HIDE DEF w, n
<1>6. HeadIdx' = TagAdd(HeadIdx, w) /\ HeadIdx' \in Tag
  <2>1. HeadIdx' = TagAdd(HeadIdx, w)
    BY <1>1, <1>2, PtrAddIdx, DepthAssumption, SMT DEF HeadIdx
  <2> QED
    BY <1>1, <1>2, <2>1, DepthAssumption, SMT DEF TagAdd, Tag
<1>7. rob_valid = {i \in Tag : TagSub(i, HeadIdx) < Count}
  BY DEF ContractInv, RingInv, ValidIsWindow
<1>8. \A i \in rob_valid \cap rob_valid' :
         /\ TagSub(i, HeadIdx') = TagSub(i, HeadIdx) - w
         /\ TagSub(i, HeadIdx) \in 0 .. Depth - 1 /\ TagSub(i, HeadIdx) < Count
         /\ TagSub(i, HeadIdx) >= w
  <2> SUFFICES ASSUME NEW i \in rob_valid \cap rob_valid'
               PROVE  /\ TagSub(i, HeadIdx') = TagSub(i, HeadIdx) - w
                      /\ TagSub(i, HeadIdx) \in 0 .. Depth - 1 /\ TagSub(i, HeadIdx) < Count
                      /\ TagSub(i, HeadIdx) >= w
    OBVIOUS
  <2>1. i \in Tag /\ ~(TagSub(i, HeadIdx) < w) /\ TagSub(i, HeadIdx) < Count
    BY <1>1, <1>7
  <2>2. TagSub(i, HeadIdx) \in 0 .. Depth - 1
    BY <1>1, <1>2, <2>1, AgeShift
  <2>3. TagSub(i, HeadIdx) >= w
    BY <1>1, <2>1, <2>2, DepthAssumption, SMT
  <2> QED
    BY <1>1, <1>2, <1>6, <2>1, <2>2, <2>3, AgeShift
<1>9. \A i \in rob_valid' \ rob_valid :
         i \in Tag /\ TagSub(i, HeadIdx') \in Int /\ TagSub(i, HeadIdx') >= Count - w
  <2> SUFFICES ASSUME NEW i \in rob_valid' \ rob_valid
               PROVE  i \in Tag /\ TagSub(i, HeadIdx') \in Int /\ TagSub(i, HeadIdx') >= Count - w
    OBVIOUS
  <2>1. i \in alloc
    BY <1>1
  <2>2. i \in Tag /\ TagSub(i, HeadIdx) >= Count
    BY <1>3, <1>4, <1>5, <2>1, SMT
  <2>3. TagSub(i, HeadIdx) \in 0 .. Depth - 1
    BY <1>1, <1>2, <2>2, AgeShift
  <2>4. \/ TagSub(i, HeadIdx') = TagSub(i, HeadIdx) - w
        \/ TagSub(i, HeadIdx') = TagSub(i, HeadIdx) + Depth - w
    BY <1>1, <1>2, <1>6, <2>2, AgeShift
  <2> QED
    BY <1>1, <1>2, <2>2, <2>3, <2>4, DepthAssumption, SMT
<1>10. \A i, t \in Tag : /\ Younger(i, t) <=> TagSub(i, HeadIdx) > TagSub(t, HeadIdx)
                         /\ Younger(i, t)' <=> TagSub(i, HeadIdx') > TagSub(t, HeadIdx')
  BY <1>2, <1>6, AgeOrder DEF Younger
<1>11. rob_valid' \subseteq Tag
  BY <1>1
<1>12. ASSUME NEW i \in rob_valid \cap rob_valid', NEW t \in rob_valid \cap rob_valid'
       PROVE  Younger(i, t)' <=> Younger(i, t)
  BY <1>1, <1>8, <1>10, <1>11, SMT
<1>13. ASSUME NEW i \in rob_valid' \ rob_valid, NEW t \in rob_valid \cap rob_valid'
       PROVE  Younger(i, t)' /\ ~Younger(t, i)'
  BY <1>1, <1>2, <1>8, <1>9, <1>10, <1>11, DepthAssumption, SMT
<1> QED
  BY <1>12, <1>13

(* A mispredicted branch that nothing has repaired retires alone, and its  *)
(* recovery is pending in the next cycle.                                  *)
LEMMA UnrepairedRetires ==
  ASSUME ContractInv, NEW wb, wb.early = EarlyMark, NEW st,
         NEW t \in Unrepaired, t \in Committed(CommitWidth(wb, Flush, st))
  PROVE  t = HeadIdx /\ CommitWidth(wb, Flush, st) = 1 /\ CommitIsMisprediction(wb, st)
<1> DEFINE w == CommitWidth(wb, Flush, st)
<1>1. head_clear_mask = {HeadIdx} /\ head_next_clear_mask = {HeadNextIdx}
  BY DEF ContractInv, RingInv, MasksFollowHead
<1>2. /\ t \in rob_mispredicted /\ rob_class[t] \in BranchClasses /\ t \notin rob_early_recovered
  BY DEF Unrepaired
<1>3. w \in 0 .. 2 /\ (w >= 1 => ~FlushAll /\ ~FlushEn)
  BY RetireFacts, SMT DEF ContractInv, Flush
<1>4. w >= 1 /\ (t = HeadIdx \/ (t = HeadNextIdx /\ w = 2))
  BY <1>1, <1>3, SMT DEF Committed
<1>5. ~(t = HeadNextIdx /\ w = 2)
  BY <1>1, <1>2, SMT DEF CommitWidth, Commit2Ready, HeadNextOk2Wide, HeadNextIs, OnehotRead
<1>6. t = HeadIdx
  BY <1>4, <1>5
<1>7. w # 2
  BY <1>1, <1>2, <1>6, SMT DEF CommitWidth, Commit2Ready, HeadOk2Wide, HeadIs, OnehotRead
<1>8. CommitEn(wb, Flush, st) /\ EarlyMark = {}
  BY <1>4, SMT DEF CommitWidth, CommitEn, CommitReadyEarly
<1>9. CommitMispredictionRaw(wb, Flush, st)
  BY <1>1, <1>2, <1>6, <1>8 DEF CommitMispredictionRaw, HeadIs, OnehotRead
<1>10. ~EarlyMispredictActive /\ ~early_backend_recovery_pending
  BY <1>3, <1>4, <1>8, FlushedParts DEF EarlyMark
<1> QED
  BY <1>3, <1>4, <1>6, <1>7, <1>9, <1>10, SMT DEF CommitIsMisprediction

(* The flush controller registers the misprediction that retires.          *)
LEMMA MispredictParts ==
  ASSUME NEW wb, NEW st, FlushControllerClock(wb, st)
  PROVE  /\ mispredict_recovery_pending' <=> ~FlushAll /\ CommitIsMisprediction(wb, st)
         /\ CommitIsMisprediction(wb, st) =>
              mispredict_commit_q' = [tag |-> HeadIdx, id |-> rob_checkpoint_id[HeadIdx]]
         /\ mispredict_recovery_pending' \in BOOLEAN
BY DEF FlushControllerClock

(* A retiring misprediction is an unrepaired one.                          *)
LEMMA MispredictionRetires ==
  ASSUME ContractInv, NEW wb, NEW st, CommitIsMisprediction(wb, st)
  PROVE  /\ HeadIdx \in Unrepaired /\ CommitWidth(wb, Flush, st) = 1
         /\ ~FlushAll /\ ~FlushEn
<1> DEFINE w == CommitWidth(wb, Flush, st)
<1>1. head_clear_mask = {HeadIdx}
  BY DEF ContractInv, RingInv, MasksFollowHead
<1>2. CommitEn(wb, Flush, st) /\ HeadIs(BranchClasses)
        /\ OnehotRead(rob_mispredicted, head_clear_mask)
        /\ ~OnehotRead(rob_early_recovered, head_clear_mask)
  BY DEF CommitIsMisprediction, CommitMispredictionRaw
<1>3. OnehotRead(rob_valid, head_clear_mask)
  BY <1>2 DEF CommitEn, CommitReadyEarly, HeadReady
<1>4. HeadIdx \in Unrepaired
  BY <1>1, <1>2, <1>3 DEF Unrepaired, HeadIs, OnehotRead
<1>5. w = 1
  BY <1>1, <1>2 DEF CommitWidth, Commit2Ready, HeadOk2Wide
<1>6. ~FlushAll /\ ~FlushEn
  BY <1>5, RetireFacts, SMT DEF ContractInv, Flush
<1> QED
  BY <1>4, <1>5, <1>6

(* The branches that resolve mispredicted in a cycle.                      *)
Now(issue, mispredicted) ==
  {b.tag : b \in {c \in BranchUpdate(issue, mispredicted) : c.mispredicted}}

LEMMA NowParts ==
  ASSUME NEW issue \in Issues, NEW mispredicted, NEW t \in Now(issue, mispredicted)
  PROVE  t \in rob_valid /\ t \notin rob_done /\ rob_class[t] \in BranchClasses
<1>1. PICK b \in BranchUpdate(issue, mispredicted) : t = b.tag
  BY DEF Now
<1>2. b.tag \in rob_valid /\ b.tag \notin rob_done /\ rob_class[b.tag] \in {"branch", "jalr"}
  BY UpdateFacts
<1> QED
  BY <1>1, <1>2 DEF BranchClasses

(* How the set of wrong-path entries changes.                              *)
LEMMA WrongParts ==
  ASSUME NEW req, NEW cdb, NEW issue, NEW mispredicted, NEW st, NEW trap,
         Cycle(req, cdb, issue, mispredicted, st, trap)
  PROVE  /\ wrong_path' \subseteq rob_valid'
         /\ \A i \in rob_valid' :
              i \in wrong_path' <=>
                IF i \in Allocated(AllocWidth(req, Flush)) THEN Now(issue, mispredicted) \cup Unrepaired # {}
                ELSE \/ i \in wrong_path
                     \/ i \in rob_valid /\ \E t \in Now(issue, mispredicted) : Younger(i, t)
<1> DEFINE update == BranchUpdate(issue, mispredicted)
           alloc  == Allocated(AllocWidth(req, Flush))
           now    == Now(issue, mispredicted)
<1>1. wrong_path' = WrongPath(update, alloc) \cap rob_valid'
  BY DEF Cycle
<1>2. WrongPath(update, alloc) =
        ((wrong_path \cup {i \in rob_valid : \E t \in now : Younger(i, t)}) \ alloc)
          \cup (IF now \cup Unrepaired = {} THEN {} ELSE alloc)
  BY DEF WrongPath, Now, Unrepaired
<1> QED
  BY <1>1, <1>2

(* Which branches are mispredicted after a cycle.                          *)
LEMMA MispredictedStep ==
  ASSUME ContractInv, WrongPathInv, NEW req \in Bundles, NEW cdb, NEW issue \in Issues,
         NEW mispredicted \in BOOLEAN, NEW st, NEW trap,
         Cycle(req, cdb, issue, mispredicted, st, trap), ~FlushAll,
         NEW t \in rob_valid
  PROVE  /\ t \in rob_mispredicted' <=> t \in rob_mispredicted \/ t \in Now(issue, mispredicted)
         /\ t \in rob_early_recovered' <=> t \in rob_early_recovered \/ t \in EarlyMark
<1> DEFINE wb     == Inputs(cdb, issue, mispredicted)
           update == BranchUpdate(issue, mispredicted)
           alloc  == Allocated(AllocWidth(req, Flush))
<1>1. Clock(req, wb, Flush, st) /\ wb.branch = update /\ wb.early = EarlyMark
  BY CycleParts DEF Inputs
<1>2. t \notin alloc
  BY <1>1, LiveKept
<1>3. Live(update, Flush) = update
  BY UpdateFacts DEF Live, Flush
<1>4. t \in rob_mispredicted => t \notin TagsOf(update)
  BY UpdateFacts, SMT DEF TagsOf, WrongPathInv
<1>5. TagsOf({b \in update : b.mispredicted}) = Now(issue, mispredicted)
  BY DEF TagsOf, Now
<1>6. /\ rob_mispredicted' =
           (((rob_mispredicted \ alloc) \cup {i \in AllocatedAs(req, alloc, {"jal"}) : req.jal_mis})
              \ TagsOf(update)) \cup Now(issue, mispredicted)
      /\ rob_early_recovered' = (rob_early_recovered \ alloc) \cup EarlyMark
  <2>1. /\ rob_mispredicted' = NextMispredicted(req, wb, Flush, alloc)
        /\ rob_early_recovered' = NextEarlyRecovered(wb, alloc)
    BY <1>1, ClockParts
  <2> HIDE DEF wb, alloc, update
  <2>2. NextMispredicted(req, wb, Flush, alloc) =
          (((rob_mispredicted \ alloc) \cup {i \in AllocatedAs(req, alloc, {"jal"}) : req.jal_mis})
             \ TagsOf(update)) \cup Now(issue, mispredicted)
    BY <1>1, <1>3, <1>5 DEF NextMispredicted
  <2>3. NextEarlyRecovered(wb, alloc) = (rob_early_recovered \ alloc) \cup EarlyMark
    BY <1>1 DEF NextEarlyRecovered
  <2> QED
    BY <2>1, <2>2, <2>3
<1>7. AllocatedAs(req, alloc, {"jal"}) \subseteq alloc
  BY DEF AllocatedAs
<1> HIDE DEF alloc, update
<1> QED
  BY <1>2, <1>4, <1>6, <1>7

(* A branch ends its bundle, so nothing is younger than a new one.         *)
LEMMA NewBranchIsLast ==
  ASSUME ContractInv, NEW req \in Bundles, NEW wb, NEW st, Clock(req, wb, Flush, st),
         NEW t \in Allocated(AllocWidth(req, Flush)), rob_class'[t] \in BranchClasses
  PROVE  \A i \in rob_valid' : ~Younger(i, t)'
<1> DEFINE w == CommitWidth(wb, Flush, st)
           n == AllocWidth(req, Flush)
<1>1. /\ n \in 0 .. 2 /\ n = RequestWidth(req) /\ (n >= 1 => Count + n <= Depth)
      /\ n >= 1 => ~Flush.all /\ ~Flush.en
  BY ContractKept, AllocFacts DEF ContractInv
<1>2. /\ head_ptr \in Ptr /\ HeadIdx \in Tag /\ Count \in Int /\ TailIdx \in Tag /\ TailIdx2 \in Tag
      /\ TailIdx # TailIdx2
  <2>1. head_ptr \in Ptr /\ HeadIdx \in Tag /\ Count \in Int /\ TailIdx \in Tag /\ TailIdx2 \in Tag
    BY CountFacts, SMT DEF ContractInv, RingInv
  <2>2. TailIdx # TailIdx2
    BY <2>1, DepthAssumption, SMT DEF TailIdx2, TagAdd, Tag
  <2> QED
    BY <2>1, <2>2
<1>3. rob_class' = NextClass(req, Allocated(n))
  BY ClockParts
<1>4. /\ n >= 1 /\ (t = TailIdx \/ (t = TailIdx2 /\ n = 2))
      /\ rob_class'[t] = IF t = TailIdx THEN req.slot1 ELSE req.slot2
  BY <1>1, <1>2, <1>3, SMT DEF Allocated, NextClass
<1>5. t = TailIdx => n = 1
  <2>1. req.slot2 # NoReq => req.slot1 \notin BranchClasses
    BY DEF Bundles, LegalBundle
  <2> QED
    BY <1>1, <1>4, <2>1, SMT DEF RequestWidth
<1> HIDE DEF n
<1>6. TagSub(t, HeadIdx) = Count + n - 1 /\ Count + n <= Depth
  <2>1. TailIdx = TagAdd(HeadIdx, Count) /\ Count \in 0 .. Depth - 1
    BY <1>1, <1>4, CountFacts, DepthAssumption, SMT DEF ContractInv, RingInv
  <2>2. TagSub(TagAdd(HeadIdx, Count), HeadIdx) = Count
    BY <1>2, <2>1, DepthAssumption, SMT DEF Tag, TagAdd, TagSub
  <2>3. n = 2 => TagSub(TagAdd(TagAdd(HeadIdx, Count), 1), HeadIdx) = Count + 1
    BY <1>1, <1>2, <2>1, DepthAssumption, SMT DEF Tag, TagAdd, TagSub
  <2> QED
    BY <1>1, <1>4, <1>5, <2>1, <2>2, <2>3, SMT DEF TailIdx2
<1>7. /\ w \in 0 .. 2 /\ w <= Count /\ head_ptr' = PtrAdd(head_ptr, w)
      /\ Count' = Count + n - w /\ ValidIsWindow' /\ head_ptr' \in Ptr
  BY <1>1, <1>4, ContractKept, WindowStep, RetireFacts, ClockParts DEF ContractInv
<1> HIDE DEF w
<1>8. HeadIdx' = TagAdd(HeadIdx, w) /\ HeadIdx' \in Tag /\ t \in Tag
  <2>1. HeadIdx' = TagAdd(HeadIdx, w)
    BY <1>2, <1>7, PtrAddIdx, DepthAssumption, SMT DEF HeadIdx
  <2> QED
    BY <1>2, <1>4, <1>7, <2>1, DepthAssumption, SMT DEF TagAdd, Tag
<1>9. TagSub(t, HeadIdx') = Count' - 1
  BY <1>2, <1>6, <1>7, <1>8, <1>1, <1>4, AgeShift, SMT
<1>10. \A i \in rob_valid' : i \in Tag /\ TagSub(i, HeadIdx') < Count'
  BY <1>7 DEF ValidIsWindow
<1>11. \A i \in Tag : TagSub(i, HeadIdx') \in Int /\
                       (Younger(i, t)' <=> TagSub(i, HeadIdx') > TagSub(t, HeadIdx'))
  BY <1>8, AgeOrder, TagSubFacts, SMT DEF Younger, Tag
<1>12. Count' \in Int
  BY <1>1, <1>2, <1>7, SMT
<1> QED
  BY <1>9, <1>10, <1>11, <1>12, SMT

(* A full flush and the flush of a retired misprediction empty the buffer. *)
LEMMA AllFlushed ==
  ASSUME ContractInv, NEW req \in Bundles, NEW wb, NEW st, Clock(req, wb, Flush, st),
         FlushAll \/ mispredict_recovery_pending
  PROVE  rob_valid' = {}
<1>1. FlushAll \/ FlushEn
  BY FlushedParts
<1>2. Flushed(Flush) = Tag
  BY FlushedParts
<1> QED
  BY <1>1, <1>2, ValidParts

(* A mispredicted branch that nothing has repaired is in the next cycle    *)
(* still one, or the one under recovery.                                   *)
LEMMA OriginStep ==
  ASSUME ContractInv, WrongPathInv, NEW req \in Bundles, NEW cdb \in CdbBundles(workload),
         NEW issue \in Issues, NEW mispredicted \in BOOLEAN, NEW st, NEW trap,
         Cycle(req, cdb, issue, mispredicted, st, trap), ~FlushAll,
         NEW t \in Unrepaired \cup Now(issue, mispredicted), t \notin Flushed(Flush)
  PROVE  \/ mispredict_recovery_pending'
         \/ /\ t \in rob_valid' \cap rob_mispredicted' /\ rob_class'[t] \in BranchClasses
            /\ \/ t \in Unrepaired'
               \/ early_backend_recovery_pending' /\ t = early_backend_flush_tag'
<1> DEFINE wb == Inputs(cdb, issue, mispredicted)
           w  == CommitWidth(wb, Flush, st)
<1>1. /\ Clock(req, wb, Flush, st) /\ wb.early = EarlyMark /\ wb.cdb = cdb
      /\ FlushControllerClock(wb, st) /\ EarlyRecoveryClock(BranchUpdate(issue, mispredicted))
  BY CycleParts DEF Inputs
<1> HIDE DEF wb
<1>2. t \in Now(issue, mispredicted) =>
        t \in rob_valid /\ t \notin rob_done /\ rob_class[t] \in BranchClasses
  BY NowParts
<1>3. t \in rob_valid /\ rob_class[t] \in BranchClasses /\ t \notin rob_early_recovered
  BY <1>2 DEF Unrepaired, ContractInv
<1>4. CASE t \in Committed(w)
  <2>1. t \in Unrepaired
    BY <1>1, <1>2, <1>4, UnresolvedStays DEF ContractInv
  <2> QED
    BY <1>1, <1>4, <2>1, UnrepairedRetires, MispredictParts
<1>5. CASE t \notin Committed(w)
  <2>1. t \in rob_valid'
    BY <1>1, <1>3, <1>5, ValidParts, SMT
  <2>2. t \in rob_mispredicted' /\ (t \in rob_early_recovered' => t \in EarlyMark)
    BY <1>3, MispredictedStep DEF Unrepaired
  <2>3. rob_class'[t] \in BranchClasses
    BY <1>1, <1>3, LiveKept
  <2>4. t \in EarlyMark => early_backend_recovery_pending' /\ t = early_backend_flush_tag'
    BY <1>1, EarlyParts DEF EarlyMark
  <2> QED
    BY <2>1, <2>2, <2>3, <2>4 DEF Unrepaired
<1> QED
  BY <1>4, <1>5

(* Every wrong-path entry has such an origin.                              *)
LEMMA OriginOfEach ==
  ASSUME ContractInv, WrongPathInv, NEW req \in Bundles, NEW cdb \in CdbBundles(workload),
         NEW issue \in Issues, NEW mispredicted \in BOOLEAN, NEW st, NEW trap,
         Cycle(req, cdb, issue, mispredicted, st, trap),
         NEW i \in wrong_path'
  PROVE  \/ mispredict_recovery_pending'
         \/ \E t \in rob_valid' \cap rob_mispredicted' :
              /\ rob_class'[t] \in BranchClasses /\ Younger(i, t)'
              /\ \/ t \in Unrepaired'
                 \/ early_backend_recovery_pending' /\ t = early_backend_flush_tag'
<1> DEFINE wb    == Inputs(cdb, issue, mispredicted)
           w     == CommitWidth(wb, Flush, st)
           alloc == Allocated(AllocWidth(req, Flush))
           now   == Now(issue, mispredicted)
<1>1. Clock(req, wb, Flush, st)
  BY CycleParts
<1>2. /\ rob_valid' = ((rob_valid \ Flushed(Flush)) \cup alloc) \ Committed(w)
      /\ rob_valid \subseteq Tag /\ rob_valid \cap alloc = {}
      /\ FlushAll \/ FlushEn => alloc = {}
  BY <1>1, ValidSets
<1>3. /\ i \in rob_valid'
      /\ i \in alloc => now \cup Unrepaired # {}
      /\ i \notin alloc => i \in wrong_path \/ (i \in rob_valid /\ \E t \in now : Younger(i, t))
  <2>1. i \in rob_valid'
    BY WrongParts
  <2>2. i \in wrong_path' <=> IF i \in alloc THEN now \cup Unrepaired # {}
                              ELSE i \in wrong_path \/ (i \in rob_valid /\ \E t \in now : Younger(i, t))
    BY <2>1, WrongParts
  <2> HIDE DEF alloc, now
  <2> QED
    BY <2>1, <2>2
<1>4. ~FlushAll /\ ~mispredict_recovery_pending
  BY <1>1, <1>3, AllFlushed
<1>5. \A t \in now : t \in rob_valid
  BY NowParts
<1> HIDE DEF wb, w, alloc, now
<1>6. SUFFICES \E t \in Unrepaired \cup now :
                 t \notin Flushed(Flush) /\ (t \in rob_valid' => Younger(i, t)')
  <2>1. PICK t \in Unrepaired \cup now :
               t \notin Flushed(Flush) /\ (t \in rob_valid' => Younger(i, t)')
    BY <1>6
  <2> QED
    BY <1>4, <2>1, OriginStep, SMT DEF now
<1>7. CASE i \in alloc
  <2>1. PICK t \in Unrepaired \cup now : TRUE
    BY <1>3, <1>7
  <2>2. t \in rob_valid /\ i \notin rob_valid
    BY <1>2, <1>5, <1>7 DEF Unrepaired
  <2>3. Flushed(Flush) = {}
    BY <1>2, <1>7, FlushedParts
  <2> QED
    BY <1>1, <1>3, <2>1, <2>2, <2>3, StepAges
<1>8. CASE i \notin alloc
  <2>1. i \in rob_valid /\ i \notin Flushed(Flush)
    BY <1>2, <1>3, <1>8
  <2>2. \/ \E t \in Unrepaired \cup now : Younger(i, t)
        \/ early_backend_recovery_pending /\ Younger(i, early_backend_flush_tag)
    BY <1>3, <1>4, <1>8 DEF WrongPathInv
  <2>3. ~(early_backend_recovery_pending /\ Younger(i, early_backend_flush_tag))
    BY <1>2, <1>4, <2>1, FlushedParts
  <2>4. PICK t \in Unrepaired \cup now : Younger(i, t)
    BY <2>2, <2>3
  <2>5. t \in rob_valid
    BY <1>5 DEF Unrepaired
  <2>6. t \notin Flushed(Flush)
    <3> SUFFICES ASSUME t \in Flushed(Flush) PROVE FALSE
      OBVIOUS
    <3>1. FlushEn /\ Flushed(Flush) = {j \in Tag : Younger(j, early_backend_flush_tag)}
      BY <1>4, FlushedParts
    <3>2. Younger(t, early_backend_flush_tag)
      BY <3>1
    <3>3. HeadIdx \in Tag /\ early_backend_flush_tag \in Tag
      BY CountFacts DEF ContractInv, RingInv, ContractTypes
    <3>4. Younger(i, early_backend_flush_tag)
      BY <1>2, <2>1, <2>4, <2>5, <3>2, <3>3, DepthAssumption, SMT DEF Younger, PtrSub, Tag
    <3> QED
      BY <1>2, <2>1, <3>1, <3>4
  <2> QED
    BY <1>1, <1>3, <2>1, <2>4, <2>5, <2>6, StepAges
<1> QED
  BY <1>7, <1>8

(* Whatever is younger than an unrepaired misprediction is on a wrong path.*)
LEMMA YoungerIsWrong ==
  ASSUME ContractInv, WrongPathInv, NEW req \in Bundles, NEW cdb \in CdbBundles(workload),
         NEW issue \in Issues, NEW mispredicted \in BOOLEAN, NEW st, NEW trap,
         Cycle(req, cdb, issue, mispredicted, st, trap),
         NEW t \in Unrepaired', NEW i \in rob_valid', Younger(i, t)'
  PROVE  i \in wrong_path'
<1> DEFINE wb    == Inputs(cdb, issue, mispredicted)
           w     == CommitWidth(wb, Flush, st)
           alloc == Allocated(AllocWidth(req, Flush))
           now   == Now(issue, mispredicted)
<1>1. Clock(req, wb, Flush, st)
  BY CycleParts
<1>2. rob_valid' \subseteq rob_valid \cup alloc /\ rob_valid \cap alloc = {}
  BY <1>1, ValidSets
<1>3. ~FlushAll
  BY <1>1, AllFlushed
<1>4. /\ t \in rob_valid' /\ t \in rob_mispredicted' /\ t \notin rob_early_recovered'
      /\ rob_class'[t] \in BranchClasses
  BY DEF Unrepaired
<1>5. t \in rob_valid
  BY <1>1, <1>2, <1>4, NewBranchIsLast
<1>6. t \in Unrepaired \cup now
  <2>1. /\ t \in rob_mispredicted \/ t \in now
        /\ t \notin rob_early_recovered
    BY <1>3, <1>4, <1>5, MispredictedStep
  <2>2. rob_class[t] \in BranchClasses
    BY <1>1, <1>4, <1>5, LiveKept
  <2> QED
    BY <1>5, <2>1, <2>2 DEF Unrepaired
<1>7. i \in wrong_path' <=> IF i \in alloc THEN now \cup Unrepaired # {}
                            ELSE i \in wrong_path \/ (i \in rob_valid /\ \E u \in now : Younger(i, u))
  BY WrongParts
<1> HIDE DEF wb, alloc, now
<1>8. i \notin alloc => i \in rob_valid /\ Younger(i, t)
  BY <1>1, <1>2, <1>4, <1>5, StepAges
<1> QED
  BY <1>6, <1>7, <1>8 DEF WrongPathInv

(* Behind a retired misprediction everything is on a wrong path.           *)
LEMMA BehindMisprediction ==
  ASSUME ContractInv, WrongPathInv, NEW req \in Bundles, NEW cdb \in CdbBundles(workload),
         NEW issue \in Issues, NEW mispredicted \in BOOLEAN, NEW st, NEW trap,
         Cycle(req, cdb, issue, mispredicted, st, trap),
         mispredict_recovery_pending', NEW i \in rob_valid'
  PROVE  i \in wrong_path'
<1> DEFINE wb    == Inputs(cdb, issue, mispredicted)
           alloc == Allocated(AllocWidth(req, Flush))
           now   == Now(issue, mispredicted)
<1>1. Clock(req, wb, Flush, st) /\ FlushControllerClock(wb, st)
  BY CycleParts
<1>2. HeadIdx \in Unrepaired /\ CommitWidth(wb, Flush, st) = 1
  BY <1>1, MispredictParts, MispredictionRetires
<1>3. /\ rob_valid' \subseteq rob_valid \cup alloc /\ rob_valid \subseteq Tag
      /\ \A j \in rob_valid : TagSub(j, HeadIdx) < 1 => j \notin rob_valid'
  BY <1>1, <1>2, ValidParts, SMT
<1>4. i \in wrong_path' <=> IF i \in alloc THEN now \cup Unrepaired # {}
                            ELSE i \in wrong_path \/ (i \in rob_valid /\ \E u \in now : Younger(i, u))
  BY WrongParts
<1> HIDE DEF wb, alloc, now
<1>5. ASSUME i \notin alloc PROVE i \in rob_valid /\ Younger(i, HeadIdx)
  <2>1. i \in rob_valid /\ ~(TagSub(i, HeadIdx) < 1)
    BY <1>3, <1>5
  <2>2. HeadIdx \in Tag /\ i \in Tag
    BY <1>2, <1>3, <2>1 DEF Unrepaired
  <2> QED
    BY <2>1, <2>2, DepthAssumption, SMT DEF Younger, PtrSub, TagSub, Tag
<1> QED
  BY <1>2, <1>4, <1>5 DEF WrongPathInv

(* So is everything behind the branch whose flush reaches the back end.    *)
LEMMA BehindEarlyRecovery ==
  ASSUME ContractInv, WrongPathInv, NEW req \in Bundles, NEW cdb \in CdbBundles(workload),
         NEW issue \in Issues, NEW mispredicted \in BOOLEAN, NEW st, NEW trap,
         Cycle(req, cdb, issue, mispredicted, st, trap),
         early_backend_recovery_pending', NEW i \in rob_valid',
         Younger(i, early_backend_flush_tag)'
  PROVE  i \in wrong_path'
<1> DEFINE alloc == Allocated(AllocWidth(req, Flush))
           now   == Now(issue, mispredicted)
<1>0. PICK t : t = early_mispredict_tag
  OBVIOUS
<1>1. Clock(req, Inputs(cdb, issue, mispredicted), Flush, st)
  BY CycleParts
<1>2. EarlyMispredictActive /\ early_backend_flush_tag' = t /\ t \in rob_valid'
  BY <1>0, BackendStep
<1>3. t \in Unrepaired
  BY <1>0, <1>2 DEF EarlyMispredictActive, ContractInv, RecoveringEarly, Unrepaired, BranchClasses
<1>4. rob_valid' \subseteq rob_valid \cup alloc
  BY <1>1, ValidSets
<1>5. i \in wrong_path' <=> IF i \in alloc THEN now \cup Unrepaired # {}
                            ELSE i \in wrong_path \/ (i \in rob_valid /\ \E u \in now : Younger(i, u))
  BY WrongParts
<1>6. Younger(i, t)'
  <2>1. PtrSub(i, HeadIdx') > PtrSub(early_backend_flush_tag', HeadIdx')
    BY DEF Younger
  <2> QED
    BY <1>2, <2>1 DEF Younger
<1> HIDE DEF alloc, now
<1>7. i \notin alloc => i \in rob_valid /\ Younger(i, t)
  BY <1>1, <1>2, <1>3, <1>4, <1>6, StepAges DEF Unrepaired
<1> QED
  BY <1>3, <1>5, <1>7 DEF WrongPathInv

(* A misprediction is only recorded for a branch that has resolved.        *)
LEMMA MispredictedIsDone ==
  ASSUME ContractInv, WrongPathInv, NEW req \in Bundles, NEW cdb \in CdbBundles(workload),
         NEW issue \in Issues, NEW mispredicted \in BOOLEAN, NEW st, NEW trap,
         Cycle(req, cdb, issue, mispredicted, st, trap),
         NEW i \in rob_valid' \cap rob_mispredicted'
  PROVE  i \in rob_done'
<1> DEFINE wb     == Inputs(cdb, issue, mispredicted)
           update == BranchUpdate(issue, mispredicted)
           alloc  == Allocated(AllocWidth(req, Flush))
<1>1. Clock(req, wb, Flush, st) /\ wb.branch = update
  BY CycleParts DEF Inputs
<1>2. rob_valid' \subseteq rob_valid \cup alloc
  BY <1>1, ValidSets
<1>3. /\ rob_mispredicted' = NextMispredicted(req, wb, Flush, alloc)
      /\ rob_done' = NextDone(req, wb, Flush, alloc)
  BY <1>1, ClockParts
<1>4. \A j \in rob_valid : j \notin alloc /\ (j \in rob_done => j \in rob_done')
  BY <1>1, LiveKept
<1> HIDE DEF wb, update, alloc
<1>5. CASE i \in TagsOf(Live(update, Flush))
  <2>1. Live(update, Flush) \subseteq Live(wb.cdb \cup wb.store \cup wb.branch, Flush)
    BY <1>1 DEF Live
  <2>2. i \in TagsOf(Live(wb.cdb \cup wb.store \cup wb.branch, Flush))
    <3>1. PICK b \in Live(update, Flush) : i = b.tag
      BY <1>5 DEF TagsOf
    <3> QED
      BY <2>1, <3>1 DEF TagsOf
  <2> QED
    BY <1>3, <2>2 DEF NextDone
<1>6. CASE i \notin TagsOf(Live(update, Flush))
  <2>1. i \in (rob_mispredicted \ alloc) \cup AllocatedAs(req, alloc, {"jal"})
    <3>1. TagsOf({b \in Live(update, Flush) : b.mispredicted}) \subseteq TagsOf(Live(update, Flush))
      BY DEF TagsOf
    <3> QED
      BY <1>1, <1>3, <1>6, <3>1 DEF NextMispredicted
  <2>2. AllocatedAs(req, alloc, {"jal"}) \subseteq alloc \cap AllocatedAs(req, alloc, DoneAtAlloc)
    BY DEF AllocatedAs, DoneAtAlloc
  <2>3. CASE i \in AllocatedAs(req, alloc, {"jal"})
    BY <1>3, <2>2, <2>3 DEF NextDone
  <2>4. CASE i \in rob_mispredicted \ alloc
    BY <1>2, <1>4, <2>4 DEF WrongPathInv
  <2> QED
    BY <2>1, <2>3, <2>4
<1> QED
  BY <1>5, <1>6

LEMMA WrongPathStep ==
  ASSUME ContractInv, WrongPathInv, NEW req \in Bundles, NEW cdb \in CdbBundles(workload),
         NEW issue \in Issues, NEW mispredicted \in BOOLEAN, NEW st, NEW trap,
         Cycle(req, cdb, issue, mispredicted, st, trap)
  PROVE  WrongPathInv'
<1>1. wrong_path' \subseteq rob_valid'
  BY WrongParts
<1>2. \A i \in rob_valid' \cap rob_mispredicted' : i \in rob_done'
  BY MispredictedIsDone
<1>3. \A t \in Unrepaired' : \A i \in rob_valid' : Younger(i, t)' => i \in wrong_path'
  BY YoungerIsWrong
<1>4. \A i \in wrong_path' :
        \/ mispredict_recovery_pending'
        \/ \E t \in rob_valid' \cap rob_mispredicted' :
             /\ rob_class'[t] \in BranchClasses /\ Younger(i, t)'
             /\ \/ t \in Unrepaired'
                \/ early_backend_recovery_pending' /\ t = early_backend_flush_tag'
  BY OriginOfEach
<1>5. mispredict_recovery_pending' => \A i \in rob_valid' : i \in wrong_path'
  BY BehindMisprediction
<1>6. early_backend_recovery_pending' =>
        \A i \in rob_valid' : Younger(i, early_backend_flush_tag)' => i \in wrong_path'
  BY BehindEarlyRecovery
<1> QED
  BY <1>1, <1>2, <1>3, <1>4, <1>5, <1>6 DEF WrongPathInv

LEMMA WrongPathInit == Init => WrongPathInv
<1> SUFFICES ASSUME Init PROVE WrongPathInv
  OBVIOUS
<1>1. /\ ~early_backend_recovery_pending /\ ~mispredict_recovery_pending
      /\ rob_valid = {} /\ wrong_path = {}
  BY DEF Init, RobInit
<1> QED
  BY <1>1 DEF WrongPathInv, Unrepaired

LEMMA WrongPathNext == ContractInv /\ WrongPathInv /\ [Next]_vars => WrongPathInv'
<1> SUFFICES ASSUME ContractInv, WrongPathInv, [Next]_vars PROVE WrongPathInv'
  OBVIOUS
<1>1. CASE Next
  BY <1>1, NextIsCycle, WrongPathStep
<1>2. CASE UNCHANGED vars
  BY <1>2 DEF vars, recoveryVars, robVars, WrongPathInv, Unrepaired, Younger, HeadIdx
<1> QED
  BY <1>1, <1>2

(* The head pointer moves by what retires, so the property's Retiring are  *)
(* the entries that commit.                                                *)
LEMMA RetiringIsCommitted ==
  ASSUME ContractInv, NEW req \in Bundles, NEW wb, NEW st, Clock(req, wb, Flush, st)
  PROVE  Retiring = Committed(CommitWidth(wb, Flush, st))
<1> DEFINE w == CommitWidth(wb, Flush, st)
<1>1. /\ w \in 0 .. 2 /\ Committed(w) = {i \in rob_valid : TagSub(i, HeadIdx) < w}
  BY ValidParts
<1>2. head_ptr' = PtrAdd(head_ptr, w) /\ head_ptr \in Ptr
  BY ClockParts DEF ContractInv, RingInv
<1> HIDE DEF w
<1>3. PtrSub(PtrAdd(head_ptr, w), head_ptr) = w
  BY <1>1, <1>2, DepthAssumption, SMT DEF PtrSub, PtrAdd, Ptr
<1> QED
  BY <1>1, <1>2, <1>3 DEF Retiring, w

LEMMA ExactStep ==
  ASSUME ContractInv, WrongPathInv, NEW req \in Bundles, NEW cdb \in CdbBundles(workload),
         NEW issue \in Issues, NEW mispredicted \in BOOLEAN, NEW st, NEW trap,
         Cycle(req, cdb, issue, mispredicted, st, trap)
  PROVE  /\ Retiring \cap wrong_path = {}
         /\ FlushAll \/ rob_valid \ (rob_valid' \cup Retiring) \subseteq wrong_path
<1> DEFINE wb == Inputs(cdb, issue, mispredicted)
           w  == CommitWidth(wb, Flush, st)
<1>1. Clock(req, wb, Flush, st) /\ wb.early = EarlyMark
  BY CycleParts DEF Inputs
<1>2. Retiring = Committed(w)
  BY <1>1, RetiringIsCommitted
<1>3. /\ rob_valid \ Flushed(Flush) \subseteq rob_valid' \cup Committed(w)
      /\ w \in 0 .. 2 /\ (w >= 1 => ~FlushAll /\ ~FlushEn) /\ rob_valid \subseteq Tag
      /\ Committed(w) = {i \in rob_valid : TagSub(i, HeadIdx) < w}
  BY <1>1, ValidParts, SMT
<1> HIDE DEF wb
<1>4. ASSUME NEW i \in Committed(w), i \in wrong_path PROVE FALSE
  <2>0. HeadIdx \in Tag /\ \A j \in Tag : TagSub(j, HeadIdx) \in 0 .. Depth - 1
    <3>1. HeadIdx \in Tag
      BY CountFacts DEF ContractInv, RingInv
    <3> QED
      BY <3>1, TagSubFacts DEF Tag
  <2>1. w >= 1 /\ ~FlushAll /\ ~FlushEn /\ i \in Tag /\ TagSub(i, HeadIdx) < w
    BY <1>3, <1>4, <2>0, SMT
  <2>2. ~mispredict_recovery_pending /\ ~early_backend_recovery_pending
    BY <2>1, FlushedParts
  <2>3. PICK t \in Unrepaired : Younger(i, t)
    BY <1>4, <2>2 DEF WrongPathInv
  <2>4. t \in Tag /\ t \in rob_valid /\ TagSub(i, HeadIdx) > TagSub(t, HeadIdx)
    BY <1>3, <2>0, <2>1, <2>3, AgeOrder DEF Younger, Unrepaired
  <2>5. w = 2 /\ TagSub(t, HeadIdx) < w
    BY <1>3, <2>0, <2>1, <2>4, SMT
  <2> QED
    BY <1>1, <1>3, <2>3, <2>4, <2>5, UnrepairedRetires, SMT
<1>5. ASSUME ~FlushAll, NEW i \in rob_valid, i \in Flushed(Flush) PROVE i \in wrong_path
  <2>1. CASE mispredict_recovery_pending
    BY <1>5, <2>1 DEF WrongPathInv
  <2>2. CASE ~mispredict_recovery_pending
    BY <1>5, <2>2, FlushedParts DEF WrongPathInv
  <2> QED
    BY <2>1, <2>2
<1> QED
  BY <1>2, <1>3, <1>4, <1>5

(* Recovery is exact: no entry fetched down a mispredicted path retires,   *)
(* and outside a full flush only such entries go without retiring.         *)
THEOREM RecoveryCorrect == Spec => RecoveryIsExact
<1> DEFINE Exact == /\ Retiring \cap wrong_path = {}
                    /\ FlushAll \/ rob_valid \ (rob_valid' \cup Retiring) \subseteq wrong_path
<1>1. ContractInv /\ WrongPathInv /\ [Next]_vars => [Exact]_vars
  <2> SUFFICES ASSUME ContractInv, WrongPathInv, Next PROVE Exact
    OBVIOUS
  <2> QED
    BY NextIsCycle, ExactStep
<1> HIDE DEF Exact
<1>2. Spec => [][Exact]_vars
  BY <1>1, ContractInit, ContractNext, WrongPathInit, WrongPathNext, PTL DEF Spec
<1> QED
  BY <1>2 DEF Exact, RecoveryIsExact

=============================================================================
