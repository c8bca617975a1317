-------------------------- MODULE CheckpointProofs --------------------------
(***************************************************************************)
(* Proofs about the checkpoint pool and the renames it restores, for every *)
(* depth of the reorder buffer, every number of checkpoints and every      *)
(* workload.                                                               *)
(*                                                                         *)
(* The one step that breaks the pool is the free a slot-2 hold repeats     *)
(* (StaleHoldFreesNothing), so the theorems are about the behaviours in    *)
(* which that free never names the checkpoint of a branch in flight.       *)
(***************************************************************************)
EXTENDS BranchRecoveryProofs

(* Steps are first-order unless they say otherwise: those that need        *)
(* arithmetic, or that reason about sets and functions by extension, say   *)
(* SMT.                                                                    *)
USE Zenon

-----------------------------------------------------------------------------
(* The invariants.                                                         *)

(* Types the pool and the table keep.                                      *)
PoolTypes ==
  /\ TypeOK /\ checkpoint_available \in BOOLEAN
  /\ DOMAIN ckpt_rat = Checkpoint /\ DOMAIN ckpt_meta = Checkpoint
  /\ \A c \in Checkpoint : ckpt_rat[c].tag \in Tag

GuardedIds == {rob_checkpoint_id[t] : t \in Guarded}

(* What is released is no longer guarded, what is handed out is free, and  *)
(* the branch under early recovery is recovered from its own checkpoint.   *)
PoolInv ==
  /\ PoolTypes /\ TrackersAgree /\ CheckpointsFollowBranches
  /\ checkpoint_available => checkpoint_alloc_id \notin checkpoint_in_use
  /\ early_mispredict_pending =>
       early_mispredict_checkpoint_id = rob_checkpoint_id[early_mispredict_tag]
  /\ mispredict_recovery_pending => OwnedBy(mispredict_commit_q)
  /\ (checkpoint_flush_free_mask_q \cup CheckpointFree) \cap GuardedIds = {}

(* The youngest of a set of entries, as a set of at most one.              *)
Youngest(S) == {t \in S : \A u \in S : ~Younger(u, t)}

OlderProducers(b) == {t \in Producers : Younger(b, t)}

(* What restoring checkpoint c would rename the register to.               *)
Restored(c) ==
  IF ckpt_rat[c].valid /\ RestoredTagStillLive(ckpt_meta[c], ckpt_rat[c])
  THEN {ckpt_rat[c].tag} ELSE {}

SameEpoch(t, epoch) == Epoch(t) = epoch

(* Every image names the youngest producer older than its branch, and so   *)
(* does the active entry from the restore to the flush; otherwise the      *)
(* active entry names the youngest of all, or a producer that just retired.*)
RenameInv ==
  /\ \A b \in Guarded :
       /\ ckpt_meta[rob_checkpoint_id[b]].tag = b
       /\ SameEpoch(b, ckpt_meta[rob_checkpoint_id[b]].epoch)
       /\ Restored(rob_checkpoint_id[b]) = Youngest(OlderProducers(b))
  /\ mispredict_recovery_pending =>
       ckpt_meta[mispredict_commit_q.id].tag \notin rob_valid
  /\ commit_q \cap rob_valid = {}
  /\ int_rat_valid /\ int_rat_tag \notin rob_valid => int_rat_tag \in commit_q
  /\ early_backend_recovery_pending => rob_class[early_backend_flush_tag] \in BranchClasses
  /\ Lookup = IF early_backend_recovery_pending
              THEN Youngest(OlderProducers(early_backend_flush_tag))
              ELSE Youngest(Producers)

-----------------------------------------------------------------------------
(* What a cycle does to the pool.                                          *)

Freed == checkpoint_flush_free_mask_q \cup CheckpointFree \cup CheckpointFree2

Saved(req) == IF CheckpointSave(req) THEN {checkpoint_alloc_id} ELSE {}

LEMMA TrackerParts ==
  ASSUME NEW req, NEW cdb, NEW issue, NEW mispredicted, NEW st, NEW trap,
         Cycle(req, cdb, issue, mispredicted, st, trap)
  PROVE  /\ FlushAll => checkpoint_in_use' = {} /\ checkpoint_valid' = {}
         /\ ~FlushAll => /\ checkpoint_in_use' = (checkpoint_in_use \ Freed) \cup Saved(req)
                         /\ checkpoint_valid' = (checkpoint_valid \ Freed) \cup Saved(req)
         /\ checkpoint_available' <=> checkpoint_valid' # Checkpoint
         /\ checkpoint_available' \in BOOLEAN
         /\ checkpoint_alloc_id' \in LowestFree(checkpoint_valid')
         /\ CheckpointSave(req) =>
              /\ checkpoint_owner_tag' =
                   [checkpoint_owner_tag EXCEPT ![checkpoint_alloc_id] = CheckpointBranchTag(req)]
              /\ rob_checkpoint_id' =
                   [rob_checkpoint_id EXCEPT ![CheckpointBranchTag(req)] = checkpoint_alloc_id]
         /\ ~CheckpointSave(req) => UNCHANGED << checkpoint_owner_tag, rob_checkpoint_id >>
         /\ wrong_path' \subseteq rob_valid'
<1> DEFINE freed     == checkpoint_flush_free_mask_q \cup CheckpointFree \cup CheckpointFree2
           committed == Committed(CommitWidth(Inputs(cdb, issue, mispredicted), Flush, st))
<1>1. /\ RatClock(req, FlushAll, CheckpointRestore, freed,
                  Allocated(AllocWidth(req, Flush)), committed)
      /\ CheckpointTracker(req, freed) /\ wrong_path' \subseteq rob_valid'
  BY DEF Cycle, Inputs, EarlyMark
<1>2. freed = Freed
  BY DEF Freed
<1> HIDE DEF freed, committed
<1>3. /\ checkpoint_valid' = NextCheckpointValid(req, FlushAll, freed)
      /\ checkpoint_available' <=> checkpoint_valid' # Checkpoint
      /\ checkpoint_available' \in BOOLEAN
      /\ checkpoint_alloc_id' \in LowestFree(checkpoint_valid')
  BY <1>1 DEF RatClock
<1>4. FlushAll => checkpoint_valid' = {}
  BY <1>3 DEF NextCheckpointValid
<1>5. ~FlushAll => checkpoint_valid' = (checkpoint_valid \ Freed) \cup Saved(req)
  BY <1>2, <1>3 DEF NextCheckpointValid, Saved
<1>6. /\ FlushAll => checkpoint_in_use' = {}
      /\ ~FlushAll => checkpoint_in_use' = (checkpoint_in_use \ Freed) \cup Saved(req)
  BY <1>1, <1>2 DEF CheckpointTracker, Saved
<1>7. /\ CheckpointSave(req) =>
           /\ checkpoint_owner_tag' =
                [checkpoint_owner_tag EXCEPT ![checkpoint_alloc_id] = CheckpointBranchTag(req)]
           /\ rob_checkpoint_id' =
                [rob_checkpoint_id EXCEPT ![CheckpointBranchTag(req)] = checkpoint_alloc_id]
      /\ ~CheckpointSave(req) => UNCHANGED << checkpoint_owner_tag, rob_checkpoint_id >>
  BY <1>1 DEF CheckpointTracker
<1> QED
  BY <1>1, <1>3, <1>4, <1>5, <1>6, <1>7

(* What a cycle does to the table.                                         *)
LEMMA RatParts ==
  ASSUME NEW req, NEW cdb, NEW issue, NEW mispredicted, NEW st, NEW trap,
         Cycle(req, cdb, issue, mispredicted, st, trap)
  PROVE  /\ int_rat_valid' = NextRat(req, FlushAll, CheckpointRestore).valid
         /\ int_rat_tag' = NextRat(req, FlushAll, CheckpointRestore).tag
         /\ CheckpointSave(req) /\ ~FlushAll =>
              /\ ckpt_rat' = [ckpt_rat EXCEPT ![checkpoint_alloc_id] = Snapshot(req)]
              /\ ckpt_meta' = [ckpt_meta EXCEPT ![checkpoint_alloc_id] =
                                 [epoch |-> ~Epoch(CheckpointBranchTag(req)),
                                  tag   |-> CheckpointBranchTag(req)]]
         /\ ~(CheckpointSave(req) /\ ~FlushAll) => UNCHANGED << ckpt_rat, ckpt_meta >>
         /\ rob_entry_epoch' = (rob_entry_epoch \ Allocated(AllocWidth(req, Flush)))
                                   \cup (Allocated(AllocWidth(req, Flush)) \ rob_entry_epoch)
         /\ FlushAll => commit_q' = {}
         /\ ~FlushAll =>
              commit_q' = {i \in Committed(CommitWidth(Inputs(cdb, issue, mispredicted), Flush, st)) :
                             rob_class[i] \in WritesReg}
<1> DEFINE freed     == checkpoint_flush_free_mask_q \cup CheckpointFree \cup CheckpointFree2
           alloc     == Allocated(AllocWidth(req, Flush))
           committed == Committed(CommitWidth(Inputs(cdb, issue, mispredicted), Flush, st))
<1>1. RatClock(req, FlushAll, CheckpointRestore, freed, alloc, committed)
  BY DEF Cycle, Inputs, EarlyMark
<1> HIDE DEF freed, committed, alloc
<1>2. ~FlushAll => commit_q' = {i \in committed : rob_class[i] \in WritesReg}
  BY <1>1 DEF RatClock
<1> QED
  BY <1>1, <1>2 DEF RatClock, committed, alloc

(* The registers of the commits that release a checkpoint.                 *)
LEMMA ReleaseParts ==
  ASSUME NEW wb, NEW st, FlushControllerClock(wb, st)
  PROVE  /\ correct_branch_commit_pending' <=> ~FlushAll /\ CommitCorrectBranchRaw(wb, Flush, st)
         /\ correct_branch_commit_pending' \in BOOLEAN
         /\ correct_branch_commit_q' =
              IF CommitCorrectBranchRaw(wb, Flush, st)
              THEN [tag |-> HeadIdx, id |-> rob_checkpoint_id[HeadIdx]]
              ELSE correct_branch_commit_q
         /\ mispredict_commit_q' =
              IF CommitIsMisprediction(wb, st)
              THEN [tag |-> HeadIdx, id |-> rob_checkpoint_id[HeadIdx]]
              ELSE mispredict_commit_q
         /\ ~FlushAll /\ CommitCorrectBranch2Raw(wb, Flush, st) => correct_branch_commit_pending_2'
         /\ correct_branch_commit_pending_2' \in BOOLEAN
         /\ correct_branch_commit_q_2' =
              IF CommitCorrectBranch2Raw(wb, Flush, st)
              THEN [tag |-> HeadNextIdx, id |-> rob_checkpoint_id[HeadNextIdx]]
              ELSE correct_branch_commit_q_2
         /\ checkpoint_flush_free_mask_q' =
              IF FlushAll \/ ~FlushEn THEN {}
              ELSE IF mispredict_recovery_pending THEN checkpoint_in_use
              ELSE {c \in checkpoint_in_use : Younger(checkpoint_owner_tag[c], FlushTag)}
BY DEF FlushControllerClock

-----------------------------------------------------------------------------
(* The pool.                                                               *)

(* The entries a bundle is given.                                          *)
LEMMA AllocParts ==
  ASSUME ContractInv, NEW req \in Bundles, NEW wb, NEW st, Clock(req, wb, Flush, st),
         NEW alloc, alloc = Allocated(AllocWidth(req, Flush))
  PROVE  /\ TailIdx \in Tag /\ TailIdx2 \in Tag /\ TailIdx # TailIdx2
         /\ TailIdx \in alloc <=> req.slot1 # NoReq
         /\ TailIdx2 \in alloc <=> req.slot2 # NoReq
         /\ alloc \subseteq {TailIdx, TailIdx2}
         /\ TailIdx2 \in alloc => AllocWidth(req, Flush) = 2
         /\ alloc # {} => ~FlushAll /\ ~FlushEn
         /\ \A t \in alloc : rob_class'[t] = IF t = TailIdx THEN req.slot1 ELSE req.slot2
<1>1. /\ AllocWidth(req, Flush) = RequestWidth(req)
      /\ AllocWidth(req, Flush) >= 1 => ~FlushAll /\ ~FlushEn
  BY ContractKept, AllocFacts, SMT DEF ContractInv, Flush
<1>2. req.slot2 # NoReq => req.slot1 # NoReq
  BY DEF Bundles, LegalBundle
<1>3. TailIdx \in Tag /\ TailIdx2 \in Tag /\ TailIdx # TailIdx2
  <2>1. TailIdx \in Tag /\ TailIdx2 \in Tag
    BY CountFacts DEF ContractInv, RingInv
  <2> QED
    BY <2>1, DepthAssumption, SMT DEF TailIdx2, TagAdd, Tag
<1>4. alloc = (IF req.slot1 # NoReq THEN {TailIdx} ELSE {})
                \cup (IF req.slot2 # NoReq THEN {TailIdx2} ELSE {})
  BY <1>1, <1>2, SMT DEF Allocated, RequestWidth
<1>5. \A t \in alloc : rob_class'[t] = IF t = TailIdx THEN req.slot1 ELSE req.slot2
  <2>1. rob_class' = NextClass(req, alloc)
    BY ClockParts
  <2>2. alloc \subseteq Tag
    BY <1>3, <1>4
  <2> QED
    BY <2>1, <2>2 DEF NextClass
<1>6. /\ req.slot2 # NoReq => AllocWidth(req, Flush) = 2
      /\ req.slot1 # NoReq => AllocWidth(req, Flush) >= 1
  BY <1>1, <1>2, SMT DEF RequestWidth
<1> QED
  BY <1>1, <1>2, <1>3, <1>4, <1>5, <1>6

(* A bundle with a branch saves one checkpoint, for that branch.           *)
LEMMA BundleParts ==
  ASSUME ContractInv, NEW req \in Bundles, NEW wb, NEW st, Clock(req, wb, Flush, st),
         NEW alloc, alloc = Allocated(AllocWidth(req, Flush))
  PROVE  /\ CheckpointSave(req) =>
              /\ ~FlushAll /\ ~FlushEn /\ checkpoint_available /\ ~early_mispredict_pending
              /\ DispatchValid /\ ~FullFlushSideEffectKill
              /\ CheckpointBranchTag(req) \in alloc /\ CheckpointBranchTag(req) \in Tag
              /\ rob_class'[CheckpointBranchTag(req)] \in BranchClasses
         /\ \A t \in alloc : rob_class'[t] \in BranchClasses =>
              CheckpointSave(req) /\ t = CheckpointBranchTag(req)
<1>1. /\ req.slot1 # NoReq => /\ DispatchValid /\ ~early_mispredict_pending
                              /\ ~FullFlushSideEffectKill
      /\ req.slot2 # NoReq => req.slot1 \notin BranchClasses \cup {NoReq}
      /\ CheckpointSave(req) => checkpoint_available
  BY DEF Bundles, LegalBundle
<1>2. NoReq \notin BranchClasses
  BY ClassAssumption DEF AllClasses
<1>3. /\ TailIdx \in Tag /\ TailIdx2 \in Tag /\ TailIdx # TailIdx2
      /\ TailIdx \in alloc <=> req.slot1 # NoReq
      /\ TailIdx2 \in alloc <=> req.slot2 # NoReq
      /\ alloc \subseteq {TailIdx, TailIdx2}
      /\ alloc # {} => ~FlushAll /\ ~FlushEn
      /\ \A t \in alloc : rob_class'[t] = IF t = TailIdx THEN req.slot1 ELSE req.slot2
  BY AllocParts
<1>4. ASSUME CheckpointSave(req)
      PROVE  /\ req.slot1 # NoReq /\ CheckpointBranchTag(req) \in alloc
             /\ CheckpointBranchTag(req) \in Tag
             /\ rob_class'[CheckpointBranchTag(req)] \in BranchClasses
  <2>1. req.slot1 \in BranchClasses \/ req.slot2 \in BranchClasses
    BY <1>4 DEF CheckpointSave
  <2> QED
    BY <1>1, <1>2, <1>3, <2>1 DEF CheckpointBranchTag
<1>5. ASSUME NEW t \in alloc, rob_class'[t] \in BranchClasses
      PROVE  CheckpointSave(req) /\ t = CheckpointBranchTag(req)
  BY <1>1, <1>2, <1>3, <1>5 DEF CheckpointSave, CheckpointBranchTag
<1> QED
  BY <1>1, <1>3, <1>4, <1>5

(* A branch that may be recovered keeps its checkpoint for another cycle,  *)
(* even if it leaves in this one.                                          *)
LEMMA GuardedKeeps ==
  ASSUME ContractInv, WrongPathInv, PoolInv, StaleHoldFreesNothing, NEW req \in Bundles,
         NEW cdb \in CdbBundles(workload), NEW issue \in Issues, NEW mispredicted \in BOOLEAN,
         NEW st, NEW trap \in BOOLEAN, Cycle(req, cdb, issue, mispredicted, st, trap), ~FlushAll,
         NEW t \in Guarded
  PROVE  /\ rob_checkpoint_id'[t] = rob_checkpoint_id[t]
         /\ rob_checkpoint_id[t] \in checkpoint_in_use' /\ rob_checkpoint_id[t] \in Checkpoint
         /\ checkpoint_owner_tag'[rob_checkpoint_id[t]] = t
<1> DEFINE c == rob_checkpoint_id[t]
<1>1. Clock(req, Inputs(cdb, issue, mispredicted), Flush, st)
  BY CycleParts
<1>2. /\ rob_checkpoint_id \in [Tag -> Checkpoint] /\ checkpoint_owner_tag \in [Checkpoint -> Tag]
      /\ checkpoint_in_use \subseteq Checkpoint
  BY DEF PoolInv, PoolTypes, TypeOK
<1>3. t \in rob_valid /\ t \in Tag /\ t \notin Allocated(AllocWidth(req, Flush))
  BY <1>1, LiveKept DEF Guarded
<1>4. c \in checkpoint_in_use /\ checkpoint_owner_tag[c] = t
  BY DEF PoolInv, CheckpointsFollowBranches, IssueCheckpointLive, OwnedBy
<1>5. c \notin Freed
  BY DEF PoolInv, GuardedIds, Freed, StaleHoldFreesNothing
<1>6. checkpoint_in_use' = (checkpoint_in_use \ Freed) \cup Saved(req)
  BY TrackerParts
<1>7. CASE CheckpointSave(req)
  <2>1. checkpoint_alloc_id # c /\ CheckpointBranchTag(req) # t
    BY <1>1, <1>3, <1>4, <1>7, BundleParts, SMT DEF PoolInv
  <2>2. /\ checkpoint_owner_tag' =
             [checkpoint_owner_tag EXCEPT ![checkpoint_alloc_id] = CheckpointBranchTag(req)]
        /\ rob_checkpoint_id' =
             [rob_checkpoint_id EXCEPT ![CheckpointBranchTag(req)] = checkpoint_alloc_id]
    BY <1>7, TrackerParts
  <2> QED
    BY <1>2, <1>3, <1>4, <1>5, <1>6, <2>1, <2>2
<1>8. CASE ~CheckpointSave(req)
  <2>1. UNCHANGED << checkpoint_owner_tag, rob_checkpoint_id >>
    BY <1>8, TrackerParts
  <2> QED
    BY <1>2, <1>4, <1>5, <1>6, <2>1
<1> QED
  BY <1>7, <1>8

(* Which branches may be recovered after a cycle.                          *)
LEMMA GuardedStep ==
  ASSUME ContractInv, WrongPathInv, PoolInv, StaleHoldFreesNothing, NEW req \in Bundles,
         NEW cdb \in CdbBundles(workload), NEW issue \in Issues, NEW mispredicted \in BOOLEAN,
         NEW st, NEW trap \in BOOLEAN, Cycle(req, cdb, issue, mispredicted, st, trap), ~FlushAll,
         NEW t \in Guarded'
  PROVE  \/ t \in Guarded /\ t \notin EarlyMark /\ t \in rob_valid
         \/ CheckpointSave(req) /\ t = CheckpointBranchTag(req) /\ t \notin rob_valid
<1> DEFINE alloc == Allocated(AllocWidth(req, Flush))
<1>1. Clock(req, Inputs(cdb, issue, mispredicted), Flush, st)
  BY CycleParts
<1>2. t \in rob_valid' /\ rob_class'[t] \in BranchClasses /\ t \notin rob_early_recovered'
  BY DEF Guarded
<1>3. rob_valid' \subseteq rob_valid \cup alloc /\ rob_valid \cap alloc = {}
  BY <1>1, ValidParts, SMT
<1>4. CASE t \in rob_valid
  BY <1>1, <1>2, <1>4, LiveKept, MispredictedStep DEF Guarded
<1>5. CASE t \notin rob_valid
  BY <1>1, <1>2, <1>3, <1>5, BundleParts
<1> QED
  BY <1>4, <1>5

(* Every branch that may be recovered owns its checkpoint.                 *)
LEMMA GuardedOwn ==
  ASSUME ContractInv, WrongPathInv, PoolInv, StaleHoldFreesNothing, NEW req \in Bundles,
         NEW cdb \in CdbBundles(workload), NEW issue \in Issues, NEW mispredicted \in BOOLEAN,
         NEW st, NEW trap \in BOOLEAN, Cycle(req, cdb, issue, mispredicted, st, trap), ~FlushAll,
         NEW t \in Guarded'
  PROVE  /\ rob_checkpoint_id'[t] \in checkpoint_in_use'
         /\ checkpoint_owner_tag'[rob_checkpoint_id'[t]] = t
<1>1. CASE t \in Guarded
  BY <1>1, GuardedKeeps
<1>2. CASE t \notin Guarded
  <2>1. CheckpointSave(req) /\ t = CheckpointBranchTag(req)
    BY <1>2, GuardedStep
  <2>2. /\ rob_checkpoint_id \in [Tag -> Checkpoint] /\ checkpoint_owner_tag \in [Checkpoint -> Tag]
        /\ checkpoint_alloc_id \in Checkpoint
    BY DEF PoolInv, PoolTypes, TypeOK
  <2>3. t \in Tag
    BY <2>1, BundleParts, CycleParts
  <2>4. checkpoint_alloc_id \in checkpoint_in_use'
    BY <2>1, TrackerParts DEF Saved
  <2>5. rob_checkpoint_id'[t] = checkpoint_alloc_id
    BY <2>1, <2>2, <2>3, TrackerParts, SMT
  <2>6. checkpoint_owner_tag'[checkpoint_alloc_id] = t
    BY <2>1, <2>2, <2>3, TrackerParts, SMT
  <2> QED
    BY <2>4, <2>5, <2>6
<1> QED
  BY <1>1, <1>2

(* A release in the next cycle names no branch that may be recovered then. *)
LEMMA ReleaseIsSafe ==
  ASSUME ContractInv, WrongPathInv, PoolInv, StaleHoldFreesNothing, NEW req \in Bundles,
         NEW cdb \in CdbBundles(workload), NEW issue \in Issues, NEW mispredicted \in BOOLEAN,
         NEW st, NEW trap \in BOOLEAN, Cycle(req, cdb, issue, mispredicted, st, trap), ~FlushAll,
         NEW t \in Guarded'
  PROVE  /\ rob_checkpoint_id'[t] \notin checkpoint_flush_free_mask_q'
         /\ rob_checkpoint_id'[t] \notin CheckpointFree'
<1> DEFINE wb == Inputs(cdb, issue, mispredicted)
           c  == rob_checkpoint_id'[t]
<1>1. /\ Clock(req, wb, Flush, st) /\ FlushControllerClock(wb, st)
      /\ EarlyRecoveryClock(BranchUpdate(issue, mispredicted))
  BY CycleParts
<1> HIDE DEF wb
<1>2. c \in checkpoint_in_use' /\ checkpoint_owner_tag'[c] = t
  BY GuardedOwn
<1>3. t \in rob_valid' /\ t \notin rob_early_recovered'
  BY DEF Guarded
<1>4. c \notin checkpoint_flush_free_mask_q'
  <2> SUFFICES ASSUME c \in checkpoint_flush_free_mask_q' PROVE FALSE
    OBVIOUS
  <2>1. /\ FlushEn /\ c \in checkpoint_in_use
        /\ ~mispredict_recovery_pending => Younger(checkpoint_owner_tag[c], FlushTag)
    BY <1>1, ReleaseParts
  <2>2. ~CheckpointSave(req)
    BY <1>1, <2>1, BundleParts
  <2>3. checkpoint_owner_tag[c] = t /\ t \in rob_valid
    BY <1>2, <2>2, GuardedStep, TrackerParts, SMT
  <2>4. t \notin Flushed(Flush) /\ t \in Tag
    BY <1>1, <1>3, <2>1, <2>3, ValidParts
  <2>5. ~mispredict_recovery_pending => FlushTag = early_backend_flush_tag
    BY <2>1 DEF FlushEn, FlushTag
  <2> QED
    BY <2>1, <2>3, <2>4, <2>5, FlushedParts
<1>5. CASE early_backend_recovery_pending'
  <2>1. EarlyMispredictActive /\ early_mispredict_tag \in Guarded
    BY <1>5, BackendStep DEF EarlyMispredictActive, ContractInv, RecoveringEarly, Guarded,
                             BranchClasses
  <2>2. EarlyCapture(BranchUpdate(issue, mispredicted)) = {}
    BY <2>1 DEF EarlyMispredictActive, EarlyCapture
  <2>3. early_mispredict_checkpoint_id' = rob_checkpoint_id[early_mispredict_tag]
    BY <1>1, <2>1, <2>2, EarlyParts DEF PoolInv, EarlyMispredictActive
  <2>4. c # early_mispredict_checkpoint_id'
    <3> SUFFICES ASSUME c = early_mispredict_checkpoint_id' PROVE FALSE
      OBVIOUS
    <3>1. t = early_mispredict_tag
      BY <1>2, <2>1, <2>3, GuardedKeeps
    <3> QED
      BY <2>1, <3>1, GuardedStep DEF EarlyMark, Guarded
  <2>5. CheckpointFree' \subseteq {early_mispredict_checkpoint_id'}
    BY <1>5 DEF CheckpointFree
  <2> QED
    BY <1>4, <2>4, <2>5
<1>6. CASE ~early_backend_recovery_pending' /\ mispredict_recovery_pending'
  <2>1. /\ CommitIsMisprediction(wb, st) /\ HeadIdx \in Guarded
        /\ mispredict_commit_q'.id = rob_checkpoint_id[HeadIdx]
        /\ CommitWidth(wb, Flush, st) = 1
    BY <1>1, <1>6, MispredictParts, MispredictionRetires, SMT DEF Unrepaired, Guarded
  <2>2. HeadIdx \notin rob_valid'
    <3>1. HeadIdx \in Committed(CommitWidth(wb, Flush, st))
      BY <2>1, SMT DEF Committed, ContractInv, RingInv, MasksFollowHead
    <3> QED
      BY <1>1, <3>1, ValidParts, SMT
  <2>3. c # rob_checkpoint_id[HeadIdx]
    BY <1>2, <1>3, <2>1, <2>2, GuardedKeeps
  <2>4. CheckpointFree' \subseteq {mispredict_commit_q'.id}
    BY <1>6 DEF CheckpointFree
  <2> QED
    BY <1>4, <2>1, <2>3, <2>4
<1>7. CASE ~early_backend_recovery_pending' /\ ~mispredict_recovery_pending'
  <2> SUFFICES ASSUME c \in CheckpointFree' PROVE FALSE
    BY <1>4
  <2>1. /\ correct_branch_commit_pending' /\ c = correct_branch_commit_q'.id
        /\ checkpoint_owner_tag'[c] = correct_branch_commit_q'.tag
    BY <1>7 DEF CheckpointFree, OwnedBy
  <2>2. CommitCorrectBranchRaw(wb, Flush, st) /\ correct_branch_commit_q'.tag = HeadIdx
    BY <1>1, <2>1, ReleaseParts, SMT
  <2>3. HeadIdx \notin rob_valid'
    <3>1. HeadIdx \in Committed(CommitWidth(wb, Flush, st))
      BY <2>2, SMT DEF CommitCorrectBranchRaw, CommitWidth, Committed, ContractInv, RingInv,
                  MasksFollowHead
    <3> QED
      BY <1>1, <3>1, ValidParts, SMT
  <2> QED
    BY <1>2, <1>3, <2>1, <2>2, <2>3
<1> QED
  BY <1>5, <1>6, <1>7

(* A branch that retires hands its checkpoint to the release channels.     *)
LEMMA RetiredIsReleased ==
  ASSUME ContractInv, WrongPathInv, PoolInv, StaleHoldFreesNothing, NEW req \in Bundles,
         NEW cdb \in CdbBundles(workload), NEW issue \in Issues, NEW mispredicted \in BOOLEAN,
         NEW st, NEW trap \in BOOLEAN, Cycle(req, cdb, issue, mispredicted, st, trap), ~FlushAll,
         NEW t \in Guarded,
         t \in Committed(CommitWidth(Inputs(cdb, issue, mispredicted), Flush, st)),
         (~FlushAll)'
  PROVE  rob_checkpoint_id[t] \in CheckpointFree' \cup CheckpointFree2'
<1> DEFINE wb == Inputs(cdb, issue, mispredicted)
           w  == CommitWidth(wb, Flush, st)
           c  == rob_checkpoint_id[t]
<1>1. Clock(req, wb, Flush, st) /\ FlushControllerClock(wb, st) /\ wb.early = EarlyMark
  BY CycleParts DEF Inputs
<1>2. c \in checkpoint_in_use' /\ checkpoint_owner_tag'[c] = t
  BY GuardedKeeps
<1>3. /\ head_clear_mask = {HeadIdx} /\ head_next_clear_mask = {HeadNextIdx}
      /\ w \in 0 .. 2
  BY RetireFacts DEF ContractInv, RingInv, MasksFollowHead
<1>4. w >= 1 /\ (t = HeadIdx \/ (t = HeadNextIdx /\ w = 2))
  BY <1>3, SMT DEF Committed
<1>5. ~early_backend_recovery_pending'
  BY <1>4, BackendStep, SMT
<1> HIDE DEF wb
<1>6. t \in rob_valid /\ rob_class[t] \in BranchClasses /\ t \notin rob_early_recovered
  BY DEF Guarded
<1>7. CommitEn(wb, Flush, st) /\ (w = 2 => Commit2Ready(wb, st))
  BY <1>3, <1>4, SMT DEF CommitWidth
<1>8. CASE t = HeadIdx /\ t \in rob_mispredicted
  <2>1. CommitIsMisprediction(wb, st)
    BY <1>1, <1>6, <1>8, UnrepairedRetires DEF Unrepaired, wb
  <2>2. mispredict_recovery_pending' /\ mispredict_commit_q'.id = c
    BY <1>1, <1>8, <2>1, MispredictParts, SMT
  <2> QED
    BY <1>5, <2>2 DEF CheckpointFree
<1>9. CASE t = HeadIdx /\ t \notin rob_mispredicted
  <2>1. CommitCorrectBranchRaw(wb, Flush, st)
    BY <1>3, <1>6, <1>7, <1>9 DEF CommitCorrectBranchRaw, HeadIs, OnehotRead
  <2>2. ~CommitIsMisprediction(wb, st)
    BY <1>3, <1>9 DEF CommitIsMisprediction, CommitMispredictionRaw, OnehotRead
  <2>3. ~mispredict_recovery_pending'
    BY <1>1, <2>2, MispredictParts
  <2>4. /\ correct_branch_commit_pending' /\ correct_branch_commit_q'.id = c
        /\ correct_branch_commit_q'.tag = t
    BY <1>1, <1>9, <2>1, ReleaseParts, SMT
  <2> QED
    BY <1>2, <1>5, <2>3, <2>4 DEF CheckpointFree, OwnedBy
<1>10. CASE t = HeadNextIdx /\ w = 2
  <2>1. ~OnehotRead(rob_mispredicted \cup rob_early_recovered, head_next_clear_mask)
          /\ HeadNextIs(BranchClasses)
    BY <1>3, <1>6, <1>7, <1>10 DEF Commit2Ready, HeadNextOk2Wide, HeadNextIs
  <2>2. CommitCorrectBranch2Raw(wb, Flush, st)
    BY <1>10, <2>1 DEF CommitCorrectBranch2Raw
  <2>3. /\ correct_branch_commit_pending_2' /\ correct_branch_commit_q_2'.id = c
        /\ correct_branch_commit_q_2'.tag = t
    BY <1>1, <1>10, <2>2, ReleaseParts, SMT
  <2> QED
    BY <1>2, <2>3 DEF CheckpointFree2, OwnedBy
<1> QED
  BY <1>4, <1>8, <1>9, <1>10

(* No checkpoint is lost.                                                  *)
LEMMA AllAccounted ==
  ASSUME ContractInv, WrongPathInv, PoolInv, StaleHoldFreesNothing, NEW req \in Bundles,
         NEW cdb \in CdbBundles(workload), NEW issue \in Issues, NEW mispredicted \in BOOLEAN,
         NEW st, NEW trap \in BOOLEAN, Cycle(req, cdb, issue, mispredicted, st, trap), ~FlushAll,
         NEW c \in checkpoint_in_use', (~FlushAll)'
  PROVE  \/ \E t \in Guarded' : c = rob_checkpoint_id'[t]
         \/ c \in checkpoint_flush_free_mask_q' \cup CheckpointFree' \cup CheckpointFree2'
<1> DEFINE wb    == Inputs(cdb, issue, mispredicted)
           w     == CommitWidth(wb, Flush, st)
           alloc == Allocated(AllocWidth(req, Flush))
<1>1. /\ Clock(req, wb, Flush, st) /\ FlushControllerClock(wb, st) /\ wb.early = EarlyMark
      /\ EarlyRecoveryClock(BranchUpdate(issue, mispredicted))
  BY CycleParts DEF Inputs
<1>2. /\ rob_valid' = ((rob_valid \ Flushed(Flush)) \cup alloc) \ Committed(w)
      /\ rob_valid \subseteq Tag /\ alloc \subseteq Tag /\ rob_valid \cap alloc = {}
      /\ Committed(w) \subseteq rob_valid
  BY <1>1, ValidParts, SMT
<1>3. c \in Saved(req) \/ c \in checkpoint_in_use \ Freed
  BY TrackerParts
<1> HIDE DEF wb, w, alloc
<1>4. CASE c \in Saved(req)
  <2>1. CheckpointSave(req) /\ c = checkpoint_alloc_id
    BY <1>4 DEF Saved
  <2>2. PICK t \in alloc : t = CheckpointBranchTag(req) /\ rob_class'[t] \in BranchClasses
    BY <1>1, <2>1, BundleParts DEF alloc
  <2>3. t \in rob_valid' /\ t \in Tag
    BY <1>2
  <2>4. EarlyMark = {}
    BY <1>1, <2>1, BundleParts DEF EarlyMark, EarlyMispredictActive
  <2>5. t \notin rob_early_recovered'
    BY <1>1, <2>4, ClockParts, SMT DEF NextEarlyRecovered, alloc
  <2>6. rob_checkpoint_id'[t] = c
    BY <2>1, <2>2, <2>3, TrackerParts, SMT DEF PoolInv, PoolTypes, TypeOK
  <2> QED
    BY <2>2, <2>3, <2>5, <2>6 DEF Guarded
<1>5. CASE c \in checkpoint_in_use \ Freed
  <2>1. Released = Freed
    BY DEF Released, Freed
  <2>2. PICK t \in Guarded : c = rob_checkpoint_id[t]
    BY <1>5, <2>1 DEF PoolInv, CheckpointsFollowBranches
  <2>3. /\ t \in rob_valid /\ rob_class[t] \in BranchClasses /\ t \notin rob_early_recovered
        /\ checkpoint_owner_tag[c] = t
    BY <2>2 DEF Guarded, PoolInv, CheckpointsFollowBranches, IssueCheckpointLive, OwnedBy
  <2>4. rob_checkpoint_id'[t] = c
    BY <2>2, GuardedKeeps
  <2>5. CASE t \in rob_valid' /\ t \notin EarlyMark
    BY <1>1, <2>3, <2>4, <2>5, LiveKept, MispredictedStep, SMT DEF Guarded
  <2>6. CASE t \in EarlyMark
    <3>1. EarlyMispredictActive /\ t = early_mispredict_tag
      BY <2>6 DEF EarlyMark
    <3>2. EarlyCapture(BranchUpdate(issue, mispredicted)) = {}
      BY <3>1 DEF EarlyMispredictActive, EarlyCapture
    <3>3. early_backend_recovery_pending' /\ early_mispredict_checkpoint_id' = c
      BY <1>1, <2>2, <3>1, <3>2, EarlyParts DEF PoolInv, EarlyMispredictActive
    <3> QED
      BY <3>3 DEF CheckpointFree
  <2>7. CASE t \in Flushed(Flush)
    <3>1. FlushEn
      BY <2>7, FlushedParts
    <3>2. ~mispredict_recovery_pending => FlushTag = early_backend_flush_tag
      BY <3>1 DEF FlushEn, FlushTag
    <3>3. ~mispredict_recovery_pending => Younger(checkpoint_owner_tag[c], FlushTag)
      BY <2>3, <2>7, <3>1, <3>2, FlushedParts
    <3> QED
      BY <1>1, <1>5, <3>1, <3>3, ReleaseParts
  <2>8. CASE t \in Committed(w)
    BY <2>2, <2>8, RetiredIsReleased DEF w, wb
  <2> QED
    BY <1>2, <2>3, <2>5, <2>6, <2>7, <2>8
<1> QED
  BY <1>3, <1>4, <1>5

(* The next active entry, by the priority of restore, flush, rename and    *)
(* commit.                                                                 *)
LEMMA RestoreParts ==
  ASSUME NEW req, NEW all, NEW c
  PROVE  /\ NextRat(req, all, {c}).valid <=>
              ckpt_rat[c].valid /\ RestoredTagStillLive(ckpt_meta[c], ckpt_rat[c])
         /\ NextRat(req, all, {c}).tag = ckpt_rat[c].tag
<1> DEFINE live == ckpt_rat[c].valid /\ RestoredTagStillLive(ckpt_meta[c], ckpt_rat[c])
<1>1. NextRat(req, all, {c}) = [valid |-> live, tag |-> ckpt_rat[c].tag]
  <2>1. {c} # {} /\ (CHOOSE d \in {c} : TRUE) = c
    OBVIOUS
  <2> QED
    BY <2>1 DEF NextRat
<1> HIDE DEF live
<1>2. NextRat(req, all, {c}).valid = live /\ NextRat(req, all, {c}).tag = ckpt_rat[c].tag
  BY <1>1, SMT
<1> QED
  BY <1>2 DEF live

LEMMA RenameParts ==
  ASSUME NEW req, NEW all, all \in BOOLEAN
  PROVE  /\ all => ~NextRat(req, all, {}).valid /\ NextRat(req, all, {}).tag = int_rat_tag
         /\ ~all /\ req.slot2 \in WritesReg =>
              NextRat(req, all, {}).valid /\ NextRat(req, all, {}).tag = TailIdx2
         /\ ~all /\ req.slot2 \notin WritesReg /\ req.slot1 \in WritesReg =>
              NextRat(req, all, {}).valid /\ NextRat(req, all, {}).tag = TailIdx
         /\ ~all /\ req.slot2 \notin WritesReg /\ req.slot1 \notin WritesReg =>
              /\ NextRat(req, all, {}).valid <=> int_rat_valid /\ int_rat_tag \notin commit_q
              /\ NextRat(req, all, {}).tag = int_rat_tag
<1>1. all => NextRat(req, all, {}) = [valid |-> FALSE, tag |-> int_rat_tag]
  BY DEF NextRat
<1>2. ~all /\ req.slot2 \in WritesReg => NextRat(req, all, {}) = [valid |-> TRUE, tag |-> TailIdx2]
  BY DEF NextRat
<1>3. ~all /\ req.slot2 \notin WritesReg /\ req.slot1 \in WritesReg =>
        NextRat(req, all, {}) = [valid |-> TRUE, tag |-> TailIdx]
  BY DEF NextRat
<1> DEFINE kept == int_rat_valid /\ int_rat_tag \notin commit_q
<1>4. ~all /\ req.slot2 \notin WritesReg /\ req.slot1 \notin WritesReg =>
        NextRat(req, all, {}) = [valid |-> kept, tag |-> int_rat_tag]
  BY DEF NextRat
<1> HIDE DEF kept
<1>5. ~all /\ req.slot2 \notin WritesReg /\ req.slot1 \notin WritesReg =>
        NextRat(req, all, {}).valid = kept /\ NextRat(req, all, {}).tag = int_rat_tag
  BY <1>4, SMT
<1>6. ~all /\ req.slot2 \notin WritesReg /\ req.slot1 \notin WritesReg =>
        /\ NextRat(req, all, {}).valid <=> int_rat_valid /\ int_rat_tag \notin commit_q
        /\ NextRat(req, all, {}).tag = int_rat_tag
  BY <1>5 DEF kept
<1> QED
  BY <1>1, <1>2, <1>3, <1>6, SMT

(* What is restored in a cycle.                                            *)
LEMMA RestoreChoice ==
  /\ FlushAll => CheckpointRestore = {}
  /\ ~FlushAll /\ EarlyMispredictActive => CheckpointRestore = {early_mispredict_checkpoint_id}
  /\ ~FlushAll /\ ~EarlyMispredictActive /\ mispredict_recovery_pending =>
       CheckpointRestore = {mispredict_commit_q.id}
  /\ ~EarlyMispredictActive /\ ~mispredict_recovery_pending => CheckpointRestore = {}
BY DEF CheckpointRestore

LEMMA PoolTypesStep ==
  ASSUME ContractInv, WrongPathInv, PoolInv, StaleHoldFreesNothing, NEW req \in Bundles,
         NEW cdb \in CdbBundles(workload), NEW issue \in Issues, NEW mispredicted \in BOOLEAN,
         NEW st, NEW trap \in BOOLEAN, Cycle(req, cdb, issue, mispredicted, st, trap)
  PROVE  PoolTypes'
<1> DEFINE wb == Inputs(cdb, issue, mispredicted)
<1>1. /\ Clock(req, wb, Flush, st) /\ FlushControllerClock(wb, st)
      /\ EarlyRecoveryClock(BranchUpdate(issue, mispredicted))
      /\ trap_taken_reg' \in BOOLEAN /\ if_valid_q' \in BOOLEAN /\ pd_valid_q' \in BOOLEAN
  BY CycleParts
<1>2. PoolTypes /\ TypeOK
  BY DEF PoolInv, PoolTypes
<1>3. /\ HeadIdx \in Tag /\ HeadNextIdx \in Tag /\ TailIdx \in Tag /\ TailIdx2 \in Tag
      /\ rob_valid \subseteq Tag
  BY <1>1, CountFacts, LiveKept DEF ContractInv, RingInv
<1>4. /\ rob_checkpoint_id \in [Tag -> Checkpoint] /\ checkpoint_owner_tag \in [Checkpoint -> Tag]
      /\ checkpoint_in_use \subseteq Checkpoint /\ checkpoint_alloc_id \in Checkpoint
      /\ checkpoint_valid = checkpoint_in_use /\ int_rat_tag \in Tag
      /\ early_mispredict_checkpoint_id \in Checkpoint /\ mispredict_commit_q \in Captures
      /\ correct_branch_commit_q \in Captures /\ correct_branch_commit_q_2 \in Captures
  BY <1>2 DEF TypeOK, PoolInv, TrackersAgree
<1> HIDE DEF wb
<1>5. ContractTypes'
  BY ContractTypesStep
<1>6. early_mispredict_checkpoint_id' \in Checkpoint
  <2>1. \A t \in EarlyCapture(BranchUpdate(issue, mispredicted)) : t \in rob_valid
    BY UpdateFacts, SMT DEF EarlyCapture
  <2> QED
    BY <1>1, <1>3, <1>4, <2>1, EarlyParts
<1>7. /\ mispredict_commit_q' \in Captures /\ correct_branch_commit_q' \in Captures
      /\ correct_branch_commit_q_2' \in Captures
      /\ correct_branch_commit_pending' \in BOOLEAN /\ correct_branch_commit_pending_2' \in BOOLEAN
  <2>1. \A t \in Tag : [tag |-> t, id |-> rob_checkpoint_id[t]] \in Captures
    BY <1>4 DEF Captures
  <2> QED
    BY <1>1, <1>3, <1>4, <2>1, ReleaseParts
<1>8. checkpoint_flush_free_mask_q' \subseteq Checkpoint
  BY <1>1, <1>4, ReleaseParts
<1>9. checkpoint_in_use' \subseteq Checkpoint /\ checkpoint_valid' \subseteq Checkpoint
  BY <1>4, TrackerParts DEF Saved
<1>10. checkpoint_owner_tag' \in [Checkpoint -> Tag] /\ rob_checkpoint_id' \in [Tag -> Checkpoint]
  <2>1. CASE CheckpointSave(req)
    <3>1. /\ checkpoint_owner_tag' =
               [checkpoint_owner_tag EXCEPT ![checkpoint_alloc_id] = CheckpointBranchTag(req)]
          /\ rob_checkpoint_id' =
               [rob_checkpoint_id EXCEPT ![CheckpointBranchTag(req)] = checkpoint_alloc_id]
      BY <2>1, TrackerParts
    <3>2. CheckpointBranchTag(req) \in Tag
      BY <1>1, <2>1, BundleParts
    <3> QED
      BY <1>4, <3>1, <3>2
  <2>2. CASE ~CheckpointSave(req)
    BY <1>4, <2>2, TrackerParts
  <2> QED
    BY <2>1, <2>2
<1>11. checkpoint_alloc_id' \in Checkpoint
  <2>1. 0 \in Checkpoint
    BY CheckpointAssumption, SMT DEF Checkpoint
  <2> QED
    BY <2>1, TrackerParts DEF LowestFree
<1>12. \A c \in Checkpoint : ckpt_rat'[c].tag \in Tag
  <2>1. Snapshot(req).tag \in Tag
    BY <1>3, <1>4 DEF Snapshot
  <2> QED
    BY <1>2, <1>4, <2>1, RatParts, SMT DEF PoolTypes
<1>13. DOMAIN ckpt_rat' = Checkpoint /\ DOMAIN ckpt_meta' = Checkpoint
  BY <1>2, RatParts DEF PoolTypes
<1>14. int_rat_tag' \in Tag
  <2>1. int_rat_tag' = NextRat(req, FlushAll, CheckpointRestore).tag
    BY RatParts
  <2>2. FlushAll \in BOOLEAN
    BY DEF FlushAll, ContractInv, ContractTypes
  <2>3. CASE CheckpointRestore = {}
    <3>1. NextRat(req, FlushAll, {}).tag \in Tag
      BY <1>3, <1>4, <2>2, RenameParts
    <3> QED
      BY <2>1, <2>3, <3>1
  <2>4. CASE \E c \in Checkpoint : CheckpointRestore = {c}
    <3>1. PICK c \in Checkpoint : CheckpointRestore = {c}
      BY <2>4
    <3> QED
      BY <1>2, <2>1, <3>1, RestoreParts DEF PoolTypes
  <2>5. mispredict_commit_q.id \in Checkpoint
    BY <1>4 DEF Captures
  <2> QED
    BY <1>4, <2>3, <2>4, <2>5, RestoreChoice
<1>15. wrong_path' \subseteq rob_valid' /\ checkpoint_available' \in BOOLEAN
  BY TrackerParts
<1>16. TypeOK'
  BY <1>1, <1>5, <1>6, <1>7, <1>8, <1>9, <1>10, <1>11, <1>14, <1>15 DEF TypeOK, ContractTypes
<1> QED
  BY <1>12, <1>13, <1>15, <1>16 DEF PoolTypes

LEMMA PoolStep ==
  ASSUME ContractInv, WrongPathInv, PoolInv, StaleHoldFreesNothing, NEW req \in Bundles,
         NEW cdb \in CdbBundles(workload), NEW issue \in Issues, NEW mispredicted \in BOOLEAN,
         NEW st, NEW trap \in BOOLEAN, Cycle(req, cdb, issue, mispredicted, st, trap)
  PROVE  PoolInv'
<1> DEFINE wb == Inputs(cdb, issue, mispredicted)
<1>1. /\ Clock(req, wb, Flush, st) /\ FlushControllerClock(wb, st)
      /\ EarlyRecoveryClock(BranchUpdate(issue, mispredicted))
  BY CycleParts
<1> HIDE DEF wb
<1>2. PoolTypes'
  BY PoolTypesStep
<1>3. checkpoint_in_use' = checkpoint_valid' /\ checkpoint_in_use' \subseteq Checkpoint
  <2>1. checkpoint_in_use = checkpoint_valid
    BY DEF PoolInv, TrackersAgree
  <2>2. checkpoint_in_use' = checkpoint_valid'
    BY <2>1, TrackerParts
  <2> QED
    BY <1>2, <2>2 DEF PoolTypes, TypeOK
<1>4. FlushAll => Guarded' = {} /\ checkpoint_in_use' = {}
  BY <1>1, AllFlushed, TrackerParts DEF Guarded
<1>5. \A t \in Guarded' : /\ rob_checkpoint_id'[t] \in checkpoint_in_use'
                          /\ checkpoint_owner_tag'[rob_checkpoint_id'[t]] = t
  BY <1>4, GuardedOwn
<1>6. \A c \in checkpoint_in_use' : c \in Released' \/ \E t \in Guarded' : c = rob_checkpoint_id'[t]
  <2> SUFFICES ASSUME NEW c \in checkpoint_in_use', c \notin Released'
               PROVE  \E t \in Guarded' : c = rob_checkpoint_id'[t]
    OBVIOUS
  <2>1. (~FlushAll)'
    BY DEF Released
  <2>2. c \notin checkpoint_flush_free_mask_q' \cup CheckpointFree' \cup CheckpointFree2'
    BY <2>1 DEF Released
  <2> QED
    BY <1>4, <2>1, <2>2, AllAccounted
<1>7. CheckpointsFollowBranches'
  <2>1. \A t \in Guarded' : IssueCheckpointLive(t)'
    BY <1>5 DEF IssueCheckpointLive, OwnedBy
  <2> QED
    BY <1>6, <2>1 DEF CheckpointsFollowBranches
<1>8. checkpoint_available' => checkpoint_alloc_id' \notin checkpoint_in_use'
  BY <1>3, TrackerParts DEF LowestFree
<1>9. early_mispredict_pending' =>
        early_mispredict_checkpoint_id' = rob_checkpoint_id'[early_mispredict_tag']
  <2> SUFFICES ASSUME early_mispredict_pending'
               PROVE  early_mispredict_checkpoint_id' = rob_checkpoint_id'[early_mispredict_tag']
    OBVIOUS
  <2>1. ~FlushAll /\ EarlyCapture(BranchUpdate(issue, mispredicted)) # {}
    BY <1>1, EarlyParts DEF EarlyFire
  <2>2. PICK t \in EarlyCapture(BranchUpdate(issue, mispredicted)) :
               early_mispredict_tag' = t /\ early_mispredict_checkpoint_id' = rob_checkpoint_id[t]
    BY <1>1, <2>1, EarlyParts
  <2>3. t \in Guarded
    BY UpdateFacts, SMT DEF EarlyCapture, Guarded, BranchClasses, ContractInv
  <2> QED
    BY <2>1, <2>2, <2>3, GuardedKeeps
<1>10. mispredict_recovery_pending' => OwnedBy(mispredict_commit_q)'
  <2> SUFFICES ASSUME mispredict_recovery_pending' PROVE OwnedBy(mispredict_commit_q)'
    OBVIOUS
  <2>1. ~FlushAll /\ HeadIdx \in Guarded
    BY <1>1, MispredictParts, MispredictionRetires DEF Unrepaired, Guarded
  <2>2. mispredict_commit_q'.tag = HeadIdx /\ mispredict_commit_q'.id = rob_checkpoint_id[HeadIdx]
    BY <1>1, MispredictParts, SMT
  <2> QED
    BY <2>1, <2>2, GuardedKeeps DEF OwnedBy
<1>11. (checkpoint_flush_free_mask_q' \cup CheckpointFree') \cap GuardedIds' = {}
  <2>1. \A t \in Guarded' : rob_checkpoint_id'[t] \notin checkpoint_flush_free_mask_q' \cup CheckpointFree'
    BY <1>4, ReleaseIsSafe
  <2> QED
    BY <2>1 DEF GuardedIds
<1> QED
  BY <1>2, <1>3, <1>7, <1>8, <1>9, <1>10, <1>11 DEF PoolInv, TrackersAgree

LEMMA PoolInit == Init => PoolInv
<1> SUFFICES ASSUME Init PROVE PoolInv
  OBVIOUS
<1>1. 0 \in Tag /\ 0 \in Checkpoint
  BY DepthAssumption, CheckpointAssumption, SMT DEF Tag, Checkpoint
<1>2. /\ ~early_mispredict_pending /\ ~early_backend_recovery_pending
      /\ ~mispredict_recovery_pending /\ rob_valid = {}
      /\ checkpoint_valid = {} /\ checkpoint_in_use = {} /\ checkpoint_flush_free_mask_q = {}
  BY DEF Init, RobInit, RatInit
<1>3. TypeOK
  <2>1. [tag |-> 0, id |-> 0] \in Captures
    BY <1>1 DEF Captures
  <2>2. /\ [c \in Checkpoint |-> 0] \in [Checkpoint -> Tag]
        /\ [i \in Tag |-> 0] \in [Tag -> Checkpoint]
    BY <1>1
  <2>3. wrong_path \subseteq rob_valid /\ {} \subseteq Checkpoint
    BY DEF Init
  <2> QED
    BY <1>1, <2>1, <2>2, <2>3 DEF Init, RatInit, TypeOK
<1>4. PoolTypes
  <2>1. checkpoint_available \in BOOLEAN
    BY DEF Init, RatInit
  <2>2. /\ ckpt_rat = [c \in Checkpoint |-> [valid |-> FALSE, epoch |-> FALSE, tag |-> 0]]
        /\ ckpt_meta = [c \in Checkpoint |-> [epoch |-> FALSE, tag |-> 0]]
    BY DEF Init, RatInit
  <2> QED
    BY <1>1, <1>3, <2>1, <2>2 DEF PoolTypes
<1>5. Guarded = {}
  BY <1>2 DEF Guarded
<1> QED
  BY <1>2, <1>4, <1>5 DEF PoolInv, TrackersAgree, CheckpointsFollowBranches, GuardedIds

LEMMA PoolNext ==
  ContractInv /\ WrongPathInv /\ PoolInv /\ StaleHoldFreesNothing /\ [Next]_vars => PoolInv'
<1> SUFFICES ASSUME ContractInv, WrongPathInv, PoolInv, StaleHoldFreesNothing, [Next]_vars
             PROVE  PoolInv'
  OBVIOUS
<1>1. CASE Next
  BY <1>1, NextIsCycle, PoolStep
<1>2. CASE UNCHANGED vars
  <2>1. UNCHANGED recoveryVars /\ UNCHANGED ratVars /\ UNCHANGED robVars
    BY <1>2 DEF vars
  <2>2. PoolTypes'
    BY <2>1 DEF recoveryVars, ratVars, robVars, PoolInv, PoolTypes, TypeOK
  <2>3. Guarded' = Guarded /\ FlushAll' = FlushAll
    BY <2>1 DEF recoveryVars, ratVars, robVars, Guarded, FlushAll, fence_i_flush
  <2>4. /\ CheckpointFree' = CheckpointFree /\ CheckpointFree2' = CheckpointFree2
        /\ GuardedIds' = GuardedIds
    BY <2>1, <2>3 DEF recoveryVars, CheckpointFree, CheckpointFree2, OwnedBy, GuardedIds
  <2>5. Released' = Released
    BY <2>1, <2>3, <2>4 DEF recoveryVars, Released
  <2>6. TrackersAgree'
    BY <2>1 DEF recoveryVars, ratVars, PoolInv, TrackersAgree
  <2>7. CheckpointsFollowBranches'
    <3>1. \A t \in Guarded' : IssueCheckpointLive(t)' = IssueCheckpointLive(t)
      <4>1. /\ rob_checkpoint_id' = rob_checkpoint_id /\ checkpoint_in_use' = checkpoint_in_use
            /\ checkpoint_owner_tag' = checkpoint_owner_tag
        BY <2>1 DEF recoveryVars
      <4> QED
        BY <4>1 DEF IssueCheckpointLive, OwnedBy
    <3>2. checkpoint_in_use' \subseteq GuardedIds' \cup Released'
      BY <2>1, <2>4, <2>5 DEF recoveryVars, PoolInv, CheckpointsFollowBranches, GuardedIds
    <3> QED
      BY <2>3, <3>1, <3>2 DEF PoolInv, CheckpointsFollowBranches, GuardedIds
  <2>8. OwnedBy(mispredict_commit_q)' = OwnedBy(mispredict_commit_q)
    BY <2>1 DEF recoveryVars, ratVars, OwnedBy
  <2> QED
    BY <2>1, <2>2, <2>4, <2>6, <2>7, <2>8 DEF recoveryVars, ratVars, PoolInv
<1> QED
  BY <1>1, <1>2

(* The pool of checkpoints is kept right by both trackers: they agree, no  *)
(* checkpoint is lost, freed early or owned twice, and what is restored is *)
(* the recovered branch's own, as long as no slot-2 hold frees the         *)
(* checkpoint of a branch in flight (misprediction_flush_controller.sv).   *)
THEOREM PoolCorrect == Spec /\ []StaleHoldFreesNothing => []CheckpointsOwned
<1>1. ContractInv /\ PoolInv => CheckpointsOwned
  <2> SUFFICES ASSUME ContractInv, PoolInv PROVE CheckpointsOwned
    OBVIOUS
  <2>1. TypeOK /\ TrackersAgree /\ CheckpointsFollowBranches
    BY DEF PoolInv, PoolTypes
  <2>2. EarlyMispredictActive =>
          OwnedBy([tag |-> early_mispredict_tag, id |-> early_mispredict_checkpoint_id])
    BY <2>1 DEF EarlyMispredictActive, ContractInv, RecoveringEarly, PoolInv, Guarded, BranchClasses,
                CheckpointsFollowBranches, IssueCheckpointLive
  <2>3. RestoreIsOwned
    BY <2>2 DEF RestoreIsOwned, PoolInv
  <2> QED
    BY <2>1, <2>3 DEF CheckpointsOwned
<1> QED
  BY <1>1, PoolInit, PoolNext, WrongPathInit, WrongPathNext, ContractInit, ContractNext, PTL DEF Spec

-----------------------------------------------------------------------------
(* The renames.                                                            *)

(* Age is a total order on tags.                                           *)
LEMMA AgeTotal ==
  ASSUME NEW h \in Tag, NEW i \in Tag, NEW t \in Tag
  PROVE  /\ PtrSub(i, h) \in Int /\ PtrSub(t, h) \in Int
         /\ i # t => PtrSub(i, h) > PtrSub(t, h) \/ PtrSub(t, h) > PtrSub(i, h)
BY DepthAssumption, SMT DEF Tag, PtrSub

LEMMA AgeFacts ==
  ASSUME ContractInv, NEW req \in Bundles, NEW wb, NEW st, Clock(req, wb, Flush, st)
  PROVE  \A i, t \in Tag : /\ ~Younger(i, i) /\ ~Younger(i, i)'
                           /\ ~(Younger(i, t) /\ Younger(t, i)) /\ ~(Younger(i, t)' /\ Younger(t, i)')
                           /\ i # t => Younger(i, t)' \/ Younger(t, i)'
<1>1. HeadIdx \in Tag
  BY CountFacts DEF ContractInv, RingInv
<1>2. head_ptr' \in Ptr
  BY ContractKept, WindowStep DEF ContractInv
<1>3. HeadIdx' \in Tag
  BY <1>2, FullDistance DEF HeadIdx
<1> QED
  BY <1>1, <1>3, AgeTotal, SMT DEF Younger

(* The second instruction of a bundle is the younger one.                  *)
LEMMA SlotOrder ==
  ASSUME ContractInv, NEW req \in Bundles, NEW wb, NEW st, Clock(req, wb, Flush, st),
         AllocWidth(req, Flush) = 2, NEW i, i = TailIdx2, NEW t, t = TailIdx
  PROVE  Younger(i, t)'
<1> DEFINE w == CommitWidth(wb, Flush, st)
<1>1. Count + 2 <= Depth /\ ~FlushAll /\ ~FlushEn
  BY ContractKept, AllocFacts, SMT DEF ContractInv, Flush
<1>2. head_ptr \in Ptr /\ HeadIdx \in Tag /\ Count \in 0 .. 2 * Depth - 1 /\ t \in Tag /\ i \in Tag
  BY CountFacts DEF ContractInv, RingInv
<1>3. Count < Depth /\ t = TagAdd(HeadIdx, Count) /\ i = TagAdd(t, 1)
  BY <1>1, <1>2, CountFacts, DepthAssumption, SMT DEF ContractInv, RingInv, TailIdx2
<1>4. TagSub(t, HeadIdx) = Count /\ TagSub(i, HeadIdx) = Count + 1
  BY <1>1, <1>2, <1>3, DepthAssumption, SMT DEF Tag, TagAdd, TagSub
<1>5. w \in 0 .. 2 /\ w <= Count /\ head_ptr' = PtrAdd(head_ptr, w)
  BY RetireFacts, ClockParts DEF ContractInv
<1> HIDE DEF w
<1>6. HeadIdx' = TagAdd(HeadIdx, w)
  BY <1>2, <1>5, PtrAddIdx, DepthAssumption, SMT DEF HeadIdx
<1>7. HeadIdx' \in Tag
  BY <1>2, <1>5, <1>6, DepthAssumption, SMT DEF TagAdd, Tag
<1>8. TagSub(t, HeadIdx') = Count - w /\ TagSub(i, HeadIdx') = Count + 1 - w
  BY <1>2, <1>4, <1>5, <1>6, AgeShift, SMT
<1>9. TagSub(i, HeadIdx') > TagSub(t, HeadIdx')
  BY <1>2, <1>5, <1>8, SMT
<1> QED
  BY <1>2, <1>7, <1>9, AgeOrder DEF Younger

(* Epochs change only where entries are allocated, and there they do.      *)
LEMMA EpochParts ==
  ASSUME NEW alloc, rob_entry_epoch' = (rob_entry_epoch \ alloc) \cup (alloc \ rob_entry_epoch),
         NEW t, NEW x
  PROVE  /\ t \notin alloc => (SameEpoch(t, x)' <=> SameEpoch(t, x))
         /\ t \in alloc => (Epoch(t)' <=> ~Epoch(t))
<1>1. t \notin alloc => (t \in rob_entry_epoch' <=> t \in rob_entry_epoch)
  OBVIOUS
<1>2. t \in alloc => (t \in rob_entry_epoch' <=> t \notin rob_entry_epoch)
  OBVIOUS
<1> QED
  BY <1>1, <1>2, SMT DEF SameEpoch, Epoch

(* Who stays in order: when the entries that leave a set are its oldest,   *)
(* the youngest of what is left is the youngest of the set, if it is left. *)
LEMMA YoungestKept ==
  ASSUME ContractInv, NEW req \in Bundles, NEW wb, NEW st, Clock(req, wb, Flush, st),
         NEW S \in SUBSET rob_valid, NEW T \in SUBSET (S \cap rob_valid'),
         \A p \in T, q \in S : Younger(q, p) => q \in T
  PROVE  {t \in T : \A u \in T : ~Younger(u, t)'} = {t \in S : \A u \in S : ~Younger(u, t)} \cap T
<1>1. \A u, t \in T : Younger(u, t)' <=> Younger(u, t)
  BY StepAges
<1> QED
  BY <1>1

(* What retires is the oldest.                                             *)
LEMMA RetiresInOrder ==
  ASSUME ContractInv, NEW req \in Bundles, NEW wb, NEW st, Clock(req, wb, Flush, st),
         ~FlushAll, ~mispredict_recovery_pending,
         NEW p \in rob_valid, NEW q \in rob_valid, Younger(q, p), p \in rob_valid',
         q \notin Flushed(Flush)
  PROVE  q \in rob_valid'
<1> DEFINE w == CommitWidth(wb, Flush, st)
<1>1. /\ rob_valid' = ((rob_valid \ Flushed(Flush)) \cup Allocated(AllocWidth(req, Flush)))
                        \ Committed(w)
      /\ rob_valid \subseteq Tag /\ w \in 0 .. 2
      /\ Committed(w) = {i \in rob_valid : TagSub(i, HeadIdx) < w}
  BY ValidParts, SMT
<1> HIDE DEF w
<1>2. HeadIdx \in Tag
  BY CountFacts DEF ContractInv, RingInv
<1>3. /\ TagSub(q, HeadIdx) > TagSub(p, HeadIdx)
      /\ TagSub(q, HeadIdx) \in Int /\ TagSub(p, HeadIdx) \in Int
  BY <1>1, <1>2, AgeOrder, TagSubFacts, SMT DEF Younger, Tag
<1> QED
  BY <1>1, <1>3, SMT

(* What restoring an image gives, now and in the next cycle.               *)
LEMMA RestoredMembers ==
  ASSUME NEW c, NEW x
  PROVE  /\ x \in Restored(c) <=>
              /\ ckpt_rat[c].valid /\ x = ckpt_rat[c].tag /\ ckpt_meta[c].tag \in rob_valid
              /\ SameEpoch(ckpt_meta[c].tag, ckpt_meta[c].epoch)
              /\ x \in rob_valid /\ SameEpoch(x, ckpt_rat[c].epoch)
              /\ Younger(ckpt_meta[c].tag, x)
         /\ x \in Restored(c)' <=>
              /\ ckpt_rat'[c].valid /\ x = ckpt_rat'[c].tag /\ ckpt_meta'[c].tag \in rob_valid'
              /\ SameEpoch(ckpt_meta[c].tag, ckpt_meta[c].epoch)'
              /\ x \in rob_valid' /\ SameEpoch(x, ckpt_rat[c].epoch)'
              /\ Younger(ckpt_meta[c].tag, x)'
<1>1. ASSUME NEW m, NEW i, NEW h
      PROVE  PtrSub(i, h) < PtrSub(m, h) <=> PtrSub(m, h) > PtrSub(i, h)
  OBVIOUS
<1>2. RestoredTagStillLive(ckpt_meta[c], ckpt_rat[c]) <=>
        /\ ckpt_meta[c].tag \in rob_valid /\ SameEpoch(ckpt_meta[c].tag, ckpt_meta[c].epoch)
        /\ ckpt_rat[c].tag \in rob_valid /\ SameEpoch(ckpt_rat[c].tag, ckpt_rat[c].epoch)
        /\ Younger(ckpt_meta[c].tag, ckpt_rat[c].tag)
  BY <1>1 DEF RestoredTagStillLive, SameEpoch, Younger
<1>3. RestoredTagStillLive(ckpt_meta[c], ckpt_rat[c])' <=>
        /\ ckpt_meta'[c].tag \in rob_valid' /\ SameEpoch(ckpt_meta[c].tag, ckpt_meta[c].epoch)'
        /\ ckpt_rat'[c].tag \in rob_valid' /\ SameEpoch(ckpt_rat[c].tag, ckpt_rat[c].epoch)'
        /\ Younger(ckpt_meta[c].tag, ckpt_rat[c].tag)'
  BY <1>1 DEF RestoredTagStillLive, SameEpoch, Younger
<1>4. x \in Restored(c) <=> /\ ckpt_rat[c].valid /\ x = ckpt_rat[c].tag
                            /\ RestoredTagStillLive(ckpt_meta[c], ckpt_rat[c])
  BY DEF Restored
<1>5. x \in Restored(c)' <=> /\ ckpt_rat'[c].valid /\ x = ckpt_rat'[c].tag
                             /\ RestoredTagStillLive(ckpt_meta[c], ckpt_rat[c])'
  BY DEF Restored
<1>6. /\ x = ckpt_rat'[c].tag =>
           /\ SameEpoch(ckpt_rat[c].tag, ckpt_rat[c].epoch)' <=> SameEpoch(x, ckpt_rat[c].epoch)'
           /\ Younger(ckpt_meta[c].tag, ckpt_rat[c].tag)' <=> Younger(ckpt_meta[c].tag, x)'
  BY DEF SameEpoch, Epoch, Younger
<1> QED
  BY <1>2, <1>3, <1>4, <1>5, <1>6

(* The producers of the next cycle: those that stay, and the new ones.     *)
LEMMA ProducersStep ==
  ASSUME ContractInv, NEW req \in Bundles, NEW wb, NEW st, Clock(req, wb, Flush, st),
         NEW t \in rob_valid
  PROVE  t \in Producers' <=> t \in Producers /\ t \in rob_valid'
BY LiveKept DEF Producers

(* What the youngest producer older than an entry that stays becomes.      *)
LEMMA SurvivingOlder ==
  ASSUME ContractInv, NEW req \in Bundles, NEW wb, NEW st, Clock(req, wb, Flush, st),
         ~FlushAll, NEW b \in rob_valid, b \in rob_valid'
  PROVE  /\ OlderProducers(b)' = {t \in OlderProducers(b) : t \in rob_valid'}
         /\ Youngest(OlderProducers(b))' = Youngest(OlderProducers(b)) \cap rob_valid'
<1> DEFINE alloc == Allocated(AllocWidth(req, Flush))
           S     == OlderProducers(b)
           T     == {t \in S : t \in rob_valid'}
<1>1. /\ rob_valid \subseteq Tag /\ rob_valid \cap alloc = {}
      /\ alloc \subseteq Tag /\ rob_valid' \subseteq rob_valid \cup alloc
      /\ rob_valid' \cap Flushed(Flush) \cap rob_valid = {}
  BY ValidParts, SMT
<1> HIDE DEF alloc
<1>2. ~mispredict_recovery_pending
  BY AllFlushed
<1>3. ASSUME NEW p \in T, NEW q \in S, Younger(q, p) PROVE q \in T
  <2>1. p \in rob_valid /\ q \in rob_valid /\ Younger(b, q) /\ p \in rob_valid'
    BY DEF OlderProducers, Producers
  <2>2. q \notin Flushed(Flush)
    <3> SUFFICES ASSUME q \in Flushed(Flush) PROVE FALSE
      OBVIOUS
    <3>1. Flushed(Flush) = {j \in Tag : Younger(j, early_backend_flush_tag)}
      BY <1>2, FlushedParts
    <3>2. HeadIdx \in Tag /\ early_backend_flush_tag \in Tag
      BY CountFacts DEF ContractInv, RingInv, ContractTypes
    <3>3. Younger(b, early_backend_flush_tag)
      BY <1>1, <2>1, <3>1, <3>2, AgeTotal, SMT DEF Younger
    <3> QED
      BY <1>1, <3>1, <3>3
  <2> QED
    BY <1>2, <1>3, <2>1, <2>2, RetiresInOrder
<1>4. {t \in T : \A u \in T : ~Younger(u, t)'} = Youngest(S) \cap T
  <2>1. S \in SUBSET rob_valid /\ T \in SUBSET (S \cap rob_valid')
    BY DEF OlderProducers, Producers
  <2> HIDE DEF S, T
  <2> QED
    BY <1>1, <1>3, <2>1, YoungestKept DEF Youngest
<1>5. OlderProducers(b)' = T
  <2>1. ASSUME NEW t \in rob_valid' PROVE t \in Producers' /\ Younger(b, t)' <=> t \in S
    <3>1. CASE t \in rob_valid
      BY <1>1, <3>1, ProducersStep, StepAges DEF OlderProducers
    <3>2. CASE t \notin rob_valid
      BY <1>1, <3>2, StepAges DEF OlderProducers, Producers
    <3> QED
      BY <3>1, <3>2
  <2>2. Producers' \subseteq rob_valid'
    BY DEF Producers
  <2>3. OlderProducers(b)' = {t \in Producers' : Younger(b, t)'}
    BY DEF OlderProducers
  <2> HIDE DEF S
  <2> QED
    BY <2>1, <2>2, <2>3
<1>6. Youngest(OlderProducers(b))' = {t \in T : \A u \in T : ~Younger(u, t)'}
  BY <1>5 DEF Youngest
<1> QED
  <2>1. Youngest(S) \cap T = Youngest(S) \cap rob_valid'
    BY DEF Youngest
  <2> QED
    BY <1>4, <1>5, <1>6, <2>1

(* No image of a branch that may be recovered is overwritten.              *)
LEMMA ImageKept ==
  ASSUME ContractInv, WrongPathInv, PoolInv, StaleHoldFreesNothing, NEW req \in Bundles,
         NEW cdb \in CdbBundles(workload), NEW issue \in Issues, NEW mispredicted \in BOOLEAN,
         NEW st, NEW trap \in BOOLEAN, Cycle(req, cdb, issue, mispredicted, st, trap),
         NEW b \in Guarded, NEW c, c = rob_checkpoint_id[b]
  PROVE  ckpt_rat'[c] = ckpt_rat[c] /\ ckpt_meta'[c] = ckpt_meta[c]
<1>1. b \in Tag
  BY CycleParts, ValidParts DEF Guarded
<1>2. c \in checkpoint_in_use /\ c \in Checkpoint
  BY <1>1 DEF PoolInv, PoolTypes, TypeOK, CheckpointsFollowBranches, IssueCheckpointLive, OwnedBy
<1>3. CheckpointSave(req) => checkpoint_alloc_id # c
  BY <1>2, BundleParts, CycleParts DEF PoolInv
<1>4. CASE CheckpointSave(req)
  BY <1>2, <1>3, <1>4, RatParts DEF PoolInv, PoolTypes
<1>5. CASE ~CheckpointSave(req)
  BY <1>5, RatParts
<1> QED
  BY <1>4, <1>5

(* The image of a branch that stays keeps naming the right producer.       *)
LEMMA OldImage ==
  ASSUME ContractInv, WrongPathInv, PoolInv, StaleHoldFreesNothing, NEW req \in Bundles,
         NEW cdb \in CdbBundles(workload), NEW issue \in Issues, NEW mispredicted \in BOOLEAN,
         NEW st, NEW trap \in BOOLEAN, Cycle(req, cdb, issue, mispredicted, st, trap),
         RenameInv, ~FlushAll, NEW b \in Guarded, b \in rob_valid',
         NEW c, c = rob_checkpoint_id[b]
  PROVE  /\ ckpt_meta'[c].tag = b /\ SameEpoch(b, ckpt_meta[c].epoch)'
         /\ Restored(c)' = Youngest(OlderProducers(b))'
<1> DEFINE wb    == Inputs(cdb, issue, mispredicted)
           alloc == Allocated(AllocWidth(req, Flush))
<1>1. Clock(req, wb, Flush, st)
  BY CycleParts
<1>2. /\ b \in rob_valid /\ rob_valid \subseteq Tag /\ rob_valid \cap alloc = {}
      /\ alloc \subseteq Tag /\ rob_valid' \subseteq rob_valid \cup alloc
      /\ rob_valid' \cap rob_valid \cap Flushed(Flush) = {}
  BY <1>1, ValidSets DEF Guarded
<1>4. ckpt_rat'[c] = ckpt_rat[c] /\ ckpt_meta'[c] = ckpt_meta[c]
  BY ImageKept
<1>5. rob_entry_epoch' = (rob_entry_epoch \ alloc) \cup (alloc \ rob_entry_epoch)
  BY RatParts
<1> HIDE DEF wb, alloc
<1>6. ckpt_meta[c].tag = b /\ SameEpoch(b, ckpt_meta[c].epoch) /\ Restored(c) = Youngest(OlderProducers(b))
  BY DEF RenameInv
<1>7. \A t, x : t \notin alloc => (SameEpoch(t, x)' <=> SameEpoch(t, x))
  BY <1>5, EpochParts
<1>8. SameEpoch(b, ckpt_meta[c].epoch)'
  <2>1. b \notin alloc
    BY <1>2
  <2>2. SameEpoch(b, ckpt_meta[c].epoch)' <=> (Epoch(b)' = ckpt_meta'[c].epoch)
    BY DEF SameEpoch
  <2> QED
    BY <1>4, <1>6, <1>7, <2>1, <2>2 DEF SameEpoch
<1>9. ~mispredict_recovery_pending
  BY <1>1, AllFlushed
<1>10. ASSUME NEW x PROVE x \in Restored(c)' <=> x \in Restored(c) /\ x \in rob_valid'
  <2>1. SameEpoch(ckpt_meta[c].tag, ckpt_meta[c].epoch)'
    BY <1>4, <1>6, <1>8 DEF SameEpoch, Epoch
  <2>2. Younger(ckpt_meta[c].tag, x)' <=> Younger(b, x)'
    BY <1>4, <1>6 DEF Younger
  <2>3. x \notin alloc => (SameEpoch(x, ckpt_rat[c].epoch)' <=> SameEpoch(x, ckpt_rat[c].epoch))
    <3>1. SameEpoch(x, ckpt_rat[c].epoch)' <=> (Epoch(x)' = ckpt_rat'[c].epoch)
      BY DEF SameEpoch
    <3>2. \A e : x \notin alloc => ((Epoch(x)' = e) <=> (Epoch(x) = e))
      BY <1>7 DEF SameEpoch
    <3> QED
      BY <1>4, <3>1, <3>2 DEF SameEpoch
  <2>4. x \in Restored(c)' <=>
          /\ ckpt_rat[c].valid /\ x = ckpt_rat[c].tag /\ x \in rob_valid'
          /\ SameEpoch(x, ckpt_rat[c].epoch)' /\ Younger(b, x)'
    <3>1. x \in Restored(c)' <=>
            /\ ckpt_rat'[c].valid /\ x = ckpt_rat'[c].tag /\ ckpt_meta'[c].tag \in rob_valid'
            /\ SameEpoch(ckpt_meta[c].tag, ckpt_meta[c].epoch)'
            /\ x \in rob_valid' /\ SameEpoch(x, ckpt_rat[c].epoch)'
            /\ Younger(ckpt_meta[c].tag, x)'
      BY RestoredMembers
    <3>2. ckpt_meta'[c].tag \in rob_valid'
      BY <1>4, <1>6
    <3> QED
      BY <1>4, <2>1, <2>2, <3>1, <3>2
  <2>5. x \in Restored(c) <=>
          /\ ckpt_rat[c].valid /\ x = ckpt_rat[c].tag /\ x \in rob_valid
          /\ SameEpoch(x, ckpt_rat[c].epoch) /\ Younger(b, x)
    <3>1. x \in Restored(c) <=>
            /\ ckpt_rat[c].valid /\ x = ckpt_rat[c].tag /\ ckpt_meta[c].tag \in rob_valid
            /\ SameEpoch(ckpt_meta[c].tag, ckpt_meta[c].epoch)
            /\ x \in rob_valid /\ SameEpoch(x, ckpt_rat[c].epoch)
            /\ Younger(ckpt_meta[c].tag, x)
      BY RestoredMembers
    <3> QED
      BY <1>2, <1>6, <3>1
  <2>6. CASE x \in rob_valid /\ x \in rob_valid'
    <3>1. Younger(b, x)' <=> Younger(b, x)
      BY <1>1, <1>2, <2>6, StepAges
    <3> QED
      BY <1>2, <2>3, <2>4, <2>5, <2>6, <3>1
  <2>7. CASE x \in rob_valid' /\ x \notin rob_valid
    BY <1>1, <1>2, <2>4, <2>5, <2>7, StepAges
  <2> QED
    BY <2>4, <2>6, <2>7
<1>11. Youngest(OlderProducers(b))' = Youngest(OlderProducers(b)) \cap rob_valid'
  BY <1>1, <1>2, SurvivingOlder
<1>12. Restored(c)' = Restored(c) \cap rob_valid'
  BY <1>10
<1> QED
  BY <1>4, <1>6, <1>8, <1>11, <1>12

(* In a cycle without a flush the youngest producer stays the youngest of  *)
(* those that were there already, unless it retires.                       *)
LEMMA SurvivingLookup ==
  ASSUME ContractInv, NEW req \in Bundles, NEW wb, NEW st, Clock(req, wb, Flush, st),
         ~FlushAll, ~mispredict_recovery_pending, ~early_backend_recovery_pending,
         Lookup = Youngest(Producers), NEW T, T = {t \in Producers : t \in rob_valid'}
  PROVE  {t \in T : \A u \in T : ~Younger(u, t)'} = Lookup \cap rob_valid'
<1> DEFINE S == Producers
<1>1. S \in SUBSET rob_valid /\ T \in SUBSET (S \cap rob_valid')
  BY DEF Producers
<1>2. Flushed(Flush) = {}
  BY FlushedParts DEF FlushEn
<1>3. T = S \cap rob_valid'
  OBVIOUS
<1> HIDE DEF S
<1>4. ASSUME NEW p \in T, NEW q \in S, Younger(q, p) PROVE q \in T
  BY <1>1, <1>2, <1>3, <1>4, RetiresInOrder
<1>5. {t \in T : \A u \in T : ~Younger(u, t)'} = {t \in S : \A u \in S : ~Younger(u, t)} \cap T
  BY <1>1, <1>4, YoungestKept, SMT
<1>6. Lookup = {t \in S : \A u \in S : ~Younger(u, t)}
  BY DEF S, Youngest
<1> QED
  BY <1>3, <1>5, <1>6

(* A new image is right: it is taken after the rename of the bundle's      *)
(* first slot, from a table that is right whenever dispatch fires.         *)
LEMMA NewImage ==
  ASSUME ContractInv, WrongPathInv, PoolInv, StaleHoldFreesNothing, NEW req \in Bundles,
         NEW cdb \in CdbBundles(workload), NEW issue \in Issues, NEW mispredicted \in BOOLEAN,
         NEW st, NEW trap \in BOOLEAN, Cycle(req, cdb, issue, mispredicted, st, trap),
         RenameInv, CheckpointSave(req), NEW b, b = CheckpointBranchTag(req),
         NEW c, c = checkpoint_alloc_id
  PROVE  /\ ckpt_meta'[c].tag = b /\ SameEpoch(b, ckpt_meta[c].epoch)'
         /\ Restored(c)' = Youngest(OlderProducers(b))'
<1> DEFINE wb    == Inputs(cdb, issue, mispredicted)
           alloc == Allocated(AllocWidth(req, Flush))
<1>1. Clock(req, wb, Flush, st)
  BY CycleParts
<1>2. /\ ~FlushAll /\ ~FlushEn /\ b \in alloc /\ b \in Tag /\ rob_class'[b] \in BranchClasses
      /\ DispatchValid
  BY <1>1, BundleParts
<1>3. ~mispredict_recovery_pending /\ ~early_backend_recovery_pending
  BY <1>2 DEF DispatchValid, ContractInv
<1>4. /\ rob_valid' = (rob_valid \cup alloc) \ Committed(CommitWidth(wb, Flush, st))
      /\ rob_valid \subseteq Tag /\ alloc \subseteq Tag /\ rob_valid \cap alloc = {}
      /\ Committed(CommitWidth(wb, Flush, st)) \subseteq rob_valid
      /\ Flushed(Flush) = {}
  <2>1. /\ rob_valid' = ((rob_valid \ Flushed(Flush)) \cup alloc) \ Committed(CommitWidth(wb, Flush, st))
        /\ rob_valid \subseteq Tag /\ alloc \subseteq Tag /\ rob_valid \cap alloc = {}
        /\ Committed(CommitWidth(wb, Flush, st)) \subseteq rob_valid
    BY <1>1, ValidSets
  <2>2. Flushed(Flush) = {}
    BY <1>2, FlushedParts
  <2> HIDE DEF alloc
  <2> QED
    BY <2>1, <2>2
<1>5. c \in Checkpoint /\ DOMAIN ckpt_rat = Checkpoint /\ DOMAIN ckpt_meta = Checkpoint
  BY DEF PoolInv, PoolTypes, TypeOK
<1>6. rob_entry_epoch' = (rob_entry_epoch \ alloc) \cup (alloc \ rob_entry_epoch)
  BY RatParts
<1>7. b \in rob_valid' /\ b \notin rob_valid
  BY <1>2, <1>4
<1>8. ckpt_meta'[c] = [epoch |-> ~Epoch(b), tag |-> b] /\ ckpt_rat'[c] = Snapshot(req)
  <2>1. /\ ckpt_rat' = [ckpt_rat EXCEPT ![c] = Snapshot(req)]
        /\ ckpt_meta' = [ckpt_meta EXCEPT ![c] = [epoch |-> ~Epoch(b), tag |-> b]]
    BY <1>2, RatParts
  <2> QED
    BY <1>5, <2>1
<1> HIDE DEF wb, alloc
<1>9. ckpt_meta'[c].tag = b /\ SameEpoch(b, ckpt_meta[c].epoch)'
  <2> DEFINE e == ~Epoch(b)
  <2>1. Epoch(b)' = e
    BY <1>2, <1>6, EpochParts, SMT DEF Epoch
  <2>2. ckpt_meta'[c] = [epoch |-> e, tag |-> b]
    BY <1>8
  <2> HIDE DEF e
  <2>3. ckpt_meta'[c].epoch = e /\ ckpt_meta'[c].tag = b
    <3>1. [epoch |-> e, tag |-> b].epoch = e /\ [epoch |-> e, tag |-> b].tag = b
      OBVIOUS
    <3> QED
      BY <2>2, <3>1
  <2>4. Epoch(b)' = ckpt_meta'[c].epoch
    BY <2>1, <2>3
  <2> QED
    BY <2>3, <2>4 DEF SameEpoch
<1>10. ASSUME NEW x
       PROVE  x \in Restored(c)' <=>
                /\ ckpt_rat'[c].valid /\ x = ckpt_rat'[c].tag /\ x \in rob_valid'
                /\ SameEpoch(x, ckpt_rat[c].epoch)' /\ Younger(b, x)'
  <2>1. SameEpoch(ckpt_meta[c].tag, ckpt_meta[c].epoch)'
    BY <1>9 DEF SameEpoch, Epoch
  <2>2. Younger(ckpt_meta[c].tag, x)' <=> Younger(b, x)'
    BY <1>9 DEF Younger
  <2>3. x \in Restored(c)' <=>
          /\ ckpt_rat'[c].valid /\ x = ckpt_rat'[c].tag /\ ckpt_meta'[c].tag \in rob_valid'
          /\ SameEpoch(ckpt_meta[c].tag, ckpt_meta[c].epoch)'
          /\ x \in rob_valid' /\ SameEpoch(x, ckpt_rat[c].epoch)'
          /\ Younger(ckpt_meta[c].tag, x)'
    BY RestoredMembers
  <2>4. ckpt_meta'[c].tag \in rob_valid'
    BY <1>7, <1>9
  <2> QED
    BY <2>1, <2>2, <2>3, <2>4
<1>11. /\ TailIdx \in Tag /\ TailIdx2 \in Tag /\ TailIdx # TailIdx2
       /\ TailIdx \in alloc <=> req.slot1 # NoReq
       /\ TailIdx2 \in alloc <=> req.slot2 # NoReq
       /\ alloc \subseteq {TailIdx, TailIdx2}
       /\ TailIdx2 \in alloc => AllocWidth(req, Flush) = 2
       /\ \A t \in alloc : rob_class'[t] = IF t = TailIdx THEN req.slot1 ELSE req.slot2
  BY <1>1, AllocParts DEF alloc
<1>12. \A t \in alloc \ {b} : t = TailIdx /\ b = TailIdx2 /\ req.slot2 \in BranchClasses
  <2>1. b = TailIdx => req.slot1 \in BranchClasses
    BY <1>2, <1>11
  <2>2. req.slot2 # NoReq => req.slot1 \notin BranchClasses
    BY DEF Bundles, LegalBundle
  <2> QED
    BY <1>2, <1>11, <2>1, <2>2
<1>13. ASSUME NEW t \in alloc, t # b PROVE Younger(b, t)'
  <2>1. t = TailIdx /\ b = TailIdx2 /\ AllocWidth(req, Flush) = 2
    BY <1>2, <1>11, <1>12, <1>13
  <2> QED
    BY <1>1, <2>1, SlotOrder
<1>14. ASSUME NEW t \in rob_valid, t \in rob_valid' PROVE Younger(b, t)' /\ t \notin alloc
  BY <1>1, <1>4, <1>7, <1>14, StepAges
<1>15. ASSUME NEW t \in alloc PROVE t \in Producers' /\ Younger(b, t)' <=> t # b /\ req.slot1 \in WritesReg
  <2>1. t \in Producers' <=> rob_class'[t] \in WritesReg
    BY <1>4 DEF Producers
  <2>2. ~Younger(b, b)'
    BY <1>1, <1>2, AgeFacts
  <2> QED
    BY <1>11, <1>12, <1>13, <2>1, <2>2
<1>16. OlderProducers(b)' = {t \in Producers' : Younger(b, t)'} /\ Producers' \subseteq rob_valid'
  BY DEF OlderProducers, Producers
<1>17. CASE req.slot2 \in BranchClasses /\ req.slot1 \in WritesReg
  <2>1. TailIdx \in alloc /\ b = TailIdx2 /\ TailIdx \in rob_valid' /\ TailIdx \notin rob_valid
    <3>1. req.slot1 # NoReq
      BY <1>17, ClassAssumption DEF AllClasses, WritesReg
    <3> QED
      BY <1>4, <1>11, <1>17, <3>1 DEF CheckpointBranchTag
  <2> DEFINE e == ~Epoch(TailIdx)
  <2>2. PICK y : y = TailIdx
    OBVIOUS
  <2>3. Epoch(y)' = e
    BY <1>6, <2>1, <2>2, EpochParts, SMT DEF Epoch
  <2>4. ckpt_rat'[c] = [valid |-> TRUE, epoch |-> e, tag |-> y]
    BY <1>8, <1>17, <2>2 DEF Snapshot
  <2> HIDE DEF e
  <2>5. ckpt_rat'[c].valid /\ ckpt_rat'[c].epoch = e /\ ckpt_rat'[c].tag = y
    BY <2>4, SMT
  <2>6. SameEpoch(y, ckpt_rat[c].epoch)'
    BY <2>3, <2>5 DEF SameEpoch
  <2>7. y \in alloc /\ y # b /\ y \in rob_valid' /\ y \notin rob_valid /\ y \in Tag
    BY <1>11, <2>1, <2>2
  <2>8. Restored(c)' = {y}
    <3>1. ASSUME NEW x PROVE x \in Restored(c)' <=> x = y
      BY <1>10, <1>13, <2>5, <2>6, <2>7
    <3> QED
      BY <3>1
  <2>9. y \in OlderProducers(b)'
    BY <1>15, <1>16, <1>17, <2>7
  <2>10. \A t \in OlderProducers(b)' : t # y => Younger(y, t)' /\ ~Younger(t, y)'
    <3> SUFFICES ASSUME NEW t \in OlderProducers(b)', t # y PROVE Younger(y, t)' /\ ~Younger(t, y)'
      OBVIOUS
    <3>1. t \in rob_valid' /\ t \in rob_valid
      BY <1>4, <1>11, <1>15, <1>16, <2>1, <2>2
    <3> QED
      BY <1>1, <2>7, <3>1, StepAges
  <2>11. ~Younger(y, y)'
    BY <1>1, <2>7, AgeFacts
  <2>12. Youngest(OlderProducers(b))' = {t \in OlderProducers(b)' : \A u \in OlderProducers(b)' : ~Younger(u, t)'}
    BY DEF Youngest
  <2>13. {t \in OlderProducers(b)' : \A u \in OlderProducers(b)' : ~Younger(u, t)'} = {y}
    BY <2>9, <2>10, <2>11
  <2> QED
    BY <1>9, <2>8, <2>12, <2>13
<1>18. CASE ~(req.slot2 \in BranchClasses /\ req.slot1 \in WritesReg)
  <2> DEFINE T == {t \in Producers : t \in rob_valid'}
             e == Epoch(int_rat_tag)
  <2>1. ckpt_rat'[c] = [valid |-> int_rat_valid, epoch |-> e, tag |-> int_rat_tag]
    BY <1>8, <1>18 DEF Snapshot
  <2>2. PICK y : y = int_rat_tag
    OBVIOUS
  <2>3. e = Epoch(y)
    BY <2>2
  <2> HIDE DEF e
  <2>4. ckpt_rat'[c].valid = int_rat_valid /\ ckpt_rat'[c].epoch = e /\ ckpt_rat'[c].tag = y
    BY <2>1, <2>2, SMT
  <2>5. /\ y \notin alloc => SameEpoch(y, ckpt_rat[c].epoch)'
        /\ y \in alloc => ~SameEpoch(y, ckpt_rat[c].epoch)'
    <3>1. SameEpoch(y, ckpt_rat[c].epoch)' <=> (Epoch(y)' = Epoch(y))
      BY <2>3, <2>4 DEF SameEpoch
    <3>2. y \notin alloc => (y \in rob_entry_epoch' <=> y \in rob_entry_epoch)
      BY <1>6
    <3>3. y \in alloc => (y \in rob_entry_epoch' <=> y \notin rob_entry_epoch)
      BY <1>6
    <3> QED
      BY <3>1, <3>2, <3>3, SMT DEF Epoch
  <2>6. ASSUME NEW x PROVE x \in Restored(c)' <=> x \in Lookup \cap rob_valid'
    <3>1. x \in Lookup <=> int_rat_valid /\ x = y /\ y \in rob_valid
      BY <2>2 DEF Lookup
    <3>2. x \in Restored(c)' <=> /\ int_rat_valid /\ x = y /\ y \in rob_valid'
                                 /\ SameEpoch(y, ckpt_rat[c].epoch)' /\ Younger(b, y)'
      <4>1. x = y => (SameEpoch(x, ckpt_rat[c].epoch)' <=> SameEpoch(y, ckpt_rat[c].epoch)')
        BY DEF SameEpoch, Epoch
      <4> QED
        BY <1>10, <2>4, <4>1
    <3>3. y \in rob_valid' => y \in rob_valid \/ y \in alloc
      BY <1>4
    <3> QED
      BY <1>14, <2>5, <3>1, <3>2, <3>3
  <2>7. Restored(c)' = Lookup \cap rob_valid'
    BY <2>6
  <2>8. Lookup = Youngest(Producers)
    BY <1>3 DEF RenameInv
  <2>9. {t \in T : \A u \in T : ~Younger(u, t)'} = Lookup \cap rob_valid'
    <3>1. T = {t \in Producers : t \in rob_valid'}
      OBVIOUS
    <3> HIDE DEF T
    <3> QED
      BY <1>1, <1>2, <1>3, <2>8, <3>1, SurvivingLookup
  <2>10. OlderProducers(b)' = T
    <3>1. ASSUME NEW t \in rob_valid' PROVE t \in Producers' /\ Younger(b, t)' <=> t \in Producers
      <4>1. CASE t \in rob_valid
        BY <1>1, <1>14, <4>1, ProducersStep
      <4>2. CASE t \notin rob_valid
        <5>1. t \in alloc
          BY <1>4, <4>2
        <5> QED
          BY <1>12, <1>15, <1>18, <4>2, <5>1 DEF Producers
      <4> QED
        BY <4>1, <4>2
    <3> QED
      BY <1>16, <3>1
  <2>11. Youngest(OlderProducers(b))' = {t \in T : \A u \in T : ~Younger(u, t)'}
    BY <2>10 DEF Youngest
  <2> QED
    BY <1>9, <2>7, <2>9, <2>11
<1> QED
  BY <1>17, <1>18

(* What becomes of the active entry.                                       *)
LEMMA ActiveParts ==
  ASSUME NEW req, NEW cdb, NEW issue, NEW mispredicted, NEW st, NEW trap,
         Cycle(req, cdb, issue, mispredicted, st, trap)
  PROVE  /\ FlushAll => ~int_rat_valid'
         /\ \A c : CheckpointRestore = {c} =>
              /\ int_rat_valid' <=> ckpt_rat[c].valid
                                    /\ RestoredTagStillLive(ckpt_meta[c], ckpt_rat[c])
              /\ int_rat_tag' = ckpt_rat[c].tag
         /\ ~FlushAll /\ CheckpointRestore = {} =>
              /\ req.slot2 \in WritesReg => int_rat_valid' /\ int_rat_tag' = TailIdx2
              /\ req.slot2 \notin WritesReg /\ req.slot1 \in WritesReg =>
                   int_rat_valid' /\ int_rat_tag' = TailIdx
              /\ req.slot2 \notin WritesReg /\ req.slot1 \notin WritesReg =>
                   /\ int_rat_valid' <=> int_rat_valid /\ int_rat_tag \notin commit_q
                   /\ int_rat_tag' = int_rat_tag
<1>1. /\ int_rat_valid' = NextRat(req, FlushAll, CheckpointRestore).valid
      /\ int_rat_tag' = NextRat(req, FlushAll, CheckpointRestore).tag
  BY RatParts
<1>2. FlushAll \in BOOLEAN
  BY DEF FlushAll
<1>3. FlushAll => CheckpointRestore = {}
  BY RestoreChoice
<1>4. FlushAll => ~int_rat_valid'
  BY <1>1, <1>2, <1>3, RenameParts
<1>5. ASSUME NEW c, CheckpointRestore = {c}
      PROVE  /\ int_rat_valid' <=> ckpt_rat[c].valid
                                   /\ RestoredTagStillLive(ckpt_meta[c], ckpt_rat[c])
             /\ int_rat_tag' = ckpt_rat[c].tag
  <2>1. /\ NextRat(req, FlushAll, {c}).valid <=>
             ckpt_rat[c].valid /\ RestoredTagStillLive(ckpt_meta[c], ckpt_rat[c])
        /\ NextRat(req, FlushAll, {c}).tag = ckpt_rat[c].tag
    BY RestoreParts
  <2> QED
    BY <1>1, <1>5, <2>1
<1>6. ASSUME ~FlushAll, CheckpointRestore = {}
      PROVE  /\ req.slot2 \in WritesReg => int_rat_valid' /\ int_rat_tag' = TailIdx2
             /\ req.slot2 \notin WritesReg /\ req.slot1 \in WritesReg =>
                  int_rat_valid' /\ int_rat_tag' = TailIdx
             /\ req.slot2 \notin WritesReg /\ req.slot1 \notin WritesReg =>
                  /\ int_rat_valid' <=> int_rat_valid /\ int_rat_tag \notin commit_q
                  /\ int_rat_tag' = int_rat_tag
  <2>1. /\ int_rat_valid' = NextRat(req, FlushAll, {}).valid
        /\ int_rat_tag' = NextRat(req, FlushAll, {}).tag
    BY <1>1, <1>6
  <2>2. /\ ~FlushAll /\ req.slot2 \in WritesReg =>
             NextRat(req, FlushAll, {}).valid /\ NextRat(req, FlushAll, {}).tag = TailIdx2
        /\ ~FlushAll /\ req.slot2 \notin WritesReg /\ req.slot1 \in WritesReg =>
             NextRat(req, FlushAll, {}).valid /\ NextRat(req, FlushAll, {}).tag = TailIdx
        /\ ~FlushAll /\ req.slot2 \notin WritesReg /\ req.slot1 \notin WritesReg =>
             /\ NextRat(req, FlushAll, {}).valid <=> int_rat_valid /\ int_rat_tag \notin commit_q
             /\ NextRat(req, FlushAll, {}).tag = int_rat_tag
    BY <1>2, RenameParts
  <2> QED
    BY <1>6, <2>1, <2>2
<1> QED
  BY <1>4, <1>5, <1>6

(* The active entry after a cycle: what RenameInv says of it.              *)
ActiveIsRight ==
  /\ int_rat_valid /\ int_rat_tag \notin rob_valid => int_rat_tag \in commit_q
  /\ early_backend_recovery_pending => rob_class[early_backend_flush_tag] \in BranchClasses
  /\ Lookup = IF early_backend_recovery_pending
              THEN Youngest(OlderProducers(early_backend_flush_tag))
              ELSE Youngest(Producers)

(* A recovery at commit and a full flush leave no entry and no rename.     *)
LEMMA ActiveFlushed ==
  ASSUME ContractInv, WrongPathInv, PoolInv, StaleHoldFreesNothing, NEW req \in Bundles,
         NEW cdb \in CdbBundles(workload), NEW issue \in Issues, NEW mispredicted \in BOOLEAN,
         NEW st, NEW trap \in BOOLEAN, Cycle(req, cdb, issue, mispredicted, st, trap),
         RenameInv, FlushAll \/ mispredict_recovery_pending
  PROVE  ActiveIsRight'
<1> DEFINE wb == Inputs(cdb, issue, mispredicted)
<1>1. Clock(req, wb, Flush, st) /\ EarlyRecoveryClock(BranchUpdate(issue, mispredicted))
  BY CycleParts
<1>2. rob_valid' = {}
  BY <1>1, AllFlushed
<1>3. ~early_backend_recovery_pending'
  BY <1>1, <1>2, BackendStep
<1>4. ~int_rat_valid'
  <2>1. CASE FlushAll
    BY <2>1, ActiveParts
  <2>2. CASE ~FlushAll
    <3>1. mispredict_recovery_pending /\ ~EarlyMispredictActive
      BY <2>2 DEF EarlyMispredictActive
    <3>2. PICK c : c = mispredict_commit_q.id
      OBVIOUS
    <3>3. CheckpointRestore = {c}
      BY <2>2, <3>1, <3>2, RestoreChoice
    <3>4. ckpt_meta[c].tag \notin rob_valid
      BY <3>1, <3>2 DEF RenameInv
    <3>5. ~RestoredTagStillLive(ckpt_meta[c], ckpt_rat[c])
      BY <3>4 DEF RestoredTagStillLive
    <3> QED
      BY <3>3, <3>5, ActiveParts
  <2> QED
    BY <2>1, <2>2
<1>5. Producers' = {} /\ Lookup' = {}
  BY <1>2 DEF Producers, Lookup
<1>6. Youngest(Producers)' = {}
  BY <1>5 DEF Youngest
<1> QED
  BY <1>3, <1>4, <1>5, <1>6 DEF ActiveIsRight

(* An early recovery restores the image of its branch, and so the youngest *)
(* producer the flush to come will leave.                                  *)
LEMMA ActiveRestored ==
  ASSUME ContractInv, WrongPathInv, PoolInv, StaleHoldFreesNothing, NEW req \in Bundles,
         NEW cdb \in CdbBundles(workload), NEW issue \in Issues, NEW mispredicted \in BOOLEAN,
         NEW st, NEW trap \in BOOLEAN, Cycle(req, cdb, issue, mispredicted, st, trap),
         RenameInv, ~FlushAll, ~mispredict_recovery_pending, EarlyMispredictActive
  PROVE  ActiveIsRight'
<1> DEFINE wb    == Inputs(cdb, issue, mispredicted)
           alloc == Allocated(AllocWidth(req, Flush))
<1>1. Clock(req, wb, Flush, st) /\ EarlyRecoveryClock(BranchUpdate(issue, mispredicted))
  BY CycleParts
<1>2. early_backend_recovery_pending'
  BY <1>1, EarlyParts
<1>3. PICK b : b = early_mispredict_tag
  OBVIOUS
<1>4. PICK c : c = early_mispredict_checkpoint_id
  OBVIOUS
<1>5. /\ ~FlushEn /\ early_backend_flush_tag' = b /\ b \in rob_valid'
      /\ CommitWidth(wb, Flush, st) = 0
  BY <1>2, <1>3, BackendStep
<1>6. RecoveringEarly(b) /\ early_mispredict_pending
  BY <1>3 DEF EarlyMispredictActive, ContractInv
<1>7. b \in Guarded /\ c = rob_checkpoint_id[b] /\ b \in rob_valid /\ rob_class[b] \in BranchClasses
  BY <1>3, <1>4, <1>6 DEF RecoveringEarly, Guarded, PoolInv, BranchClasses
<1>8. alloc = {} /\ rob_valid' = rob_valid
  <2>1. req.slot1 = NoReq /\ req.slot2 = NoReq
    BY <1>6 DEF Bundles, LegalBundle
  <2>2. alloc = {}
    BY <1>1, <2>1, AllocParts
  <2>3. Flushed(Flush) = {} /\ Committed(0) = {}
    BY <1>5, FlushedParts, SMT DEF Committed
  <2> QED
    BY <1>1, <1>5, <2>2, <2>3, ValidParts, SMT
<1> HIDE DEF wb, alloc
<1>9. /\ int_rat_valid' <=> ckpt_rat[c].valid /\ RestoredTagStillLive(ckpt_meta[c], ckpt_rat[c])
      /\ int_rat_tag' = ckpt_rat[c].tag
  <2>1. CheckpointRestore = {c}
    BY <1>4, RestoreChoice
  <2> QED
    BY <2>1, ActiveParts
<1>10. Restored(c) = Youngest(OlderProducers(b))
  BY <1>7 DEF RenameInv
<1>11. int_rat_valid' => int_rat_tag' \in rob_valid
  BY <1>9 DEF RestoredTagStillLive
<1>12. Lookup' = Restored(c)
  BY <1>8, <1>9, <1>11 DEF Lookup, Restored
<1>13. Youngest(OlderProducers(b))' = Youngest(OlderProducers(b)) \cap rob_valid'
  BY <1>1, <1>5, <1>7, SurvivingOlder
<1>14. Restored(c) \subseteq rob_valid
  BY <1>10 DEF Youngest, OlderProducers, Producers
<1>15. Youngest(OlderProducers(early_backend_flush_tag))' = Youngest(OlderProducers(b))'
  BY <1>5 DEF Youngest, OlderProducers, Younger
<1>16. rob_class'[early_backend_flush_tag'] \in BranchClasses
  BY <1>1, <1>5, <1>7, LiveKept
<1> QED
  BY <1>2, <1>8, <1>10, <1>11, <1>12, <1>13, <1>14, <1>15, <1>16 DEF ActiveIsRight

(* A bundle that writes the register renames it to its last writer, the    *)
(* youngest producer there is.                                             *)
LEMMA ActiveRenamed ==
  ASSUME ContractInv, WrongPathInv, PoolInv, StaleHoldFreesNothing, NEW req \in Bundles,
         NEW cdb \in CdbBundles(workload), NEW issue \in Issues, NEW mispredicted \in BOOLEAN,
         NEW st, NEW trap \in BOOLEAN, Cycle(req, cdb, issue, mispredicted, st, trap),
         RenameInv, ~FlushAll, ~mispredict_recovery_pending, ~EarlyMispredictActive,
         req.slot1 \in WritesReg \/ req.slot2 \in WritesReg
  PROVE  ActiveIsRight'
<1> DEFINE wb    == Inputs(cdb, issue, mispredicted)
           alloc == Allocated(AllocWidth(req, Flush))
<1>1. Clock(req, wb, Flush, st) /\ EarlyRecoveryClock(BranchUpdate(issue, mispredicted))
  BY CycleParts
<1>2. ~early_backend_recovery_pending'
  BY <1>1, EarlyParts
<1>3. NoReq \notin WritesReg
  BY ClassAssumption DEF AllClasses, WritesReg
<1>4. /\ TailIdx \in Tag /\ TailIdx2 \in Tag /\ TailIdx # TailIdx2
      /\ TailIdx \in alloc <=> req.slot1 # NoReq
      /\ TailIdx2 \in alloc <=> req.slot2 # NoReq
      /\ alloc \subseteq {TailIdx, TailIdx2}
      /\ TailIdx2 \in alloc => AllocWidth(req, Flush) = 2
      /\ alloc # {} => ~FlushAll /\ ~FlushEn
      /\ \A t \in alloc : rob_class'[t] = IF t = TailIdx THEN req.slot1 ELSE req.slot2
  BY <1>1, AllocParts
<1>5. /\ alloc \subseteq rob_valid' /\ rob_valid \cap alloc = {}
      /\ rob_valid' \subseteq rob_valid \cup alloc /\ alloc \subseteq Tag
  BY <1>1, ValidSets
<1>6. CheckpointRestore = {}
  BY RestoreChoice
<1> HIDE DEF wb
<1>7. PICK y : y = IF req.slot2 \in WritesReg THEN TailIdx2 ELSE TailIdx
  OBVIOUS
<1>8. int_rat_valid' /\ int_rat_tag' = y
  BY <1>6, <1>7, ActiveParts
<1>9. y \in alloc /\ y \in rob_valid' /\ y \notin rob_valid /\ rob_class'[y] \in WritesReg /\ y \in Tag
  BY <1>3, <1>4, <1>5, <1>7
<1>10. Lookup' = {y}
  BY <1>8, <1>9 DEF Lookup
<1>11. y \in Producers' /\ Producers' = {t \in rob_valid' : rob_class'[t] \in WritesReg}
  BY <1>9 DEF Producers
<1>12. ASSUME NEW t \in Producers', t # y PROVE Younger(y, t)' /\ ~Younger(t, y)'
  <2>1. CASE t \in rob_valid
    BY <1>1, <1>9, <1>11, <2>1, StepAges
  <2>2. CASE t \notin rob_valid
    <3>1. t = TailIdx /\ y = TailIdx2 /\ AllocWidth(req, Flush) = 2 /\ t \in Tag
      <4>1. t \in alloc /\ rob_class'[t] \in WritesReg
        BY <1>5, <1>11, <2>2
      <4> QED
        BY <1>4, <1>7, <1>9, <1>12, <4>1
    <3>2. Younger(y, t)'
      BY <1>1, <3>1, SlotOrder
    <3> QED
      BY <1>1, <1>9, <3>1, <3>2, AgeFacts
  <2> QED
    BY <2>1, <2>2
<1>13. ~Younger(y, y)'
  BY <1>1, <1>9, AgeFacts
<1>14. Youngest(Producers)' = {t \in Producers' : \A u \in Producers' : ~Younger(u, t)'}
  BY DEF Youngest
<1>15. {t \in Producers' : \A u \in Producers' : ~Younger(u, t)'} = {y}
  BY <1>11, <1>12, <1>13
<1> QED
  BY <1>2, <1>8, <1>9, <1>10, <1>14, <1>15 DEF ActiveIsRight

(* Otherwise the active entry stays, until its producer has retired; the   *)
(* flush of an early recovery takes the producers the restore passed over. *)
LEMMA ActiveKept ==
  ASSUME ContractInv, WrongPathInv, PoolInv, StaleHoldFreesNothing, NEW req \in Bundles,
         NEW cdb \in CdbBundles(workload), NEW issue \in Issues, NEW mispredicted \in BOOLEAN,
         NEW st, NEW trap \in BOOLEAN, Cycle(req, cdb, issue, mispredicted, st, trap),
         RenameInv, ~FlushAll, ~mispredict_recovery_pending, ~EarlyMispredictActive,
         req.slot1 \notin WritesReg, req.slot2 \notin WritesReg
  PROVE  ActiveIsRight'
<1> DEFINE wb        == Inputs(cdb, issue, mispredicted)
           alloc     == Allocated(AllocWidth(req, Flush))
           committed == Committed(CommitWidth(wb, Flush, st))
<1>1. Clock(req, wb, Flush, st) /\ EarlyRecoveryClock(BranchUpdate(issue, mispredicted))
  BY CycleParts
<1>2. ~early_backend_recovery_pending'
  BY <1>1, EarlyParts
<1>3. /\ rob_valid' = ((rob_valid \ Flushed(Flush)) \cup alloc) \ committed
      /\ rob_valid \subseteq Tag /\ alloc \subseteq Tag /\ rob_valid \cap alloc = {}
      /\ committed \subseteq rob_valid
      /\ (FlushEn => alloc = {}) /\ (FlushEn => committed = {})
  BY <1>1, ValidSets
<1>4. \A t \in alloc : rob_class'[t] \notin WritesReg
  BY <1>1, AllocParts
<1>5. commit_q' = {i \in committed : rob_class[i] \in WritesReg}
  BY RatParts
<1>6. CheckpointRestore = {}
  BY RestoreChoice
<1>7. /\ int_rat_valid' <=> int_rat_valid /\ int_rat_tag \notin commit_q
      /\ int_rat_tag' = int_rat_tag
  BY <1>6, ActiveParts
<1>8. Lookup' = Lookup \cap rob_valid'
  BY <1>3, <1>7 DEF Lookup, RenameInv
<1> HIDE DEF wb, alloc, committed
<1>9. Lookup \subseteq Producers
  BY DEF RenameInv, Youngest, OlderProducers
<1>10. early_backend_recovery_pending =>
         \A t \in Lookup : t \notin Flushed(Flush)
  <2> SUFFICES ASSUME early_backend_recovery_pending, NEW t \in Lookup, t \in Flushed(Flush)
               PROVE  FALSE
    OBVIOUS
  <2>1. Younger(t, early_backend_flush_tag)
    BY FlushedParts
  <2>2. Younger(early_backend_flush_tag, t)
    BY DEF RenameInv, Youngest, OlderProducers
  <2>3. t \in Tag /\ early_backend_flush_tag \in Tag
    BY <1>3, <1>9 DEF Producers, ContractInv, ContractTypes
  <2> QED
    BY <1>1, <2>1, <2>2, <2>3, AgeFacts
<1>11. \A t \in Lookup : t \notin Flushed(Flush)
  BY <1>10, FlushedParts
<1>12. int_rat_valid' /\ int_rat_tag' \notin rob_valid' => int_rat_tag' \in commit_q'
  <2> SUFFICES ASSUME int_rat_valid', int_rat_tag' \notin rob_valid' PROVE int_rat_tag' \in commit_q'
    OBVIOUS
  <2>1. int_rat_valid /\ int_rat_tag \in rob_valid
    BY <1>7 DEF RenameInv
  <2>2. int_rat_tag \in Lookup
    BY <2>1 DEF Lookup
  <2>3. rob_class[int_rat_tag] \in WritesReg
    BY <1>9, <2>2 DEF Producers
  <2> QED
    BY <1>3, <1>5, <1>7, <1>11, <2>1, <2>2, <2>3
<1>13. CASE ~early_backend_recovery_pending
  <2> DEFINE T == {t \in Producers : t \in rob_valid'}
  <2>1. Lookup = Youngest(Producers)
    BY <1>13 DEF RenameInv
  <2>2. T = {t \in Producers : t \in rob_valid'}
    OBVIOUS
  <2>3. Producers' = T
    <3>1. ASSUME NEW t \in rob_valid' PROVE t \in Producers' <=> t \in Producers
      <4>1. CASE t \in rob_valid
        BY <1>1, <4>1, ProducersStep
      <4>2. CASE t \notin rob_valid
        BY <1>3, <1>4, <4>2 DEF Producers
      <4> QED
        BY <4>1, <4>2
    <3>2. Producers' \subseteq rob_valid'
      BY DEF Producers
    <3> QED
      BY <3>1, <3>2
  <2> HIDE DEF T
  <2>4. {t \in T : \A u \in T : ~Younger(u, t)'} = Lookup \cap rob_valid'
    BY <1>1, <1>13, <2>1, <2>2, SurvivingLookup
  <2>5. Youngest(Producers)' = {t \in T : \A u \in T : ~Younger(u, t)'}
    BY <2>3 DEF Youngest
  <2> QED
    BY <1>2, <1>8, <1>12, <2>4, <2>5 DEF ActiveIsRight
<1>14. CASE early_backend_recovery_pending
  <2>1. PICK b : b = early_backend_flush_tag
    OBVIOUS
  <2>2. /\ b \in rob_valid /\ b \in Tag /\ rob_class[b] \in BranchClasses
        /\ Lookup = Youngest(OlderProducers(b))
    BY <1>3, <1>14, <2>1 DEF RenameInv, ContractInv
  <2>3. /\ FlushEn /\ Flushed(Flush) = {i \in Tag : Younger(i, b)}
    BY <1>14, <2>1, FlushedParts
  <2>4. alloc = {} /\ rob_valid' = {i \in rob_valid : ~Younger(i, b)}
    BY <1>3, <2>3
  <2>5. b \in rob_valid'
    <3>1. ~Younger(b, b)
      BY <1>1, <2>2, AgeFacts
    <3> QED
      BY <2>2, <2>4, <3>1
  <2>6. /\ OlderProducers(b)' = {t \in OlderProducers(b) : t \in rob_valid'}
        /\ Youngest(OlderProducers(b))' = Youngest(OlderProducers(b)) \cap rob_valid'
    BY <1>1, <2>2, <2>5, SurvivingOlder
  <2>7. b \notin Producers
    BY <2>2 DEF Producers, BranchClasses, WritesReg
  <2>8. Producers' = OlderProducers(b)'
    <3>1. ASSUME NEW t \in rob_valid' PROVE t \in Producers' <=> t \in OlderProducers(b)
      <4>1. t \in rob_valid /\ t \in Tag /\ ~Younger(t, b)
        BY <1>3, <2>4
      <4>2. t # b => Younger(b, t)
        <5>1. HeadIdx \in Tag
          BY CountFacts DEF ContractInv, RingInv
        <5> QED
          BY <2>2, <4>1, <5>1, AgeTotal DEF Younger
      <4>3. t \in Producers' <=> t \in Producers
        BY <1>1, <4>1, ProducersStep
      <4>4. ~Younger(b, b)
        BY <1>1, <2>2, AgeFacts
      <4> QED
        BY <2>7, <4>2, <4>3, <4>4 DEF OlderProducers
    <3>2. Producers' \subseteq rob_valid'
      BY DEF Producers
    <3> QED
      BY <2>6, <3>1, <3>2
  <2>9. Youngest(Producers)' = Youngest(OlderProducers(b))'
    BY <2>8 DEF Youngest
  <2> QED
    BY <1>2, <1>8, <1>12, <2>2, <2>6, <2>9 DEF ActiveIsRight
<1> QED
  BY <1>13, <1>14

LEMMA RenameStep ==
  ASSUME ContractInv, WrongPathInv, PoolInv, StaleHoldFreesNothing, NEW req \in Bundles,
         NEW cdb \in CdbBundles(workload), NEW issue \in Issues, NEW mispredicted \in BOOLEAN,
         NEW st, NEW trap \in BOOLEAN, Cycle(req, cdb, issue, mispredicted, st, trap),
         RenameInv
  PROVE  RenameInv'
<1> DEFINE wb == Inputs(cdb, issue, mispredicted)
<1>1. Clock(req, wb, Flush, st) /\ FlushControllerClock(wb, st)
  BY CycleParts
<1> HIDE DEF wb
<1>2. ASSUME NEW b \in Guarded', NEW c, c = rob_checkpoint_id'[b]
      PROVE  /\ ckpt_meta'[c].tag = b /\ SameEpoch(b, ckpt_meta[c].epoch)'
             /\ Restored(c)' = Youngest(OlderProducers(b))'
  <2>1. ~FlushAll /\ b \in rob_valid'
    BY <1>1, AllFlushed DEF Guarded
  <2>2. CASE b \in Guarded
    <3>1. c = rob_checkpoint_id[b]
      BY <1>2, <2>1, <2>2, GuardedKeeps
    <3> QED
      BY <2>1, <2>2, <3>1, OldImage
  <2>3. CASE b \notin Guarded
    <3>1. CheckpointSave(req) /\ b = CheckpointBranchTag(req)
      BY <2>1, <2>3, GuardedStep
    <3>2. b \in Tag /\ rob_checkpoint_id \in [Tag -> Checkpoint]
      BY <3>1, BundleParts, CycleParts DEF PoolInv, PoolTypes, TypeOK
    <3>3. c = checkpoint_alloc_id
      BY <1>2, <2>1, <3>1, <3>2, TrackerParts
    <3> QED
      BY <3>1, <3>3, NewImage
  <2> QED
    BY <2>2, <2>3
<1>3. ASSUME NEW b \in Guarded'
      PROVE  /\ ckpt_meta'[rob_checkpoint_id'[b]].tag = b
             /\ SameEpoch(b, ckpt_meta[rob_checkpoint_id[b]].epoch)'
             /\ Restored(rob_checkpoint_id[b])' = Youngest(OlderProducers(b))'
  <2>1. PICK c : c = rob_checkpoint_id'[b]
    OBVIOUS
  <2>2. Restored(rob_checkpoint_id[b])' = Restored(c)'
    BY <2>1 DEF Restored, RestoredTagStillLive, Epoch
  <2>3. SameEpoch(b, ckpt_meta[rob_checkpoint_id[b]].epoch)' <=> SameEpoch(b, ckpt_meta[c].epoch)'
    BY <2>1 DEF SameEpoch
  <2> QED
    BY <1>2, <2>1, <2>2, <2>3
<1>4. mispredict_recovery_pending' => ckpt_meta'[mispredict_commit_q'.id].tag \notin rob_valid'
  <2> SUFFICES ASSUME mispredict_recovery_pending'
               PROVE  ckpt_meta'[mispredict_commit_q'.id].tag \notin rob_valid'
    OBVIOUS
  <2>1. HeadIdx \in Guarded /\ CommitWidth(wb, Flush, st) = 1
    BY <1>1, MispredictParts, MispredictionRetires DEF Unrepaired, Guarded
  <2>2. mispredict_commit_q'.id = rob_checkpoint_id[HeadIdx]
    BY <1>1, MispredictParts, SMT
  <2>3. ckpt_meta'[mispredict_commit_q'.id].tag = HeadIdx
    <3>1. ckpt_meta'[rob_checkpoint_id[HeadIdx]] = ckpt_meta[rob_checkpoint_id[HeadIdx]]
      BY <2>1, ImageKept
    <3>2. ckpt_meta[rob_checkpoint_id[HeadIdx]].tag = HeadIdx
      BY <2>1 DEF RenameInv
    <3> QED
      BY <2>2, <3>1, <3>2
  <2>4. HeadIdx \in Committed(1)
    <3>1. TagSub(HeadIdx, HeadIdx) = 0
      BY CountFacts, DepthAssumption, SMT DEF ContractInv, RingInv, TagSub, Tag
    <3>2. Committed(1) = {i \in rob_valid : TagSub(i, HeadIdx) < 1}
      BY <1>1, <2>1, ValidParts
    <3> QED
      BY <2>1, <3>1, <3>2, SMT DEF Guarded
  <2>5. rob_valid' \cap Committed(CommitWidth(wb, Flush, st)) = {}
    BY <1>1, ValidSets
  <2>6. HeadIdx \notin rob_valid'
    BY <2>1, <2>4, <2>5
  <2> QED
    BY <2>3, <2>6
<1>5. commit_q' \cap rob_valid' = {}
  <2>1. commit_q' \subseteq Committed(CommitWidth(wb, Flush, st))
    <3>1. CASE FlushAll
      BY <3>1, RatParts
    <3>2. CASE ~FlushAll
      <4>1. commit_q' = {i \in Committed(CommitWidth(wb, Flush, st)) : rob_class[i] \in WritesReg}
        BY <3>2, RatParts DEF wb
      <4> QED
        BY <4>1
    <3> QED
      BY <3>1, <3>2
  <2>2. rob_valid' \cap Committed(CommitWidth(wb, Flush, st)) = {}
    BY <1>1, ValidSets
  <2> QED
    BY <2>1, <2>2
<1>6. ActiveIsRight'
  BY ActiveFlushed, ActiveRestored, ActiveRenamed, ActiveKept
<1> QED
  BY <1>3, <1>4, <1>5, <1>6 DEF RenameInv, ActiveIsRight

LEMMA RenameInit == Init => RenameInv
<1> SUFFICES ASSUME Init PROVE RenameInv
  OBVIOUS
<1>1. /\ ~early_backend_recovery_pending /\ ~mispredict_recovery_pending /\ rob_valid = {}
      /\ commit_q = {} /\ ~int_rat_valid
  BY DEF Init, RobInit, RatInit
<1>2. Guarded = {} /\ Producers = {} /\ Lookup = {}
  BY <1>1 DEF Guarded, Producers, Lookup
<1> QED
  BY <1>1, <1>2 DEF RenameInv, Youngest

LEMMA RenameNext ==
  ContractInv /\ WrongPathInv /\ PoolInv /\ StaleHoldFreesNothing /\ RenameInv /\ [Next]_vars =>
    RenameInv'
<1> SUFFICES ASSUME ContractInv, WrongPathInv, PoolInv, StaleHoldFreesNothing, RenameInv, [Next]_vars
             PROVE  RenameInv'
  OBVIOUS
<1>1. CASE Next
  BY <1>1, NextIsCycle, RenameStep
<1>2. CASE UNCHANGED vars
  <2>1. UNCHANGED recoveryVars /\ UNCHANGED ratVars /\ UNCHANGED robVars
    BY <1>2 DEF vars
  <2>2. Guarded' = Guarded /\ Producers' = Producers /\ Lookup' = Lookup /\ HeadIdx' = HeadIdx
    BY <2>1 DEF recoveryVars, ratVars, robVars, Guarded, Producers, Lookup, HeadIdx
  <2>3. \A b : OlderProducers(b)' = OlderProducers(b)
    BY <2>2 DEF OlderProducers, Younger
  <2>4. /\ \A b : Youngest(OlderProducers(b))' = Youngest(OlderProducers(b))
        /\ Youngest(Producers)' = Youngest(Producers)
    BY <2>2, <2>3 DEF Youngest, Younger
  <2>5. /\ rob_checkpoint_id' = rob_checkpoint_id /\ ckpt_meta' = ckpt_meta /\ ckpt_rat' = ckpt_rat
        /\ rob_entry_epoch' = rob_entry_epoch /\ rob_valid' = rob_valid /\ commit_q' = commit_q
        /\ rob_class' = rob_class /\ int_rat_valid' = int_rat_valid /\ int_rat_tag' = int_rat_tag
        /\ early_backend_recovery_pending' = early_backend_recovery_pending
        /\ early_backend_flush_tag' = early_backend_flush_tag
        /\ mispredict_recovery_pending' = mispredict_recovery_pending
        /\ mispredict_commit_q' = mispredict_commit_q
    BY <2>1 DEF recoveryVars, ratVars, robVars
  <2>6. ASSUME NEW b \in Guarded'
        PROVE  /\ ckpt_meta'[rob_checkpoint_id'[b]].tag = b
               /\ SameEpoch(b, ckpt_meta[rob_checkpoint_id[b]].epoch)'
               /\ Restored(rob_checkpoint_id[b])' = Youngest(OlderProducers(b))'
    <3>1. PICK c : c = rob_checkpoint_id[b]
      OBVIOUS
    <3>2. Restored(rob_checkpoint_id[b])' = Restored(c)
      BY <2>2, <2>5, <3>1 DEF Restored, RestoredTagStillLive, Epoch
    <3>3. SameEpoch(b, ckpt_meta[rob_checkpoint_id[b]].epoch)' <=>
            SameEpoch(b, ckpt_meta[rob_checkpoint_id[b]].epoch)
      BY <2>5 DEF SameEpoch, Epoch
    <3> QED
      BY <2>2, <2>4, <2>5, <3>1, <3>2, <3>3 DEF RenameInv
  <2>7. Youngest(OlderProducers(early_backend_flush_tag))' = Youngest(OlderProducers(early_backend_flush_tag))
    BY <2>2, <2>5 DEF Youngest, OlderProducers, Younger
  <2> QED
    BY <2>2, <2>4, <2>5, <2>6, <2>7 DEF RenameInv
<1> QED
  BY <1>1, <1>2

(* Renaming is right: whenever a bundle can dispatch, the lookup of a      *)
(* source gives the youngest producer in flight, or the register file when *)
(* there is none, through retirements, recoveries at execution and at      *)
(* commit, and reused checkpoints (register_alias_table.sv).               *)
THEOREM RenamesRight == Spec /\ []StaleHoldFreesNothing => []RenameCorrect
<1>1. ContractInv /\ RenameInv => RenameCorrect
  BY DEF ContractInv, RenameInv, RenameCorrect, DispatchValid, Youngest
<1> QED
  BY <1>1, RenameInit, RenameNext, PoolInit, PoolNext, WrongPathInit, WrongPathNext, ContractInit,
     ContractNext, PTL DEF Spec

=============================================================================
