---------------------------- MODULE BranchRecovery ----------------------------
(***************************************************************************)
(* Misprediction recovery: branch resolution, early (execute-time) and     *)
(* commit-time recovery, the flush controller and the checkpoint pool,     *)
(* composed with the reorder buffer and the register alias table.          *)
(*                                                                         *)
(*   cpu_ooo/branch_recovery/branch_resolution.sv                          *)
(*   cpu_ooo/branch_recovery/early_misprediction_recovery.sv               *)
(*   cpu_ooo/branch_recovery/misprediction_flush_controller.sv             *)
(*   cpu_ooo/cpu_ooo.sv  (checkpoint_in_use, owner tags, commit hold)      *)
(*   tomasulo/dispatch/dispatch.sv  (when a bundle fires)                  *)
(*                                                                         *)
(* A branch that mispredicts at cycle N redirects fetch and restores the   *)
(* table at N+1 and flushes the back end at N+2.  One that could not is    *)
(* recovered in the cycle after it retires.  Traps are an input: a trap    *)
(* (or MRET) taken in a cycle flushes everything in the next.              *)
(***************************************************************************)
EXTENDS RegisterAliasTable

CONSTANT Workloads  \* as in ReorderBufferSpec

VARIABLES workload,
          early_mispredict_pending, early_mispredict_tag, early_mispredict_checkpoint_id,
          early_backend_recovery_pending, early_backend_flush_tag,
          mispredict_recovery_pending,
          mispredict_commit_q,                                         \* [tag, id]
          correct_branch_commit_pending, correct_branch_commit_q,      \* [tag, id]
          correct_branch_commit_pending_2, correct_branch_commit_q_2,  \* [tag, id]
          checkpoint_flush_free_mask_q,
          checkpoint_in_use, checkpoint_owner_tag,
          rob_checkpoint_id,  \* the checkpoint recorded with each ROB entry
          trap_taken_reg,     \* a trap or an MRET was taken a cycle ago
          if_valid_q, pd_valid_q,  \* the front end may hold an instruction
          wrong_path          \* history: entries dispatched down a wrong path

recoveryVars ==
  << early_mispredict_pending, early_mispredict_tag, early_mispredict_checkpoint_id,
     early_backend_recovery_pending, early_backend_flush_tag,
     mispredict_recovery_pending, mispredict_commit_q,
     correct_branch_commit_pending, correct_branch_commit_q,
     correct_branch_commit_pending_2, correct_branch_commit_q_2,
     checkpoint_flush_free_mask_q, checkpoint_in_use, checkpoint_owner_tag,
     rob_checkpoint_id, trap_taken_reg, if_valid_q, pd_valid_q, wrong_path >>

vars == << workload, robVars, ratVars, recoveryVars >>

Younger(t, u) == PtrSub(t, HeadIdx) > PtrSub(u, HeadIdx)

-----------------------------------------------------------------------------
(* The flush controller's combinational outputs.                           *)

fence_i_flush == fence_i_committed

EarlyMispredictActive ==
  /\ early_mispredict_pending
  /\ ~mispredict_recovery_pending /\ ~trap_taken_reg /\ ~fence_i_flush

FlushAll == \/ trap_taken_reg
            \/ (~early_backend_recovery_pending /\ ~mispredict_recovery_pending /\ fence_i_flush)

FlushEn == ~trap_taken_reg /\ (early_backend_recovery_pending \/ mispredict_recovery_pending)

FlushTag == IF early_backend_recovery_pending THEN early_backend_flush_tag
            ELSE mispredict_commit_q.tag

Flush == [all |-> FlushAll, en |-> FlushEn, after_head |-> mispredict_recovery_pending,
          tag |-> FlushTag]

FlushPipeline == EarlyMispredictActive \/ mispredict_recovery_pending
                   \/ trap_taken_reg \/ fence_i_flush

FullFlushSideEffectKill == trap_taken_reg \/ fence_i_flush

CheckpointRestore ==
  IF FlushAll THEN {}
  ELSE IF EarlyMispredictActive THEN {early_mispredict_checkpoint_id}
  ELSE IF mispredict_recovery_pending THEN {mispredict_commit_q.id} ELSE {}

OwnedBy(q) == q.id \in checkpoint_in_use /\ checkpoint_owner_tag[q.id] = q.tag

(* Mutant: a branch recovered early keeps its checkpoint.                  *)
FreeOfCorrectOnly ==
  IF FlushAll THEN {}
  ELSE IF mispredict_recovery_pending THEN {mispredict_commit_q.id}
  ELSE IF correct_branch_commit_pending /\ OwnedBy(correct_branch_commit_q)
       THEN {correct_branch_commit_q.id} ELSE {}

CheckpointFree ==
  IF FlushAll THEN {}
  ELSE IF early_backend_recovery_pending THEN {early_mispredict_checkpoint_id}
  ELSE IF mispredict_recovery_pending THEN {mispredict_commit_q.id}
  ELSE IF correct_branch_commit_pending /\ OwnedBy(correct_branch_commit_q)
       THEN {correct_branch_commit_q.id} ELSE {}

CheckpointFree2 ==
  IF ~FlushAll /\ correct_branch_commit_pending_2 /\ OwnedBy(correct_branch_commit_q_2)
  THEN {correct_branch_commit_q_2.id} ELSE {}

CorrectBranch2Served == ~EarlyMispredictActive /\ ~mispredict_recovery_pending
                          /\ ~correct_branch_commit_pending

-----------------------------------------------------------------------------
(* Branch resolution.  issue is the set of at most one branch the INT      *)
(* station presents; around a flush it may present one being flushed.      *)

IssueIsFlushed(t) ==
  IF trap_taken_reg \/ fence_i_flush THEN TRUE
  ELSE IF EarlyMispredictActive \/ early_backend_recovery_pending
       THEN PtrSub(t, HeadIdx) >= PtrSub(early_mispredict_tag, HeadIdx)
  ELSE mispredict_recovery_pending

IssueCheckpointLive(t) == OwnedBy([tag |-> t, id |-> rob_checkpoint_id[t]])

BranchUpdate(issue, mispredicted) ==
  {[tag |-> t, mispredicted |-> mispredicted] :
     t \in {u \in issue : IssueCheckpointLive(u) /\ ~IssueIsFlushed(u)}}

EarlyCapture(update) ==
  {b.tag : b \in {b \in update : b.mispredicted /\ ~early_mispredict_pending
                                   /\ ~early_backend_recovery_pending}}

EarlyFire(update) == {t \in EarlyCapture(update) : rob_class[t] # "jalr" /\ ~fence_i_flush
                                                     /\ ~mispredict_recovery_pending}

-----------------------------------------------------------------------------
(* Dispatch: when a bundle fires.                                          *)

DispatchValid == pd_valid_q /\ ~mispredict_recovery_pending

LegalBundle(req) ==
  /\ req.slot1 # NoReq => /\ DispatchValid /\ ~early_mispredict_pending /\ ~dispatch_full_q
                          /\ ~FullFlushSideEffectKill
  /\ req.slot2 # NoReq => /\ req.slot1 \notin BranchClasses \cup {NoReq}
                          /\ ~dispatch_full_for_2_q
  /\ CheckpointSave(req) => checkpoint_available
  /\ req.jal_mis => "jal" \in {req.slot1, req.slot2}

Bundles == {req \in [slot1 : workload.classes \cup {NoReq},
                     slot2 : workload.classes \cup {NoReq}, jal_mis : BOOLEAN] : LegalBundle(req)}

(* The branch the INT station may present: none while recovery holds it.   *)
Issues == {{}} \cup (IF early_mispredict_pending THEN {}
                     ELSE {{t} : t \in Waiting({"branch", "jalr"})})

-----------------------------------------------------------------------------
(* Reset, and one clock cycle.                                             *)

Init ==
  /\ RobInit /\ RatInit /\ workload \in Workloads
  /\ early_mispredict_pending = FALSE /\ early_mispredict_tag = 0
  /\ early_mispredict_checkpoint_id = 0
  /\ early_backend_recovery_pending = FALSE /\ early_backend_flush_tag = 0
  /\ mispredict_recovery_pending = FALSE /\ mispredict_commit_q = [tag |-> 0, id |-> 0]
  /\ correct_branch_commit_pending = FALSE
  /\ correct_branch_commit_q = [tag |-> 0, id |-> 0]
  /\ correct_branch_commit_pending_2 = FALSE
  /\ correct_branch_commit_q_2 = [tag |-> 0, id |-> 0]
  /\ checkpoint_flush_free_mask_q = {}
  /\ checkpoint_in_use = {} /\ checkpoint_owner_tag = [c \in Checkpoint |-> 0]
  /\ rob_checkpoint_id = [i \in Tag |-> 0]
  /\ trap_taken_reg = FALSE /\ if_valid_q = FALSE /\ pd_valid_q = FALSE /\ wrong_path = {}

(* early_misprediction_recovery.sv                                         *)
EarlyRecoveryClock(update) ==
  LET captured == EarlyCapture(update) IN
  /\ early_mispredict_pending' = (~FlushAll /\ EarlyFire(update) # {})
  /\ IF captured = {}
     THEN UNCHANGED << early_mispredict_tag, early_mispredict_checkpoint_id >>
     ELSE \E t \in captured : /\ early_mispredict_tag' = t
                              /\ early_mispredict_checkpoint_id' = rob_checkpoint_id[t]
  /\ early_backend_recovery_pending' =
       (EarlyMispredictActive /\ ~trap_taken_reg /\ ~fence_i_flush)
  /\ early_backend_flush_tag' =
       IF EarlyMispredictActive THEN early_mispredict_tag ELSE early_backend_flush_tag

CommitIsMisprediction(wb, st) ==
  /\ CommitMispredictionRaw(wb, Flush, st)
  /\ ~(/\ EarlyMispredictActive \/ early_backend_recovery_pending
       /\ HeadIdx = early_mispredict_tag)

(* misprediction_flush_controller.sv                                       *)
FlushControllerClock(wb, st) ==
  LET fl       == Flush
      mis      == CommitIsMisprediction(wb, st)
      correct  == CommitCorrectBranchRaw(wb, fl, st)
      correct2 == CommitCorrectBranch2Raw(wb, fl, st)
      head     == [tag |-> HeadIdx, id |-> rob_checkpoint_id[HeadIdx]]
      next     == [tag |-> HeadNextIdx, id |-> rob_checkpoint_id[HeadNextIdx]]
  IN /\ mispredict_recovery_pending' = (~FlushAll /\ mis)
     /\ mispredict_commit_q' = IF mis THEN head ELSE mispredict_commit_q
     /\ correct_branch_commit_pending' = (~FlushAll /\ correct)
     /\ correct_branch_commit_q' = IF correct THEN head ELSE correct_branch_commit_q
     /\ correct_branch_commit_pending_2' =
          (~FlushAll /\ (correct2 \/ (correct_branch_commit_pending_2 /\ ~CorrectBranch2Served)))
     /\ correct_branch_commit_q_2' = IF correct2 THEN next ELSE correct_branch_commit_q_2
     /\ checkpoint_flush_free_mask_q' =
          IF FlushAll \/ ~FlushEn THEN {}
          ELSE IF mispredict_recovery_pending THEN checkpoint_in_use
          ELSE {c \in checkpoint_in_use : Younger(checkpoint_owner_tag[c], FlushTag)}

(* cpu_ooo.sv: the checkpoint bookkeeping next to the table's own.         *)
CheckpointTracker(req, freed) ==
  /\ checkpoint_in_use' =
       IF FlushAll THEN {}
       ELSE (checkpoint_in_use \ freed)
              \cup (IF CheckpointSave(req) THEN {checkpoint_alloc_id} ELSE {})
  /\ IF CheckpointSave(req)
     THEN /\ checkpoint_owner_tag' =
               [checkpoint_owner_tag EXCEPT ![checkpoint_alloc_id] = CheckpointBranchTag(req)]
          /\ rob_checkpoint_id' =
               [rob_checkpoint_id EXCEPT ![CheckpointBranchTag(req)] = checkpoint_alloc_id]
     ELSE UNCHANGED << checkpoint_owner_tag, rob_checkpoint_id >>

(* Which entries are down a wrong path: those younger than a branch known  *)
(* to be mispredicted, and those dispatched before fetch was redirected.   *)
WrongPath(update, alloc) ==
  LET now == {b.tag : b \in {b \in update : b.mispredicted}}
      unrepaired == now \cup {t \in rob_valid \cap rob_mispredicted :
                                rob_class[t] \in BranchClasses /\ t \notin rob_early_recovered}
  IN ((wrong_path \cup {i \in rob_valid : \E t \in now : Younger(i, t)}) \ alloc)
       \cup (IF unrepaired = {} THEN {} ELSE alloc)

Cycle(req, cdb, issue, mispredicted, st, trap) ==
  LET fl        == Flush
      update    == BranchUpdate(issue, mispredicted)
      early     == IF EarlyMispredictActive THEN {early_mispredict_tag} ELSE {}
      wb        == [cdb |-> cdb, store |-> {}, branch |-> update, early |-> early]
      alloc     == Allocated(AllocWidth(req, fl))
      committed == Committed(CommitWidth(wb, fl, st))
      freed     == checkpoint_flush_free_mask_q \cup CheckpointFree \cup CheckpointFree2
  IN /\ Clock(req, wb, fl, st)
     /\ RatClock(req, FlushAll, CheckpointRestore, freed, alloc, committed)
     /\ EarlyRecoveryClock(update)
     /\ FlushControllerClock(wb, st)
     /\ CheckpointTracker(req, freed)
     /\ trap_taken_reg' = trap
     /\ if_valid_q' = ~FlushPipeline /\ pd_valid_q' = (if_valid_q /\ ~FlushPipeline)
     /\ wrong_path' = WrongPath(update, alloc) \cap rob_valid'
     /\ UNCHANGED workload

(* Commit is also held around traps and CSR writes, at any time.           *)
Statuses ==
  [hold : {TRUE, mispredict_recovery_pending}, irq : {FALSE}, sq_empty : {TRUE},
   sync_done : IF serial_state = "FENCE_I_SYNC" THEN BOOLEAN ELSE {FALSE},
   csr_done : {FALSE}, mret_done : {FALSE}, trap_taken : {FALSE}, user : {FALSE},
   counteren : {FALSE}]

Next ==
  \E trap \in BOOLEAN, st \in Statuses, issue \in Issues, cdb \in CdbBundles(workload),
     req \in Bundles :
    \E mispredicted \in (IF issue = {} THEN {FALSE} ELSE BOOLEAN) :
      Cycle(req, cdb, issue, mispredicted, st, trap)

Spec == Init /\ [][Next]_vars
-----------------------------------------------------------------------------
(* Properties.                                                             *)

Captures == [tag : Tag, id : Checkpoint]

(* The registers of the recovery path hold values of their widths.         *)
TypeOK ==
  /\ early_mispredict_pending \in BOOLEAN /\ early_backend_recovery_pending \in BOOLEAN
  /\ early_mispredict_tag \in Tag /\ early_backend_flush_tag \in Tag
  /\ early_mispredict_checkpoint_id \in Checkpoint
  /\ mispredict_recovery_pending \in BOOLEAN /\ mispredict_commit_q \in Captures
  /\ correct_branch_commit_pending \in BOOLEAN /\ correct_branch_commit_q \in Captures
  /\ correct_branch_commit_pending_2 \in BOOLEAN /\ correct_branch_commit_q_2 \in Captures
  /\ checkpoint_in_use \subseteq Checkpoint /\ checkpoint_flush_free_mask_q \subseteq Checkpoint
  /\ checkpoint_owner_tag \in [Checkpoint -> Tag] /\ rob_checkpoint_id \in [Tag -> Checkpoint]
  /\ {trap_taken_reg, if_valid_q, pd_valid_q} \subseteq BOOLEAN /\ wrong_path \subseteq rob_valid
  /\ checkpoint_alloc_id \in Checkpoint /\ int_rat_tag \in Tag

(* The recovery path keeps the reorder buffer's input contract: the tag of *)
(* a partial flush names a live entry two cycles after the branch resolved *)
(* (commit is blocked meanwhile), and the early-recovered mark goes to a   *)
(* mispredicted branch that has not left.  And FENCE.I's full flush never  *)
(* meets a partial one, which would take its place in the priority chain   *)
(* of the flush controller.                                                *)
RobContractKept ==
  /\ LegalFlush([Flush EXCEPT !.tag = IF FlushEn /\ ~mispredict_recovery_pending
                                      THEN FlushTag ELSE 0], mispredict_recovery_pending)
  /\ EarlyMispredictActive =>
       /\ early_mispredict_tag \in (rob_valid \cap rob_done \cap rob_mispredicted) \ rob_early_recovered
       /\ rob_class[early_mispredict_tag] = "branch"
  /\ fence_i_flush => ~early_backend_recovery_pending /\ ~mispredict_recovery_pending

(* cpu_ooo.sv and register_alias_table.sv each keep the set of checkpoints *)
(* in use; saves, frees, bulk frees and flushes keep the two the same.     *)
TrackersAgree == checkpoint_in_use = checkpoint_valid

(* The branches that may still need their checkpoint.                      *)
Guarded == {t \in rob_valid : rob_class[t] \in BranchClasses /\ t \notin rob_early_recovered}

(* A checkpoint that is released in this cycle.                            *)
Released == IF FlushAll THEN checkpoint_in_use
            ELSE checkpoint_flush_free_mask_q \cup CheckpointFree \cup CheckpointFree2

(* No checkpoint is lost or freed early: a branch that may still be        *)
(* recovered owns its checkpoint, two of them never share one, and every   *)
(* other checkpoint in use is being released.                              *)
CheckpointsFollowBranches ==
  /\ \A t \in Guarded : IssueCheckpointLive(t)
  /\ checkpoint_in_use \subseteq {rob_checkpoint_id[t] : t \in Guarded} \cup Released

(* A restore copies the image of the very branch that is recovered.        *)
RestoreIsOwned ==
  /\ EarlyMispredictActive => OwnedBy([tag |-> early_mispredict_tag,
                                       id  |-> early_mispredict_checkpoint_id])
  /\ mispredict_recovery_pending /\ ~FlushAll => OwnedBy(mispredict_commit_q)

(* The pool of checkpoints is kept right by both trackers, through saves,  *)
(* frees on four channels and flushes: they agree, no checkpoint is lost,  *)
(* freed early or owned twice, and what is restored is the recovered       *)
(* branch's own (cpu_ooo.sv, register_alias_table.sv and                   *)
(* misprediction_flush_controller.sv).                                     *)
CheckpointsOwned ==
  TypeOK /\ TrackersAgree /\ CheckpointsFollowBranches /\ RestoreIsOwned

(* "a reallocated id can never be freed again by a stale hold": the free   *)
(* of a slot-2 branch that retired earlier is not repeated for the branch  *)
(* that now owns the checkpoint.                                           *)
StaleHoldFreesNothing ==
  CheckpointFree2 \cap {rob_checkpoint_id[t] : t \in Guarded} = {}

(* Whenever dispatch may rename, the register reads its youngest producer  *)
(* in flight, or the register file when there is none: no recovery leaves  *)
(* a stale or a resurrected rename behind.                                 *)
Producers == {t \in rob_valid : rob_class[t] \in WritesReg}

RenameCorrect ==
  DispatchValid /\ ~early_mispredict_pending /\ ~FullFlushSideEffectKill =>
    Lookup = {t \in Producers : \A u \in Producers : ~Younger(u, t)}

(* The entries that retire in a step: the head pointer moves past them.    *)
Retiring == {i \in rob_valid : TagSub(i, HeadIdx) < PtrSub(head_ptr', head_ptr)}

(* Recovery is exact: no instruction fetched down a mispredicted path ever *)
(* retires, and outside a full flush every entry that goes without         *)
(* retiring was fetched down one.                                          *)
RecoveryIsExact ==
  [][/\ Retiring \cap wrong_path = {}
     /\ FlushAll \/ rob_valid \ (rob_valid' \cup Retiring) \subseteq wrong_path]_vars

=============================================================================
