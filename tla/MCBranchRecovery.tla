--------------------------- MODULE MCBranchRecovery ---------------------------
(* Bounds for model checking misprediction recovery.                       *)
EXTENDS BranchRecovery

MCClasses == {"branch", "jal", "jalr", "int", "fence_i"}

Mix(classes) == [classes |-> classes, lanes |-> 1, faults |-> {FALSE}]

MCWorkloads     == {Mix({"branch", cls}) : cls \in {"jal", "jalr", "int", "fence_i"}}
BranchWorkloads == {Mix({"branch", "int"})}

(* A state as seen from the head.  The ring has no distinguished entry, so *)
(* rotating every pointer, tag and tag-indexed register by the same amount *)
(* maps behaviours to behaviours; so does toggling one entry's epoch along *)
(* with the epochs of the snapshots that name it.  Registers nobody reads  *)
(* before writing them again are left out.                                 *)
Rel(t) == TagSub(t, HeadIdx)
RelSet(S) == {Rel(t) : t \in S}

If(b, x) == IF b THEN x ELSE "unread"

Image(c) ==
  LET i == ckpt_rat[c] IN
    IF i.valid THEN << Rel(i.tag), i.epoch = Epoch(i.tag) >> ELSE "none"

Capture(q) == << Rel(q.tag), q.id >>

RelativeState ==
  << workload, Count, RelSet(head_clear_mask), RelSet(head_next_clear_mask), RelSet(rob_valid),
     RelSet(rob_done \cap rob_valid), RelSet(rob_mispredicted \cap rob_valid),
     RelSet(rob_early_recovered \cap rob_valid),
     [k \in RelSet(rob_valid) |-> rob_class[TagAdd(HeadIdx, k)]],
     dispatch_full_q, dispatch_full_for_2_q, serial_state, fence_i_committed,
     << int_rat_valid, If(int_rat_valid, Rel(int_rat_tag)), checkpoint_valid,
        checkpoint_available, checkpoint_alloc_id,
        [c \in checkpoint_in_use |->
           << Image(c), Rel(ckpt_meta[c].tag), ckpt_meta[c].epoch = Epoch(ckpt_meta[c].tag),
              Rel(checkpoint_owner_tag[c]) >>],
        RelSet(commit_q) >>,
     << early_mispredict_pending,
        If(early_mispredict_pending \/ early_backend_recovery_pending,
           << Rel(early_mispredict_tag), early_mispredict_checkpoint_id >>),
        early_backend_recovery_pending,
        If(early_backend_recovery_pending, Rel(early_backend_flush_tag)),
        mispredict_recovery_pending, If(mispredict_recovery_pending, Capture(mispredict_commit_q)),
        correct_branch_commit_pending,
        If(correct_branch_commit_pending, Capture(correct_branch_commit_q)),
        correct_branch_commit_pending_2,
        If(correct_branch_commit_pending_2, Capture(correct_branch_commit_q_2)),
        checkpoint_flush_free_mask_q, checkpoint_in_use,
        [k \in {Rel(t) : t \in Guarded} |-> rob_checkpoint_id[TagAdd(HeadIdx, k)]],
        trap_taken_reg, if_valid_q, pd_valid_q, RelSet(wrong_path) >> >>

=============================================================================
