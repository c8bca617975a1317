--------------------------- MODULE MCReorderBuffer ---------------------------
(* Bounds for model checking the reorder buffer.                           *)
EXTENDS ReorderBufferSpec

MCClasses == {"int", "jal", "sc", "branch", "store", "fence", "fence_i", "csr_cnt", "mret", "wfi"}

Mix(classes, lanes, faults) == [classes |-> classes, lanes |-> lanes, faults |-> faults]

(* The plainest workload is followed around the whole ring.                *)
Plain == Mix({"int"}, 1, {FALSE})

MCWorkloads == {Plain,
                Mix({"int"}, 2, BOOLEAN),
                Mix({"store", "sc"}, 2, {FALSE}),
                Mix({"branch"}, 1, {FALSE}),
                Mix({"fence", "fence_i", "jal"}, 1, {FALSE}),
                Mix({"csr_cnt", "mret", "wfi"}, 1, {FALSE})}

(* What is left in a freed entry is rewritten by its next allocation and   *)
(* read by nobody before that: states that differ only there are the same. *)
LiveState ==
  << head_ptr, tail_ptr, head_clear_mask, head_next_clear_mask, rob_valid,
     rob_done \cap rob_valid, rob_exception \cap rob_valid,
     rob_mispredicted \cap rob_valid, rob_early_recovered \cap rob_valid,
     [i \in rob_valid |-> rob_class[i]], dispatch_full_q, dispatch_full_for_2_q,
     serial_state, fence_i_committed, mispredict_recovery_pending, priv_user >>

(* The same, seen from the head: the ring has no distinguished entry, so   *)
(* rotating every pointer, tag and tag-indexed register by the same amount *)
(* maps behaviours to behaviours and changes no property that does not     *)
(* mention an absolute position.                                           *)
Rel(S) == {TagSub(t, HeadIdx) : t \in S}

RelativeState ==
  << Count, Rel(head_clear_mask), Rel(head_next_clear_mask), Rel(rob_valid),
     Rel(rob_done \cap rob_valid), Rel(rob_exception \cap rob_valid),
     Rel(rob_mispredicted \cap rob_valid), Rel(rob_early_recovered \cap rob_valid),
     [k \in Rel(rob_valid) |-> rob_class[TagAdd(HeadIdx, k)]],
     dispatch_full_q, dispatch_full_for_2_q,
     serial_state, fence_i_committed, mispredict_recovery_pending, priv_user >>

MCView == << workload, IF workload = Plain THEN LiveState ELSE RelativeState >>

=============================================================================
