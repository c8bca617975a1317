-------------------------- MODULE ReorderBufferSpec --------------------------
(***************************************************************************)
(* The reorder buffer driven by every input its neighbours may present,    *)
(* and the properties of the buffer alone.  The contract is the one        *)
(* reorder_buffer.sv asserts of its ports (simulation checks and FORMAL    *)
(* assumptions); BranchRecovery shows that the recovery logic keeps it.    *)
(***************************************************************************)
EXTENDS ReorderBuffer

(* What may run: the classes of its instructions, the results the CDB      *)
(* carries per cycle, and the exception flags a result may have.           *)
CONSTANT Workloads

ASSUME WorkloadAssumption ==
  Workloads \subseteq [classes : SUBSET Classes, lanes : {1, 2}, faults : SUBSET BOOLEAN]

VARIABLES workload,                     \* the one that runs
          mispredict_recovery_pending,  \* a mispredicted head retired a cycle ago
          priv_user                     \* the hart runs below machine mode

vars == << robVars, workload, mispredict_recovery_pending, priv_user >>

-----------------------------------------------------------------------------
(* Legal inputs: the flushes and results of ReorderBuffer's contract, and  *)
(* the requests, completions and statuses below.                           *)

Flushes == {fl \in [all : BOOLEAN, en : BOOLEAN, after_head : BOOLEAN, tag : Tag] :
              LegalFlush(fl, mispredict_recovery_pending)}

(* Dispatch obeys the registered back-pressure, is stopped by a flush, and *)
(* ends its bundle at a branch.  jal_mis is read only with a JAL.          *)
LegalRequest(req, fl) ==
  /\ req.slot1 # NoReq => ~fl.all /\ ~fl.en /\ ~dispatch_full_q
  /\ req.slot2 # NoReq => /\ req.slot1 \notin BranchClasses \cup {NoReq}
                          /\ ~dispatch_full_for_2_q
  /\ req.jal_mis => "jal" \in {req.slot1, req.slot2}

Requests(fl) ==
  {req \in [slot1 : workload.classes \cup {NoReq}, slot2 : workload.classes \cup {NoReq},
             jal_mis : BOOLEAN] : LegalRequest(req, fl)}

(* Completions other than the CDB: one plain store, one resolved branch,   *)
(* and the mark that a resolved misprediction has been recovered early.    *)
Completions ==
  [store  : {{}} \cup {{s} : s \in [tag : Waiting({"store"})]},
   branch : {{}} \cup {{b} : b \in [tag : Waiting({"branch", "jalr"}), mispredicted : BOOLEAN]},
   early  : {{}} \cup {{t} : t \in {u \in rob_valid \cap rob_done \cap rob_mispredicted :
                                     rob_class[u] = "branch" /\ u \notin rob_early_recovered}}]

(* irq, sq_empty and counteren are read only for the heads that wait on    *)
(* them; the acknowledgements answer a request; priv changes with a flush. *)
Statuses(fl) ==
  [hold       : IF mispredict_recovery_pending THEN {TRUE} ELSE BOOLEAN,
   irq        : IF HeadIs({"wfi"}) THEN BOOLEAN ELSE {FALSE},
   sq_empty   : IF HeadIs({"fence", "fence_i", "mret"}) THEN BOOLEAN ELSE {FALSE},
   sync_done  : IF serial_state = "FENCE_I_SYNC" THEN BOOLEAN ELSE {FALSE},
   csr_done   : IF serial_state = "CSR_EXEC" THEN BOOLEAN ELSE {FALSE},
   mret_done  : IF fl.all THEN BOOLEAN ELSE {FALSE},
   trap_taken : IF fl.all THEN BOOLEAN ELSE {FALSE},
   user       : IF fl.all THEN BOOLEAN ELSE {priv_user},
   counteren  : IF HeadIs({"csr_cnt"}) THEN BOOLEAN ELSE {FALSE}]

-----------------------------------------------------------------------------

Init ==
  /\ RobInit /\ workload \in Workloads
  /\ mispredict_recovery_pending = FALSE /\ priv_user = FALSE

Cycle(req, wb, fl, st) ==
  /\ Clock(req, wb, fl, st)
  /\ mispredict_recovery_pending' = CommitMispredictionRaw(wb, fl, st)
  /\ priv_user' = st.user
  /\ UNCHANGED workload

Next ==
  \E fl \in Flushes :
    \E st \in Statuses(fl), c \in Completions, cdb \in CdbBundles(workload), req \in Requests(fl) :
      Cycle(req, [cdb |-> cdb, store |-> c.store, branch |-> c.branch, early |-> c.early],
            fl, st)

Spec == Init /\ [][Next]_vars

-----------------------------------------------------------------------------
(* Properties of the buffer in this environment; those of the ring itself  *)
(* are at the end of ReorderBuffer.                                        *)

(* Every register of reorder_buffer.sv holds a value of its width.         *)
TypeOK ==
  /\ head_ptr \in Ptr /\ tail_ptr \in Ptr
  /\ head_clear_mask \subseteq Tag /\ head_next_clear_mask \subseteq Tag
  /\ rob_valid \subseteq Tag /\ rob_done \subseteq Tag /\ rob_exception \subseteq Tag
  /\ rob_mispredicted \subseteq Tag /\ rob_early_recovered \subseteq Tag
  /\ rob_class \in [Tag -> AllClasses]
  /\ dispatch_full_q \in BOOLEAN /\ dispatch_full_for_2_q \in BOOLEAN
  /\ serial_state \in SerialStates
  /\ fence_i_committed \in BOOLEAN /\ workload \in Workloads
  /\ mispredict_recovery_pending \in BOOLEAN /\ priv_user \in BOOLEAN

(* While the serializer waits, the head is the finished instruction that   *)
(* made it wait: a flush or a commit can never leave it waiting for an     *)
(* instruction that is gone.                                               *)
SerialStateMatchesHead ==
  serial_state # "IDLE" =>
    /\ HeadIdx \in rob_valid \cap rob_done
    /\ LET cls == rob_class[HeadIdx] IN
         CASE serial_state = "WAIT_SQ"      -> cls \in {"fence", "fence_i"}
           [] serial_state = "FENCE_I_SYNC" -> cls = "fence_i"
           [] serial_state = "CSR_EXEC"     -> cls \in CsrClasses
           [] serial_state = "MRET_EXEC"    -> cls = "mret"
           [] serial_state = "WFI_WAIT"     -> cls = "wfi"
           [] serial_state = "TRAP_WAIT"    -> HeadIdx \in rob_exception \/ priv_user

(* The entries that retire in a step: the head pointer moves past them.    *)
Retiring == {i \in rob_valid : TagSub(i, HeadIdx) < PtrSub(head_ptr', head_ptr)}

(* The registers that say the same thing twice agree, through every mix of *)
(* flush, allocation and commit: the types, the valid bits with the two    *)
(* pointers, the one-hot images with the head, the registered full flags   *)
(* with the occupancy, and the serializer's state with the head it waits   *)
(* for (reorder_buffer.sv and rob_serializer.sv).                          *)
RegistersAgree ==
  TypeOK /\ ValidIsWindow /\ MasksFollowHead /\ BackPressureCovers /\ SerialStateMatchesHead

(* What a step retires is fit to retire:                                   *)
(* - nothing has an exception, not even one that the CDB reports in the    *)
(*   cycle in which the entry would otherwise leave;                       *)
(* - a misprediction that no early recovery has repaired leaves alone, so  *)
(*   that the single recovery path sees each of them;                      *)
(* - FENCE.I leaves only through the cache sync, a CSR only after its      *)
(*   execution, MRET never (the flush of the return removes it): no head   *)
(*   seen in a recovery bubble is retired unserialized.                    *)
RetireOk ==
  /\ Retiring \cap rob_exception' = {}
  /\ PtrSub(head_ptr', head_ptr) = 2 =>
       \A i \in Retiring : rob_class[i] \in BranchClasses => i \notin rob_mispredicted
  /\ head_ptr' # head_ptr =>
       /\ rob_class[HeadIdx] = "fence_i" => serial_state = "FENCE_I_SYNC"
       /\ rob_class[HeadIdx] \in CsrClasses => serial_state = "CSR_EXEC"
       /\ rob_class[HeadIdx] # "mret"

(* Every step retires only what RetireOk allows.                           *)
RetiresLawfully == [][RetireOk]_vars

(* The ring implements the instruction window: in-order, gap-free retire,  *)
(* squash of suffixes only, at most two in and two out.                    *)
Window ==
  [k \in 1 .. Count |->
     LET i == TagAdd(HeadIdx, k - 1) IN
       [cls |-> rob_class[i], done |-> i \in rob_done, exception |-> i \in rob_exception]]

Abstract == INSTANCE InstructionWindow
              WITH Capacity <- Depth, Alone <- SerialClasses \cup AtomicClasses,
                   window <- Window

ImplementsWindow == Abstract!Spec

=============================================================================
