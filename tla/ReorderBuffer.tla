---------------------------- MODULE ReorderBuffer ----------------------------
(***************************************************************************)
(* The reorder buffer of FROST's Tomasulo core, with its serializer.       *)
(*                                                                         *)
(*   hw/rtl/cpu_and_mem/cpu/tomasulo/reorder_buffer/reorder_buffer.sv      *)
(*   hw/rtl/cpu_and_mem/cpu/tomasulo/reorder_buffer/rob_serializer.sv      *)
(*                                                                         *)
(* A step is one clock cycle.  The inputs of a cycle are four records:     *)
(*   req  what dispatch presents      [slot1, slot2, jal_mis]              *)
(*   wb   completions                 [cdb, store, branch, early]          *)
(*   fl   the flush command           [all, en, after_head, tag]           *)
(*   st   holds, acknowledgements     [hold, irq, sq_empty, sync_done,     *)
(*        and status                   csr_done, mret_done, trap_taken,    *)
(*                                     user, counteren]                    *)
(* A packed bit vector of the RTL is the set of the indices of its one     *)
(* bits.  A pointer has one bit more than a tag (the wrap bit), so it is a *)
(* number below 2 * Depth.                                                 *)
(***************************************************************************)
EXTENDS Integers, FiniteSets

CONSTANTS Depth,   \* riscv_pkg::ReorderBufferDepth
          Classes, \* the instruction classes dispatch presents
          NoReq    \* "no instruction in this slot"

CsrClasses    == {"csr_m", "csr_u", "csr_cnt"}
SerialClasses == CsrClasses \cup {"fence", "fence_i", "wfi", "mret"}
BranchClasses == {"branch", "jalr", "jal"}
AtomicClasses == {"amo", "lr", "sc"}
AllClasses    == {"int", "store"} \cup SerialClasses \cup BranchClasses
                   \cup AtomicClasses

ASSUME DepthAssumption == Depth \in Nat /\ Depth >= 4
ASSUME ClassAssumption == Classes \subseteq AllClasses /\ NoReq \notin AllClasses

VARIABLES head_ptr, tail_ptr, head_clear_mask, head_next_clear_mask,
          rob_valid, rob_done, rob_exception, rob_mispredicted,
          rob_early_recovered, rob_class,
          dispatch_full_q, dispatch_full_for_2_q, serial_state,
          fence_i_committed

robVars == << head_ptr, tail_ptr, head_clear_mask, head_next_clear_mask,
              rob_valid, rob_done, rob_exception, rob_mispredicted,
              rob_early_recovered, rob_class,
              dispatch_full_q, dispatch_full_for_2_q, serial_state,
              fence_i_committed >>

-----------------------------------------------------------------------------
(* Pointer and tag arithmetic, modulo 2 * Depth and modulo Depth.          *)

Tag == 0 .. Depth - 1
Ptr == 0 .. 2 * Depth - 1

PtrAdd(p, n) == IF p + n >= 2 * Depth THEN p + n - 2 * Depth ELSE p + n
PtrSub(p, q) == IF p >= q THEN p - q ELSE p - q + 2 * Depth
TagAdd(t, n) == IF t + n >= Depth THEN t + n - Depth ELSE t + n
TagSub(t, u) == IF t >= u THEN t - u ELSE t - u + Depth
Idx(p)       == IF p >= Depth THEN p - Depth ELSE p

HeadIdx     == Idx(head_ptr)
HeadNextIdx == TagAdd(HeadIdx, 1)
TailIdx     == Idx(tail_ptr)
TailIdx2    == TagAdd(TailIdx, 1)

Count    == PtrSub(tail_ptr, head_ptr)
Full     == (head_ptr >= Depth) # (tail_ptr >= Depth) /\ HeadIdx = TailIdx
FullFor2 == Full \/ Count = Depth - 1

ShouldFlushFrom(i, tag) == PtrSub(i, HeadIdx) >= PtrSub(tag, HeadIdx)  \* mutant

(* Is entry i younger than the flush tag?  Both ages have TagWidth+1 bits. *)
ShouldFlushEntry(i, tag) == PtrSub(i, HeadIdx) > PtrSub(tag, HeadIdx)

AdvanceOnehotMask(mask, n) == {TagAdd(i, n) : i \in mask}
OnehotRead(vec, onehot)    == vec \cap onehot # {}

-----------------------------------------------------------------------------
(* What the head entry is and whether it may retire.                       *)

HeadIs(cls)     == \E i \in head_clear_mask : rob_class[i] \in cls
HeadNextIs(cls) == \E i \in head_next_clear_mask : rob_class[i] \in cls

CdbBypassOk  == AllClasses \ (BranchClasses \cup SerialClasses)
PairsAtomics == AllClasses \ SerialClasses  \* mutant of Ok2WideClass
Ok2WideClass == AllClasses \ (SerialClasses \cup AtomicClasses)
NeedsMPriv   == {"mret", "csr_m"}
StoreLike    == {"store", "sc"}
DoneAtAlloc  == {"jal", "wfi", "fence", "fence_i", "mret"}

HeadException(st) == \/ OnehotRead(rob_exception, head_clear_mask)
                     \/ st.user /\ HeadIs(NeedsMPriv)
                     \/ st.user /\ HeadIs({"csr_cnt"}) /\ ~st.counteren

CdbHitAny(wb, i) == \E w \in wb.cdb : w.tag = i  \* mutant: bypasses a fault

CdbHit(wb, i) == \E w \in wb.cdb : w.tag = i /\ ~w.exception

HeadReady(wb) ==
  /\ OnehotRead(rob_valid, head_clear_mask)
  /\ \/ OnehotRead(rob_done, head_clear_mask)
     \/ CdbHit(wb, HeadIdx) /\ HeadIs(CdbBypassOk)

HeadNextReady(wb) ==
  /\ OnehotRead(rob_valid, head_next_clear_mask)
  /\ OnehotRead(rob_done, head_next_clear_mask) \/ CdbHit(wb, HeadNextIdx)

HeadOk2Wide(st) ==
  /\ HeadIs(Ok2WideClass)
  /\ ~HeadException(st)
  /\ ~(HeadIs(BranchClasses) /\ OnehotRead(rob_mispredicted, head_clear_mask))

HeadNextOk2Wide ==
  /\ HeadNextIs(Ok2WideClass)
  /\ ~OnehotRead(rob_exception, head_next_clear_mask)
  /\ HeadNextIs(BranchClasses) =>
       ~OnehotRead(rob_mispredicted \cup rob_early_recovered, head_next_clear_mask)

-----------------------------------------------------------------------------
(* The serializer: a serializing head stalls commit until its condition.   *)

IdleStall(st) ==
  \/ HeadException(st)
  \/ HeadIs(CsrClasses \cup {"mret", "fence_i"})
  \/ HeadIs({"wfi"}) /\ ~st.irq
  \/ HeadIs({"fence"}) /\ ~st.sq_empty

CommitStall(st) ==
  CASE serial_state = "IDLE"         -> IdleStall(st)
    [] serial_state = "WAIT_SQ"      -> ~st.sq_empty \/ HeadIs({"fence_i"})
    [] serial_state = "FENCE_I_SYNC" -> ~st.sync_done
    [] serial_state = "CSR_EXEC"     -> ~st.csr_done
    [] serial_state = "MRET_EXEC"    -> ~st.mret_done
    [] serial_state = "WFI_WAIT"     -> ~st.irq
    [] serial_state = "TRAP_WAIT"    -> TRUE

(* The state a serializing head takes the idle serializer to.              *)
SerialEntry(st) ==
  CASE HeadException(st)                        -> "TRAP_WAIT"
    [] ~HeadException(st) /\ HeadIs({"wfi"})    -> IF st.irq THEN "IDLE" ELSE "WFI_WAIT"
    [] ~HeadException(st) /\ HeadIs(CsrClasses) -> "CSR_EXEC"
    [] ~HeadException(st) /\ HeadIs({"fence"})  -> IF st.sq_empty THEN "IDLE" ELSE "WAIT_SQ"
    [] ~HeadException(st) /\ HeadIs({"fence_i"}) ->
         IF st.sq_empty THEN "FENCE_I_SYNC" ELSE "WAIT_SQ"
    [] ~HeadException(st) /\ HeadIs({"mret"})   -> "MRET_EXEC"
    [] OTHER                                    -> "IDLE"

(* A finished head is acted on unless this is a recovery bubble.           *)
HeadEnters(wb, fl, st) == HeadReady(wb) /\ ~st.hold /\ wb.early = {} /\ ~fl.en

SerialStateNext(wb, fl, st) ==
  CASE serial_state = "IDLE" -> IF HeadEnters(wb, fl, st) THEN SerialEntry(st) ELSE "IDLE"
    [] serial_state = "WAIT_SQ" ->
         IF ~st.sq_empty THEN "WAIT_SQ"
         ELSE IF HeadIs({"fence_i"}) THEN "FENCE_I_SYNC" ELSE "IDLE"
    [] serial_state = "FENCE_I_SYNC" -> IF st.sync_done THEN "IDLE" ELSE "FENCE_I_SYNC"
    [] serial_state = "CSR_EXEC"     -> IF st.csr_done THEN "IDLE" ELSE "CSR_EXEC"
    [] serial_state = "MRET_EXEC"    -> IF st.mret_done THEN "IDLE" ELSE "MRET_EXEC"
    [] serial_state = "WFI_WAIT"     -> IF st.irq THEN "IDLE" ELSE "WFI_WAIT"
    [] serial_state = "TRAP_WAIT"    -> IF st.trap_taken THEN "IDLE" ELSE "TRAP_WAIT"

-----------------------------------------------------------------------------
(* Commit: the head, and with it head+1 when both are plain.               *)

(* Mutant: commit does not wait for the early-recovered mark.              *)
CommitsInRecovery(wb, fl, st) ==
  HeadReady(wb) /\ ~HeadException(st) /\ ~st.hold /\ ~fl.en /\ ~fl.all /\ ~fl.after_head

CommitReadyEarly(wb, fl, st) ==
  /\ HeadReady(wb)
  /\ ~HeadException(st)
  /\ ~st.hold
  /\ wb.early = {}
  /\ ~fl.en /\ ~fl.all /\ ~fl.after_head

CommitEn(wb, fl, st) == CommitReadyEarly(wb, fl, st) /\ ~CommitStall(st)

Commit2Ready(wb, st) == HeadNextReady(wb) /\ HeadOk2Wide(st) /\ HeadNextOk2Wide

(* How many entries retire in this cycle, and which.                       *)
CommitWidth(wb, fl, st) ==
  IF ~CommitEn(wb, fl, st) THEN 0 ELSE IF Commit2Ready(wb, st) THEN 2 ELSE 1

Committed(width) == (IF width >= 1 THEN head_clear_mask ELSE {})
                      \cup (IF width = 2 THEN head_next_clear_mask ELSE {})

CommitMispredictionRaw(wb, fl, st) ==
  /\ CommitEn(wb, fl, st)
  /\ HeadIs(BranchClasses)
  /\ OnehotRead(rob_mispredicted, head_clear_mask)
  /\ ~OnehotRead(rob_early_recovered, head_clear_mask)

CommitCorrectBranchRaw(wb, fl, st) ==
  /\ CommitEn(wb, fl, st)
  /\ HeadIs(BranchClasses)
  /\ ~OnehotRead(rob_mispredicted \cup rob_early_recovered, head_clear_mask)

CommitCorrectBranch2Raw(wb, fl, st) ==
  /\ CommitWidth(wb, fl, st) = 2
  /\ HeadNextIs(BranchClasses)
  /\ ~OnehotRead(rob_mispredicted \cup rob_early_recovered, head_next_clear_mask)

(* Requests to the CSR file and to the trap unit.                          *)
CsrStart(wb, fl, st) ==
  /\ serial_state = "IDLE"
  /\ HeadReady(wb) /\ HeadIs(CsrClasses) /\ ~HeadException(st)
  /\ ~st.hold /\ wb.early = {} /\ ~fl.en /\ ~fl.all

MretStart(wb, st) ==
  /\ serial_state \in {"IDLE", "MRET_EXEC"}
  /\ HeadReady(wb) /\ HeadIs({"mret"}) /\ ~HeadException(st)
  /\ ~st.hold /\ wb.early = {} /\ st.sq_empty

TrapPending(wb, st) ==
  \/ serial_state = "TRAP_WAIT"
  \/ HeadReady(wb) /\ ~st.hold /\ wb.early = {} /\ HeadException(st)

-----------------------------------------------------------------------------
(* Next-state functions, one per group of registers.                       *)

AllocEn(req, fl)  == req.slot1 # NoReq /\ ~Full /\ ~fl.all /\ ~fl.en
AllocEn2(req, fl) == /\ req.slot1 # NoReq /\ req.slot2 # NoReq
                     /\ ~FullFor2 /\ ~fl.all /\ ~fl.en

AllocWidth(req, fl) ==
  IF ~AllocEn(req, fl) THEN 0 ELSE IF AllocEn2(req, fl) THEN 2 ELSE 1

Allocated(width) == (IF width >= 1 THEN {TailIdx} ELSE {})
                      \cup (IF width = 2 THEN {TailIdx2} ELSE {})

NextClass(req, alloc) ==
  [i \in Tag |-> IF i \notin alloc THEN rob_class[i]
                 ELSE IF i = TailIdx THEN req.slot1 ELSE req.slot2]

FlushTail(fl) ==
  IF fl.all \/ fl.after_head THEN head_ptr
  ELSE PtrAdd(head_ptr, TagSub(fl.tag, HeadIdx) + 1)

NextTail(fl, width) ==
  IF fl.all \/ fl.en THEN FlushTail(fl) ELSE PtrAdd(tail_ptr, width)

(* Registered back-pressure: next occupancy without same-cycle commit.     *)
RequestWidth(req) == IF req.slot1 = NoReq THEN 0 ELSE IF req.slot2 = NoReq THEN 1 ELSE 2

NextDispatchFull(req, fl) ==
  IF fl.all \/ fl.en THEN PtrSub(FlushTail(fl), head_ptr) = Depth
                     ELSE Count = Depth - RequestWidth(req)

NextDispatchFullFor2(req, fl) ==
  IF fl.all \/ fl.en THEN PtrSub(FlushTail(fl), head_ptr) >= Depth - 1
                     ELSE Count >= Depth - 1 - RequestWidth(req)

Flushed(fl) ==
  IF fl.all THEN Tag
  ELSE IF ~fl.en THEN {}
  ELSE {i \in Tag : fl.after_head \/ ShouldFlushEntry(i, fl.tag)}

(* Mutant: the second entry of a two-wide commit stays valid.              *)
ClearsHeadOnly(fl, alloc, committed) ==
  ((rob_valid \ Flushed(fl)) \cup alloc) \ (committed \cap head_clear_mask)

NextValid(fl, alloc, committed) ==
  ((rob_valid \ Flushed(fl)) \cup alloc) \ committed

(* The completions the ROB still tracks when they arrive.                  *)
Live(ws, fl) == {w \in ws : ~fl.all /\ w.tag \in rob_valid}
TagsOf(ws)   == {w.tag : w \in ws}

AllocatedAs(req, alloc, cls) == {i \in alloc : NextClass(req, alloc)[i] \in cls}

NextDone(req, wb, fl, alloc) ==
  (rob_done \ alloc) \cup AllocatedAs(req, alloc, DoneAtAlloc)
    \cup TagsOf(Live(wb.cdb \cup wb.store \cup wb.branch, fl))

NextException(wb, fl, alloc) ==
  LET arrived == Live(wb.cdb, fl) IN
    ((rob_exception \ alloc) \ TagsOf(arrived)) \cup TagsOf({w \in arrived : w.exception})

NextMispredicted(req, wb, fl, alloc) ==
  LET resolved == Live(wb.branch, fl) IN
    (((rob_mispredicted \ alloc) \cup {i \in AllocatedAs(req, alloc, {"jal"}) : req.jal_mis})
       \ TagsOf(resolved)) \cup TagsOf({b \in resolved : b.mispredicted})

NextEarlyRecovered(wb, alloc) == (rob_early_recovered \ alloc) \cup wb.early

-----------------------------------------------------------------------------
(* Reset, and one clock cycle.                                             *)

RobInit ==
  /\ head_ptr = 0 /\ tail_ptr = 0
  /\ head_clear_mask = {0} /\ head_next_clear_mask = {1}
  /\ rob_valid = {} /\ rob_done = {} /\ rob_exception = {}
  /\ rob_mispredicted = {} /\ rob_early_recovered = {}
  /\ rob_class = [i \in Tag |-> "int"]
  /\ dispatch_full_q = FALSE /\ dispatch_full_for_2_q = FALSE
  /\ serial_state = "IDLE"
  /\ fence_i_committed = FALSE

Clock(req, wb, fl, st) ==
  LET retire == CommitWidth(wb, fl, st)
      width  == AllocWidth(req, fl)
      alloc  == Allocated(width)
  IN /\ head_ptr' = PtrAdd(head_ptr, retire)
     /\ head_clear_mask' = AdvanceOnehotMask(head_clear_mask, retire)
     /\ head_next_clear_mask' = AdvanceOnehotMask(head_next_clear_mask, retire)
     /\ tail_ptr' = NextTail(fl, width)
     /\ rob_valid' = NextValid(fl, alloc, Committed(retire))
     /\ rob_done' = NextDone(req, wb, fl, alloc)
     /\ rob_exception' = NextException(wb, fl, alloc)
     /\ rob_mispredicted' = NextMispredicted(req, wb, fl, alloc)
     /\ rob_early_recovered' = NextEarlyRecovered(wb, alloc)
     /\ rob_class' = NextClass(req, alloc)
     /\ dispatch_full_q' = NextDispatchFull(req, fl)
     /\ dispatch_full_for_2_q' = NextDispatchFullFor2(req, fl)
     /\ serial_state' = IF fl.all THEN "IDLE" ELSE SerialStateNext(wb, fl, st)
     /\ fence_i_committed' = (retire >= 1 /\ HeadIs({"fence_i"}))

-----------------------------------------------------------------------------
(* What its neighbours may present, in the contract reorder_buffer.sv      *)
(* asserts of its ports.                                                   *)

(* The cycle after an unrepaired misprediction retires (recovery) flushes  *)
(* everything behind it; otherwise a partial flush names a live entry.     *)
LegalFlush(fl, recovery) ==
  /\ ~(fl.all /\ fl.en)
  /\ fl.after_head = recovery
  /\ fl.after_head => fl.all \/ fl.en
  /\ fl.tag \in IF fl.en /\ ~fl.after_head THEN rob_valid ELSE {0}

(* The entries still waiting for a result.                                 *)
Waiting(cls) == {t \in rob_valid \ rob_done : rob_class[t] \in cls}

(* A JALR is done by its branch update and broadcasts its link value       *)
(* afterwards; a store broadcasts only a fault.  A late result may also    *)
(* arrive for the freed entry that the next allocation takes.  run gives   *)
(* the faults a result may have and the results per cycle.                 *)
CdbWrites(run) ==
  [tag : Waiting(CsrClasses \cup AtomicClasses \cup {"int"}), exception : run.faults]
    \cup [tag : Waiting({"store"}), exception : run.faults \ {FALSE}]
    \cup [tag : {t \in rob_valid \cap rob_done : rob_class[t] = "jalr"}, exception : {FALSE}]
    \cup [tag : {TailIdx} \ rob_valid, exception : {FALSE}]

CdbBundles(run) ==
  {{}} \cup {{w} : w \in CdbWrites(run)}
    \cup (IF run.lanes < 2 THEN {}
          ELSE {{p[1], p[2]} : p \in {q \in CdbWrites(run) \X CdbWrites(run) : q[1].tag < q[2].tag}})

-----------------------------------------------------------------------------
(* Properties of the ring, whatever drives it.                             *)

SerialStates == {"IDLE", "WAIT_SQ", "FENCE_I_SYNC", "CSR_EXEC", "MRET_EXEC",
                 "WFI_WAIT", "TRAP_WAIT"}

(* The valid bits and the two pointers, updated by different always blocks *)
(* under flush, two-wide allocation and two-wide commit, describe the same *)
(* window: exactly the Count entries from the head are valid.              *)
ValidIsWindow ==
  /\ Count <= Depth
  /\ rob_valid = {i \in Tag : TagSub(i, HeadIdx) < Count}

(* The registered one-hot images that replace binary indexing on the       *)
(* commit path follow the head pointer.                                    *)
MasksFollowHead ==
  /\ head_clear_mask = {HeadIdx}
  /\ head_next_clear_mask = {HeadNextIdx}

(* Dispatch looks only at the registered full flags; whenever they let it  *)
(* present one or two instructions, the exact occupancy has room for them, *)
(* so no accepted request is dropped by alloc_en / alloc_en_2.             *)
BackPressureCovers ==
  /\ Full => dispatch_full_q
  /\ FullFor2 => dispatch_full_for_2_q

=============================================================================
