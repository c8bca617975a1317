------------------------------ MODULE TrapUnit ------------------------------
(***************************************************************************)
(* The trap unit: interrupts are sampled, held, armed and taken; exceptions *)
(* are registered and taken; MRET returns.                                 *)
(*                                                                         *)
(*   hw/rtl/cpu_and_mem/cpu/control/trap_unit.sv                           *)
(*                                                                         *)
(* The inputs of a cycle are the record                                    *)
(*   in  [irq, mie, enabled, sq_empty, amo_at_head, exception_valid,       *)
(*        exception_pc, mret_start]                                        *)
(* with the pending lines and mie as sets of sources and the global enable *)
(* already formed from mstatus.MIE and the privilege.                      *)
(* i_pipeline_stall and i_wfi_start are tied to 0 in cpu_ooo and left out. *)
(***************************************************************************)
EXTENDS Integers

VARIABLES trap_taken_prev, mret_taken_prev, mret_start_q,
          interrupt_pending, interrupt_cause, vectored_offset,
          interrupt_take_armed_q, exception_pending, exception_pc_q

trapVars == << trap_taken_prev, mret_taken_prev, mret_start_q,
               interrupt_pending, interrupt_cause, vectored_offset,
               interrupt_take_armed_q, exception_pending, exception_pc_q >>

Sources == {"mei", "msi", "mti"}
NoCause == "none"

(* External before software before timer.                                  *)
CauseOf(srcs) ==
  CASE "mei" \in srcs -> "mei"
    [] "mei" \notin srcs /\ "msi" \in srcs -> "msi"
    [] OTHER -> IF "mti" \in srcs THEN "mti" ELSE NoCause

(* Four times the cause code.                                              *)
OffsetOf(cause) ==
  CASE cause = "mei" -> 44 [] cause = "msi" -> 12 [] cause = "mti" -> 28
    [] cause = NoCause -> 0

-----------------------------------------------------------------------------
(* Combinational signals.                                                  *)

GloballyEnabled(mstatus_mie, user) == mstatus_mie \/ user

MretInterruptInhibit == mret_start_q \/ mret_taken_prev

Open(in) == in.enabled /\ ~trap_taken_prev /\ ~MretInterruptInhibit

EnabledSources(in) == IF Open(in) THEN in.irq \cap in.mie ELSE {}

PendingEligible(in) == interrupt_pending /\ interrupt_cause \in in.mie /\ Open(in)

(* Mutants: the store drain, the atomic shield or the arming is forgotten.  *)
TakeUndrained(in) ==
  (PendingEligible(in) /\ interrupt_take_armed_q /\ ~in.amo_at_head) \/ exception_pending

TakeUnshielded(in) ==
  ((PendingEligible(in) /\ interrupt_take_armed_q) \/ exception_pending) /\ in.sq_empty

TakeUnarmed(in) ==
  ((PendingEligible(in) /\ ~in.amo_at_head) \/ exception_pending) /\ in.sq_empty

TakeTrap(in) ==
  /\ \/ PendingEligible(in) /\ interrupt_take_armed_q /\ ~in.amo_at_head
     \/ exception_pending
  /\ in.sq_empty

TakeMret(in) == in.mret_start /\ ~TakeTrap(in) /\ in.sq_empty

PendingComb(in) == EnabledSources(in) # {} /\ ~TakeTrap(in)

SourceLive(in) == in.irq \cap in.mie # {} /\ ~trap_taken_prev

(* Mutant: commit stays held although the shield defers the armed trap.    *)
WaitWhileEligible(in) ==
  \/ (PendingEligible(in) \/ exception_pending \/ in.mret_start) /\ ~in.sq_empty
  \/ PendingComb(in) \/ PendingEligible(in)

TrapDrainWait(in) ==
  \/ (PendingEligible(in) \/ exception_pending \/ in.mret_start) /\ ~in.sq_empty
  \/ (PendingComb(in) \/ PendingEligible(in)) /\ ~interrupt_take_armed_q

(* An eligible interrupt names the trap even when the exception takes it.  *)
TrapPc(in, interrupt_pc) == IF PendingEligible(in) THEN interrupt_pc ELSE exception_pc_q
TrapCause(in)            == IF PendingEligible(in) THEN interrupt_cause ELSE "exception"

(* Interrupts are vectored by the registered offset, exceptions never are. *)
TrapTarget(in, base, vectored) ==
  IF vectored /\ PendingEligible(in) THEN base + vectored_offset ELSE base

-----------------------------------------------------------------------------
(* Registers.                                                              *)

NextPending(in) == PendingComb(in) \/ (interrupt_pending /\ SourceLive(in) /\ ~TakeTrap(in))

NextCause(in) ==
  IF EnabledSources(in) # {} THEN CauseOf(EnabledSources(in))
  ELSE IF interrupt_pending /\ SourceLive(in) THEN interrupt_cause
  ELSE NoCause

(* The exception stays cleared for a second cycle after the trap.          *)
ExceptionSampled(in) == in.exception_valid /\ ~TakeTrap(in) /\ ~trap_taken_prev

NextExceptionPending(in) ==
  IF TakeTrap(in) \/ trap_taken_prev THEN FALSE ELSE in.exception_valid \/ exception_pending

TrapInit(pc) ==
  /\ trap_taken_prev = FALSE /\ mret_taken_prev = FALSE /\ mret_start_q = FALSE
  /\ interrupt_pending = FALSE /\ interrupt_cause = NoCause /\ vectored_offset = 0
  /\ interrupt_take_armed_q = FALSE
  /\ exception_pending = FALSE /\ exception_pc_q = pc

TrapClock(in) ==
  /\ trap_taken_prev' = TakeTrap(in)
  /\ mret_taken_prev' = TakeMret(in)
  /\ mret_start_q' = in.mret_start
  /\ interrupt_pending' = NextPending(in)
  /\ interrupt_cause' = NextCause(in)
  /\ vectored_offset' = OffsetOf(CauseOf(EnabledSources(in)))
  /\ interrupt_take_armed_q' = (PendingEligible(in) /\ ~TakeTrap(in))
  /\ exception_pending' = NextExceptionPending(in)
  /\ exception_pc_q' = IF ExceptionSampled(in) THEN in.exception_pc ELSE exception_pc_q

=============================================================================
