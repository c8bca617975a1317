----------------------------- MODULE Retirement -----------------------------
(***************************************************************************)
(* Retirement: the reorder buffer, the trap unit, the commit bus register, *)
(* the machine-mode CSRs and the committed end of the store queue, closed  *)
(* by a front end that fetches a program along its predicted path.         *)
(*                                                                         *)
(*   hw/rtl/cpu_and_mem/cpu/cpu_ooo/cpu_ooo.sv                             *)
(*   hw/rtl/cpu_and_mem/cpu/cpu_ooo/commit/commit_actions.sv               *)
(*   hw/rtl/cpu_and_mem/cpu/cpu_ooo/pipeline_control/                      *)
(*     ooo_pipeline_control.sv                                             *)
(*   hw/rtl/cpu_and_mem/cpu/cpu_ooo/frontend_control/                      *)
(*     frontend_validity_tracker.sv                                        *)
(*   hw/rtl/cpu_and_mem/cpu/tomasulo/tomasulo_wrapper/commit_bus/          *)
(*     commit_bus_pipeline.sv                                              *)
(*   hw/rtl/cpu_and_mem/cpu/csr/csr_file.sv                                *)
(*                                                                         *)
(* A program is a function from addresses to instructions, with the mode   *)
(* it sets in mtvec and the interrupt lines its devices drive.  An         *)
(* instruction has its class, its architectural successor, the successor   *)
(* the front end predicts, whether it faults, and what it writes to a CSR. *)
(* Conditional branches are left to BranchRecovery: here nothing is        *)
(* recovered early.                                                        *)
(***************************************************************************)
EXTENDS ReorderBuffer, TrapUnit, Sequences

CONSTANTS Pc,        \* addresses
          Handler,   \* the base address in mtvec
          Programs,  \* the programs that may be loaded
          SqDepth    \* stores the store queue holds

CsrWrites == {"none", "mie", "mie_clear", "mstatus_mie", "mstatus_mie_clear", "mepc"}

(* A misaligned access parks its address, which becomes mtval.             *)
Faults == {"none", "illegal", "misaligned"}

Instr == [cls : Classes, next : Pc, pred : Pc, fault : Faults, write : CsrWrites, arg : Pc]

ASSUME ProgramAssumption ==
  /\ Pc \subseteq Nat /\ 0 \in Pc /\ Handler \in Pc
  /\ Programs \subseteq [code : [Pc -> Instr], vectored : BOOLEAN, lines : SUBSET Sources]
  /\ SqDepth \in Nat \ {0}
  /\ "branch" \notin Classes

VARIABLES
  program, i_interrupts,         \* what is loaded; the interrupt lines, this cycle
  fetch_pc, refill,              \* next address to dispatch; cycles until ID is valid again
  csr_in_flight,                 \* the front end waits for a CSR to retire
  rob_pc, rob_exc_cause,         \* address and fault of each ROB entry
  commit_q,                      \* registered commit bus: addresses retired a cycle ago
  mispredict_recovery_pending, mispredict_redirect_pc, fence_i_target_pc, trap_target_reg,
  trap_mret_commit_hold_q, csr_done_q, amo_at_head_shield_q, interrupt_resume_pc,
  mstatus_mie, mstatus_mpie, mpp_user, priv_user, mie, mepc, mcause, mtval,
  sq_committed, sq_committed_empty,  \* committed stores not yet written; registered status
  amo_state,                         \* the atomic at the head, in the load queue
  arch_pc                            \* history: the next instruction in program order

feVars   == << program, i_interrupts, fetch_pc, refill, csr_in_flight, rob_pc, rob_exc_cause >>
recVars  == << mispredict_recovery_pending, mispredict_redirect_pc, fence_i_target_pc,
               trap_target_reg >>
ctlVars  == << commit_q, trap_mret_commit_hold_q, csr_done_q, amo_at_head_shield_q,
               interrupt_resume_pc >>
csrVars  == << mstatus_mie, mstatus_mpie, mpp_user, priv_user, mie, mepc, mcause, mtval >>
memVars  == << sq_committed, sq_committed_empty, amo_state >>
vars     == << robVars, trapVars, feVars, recVars, ctlVars, csrVars, memVars, arch_pc >>

-----------------------------------------------------------------------------
(* Flushes: a trap or a return, then a retired misprediction, then FENCE.I.*)

FullFlush     == trap_taken_prev \/ mret_taken_prev \/ (fence_i_committed /\ ~mispredict_recovery_pending)
FlushPipeline == trap_taken_prev \/ mret_taken_prev \/ fence_i_committed \/ mispredict_recovery_pending

Flush == [all        |-> FullFlush,
          en         |-> mispredict_recovery_pending /\ ~trap_taken_prev /\ ~mret_taken_prev,
          after_head |-> mispredict_recovery_pending,
          tag        |-> 0]

(* The registered commit bus is masked in the cycle of a full flush.       *)
Unmasked == commit_q  \* mutant: the flush does not mask the bus

Retired == IF FullFlush THEN << >> ELSE commit_q

ClassAt(pc) == program.code[pc].cls

CsrCommitFire == \E k \in DOMAIN Retired : ClassAt(Retired[k]) \in CsrClasses

StoresRetired == Cardinality({k \in DOMAIN Retired : ClassAt(Retired[k]) \in StoreLike})

CommitHold == CsrCommitFire \/ trap_mret_commit_hold_q \/ mispredict_recovery_pending

-----------------------------------------------------------------------------
(* Dispatch of one bundle.  A serializing or atomic instruction and a      *)
(* branch end their bundle, and only the others may be second.             *)

Pairable == AllClasses \ (SerialClasses \cup AtomicClasses)

Mispredicts(pc) == program.code[pc].next # program.code[pc].pred

SqOccupancy == sq_committed + StoresRetired
                 + Cardinality({i \in rob_valid : rob_class[i] \in StoreLike})

MayDispatch == refill = 0 /\ ~FlushPipeline /\ ~csr_in_flight /\ ~dispatch_full_q

MayPair(first, second) ==
  /\ ClassAt(first) \in Pairable \ BranchClasses
  /\ ClassAt(second) \in Pairable
  /\ ~dispatch_full_for_2_q

(* Mutant: stores that have committed no longer count.                     *)
RoomForUncommitted(bundle) ==
  SqOccupancy - sq_committed
    + Cardinality({k \in DOMAIN bundle : ClassAt(bundle[k]) \in StoreLike}) <= SqDepth

SqHasRoom(bundle) ==
  SqOccupancy + Cardinality({k \in DOMAIN bundle : ClassAt(bundle[k]) \in StoreLike}) <= SqDepth

(* The bundles that may enter: none, one instruction, or two.              *)
Bundles ==
  LET second == program.code[fetch_pc].pred
      pair   == MayPair(fetch_pc, second)
      some   == {<< fetch_pc >>} \cup (IF pair THEN {<< fetch_pc, second >>} ELSE {})
  IN {<< >>} \cup (IF MayDispatch THEN {b \in some : SqHasRoom(b)} ELSE {})

Request(bundle) ==
  [slot1   |-> IF bundle = << >> THEN NoReq ELSE ClassAt(bundle[1]),
   slot2   |-> IF Len(bundle) = 2 THEN ClassAt(bundle[2]) ELSE NoReq,
   jal_mis |-> \E k \in DOMAIN bundle : ClassAt(bundle[k]) = "jal" /\ Mispredicts(bundle[k])]

-----------------------------------------------------------------------------
(* Completions: at most one result per cycle.  An atomic completes through *)
(* the load queue, which reads and writes memory only at the ROB head.     *)

NoResult == [cdb |-> {}, store |-> {}, branch |-> {}, early |-> {}]

Results ==
  {NoResult}
    \cup {[NoResult EXCEPT !.cdb = {[tag |-> t, exception |-> program.code[rob_pc[t]].fault # "none"]}] :
            t \in Waiting({"int"} \cup CsrClasses)
                    \cup (IF amo_state = "written" THEN Waiting({"amo"}) \cap {HeadIdx} ELSE {})}
    \cup {[NoResult EXCEPT !.store = {[tag |-> t]}] : t \in Waiting({"store"})}
    \cup {[NoResult EXCEPT !.branch = {[tag |-> t, mispredicted |-> Mispredicts(rob_pc[t])]}] :
            t \in Waiting({"jalr"})}

(* The atomic at the head launches its read once the committed stores have *)
(* drained, gets the response and writes; a flush drops all of it.         *)
AmoWaits == HeadIdx \in Waiting({"amo"}) /\ sq_committed_empty

AmoNext(wb) ==
  IF FullFlush \/ Flush.en \/ HeadIdx \in TagsOf(wb.cdb) THEN {"idle"}
  ELSE {amo_state} \cup CASE amo_state = "idle"    -> IF AmoWaits THEN {"read"} ELSE {}
                          [] amo_state = "read"    -> {"write"}
                          [] amo_state = "write"   -> {"written"}
                          [] amo_state = "written" -> {}

-----------------------------------------------------------------------------
(* Status inputs of the ROB, and inputs of the trap unit.                  *)

Status(sync_done) ==
  [hold |-> CommitHold, irq |-> i_interrupts # {}, sq_empty |-> sq_committed_empty,
   sync_done |-> sync_done, csr_done |-> csr_done_q,
   mret_done |-> mret_taken_prev, trap_taken |-> trap_taken_prev,
   user |-> priv_user, counteren |-> TRUE]

TrapInputs(wb, st) ==
  [irq |-> i_interrupts, mie |-> mie, enabled |-> GloballyEnabled(mstatus_mie, priv_user),
   sq_empty |-> sq_committed_empty, amo_at_head |-> amo_at_head_shield_q,
   exception_valid |-> TrapPending(wb, st), exception_pc |-> rob_pc[HeadIdx],
   mret_start |-> MretStart(wb, st)]

(* The fault that the head entry records, valid or not.                    *)
HeadExcCause(st) ==
  IF HeadException(st) /\ HeadIdx \notin rob_exception THEN "illegal" ELSE rob_exc_cause[HeadIdx]

(* The architectural successor of a retiring instruction.                  *)
RetiredNextPc(i) == IF rob_class[i] = "mret" THEN mepc ELSE program.code[rob_pc[i]].next

(* Mutant: a return does not seed the resume address.                      *)
ResumeWithoutMret(in, width) ==
  CASE width = 2 -> RetiredNextPc(HeadNextIdx)
    [] width = 1 -> RetiredNextPc(HeadIdx)
    [] OTHER -> IF HeadIs({"wfi"}) /\ HeadIdx \in rob_valid
                THEN rob_pc[HeadIdx] + 1 ELSE interrupt_resume_pc

NextResumePc(in, width) ==
  CASE TakeMret(in)                  -> mepc
    [] ~TakeMret(in) /\ width = 2    -> RetiredNextPc(HeadNextIdx)
    [] ~TakeMret(in) /\ width = 1    -> RetiredNextPc(HeadIdx)
    [] OTHER -> IF HeadIs({"wfi"}) /\ HeadIdx \in rob_valid
                THEN rob_pc[HeadIdx] + 1 ELSE interrupt_resume_pc

-----------------------------------------------------------------------------
(* CSR file: trap entry, then return, then a CSR instruction.              *)

Written == program.code[Retired[1]]

CsrClock(st, in) ==
  CASE TakeTrap(in) ->
         /\ mstatus_mpie' = mstatus_mie /\ mstatus_mie' = FALSE
         /\ mpp_user' = priv_user /\ priv_user' = FALSE
         /\ mepc' = TrapPc(in, interrupt_resume_pc) /\ mcause' = TrapCause(in)
         /\ mtval' = (HeadExcCause(st) = "misaligned")
         /\ mie' = mie
    [] TakeMret(in) ->
         /\ mstatus_mie' = mstatus_mpie /\ mstatus_mpie' = TRUE
         /\ priv_user' = mpp_user /\ mpp_user' = TRUE
         /\ UNCHANGED << mie, mepc, mcause, mtval >>
    [] ~TakeTrap(in) /\ ~TakeMret(in) /\ CsrCommitFire ->
         /\ mie' = CASE Written.write = "mie" -> program.lines
                     [] Written.write = "mie_clear" -> {}
                     [] OTHER -> mie
         /\ mstatus_mie' = CASE Written.write = "mstatus_mie" -> TRUE
                             [] Written.write = "mstatus_mie_clear" -> FALSE
                             [] OTHER -> mstatus_mie
         /\ mepc' = IF Written.write = "mepc" THEN Written.arg ELSE mepc
         /\ UNCHANGED << mstatus_mpie, mpp_user, priv_user, mcause, mtval >>
    [] OTHER -> UNCHANGED csrVars

-----------------------------------------------------------------------------
(* Redirects: a trap or a return, then FENCE.I, then a misprediction.      *)

NextFetchPc(bundle) ==
  CASE trap_taken_prev \/ mret_taken_prev -> trap_target_reg
    [] ~(trap_taken_prev \/ mret_taken_prev) /\ fence_i_committed -> fence_i_target_pc
    [] ~(trap_taken_prev \/ mret_taken_prev \/ fence_i_committed) /\ mispredict_recovery_pending ->
         mispredict_redirect_pc
    [] OTHER -> IF bundle = << >> THEN fetch_pc ELSE program.code[bundle[Len(bundle)]].pred

FrontEndClock(bundle, alloc, wb) ==
  /\ fetch_pc' = NextFetchPc(bundle)
  /\ refill' = IF FlushPipeline THEN 3 ELSE IF refill > 0 THEN refill - 1 ELSE 0
  /\ csr_in_flight' = CASE FlushPipeline \/ CsrCommitFire -> FALSE
                        [] OTHER -> csr_in_flight \/ (bundle # << >> /\ ClassAt(bundle[1]) \in CsrClasses)
  /\ rob_pc' = [i \in Tag |-> IF i \notin alloc THEN rob_pc[i]
                              ELSE IF i = TailIdx THEN bundle[1] ELSE bundle[2]]
  /\ rob_exc_cause' = [i \in Tag |-> IF i \in alloc THEN "none"
                                     ELSE IF i \in TagsOf(wb.cdb) THEN program.code[rob_pc[i]].fault
                                     ELSE rob_exc_cause[i]]
  /\ UNCHANGED program

RecoveryClock(wb, st, in) ==
  /\ mispredict_recovery_pending' = (~FullFlush /\ CommitMispredictionRaw(wb, Flush, st))
  /\ mispredict_redirect_pc' = IF CommitMispredictionRaw(wb, Flush, st)
                               THEN RetiredNextPc(HeadIdx) ELSE mispredict_redirect_pc
  /\ fence_i_target_pc' = IF CommitEn(wb, Flush, st) /\ HeadIs({"fence_i"})
                          THEN rob_pc[HeadIdx] + 1 ELSE fence_i_target_pc
  /\ trap_target_reg' = CASE TakeTrap(in) -> TrapTarget(in, Handler, program.vectored)
                          [] TakeMret(in) -> mepc
                          [] OTHER -> trap_target_reg

ControlClock(wb, st, in, width) ==
  /\ commit_q' = CASE FullFlush \/ width = 0 -> << >>
                   [] ~FullFlush /\ width = 1 -> << rob_pc[HeadIdx] >>
                   [] ~FullFlush /\ width = 2 -> << rob_pc[HeadIdx], rob_pc[HeadNextIdx] >>
  /\ trap_mret_commit_hold_q' =
       (~FullFlush /\ (in.exception_valid \/ in.mret_start \/ TrapDrainWait(in)))
  /\ csr_done_q' = CsrStart(wb, Flush, st)
  /\ amo_at_head_shield_q' = (HeadIs({"amo"}) /\ HeadIdx \in rob_valid)
  /\ interrupt_resume_pc' = NextResumePc(in, width)

(* Committed stores drain one at a time; a full flush wipes the queue.  The *)
(* registered status also counts the stores that are on their way in.      *)
MemoryClock(wb, drained, width) ==
  /\ sq_committed' = IF FullFlush THEN 0 ELSE sq_committed + StoresRetired - drained
  /\ sq_committed_empty' =
       \/ FullFlush
       \/ /\ sq_committed = 0 /\ StoresRetired = 0
          /\ \A i \in Committed(width) : rob_class[i] \notin StoreLike
  /\ amo_state' \in AmoNext(wb)

(* What retired a cycle ago, as the program sees it: FENCE.I has retired   *)
(* although its own flush masks the bus.                                   *)
Effective == IF fence_i_committed /\ ~trap_taken_prev /\ ~mret_taken_prev THEN commit_q ELSE Retired

(* The next instruction in program order once those have taken effect.     *)
Boundary == IF Effective = << >> THEN arch_pc ELSE program.code[Effective[Len(Effective)]].next

(* Where the handler for a cause starts.                                   *)
VectorOf(cause) == IF program.vectored /\ cause \in Sources THEN Handler + OffsetOf(cause) ELSE Handler

(* commit_actions: what the instret counter is told.                       *)
InstructionRetiredCount(trap_taken) == IF trap_taken THEN 0 ELSE Len(Retired)

-----------------------------------------------------------------------------

Init ==
  /\ RobInit /\ TrapInit(0)
  /\ program \in Programs /\ i_interrupts = {}
  /\ fetch_pc = 0 /\ refill = 0 /\ csr_in_flight = FALSE
  /\ rob_pc = [i \in Tag |-> 0] /\ rob_exc_cause = [i \in Tag |-> "none"]
  /\ mispredict_recovery_pending = FALSE /\ mispredict_redirect_pc = 0
  /\ fence_i_target_pc = 0 /\ trap_target_reg = 0
  /\ commit_q = << >> /\ trap_mret_commit_hold_q = FALSE /\ csr_done_q = FALSE
  /\ amo_at_head_shield_q = FALSE /\ interrupt_resume_pc = 0
  /\ mstatus_mie = FALSE /\ mstatus_mpie = FALSE /\ mpp_user = TRUE /\ priv_user = FALSE
  /\ mie = {} /\ mepc = 0 /\ mcause = NoCause /\ mtval = FALSE
  /\ sq_committed = 0 /\ sq_committed_empty = TRUE /\ amo_state = "idle"
  /\ arch_pc = 0

Cycle(bundle, wb, sync_done, drained) ==
  LET st    == Status(sync_done)
      in    == TrapInputs(wb, st)
      width == CommitWidth(wb, Flush, st)
  IN /\ Clock(Request(bundle), wb, Flush, st)
     /\ TrapClock(in)
     /\ FrontEndClock(bundle, Allocated(AllocWidth(Request(bundle), Flush)), wb)
     /\ RecoveryClock(wb, st, in)
     /\ ControlClock(wb, st, in, width)
     /\ CsrClock(st, in)
     /\ MemoryClock(wb, drained, width)
     /\ arch_pc' = IF TakeTrap(in) THEN VectorOf(mcause') ELSE IF TakeMret(in) THEN mepc ELSE Boundary

SyncDone == IF serial_state = "FENCE_I_SYNC" THEN BOOLEAN ELSE {FALSE}
Drained  == IF sq_committed > 0 THEN {0, 1} ELSE {0}

Step ==
  \E bundle \in Bundles, wb \in Results, sync_done \in SyncDone, drained \in Drained :
    Cycle(bundle, wb, sync_done, drained)

(* The lines may change at any time, glitches included.                    *)
Next == Step /\ i_interrupts' \in SUBSET program.lines

Spec == Init /\ [][Next]_vars

(* Level-triggered lines stay up until their interrupt has been taken.     *)
LinesHeld ==
  /\ i_interrupts' \in SUBSET program.lines
  /\ i_interrupts \ i_interrupts' \subseteq (IF trap_taken_prev THEN {mcause} ELSE {})

HeldNext == Step /\ LinesHeld

(* The clock ticks; what the front end, a functional unit, the memory or   *)
(* the cache sync can do from some point on, it does.                      *)
Fairness ==
  /\ WF_vars(HeldNext)
  /\ []<>(Bundles = {<< >>}) \/ []<><<tail_ptr' # tail_ptr>>_vars
  /\ \A t \in Tag : []<>(t \notin Waiting(AllClasses \ {"amo"})) \/ []<><<t \in rob_done'>>_vars
  /\ []<>(serial_state # "FENCE_I_SYNC") \/ []<><<serial_state' # serial_state>>_vars
  /\ []<>(sq_committed = 0) \/ []<><<sq_committed' < sq_committed + StoresRetired>>_vars
  /\ []<>(amo_state = "idle" /\ ~AmoWaits) \/ []<><<amo_state' # amo_state>>_vars

FairSpec == Init /\ [][HeldNext]_vars /\ Fairness

-----------------------------------------------------------------------------
(* Properties.                                                             *)

(* Registers hold values of their width.                                   *)
TypeOK ==
  /\ fetch_pc \in Pc /\ interrupt_resume_pc \in Nat /\ mepc \in Nat /\ arch_pc \in Pc
  /\ refill \in 0 .. 3 /\ sq_committed \in 0 .. SqDepth
  /\ rob_pc \in [Tag -> Pc] /\ commit_q \in Seq(Pc) /\ Len(commit_q) <= 2
  /\ mie \subseteq Sources /\ interrupt_cause \in Sources \cup {NoCause}
  /\ amo_state \in {"idle", "read", "write", "written"}

(* What retires is the program, in order: each instruction that takes      *)
(* effect is the architectural successor of the one before, across traps,  *)
(* returns, mispredictions and FENCE.I; nothing is lost, nothing repeated. *)
RetiresProgram ==
  Effective # << >> =>
    /\ Effective[1] = arch_pc
    /\ Len(Effective) = 2 => Effective[2] = program.code[arch_pc].next

(* Every trap is precise: mepc is the next instruction in program order    *)
(* when the handler starts.  An interrupt that finds WFI next may return   *)
(* behind it.                                                              *)
TrapsArePrecise ==
  [][trap_taken_prev' =>
       \/ mepc' = Boundary
       \/ ClassAt(Boundary) = "wfi" /\ mepc' = Boundary + 1]_vars

(* A full flush finds no committed store in the queue it wipes.            *)
NoCommittedStoreLost == FullFlush => sq_committed = 0

(* No flush clips the memory write of an atomic.                           *)
NoOrphanedAmoWrite == FullFlush \/ Flush.en => amo_state \notin {"write", "written"}

(* The writers of the trap CSRs keep out of each other's way: MRET returns  *)
(* only from the instruction that is next in program order; a CSR write is *)
(* never displaced by a trap entry or a return; and an interrupt starts    *)
(* the handler of the very cause it reports, although the offset and the   *)
(* cause are separate registers and only one is held (csr_file.sv,         *)
(* trap_unit.sv).                                                          *)
TrapStateIsExact ==
  [][/\ mret_taken_prev' => rob_pc[HeadIdx] = Boundary /\ ClassAt(Boundary) = "mret"
     /\ CsrCommitFire => ~trap_taken_prev' /\ ~mret_taken_prev'
     /\ trap_taken_prev' => trap_target_reg' = VectorOf(mcause')]_vars

(* A line that is held up is served although arming, the store drain, the  *)
(* atomic shield and the MRET window each defer take_trap: "a store stream *)
(* cannot starve the trap" and after an AMO it "takes right after".        *)
InterruptsAreTaken ==
  \A l \in UNION {p.lines : p \in Programs} :
    l \in i_interrupts ~> trap_taken_prev /\ mcause = l

(* Retirement never stops: no commit hold, serializer wait, drain or flush *)
(* waits for another for ever; only WFI may sleep.                         *)
RetirementProgresses ==
  []<>(commit_q # << >> \/ trap_taken_prev \/ mret_taken_prev \/ serial_state = "WFI_WAIT")

(* instret advances by the number of instructions that retired.            *)
RetirementsAreCounted == [][InstructionRetiredCount(trap_taken_prev') = Len(Effective)]_vars

=============================================================================
