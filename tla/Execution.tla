------------------------------- MODULE Execution -------------------------------
(***************************************************************************)
(* The execution core between dispatch and commit: the integer reservation *)
(* station, the two ALUs, the multiplier and divider, the CDB adapters,    *)
(* the arbiter and the registered bus, wired as in tomasulo_wrapper.sv,    *)
(* with what they see of dispatch, of the reorder buffer and of recovery.  *)
(*                                                                         *)
(* The multiply and memory stations issue, and the load queue answers, in  *)
(* any order and with any delay.  A resolved branch may turn out           *)
(* mispredicted: it holds the back end in the next cycle and flushes what  *)
(* is younger in the one after.  A full flush (trap, MRET, FENCE.I, or a   *)
(* misprediction recovered behind its commit) may come at any time.        *)
(***************************************************************************)
EXTENDS CdbArbiter, ReservationStation, Sequences

Pipe == {"MUL", "DIV"}

CONSTANTS Stages,    \* MulPipeDepth and DivPipeDepth
          FifoDepth  \* MulFifoDepth and FifoDepth

ASSUME ShimAssumption == Stages \in [Pipe -> Nat \ {0}] /\ FifoDepth \in Nat \ {0}

(* What may run: the classes of its instructions, the sources that read a  *)
(* renamed register, and how many instructions are in flight at most.      *)
CONSTANT Workloads

ASSUME WorkloadAssumption ==
  Workloads \subseteq [units : SUBSET {"int", "branch", "mul", "div", "mem"},
                       renamed : SUBSET Sources, live : 1 .. Depth]

VARIABLES workload,
          head_ptr, tail_ptr, rob_done, rob_unit, rob_epoch,
          rob_value,      \* the value each entry was last given by the bus
          bypass_tag,     \* per slot and source: o_bypass_tag, None when not valid
          waiting,        \* instructions in the multiply and memory stations
          cdb_bus,        \* the two registered lanes
          early_mispredict_pending,       \* a tag, or None
          early_backend_recovery_pending, \* a tag, or None
          trk,            \* the stages of the multiplier's and the divider's pipeline
          fifo            \* their finished results, oldest first

vars == << workload, head_ptr, tail_ptr, rob_done, rob_unit, rob_epoch, rob_value, bypass_tag,
           waiting, cdb_bus, early_mispredict_pending, early_backend_recovery_pending,
           held_result, trk, fifo, rs_entry, rs_count, repair_target, stage2, stage2b >>

-----------------------------------------------------------------------------
(* The multiplier and the divider, int_muldiv_shim.sv: for each a pipeline *)
(* with a tracker of its stages, and a result FIFO.  A partial flush marks *)
(* what it squashes; a marked stage is not pushed, and a marked FIFO entry *)
(* is drained without being presented.  Credits keep the FIFO from         *)
(* overflowing.                                                            *)

Tracked == [result : Id, flushed : BOOLEAN]

ASSUME TrackedAssumption == None \notin Tracked

Last(p) == trk[p][Stages[p]]

Completing(p) == Last(p) # None /\ ~Last(p).flushed

InFlight(p) == {i \in 1 .. Stages[p] : trk[p][i] # None /\ ~trk[p][i].flushed}

BusyLate(p) == Len(fifo[p]) + Cardinality(InFlight(p)) > FifoDepth  \* mutant

Busy(p) == Len(fifo[p]) + Cardinality(InFlight(p)) >= FifoDepth

HeadFlushed(p) == fifo[p] # << >> /\ Head(fifo[p]).flushed

(* What the shim presents to its adapter.                                  *)
ShimOut(p) == IF fifo[p] # << >> /\ ~HeadFlushed(p) THEN Head(fifo[p]).result ELSE None

Mark(e, fl) == IF e = None THEN None
               ELSE [e EXCEPT !.flushed = @ \/ Squashes(fl, e.result.tag)]

Pushed(p, fl) == Mark(Last(p), fl)

ShimInit == /\ trk = [p \in Pipe |-> [i \in 1 .. Stages[p] |-> None]]
            /\ fifo = [p \in Pipe |-> << >>]

(* issue[p] enters the pipeline unless it is busy; accepted[p] pops.       *)
TrkNext(p, issue, fl) ==
  [i \in 1 .. Stages[p] |->
     IF fl.all THEN None
     ELSE IF i > 1 THEN Mark(trk[p][i - 1], fl)
     ELSE IF issue = None \/ Busy(p) THEN None
     ELSE Mark([result |-> issue, flushed |-> FALSE], fl)]

FifoNext(p, accepted, fl) ==
  LET marked == [i \in 1 .. Len(fifo[p]) |-> Mark(fifo[p][i], fl)]
      rest   == IF fifo[p] # << >> /\ (accepted \/ HeadFlushed(p)) THEN Tail(marked) ELSE marked
  IN IF fl.all THEN << >>
     ELSE IF Completing(p) THEN Append(rest, Pushed(p, fl)) ELSE rest

ShimClock(issue, accepted, fl) ==
  /\ trk' = [p \in Pipe |-> TrkNext(p, issue[p], fl)]
  /\ fifo' = [p \in Pipe |-> FifoNext(p, accepted[p], fl)]

-----------------------------------------------------------------------------
(* The reorder buffer, as the execution core sees it.                      *)

PtrAdd(p, n) == (p + n) % (2 * Depth)
Idx(p)       == p % Depth
Count        == (tail_ptr - head_ptr) % (2 * Depth)
HeadTag      == Idx(head_ptr)
TailTag(k)   == Idx(PtrAdd(tail_ptr, k - 1))  \* the tag slot k is given

Live        == {Idx(PtrAdd(head_ptr, n)) : n \in 0 .. Count - 1}
Current(t)  == [tag |-> t, epoch |-> rob_epoch[t]]
Producers   == {t \in Live : rob_unit[t] # "branch"}

Lanes(bus)  == {bus[l] : l \in {1, 2}} \ {None}

Ready(t) == t \in rob_done \/ (rob_unit[t] # "branch" /\ \E r \in Lanes(cdb_bus) : r.tag = t)

CommittableInHold(fl) ==  \* mutant: commit does not wait for the recovery
  LET next == Idx(PtrAdd(head_ptr, 1)) IN
    IF fl.all \/ Count = 0 \/ ~Ready(HeadTag) THEN 0
    ELSE IF Count > 1 /\ Ready(next) THEN 2 ELSE 1

(* How many heads may leave together.                                      *)
Committable(fl) ==
  LET next == Idx(PtrAdd(head_ptr, 1)) IN
    IF fl.all \/ fl.en \/ early_mispredict_pending # None \/ Count = 0 \/ ~Ready(HeadTag) THEN 0
    ELSE IF Count > 1 /\ Ready(next) THEN 2 ELSE 1

(* The flush command, and the hold of the cycle before a partial flush.    *)
Flush(full) == [all |-> full, en |-> ~full /\ early_backend_recovery_pending # None,
                tag |-> early_backend_recovery_pending, head |-> HeadTag]

RecoveryHold == early_mispredict_pending # None

-----------------------------------------------------------------------------
(* Dispatch.  A bundle is a sequence of at most two instructions, each     *)
(* [unit, src], where src gives every source its producer's tag or None.   *)

IntUnits == {"int", "branch"}

(* Only the sources of the integer station are followed.                   *)
Instrs(tags) ==
  {i \in [unit : workload.units, src : [Sources -> tags \cup {None}]] :
     \A k \in Sources : i.src[k] # None => k \in workload.renamed /\ i.unit \in IntUnits}

Slot1 == {<< i >> : i \in Instrs(Producers)}

(* Slot 2 may read what slot 1 writes; a branch ends its bundle.           *)
Slot2 == {<< b[1], i >> : b \in {b \in Slot1 : b[1].unit # "branch"},
                          i \in Instrs(Producers \cup {TailTag(1)})}

IntSlots(b) == {k \in 1 .. Len(b) : b[k].unit \in IntUnits}

LegalBundle(b) ==
  /\ Count + Len(b) <= workload.live
  /\ IntSlots(b) # {} => ~Full
  /\ Cardinality(IntSlots(b)) = 2 => ~FullFor2

Bundles(fl) ==
  {<< >>} \cup (IF fl.all \/ fl.en \/ RecoveryHold THEN {}
                ELSE {b \in Slot1 \cup Slot2 : LegalBundle(b)})

NewId(k) == [tag |-> TailTag(k), epoch |-> 1 - rob_epoch[TailTag(k)]]

(* A source is ready at dispatch iff it is not renamed.                    *)
WantOf(t, b) == IF Len(b) = 2 /\ t = TailTag(1) THEN NewId(1) ELSE Current(t)

SourceOf(t, b) == [want |-> IF t = None THEN None ELSE WantOf(t, b), ready |-> t = None,
                   got |-> None]

RsDispatch(b, k) ==
  IF k \notin IntSlots(b) THEN None
  ELSE [id |-> NewId(k), is_branch_class |-> b[k].unit = "branch",
        src |-> [s \in Sources |-> SourceOf(b[k].src[s], b)]]

(* The sources queried a cycle later, and what the buffer answers.         *)
BypassQuery(b) == [k \in {1, 2} |-> [s \in Sources |-> IF k > Len(b) THEN None ELSE b[k].src[s]]]

DoneRepair ==
  [k \in {1, 2} |-> [s \in Sources |->
     LET t == bypass_tag[k][s] IN
       IF t # None /\ t \in rob_done THEN rob_value[t] ELSE None]]

-----------------------------------------------------------------------------
(* Back-pressure of the integer ports, and what every unit presents.       *)

IntReady  == ~ResultPending("ALU") /\ ~RecoveryHold
IntReady2 == ~ResultPending("ALU2") /\ ~RecoveryHold
MulReady  == ~Busy("MUL") /\ ~Busy("DIV") /\ ~RecoveryHold

AluOut(issue) == IF issue # None /\ ~issue.is_branch_class THEN issue.id ELSE None

Accepted(p) == ~ResultPending(p) /\ ShimOut(p) # None

(* mem is the instruction the load queue presents, or None.                *)
FuResults(mem) ==
  [f \in Fu |-> CASE f = "ALU"  -> AluOut(Issue(stage2, IntReady))
                  [] f = "ALU2" -> AluOut(Issue(stage2b, IntReady2))
                  [] f \in Pipe -> ShimOut(f)
                  [] f = "MEM"  -> mem
                  [] OTHER      -> None]

(* What the multiply station may issue and the load queue present.         *)
Waiting(unit) == {w \in waiting : rob_unit[w.tag] \in unit}
MulIssues     == {None} \cup (IF MulReady THEN Waiting({"mul", "div"}) ELSE {})
MemResults    == {None} \cup (IF ResultPending("MEM") THEN {} ELSE Waiting({"mem"}))

(* A branch that port 0 presents is resolved unless it is being flushed.   *)
Resolved(fl) ==
  LET issue == Issue(stage2, IntReady) IN
    IF issue # None /\ issue.is_branch_class /\ ~StageFlushed(issue, fl)
    THEN {issue.id.tag} ELSE {}

-----------------------------------------------------------------------------

Init ==
  /\ workload \in Workloads
  /\ head_ptr = 0 /\ tail_ptr = 0 /\ rob_done = {}
  /\ rob_unit = [t \in Tag |-> "int"] /\ rob_epoch = [t \in Tag |-> 0]
  /\ rob_value = [t \in Tag |-> None]
  /\ bypass_tag = [k \in {1, 2} |-> [s \in Sources |-> None]]
  /\ waiting = {} /\ cdb_bus = << None, None >>
  /\ early_mispredict_pending = None /\ early_backend_recovery_pending = None
  /\ AdapterInit /\ ShimInit /\ RsInit

(* What the bus and the branch unit finish; a full flush masks both.       *)
Arrived(resolved, fl) ==
  {t \in {r.tag : r \in Lanes(cdb_bus)} \cup resolved : t \in Live /\ ~fl.all}

(* Done bits: cleared by allocation only, a flush leaves them as they are. *)
DoneNext(new, resolved, fl) == (rob_done \ new) \cup Arrived(resolved, fl)

RobClock(b, commit, fl, resolved) ==
  LET new == {TailTag(k) : k \in 1 .. Len(b)} IN
  /\ head_ptr' = PtrAdd(head_ptr, commit)
  /\ tail_ptr' = IF fl.all THEN head_ptr
                 ELSE IF fl.en THEN PtrAdd(head_ptr, ((fl.tag - HeadTag) % Depth) + 1)
                 ELSE PtrAdd(tail_ptr, Len(b))
  /\ rob_done' = DoneNext(new, resolved, fl)
  /\ rob_value' = [t \in Tag |-> IF ~fl.all /\ \E r \in Lanes(cdb_bus) : r.tag = t
                                 THEN CHOOSE r \in Lanes(cdb_bus) : r.tag = t ELSE rob_value[t]]
  /\ rob_epoch' = [t \in Tag |-> IF t \in new THEN 1 - rob_epoch[t] ELSE rob_epoch[t]]
  /\ rob_unit' = [t \in Tag |-> IF t \in new
                                THEN b[CHOOSE k \in 1 .. Len(b) : TailTag(k) = t].unit
                                ELSE rob_unit[t]]
  /\ bypass_tag' = BypassQuery(b)

Cycle(b, commit, mul, mem, mispredicted, full) ==
  LET fl       == Flush(full)
      in       == FuResults(mem)
      req      == [f \in Fu |-> FuComplete(f, in[f], fl)]
      grants   == Grants(req, fl.all)
      resolved == Resolved(fl)
      arrive   == {NewId(k) : k \in (1 .. Len(b)) \ IntSlots(b)}
  IN /\ RobClock(b, commit, fl, resolved)
     /\ RsClock(<< RsDispatch(b, 1), RsDispatch(b, 2) >>, IntReady, IntReady2, cdb_bus,
                DoneRepair, fl)
     /\ ShimClock([p \in Pipe |-> IF mul # None /\ (rob_unit[mul.tag] = "mul") = (p = "MUL")
                                  THEN mul ELSE None],
                  [p \in Pipe |-> Accepted(p)], fl)
     /\ AdapterClock(in, grants, fl)
     /\ cdb_bus' = CdbLanes(req, fl.all)
     /\ waiting' = arrive \cup {w \in waiting \ {mul, mem} : ~fl.all /\ ~Squashes(fl, w.tag)}
     /\ early_mispredict_pending' =
          IF mispredicted /\ ~fl.all THEN CHOOSE t \in resolved : TRUE ELSE None
     /\ early_backend_recovery_pending' = IF fl.all THEN None ELSE early_mispredict_pending
     /\ UNCHANGED workload

(* A second misprediction is not captured while one is being recovered.    *)
MayMispredict(fl) ==
  Resolved(fl) # {} /\ ~RecoveryHold /\ early_backend_recovery_pending = None

Next ==
  \E full \in BOOLEAN :
    LET fl == Flush(full) IN
    \E mispredicted \in {FALSE, MayMispredict(fl)}, commit \in 0 .. Committable(fl),
       mul \in MulIssues, mem \in MemResults, b \in Bundles(fl) :
      Cycle(b, commit, mul, mem, mispredicted, full)

Spec == Init /\ [][Next]_vars

-----------------------------------------------------------------------------
(* Properties.                                                             *)

(* The registers hold values of their kinds, and the recovery registers    *)
(* of early_misprediction_recovery.sv name a branch that is still in       *)
(* flight: commit waits for them.                                          *)
TypeOK ==
  /\ head_ptr \in Ptr /\ tail_ptr \in Ptr /\ rob_done \subseteq Tag
  /\ rob_epoch \in [Tag -> {0, 1}] /\ rob_value \in [Tag -> Id \cup {None}]
  /\ waiting \subseteq Id /\ Lanes(cdb_bus) \subseteq Id
  /\ held_result \in [Fu -> Id \cup {None}]
  /\ \A p \in Pipe : \A i \in 1 .. Stages[p] : trk[p][i] \in Tracked \cup {None}
  /\ \A p \in Pipe : \A i \in 1 .. Len(fifo[p]) : fifo[p][i] \in Tracked
  /\ rs_entry \in [Index -> Entry \cup {None}]
  /\ {stage2, stage2b} \subseteq Entry \cup {None}
  /\ {early_mispredict_pending, early_backend_recovery_pending} \subseteq Live \cup {None}

(* Where instructions are on their way to the bus: the kind of place, the  *)
(* unit it belongs to, its index and the instruction.                      *)
Places ==
  {<< "rs", "INT", i, rs_entry[i].id >> : i \in rs_valid}
    \cup {<< "issue", "ALU", 0, e.id >> : e \in {stage2} \ {None}}
    \cup {<< "issue", "ALU2", 0, e.id >> : e \in {stage2b} \ {None}}
    \cup {<< "waiting", "", 0, w >> : w \in waiting}
    \cup (UNION {{<< "stage", p, i, trk[p][i].result >> : i \in InFlight(p)} : p \in Pipe})
    \cup (UNION {{<< "fifo", p, i, fifo[p][i].result >> :
                    i \in {j \in 1 .. Len(fifo[p]) : ~fifo[p][j].flushed}} : p \in Pipe})
    \cup {<< "held", f, 0, held_result[f] >> : f \in {g \in Fu : ResultPending(g)}}
    \cup {<< "cdb", "", l, cdb_bus[l] >> : l \in {m \in {1, 2} : cdb_bus[m] # None}}

(* Every instruction in flight that has not finished is in exactly one     *)
(* place, and nothing else is: no result is lost, broadcast twice, or kept *)
(* past the flush of its instruction to reach a later owner of its tag.    *)
(* About the hand-over station, issue register, shim, adapter, arbiter and *)
(* bus (tomasulo_wrapper.sv), each of which filters flushes by itself and  *)
(* sees tags only.                                                         *)
ExactlyOnce ==
  /\ \A t \in Live : Cardinality({p \in Places : p[4].tag = t}) = (IF t \in rob_done THEN 0 ELSE 1)
  /\ \A p \in Places : p[4].tag \in Live /\ p[4] = Current(p[4].tag)

(* What is about to execute has the values of the producers its sources    *)
(* were renamed to, not those of another owner of the same tag: about the  *)
(* three ways a source is filled, the lanes at dispatch, the lanes in the  *)
(* entry and the repair (reservation_station.sv).                          *)
OperandsAreTheProducers ==
  \A e \in ({rs_entry[i] : i \in Index} \cup {stage2, stage2b}) \ {None} :
    \A k \in Sources : e.src[k].ready => e.src[k].got = e.src[k].want

(* No wakeup is lost: the producer of a waiting source is still to be      *)
(* broadcast, or its repair is being delivered in this very cycle: about   *)
(* a result on the bus in the cycle of dispatch or of the bypass query     *)
(* (dispatch.sv), which only one of the ways to fill a source sees.        *)
NoLostWakeup ==
  \A i \in rs_valid, k \in Sources :
    LET s == rs_entry[i].src[k] IN
      ~s.ready => \/ \E p \in Places : p[4] = s.want
                  \/ \E slot \in {1, 2} : repair_target[slot] = i /\ DoneRepair[slot][k] = s.want

(* Whoever queries a finished entry gets the value its owner produced: the *)
(* done bit that qualifies the repair is not one of an earlier owner.      *)
FinishedValuesAreTheirs ==
  \A t \in Producers \cap rob_done : rob_value[t] = Current(t)

(* The occupancy count, a register of its own beside the valid bits, never *)
(* drifts from them, so that full and full_for_2 tell the truth.           *)
CountMatches == rs_count = Cardinality(rs_valid)

(* A result always finds room in the FIFO behind its pipeline: the busy    *)
(* credit of int_muldiv_shim.sv counts what is in flight.                  *)
FifosHaveRoom == \A p \in Pipe : Len(fifo[p]) + Cardinality(InFlight(p)) <= FifoDepth

(* The counters that let instructions in tell the truth about what is      *)
(* there, whatever dispatch, issue, the bus and flushes do in one cycle:   *)
(* the station's occupancy (reservation_station.sv) and the pipelines'     *)
(* credit (int_muldiv_shim.sv).                                            *)
CreditsAgree == CountMatches /\ FifosHaveRoom

(* Every source is filled, with the value of the producer it was renamed   *)
(* to: by the bus at dispatch or in the entry, or by the repair.           *)
OperandsArrive == OperandsAreTheProducers /\ NoLostWakeup /\ FinishedValuesAreTheirs

=============================================================================
