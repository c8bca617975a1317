------------------------------ MODULE GoldenModels ------------------------------
(***************************************************************************)
(* The golden models of the tomasulo tests, each in the bench of its unit: *)
(* a workload is one test, which drives the composed core, the load queue, *)
(* the store queue, the alias table or the common data bus.                *)
(*                                                                         *)
(* The models of the bus are here.  One functional unit is co-simulated    *)
(* with the RTL: the model's holding register takes the same inputs as an  *)
(* adapter with the default parameters (that of the ALU), and the two      *)
(* arbiters see the same requests.                                         *)
(*                                                                         *)
(*   verif/cocotb_tests/tomasulo/cdb_arbiter/cdb_arbiter_model.py          *)
(*   verif/cocotb_tests/tomasulo/fu_cdb_adapter/fu_cdb_adapter_model.py    *)
(***************************************************************************)
EXTENDS RatBench, GoldenLsq, CdbArbiter

CONSTANT Workloads  \* [unit, program, masks, strict, faults, plan, base]

VARIABLE gold_held  \* FuCdbAdapterModel: held_result, None when not result_pending

PRIORITY_ORDER == << "MUL", "MEM", "ALU", "ALU2", "DIV", "FP_DIV", "FP_MUL", "FP_ADD" >>

(* The first unit of the order, not excluded, that presents a result.      *)
Winner(req, excluded) ==
  LET wins(f) == req[f] # None /\ f \notin excluded IN
    {PRIORITY_ORDER[i] : i \in {i \in 1 .. 8 : /\ wins(PRIORITY_ORDER[i])
                                               /\ \A j \in 1 .. i - 1 : ~wins(PRIORITY_ORDER[j])}}

LaneOne(req) == Winner(req, Winner(req, {}))

Broadcast(req, winner) == IF winner = {} THEN None ELSE req[CHOOSE f \in winner : TRUE]

arbitrate(req) ==
  [lanes  |-> << Broadcast(req, Winner(req, {})), Broadcast(req, LaneOne(req)) >>,
   grants |-> Winner(req, {}) \cup LaneOne(req)]

get_output(in) == IF gold_held # None THEN gold_held ELSE in

StepNoRefill(in, grant, flush) ==  \* mutant: a granted register goes idle, whatever arrives
  IF flush \/ (gold_held # None /\ grant) THEN None
  ELSE IF gold_held = None /\ ~grant THEN in ELSE gold_held

step(in, grant, flush) ==
  IF flush THEN None
  ELSE IF gold_held # None /\ grant THEN in
  ELSE IF gold_held = None /\ ~grant THEN in
  ELSE gold_held

(* The requests when the unit presents out and the others in requesting    *)
(* present a result each, told apart by its place in the order.            *)
Requests(out, requesting) ==
  [f \in Fu |-> IF f = "ALU" THEN out
                ELSE IF f \in requesting
                THEN [tag |-> CHOOSE i \in 1 .. 8 : PRIORITY_ORDER[i] = f, epoch |-> 0]
                ELSE None]

NoFlush(all) == [all |-> all, en |-> FALSE, tag |-> 0, head |-> 0]

CdbInit == AdapterInit /\ gold_held = None

(* One clock: each side with its own adapter, arbiter and grant.           *)
CdbCycle(in, requesting, flush) ==
  LET goldReq == Requests(get_output(in), requesting)
      rtlReq  == Requests(FuComplete("ALU", in, NoFlush(flush)), requesting)
      grant   == "ALU" \in Grants(rtlReq, FALSE)
  IN /\ gold_held' = step(in, "ALU" \in arbitrate(goldReq).grants, flush)
     /\ held_result' = [held_result EXCEPT !["ALU"] =
          IF PendingNext("ALU", in, grant, NoFlush(flush)) THEN PayloadNext("ALU", in, grant) ELSE None]

(* The two buses under the same inputs of a cycle.                         *)
BusesAgree(in, requesting) ==
  LET goldReq == Requests(get_output(in), requesting)
      rtlReq  == Requests(FuComplete("ALU", in, NoFlush(FALSE)), requesting)
  IN /\ arbitrate(goldReq).lanes = CdbLanes(rtlReq, FALSE)
     /\ arbitrate(goldReq).grants = Grants(rtlReq, FALSE)

-----------------------------------------------------------------------------
(* The tests.                                                              *)

cdbVars == << held_result, gold_held >>
vars == << coreVars, ratBenchVars, lsqVars, cdbVars >>

Init ==
  /\ workload \in Workloads
  /\ CoreInit /\ RatBenchInit /\ LsqInit /\ CdbInit
  /\ plan = workload.plan /\ transactions = workload.plan /\ rob_head = workload.base

CoreTest == workload.unit = "core" /\ CoreNext /\ UNCHANGED << ratBenchVars, lsqVars, cdbVars >>
RatTest  ==
  /\ workload.unit = "rat" /\ RatBenchNext
  /\ UNCHANGED << workload, pos, robVars, rsVars, executing, raised, lsqVars, cdbVars >>
LqTest   == workload.unit = "lq" /\ LqNext /\ UNCHANGED << coreVars, ratBenchVars, cdbVars >>
SqTest   == workload.unit = "sq" /\ SqNext /\ UNCHANGED << coreVars, ratBenchVars, cdbVars >>

CdbTest ==
  /\ workload.unit = "cdb"
  /\ \E in \in {None} \cup Id, requesting \in SUBSET (Fu \ {"ALU"}), flush \in BOOLEAN :
       CdbCycle(in, requesting, flush)
  /\ UNCHANGED << coreVars, ratBenchVars, lsqVars >>

Next == CoreTest \/ RatTest \/ LqTest \/ SqTest \/ CdbTest

Spec == Init /\ [][Next]_vars

(* Every variable has its type.                                            *)
TypeOK == CoreTypeOK /\ LsqTypeOK /\ gold_held \in Id \cup {None}

(* Whatever the unit and the others present, the model's bus carries what  *)
(* the RTL's carries and grants the same units: the comparison that the    *)
(* arbiter's and the adapter's tests make on the inputs they try.          *)
GoldenBusAgrees ==
  workload.unit = "cdb" =>
    \A in \in {None} \cup Id, requesting \in SUBSET (Fu \ {"ALU"}) :
      BusesAgree(in, requesting)

(* The reference core is right: its status describes its entries, its      *)
(* table names the youngest writer, its operands have their producers, and *)
(* commit() refuses only what it must; see the four in GoldenTomasulo.     *)
CoreModelIsRight ==
  /\ StatusDescribesEntries /\ RatNamesYoungestWriter
  /\ OperandsHaveTheirProducer /\ CommitRefusesOnlyHandshakes

(* The reference queues are right: a store gets a free slot, the store     *)
(* written is the one at the head and in order, and a load completes once  *)
(* with its own data; see the three in GoldenLsq.                          *)
QueueModelsAreRight ==
  StoreSlotIsFree /\ HeadIsTheStoreWritten /\ LoadsCompleteOnceWithOwnData

=============================================================================
