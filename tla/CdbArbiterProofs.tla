--------------------------- MODULE CdbArbiterProofs ---------------------------
(***************************************************************************)
(* The arbiter's tree grants exactly the two highest-priority requests.    *)
(* Every node of the tree lists the best two requests of the units below   *)
(* it (Lists); merging the lists of two groups keeps this when each unit   *)
(* of the first group outranks each unit of the second.                    *)
(*                                                                         *)
(* The verification environment's reference arbiter, which searches a      *)
(* priority list twice, therefore computes the same lanes and grants; with *)
(* equal grants its adapter register follows the RTL's (HeldAgrees), and   *)
(* the two buses agree in every cycle of every test.                       *)
(***************************************************************************)
EXTENDS GoldenModels, TLAPS

(* The priority cdb_arbiter.sv documents, MUL first.                       *)
Rank == [MUL |-> 1, MEM |-> 2, ALU |-> 3, ALU2 |-> 4, DIV |-> 5, FP_DIV |-> 6,
         FP_MUL |-> 7, FP_ADD |-> 8]

Valid(req, f) == req[f] # None

(* list holds the best two requests of the units in group.                 *)
Lists(req, group, list) ==
  LET one == list.first
      two == list.second
  IN /\ one.request = None => two.request = None /\ \A f \in group : ~Valid(req, f)
     /\ one.request # None =>
          /\ one.fu \in group /\ one.request = req[one.fu]
          /\ \A f \in group : Valid(req, f) => f = one.fu \/ Rank[one.fu] < Rank[f]
     /\ one.request # None /\ two.request = None =>
          \A f \in group : Valid(req, f) => f = one.fu
     /\ two.request # None =>
          /\ two.fu \in group /\ two.request = req[two.fu] /\ Rank[one.fu] < Rank[two.fu]
          /\ \A f \in group : Valid(req, f) => \/ f \in {one.fu, two.fu}
                                               \/ Rank[two.fu] < Rank[f]

(* A leaf lists its one request.                                           *)
LEMMA LeafLists ==
  ASSUME NEW req, NEW f PROVE Lists(req, {f}, MakeLeaf(req, f))
BY DEF Lists, MakeLeaf, NoResult, Valid

(* Merging keeps the best two when the first group outranks the second     *)
(* (merge_top_two).                                                        *)
LEMMA MergeLists ==
  ASSUME NEW req, NEW G \in SUBSET Fu, NEW H \in SUBSET Fu,
         \A g \in G, h \in H : Rank[g] < Rank[h],
         NEW higher, NEW lower, Lists(req, G, higher), Lists(req, H, lower)
  PROVE  Lists(req, G \cup H, MergeTopTwo(higher, lower))
<1>1. \A f \in Fu : Rank[f] \in Int
  BY DEF Rank, Fu
<1>2. CASE higher.first.request = None
  BY <1>2 DEF Lists, MergeTopTwo, Valid
<1>3. CASE higher.first.request # None /\ higher.second.request = None
  BY <1>1, <1>3 DEF Lists, MergeTopTwo, Valid
<1>4. CASE higher.first.request # None /\ higher.second.request # None
  BY <1>1, <1>4 DEF Lists, MergeTopTwo, Valid
<1> QED
  BY <1>2, <1>3, <1>4

(* Two neighbouring leaves, merged.                                        *)
LEMMA PairLists ==
  ASSUME NEW req, NEW f \in Fu, NEW g \in Fu, Rank[f] < Rank[g]
  PROVE  Lists(req, {f, g}, MergeTopTwo(MakeLeaf(req, f), MakeLeaf(req, g)))
<1>1. Lists(req, {f} \cup {g}, MergeTopTwo(MakeLeaf(req, f), MakeLeaf(req, g)))
  BY LeafLists, MergeLists
<1>2. {f} \cup {g} = {f, g}
  OBVIOUS
<1> QED
  BY <1>1, <1>2

(* The root lists the best two requests of all eight units.                *)
LEMMA RootLists == ASSUME NEW req PROVE Lists(req, Fu, TreeRoot(req))
<1> DEFINE A == {"MUL", "MEM"}
           B == {"ALU", "ALU2"}
           C == {"DIV", "FP_DIV"}
           D == {"FP_MUL", "FP_ADD"}
<1>1. /\ Lists(req, A, MergeTopTwo(MakeLeaf(req, "MUL"), MakeLeaf(req, "MEM")))
      /\ Lists(req, B, MergeTopTwo(MakeLeaf(req, "ALU"), MakeLeaf(req, "ALU2")))
      /\ Lists(req, C, MergeTopTwo(MakeLeaf(req, "DIV"), MakeLeaf(req, "FP_DIV")))
      /\ Lists(req, D, MergeTopTwo(MakeLeaf(req, "FP_MUL"), MakeLeaf(req, "FP_ADD")))
  BY PairLists DEF Rank, Fu
<1>2. /\ \A g \in A, h \in B : Rank[g] < Rank[h]
      /\ \A g \in C, h \in D : Rank[g] < Rank[h]
      /\ \A g \in A \cup B, h \in C \cup D : Rank[g] < Rank[h]
  BY DEF Rank
<1>3. A \cup B \in SUBSET Fu /\ C \cup D \in SUBSET Fu /\ Fu = (A \cup B) \cup (C \cup D)
  BY DEF Fu
<1>4. A \in SUBSET Fu /\ B \in SUBSET Fu /\ C \in SUBSET Fu /\ D \in SUBSET Fu
  BY DEF Fu
<1> HIDE DEF A, B, C, D
<1>5. Lists(req, A \cup B, HighFour(req))
  BY <1>1, <1>2, <1>4, MergeLists DEF HighFour
<1>6. Lists(req, C \cup D, LowFour(req))
  BY <1>1, <1>2, <1>4, MergeLists DEF LowFour
<1> QED
  BY <1>2, <1>3, <1>5, <1>6, MergeLists DEF TreeRoot

(* The arbiter grants a request iff it presents one and at most one unit   *)
(* of higher priority does: no unit is passed over for a lower one, no     *)
(* lane stays idle while somebody waits.                                   *)
THEOREM GrantsAreTheTopTwo ==
  ASSUME NEW req, NEW f \in Fu
  PROVE  f \in Grants(req, FALSE) <=>
           /\ Valid(req, f)
           /\ \A g, h \in Fu : Valid(req, g) /\ Valid(req, h) /\ Rank[g] < Rank[f] /\ Rank[h] < Rank[f]
                               => g = h
<1> DEFINE one == TreeRoot(req).first
           two == TreeRoot(req).second
<1>1. \A g \in Fu : Rank[g] \in Int
  BY DEF Rank, Fu
<1>2. Grants(req, FALSE) = {r.fu : r \in {s \in {one, two} : s.request # None}}
  BY DEF Grants
<1>3. f \in Grants(req, FALSE) <=>
        (one.request # None /\ f = one.fu) \/ (two.request # None /\ f = two.fu)
  <2> HIDE DEF one, two
  <2> QED BY <1>2
<1>5. Lists(req, Fu, TreeRoot(req))
  BY RootLists
<1>6. CASE one.request = None
  BY <1>3, <1>5, <1>6 DEF Lists, Valid
<1>7. CASE one.request # None /\ two.request = None
  BY <1>1, <1>3, <1>5, <1>7 DEF Lists, Valid
<1>8. CASE one.request # None /\ two.request # None
  <2> DEFINE p == one.fu
             q == two.fu
  <2>1. /\ p \in Fu /\ q \in Fu /\ Valid(req, p) /\ Valid(req, q) /\ Rank[p] < Rank[q]
        /\ \A g \in Fu : Valid(req, g) => g = p \/ g = q \/ Rank[q] < Rank[g]
        /\ f \in Grants(req, FALSE) <=> f = p \/ f = q
    BY <1>3, <1>5, <1>8 DEF Lists, Valid
  <2> HIDE DEF p, q
  <2>2. Rank[p] \in Int /\ Rank[q] \in Int /\ Rank[f] \in Int
    BY <1>1, <2>1
  <2>3. ASSUME f = p \/ f = q, NEW g \in Fu, Valid(req, g), Rank[g] < Rank[f]
        PROVE  g = p
    <3>1. Rank[g] \in Int
      BY <1>1
    <3> QED
      BY <2>1, <2>2, <2>3, <3>1
  <2>4. ASSUME Valid(req, f), f # p, f # q
        PROVE  Rank[p] < Rank[f] /\ Rank[q] < Rank[f] /\ p # q
    BY <2>1, <2>2, <2>4
  <2> QED
    BY <2>1, <2>3, <2>4
<1> QED
  BY <1>5, <1>6, <1>7, <1>8 DEF Lists

(* A presented multiplier or memory result always wins a lane, the fact    *)
(* with which tomasulo_wrapper.sv justifies acknowledging the load queue   *)
(* in the cycle of presentation.                                           *)
THEOREM MemAlwaysGranted ==
  ASSUME NEW req, NEW f \in {"MUL", "MEM"}, Valid(req, f)
  PROVE  f \in Grants(req, FALSE)
<1>1. f \in Fu /\ \A g \in Fu : Rank[g] < Rank[f] => g = "MUL"
  BY DEF Fu, Rank
<1> QED
  BY <1>1, GrantsAreTheTopTwo

-----------------------------------------------------------------------------
(* The reference arbiter.                                                  *)

(* Its list is in the order of the ranks.                                  *)
LEMMA OrderIsRank ==
  /\ \A i \in 1 .. 8 : PRIORITY_ORDER[i] \in Fu /\ Rank[PRIORITY_ORDER[i]] = i
  /\ \A f \in Fu : Rank[f] \in 1 .. 8 /\ PRIORITY_ORDER[Rank[f]] = f
BY DEF PRIORITY_ORDER, Rank, Fu

(* What a search of the list finds: the best unit not excluded.            *)
LEMMA WinnerIsBest ==
  ASSUME NEW req, NEW excluded, NEW f
  PROVE  f \in Winner(req, excluded) <=>
           /\ f \in Fu /\ Valid(req, f) /\ f \notin excluded
           /\ \A g \in Fu : Rank[g] < Rank[f] => ~(Valid(req, g) /\ g \notin excluded)
<1> DEFINE wins(g) == Valid(req, g) /\ g \notin excluded
           best(i) == wins(PRIORITY_ORDER[i]) /\ \A j \in 1 .. i - 1 : ~wins(PRIORITY_ORDER[j])
<1>1. f \in Winner(req, excluded) <=> \E i \in 1 .. 8 : f = PRIORITY_ORDER[i] /\ best(i)
  BY DEF Winner, Valid
<1>2. ASSUME NEW i \in 1 .. 8, f = PRIORITY_ORDER[i], best(i), NEW g \in Fu, Rank[g] < Rank[f]
      PROVE  ~wins(g)
  <2>1. Rank[g] \in 1 .. i - 1 /\ PRIORITY_ORDER[Rank[g]] = g
    BY <1>2, OrderIsRank
  <2> QED
    BY <1>2, <2>1
<1>3. ASSUME f \in Fu, wins(f), \A g \in Fu : Rank[g] < Rank[f] => ~wins(g)
      PROVE  \E i \in 1 .. 8 : f = PRIORITY_ORDER[i] /\ best(i)
  <2>1. Rank[f] \in 1 .. 8 /\ f = PRIORITY_ORDER[Rank[f]]
    BY <1>3, OrderIsRank
  <2>2. ASSUME NEW j \in 1 .. Rank[f] - 1 PROVE ~wins(PRIORITY_ORDER[j])
    <3>1. j \in 1 .. 8 /\ j < Rank[f]
      BY <2>1
    <3>2. PRIORITY_ORDER[j] \in Fu /\ Rank[PRIORITY_ORDER[j]] < Rank[f]
      BY <3>1, OrderIsRank
    <3> QED
      BY <1>3, <3>2
  <2>3. best(Rank[f])
    BY <1>3, <2>1, <2>2
  <2> QED
    BY <2>1, <2>3
<1>4. ASSUME NEW i \in 1 .. 8, f = PRIORITY_ORDER[i] PROVE f \in Fu
  BY <1>4, OrderIsRank
<1> QED
  BY <1>1, <1>2, <1>3, <1>4

(* The two searches find what the tree's root lists.                       *)
LEMMA SearchesFindTheRoot ==
  ASSUME NEW req
  PROVE  LET one == TreeRoot(req).first
             two == TreeRoot(req).second
         IN /\ Winner(req, {}) = IF one.request = None THEN {} ELSE {one.fu}
            /\ LaneOne(req) = IF two.request = None THEN {} ELSE {two.fu}
            /\ one.request # None => one.request = req[one.fu]
            /\ two.request # None => one.request # None /\ two.request = req[two.fu]
<1> DEFINE one == TreeRoot(req).first
           two == TreeRoot(req).second
<1>1. Lists(req, Fu, TreeRoot(req))
  BY RootLists
<1>2. \A g \in Fu : Rank[g] \in Int
  BY DEF Rank, Fu
<1>3. \A f : f \in Winner(req, {}) <=>
        f \in Fu /\ Valid(req, f) /\ \A g \in Fu : Rank[g] < Rank[f] => ~Valid(req, g)
  BY WinnerIsBest
<1>4. /\ one.request = None => two.request = None /\ \A f \in Fu : ~Valid(req, f)
      /\ one.request # None =>
           /\ one.fu \in Fu /\ one.request = req[one.fu] /\ Valid(req, one.fu)
           /\ \A f \in Fu : Valid(req, f) => f = one.fu \/ Rank[one.fu] < Rank[f]
      /\ one.request # None /\ two.request = None => \A f \in Fu : Valid(req, f) => f = one.fu
      /\ two.request # None =>
           /\ two.fu \in Fu /\ two.request = req[two.fu] /\ Valid(req, two.fu)
           /\ Rank[one.fu] < Rank[two.fu]
           /\ \A f \in Fu : Valid(req, f) => f \in {one.fu, two.fu} \/ Rank[two.fu] < Rank[f]
  BY <1>1 DEF Lists, Valid
<1> HIDE DEF one, two
<1>5. Winner(req, {}) = IF one.request = None THEN {} ELSE {one.fu}
  <2>1. CASE one.request = None
    BY <1>3, <1>4, <2>1
  <2>2. CASE one.request # None
    <3>1. one.fu \in Winner(req, {})
      BY <1>2, <1>3, <1>4, <2>2
    <3>2. ASSUME NEW f \in Winner(req, {}) PROVE f = one.fu
      BY <1>2, <1>3, <1>4, <2>2
    <3> QED
      BY <2>2, <3>1, <3>2
  <2> QED
    BY <2>1, <2>2
<1>6. \A f : f \in LaneOne(req) <=>
        /\ f \in Fu /\ Valid(req, f) /\ f \notin Winner(req, {})
        /\ \A g \in Fu : Rank[g] < Rank[f] => ~(Valid(req, g) /\ g \notin Winner(req, {}))
  BY WinnerIsBest DEF LaneOne
<1>7. LaneOne(req) = IF two.request = None THEN {} ELSE {two.fu}
  <2>1. CASE two.request = None
    BY <1>4, <1>5, <1>6, <2>1
  <2>2. CASE two.request # None
    <3>1. one.request # None /\ Winner(req, {}) = {one.fu}
      BY <1>4, <1>5, <2>2
    <3>2. two.fu \in LaneOne(req)
      BY <1>2, <1>4, <1>6, <2>2, <3>1
    <3>3. ASSUME NEW f \in LaneOne(req) PROVE f = two.fu
      BY <1>2, <1>4, <1>6, <2>2, <3>1
    <3> QED
      BY <2>2, <3>2, <3>3
  <2> QED
    BY <2>1, <2>2
<1> QED
  BY <1>4, <1>5, <1>7 DEF one, two

(* The reference arbiter drives the lanes and the grants of the tree, for  *)
(* every set of requests.                                                  *)
THEOREM ReferenceArbiterIsTheTree ==
  ASSUME NEW req
  PROVE  arbitrate(req).lanes = CdbLanes(req, FALSE) /\ arbitrate(req).grants = Grants(req, FALSE)
<1> DEFINE one == TreeRoot(req).first
           two == TreeRoot(req).second
<1>1. /\ Winner(req, {}) = IF one.request = None THEN {} ELSE {one.fu}
      /\ LaneOne(req) = IF two.request = None THEN {} ELSE {two.fu}
      /\ one.request # None => one.request = req[one.fu]
      /\ two.request # None => one.request # None /\ two.request = req[two.fu]
  BY SearchesFindTheRoot
<1>2. /\ CdbLanes(req, FALSE) = << one.request, two.request >>
      /\ Grants(req, FALSE) = {r.fu : r \in {s \in {one, two} : s.request # None}}
  BY DEF CdbLanes, Grants
<1>3. /\ arbitrate(req).lanes = << Broadcast(req, Winner(req, {})), Broadcast(req, LaneOne(req)) >>
      /\ arbitrate(req).grants = Winner(req, {}) \cup LaneOne(req)
  BY DEF arbitrate
<1> HIDE DEF one, two
<1>4. Broadcast(req, Winner(req, {})) = one.request /\ Broadcast(req, LaneOne(req)) = two.request
  BY <1>1 DEF Broadcast
<1>5. Grants(req, FALSE) = Winner(req, {}) \cup LaneOne(req)
  BY <1>1, <1>2
<1> QED
  BY <1>2, <1>3, <1>4, <1>5

-----------------------------------------------------------------------------
(* The reference adapter.                                                  *)

(* Its register holds what the RTL's adapter of the same unit holds.       *)
HeldAgrees == held_result \in [Fu -> Id \cup {None}] /\ gold_held = held_result["ALU"]

(* With equal registers both sides present the same requests.              *)
LEMMA RequestsAgree ==
  ASSUME HeldAgrees, NEW in, NEW requesting, NEW flush
  PROVE  Requests(get_output(in), requesting)
           = Requests(FuComplete("ALU", in, NoFlush(flush)), requesting)
<1>1. "ALU" \notin RegisterOutput
  BY DEF RegisterOutput
<1>2. ASSUME NEW r PROVE ~PartialFlush(r, NoFlush(flush))
  BY DEF PartialFlush, Squashes, NoFlush
<1>3. get_output(in) = FuComplete("ALU", in, NoFlush(flush))
  BY <1>1, <1>2 DEF HeldAgrees, get_output, FuComplete, ResultPending
<1> QED
  BY <1>3

(* A clock keeps the registers equal, flushed, granted and refilled or not.*)
LEMMA CdbCycleAgrees ==
  ASSUME HeldAgrees, NEW in \in {None} \cup Id, NEW requesting, NEW flush \in BOOLEAN,
         CdbCycle(in, requesting, flush)
  PROVE  HeldAgrees'
<1> DEFINE req   == Requests(get_output(in), requesting)
           grant == "ALU" \in Grants(req, FALSE)
<1>1. /\ gold_held' = step(in, grant, flush)
      /\ held_result' = [held_result EXCEPT !["ALU"] =
           IF PendingNext("ALU", in, grant, NoFlush(flush)) THEN PayloadNext("ALU", in, grant)
           ELSE None]
  BY RequestsAgree, ReferenceArbiterIsTheTree DEF CdbCycle
<1>2. \A r : ~PartialFlush(r, NoFlush(flush))
  BY DEF PartialFlush, Squashes, NoFlush
<1>3. NoFlush(flush).all = flush /\ "ALU" \in Fu
  BY DEF NoFlush, Fu
<1>4. "ALU" \notin RegisterOutput /\ "ALU" \in AllowGrantRefill /\ "ALU" \notin UnqualifiedPayload
  BY DEF RegisterOutput, AllowGrantRefill, UnqualifiedPayload
<1> HIDE DEF grant
<1>5. PendingNext("ALU", in, grant, NoFlush(flush)) <=>
        ~flush /\ IF gold_held # None THEN ~grant \/ in # None ELSE in # None /\ ~grant
  BY <1>2, <1>3, <1>4 DEF PendingNext, ResultPending, HeldAgrees
<1>6. PayloadNext("ALU", in, grant) = IF in # None /\ (gold_held = None \/ grant) THEN in ELSE gold_held
  BY <1>4 DEF PayloadNext, ResultPending, HeldAgrees
<1>7. (IF PendingNext("ALU", in, grant, NoFlush(flush)) THEN PayloadNext("ALU", in, grant) ELSE None)
        = step(in, grant, flush)
  BY <1>5, <1>6 DEF step
<1>8. step(in, grant, flush) \in Id \cup {None}
  BY <1>3 DEF step, HeldAgrees
<1> QED
  BY <1>1, <1>3, <1>7, <1>8 DEF HeldAgrees

(* No other test touches the adapters.                                     *)
LEMMA HeldStep == HeldAgrees /\ [Next]_vars => HeldAgrees'
<1> SUFFICES ASSUME HeldAgrees, [Next]_vars PROVE HeldAgrees'
  OBVIOUS
<1>1. CASE CdbTest
  BY <1>1, CdbCycleAgrees DEF CdbTest
<1>2. CASE UNCHANGED cdbVars
  BY <1>2 DEF cdbVars, HeldAgrees
<1>3. CASE CoreTest \/ RatTest \/ LqTest \/ SqTest \/ UNCHANGED vars
  BY <1>2, <1>3 DEF CoreTest, RatTest, LqTest, SqTest, vars
<1> QED
  BY <1>1, <1>3 DEF Next

(* In every cycle of every test the model's bus carries what the RTL's     *)
(* carries and grants the same units, whatever the units present: the      *)
(* comparison of the arbiter's and the adapter's tests, for all inputs.    *)
THEOREM BusesAlwaysAgree == Spec => []GoldenBusAgrees
<1>1. Init => HeldAgrees
  BY DEF Init, CdbInit, AdapterInit, HeldAgrees, Fu
<1>2. HeldAgrees => GoldenBusAgrees
  <2> SUFFICES ASSUME HeldAgrees, NEW in \in {None} \cup Id, NEW requesting
               PROVE  BusesAgree(in, requesting)
    BY DEF GoldenBusAgrees
  <2> QED
    BY RequestsAgree, ReferenceArbiterIsTheTree DEF BusesAgree
<1> QED
  BY <1>1, <1>2, HeldStep, PTL DEF Spec

=============================================================================
