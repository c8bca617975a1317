------------------------------- MODULE GoldenLsq -------------------------------
(***************************************************************************)
(* The golden models of the load queue and the store queue, each driven    *)
(* the way its tests drive it.                                             *)
(*                                                                         *)
(*   verif/cocotb_tests/tomasulo/load_queue/lq_model.py                    *)
(*   verif/cocotb_tests/tomasulo/store_queue/sq_model.py                   *)
(*                                                                         *)
(* A test numbers its memory operations in the order it allocates them;    *)
(* the number also stands for the data of that operation.  The operations  *)
(* in flight have consecutive reorder-buffer tags from rob_head on.        *)
(***************************************************************************)
EXTENDS RobTag, Sequences, FiniteSets

CONSTANTS LqDepth, SqDepth

ASSUME QueueAssumption == {LqDepth, SqDepth} \subseteq 2 .. Depth - 1

VARIABLES
  plan,        \* the kinds of operation the test allocates
  number,      \* how many it has allocated
  rob_head, inflight,                       \* oldest tag; numbers in flight, oldest first
  sq, sq_head, sq_tail, write_outstanding,  \* SQModel
  writing, written,                         \* the DUT's write; what memory has received
  lq, lq_head, lq_tail, mem_outstanding, issued_idx, cdb_stage,  \* LQModel
  reservation, amo,                         \* reservation_valid; [state, idx, old]
  owner, delivered                          \* whose data memory returns; completions accepted

benchVars == << plan, number, rob_head, inflight >>
sqVars == << sq, sq_head, sq_tail, write_outstanding, writing, written >>
lqVars == << lq, lq_head, lq_tail, mem_outstanding, issued_idx, cdb_stage, reservation, amo,
             owner, delivered >>
lsqVars == << benchVars, sqVars, lqVars >>

Sq == 0 .. SqDepth - 1
Lq == 0 .. LqDepth - 1

(* is_younger, of both files.                                              *)
is_younger(t, flush_tag, head) == (t - head) % Depth > (flush_tag - head) % Depth

TagOf(i)   == (rob_head + i - 1) % Depth          \* of the i-th operation in flight
NextTag    == (rob_head + Len(inflight)) % Depth
Kind(n)    == plan[n]
PlanLeft   == number < Len(plan) /\ Len(inflight) < Depth
Front(t)   == inflight # << >> /\ t = rob_head

Allocated == /\ number' = number + 1 /\ inflight' = Append(inflight, number + 1)
             /\ UNCHANGED << plan, rob_head >>
Retired   == /\ inflight' = Tail(inflight) /\ rob_head' = (rob_head + 1) % Depth
             /\ UNCHANGED << plan, number >>
Squash(i) == inflight' = SubSeq(inflight, 1, i) /\ UNCHANGED << plan, number, rob_head >>

-----------------------------------------------------------------------------
(* SQModel.                                                                *)
NoStore == [valid |-> FALSE, rob_tag |-> 0, n |-> 0, addr_valid |-> FALSE, data_valid |-> FALSE,
            committed |-> FALSE, is_sc |-> FALSE]

sq_head_idx      == sq_head % SqDepth
sq_tail_idx      == sq_tail % SqDepth
window_occupancy == (sq_tail - sq_head) % (2 * SqDepth)
sq_full          == window_occupancy >= SqDepth
committed_empty  == \A i \in Sq : ~(sq[i].valid /\ sq[i].committed)

sq_alloc ==
  /\ PlanLeft /\ Kind(number + 1) \in {"store", "sc"} /\ ~sq_full
  /\ \E known \in BOOLEAN :
       sq' = [sq EXCEPT ![sq_tail_idx] =
                [valid |-> TRUE, rob_tag |-> NextTag, n |-> number + 1, addr_valid |-> known,
                 data_valid |-> FALSE, committed |-> FALSE, is_sc |-> Kind(number + 1) = "sc"]]
  /\ sq_tail' = (sq_tail + 1) % (2 * SqDepth)
  /\ Allocated
  /\ UNCHANGED << sq_head, write_outstanding, writing, written, lqVars >>

SqMatch(i, t) == sq[i].valid /\ sq[i].rob_tag = t

sq_addr_update(t) ==
  /\ \E i \in Sq : SqMatch(i, t) /\ ~sq[i].addr_valid
  /\ sq' = [i \in Sq |-> IF SqMatch(i, t) THEN [sq[i] EXCEPT !.addr_valid = TRUE] ELSE sq[i]]
  /\ UNCHANGED << benchVars, sq_head, sq_tail, write_outstanding, writing, written, lqVars >>

data_update(t) ==
  /\ \E i \in Sq : SqMatch(i, t) /\ ~sq[i].data_valid
  /\ sq' = [i \in Sq |-> IF SqMatch(i, t) THEN [sq[i] EXCEPT !.data_valid = TRUE] ELSE sq[i]]
  /\ UNCHANGED << benchVars, sq_head, sq_tail, write_outstanding, writing, written, lqVars >>

(* A store whose address and data are known commits at the head.           *)
sq_commit(t) ==
  /\ Front(t)
  /\ \E i \in Sq : SqMatch(i, t) /\ ~sq[i].committed /\ sq[i].addr_valid /\ sq[i].data_valid
  /\ sq' = [i \in Sq |-> IF SqMatch(i, t) THEN [sq[i] EXCEPT !.committed = TRUE] ELSE sq[i]]
  /\ Retired
  /\ UNCHANGED << sq_head, sq_tail, write_outstanding, writing, written, lqVars >>

(* advance_head: past the freed entries, and to the tail when empty.       *)
sq_advance_head(entries, head, tail) ==
  LET steps == {k \in 0 .. SqDepth - 1 : entries[(head + k) % SqDepth].valid} IN
    IF steps = {} THEN tail ELSE (head + CHOOSE k \in steps : \A j \in steps : k <= j) % (2 * SqDepth)

(* A failed SC retires and its entry is discarded; the DUT's head passes   *)
(* the hole in the next cycle, and so does the model's.                    *)
sc_discard(t) ==
  LET freed == [i \in Sq |-> IF SqMatch(i, t) /\ sq[i].is_sc
                             THEN [sq[i] EXCEPT !.valid = FALSE] ELSE sq[i]]
  IN /\ Front(t) /\ Kind(Head(inflight)) = "sc"
     /\ sq' = freed
     /\ sq_head' = sq_advance_head(freed, sq_head, sq_tail)
     /\ Retired
     /\ UNCHANGED << sq_tail, write_outstanding, writing, written, lqVars >>

(* The DUT writes the oldest store once it has committed.                  *)
DutHead == {i \in Sq : /\ sq[i].valid
                       /\ \A j \in Sq : sq[j].valid => sq[i].n <= sq[j].n}

mem_write_initiate ==
  /\ ~write_outstanding
  /\ \E i \in DutHead : sq[i].committed /\ writing' = sq[i].n
  /\ write_outstanding' = TRUE
  /\ UNCHANGED << benchVars, sq, sq_head, sq_tail, written, lqVars >>

mem_write_done ==
  LET freed == [sq EXCEPT ![sq_head_idx].valid = FALSE] IN
    /\ write_outstanding
    /\ sq' = freed /\ sq_head' = sq_advance_head(freed, sq_head, sq_tail)
    /\ write_outstanding' = FALSE
    /\ written' = Append(written, writing) /\ writing' = 0
    /\ UNCHANGED << benchVars, sq_tail, lqVars >>

FlushCommitted(t, head) ==  \* mutant: committed stores are killed too
  [i \in Sq |-> [sq[i] EXCEPT !.valid = @ /\ ~is_younger(sq[i].rob_tag, t, head)]]

SqSurvivors(t, head) ==
  [i \in Sq |-> [sq[i] EXCEPT !.valid = @ /\ (sq[i].committed \/ ~is_younger(sq[i].rob_tag, t, head))]]

PulledBackTail(kept) ==
  LET offsets == {k \in 0 .. SqDepth - 1 : kept[(sq_head + k) % SqDepth].valid} IN
    IF offsets = {} THEN sq_head
    ELSE (sq_head + 1 + CHOOSE k \in offsets : \A j \in offsets : j <= k) % (2 * SqDepth)

(* The i-th operation in flight is a mispredicted branch's predecessor:    *)
(* what follows it is squashed.                                            *)
sq_partial_flush(i) ==
  LET kept == SqSurvivors(TagOf(i), rob_head) IN
    /\ sq' = kept
    /\ sq_tail' = PulledBackTail(kept)
    /\ Squash(i)
    /\ UNCHANGED << sq_head, write_outstanding, writing, written, lqVars >>

(* A full flush resets the model; a test flushes before anything commits.  *)
sq_flush_all ==
  /\ committed_empty
  /\ sq' = [i \in Sq |-> NoStore] /\ sq_head' = 0 /\ sq_tail' = 0
  /\ write_outstanding' = FALSE
  /\ inflight' = << >>
  /\ UNCHANGED << plan, number, rob_head, writing, written, lqVars >>

SqNext ==
  \/ sq_alloc
  \/ \E i \in Sq : \/ sq_addr_update(sq[i].rob_tag) \/ data_update(sq[i].rob_tag)
                   \/ sq_commit(sq[i].rob_tag)
  \/ sc_discard(rob_head)
  \/ mem_write_initiate \/ mem_write_done
  \/ \E i \in 1 .. Len(inflight) : sq_partial_flush(i)
  \/ sq_flush_all

-----------------------------------------------------------------------------
(* LQModel.  The helpers that the tests call scan with the default head    *)
(* tag 0, so LR and AMO operations issue only under that tag.              *)
NoLoad  == [valid |-> FALSE, rob_tag |-> 0, n |-> 0, addr_valid |-> FALSE, issued |-> FALSE,
            data_valid |-> FALSE, data |-> 0, kind |-> "load"]
NoStage == [valid |-> FALSE, tag |-> 0, n |-> 0, value |-> 0]

LqUnwrapped(p) == p  \* mutant: the pointer is not wrapped

LqPtr(p)  == p % (2 * LqDepth)
lq_count  == Cardinality({i \in Lq : lq[i].valid})
Ring(k)   == (lq_head + k) % LqDepth
First(S)  == {Ring(k) : k \in {k \in 0 .. LqDepth - 1 : /\ Ring(k) \in S
                                                         /\ \A j \in 0 .. k - 1 : Ring(j) \notin S}}

(* The slot alloc takes: the first invalid one from the tail on.           *)
FreeStep == CHOOSE k \in 0 .. LqDepth - 1 :
              /\ ~lq[(lq_tail + k) % LqDepth].valid
              /\ \A j \in 0 .. k - 1 : lq[(lq_tail + j) % LqDepth].valid

(* A test does not reuse the slot of a squashed load whose response is due. *)
SlotIsOwed(i) == mem_outstanding /\ issued_idx = i /\ ~lq[i].valid

lq_alloc ==
  /\ PlanLeft /\ Kind(number + 1) \in {"load", "mmio", "lr", "amo"}
  /\ lq_count < LqDepth
  /\ LET slot == (lq_tail + FreeStep) % LqDepth IN
       /\ ~SlotIsOwed(slot)
       /\ lq' = [lq EXCEPT ![slot] = [NoLoad EXCEPT !.valid = TRUE, !.rob_tag = NextTag,
                                                    !.n = number + 1, !.kind = Kind(number + 1)]]
  /\ lq_tail' = LqPtr(lq_tail + FreeStep + 1)
  /\ Allocated
  /\ UNCHANGED << sqVars, lq_head, mem_outstanding, issued_idx, cdb_stage, reservation, amo,
                  owner, delivered >>

lq_addr_update(t) ==
  LET hit(i) == lq[i].valid /\ ~lq[i].addr_valid /\ lq[i].rob_tag = t IN
    /\ \E i \in Lq : hit(i)
    /\ lq' = [i \in Lq |-> IF hit(i) THEN [lq[i] EXCEPT !.addr_valid = TRUE] ELSE lq[i]]
    /\ UNCHANGED << benchVars, sqVars, lq_head, lq_tail, mem_outstanding, issued_idx, cdb_stage,
                    reservation, amo, owner, delivered >>

(* _issue_scan: the completion candidate, and the memory candidate, for    *)
(* which a regular load or AMO at the ROB head goes first.                 *)
Waiting(i)   == lq[i].valid /\ lq[i].addr_valid /\ ~lq[i].issued /\ ~lq[i].data_valid
HasData(i)   == lq[i].valid /\ lq[i].data_valid
AtHead(i)    == Waiting(i) /\ lq[i].rob_tag = 0 /\ lq[i].kind \in {"load", "amo"}
Issuable(i)  == Waiting(i) /\ (lq[i].kind \in {"lr", "amo"} => lq[i].rob_tag = 0)

cdb_idx == First({i \in Lq : HasData(i)})
mem_idx == LET head == {i \in Lq : AtHead(i) /\ \A j \in 0 .. i - 1 : ~AtHead(j)} IN
             IF head # {} THEN head ELSE First({i \in Lq : Issuable(i)})

(* A forwarded store completes the candidate at once; an L0 hit does so    *)
(* without telling the model the data, which stays 0.                      *)
CompleteCandidate(data) ==
  \E i \in mem_idx :
    /\ lq[i].kind = "load"
    /\ lq' = [lq EXCEPT ![i].data_valid = TRUE, ![i].data = data[i]]
    /\ UNCHANGED << benchVars, sqVars, lq_head, lq_tail, mem_outstanding, issued_idx, cdb_stage,
                    reservation, amo, owner, delivered >>

apply_forward      == CompleteCandidate([i \in Lq |-> lq[i].n])
cache_hit_complete == CompleteCandidate([i \in Lq |-> lq[i].data])

issue_to_memory ==
  \E i \in mem_idx :
    /\ ~mem_outstanding
    /\ lq' = [lq EXCEPT ![i].issued = TRUE]
    /\ mem_outstanding' = TRUE /\ issued_idx' = i /\ owner' = lq[i].n
    /\ UNCHANGED << benchVars, sqVars, lq_head, lq_tail, cdb_stage, reservation, amo, delivered >>

(* mem_response_drain: the response of a squashed load is dropped.         *)
Drained(i) == lq[i].valid

mem_response_drain ==
  LET i == issued_idx IN
    /\ mem_outstanding
    /\ mem_outstanding' = FALSE /\ owner' = 0
    /\ lq' = IF Drained(i) /\ lq[i].kind # "amo"
             THEN [lq EXCEPT ![i].data = owner, ![i].data_valid = TRUE] ELSE lq
    /\ amo' = IF Drained(i) /\ lq[i].kind = "amo" THEN [state |-> 1, idx |-> i, old |-> owner] ELSE amo
    /\ reservation' = IF Drained(i) /\ lq[i].kind = "lr" THEN lq[i].n ELSE reservation
    /\ UNCHANGED << benchVars, sqVars, lq_head, lq_tail, issued_idx, cdb_stage, delivered >>

amo_write_done ==
  /\ amo.state = 1
  /\ lq' = [lq EXCEPT ![amo.idx].data = amo.old, ![amo.idx].data_valid = TRUE]
  /\ amo' = [amo EXCEPT !.state = 0]
  /\ UNCHANGED << benchVars, sqVars, lq_head, lq_tail, mem_outstanding, issued_idx, cdb_stage,
                  reservation, owner, delivered >>

(* sc_clear_reservation, reservation_snoop_invalidate.                     *)
clear_reservation ==
  /\ reservation # 0 /\ reservation' = 0
  /\ UNCHANGED << benchVars, sqVars, lq, lq_head, lq_tail, mem_outstanding, issued_idx, cdb_stage,
                  amo, owner, delivered >>

(* get_fu_complete stages the oldest completion and frees its entry.       *)
get_fu_complete ==
  /\ ~cdb_stage.valid
  /\ \E i \in cdb_idx :
       /\ cdb_stage' = [valid |-> TRUE, tag |-> lq[i].rob_tag, n |-> lq[i].n, value |-> lq[i].data]
       /\ lq' = [lq EXCEPT ![i].valid = FALSE]
  /\ UNCHANGED << benchVars, sqVars, lq_head, lq_tail, mem_outstanding, issued_idx, reservation,
                  amo, owner, delivered >>

lq_advance_head ==
  LET steps == {k \in 0 .. LqDepth - 1 : lq[Ring(k)].valid} IN
    IF steps = {} THEN lq_head
    ELSE (lq_head + CHOOSE k \in steps : \A j \in steps : k <= j) % (2 * LqDepth)

(* free_cdb_entry accepts the staged completion, then advance_head.        *)
free_cdb_entry ==
  /\ cdb_stage.valid
  /\ delivered' = Append(delivered, << cdb_stage.tag, cdb_stage.n, cdb_stage.value >>)
  /\ cdb_stage' = NoStage
  /\ lq_head' = lq_advance_head
  /\ UNCHANGED << benchVars, sqVars, lq, lq_tail, mem_outstanding, issued_idx, reservation, amo, owner >>

Completed(n) == \E k \in 1 .. Len(delivered) : delivered[k][2] = n

LqRetire ==
  /\ inflight # << >> /\ Completed(Head(inflight))
  /\ Retired
  /\ UNCHANGED << sqVars, lqVars >>

FlushKeepsStage(i) == cdb_stage  \* mutant: the staged completion is not looked at

FlushedStage(i) == IF cdb_stage.valid /\ is_younger(cdb_stage.tag, TagOf(i), rob_head)
                   THEN NoStage ELSE cdb_stage

lq_partial_flush(i) ==
  /\ lq' = [j \in Lq |-> [lq[j] EXCEPT !.valid = @ /\ ~is_younger(lq[j].rob_tag, TagOf(i), rob_head)]]
  /\ cdb_stage' = FlushedStage(i)
  /\ Squash(i)
  /\ UNCHANGED << sqVars, lq_head, lq_tail, mem_outstanding, issued_idx, reservation, amo, owner,
                  delivered >>

(* A full flush resets the model, the memory request included.             *)
lq_flush_all ==
  /\ lq' = [i \in Lq |-> NoLoad] /\ lq_head' = 0 /\ lq_tail' = 0
  /\ mem_outstanding' = FALSE /\ issued_idx' = 0 /\ cdb_stage' = NoStage
  /\ reservation' = 0 /\ amo' = [state |-> 0, idx |-> 0, old |-> 0] /\ owner' = 0
  /\ inflight' = << >>
  /\ UNCHANGED << plan, number, rob_head, sqVars, delivered >>

LqNext ==
  \/ lq_alloc
  \/ \E i \in Lq : lq_addr_update(lq[i].rob_tag)
  \/ apply_forward \/ cache_hit_complete \/ issue_to_memory \/ mem_response_drain \/ amo_write_done
  \/ clear_reservation \/ get_fu_complete \/ free_cdb_entry \/ LqRetire
  \/ \E i \in 1 .. Len(inflight) : lq_partial_flush(i)
  \/ lq_flush_all

LsqInit ==
  /\ number = 0 /\ inflight = << >>
  /\ sq = [i \in Sq |-> NoStore] /\ sq_head = 0 /\ sq_tail = 0 /\ write_outstanding = FALSE
  /\ writing = 0 /\ written = << >>
  /\ lq = [i \in Lq |-> NoLoad] /\ lq_head = 0 /\ lq_tail = 0 /\ mem_outstanding = FALSE
  /\ issued_idx = 0 /\ cdb_stage = NoStage /\ reservation = 0
  /\ amo = [state |-> 0, idx |-> 0, old |-> 0] /\ owner = 0 /\ delivered = << >>

-----------------------------------------------------------------------------
(* The pointers, the head tag and the flags have their types.              *)
LsqTypeOK ==
  /\ rob_head \in Tag /\ {sq_head, sq_tail} \subseteq 0 .. 2 * SqDepth - 1
  /\ {lq_head, lq_tail} \subseteq 0 .. 2 * LqDepth - 1 /\ issued_idx \in Lq
  /\ write_outstanding \in BOOLEAN /\ mem_outstanding \in BOOLEAN

(* The slot at the tail of a store queue that is not full is free: the     *)
(* assertion of SQModel.alloc, with holes, wraps and pulled-back tails.    *)
StoreSlotIsFree == ~sq_full => ~sq[sq_tail_idx].valid

(* The write the DUT has on the bus is that of the entry at the model's    *)
(* head, which mem_write_done frees without looking; and memory receives   *)
(* the stores in program order.                                            *)
HeadIsTheStoreWritten ==
  /\ write_outstanding => sq[sq_head_idx].valid /\ sq[sq_head_idx].n = writing
  /\ \A j, k \in 1 .. Len(written) : j < k => written[j] < written[k]

(* A committed store stays in the queue until it is written: no flush,     *)
(* discard or reuse of a slot drops it, and the queue holds nothing else   *)
(* than the stores in flight and the committed ones.                       *)
CommittedStoresKept ==
  [][\A i \in Sq : sq[i].valid /\ sq[i].committed =>
       \/ \E j \in Sq : sq'[j].valid /\ sq'[j].n = sq[i].n
       \/ Len(written') > 0 /\ written'[Len(written')] = sq[i].n]_lsqVars

(* A load completes once, under its own tag and with its own data (an L0   *)
(* hit with the 0 the model leaves there), although a squashed load's      *)
(* response is still to come, a slot is reused or an atomic holds the      *)
(* value it read.                                                          *)
LoadsCompleteOnceWithOwnData ==
  /\ \A k \in 1 .. Len(delivered) :
       /\ delivered[k][3] \in {0, delivered[k][2]}
       /\ \A j \in 1 .. k - 1 : delivered[j][2] # delivered[k][2]
  /\ \A i \in Lq : lq[i].valid => ~Completed(lq[i].n) /\ \E k \in 1 .. Len(inflight) : inflight[k] = lq[i].n
  /\ cdb_stage.valid => \E k \in 1 .. Len(inflight) : inflight[k] = cdb_stage.n /\ TagOf(k) = cdb_stage.tag

=============================================================================
