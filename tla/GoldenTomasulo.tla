---------------------------- MODULE GoldenTomasulo ----------------------------
(***************************************************************************)
(* The golden model the wrapper's tests compare the RTL with: a reorder    *)
(* buffer, a register alias table and reservation stations in Python, and  *)
(* the composition that forwards each call to them.                        *)
(*                                                                         *)
(*   verif/cocotb_tests/tomasulo/reorder_buffer/reorder_buffer_model.py    *)
(*   verif/cocotb_tests/tomasulo/register_alias_table/rat_model.py         *)
(*   verif/cocotb_tests/tomasulo/reservation_station/rs_model.py           *)
(*   verif/cocotb_tests/tomasulo/tomasulo_wrapper/tomasulo_model.py        *)
(*                                                                         *)
(* An action is one call sequence of a test.  An instruction is its tag    *)
(* and the epoch bit its entry toggles at allocation; the value it         *)
(* produces is represented by the instruction itself.                      *)
(***************************************************************************)
EXTENDS RobTag, Sequences, FiniteSets

CONSTANTS NumCheckpoints, RsDepth  \* RsDepth: station -> RS_DEPTHS

ASSUME GoldenAssumption == NumCheckpoints \in Nat \ {0}

VARIABLES
  workload,        \* what this test does: [unit, program, masks, strict, faults]
  pos,             \* how much of its program it has dispatched
  entries, head_ptr, tail_ptr, serial_state,  \* ReorderBufferModel
  rat, checkpoints,                           \* RATModel
  rs, alloc_blocked,                          \* RSModel, per station
  epoch,           \* the epoch bits the bench keeps, a set of tags
  executing,       \* issued instructions whose results are still to come
  raised           \* an exception of the model has ended the test

robVars == << entries, head_ptr, tail_ptr, serial_state >>
ratVars == << rat, checkpoints >>
rsVars  == << rs, alloc_blocked >>
coreVars == << workload, pos, robVars, ratVars, rsVars, epoch, executing, raised >>

Reg        == {"x0", "x1", "f0"}
Station    == {"INT", "MEM"}
Checkpoint == 0 .. NumCheckpoints - 1

ASSUME NoNameIsNone == None \notin Reg /\ None \notin Checkpoint

Class      == {"int", "store", "branch", "jal", "csr", "fence", "wfi", "mret"}
Serial     == {"IDLE", "WAIT_SQ", "CSR_EXEC", "MRET_EXEC", "WFI_WAIT", "TRAP_WAIT"}

-----------------------------------------------------------------------------
(* ReorderBufferModel: pointers and status.                                *)
head_idx   == head_ptr % Depth
tail_idx   == tail_ptr % Depth
head_entry == entries[head_idx]
full       == tail_ptr # head_ptr /\ tail_idx = head_idx
empty      == tail_ptr = head_ptr
count      == (tail_ptr - head_ptr) % (2 * Depth)

IdOf(t) == [tag |-> t, epoch |-> entries[t].epoch]

(* The tag of the window's instruction i, oldest first.                    *)
Window(i) == (head_idx + i - 1) % Depth

FreshEntry(cls, dest, e, ckpt) ==
  [valid |-> TRUE, done |-> cls \in {"jal", "wfi", "fence", "mret"}, exception |-> FALSE,
   cls |-> cls, dest |-> dest, mispredicted |-> FALSE, checkpoint |-> ckpt, epoch |-> e,
   value |-> IF cls = "jal" THEN [tag |-> tail_idx, epoch |-> e] ELSE None]

allocate(cls, dest, e, ckpt) ==
  /\ entries' = [entries EXCEPT ![tail_idx] = FreshEntry(cls, dest, e, ckpt)]
  /\ tail_ptr' = (tail_ptr + 1) % (2 * Depth)

(* cdb_write raises on an invalid entry, which fu_complete swallows.       *)
cdb_write(t, value, exc) ==
  IF entries[t].valid /\ ~entries[t].done
  THEN [entries EXCEPT ![t].done = TRUE, ![t].value = value, ![t].exception = exc]
  ELSE entries

store_complete(t) ==
  IF entries[t].valid THEN [entries EXCEPT ![t].done = TRUE] ELSE entries

branch_update(t, mispredicted) ==
  [entries EXCEPT ![t].mispredicted = mispredicted, ![t].done = TRUE]

(* _check_serial_stall on a done head: whether it stalls, and the next     *)
(* serial state.  go is the input that the state or the class consults.    *)
StallIgnoresFaults(state, e, go) ==  \* mutant: a faulting head does not wait for the trap
  LET waits == CASE e.cls = "wfi"   /\ ~go -> "WFI_WAIT"
                 [] e.cls = "csr"          -> "CSR_EXEC"
                 [] e.cls = "fence" /\ ~go -> "WAIT_SQ"
                 [] e.cls = "mret"         -> "MRET_EXEC"
                 [] OTHER                  -> "IDLE"
  IN IF state = "IDLE" THEN [stall |-> waits # "IDLE", next |-> waits]
     ELSE [stall |-> ~go, next |-> IF go THEN "IDLE" ELSE state]

_check_serial_stall(state, e, go) ==
  LET waits == IF e.exception THEN "TRAP_WAIT"
               ELSE CASE e.cls = "wfi"   /\ ~go -> "WFI_WAIT"
                      [] e.cls = "csr"          -> "CSR_EXEC"
                      [] e.cls = "fence" /\ ~go -> "WAIT_SQ"
                      [] e.cls = "mret"         -> "MRET_EXEC"
                      [] OTHER                  -> "IDLE"
  IN IF state = "IDLE" THEN [stall |-> waits # "IDLE", next |-> waits]
     ELSE [stall |-> ~go, next |-> IF go THEN "IDLE" ELSE state]

(* flush_partial invalidates from flush_tag + 1 up to the tail index, and  *)
(* moves the tail by the age of flush_tag.                                 *)
flush_age(flush_tag) == (flush_tag - head_idx) % Depth

Killed(flush_tag) ==
  {(flush_tag + 1 + i) % Depth : i \in 0 .. ((tail_idx - flush_tag - 1) % Depth) - 1}

FlushedTail(flush_tag) == (head_ptr + flush_age(flush_tag) + 1) % (2 * Depth)

flush_partial(es, flush_tag) ==
  [t \in Tag |-> IF t \in Killed(flush_tag) THEN [es[t] EXCEPT !.valid = FALSE] ELSE es[t]]

-----------------------------------------------------------------------------
(* RATModel.  MASK_AGE has one bit more than a tag.                        *)
Lookup(r) == IF r # "x0" /\ rat[r].valid THEN {rat[r].tag} ELSE {}

rename(table, r, t) ==
  IF r \in {"x0", None} THEN table ELSE [table EXCEPT ![r] = [valid |-> TRUE, tag |-> t, epoch |-> 0]]

rat_commit(r, t) ==
  IF r \notin {"x0", None} /\ rat[r].valid /\ rat[r].tag = t
  THEN [rat EXCEPT ![r].valid = FALSE] ELSE rat

(* The lowest free checkpoint slot.                                        *)
checkpoint_available ==
  {c \in Checkpoint : /\ ~checkpoints[c].valid
                      /\ \A d \in 0 .. c - 1 : checkpoints[d].valid}

Bit(S, t) == IF t \in S THEN 1 ELSE 0

checkpoint_save(table, t, epochs) ==
  [valid |-> TRUE, branch_tag |-> t, branch_epoch |-> 1 - Bit(epochs, t),
   rat |-> [r \in Reg |-> [table[r] EXCEPT !.epoch = Bit(epochs, table[r].tag)]]]

_restored_tag_still_live(image, slot, valid, epochs, head, check_epochs) ==
  /\ slot.branch_tag \in valid /\ image.tag \in valid
  /\ check_epochs => /\ Bit(epochs, slot.branch_tag) = slot.branch_epoch
                     /\ Bit(epochs, image.tag) = image.epoch
  /\ (image.tag - head) % (2 * Depth) < (slot.branch_tag - head) % (2 * Depth)

checkpoint_restore(slot, valid, epochs, head, check_epochs) ==
  [r \in Reg |->
     [slot.rat[r] EXCEPT !.valid = /\ slot.rat[r].valid
                                   /\ _restored_tag_still_live(slot.rat[r], slot, valid, epochs,
                                                               head, check_epochs)]]

-----------------------------------------------------------------------------
(* RSModel.                                                                *)
is_ready(e) == e.valid /\ \A s \in {1, 2} : e.src[s].ready

_find_free(st) ==
  {i \in 0 .. RsDepth[st] - 1 :
     /\ ~rs[st][i].valid /\ i \notin alloc_blocked[st]
     /\ \A j \in 0 .. i - 1 : rs[st][j].valid \/ j \in alloc_blocked[st]}

peek_issue(st) ==
  {i \in 0 .. RsDepth[st] - 1 : is_ready(rs[st][i]) /\ \A j \in 0 .. i - 1 : ~is_ready(rs[st][j])}

SnoopFirst(t, value) ==  \* mutant: a broadcast wakes the first source only
  [st \in Station |-> [i \in 0 .. RsDepth[st] - 1 |->
     LET e == rs[st][i] IN
       IF e.valid /\ ~e.src[1].ready /\ e.src[1].tag = t
       THEN [e EXCEPT !.src[1].ready = TRUE, !.src[1].value = value] ELSE e]]

cdb_snoop(t, value) ==
  [st \in Station |-> [i \in 0 .. RsDepth[st] - 1 |->
     LET e == rs[st][i]
         wakes(s) == e.valid /\ ~e.src[s].ready /\ e.src[s].tag = t
     IN [e EXCEPT !.src = [s \in {1, 2} |->
           IF wakes(s) THEN [e.src[s] EXCEPT !.ready = TRUE, !.value = value] ELSE e.src[s]]]]]

_should_flush_entry(t, flush_tag, head) == (t - head) % Depth > (flush_tag - head) % Depth

partial_flush(flush_tag, head) ==
  [st \in Station |-> [i \in 0 .. RsDepth[st] - 1 |->
     IF _should_flush_entry(rs[st][i].rob_tag, flush_tag, head)
     THEN [rs[st][i] EXCEPT !.valid = FALSE] ELSE rs[st][i]]]

-----------------------------------------------------------------------------
(* TomasuloModel, driven by a test.                                        *)

(* The youngest instruction of the window that writes r.                   *)
Producers(r) == {t \in Tag : /\ (t - head_idx) % Depth < count
                             /\ entries[t].dest = r /\ r # "x0"}
Youngest(r) ==
  IF Producers(r) = {} THEN None
  ELSE IdOf(CHOOSE t \in Producers(r) :
              \A u \in Producers(r) : (u - head_idx) % Depth <= (t - head_idx) % Depth)

(* A source as the test drives it: the register file, a finished producer, *)
(* or the tag to wait for.  want records the producer it should be.        *)
Source(r) ==
  LET busy == {t \in Lookup(r) : ~entries[t].done} IN
    [ready |-> busy = {},
     tag   |-> IF Lookup(r) = {} THEN 0 ELSE CHOOSE t \in Lookup(r) : TRUE,
     value |-> IF Lookup(r) = {} \/ busy # {} THEN None
               ELSE entries[CHOOSE t \in Lookup(r) : TRUE].value,
     want  |-> Youngest(r)]

StationOf(cls) == IF cls = "store" THEN {"MEM"}
                  ELSE IF cls \in {"int", "branch", "csr"} THEN {"INT"} ELSE {}

NoEntry == [valid |-> FALSE, rob_tag |-> 0, epoch |-> 0,
            src |-> [s \in {1, 2} |-> [ready |-> FALSE, tag |-> 0, value |-> None, want |-> None]]]

(* dispatch, then rs_dispatch with the sources looked up before the rename. *)
RsDispatch(st, t, e, srcs) ==
  \E i \in _find_free(st) :
    rs' = [rs EXCEPT ![st][i] = [valid |-> TRUE, rob_tag |-> t, epoch |-> e,
                                 src |-> [s \in {1, 2} |-> Source(srcs[s])]]]

Dispatch(cls, dest, srcs) ==
  LET t == tail_idx
      e == 1 - Bit(epoch, t)
      ckpt == IF cls = "branch" THEN checkpoint_available ELSE {}
      table == rename(rat, dest, t)
  IN /\ ~full
     /\ cls = "branch" => ckpt # {}
     /\ allocate(cls, dest, e, IF ckpt = {} THEN None ELSE CHOOSE c \in ckpt : TRUE)
     /\ rat' = table
     /\ checkpoints' = [c \in Checkpoint |->
          IF c \in ckpt
          THEN checkpoint_save(table, t, IF workload.masks THEN epoch ELSE {}) ELSE checkpoints[c]]
     /\ \/ StationOf(cls) = {} /\ UNCHANGED rs
        \/ \E st \in StationOf(cls) : RsDispatch(st, t, e, srcs)
     /\ epoch' = IF e = 1 THEN epoch \cup {t} ELSE epoch \ {t}
     /\ executing' = {x \in executing : x.tag # t}
     /\ UNCHANGED << head_ptr, serial_state, alloc_blocked, raised >>

Issue(st) ==
  \E i \in peek_issue(st) :
    /\ rs' = [rs EXCEPT ![st][i].valid = FALSE]
    /\ alloc_blocked' = IF workload.strict
                        THEN [alloc_blocked EXCEPT ![st] = @ \cup {i}] ELSE alloc_blocked
    /\ executing' = executing \cup {[tag |-> rs[st][i].rob_tag, epoch |-> rs[st][i].epoch]}
    /\ UNCHANGED << robVars, ratVars, epoch, raised >>

Tick ==
  /\ alloc_blocked' = [st \in Station |-> {}]
  /\ UNCHANGED << robVars, ratVars, rs, epoch, executing, raised >>

(* A late result of a squashed instruction finds its entry invalid: the    *)
(* functional units drop it before the tag is used again.                  *)
fu_complete(x, exc) ==
  /\ exc => workload.faults
  /\ ~entries[x.tag].valid \/ entries[x.tag].cls \in {"int", "csr"}
  /\ entries' = cdb_write(x.tag, x, exc)
  /\ rs' = cdb_snoop(x.tag, x)
  /\ executing' = executing \ {x}
  /\ UNCHANGED << head_ptr, tail_ptr, serial_state, ratVars, alloc_blocked, epoch, raised >>

StoreComplete(x) ==
  /\ entries[x.tag].valid /\ entries[x.tag].cls = "store"
  /\ entries' = store_complete(x.tag)
  /\ executing' = executing \ {x}
  /\ UNCHANGED << head_ptr, tail_ptr, serial_state, ratVars, rsVars, epoch, raised >>

BranchUpdate(x) ==
  /\ entries[x.tag].valid /\ entries[x.tag].cls = "branch"
  /\ entries' = branch_update(x.tag, FALSE)
  /\ executing' = executing \ {x}
  /\ UNCHANGED << head_ptr, tail_ptr, serial_state, ratVars, rsVars, epoch, raised >>

(* A misprediction: branch_update, then misprediction_recovery, which      *)
(* hands checkpoint_restore no masks; the tests that call it have retired  *)
(* nothing yet.  The alias table's own bench passes the masks.  The test   *)
(* frees the checkpoints of the squashed branches.                         *)
RecoveredRat(c) ==
  IF workload.masks
  THEN checkpoint_restore(checkpoints[c], {t \in Tag : entries[t].valid}, epoch, head_idx, TRUE)
  ELSE checkpoint_restore(checkpoints[c], Tag, {}, 0, FALSE)

misprediction_recovery(x) ==
  LET younger(d) == /\ checkpoints[d].valid
                    /\ _should_flush_entry(checkpoints[d].branch_tag, x.tag, head_idx)
  IN /\ entries[x.tag].valid /\ entries[x.tag].cls = "branch"
     /\ workload.masks \/ head_ptr = 0
     /\ entries' = flush_partial(branch_update(x.tag, TRUE), x.tag)
     /\ tail_ptr' = FlushedTail(x.tag)
     /\ rs' = partial_flush(x.tag, head_idx)
     /\ rat' = RecoveredRat(entries[x.tag].checkpoint)
     /\ checkpoints' = [d \in Checkpoint |-> [checkpoints[d] EXCEPT !.valid = @ /\ ~younger(d)]]
     /\ executing' = executing \ {x}
     /\ UNCHANGED << head_ptr, serial_state, alloc_blocked, epoch, raised >>

(* try_commit: can_commit(), and when it says yes commit(), which asks     *)
(* can_commit() again and raises when the answer has changed.  The test    *)
(* frees the checkpoint of a committed branch.                             *)
can_commit(state, go) ==
  IF empty \/ ~head_entry.valid \/ ~head_entry.done THEN [stall |-> TRUE, next |-> state]
  ELSE _check_serial_stall(state, head_entry, go)

commit ==
  /\ entries' = [entries EXCEPT ![head_idx].valid = FALSE]
  /\ head_ptr' = (head_ptr + 1) % (2 * Depth)
  /\ rat' = rat_commit(head_entry.dest, head_idx)
  /\ checkpoints' = [c \in Checkpoint |-> [checkpoints[c] EXCEPT !.valid =
                       @ /\ c # head_entry.checkpoint]]

try_commit(go) ==
  LET once  == can_commit(serial_state, go)
      again == can_commit(once.next, go)
  IN /\ serial_state' = IF once.stall THEN once.next ELSE again.next
     /\ raised' = (~once.stall /\ again.stall)
     /\ IF once.stall \/ again.stall THEN UNCHANGED << entries, head_ptr, rat, checkpoints >>
        ELSE commit
     /\ UNCHANGED << tail_ptr, rsVars, epoch, executing >>

flush_all ==
  /\ entries' = [t \in Tag |-> [entries[t] EXCEPT !.valid = FALSE]]
  /\ tail_ptr' = head_ptr
  /\ serial_state' = "IDLE"
  /\ rat' = [r \in Reg |-> [rat[r] EXCEPT !.valid = FALSE]]
  /\ checkpoints' = [c \in Checkpoint |-> [checkpoints[c] EXCEPT !.valid = FALSE]]
  /\ rs' = [st \in Station |-> [i \in 0 .. RsDepth[st] - 1 |-> [rs[st][i] EXCEPT !.valid = FALSE]]]
  /\ UNCHANGED << head_ptr, alloc_blocked, epoch, executing, raised >>

CoreInit ==
  /\ pos = 0
  /\ entries = [t \in Tag |-> [FreshEntry("int", None, 0, None) EXCEPT !.valid = FALSE]]
  /\ head_ptr = 0 /\ tail_ptr = 0 /\ serial_state = "IDLE"
  /\ rat = [r \in Reg |-> [valid |-> FALSE, tag |-> 0, epoch |-> 0]]
  /\ checkpoints = [c \in Checkpoint |-> [valid |-> FALSE, branch_tag |-> 0, branch_epoch |-> 0,
                                          rat |-> rat]]
  /\ rs = [st \in Station |-> [i \in 0 .. RsDepth[st] - 1 |-> NoEntry]]
  /\ alloc_blocked = [st \in Station |-> {}]
  /\ epoch = {} /\ executing = {} /\ raised = FALSE

TestStep ==
  \/ \E st \in Station : Issue(st)
  \/ Tick
  \/ \E x \in executing : \/ \E exc \in BOOLEAN : fu_complete(x, exc)
                          \/ StoreComplete(x)
                          \/ BranchUpdate(x)
                          \/ misprediction_recovery(x)
  \/ \E go \in BOOLEAN : try_commit(go)
  \/ flush_all

CoreNext ==
  /\ ~raised
  /\ UNCHANGED workload
  /\ \/ /\ pos < Len(workload.program) /\ pos' = pos + 1
        /\ LET i == workload.program[pos + 1] IN Dispatch(i.cls, i.dest, i.srcs)
     \/ UNCHANGED pos /\ TestStep

-----------------------------------------------------------------------------
(* Every variable has its type.                                            *)
CoreTypeOK ==
  /\ head_ptr \in Ptr /\ tail_ptr \in Ptr /\ serial_state \in Serial
  /\ \A t \in Tag : entries[t].cls \in Class /\ entries[t].value \in Id \cup {None}
  /\ rat \in [Reg -> [valid : BOOLEAN, tag : Tag, epoch : {0, 1}]]
  /\ pos \in 0 .. Len(workload.program)
  /\ executing \subseteq Id /\ epoch \subseteq Tag /\ raised \in BOOLEAN
  /\ alloc_blocked \in [Station -> SUBSET Nat]

(* The valid entries are exactly the pointers' window, so the full, empty  *)
(* and count that the status monitor compares with the DUT describe what   *)
(* is stored, through every wrap, recovery and flush.                      *)
StatusDescribesEntries ==
  /\ count <= Depth
  /\ \A t \in Tag : entries[t].valid <=> (t - head_idx) % Depth < count

(* A renamed register names the youngest instruction in flight that writes *)
(* it, and one that is not renamed has none, also after a checkpoint was   *)
(* restored to a table that commits and reused tags have outdated.         *)
RatNamesYoungestWriter ==
  workload.unit = "core" => \A r \in Reg :
    Lookup(r) = IF Youngest(r) = None THEN {} ELSE {Youngest(r).tag}

(* An operand in a reservation station holds the value of the producer     *)
(* that program order gives it, or waits for a live producer that has yet  *)
(* to broadcast: no wakeup is lost and none comes from another owner.      *)
OperandsHaveTheirProducer ==
  \A st \in Station : \A i \in 0 .. RsDepth[st] - 1, s \in {1, 2} :
    LET e == rs[st][i]
        src == e.src[s]
    IN e.valid =>
         IF src.ready THEN src.value = src.want
         ELSE /\ src.want # None /\ src.tag = src.want.tag
              /\ entries[src.tag].valid /\ ~entries[src.tag].done
              /\ entries[src.tag].epoch = src.want.epoch

(* commit() refuses an answer of can_commit() only for a head that was     *)
(* waiting on a CSR, an MRET or a trap acknowledgement: asking a second    *)
(* time starts those handshakes again.  Every other head retires.          *)
CommitRefusesOnlyHandshakes ==
  raised => head_entry.exception \/ head_entry.cls \in {"csr", "mret"}

(* The golden buffer keeps the promise the RTL's reorder buffer is shown   *)
(* to keep.                                                                *)
WindowOf == [i \in 1 .. count |-> LET e == entries[Window(i)] IN
                                    [cls |-> e.cls, done |-> e.done, exception |-> e.exception]]
Abstract == INSTANCE InstructionWindow WITH window <- WindowOf, Capacity <- Depth, Alone <- {}
ImplementsInstructionWindow == Abstract!Spec

=============================================================================
