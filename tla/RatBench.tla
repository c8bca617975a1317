------------------------------- MODULE RatBench -------------------------------
(***************************************************************************)
(* The alias table's own bench: RATInterface beside register_alias_table.  *)
(*                                                                         *)
(*   verif/cocotb_tests/tomasulo/register_alias_table/rat_interface.py     *)
(*   hw/rtl/cpu_and_mem/cpu/tomasulo/register_alias_table/                 *)
(*                                                register_alias_table.sv  *)
(*                                                                         *)
(* There is no reorder buffer in this bench.  The interface makes up its   *)
(* valid and epoch vectors from what the test has driven, with a shadow    *)
(* RATModel (rat, checkpoints) and a count of the uses of every tag; the   *)
(* table reads them.  A transaction is one step: its inputs are driven on  *)
(* a falling edge and recorded as pending, the rising edge clocks them     *)
(* into the table, and the first clear_ call on the next falling edge      *)
(* applies everything pending to the shadow.  Nothing runs in between, and *)
(* the vectors the table reads are those of before the transaction.        *)
(***************************************************************************)
EXTENDS GoldenTomasulo

VARIABLES
  refcounts,     \* _rob_tag_refcounts; epoch is _rob_entry_epoch_mask
  transactions,  \* what the test still has to do
  dut            \* the registers and the RAM of register_alias_table.sv

ratBenchVars == << refcounts, transactions, dut >>

RenameReg == Reg \ {"x0"}

(* The inputs of a cycle, which are also the _pending_ fields.             *)
Nothing == [rename |-> None, rename_2 |-> None, commit |-> None, commit_2 |-> None,
            save |-> None, restore |-> None, free |-> None, bulk |-> {}, flush |-> FALSE]

rob_entry_valid_mask == {t \in Tag : refcounts[t] > 0}
rob_head_tag == 0  \* the interface never advances it

-----------------------------------------------------------------------------
(* The table.                                                              *)

DutLookup(r) ==
  IF r # "x0" /\ dut.rat[r].valid /\ dut.rat[r].tag \in rob_entry_valid_mask
  THEN {dut.rat[r].tag} ELSE {}

ckpt_rat_wr_data(in) ==
  [r \in Reg |->
     IF in.save.slot2 /\ in.rename # None /\ in.rename.reg = r /\ r # "x0"
     THEN [valid |-> TRUE, epoch |-> 1 - Bit(epoch, in.rename.tag), tag |-> in.rename.tag]
     ELSE [valid |-> dut.rat[r].valid, epoch |-> Bit(epoch, dut.rat[r].tag),
           tag   |-> dut.rat[r].tag]]

restored_tag_still_live(c, image) ==
  LET meta == dut.meta[c]
      age(t) == (t - rob_head_tag) % (2 * Depth)
  IN /\ meta.tag \in rob_entry_valid_mask /\ Bit(epoch, meta.tag) = meta.epoch
     /\ image.tag \in rob_entry_valid_mask /\ Bit(epoch, image.tag) = image.epoch
     /\ age(image.tag) < age(meta.tag)

Clears(in, r) ==
  /\ r # "x0" /\ dut.rat[r].valid
  /\ \E c \in {in.commit, in.commit_2} \ {None} :
       c.dest_valid /\ c.reg = r /\ c.tag = dut.rat[r].tag

NextTable(in) ==
  [r \in Reg |->
     LET old == dut.rat[r] IN
     IF in.restore # None
     THEN LET image == dut.image[in.restore][r] IN
            [valid |-> image.valid /\ restored_tag_still_live(in.restore, image), tag |-> image.tag]
     ELSE IF in.flush THEN [old EXCEPT !.valid = FALSE]
     ELSE IF in.rename_2 # None /\ in.rename_2.reg = r THEN [valid |-> TRUE, tag |-> in.rename_2.tag]
     ELSE IF in.rename # None /\ in.rename.reg = r THEN [valid |-> TRUE, tag |-> in.rename.tag]
     ELSE [old EXCEPT !.valid = @ /\ ~Clears(in, r)]]

checkpoint_valid_next(in) ==
  IF in.flush THEN {}
  ELSE (dut.valid \ (in.bulk \cup {in.free}))
         \cup (IF in.save # None THEN {in.save.id} ELSE {})

RatEdge(in) ==
  LET used == checkpoint_valid_next(in)
      writes(c) == in.save # None /\ ~in.flush /\ in.save.id = c
  IN dut' =
       [rat   |-> NextTable(in),
        valid |-> used,
        image |-> [c \in Checkpoint |-> IF writes(c) THEN ckpt_rat_wr_data(in) ELSE dut.image[c]],
        meta  |-> [c \in Checkpoint |->
                     IF writes(c) THEN [epoch |-> 1 - Bit(epoch, in.save.tag), tag |-> in.save.tag]
                     ELSE dut.meta[c]],
        alloc |-> {c \in Checkpoint \ used : \A d \in Checkpoint \ used : c <= d}]

-----------------------------------------------------------------------------
(* The interface: _apply_pending_cycle_updates.                            *)

(* A commit, of [rat, counts]: the mapping is cleared and the tag counted  *)
(* down only when the shadow still names it.                               *)
AppliedCommit(s, c) ==
  IF /\ c # None /\ c.dest_valid /\ c.reg # "x0"
     /\ s.rat[c.reg].valid /\ s.rat[c.reg].tag = c.tag
  THEN [rat    |-> [s.rat EXCEPT ![c.reg].valid = FALSE],
        counts |-> [s.counts EXCEPT ![c.tag] = IF @ > 0 THEN @ - 1 ELSE @]]
  ELSE s

Renamed(old, x) == IF x = None THEN old ELSE rename(old, x.reg, x.tag)
Counted(counts, x) ==
  IF x # None /\ x.reg # "x0" THEN [counts EXCEPT ![x.tag] = @ + 1] ELSE counts

AppliedRenames(s, p) ==
  LET collides == p.rename # None /\ p.rename_2 # None /\ p.rename.reg = p.rename_2.reg
  IN [rat    |-> Renamed(IF collides THEN s.rat ELSE Renamed(s.rat, p.rename), p.rename_2),
      counts |-> Counted(Counted(s.counts, p.rename), p.rename_2)]

NoOverlay(p) == checkpoint_save(rat, p.save.tag, epoch)  \* mutant: without the slot-1 rename

(* The image of a slot-2 branch has the slot-1 rename laid over it.        *)
SavedImage(p) ==
  LET image == checkpoint_save(rat, p.save.tag, epoch) IN
  IF p.save.slot2 /\ p.rename # None /\ p.rename.reg # "x0"
  THEN [image EXCEPT !.rat[p.rename.reg] =
          [valid |-> TRUE, tag |-> p.rename.tag, epoch |-> 1 - Bit(epoch, p.rename.tag)]]
  ELSE image

Owner(p) == IF p.save = None THEN {} ELSE {p.save.tag}

_mark_checkpoint_owner_allocated(p) ==
  [counts |-> [t \in Tag |-> refcounts[t] + (IF t \in Owner(p) THEN 1 ELSE 0)],
   epoch  |-> (epoch \ Owner(p)) \cup (Owner(p) \ epoch)]

_apply_pending_cycle_updates(p) ==
  LET marked == _mark_checkpoint_owner_allocated(p)
      start  == [rat |-> rat, counts |-> marked.counts]
      done   == AppliedRenames(AppliedCommit(AppliedCommit(start, p.commit), p.commit_2), p)
      frees(c) == c \in p.bulk \cup {p.free}
      saves(c) == p.save # None /\ p.save.id = c
  IN IF p.flush
     THEN /\ rat' = [r \in Reg |-> [rat[r] EXCEPT !.valid = FALSE]]
          /\ checkpoints' = [c \in Checkpoint |-> [checkpoints[c] EXCEPT !.valid = FALSE]]
          /\ refcounts' = [t \in Tag |-> 0]
          /\ UNCHANGED epoch
     ELSE IF p.restore # None
     THEN /\ rat' = checkpoint_restore(checkpoints[p.restore], rob_entry_valid_mask, epoch,
                                       rob_head_tag, TRUE)
          /\ UNCHANGED << checkpoints, refcounts, epoch >>
     ELSE /\ rat' = done.rat /\ refcounts' = done.counts /\ epoch' = marked.epoch
          /\ checkpoints' = [c \in Checkpoint |->
               IF saves(c) THEN SavedImage(p)
               ELSE [checkpoints[c] EXCEPT !.valid = @ /\ ~frees(c)]]

-----------------------------------------------------------------------------
(* The tests.  A cycle carries the operations that some test drives        *)
(* together, within what the table asserts of its inputs: no rename with a *)
(* flush or a restore, a save into a free slot, a restore from a valid one.*)
(* A tag is not given to a register while another register's mapping, in   *)
(* the table or in a saved image, names it.                                *)

Saved == {c \in Checkpoint : checkpoints[c].valid}

Names(r, t) ==
  \/ rat[r].valid /\ rat[r].tag = t
  \/ \E c \in Saved : checkpoints[c].rat[r].valid /\ checkpoints[c].rat[r].tag = t

Free(r, t) == \A q \in Reg \ {r} : ~Names(q, t)

Renames == {[reg |-> r, tag |-> t] : r \in RenameReg, t \in Tag}
Drawn   == {x \in Renames : Free(x.reg, x.tag)}
Pairs   == {x \in Drawn \X Drawn : x[1].tag # x[2].tag}
Commits == {[reg |-> r, tag |-> t, dest_valid |-> TRUE] : r \in RenameReg, t \in Tag}
           \cup {[reg |-> "x0", tag |-> 0, dest_valid |-> TRUE], [reg |-> "x1", tag |-> 0, dest_valid |-> FALSE]}
Some(S) == S \cup {None}
Saves(slot2) ==
  {[id |-> c, tag |-> t, slot2 |-> slot2] : c \in checkpoint_available, t \in Tag}

Cycle(p) == RatEdge(p) /\ _apply_pending_cycle_updates(p)

Transaction ==
  /\ transactions # << >> /\ transactions' = Tail(transactions)
  /\ LET kind == Head(transactions) IN
     \/ kind = "rename" /\ \E x \in Drawn : Cycle([Nothing EXCEPT !.rename = x])
     \/ kind = "rename_2" /\ \E x \in Drawn : Cycle([Nothing EXCEPT !.rename_2 = x])
     \/ kind = "bundle" /\ \E x \in Pairs : Cycle([Nothing EXCEPT !.rename = x[1], !.rename_2 = x[2]])
     \/ /\ kind = "commit"
        /\ \E c \in Commits, d \in Some(Commits) : Cycle([Nothing EXCEPT !.commit = c, !.commit_2 = d])
     \/ /\ kind = "replace"
        /\ \E x \in Drawn, c \in Commits :
             \/ Cycle([Nothing EXCEPT !.rename = x, !.commit = c])
             \/ Cycle([Nothing EXCEPT !.rename = x, !.commit_2 = c])
     \/ /\ kind = "save"
        /\ \E s \in Saves(FALSE), c \in Some(Saved \cup checkpoint_available) :
             Cycle([Nothing EXCEPT !.save = s, !.free = c])
     \/ /\ kind = "save_2"
        /\ \E x \in Pairs, s \in Saves(TRUE) :
             Cycle([Nothing EXCEPT !.rename = x[1], !.rename_2 = x[2], !.save = s])
     \/ kind = "free" /\ \E c \in Saved : Cycle([Nothing EXCEPT !.free = c])
     \/ kind = "free" /\ \E m \in SUBSET Checkpoint \ {{}} : Cycle([Nothing EXCEPT !.bulk = m])
     \/ /\ kind = "restore"
        /\ \E c \in Saved, d \in Some(Commits) : Cycle([Nothing EXCEPT !.restore = c, !.commit = d])
     \/ /\ kind = "flush"
        /\ \E d \in Some(Commits), s \in Some(Saves(FALSE)), c \in Some(Saved) :
             Cycle([Nothing EXCEPT !.flush = TRUE, !.commit = d, !.save = s, !.free = c])

add_rob_entry_epoch_bits ==
  /\ transactions # << >> /\ Head(transactions) = "epoch"
  /\ \E t \in Tag : epoch' = epoch \cup {t}
  /\ transactions' = Tail(transactions)
  /\ UNCHANGED << rat, checkpoints, refcounts, dut >>

RatBenchInit ==
  /\ refcounts = [t \in Tag |-> 0]
  /\ dut = [rat   |-> [r \in Reg |-> [valid |-> FALSE, tag |-> 0]],
            valid |-> {},
            image |-> [c \in Checkpoint |-> [r \in Reg |-> [valid |-> FALSE, epoch |-> 0, tag |-> 0]]],
            meta  |-> [c \in Checkpoint |-> [epoch |-> 0, tag |-> 0]],
            alloc |-> {0}]

RatBenchNext == Transaction \/ add_rob_entry_epoch_bits

RatBenchSpec ==
  CoreInit /\ RatBenchInit /\ [][RatBenchNext]_<< ratVars, epoch, ratBenchVars >>

-----------------------------------------------------------------------------
SameMapping(mine, its) == (mine.valid <=> its.valid) /\ (mine.valid => mine.tag = its.tag)

(* Between transactions the shadow of the interface is the table: the same *)
(* mappings, checkpoints and images, and the same slot offered next.  The  *)
(* interface derives the table's inputs from it (rat_interface.py:259-381  *)
(* against register_alias_table.sv).                                       *)
ShadowIsTheTable ==
  workload.unit = "rat" =>
    /\ \A r \in Reg : SameMapping(rat[r], dut.rat[r])
    /\ Saved = dut.valid /\ dut.alloc = checkpoint_available
    /\ \A c \in Saved :
         /\ dut.meta[c].tag = checkpoints[c].branch_tag
         /\ dut.meta[c].epoch = checkpoints[c].branch_epoch
         /\ \A r \in Reg : LET mine == checkpoints[c].rat[r] IN
              /\ SameMapping(mine, dut.image[c][r])
              /\ mine.valid => mine.epoch = dut.image[c][r].epoch

(* A lookup gives the test what the reference model gives it.  The table   *)
(* shows a mapping only while its tag is valid in the made-up vector, the  *)
(* model always: no tag may be counted down to zero while a mapping names  *)
(* it, whatever was overwritten, restored or committed twice in between.   *)
LookupsAgree == workload.unit = "rat" => \A r \in Reg : DutLookup(r) = Lookup(r)

(* A test of the alias table never fails for the bench's own sake: its     *)
(* shadow is the table, and a lookup in either gives the same.             *)
BenchAgreesWithTable == ShadowIsTheTable /\ LookupsAgree

=============================================================================
