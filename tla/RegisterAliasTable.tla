-------------------------- MODULE RegisterAliasTable --------------------------
(***************************************************************************)
(* The register alias table and its branch checkpoints.                    *)
(*                                                                         *)
(*   tomasulo/register_alias_table/register_alias_table.sv                 *)
(*   tomasulo/tomasulo_wrapper/commit_bus/commit_bus_pipeline.sv (commits) *)
(*   cpu_ooo/cpu_ooo.sv                               (rob_entry_epoch)    *)
(*                                                                         *)
(* The table is modelled at one architectural register: the entries of     *)
(* different registers never meet.  The classes in WritesReg have it as    *)
(* their destination.  Reading an entry that is renamed gives its tag.     *)
(***************************************************************************)
EXTENDS ReorderBuffer

CONSTANT NumCheckpoints

ASSUME CheckpointAssumption == NumCheckpoints \in Nat \ {0}

VARIABLES int_rat_valid, int_rat_tag,
          checkpoint_valid, checkpoint_available, checkpoint_alloc_id,
          ckpt_rat,         \* snapshot of the entry:   [valid, epoch, tag]
          ckpt_meta,        \* the branch it protects:  [epoch, tag]
          rob_entry_epoch,  \* toggles at every allocation of the ROB entry
          commit_q          \* tags of the registered commits that write the register

ratVars == << int_rat_valid, int_rat_tag, checkpoint_valid, checkpoint_available,
              checkpoint_alloc_id, ckpt_rat, ckpt_meta, rob_entry_epoch, commit_q >>

Checkpoint == 0 .. NumCheckpoints - 1
WritesReg  == {"int"}

Epoch(t) == t \in rob_entry_epoch

(* Where a source operand that names the register comes from: an in-flight *)
(* producer, or the register file ({}).                                    *)
Lookup == IF int_rat_valid /\ int_rat_tag \in rob_valid THEN {int_rat_tag} ELSE {}

(* The image a branch saves.  A branch in slot 2 sees the rename of slot 1 *)
(* of the same bundle, with the epoch that allocation is about to set.     *)
Snapshot(req) ==
  IF req.slot2 \in BranchClasses /\ req.slot1 \in WritesReg
  THEN [valid |-> TRUE, epoch |-> ~Epoch(TailIdx), tag |-> TailIdx]
  ELSE [valid |-> int_rat_valid, epoch |-> Epoch(int_rat_tag), tag |-> int_rat_tag]

(* Mutant: any valid producer is taken for the one in the image.           *)
RestoredTagValid(meta, image) == meta.tag \in rob_valid /\ image.tag \in rob_valid

RestoredTagStillLive(meta, image) ==
  /\ meta.tag \in rob_valid /\ Epoch(meta.tag) = meta.epoch
  /\ image.tag \in rob_valid /\ Epoch(image.tag) = image.epoch
  /\ PtrSub(image.tag, HeadIdx) < PtrSub(meta.tag, HeadIdx)

(* Which slot of the bundle saves a checkpoint, for which ROB entry.       *)
CheckpointSave(req) == {req.slot1, req.slot2} \cap BranchClasses # {}

CheckpointBranchTag(req) == IF req.slot2 \in BranchClasses THEN TailIdx2 ELSE TailIdx

(* The active entry: restore, full flush, rename (slot 2 first), commit.   *)
NextRat(req, flush_all, restore) ==
  LET image(c) == ckpt_rat[c] IN
  CASE restore # {} ->
         LET c == CHOOSE c \in restore : TRUE IN
           [valid |-> image(c).valid /\ RestoredTagStillLive(ckpt_meta[c], image(c)),
            tag   |-> image(c).tag]
    [] restore = {} /\ flush_all -> [valid |-> FALSE, tag |-> int_rat_tag]
    [] restore = {} /\ ~flush_all /\ req.slot2 \in WritesReg ->
         [valid |-> TRUE, tag |-> TailIdx2]
    [] restore = {} /\ ~flush_all /\ req.slot2 \notin WritesReg /\ req.slot1 \in WritesReg ->
         [valid |-> TRUE, tag |-> TailIdx]
    [] OTHER -> [valid |-> int_rat_valid /\ int_rat_tag \notin commit_q, tag |-> int_rat_tag]

NextCheckpointValid(req, flush_all, freed) ==
  IF flush_all THEN {}
  ELSE (checkpoint_valid \ freed)
         \cup (IF CheckpointSave(req) THEN {checkpoint_alloc_id} ELSE {})

(* What the priority encoder over the free checkpoints may give: the       *)
(* lowest of them, or 0 when there is none.                                *)
LowestFree(used) ==
  IF used = Checkpoint THEN {0}
  ELSE {c \in Checkpoint \ used : \A d \in Checkpoint \ used : c <= d}

RatInit ==
  /\ int_rat_valid = FALSE /\ int_rat_tag = 0
  /\ checkpoint_valid = {} /\ checkpoint_available = TRUE /\ checkpoint_alloc_id = 0
  /\ ckpt_rat = [c \in Checkpoint |-> [valid |-> FALSE, epoch |-> FALSE, tag |-> 0]]
  /\ ckpt_meta = [c \in Checkpoint |-> [epoch |-> FALSE, tag |-> 0]]
  /\ rob_entry_epoch = {} /\ commit_q = {}

(* One cycle.  alloc and committed are the ROB entries allocated and       *)
(* retired in it; freed are the checkpoints released by every channel.     *)
RatClock(req, flush_all, restore, freed, alloc, committed) ==
  LET used == NextCheckpointValid(req, flush_all, freed)
      rat  == NextRat(req, flush_all, restore)
  IN /\ int_rat_valid' = rat.valid /\ int_rat_tag' = rat.tag
     /\ checkpoint_valid' = used
     /\ checkpoint_available' = (used # Checkpoint)
     /\ checkpoint_alloc_id' \in LowestFree(used)
     /\ IF CheckpointSave(req) /\ ~flush_all
        THEN /\ ckpt_rat' = [ckpt_rat EXCEPT ![checkpoint_alloc_id] = Snapshot(req)]
             /\ ckpt_meta' = [ckpt_meta EXCEPT ![checkpoint_alloc_id] =
                                [epoch |-> ~Epoch(CheckpointBranchTag(req)),
                                 tag   |-> CheckpointBranchTag(req)]]
        ELSE UNCHANGED << ckpt_rat, ckpt_meta >>
     /\ rob_entry_epoch' = (rob_entry_epoch \ alloc) \cup (alloc \ rob_entry_epoch)
     /\ commit_q' = IF flush_all THEN {} ELSE {i \in committed : rob_class[i] \in WritesReg}

=============================================================================
