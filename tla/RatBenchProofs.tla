---------------------------- MODULE RatBenchProofs ----------------------------
(***************************************************************************)
(* The shadow of the alias table's bench is the table, for every depth of  *)
(* the reorder buffer and every number of checkpoints.  The vectors the    *)
(* interface makes up are part of the argument: a mapping, in the table or *)
(* in a saved image, is the only one to name its tag (OneNamer), so that   *)
(* counting a tag down at a commit takes it from no other mapping          *)
(* (CountsHold).                                                           *)
(***************************************************************************)
EXTENDS RatBench, TLAPS

Mapping == [valid : BOOLEAN, tag : Tag, epoch : {0, 1}]

Slot    == [valid : BOOLEAN, branch_tag : Tag, branch_epoch : {0, 1}, rat : [Reg -> Mapping]]

RatTypeOK ==
  /\ rat \in [Reg -> Mapping]
  /\ checkpoints \in [Checkpoint -> Slot]
  /\ refcounts \in [Tag -> Nat]
  /\ epoch \in SUBSET Tag
  /\ dut \in [rat : [Reg -> [valid : BOOLEAN, tag : Tag]], valid : SUBSET Checkpoint,
              image : [Checkpoint -> [Reg -> [valid : BOOLEAN, epoch : {0, 1}, tag : Tag]]],
              meta : [Checkpoint -> [epoch : {0, 1}, tag : Tag]], alloc : SUBSET Checkpoint]

(* The parts of ShadowIsTheTable.                                          *)
SameTable == \A r \in Reg : SameMapping(rat[r], dut.rat[r])

SameSlots == \A c \in Checkpoint : checkpoints[c].valid <=> c \in dut.valid

SameMeta == \A c \in Checkpoint : checkpoints[c].valid =>
  /\ dut.meta[c].tag = checkpoints[c].branch_tag
  /\ dut.meta[c].epoch = checkpoints[c].branch_epoch

SameImages == \A c \in Checkpoint, r \in Reg : checkpoints[c].valid =>
  /\ SameMapping(checkpoints[c].rat[r], dut.image[c][r])
  /\ checkpoints[c].rat[r].valid => checkpoints[c].rat[r].epoch = dut.image[c][r].epoch

SameOffer == dut.alloc = checkpoint_available

OneNamer == \A t \in Tag, q \in Reg, r \in Reg : Names(q, t) /\ Names(r, t) => q = r

CountsHold == \A r \in Reg : rat[r].valid => refcounts[rat[r].tag] > 0

RatInv ==
  /\ RatTypeOK
  /\ SameTable /\ SameSlots /\ SameMeta /\ SameImages /\ SameOffer
  /\ OneNamer /\ CountsHold

-----------------------------------------------------------------------------
(* What every transaction respects, whatever its kind.                     *)
IsInput(p) ==
  /\ p.rename \in Some(Drawn) /\ p.rename_2 \in Some(Drawn)
  /\ p.rename # None /\ p.rename_2 # None => p.rename.tag # p.rename_2.tag
  /\ p.commit \in Some(Commits) /\ p.commit_2 \in Some(Commits)
  /\ p.save \in Some(Saves(TRUE) \cup Saves(FALSE))
  /\ p.restore \in Some(Saved) /\ p.flush \in BOOLEAN
  /\ p.flush \/ p.restore # None => p.rename = None /\ p.rename_2 = None
  /\ p.restore # None => ~p.flush /\ p.save = None /\ p.free = None /\ p.bulk = {}

(* Every kind of transaction drives a legal input.                         *)
LEMMA TransactionIsLegal ==
  ASSUME Transaction
  PROVE  \E p : IsInput(p) /\ Cycle(p)
<1> DEFINE kind == Head(transactions)
<1> USE DEF IsInput, Some
<1>1. ASSUME NEW x \in Drawn
      PROVE  /\ IsInput([Nothing EXCEPT !.rename = x]) /\ IsInput([Nothing EXCEPT !.rename_2 = x])
             /\ \A c \in Commits : /\ IsInput([Nothing EXCEPT !.rename = x, !.commit = c])
                                   /\ IsInput([Nothing EXCEPT !.rename = x, !.commit_2 = c])
  BY DEF Nothing
<1>2. ASSUME NEW x \in Pairs
      PROVE  /\ IsInput([Nothing EXCEPT !.rename = x[1], !.rename_2 = x[2]])
             /\ \A s \in Saves(TRUE) :
                  IsInput([Nothing EXCEPT !.rename = x[1], !.rename_2 = x[2], !.save = s])
  BY DEF Nothing, Pairs
<1>3. ASSUME NEW c \in Commits, NEW d \in Some(Commits)
      PROVE  IsInput([Nothing EXCEPT !.commit = c, !.commit_2 = d])
  BY DEF Nothing
<1>4. ASSUME NEW s \in Saves(FALSE), NEW c
      PROVE  IsInput([Nothing EXCEPT !.save = s, !.free = c])
  BY DEF Nothing
<1>5. ASSUME NEW c
      PROVE  IsInput([Nothing EXCEPT !.free = c]) /\ IsInput([Nothing EXCEPT !.bulk = c])
  BY DEF Nothing
<1>6. ASSUME NEW c \in Saved, NEW d \in Some(Commits)
      PROVE  IsInput([Nothing EXCEPT !.restore = c, !.commit = d])
  BY DEF Nothing
<1>7. ASSUME NEW d \in Some(Commits), NEW s \in Some(Saves(FALSE)), NEW c
      PROVE  IsInput([Nothing EXCEPT !.flush = TRUE, !.commit = d, !.save = s, !.free = c])
  BY DEF Nothing
<1> HIDE DEF IsInput, Some
<1> QED
  BY <1>1, <1>2, <1>3, <1>4, <1>5, <1>6, <1>7 DEF Transaction

(* The parts of a legal transaction.                                       *)
LEMMA InputParts ==
  ASSUME NEW p, IsInput(p)
  PROVE  /\ p.rename # None => /\ p.rename.reg \in RenameReg /\ p.rename.tag \in Tag
                               /\ Free(p.rename.reg, p.rename.tag)
         /\ p.rename_2 # None => /\ p.rename_2.reg \in RenameReg /\ p.rename_2.tag \in Tag
                                 /\ Free(p.rename_2.reg, p.rename_2.tag)
         /\ p.commit # None => p.commit.reg \in Reg /\ p.commit.tag \in Tag
         /\ p.commit_2 # None => p.commit_2.reg \in Reg /\ p.commit_2.tag \in Tag
         /\ p.save # None => p.save.id \in Checkpoint /\ p.save.tag \in Tag
         /\ p.restore # None => p.restore \in Checkpoint /\ checkpoints[p.restore].valid
<1>1. p.rename \in Drawn \cup {None} /\ p.rename_2 \in Drawn \cup {None}
  BY DEF IsInput, Some
<1>2. \A x \in Drawn : x.reg \in RenameReg /\ x.tag \in Tag /\ Free(x.reg, x.tag)
  BY DEF Drawn, Renames
<1>3. 0 \in Tag
  BY DepthAssumption DEF Tag
<1>4. \A c \in Commits : c.reg \in Reg /\ c.tag \in Tag
  BY <1>3 DEF Commits, RenameReg, Reg
<1>5. p.commit \in Commits \cup {None} /\ p.commit_2 \in Commits \cup {None}
  BY DEF IsInput, Some
<1>6. p.save # None => p.save.id \in Checkpoint /\ p.save.tag \in Tag
  BY DEF IsInput, Some, Saves, checkpoint_available
<1>7. p.restore # None => p.restore \in Checkpoint /\ checkpoints[p.restore].valid
  BY DEF IsInput, Some, Saved
<1> QED
  BY <1>1, <1>2, <1>4, <1>5, <1>6, <1>7

-----------------------------------------------------------------------------
(* A shadow table and its counts: every mapping is the only one of its tag *)
(* and is counted.                                                         *)
Held(s) ==
  /\ s.rat \in [Reg -> Mapping] /\ s.counts \in [Tag -> Nat]
  /\ \A r \in Reg : s.rat[r].valid => s.counts[s.rat[r].tag] > 0
  /\ \A q \in Reg, r \in Reg : s.rat[q].valid /\ s.rat[r].valid /\ s.rat[q].tag = s.rat[r].tag => q = r

Hits(table, c, r) ==
  /\ c # None /\ c.dest_valid /\ c.reg = r /\ r # "x0"
  /\ table[r].valid /\ table[r].tag = c.tag

(* Clearing one mapping of a table.                                        *)
LEMMA Cleared ==
  ASSUME NEW table \in [Reg -> Mapping], NEW q \in Reg
  PROVE  /\ [table EXCEPT ![q].valid = FALSE] \in [Reg -> Mapping]
         /\ \A r \in Reg : /\ [table EXCEPT ![q].valid = FALSE][r].tag = table[r].tag
                           /\ [table EXCEPT ![q].valid = FALSE][r].valid <=> table[r].valid /\ r # q
<1> DEFINE u == [table EXCEPT ![q].valid = FALSE]
<1>1. \A r \in Reg : u[r] = IF r = q THEN [table[r] EXCEPT !.valid = FALSE] ELSE table[r]
  OBVIOUS
<1>2. \A r \in Reg : table[r] \in Mapping
  OBVIOUS
<1>3. u \in [Reg -> Mapping]
  BY <1>2 DEF Mapping
<1> HIDE DEF u
<1>4. \A r \in Reg : u[r].tag = table[r].tag /\ (u[r].valid <=> table[r].valid /\ r # q)
  BY <1>1, <1>2 DEF Mapping
<1> QED
  BY <1>3, <1>4 DEF u

(* A commit clears the mapping it names and no other, and keeps the rest   *)
(* counted.                                                                *)
LEMMA CommitApplied ==
  ASSUME NEW s, Held(s), NEW c, c # None => c.reg \in Reg /\ c.tag \in Tag
  PROVE  /\ Held(AppliedCommit(s, c))
         /\ \A r \in Reg : /\ AppliedCommit(s, c).rat[r].tag = s.rat[r].tag
                           /\ AppliedCommit(s, c).rat[r].valid <=> s.rat[r].valid /\ ~Hits(s.rat, c, r)
<1> DEFINE u == AppliedCommit(s, c)
<1>1. CASE \E r \in Reg : Hits(s.rat, c, r)
  <2>1. c # None /\ c.dest_valid /\ c.reg # "x0" /\ s.rat[c.reg].valid /\ s.rat[c.reg].tag = c.tag
    BY <1>1 DEF Hits
  <2>2. /\ u.rat = [s.rat EXCEPT ![c.reg].valid = FALSE]
        /\ u.counts = [s.counts EXCEPT ![c.tag] = IF @ > 0 THEN @ - 1 ELSE @]
    BY <2>1 DEF AppliedCommit
  <2> HIDE DEF u
  <2>3. \A r \in Reg : u.rat[r].tag = s.rat[r].tag
    BY <2>1, <2>2, Cleared DEF Held
  <2>4. \A r \in Reg : u.rat[r].valid <=> s.rat[r].valid /\ r # c.reg
    BY <2>1, <2>2, Cleared DEF Held
  <2>5. \A r \in Reg : Hits(s.rat, c, r) <=> r = c.reg
    BY <2>1 DEF Hits
  <2>6. u.rat \in [Reg -> Mapping] /\ u.counts \in [Tag -> Nat]
    BY <2>1, <2>2, Cleared DEF Held
  <2>7. ASSUME NEW r \in Reg, u.rat[r].valid
        PROVE  u.counts[u.rat[r].tag] > 0
    <3>1. s.rat[r].valid /\ r # c.reg /\ u.rat[r].tag = s.rat[r].tag /\ s.rat[r].tag \in Tag
      BY <2>3, <2>4, <2>7 DEF Held, Mapping
    <3>2. s.rat[r].tag # c.tag
      BY <2>1, <3>1 DEF Held
    <3> QED
      BY <2>1, <2>2, <3>1, <3>2 DEF Held
  <2>8. \A q \in Reg, r \in Reg : u.rat[q].valid /\ u.rat[r].valid /\ u.rat[q].tag = u.rat[r].tag => q = r
    BY <2>3, <2>4 DEF Held
  <2>9. Held(u)
    BY <2>6, <2>7, <2>8 DEF Held
  <2> QED
    BY <2>3, <2>4, <2>5, <2>9 DEF u
<1>2. CASE ~\E r \in Reg : Hits(s.rat, c, r)
  <2>1. u = s
    BY <1>2 DEF AppliedCommit, Hits
  <2> QED
    BY <1>2, <2>1
<1> QED
  BY <1>1, <1>2

Renames1(x, r) == x # None /\ x.reg = r

(* One rename on a table: the register takes the tag, the others stay.     *)
LEMMA RenamedParts ==
  ASSUME NEW table \in [Reg -> Mapping], NEW x, x # None => x.reg \in RenameReg /\ x.tag \in Tag
  PROVE  /\ Renamed(table, x) \in [Reg -> Mapping]
         /\ \A r \in Reg : Renamed(table, x)[r] =
              IF Renames1(x, r) THEN [valid |-> TRUE, tag |-> x.tag, epoch |-> 0] ELSE table[r]
<1>1. CASE x = None
  BY <1>1 DEF Renamed, Renames1
<1>2. CASE x # None
  <2>1. x.reg \in Reg /\ x.reg \notin {"x0", None} /\ x.tag \in Tag
    BY <1>2, NoNameIsNone DEF RenameReg
  <2>2. Renamed(table, x) = [table EXCEPT ![x.reg] = [valid |-> TRUE, tag |-> x.tag, epoch |-> 0]]
    BY <1>2, <2>1 DEF Renamed, rename
  <2>3. [valid |-> TRUE, tag |-> x.tag, epoch |-> 0] \in Mapping
    BY <2>1 DEF Mapping
  <2> QED
    BY <1>2, <2>1, <2>2, <2>3 DEF Renames1
<1> QED
  BY <1>1, <1>2

(* One rename on the counts: none goes down, that of the new tag is not 0. *)
LEMMA CountedParts ==
  ASSUME NEW counts \in [Tag -> Nat], NEW x, x # None => x.reg \in RenameReg /\ x.tag \in Tag
  PROVE  /\ Counted(counts, x) \in [Tag -> Nat]
         /\ \A t \in Tag : Counted(counts, x)[t] >= counts[t]
         /\ x # None => Counted(counts, x)[x.tag] > 0
BY DEF Counted, RenameReg

(* After the renames of a bundle every mapping is counted; slot 2 wins.    *)
LEMMA RenamesApplied ==
  ASSUME NEW s, Held(s), NEW p,
         p.rename # None => p.rename.reg \in RenameReg /\ p.rename.tag \in Tag,
         p.rename_2 # None => p.rename_2.reg \in RenameReg /\ p.rename_2.tag \in Tag,
         NEW u, u = AppliedRenames(s, p)
  PROVE  /\ u.rat \in [Reg -> Mapping] /\ u.counts \in [Tag -> Nat]
         /\ \A r \in Reg : u.rat[r] =
              IF Renames1(p.rename_2, r) THEN [valid |-> TRUE, tag |-> p.rename_2.tag, epoch |-> 0]
              ELSE IF Renames1(p.rename, r) THEN [valid |-> TRUE, tag |-> p.rename.tag, epoch |-> 0]
              ELSE s.rat[r]
         /\ \A r \in Reg : u.rat[r].valid => u.counts[u.rat[r].tag] > 0
<1> DEFINE collides == p.rename # None /\ p.rename_2 # None /\ p.rename.reg = p.rename_2.reg
           first == IF collides THEN s.rat ELSE Renamed(s.rat, p.rename)
           once == Counted(s.counts, p.rename)
<1>1. s.rat \in [Reg -> Mapping] /\ s.counts \in [Tag -> Nat]
  BY DEF Held
<1>2. u.rat = Renamed(first, p.rename_2) /\ u.counts = Counted(once, p.rename_2)
  BY DEF AppliedRenames
<1>3. /\ first \in [Reg -> Mapping]
      /\ \A r \in Reg : first[r] =
           IF Renames1(p.rename, r) /\ ~collides THEN [valid |-> TRUE, tag |-> p.rename.tag, epoch |-> 0]
           ELSE s.rat[r]
  BY <1>1, RenamedParts
<1>4. /\ once \in [Tag -> Nat] /\ \A t \in Tag : once[t] >= s.counts[t]
      /\ p.rename # None => once[p.rename.tag] > 0
  BY <1>1, CountedParts
<1> HIDE DEF first, once
<1>5. /\ u.rat \in [Reg -> Mapping]
      /\ \A r \in Reg : u.rat[r] =
           IF Renames1(p.rename_2, r) THEN [valid |-> TRUE, tag |-> p.rename_2.tag, epoch |-> 0]
           ELSE first[r]
  BY <1>2, <1>3, RenamedParts
<1>6. /\ u.counts \in [Tag -> Nat] /\ \A t \in Tag : u.counts[t] >= once[t]
      /\ p.rename_2 # None => u.counts[p.rename_2.tag] > 0
  BY <1>2, <1>4, CountedParts
<1>7. ASSUME NEW r \in Reg
      PROVE  u.rat[r] =
               IF Renames1(p.rename_2, r) THEN [valid |-> TRUE, tag |-> p.rename_2.tag, epoch |-> 0]
               ELSE IF Renames1(p.rename, r) THEN [valid |-> TRUE, tag |-> p.rename.tag, epoch |-> 0]
               ELSE s.rat[r]
  BY <1>3, <1>5 DEF Renames1
<1>8. ASSUME NEW r \in Reg, u.rat[r].valid
      PROVE  u.counts[u.rat[r].tag] > 0
  <2>1. CASE Renames1(p.rename_2, r)
    BY <1>5, <1>6, <2>1 DEF Renames1
  <2>2. CASE ~Renames1(p.rename_2, r) /\ Renames1(p.rename, r)
    <3>1. u.rat[r].tag = p.rename.tag /\ p.rename # None
      BY <1>7, <2>2 DEF Renames1
    <3> QED
      BY <1>4, <1>6, <3>1
  <2>3. CASE ~Renames1(p.rename_2, r) /\ ~Renames1(p.rename, r)
    <3>1. u.rat[r] = s.rat[r]
      BY <1>7, <2>3
    <3>2. s.counts[s.rat[r].tag] > 0 /\ s.rat[r].tag \in Tag
      BY <1>8, <3>1 DEF Held, Mapping
    <3> QED
      BY <1>1, <1>4, <1>6, <3>1, <3>2
  <2> QED
    BY <2>1, <2>2, <2>3
<1> QED
  BY <1>5, <1>6, <1>7, <1>8

-----------------------------------------------------------------------------
(* What the clock edge does, field by field.                               *)
LEMMA EdgeParts ==
  ASSUME NEW p, RatEdge(p)
  PROVE  /\ dut'.rat = NextTable(p) /\ dut'.valid = checkpoint_valid_next(p)
         /\ \A c \in Checkpoint :
              /\ p.save # None /\ ~p.flush /\ p.save.id = c =>
                   /\ dut'.image[c] = ckpt_rat_wr_data(p)
                   /\ dut'.meta[c] = [epoch |-> 1 - Bit(epoch, p.save.tag), tag |-> p.save.tag]
              /\ ~(p.save # None /\ ~p.flush /\ p.save.id = c) =>
                   dut'.image[c] = dut.image[c] /\ dut'.meta[c] = dut.meta[c]
BY DEF RatEdge

(* The table keeps its type.                                               *)
LEMMA EdgeType ==
  ASSUME RatTypeOK, NEW p, IsInput(p), RatEdge(p)
  PROVE  (dut \in [rat : [Reg -> [valid : BOOLEAN, tag : Tag]], valid : SUBSET Checkpoint,
              image : [Checkpoint -> [Reg -> [valid : BOOLEAN, epoch : {0, 1}, tag : Tag]]],
              meta : [Checkpoint -> [epoch : {0, 1}, tag : Tag]], alloc : SUBSET Checkpoint])'
<1>0. \A S, t : Bit(S, t) \in {0, 1} /\ 1 - Bit(S, t) \in {0, 1}
  BY DEF Bit
<1>1. /\ \A r \in Reg : dut.rat[r] \in [valid : BOOLEAN, tag : Tag]
      /\ \A c \in Checkpoint, r \in Reg : dut.image[c][r] \in [valid : BOOLEAN, epoch : {0, 1}, tag : Tag]
      /\ dut.image \in [Checkpoint -> [Reg -> [valid : BOOLEAN, epoch : {0, 1}, tag : Tag]]]
      /\ dut.meta \in [Checkpoint -> [epoch : {0, 1}, tag : Tag]] /\ dut.valid \in SUBSET Checkpoint
  BY DEF RatTypeOK
<1>2. NextTable(p) \in [Reg -> [valid : BOOLEAN, tag : Tag]]
  <2> SUFFICES ASSUME NEW r \in Reg
               PROVE  NextTable(p)[r] \in [valid : BOOLEAN, tag : Tag]
    BY DEF NextTable
  <2> QED
    BY <1>1, InputParts DEF NextTable
<1>3. checkpoint_valid_next(p) \in SUBSET Checkpoint
  BY <1>1, InputParts DEF checkpoint_valid_next
<1>4. ckpt_rat_wr_data(p) \in [Reg -> [valid : BOOLEAN, epoch : {0, 1}, tag : Tag]]
  <2> SUFFICES ASSUME NEW r \in Reg
               PROVE  ckpt_rat_wr_data(p)[r] \in [valid : BOOLEAN, epoch : {0, 1}, tag : Tag]
    BY DEF ckpt_rat_wr_data
  <2> QED
    BY <1>0, <1>1, InputParts DEF ckpt_rat_wr_data
<1>5. p.save # None => [epoch |-> 1 - Bit(epoch, p.save.tag), tag |-> p.save.tag] \in [epoch : {0, 1}, tag : Tag]
  BY <1>0, InputParts
<1> QED
  BY <1>1, <1>2, <1>3, <1>4, <1>5 DEF RatEdge

(* The slot offered next follows from the slots in use.                    *)
LEMMA OfferFollows ==
  ASSUME NEW p, RatEdge(p), SameSlots'
  PROVE  SameOffer'
<1>1. dut'.alloc = {c \in Checkpoint \ dut'.valid : \A d \in Checkpoint \ dut'.valid : c <= d}
  BY DEF RatEdge
<1>2. ASSUME NEW c \in Checkpoint
      PROVE  c \in dut'.alloc <=> c \in checkpoint_available'
  <2>1. Checkpoint \subseteq Int /\ \A d \in Checkpoint : d < c <=> d \in 0 .. c - 1
    BY GoldenAssumption DEF Checkpoint
  <2>2. 0 .. c - 1 \subseteq Checkpoint
    BY GoldenAssumption DEF Checkpoint
  <2>3. c \in checkpoint_available' <=>
          ~checkpoints'[c].valid /\ \A d \in 0 .. c - 1 : checkpoints'[d].valid
    BY DEF checkpoint_available
  <2>4. c \in dut'.alloc <=> c \notin dut'.valid /\ \A d \in Checkpoint \ dut'.valid : c <= d
    BY <1>1
  <2>5. \A d \in Checkpoint : checkpoints'[d].valid <=> d \in dut'.valid
    BY DEF SameSlots
  <2> QED
    BY <2>1, <2>2, <2>3, <2>4, <2>5
<1> QED
  BY <1>1, <1>2 DEF SameOffer, checkpoint_available

-----------------------------------------------------------------------------
(* A flush empties both sides (the IF p.flush branch, flush_all).          *)
LEMMA FlushCycle ==
  ASSUME RatInv, NEW p, IsInput(p), Cycle(p), p.flush
  PROVE  RatInv'
<1>1. p.restore = None
  BY DEF IsInput
<1>2. /\ rat' = [r \in Reg |-> [rat[r] EXCEPT !.valid = FALSE]]
      /\ checkpoints' = [c \in Checkpoint |-> [checkpoints[c] EXCEPT !.valid = FALSE]]
      /\ refcounts' = [t \in Tag |-> 0] /\ epoch' = epoch
  BY DEF Cycle, _apply_pending_cycle_updates
<1>3. /\ \A r \in Reg : rat[r] \in Mapping
      /\ \A c \in Checkpoint : checkpoints[c] \in Slot
  BY DEF RatInv, RatTypeOK
<1>4. \A r \in Reg : ~rat'[r].valid
  BY <1>2, <1>3 DEF Mapping
<1>5. \A c \in Checkpoint : ~checkpoints'[c].valid
  BY <1>2, <1>3 DEF Slot
<1>6. \A r \in Reg : ~dut'.rat[r].valid
  <2>1. dut'.rat = NextTable(p) /\ \A r \in Reg : dut.rat[r] \in [valid : BOOLEAN, tag : Tag]
    BY EdgeParts DEF Cycle, RatInv, RatTypeOK
  <2> QED
    BY <1>1, <2>1 DEF NextTable
<1>7. dut'.valid = {}
  BY EdgeParts DEF Cycle, checkpoint_valid_next
<1>8. RatTypeOK'
  <2>1. rat' \in [Reg -> Mapping]
    BY <1>2, <1>3 DEF Mapping
  <2>2. checkpoints' \in [Checkpoint -> Slot]
    BY <1>2, <1>3 DEF Slot
  <2>3. refcounts' \in [Tag -> Nat] /\ epoch' \in SUBSET Tag
    BY <1>2 DEF RatInv, RatTypeOK
  <2> QED
    BY <2>1, <2>2, <2>3, EdgeType DEF Cycle, RatInv, RatTypeOK
<1>9. SameTable' /\ SameSlots' /\ SameMeta' /\ SameImages' /\ CountsHold'
  BY <1>4, <1>5, <1>6, <1>7 DEF SameTable, SameSlots, SameMeta, SameImages, CountsHold, SameMapping
<1>10. OneNamer'
  BY <1>4, <1>5 DEF OneNamer, Names, Saved
<1> QED
  BY <1>8, <1>9, <1>10, OfferFollows DEF Cycle, RatInv

(* A restore takes the same mappings from the image on both sides: those   *)
(* whose tag is still live in the vectors both read.                       *)
LEMMA RestoreCycle ==
  ASSUME RatInv, NEW p, IsInput(p), Cycle(p), ~p.flush, p.restore # None
  PROVE  RatInv'
<1> DEFINE c == p.restore
           slot == checkpoints[c]
           live(r) == _restored_tag_still_live(slot.rat[r], slot, rob_entry_valid_mask, epoch,
                                               rob_head_tag, TRUE)
<1>1. c \in Checkpoint /\ slot.valid /\ p.save = None /\ p.free = None /\ p.bulk = {}
  BY InputParts DEF IsInput
<1>2. /\ rat' = checkpoint_restore(slot, rob_entry_valid_mask, epoch, rob_head_tag, TRUE)
      /\ checkpoints' = checkpoints /\ refcounts' = refcounts /\ epoch' = epoch
  BY DEF Cycle, _apply_pending_cycle_updates
<1>3. \A r \in Reg : rat'[r] = [slot.rat[r] EXCEPT !.valid = slot.rat[r].valid /\ live(r)]
  BY <1>2 DEF checkpoint_restore
<1>4. slot.rat \in [Reg -> Mapping] /\ \A r \in Reg : slot.rat[r] \in Mapping
  BY <1>1 DEF RatInv, RatTypeOK, Slot
<1> HIDE DEF live
<1>5. \A r \in Reg : /\ rat'[r].tag = slot.rat[r].tag
                     /\ rat'[r].valid <=> slot.rat[r].valid /\ live(r)
  BY <1>3, <1>4 DEF Mapping
<1>6. rat' \in [Reg -> Mapping]
  <2>1. \A r \in Reg : rat'[r] \in Mapping
    BY <1>3, <1>4 DEF Mapping
  <2> QED
    BY <1>2, <2>1 DEF checkpoint_restore
<1>7. RatTypeOK'
  BY <1>2, <1>6, EdgeType DEF Cycle, RatInv, RatTypeOK
<1>8. dut'.valid = dut.valid /\ \A d \in Checkpoint : dut'.image[d] = dut.image[d] /\ dut'.meta[d] = dut.meta[d]
  <2>1. dut.valid \in SUBSET Checkpoint
    BY DEF RatInv, RatTypeOK
  <2>2. checkpoint_valid_next(p) = dut.valid
    BY <1>1, <2>1, NoNameIsNone DEF checkpoint_valid_next
  <2>3. RatEdge(p)
    BY DEF Cycle
  <2> QED
    BY <1>1, <2>2, <2>3, EdgeParts
<1>9. SameSlots' /\ SameMeta' /\ SameImages'
  BY <1>2, <1>8 DEF RatInv, SameSlots, SameMeta, SameImages
<1>10. ASSUME NEW r \in Reg
       PROVE  SameMapping(rat'[r], dut'.rat[r])
  <2> DEFINE image == dut.image[c][r]
  <2>1. dut'.rat[r].tag = image.tag /\ (dut'.rat[r].valid <=> image.valid /\ restored_tag_still_live(c, image))
    <3>1. dut'.rat = NextTable(p)
      BY EdgeParts DEF Cycle
    <3> DEFINE stays == image.valid /\ restored_tag_still_live(c, image)
    <3>2. NextTable(p)[r] = [valid |-> stays, tag |-> image.tag]
      BY DEF NextTable
    <3>3. stays \in BOOLEAN
      OBVIOUS
    <3>4. stays <=> image.valid /\ restored_tag_still_live(c, image)
      OBVIOUS
    <3> HIDE DEF image, stays
    <3>5. dut'.rat[r].tag = image.tag /\ (dut'.rat[r].valid <=> stays)
      BY <3>1, <3>2, <3>3
    <3> QED
      BY <3>4, <3>5
  <2>2. /\ slot.rat[r].valid <=> image.valid
        /\ slot.rat[r].valid => slot.rat[r].tag = image.tag /\ slot.rat[r].epoch = image.epoch
        /\ dut.meta[c].tag = slot.branch_tag /\ dut.meta[c].epoch = slot.branch_epoch
    BY <1>1 DEF RatInv, SameImages, SameMeta, SameMapping
  <2>3. slot.rat[r].valid => (live(r) <=> restored_tag_still_live(c, image))
    BY <2>2 DEF live, _restored_tag_still_live, restored_tag_still_live
  <2> QED
    BY <1>5, <2>1, <2>2, <2>3 DEF SameMapping
<1>11. CountsHold'
  <2> SUFFICES ASSUME NEW r \in Reg, rat'[r].valid
               PROVE  refcounts'[rat'[r].tag] > 0
    BY DEF CountsHold
  <2>1. slot.rat[r].tag \in rob_entry_valid_mask
    BY <1>5 DEF live, _restored_tag_still_live
  <2> QED
    BY <1>2, <1>5, <2>1 DEF rob_entry_valid_mask
<1>12. OneNamer'
  <2>1. \A r \in Reg, t \in Tag : Names(r, t)' => Names(r, t)
    BY <1>1, <1>2, <1>5 DEF Names, Saved
  <2> QED
    BY <2>1 DEF RatInv, OneNamer
<1> QED
  BY <1>7, <1>9, <1>10, <1>11, <1>12, OfferFollows DEF Cycle, RatInv, SameTable

-----------------------------------------------------------------------------
Overlaid(p, r) == p.save.slot2 /\ Renames1(p.rename, r)

(* The image of a save, register by register.                              *)
LEMMA SavedParts ==
  ASSUME RatTypeOK, NEW p, IsInput(p), p.save # None
  PROVE  /\ SavedImage(p) \in Slot /\ SavedImage(p).valid
         /\ SavedImage(p).branch_tag = p.save.tag
         /\ SavedImage(p).branch_epoch = 1 - Bit(epoch, p.save.tag)
         /\ \A r \in Reg :
              SavedImage(p).rat[r] =
                IF Overlaid(p, r)
                THEN [valid |-> TRUE, tag |-> p.rename.tag, epoch |-> 1 - Bit(epoch, p.rename.tag)]
                ELSE [rat[r] EXCEPT !.epoch = Bit(epoch, rat[r].tag)]
<1> DEFINE image == checkpoint_save(rat, p.save.tag, epoch)
           over  == [valid |-> TRUE, tag |-> p.rename.tag, epoch |-> 1 - Bit(epoch, p.rename.tag)]
           lays  == p.save.slot2 /\ p.rename # None /\ p.rename.reg # "x0"
<1>0. \A S, t : Bit(S, t) \in {0, 1} /\ 1 - Bit(S, t) \in {0, 1}
  BY DEF Bit
<1>1. \A r \in Reg : rat[r] \in Mapping
  BY DEF RatTypeOK
<1>2. \A r \in Reg : [rat[r] EXCEPT !.epoch = Bit(epoch, rat[r].tag)] \in Mapping
  BY <1>0, <1>1 DEF Mapping
<1>3. p.save.tag \in Tag /\ (p.rename # None => p.rename.reg \in RenameReg /\ p.rename.tag \in Tag)
  BY InputParts
<1>4. /\ image \in Slot /\ image.valid /\ image.branch_tag = p.save.tag
      /\ image.branch_epoch = 1 - Bit(epoch, p.save.tag)
      /\ \A r \in Reg : image.rat[r] = [rat[r] EXCEPT !.epoch = Bit(epoch, rat[r].tag)]
  BY <1>0, <1>2, <1>3 DEF Slot, checkpoint_save
<1>5. SavedImage(p) = IF lays THEN [image EXCEPT !.rat[p.rename.reg] = over] ELSE image
  BY DEF SavedImage
<1>6. p.rename # None => over \in Mapping
  BY <1>0, <1>3 DEF Mapping
<1>7. \A r \in Reg : Overlaid(p, r) <=> lays /\ p.rename.reg = r
  BY <1>3 DEF Overlaid, Renames1, RenameReg
<1> HIDE DEF image, over
<1>8. CASE lays
  <2>1. p.rename.reg \in Reg /\ over \in Mapping
    BY <1>3, <1>6, <1>8 DEF RenameReg
  <2>2. SavedImage(p) = [image EXCEPT !.rat = [image.rat EXCEPT ![p.rename.reg] = over]]
    BY <1>4, <1>5, <1>8 DEF Slot
  <2>3. image.rat \in [Reg -> Mapping]
    BY <1>4 DEF Slot
  <2>4. /\ SavedImage(p) \in Slot /\ SavedImage(p).valid
        /\ SavedImage(p).branch_tag = p.save.tag
        /\ SavedImage(p).branch_epoch = 1 - Bit(epoch, p.save.tag)
        /\ SavedImage(p).rat = [image.rat EXCEPT ![p.rename.reg] = over]
    BY <1>4, <2>1, <2>2, <2>3 DEF Slot
  <2>5. \A r \in Reg : SavedImage(p).rat[r] = IF p.rename.reg = r THEN over ELSE image.rat[r]
    BY <2>1, <2>3, <2>4
  <2> QED
    BY <1>4, <1>7, <1>8, <2>4, <2>5 DEF over
<1>9. CASE ~lays
  BY <1>4, <1>5, <1>7, <1>9
<1> QED
  BY <1>8, <1>9

(* The shadow of an ordinary cycle: what the commits and the renames leave.*)
LEMMA OrdinaryTable ==
  ASSUME RatInv, NEW p, IsInput(p), Cycle(p), ~p.flush, p.restore = None
  PROVE  /\ rat' \in [Reg -> Mapping] /\ refcounts' \in [Tag -> Nat] /\ CountsHold'
         /\ \A r \in Reg :
              /\ Renames1(p.rename_2, r) => rat'[r].valid /\ rat'[r].tag = p.rename_2.tag
              /\ ~Renames1(p.rename_2, r) /\ Renames1(p.rename, r) =>
                   rat'[r].valid /\ rat'[r].tag = p.rename.tag
              /\ ~Renames1(p.rename_2, r) /\ ~Renames1(p.rename, r) =>
                   /\ rat'[r].tag = rat[r].tag
                   /\ rat'[r].valid <=> /\ rat[r].valid /\ ~Hits(rat, p.commit, r)
                                        /\ ~Hits(rat, p.commit_2, r)
<1> DEFINE start == [rat |-> rat, counts |-> _mark_checkpoint_owner_allocated(p).counts]
           one == AppliedCommit(start, p.commit)
           two == AppliedCommit(one, p.commit_2)
           done == AppliedRenames(two, p)
<1>1. rat' = done.rat /\ refcounts' = done.counts
  BY DEF Cycle, _apply_pending_cycle_updates
<1>2. Held(start)
  <2>1. /\ rat \in [Reg -> Mapping] /\ refcounts \in [Tag -> Nat] /\ \A r \in Reg : rat[r].tag \in Tag
    BY DEF RatInv, RatTypeOK, Mapping
  <2>2. /\ start.rat = rat /\ start.counts \in [Tag -> Nat]
        /\ \A t \in Tag : start.counts[t] >= refcounts[t]
    BY <2>1 DEF _mark_checkpoint_owner_allocated
  <2> HIDE DEF start
  <2>3. \A r \in Reg : start.rat[r].valid => start.counts[start.rat[r].tag] > 0
    BY <2>1, <2>2 DEF RatInv, CountsHold
  <2>4. \A q \in Reg, r \in Reg :
          start.rat[q].valid /\ start.rat[r].valid /\ start.rat[q].tag = start.rat[r].tag => q = r
    BY <2>1, <2>2 DEF RatInv, OneNamer, Names
  <2> QED
    BY <2>1, <2>2, <2>3, <2>4 DEF Held
<1>3. start.rat = rat
  OBVIOUS
<1> HIDE DEF start
<1>4. /\ Held(one)
      /\ \A r \in Reg : /\ one.rat[r].tag = rat[r].tag
                        /\ one.rat[r].valid <=> rat[r].valid /\ ~Hits(rat, p.commit, r)
  BY <1>2, <1>3, InputParts, CommitApplied
<1> HIDE DEF one
<1>5. /\ Held(two)
      /\ \A r \in Reg : /\ two.rat[r].tag = one.rat[r].tag
                        /\ two.rat[r].valid <=> one.rat[r].valid /\ ~Hits(one.rat, p.commit_2, r)
  BY <1>4, InputParts, CommitApplied
<1> HIDE DEF two
<1>6. \A r \in Reg : /\ two.rat[r].tag = rat[r].tag
                     /\ two.rat[r].valid <=> /\ rat[r].valid /\ ~Hits(rat, p.commit, r)
                                             /\ ~Hits(rat, p.commit_2, r)
  BY <1>4, <1>5 DEF Hits
<1>7. /\ done.rat \in [Reg -> Mapping] /\ done.counts \in [Tag -> Nat]
      /\ \A r \in Reg : done.rat[r] =
           IF Renames1(p.rename_2, r) THEN [valid |-> TRUE, tag |-> p.rename_2.tag, epoch |-> 0]
           ELSE IF Renames1(p.rename, r) THEN [valid |-> TRUE, tag |-> p.rename.tag, epoch |-> 0]
           ELSE two.rat[r]
      /\ \A r \in Reg : done.rat[r].valid => done.counts[done.rat[r].tag] > 0
  BY <1>5, InputParts, RenamesApplied
<1> HIDE DEF done
<1> QED
  BY <1>1, <1>6, <1>7 DEF CountsHold

(* An ordinary cycle does the same to both sides: a rename wins over a     *)
(* commit and slot 2 over slot 1, a saved image holds the mappings before  *)
(* the cycle with the slot-1 rename laid over them.                        *)
LEMMA OrdinaryCycle ==
  ASSUME RatInv, NEW p, IsInput(p), Cycle(p), ~p.flush, p.restore = None
  PROVE  RatInv'
<1> DEFINE saves(c) == p.save # None /\ p.save.id = c
           frees(c) == c \in p.bulk \cup {p.free}
<1>0. /\ RatEdge(p) /\ RatTypeOK /\ \A r \in Reg : rat[r] \in Mapping
      /\ \A r \in Reg : dut.rat[r] \in [valid : BOOLEAN, tag : Tag]
      /\ \A r \in Reg : SameMapping(rat[r], dut.rat[r])
      /\ \A c \in Checkpoint : checkpoints[c] \in Slot
  BY DEF Cycle, RatInv, RatTypeOK, SameTable, Slot
<1>1. /\ epoch' = _mark_checkpoint_owner_allocated(p).epoch
      /\ checkpoints' = [c \in Checkpoint |->
           IF saves(c) THEN SavedImage(p) ELSE [checkpoints[c] EXCEPT !.valid = @ /\ ~frees(c)]]
  BY DEF Cycle, _apply_pending_cycle_updates
<1>2. epoch' \in SUBSET Tag
  BY <1>0, <1>1, InputParts DEF RatTypeOK, _mark_checkpoint_owner_allocated, Owner
<1>3. \A c \in Checkpoint : saves(c) => checkpoints'[c] = SavedImage(p)
  BY <1>1
<1>4. ASSUME NEW c \in Checkpoint, ~saves(c)
      PROVE  /\ checkpoints'[c] \in Slot
             /\ checkpoints'[c].valid <=> checkpoints[c].valid /\ ~frees(c)
             /\ checkpoints'[c].branch_tag = checkpoints[c].branch_tag
             /\ checkpoints'[c].branch_epoch = checkpoints[c].branch_epoch
             /\ checkpoints'[c].rat = checkpoints[c].rat
  <2> DEFINE stays == checkpoints[c].valid /\ ~frees(c)
  <2>1. checkpoints'[c] = [checkpoints[c] EXCEPT !.valid = stays]
    BY <1>1, <1>4
  <2>2. stays \in BOOLEAN /\ checkpoints[c] \in Slot
    BY <1>0
  <2>3. stays <=> checkpoints[c].valid /\ ~frees(c)
    OBVIOUS
  <2> HIDE DEF stays
  <2> QED
    BY <2>1, <2>2, <2>3 DEF Slot
<1>5. /\ p.save # None => /\ SavedImage(p) \in Slot /\ SavedImage(p).valid
                          /\ SavedImage(p).branch_tag = p.save.tag
                          /\ SavedImage(p).branch_epoch = 1 - Bit(epoch, p.save.tag)
      /\ p.save # None => \A r \in Reg :
           SavedImage(p).rat[r] =
             IF Overlaid(p, r)
             THEN [valid |-> TRUE, tag |-> p.rename.tag, epoch |-> 1 - Bit(epoch, p.rename.tag)]
             ELSE [rat[r] EXCEPT !.epoch = Bit(epoch, rat[r].tag)]
  BY <1>0, SavedParts
<1>6. RatTypeOK'
  <2>1. \A c \in Checkpoint : checkpoints'[c] \in Slot
    BY <1>3, <1>4, <1>5
  <2>2. checkpoints' \in [Checkpoint -> Slot]
    BY <1>1, <2>1
  <2> QED
    BY <1>0, <1>2, <2>2, OrdinaryTable, EdgeType DEF RatTypeOK, Slot
<1>7. SameTable'
  <2> SUFFICES ASSUME NEW r \in Reg
               PROVE  SameMapping(rat'[r], dut'.rat[r])
    BY DEF SameTable
  <2>1. dut'.rat = NextTable(p)
    BY <1>0, EdgeParts
  <2>2. CASE Renames1(p.rename_2, r)
    <3>1. NextTable(p)[r] = [valid |-> TRUE, tag |-> p.rename_2.tag]
      BY <2>2 DEF NextTable, Renames1
    <3> QED
      BY <2>1, <2>2, <3>1, OrdinaryTable DEF SameMapping
  <2>3. CASE ~Renames1(p.rename_2, r) /\ Renames1(p.rename, r)
    <3>1. NextTable(p)[r] = [valid |-> TRUE, tag |-> p.rename.tag]
      BY <2>3 DEF NextTable, Renames1
    <3> QED
      BY <2>1, <2>3, <3>1, OrdinaryTable DEF SameMapping
  <2>4. CASE ~Renames1(p.rename_2, r) /\ ~Renames1(p.rename, r)
    <3> DEFINE stays == dut.rat[r].valid /\ ~Clears(p, r)
    <3>1. NextTable(p)[r] = [dut.rat[r] EXCEPT !.valid = stays]
      BY <2>4 DEF NextTable, Renames1
    <3>2. stays \in BOOLEAN
      OBVIOUS
    <3>3. stays <=> rat[r].valid /\ ~Hits(rat, p.commit, r) /\ ~Hits(rat, p.commit_2, r)
      BY <1>0 DEF SameMapping, Clears, Hits
    <3> HIDE DEF stays
    <3>4. dut'.rat[r].tag = dut.rat[r].tag /\ (dut'.rat[r].valid <=> stays)
      BY <1>0, <2>1, <3>1, <3>2
    <3> QED
      BY <1>0, <2>4, <3>3, <3>4, OrdinaryTable DEF SameMapping
  <2> QED
    BY <2>2, <2>3, <2>4
<1>8. SameSlots'
  <2>1. dut'.valid = (dut.valid \ (p.bulk \cup {p.free})) \cup (IF p.save # None THEN {p.save.id} ELSE {})
    BY <1>0, EdgeParts DEF checkpoint_valid_next
  <2>2. \A c \in Checkpoint : checkpoints[c].valid <=> c \in dut.valid
    BY DEF RatInv, SameSlots
  <2>3. \A c \in Checkpoint : checkpoints'[c].valid <=> saves(c) \/ (checkpoints[c].valid /\ ~frees(c))
    BY <1>3, <1>4, <1>5
  <2> QED
    BY <2>1, <2>2, <2>3 DEF SameSlots
<1>9. SameMeta'
  <2> SUFFICES ASSUME NEW c \in Checkpoint, checkpoints'[c].valid
               PROVE  /\ dut'.meta[c].tag = checkpoints'[c].branch_tag
                      /\ dut'.meta[c].epoch = checkpoints'[c].branch_epoch
    BY DEF SameMeta
  <2>1. CASE saves(c)
    <3>1. dut'.meta[c] = [epoch |-> 1 - Bit(epoch, p.save.tag), tag |-> p.save.tag]
      BY <1>0, <2>1, EdgeParts
    <3> QED
      BY <1>3, <1>5, <2>1, <3>1
  <2>2. CASE ~saves(c)
    <3>1. dut'.meta[c] = dut.meta[c]
      BY <1>0, <2>2, EdgeParts
    <3> QED
      BY <1>4, <2>2, <3>1 DEF RatInv, SameMeta
  <2> QED
    BY <2>1, <2>2
<1>10. SameImages'
  <2> SUFFICES ASSUME NEW c \in Checkpoint, NEW r \in Reg, checkpoints'[c].valid
               PROVE  /\ SameMapping(checkpoints'[c].rat[r], dut'.image[c][r])
                      /\ checkpoints'[c].rat[r].valid =>
                           checkpoints'[c].rat[r].epoch = dut'.image[c][r].epoch
    BY DEF SameImages
  <2>1. CASE saves(c)
    <3>1. dut'.image[c] = ckpt_rat_wr_data(p) /\ checkpoints'[c].rat[r] = SavedImage(p).rat[r]
      BY <1>0, <1>3, <2>1, EdgeParts
    <3>2. CASE Overlaid(p, r)
      <4>1. ckpt_rat_wr_data(p)[r] =
              [valid |-> TRUE, epoch |-> 1 - Bit(epoch, p.rename.tag), tag |-> p.rename.tag]
        BY <3>2, InputParts DEF ckpt_rat_wr_data, Overlaid, Renames1, RenameReg
      <4> QED
        BY <1>5, <2>1, <3>1, <3>2, <4>1 DEF SameMapping
    <3>3. CASE ~Overlaid(p, r)
      <4>1. ckpt_rat_wr_data(p)[r] = [valid |-> dut.rat[r].valid, epoch |-> Bit(epoch, dut.rat[r].tag),
                                      tag   |-> dut.rat[r].tag]
        BY <3>3 DEF ckpt_rat_wr_data, Overlaid, Renames1
      <4>2. SavedImage(p).rat[r] = [rat[r] EXCEPT !.epoch = Bit(epoch, rat[r].tag)]
        BY <1>5, <2>1, <3>3
      <4> QED
        BY <1>0, <3>1, <4>1, <4>2 DEF SameMapping, Mapping
    <3> QED
      BY <3>2, <3>3
  <2>2. CASE ~saves(c)
    <3>1. dut'.image[c] = dut.image[c]
      BY <1>0, <2>2, EdgeParts
    <3> QED
      BY <1>4, <2>2, <3>1 DEF RatInv, SameImages
  <2> QED
    BY <2>1, <2>2
<1>11. OneNamer'
  <2> DEFINE Gives(x, r, t) == Renames1(x, r) /\ x.tag = t
  <2>1. ASSUME NEW r \in Reg, NEW t \in Tag, Names(r, t)'
        PROVE  Names(r, t) \/ Gives(p.rename, r, t) \/ Gives(p.rename_2, r, t)
    <3>1. CASE rat'[r].valid /\ rat'[r].tag = t
      BY <3>1, OrdinaryTable DEF Names
    <3>2. ASSUME NEW c \in Checkpoint, checkpoints'[c].valid,
                 checkpoints'[c].rat[r].valid, checkpoints'[c].rat[r].tag = t
          PROVE  Names(r, t) \/ Gives(p.rename, r, t)
      <4>1. CASE saves(c)
        <5>1. checkpoints'[c].rat[r] = SavedImage(p).rat[r]
          BY <1>3, <4>1
        <5>2. CASE Overlaid(p, r)
          <6>1. SavedImage(p).rat[r] =
                  [valid |-> TRUE, tag |-> p.rename.tag, epoch |-> 1 - Bit(epoch, p.rename.tag)]
            BY <1>5, <4>1, <5>2
          <6>2. p.rename.tag = t
            BY <3>2, <5>1, <6>1
          <6> QED
            BY <5>2, <6>2 DEF Overlaid
        <5>3. CASE ~Overlaid(p, r)
          <6>1. SavedImage(p).rat[r] = [rat[r] EXCEPT !.epoch = Bit(epoch, rat[r].tag)]
            BY <1>5, <4>1, <5>3
          <6>2. rat[r].valid /\ rat[r].tag = t
            BY <1>0, <3>2, <5>1, <6>1 DEF Mapping
          <6> QED
            BY <6>2 DEF Names
        <5> QED
          BY <5>2, <5>3
      <4>2. CASE ~saves(c)
        BY <1>4, <3>2, <4>2 DEF Names, Saved
      <4> QED
        BY <4>1, <4>2
    <3> QED
      BY <2>1, <3>1, <3>2 DEF Names, Saved
  <2> SUFFICES ASSUME NEW t \in Tag, NEW q \in Reg, NEW r \in Reg, Names(q, t)', Names(r, t)', q # r
               PROVE  FALSE
    BY DEF OneNamer
  <2>2. ~(Names(q, t) /\ Names(r, t))
    BY DEF RatInv, OneNamer
  <2>3. \A x \in {p.rename, p.rename_2} : /\ Gives(x, q, t) => ~Names(r, t)
                                          /\ Gives(x, r, t) => ~Names(q, t)
    BY InputParts DEF Free, Renames1
  <2>4. \A x \in {p.rename, p.rename_2}, y \in {p.rename, p.rename_2} :
          ~(Gives(x, q, t) /\ Gives(y, r, t))
    BY DEF IsInput, Renames1
  <2> QED
    BY <2>1, <2>2, <2>3, <2>4
<1> QED
  BY <1>0, <1>6, <1>7, <1>8, <1>9, <1>10, <1>11, OrdinaryTable, OfferFollows DEF RatInv

-----------------------------------------------------------------------------
(* The reset state of both sides.                                          *)
LEMMA RatInvInit ==
  ASSUME CoreInit, RatBenchInit
  PROVE  RatInv
<1>1. 0 \in Tag /\ 0 \in Checkpoint /\ Checkpoint \subseteq Nat
  BY DepthAssumption, GoldenAssumption DEF Tag, Checkpoint
<1>2. RatTypeOK
  BY <1>1 DEF CoreInit, RatBenchInit, RatTypeOK, Mapping, Slot
<1>3. SameTable /\ SameSlots /\ SameMeta /\ SameImages
  BY <1>1 DEF CoreInit, RatBenchInit, SameTable, SameSlots, SameMeta, SameImages, SameMapping
<1>4. SameOffer
  BY <1>1 DEF CoreInit, RatBenchInit, SameOffer, checkpoint_available, Checkpoint
<1>5. OneNamer /\ CountsHold
  BY DEF CoreInit, RatBenchInit, OneNamer, CountsHold, Names, Saved
<1> QED
  BY <1>2, <1>3, <1>4, <1>5 DEF RatInv

(* The epoch bits are named by no part of the invariant but its type.      *)
LEMMA EpochIsFree ==
  ASSUME RatInv, UNCHANGED << rat, checkpoints, refcounts, dut >>, epoch' \in SUBSET Tag
  PROVE  RatInv'
<1>1. RatTypeOK'
  BY DEF RatInv, RatTypeOK
<1>2. SameTable' /\ SameSlots' /\ SameMeta'
  BY DEF RatInv, SameTable, SameSlots, SameMeta
<1>3. SameImages' /\ CountsHold'
  BY DEF RatInv, SameImages, CountsHold
<1>4. SameOffer'
  BY DEF RatInv, SameOffer, checkpoint_available
<1>5. OneNamer'
  BY DEF RatInv, OneNamer, Names, Saved
<1> QED
  BY <1>1, <1>2, <1>3, <1>4, <1>5 DEF RatInv

(* Every transaction of the bench keeps the invariant.                     *)
LEMMA RatInvStep ==
  ASSUME RatInv, [RatBenchNext]_<< ratVars, epoch, ratBenchVars >>
  PROVE  RatInv'
<1>1. CASE Transaction
  <2>1. PICK p : IsInput(p) /\ Cycle(p)
    BY <1>1, TransactionIsLegal
  <2>2. p.flush \in BOOLEAN
    BY <2>1 DEF IsInput
  <2> QED
    BY <2>1, <2>2, FlushCycle, RestoreCycle, OrdinaryCycle
<1>2. epoch \in SUBSET Tag
  BY DEF RatInv, RatTypeOK
<1>3. CASE add_rob_entry_epoch_bits
  <2>1. UNCHANGED << rat, checkpoints, refcounts, dut >> /\ epoch' \in SUBSET Tag
    BY <1>2, <1>3 DEF add_rob_entry_epoch_bits
  <2> QED
    BY <2>1, EpochIsFree
<1>4. CASE UNCHANGED << ratVars, epoch, ratBenchVars >>
  <2>1. UNCHANGED << rat, checkpoints, refcounts, dut >> /\ epoch' \in SUBSET Tag
    BY <1>2, <1>4 DEF ratVars, ratBenchVars
  <2> QED
    BY <2>1, EpochIsFree
<1> QED
  BY <1>1, <1>3, <1>4 DEF RatBenchNext

(* Whatever a test drives, within the table's assertions and with tags     *)
(* that no other register's mapping names, the interface's shadow holds    *)
(* what register_alias_table.sv holds: mappings, checkpoints with their    *)
(* owners and images, and the slot to be offered next.                     *)
THEOREM ShadowFollowsTheTable == RatBenchSpec => []ShadowIsTheTable
<1>1. RatInv => ShadowIsTheTable
  BY DEF RatInv, RatTypeOK, ShadowIsTheTable, SameTable, SameSlots, SameMeta, SameImages, SameOffer, Saved
<1> QED
  BY <1>1, RatInvInit, RatInvStep, PTL DEF RatBenchSpec

(* The table never hides a mapping the reference model shows: the made-up  *)
(* valid vector holds every tag that a mapping names.                      *)
THEOREM LookupsAlwaysAgree == RatBenchSpec => []LookupsAgree
<1>1. RatInv => LookupsAgree
  <2> SUFFICES ASSUME RatInv, NEW r \in Reg
               PROVE  DutLookup(r) = Lookup(r)
    BY DEF LookupsAgree
  <2>1. SameMapping(rat[r], dut.rat[r]) /\ (rat[r].valid => rat[r].tag \in rob_entry_valid_mask)
    BY DEF RatInv, RatTypeOK, Mapping, SameTable, CountsHold, rob_entry_valid_mask
  <2> QED
    BY <2>1 DEF SameMapping, DutLookup, Lookup
<1> QED
  BY <1>1, RatInvInit, RatInvStep, PTL DEF RatBenchSpec

(* Both, for every depth of the reorder buffer, every number of            *)
(* checkpoints and every plan of a test.                                   *)
THEOREM BenchAlwaysAgrees == RatBenchSpec => []BenchAgreesWithTable
<1> QED
  BY ShadowFollowsTheTable, LookupsAlwaysAgree, PTL DEF BenchAgreesWithTable

=============================================================================
