----------------------------- MODULE MCGoldenModels -----------------------------
(* Instances of the golden models for TLC.                                 *)
EXTENDS GoldenModels

MCRsDepth == [st \in Station |-> IF st = "INT" THEN 2 ELSE 1]

Ins(cls, dest, one, two) == [cls |-> cls, dest |-> dest, srcs |-> << one, two >>]
Write  == Ins("int", "x1", "x0", "x1")
Read   == Ins("int", "x0", "x1", "x0")
Branch == Ins("branch", "x0", "x1", "x0")
Other(cls) == Ins(cls, "x0", "x0", "x1")
Link   == Ins("jal", "x1", "x0", "x0")

Test(program, masks) ==
  [unit |-> "core", program |-> program, masks |-> masks, strict |-> FALSE, faults |-> FALSE,
   plan |-> << >>, base |-> 0]
QueueTest(unit, plan_, base) ==
  [Test(<< >>, TRUE) EXCEPT !.unit = unit, !.plan = plan_, !.base = base]

(* Six instructions wrap a buffer of four.                                 *)
MCWorkloads ==
  {Test(<< Write, Branch, a, b, c, Read >>, TRUE) : a, b, c \in {Write, Branch}}
  \cup {Test(<< Write, Branch, a, b, Read >>, FALSE) : a, b \in {Write, Branch}}
  \cup {[Test(<< Write, a, Link, Other("store"), b, Read >>, TRUE) EXCEPT !.strict = TRUE] :
      a, b \in {Write, Other("store")}}
  \cup {[Test(<< Write, Other(a), Branch, Other(b), Read >>, TRUE) EXCEPT !.faults = TRUE] :
      a \in {"csr", "fence", "wfi", "mret"}, b \in {"csr", "mret"}}
  \cup {QueueTest("sq", << a, b, "store", "store", "store" >>, 2) :
      a, b \in {"store", "sc"}}
  \cup {QueueTest("lq", << "load", "load", "mmio", "load" >>, 3)}
  \cup {QueueTest("lq", << a, "mmio", "load" >>, 0) : a \in {"lr", "amo"}}
  \cup {QueueTest("cdb", << >>, 0)}
  \cup {QueueTest("rat", a, 0) :
      a \in {<< "rename_2", "save", "replace", "restore" >>, << "bundle", "save", "save", "restore" >>,
             << "rename", "save_2", "epoch", "restore" >>, << "rename", "save_2", "free" >>,
             << "bundle", "save", "commit", "restore" >>, << "rename", "save", "flush" >>}}

(* What an invalid entry, mapping or slot still holds is never read.       *)
Live(e) == IF e.valid THEN e ELSE None
MCView ==
  << workload, pos, [t \in Tag |-> Live(entries[t])], head_ptr, tail_ptr, serial_state,
     [r \in Reg |-> Live(rat[r])],
     [c \in Checkpoint |->
        IF checkpoints[c].valid
        THEN [checkpoints[c] EXCEPT !.rat = [r \in Reg |-> Live(checkpoints[c].rat[r])]] ELSE None],
     [st \in Station |-> [i \in DOMAIN rs[st] |-> Live(rs[st][i])]],
     alloc_blocked, epoch, executing, raised, cdbVars,
     benchVars, [i \in Sq |-> Live(sq[i])], sq_head, sq_tail, write_outstanding, writing, written,
     [i \in Lq |-> Live(lq[i])], lq_head, lq_tail, mem_outstanding, issued_idx, cdb_stage,
     reservation, amo, owner, delivered, refcounts, transactions,
     [r \in Reg |-> Live(dut.rat[r])], dut.valid, dut.alloc,
     [c \in dut.valid |-> << dut.meta[c], [r \in Reg |-> Live(dut.image[c][r])] >>] >>
=============================================================================
