-------------------------------- MODULE RobTag --------------------------------
(***************************************************************************)
(* Reorder-buffer tags and their ages, as every unit outside the buffer    *)
(* computes them (is_younger and should_flush_entry of the reservation     *)
(* stations, the CDB adapters and the functional-unit shims), and the      *)
(* flush command those units receive.                                      *)
(*                                                                         *)
(* An instruction is identified by its tag and its epoch, a bit that the   *)
(* entry toggles whenever it is allocated.  The hardware of these units    *)
(* sees the tag only.  The value an instruction produces is represented by *)
(* the instruction itself, so that a value taken from the wrong producer,  *)
(* or from an earlier owner of the right tag, is told apart.               *)
(***************************************************************************)
EXTENDS Integers

CONSTANTS Depth,  \* riscv_pkg::ReorderBufferDepth
          None    \* a register or a bus whose valid bit is clear

ASSUME DepthAssumption == Depth \in Nat /\ Depth >= 4

Tag == 0 .. Depth - 1
Ptr == 0 .. 2 * Depth - 1
Id  == [tag : Tag, epoch : {0, 1}]

ASSUME NoneAssumption == None \notin Id \cup Tag

(* Ages have one bit more than tags.                                       *)
Age(t, head) == IF t >= head THEN t - head ELSE t - head + 2 * Depth

IsYounger(t, u, head) == Age(t, head) > Age(u, head)

(* A flush command is [all, en, tag, head]: everything goes, or everything *)
(* younger than tag, ages being measured from head.                        *)
Squashes(fl, t) == fl.en /\ IsYounger(t, fl.tag, fl.head)

=============================================================================
