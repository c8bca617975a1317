------------------------------ MODULE CdbArbiter ------------------------------
(***************************************************************************)
(* The two-lane common data bus: its arbiter, cdb_arbiter.sv, a balanced   *)
(* tree that keeps the two highest-priority requests, and the one-deep     *)
(* holding register between a functional unit and the bus,                 *)
(* fu_cdb_adapter.sv, one per unit with the parameters tomasulo_wrapper.sv *)
(* gives it.                                                               *)
(***************************************************************************)
EXTENDS RobTag

VARIABLE held_result  \* per unit; None when result_pending is clear

-----------------------------------------------------------------------------
(* The arbiter.  req maps every functional unit to the result it presents, *)
(* or to None.                                                             *)

Fu == {"MUL", "MEM", "ALU", "ALU2", "DIV", "FP_DIV", "FP_MUL", "FP_ADD"}

NoResult == [request |-> None, fu |-> "ALU"]

(* A leaf is the list of its one request; grant carries its source.        *)
MakeLeaf(req, fu) == [first |-> [request |-> req[fu], fu |-> fu], second |-> NoResult]

(* Every entry of higher outranks every entry of lower.                    *)
MergeTopTwo(higher, lower) ==
  [first  |-> IF higher.first.request # None THEN higher.first ELSE lower.first,
   second |-> IF higher.second.request # None THEN higher.second
              ELSE IF higher.first.request # None THEN lower.first ELSE lower.second]

HighFour(req) ==
  MergeTopTwo(MergeTopTwo(MakeLeaf(req, "MUL"), MakeLeaf(req, "MEM")),
              MergeTopTwo(MakeLeaf(req, "ALU"), MakeLeaf(req, "ALU2")))

LowFour(req) ==
  MergeTopTwo(MergeTopTwo(MakeLeaf(req, "DIV"), MakeLeaf(req, "FP_DIV")),
              MergeTopTwo(MakeLeaf(req, "FP_MUL"), MakeLeaf(req, "FP_ADD")))

TreeRoot(req) == MergeTopTwo(HighFour(req), LowFour(req))

(* The two lanes, and the units granted; a full flush kills both.          *)
CdbLanes(req, kill) ==
  IF kill THEN << None, None >>
  ELSE << TreeRoot(req).first.request, TreeRoot(req).second.request >>

Grants(req, kill) ==
  IF kill THEN {}
  ELSE {r.fu : r \in {s \in {TreeRoot(req).first, TreeRoot(req).second} : s.request # None}}

-----------------------------------------------------------------------------
(* The adapters.  in is the unit's result of this cycle, or None; fl is    *)
(* the flush command.                                                      *)

(* Parameters of the instances.                                            *)
RegisterOutput     == {"DIV", "FP_ADD", "FP_MUL", "FP_DIV"}
AllowGrantRefill   == {"ALU", "ALU2"}
UnqualifiedPayload == {"ALU2"}  \* ALLOW_GRANT_REFILL_PAYLOAD_WRITE = 0

ResultPending(f) == held_result[f] # None

PartialFlush(result, fl) == result # None /\ Squashes(fl, result.tag)

(* o_fu_complete: the held result, else (unless registered) the input.     *)
FuComplete(f, in, fl) ==
  LET out == IF ResultPending(f) THEN held_result[f]
             ELSE IF f \in RegisterOutput THEN None ELSE in
  IN IF PartialFlush(out, fl) THEN None ELSE out

(* Mutant: a result flushed in the cycle it arrives is captured.           *)
PendingUnfiltered(f, in, grant, fl) ==
  IF fl.all \/ PartialFlush(held_result[f], fl) THEN FALSE
  ELSE IF ResultPending(f) THEN ~grant
  ELSE in # None /\ (f \in RegisterOutput \/ ~grant)

PendingNext(f, in, grant, fl) ==
  LET capture == in # None /\ ~PartialFlush(in, fl) IN
    IF fl.all \/ PartialFlush(held_result[f], fl) THEN FALSE
    ELSE IF ResultPending(f) THEN ~grant \/ (f \in AllowGrantRefill /\ capture)
    ELSE capture /\ (f \in RegisterOutput \/ ~grant)

PayloadNext(f, in, grant) ==
  IF in # None /\ (\/ f \in UnqualifiedPayload \/ ~ResultPending(f)
                   \/ f \in AllowGrantRefill /\ grant)
  THEN in ELSE held_result[f]

AdapterInit == held_result = [f \in Fu |-> None]

AdapterClock(in, grants, fl) ==
  held_result' = [f \in Fu |-> IF PendingNext(f, in[f], f \in grants, fl)
                               THEN PayloadNext(f, in[f], f \in grants) ELSE None]

=============================================================================
