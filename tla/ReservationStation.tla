-------------------------- MODULE ReservationStation --------------------------
(***************************************************************************)
(* The integer reservation station, reservation_station.sv as instance     *)
(* u_int_rs: two dispatch slots, two issue ports with one register stage   *)
(* each, wakeup from the two CDB lanes (in the entries, at dispatch and in *)
(* the issue select), and the one-cycle-later repair of the sources whose  *)
(* producer had finished before dispatch.                                  *)
(*                                                                         *)
(* A source is [want, ready, got]: the producer it was renamed to (None    *)
(* for a value from the register file), its ready bit, and the value it    *)
(* holds.  Data registers of an entry whose valid bit is clear are not     *)
(* represented: the station fills them speculatively and never reads them. *)
(***************************************************************************)
EXTENDS RobTag, FiniteSets

CONSTANTS RsDepth,  \* riscv_pkg::IntRsDepth
          Sources   \* the sources an entry has

ASSUME RsAssumption == RsDepth \in Nat /\ RsDepth >= 2

VARIABLES rs_entry,          \* per index: None or [id, is_branch_class, src]
          rs_count,          \* count
          repair_target,     \* repair_slot1_target_q, repair_slot2_target_q
          stage2, stage2b    \* the entry each issue port presents, or None

Index  == 0 .. RsDepth - 1
Source == [want : Id \cup {None}, ready : BOOLEAN, got : Id \cup {None}]
Entry  == [id : Id, is_branch_class : BOOLEAN, src : [Sources -> Source]]

ASSUME EntryAssumption == None \notin Entry

rs_valid == {i \in Index : rs_entry[i] # None}

Lowest(S) == CHOOSE i \in S : \A j \in S : i <= j

FreeIdx  == Lowest(Index \ rs_valid)
FreeIdx2 == Lowest(Index \ (rs_valid \cup {FreeIdx}))

Full     == rs_count = RsDepth
FullFor2 == rs_count >= RsDepth - 1

-----------------------------------------------------------------------------
(* Wakeup.  cdb is the pair of registered lanes; repair[k][s] is the value *)
(* the reorder buffer returns for source s of what slot k dispatched a     *)
(* cycle ago, or None.                                                     *)

Filled(s, v) == [s EXCEPT !.ready = TRUE, !.got = v]

LaneHit(s, lane) == ~s.ready /\ lane # None /\ s.want.tag = lane.tag

CdbWake(s, cdb) == IF LaneHit(s, cdb[1]) THEN Filled(s, cdb[1])
                   ELSE IF LaneHit(s, cdb[2]) THEN Filled(s, cdb[2]) ELSE s

(* At dispatch, against the lanes of the same cycle.                       *)
DispatchWake(s, cdb) == CdbWake(s, cdb)

(* Mutant: slot 2's entry is repaired from slot 1's query.                 *)
RepairFromSlot1(i, k, cdb, repair) ==
  LET s == rs_entry[i].src[k] IN
    IF LaneHit(s, cdb[1]) \/ LaneHit(s, cdb[2]) THEN CdbWake(s, cdb)
    ELSE IF ~s.ready /\ i \in {repair_target[1], repair_target[2]} /\ repair[1][k] # None
    THEN Filled(s, repair[1][k]) ELSE s

(* In a resident entry: the lanes, then the repair of a fresh entry.       *)
ResidentWake(i, k, cdb, repair) ==
  LET s == rs_entry[i].src[k] IN
    IF LaneHit(s, cdb[1]) \/ LaneHit(s, cdb[2]) THEN CdbWake(s, cdb)
    ELSE IF ~s.ready /\ repair_target[1] = i /\ repair[1][k] # None THEN Filled(s, repair[1][k])
    ELSE IF ~s.ready /\ repair_target[2] = i /\ repair[2][k] # None THEN Filled(s, repair[2][k])
    ELSE s

Resident(i, cdb, repair) ==
  [rs_entry[i] EXCEPT !.src = [k \in Sources |-> ResidentWake(i, k, cdb, repair)]]

(* What the issue select sees: the lanes only.                             *)
Bypassed(i, cdb) == [rs_entry[i] EXCEPT !.src = [k \in Sources |-> CdbWake(@[k], cdb)]]

-----------------------------------------------------------------------------
(* Issue.  Port 0 takes the lowest ready entry, port 1 the lowest other    *)
(* one that is not a branch (rs_issue2_selector.sv).                       *)

EntryReady(cdb) == {i \in rs_valid : \A k \in Sources : Bypassed(i, cdb).src[k].ready}

Ports1(cdb) == {i \in EntryReady(cdb) : /\ ~rs_entry[i].is_branch_class
                                        /\ i # Lowest(EntryReady(cdb))}

StageFlushed(st, fl) == st # None /\ (fl.all \/ Squashes(fl, st.id.tag))

StageAccept(st, ready, fl) == st # None /\ ready /\ ~StageFlushed(st, fl)

CanIssue(st, ready, fl) == /\ ready /\ ~fl.all /\ ~fl.en
                           /\ st = None \/ StageAccept(st, ready, fl)

(* The entries that leave: none, or one per port.                          *)
IssueFire(ready, cdb, fl) ==
  IF EntryReady(cdb) # {} /\ CanIssue(stage2, ready, fl) THEN {Lowest(EntryReady(cdb))} ELSE {}

IssueFire2(ready, cdb, fl) ==
  IF Ports1(cdb) # {} /\ CanIssue(stage2b, ready, fl) THEN {Lowest(Ports1(cdb))} ELSE {}

(* o_issue is not gated by a flush of the same cycle: what is being        *)
(* squashed may still issue, and the unit behind has to drop it.           *)
Issue(st, ready) == IF ready THEN st ELSE None

StageNext(st, fire, ready, cdb, fl) ==
  IF StageFlushed(st, fl) THEN None
  ELSE IF fire # {} THEN Bypassed(CHOOSE i \in fire : TRUE, cdb)
  ELSE IF StageAccept(st, ready, fl) THEN None ELSE st

-----------------------------------------------------------------------------
(* Dispatch: d is the pair of entries presented, or None.                  *)

DispatchFire1(d) == d[1] # None /\ ~Full
DispatchFire2(d) == d[2] # None /\ (IF DispatchFire1(d) THEN ~FullFor2 ELSE ~Full)
AllocIdx2(d)     == IF d[1] # None THEN FreeIdx2 ELSE FreeIdx

Dispatched(e, cdb) == [e EXCEPT !.src = [k \in Sources |-> DispatchWake(@[k], cdb)]]

Bit(b) == IF b THEN 1 ELSE 0

RsInit ==
  /\ rs_entry = [i \in Index |-> None] /\ rs_count = 0
  /\ repair_target = << None, None >> /\ stage2 = None /\ stage2b = None

RsClock(d, ready, ready2, cdb, repair, fl) ==
  LET fire  == IssueFire(ready, cdb, fl)
      fire2 == IssueFire2(ready2, cdb, fl)
      disp1 == DispatchFire1(d) /\ ~fl.all /\ ~fl.en
      disp2 == DispatchFire2(d) /\ ~fl.all /\ ~fl.en
      keeps == {i \in rs_valid : ~fl.all /\ ~Squashes(fl, rs_entry[i].id.tag)}
                 \ (fire \cup fire2)
  IN /\ rs_entry' = [i \in Index |->
                       IF disp2 /\ i = AllocIdx2(d) THEN Dispatched(d[2], cdb)
                       ELSE IF disp1 /\ i = FreeIdx THEN Dispatched(d[1], cdb)
                       ELSE IF i \in keeps THEN Resident(i, cdb, repair) ELSE None]
     /\ rs_count' = IF fl.all THEN 0
                    ELSE IF fl.en THEN Cardinality(keeps)
                    ELSE rs_count - Bit(fire # {}) - Bit(fire2 # {}) + Bit(disp1) + Bit(disp2)
     /\ repair_target' = << IF disp1 THEN FreeIdx ELSE None,
                            IF disp2 THEN AllocIdx2(d) ELSE None >>
     /\ stage2' = StageNext(stage2, fire, ready, cdb, fl)
     /\ stage2b' = StageNext(stage2b, fire2, ready2, cdb, fl)

=============================================================================
