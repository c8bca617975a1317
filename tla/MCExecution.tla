------------------------------ MODULE MCExecution ------------------------------
(* Bounds for model checking the execution core.                           *)
EXTENDS Execution

MCStages == [p \in Pipe |-> IF p = "MUL" THEN 1 ELSE 2]

MCWorkloads ==
  {[units |-> {"int", "branch"}, renamed |-> {1, 2}, live |-> 3],
   [units |-> {"int", "branch"}, renamed |-> {1}, live |-> 4],
   [units |-> {"int", "mem"}, renamed |-> {1}, live |-> 4],
   [units |-> {"mul", "branch"}, renamed |-> {}, live |-> 4],
   [units |-> {"div", "mul", "branch"}, renamed |-> {}, live |-> 3],
   [units |-> {"int", "mul", "mem"}, renamed |-> {}, live |-> 4]}

(* A state as seen from the head: tags relative to it, epochs relative to  *)
(* their entry's.                                                          *)
Rel(t) == IF t = None THEN None ELSE (t - HeadTag) % Depth
RelId(x) == IF x = None THEN None ELSE << Rel(x.tag), x = Current(x.tag) >>
RelSource(s) == << RelId(s.want), s.ready, RelId(s.got) >>
RelEntry(e) == IF e = None THEN None
               ELSE << RelId(e.id), e.is_branch_class, [k \in Sources |-> RelSource(e.src[k])] >>
RelTracked(e) == IF e = None THEN None ELSE << RelId(e.result), e.flushed >>

Queried == {bypass_tag[k][s] : k \in {1, 2}, s \in Sources} \ {None}

RelativeState ==
  << workload, Count, {Rel(t) : t \in rob_done \cap (Live \cup Queried)},
     {<< Rel(t), rob_unit[t] >> : t \in Live},
     {<< Rel(t), RelId(rob_value[t]) >> : t \in (Producers \cup Queried) \cap rob_done},
     [k \in {1, 2} |-> [s \in Sources |-> Rel(bypass_tag[k][s])]],
     {RelId(w) : w \in waiting}, [l \in {1, 2} |-> RelId(cdb_bus[l])],
     Rel(early_mispredict_pending), Rel(early_backend_recovery_pending),
     [f \in Fu |-> RelId(held_result[f])],
     [p \in Pipe |-> << [i \in 1 .. Stages[p] |-> RelTracked(trk[p][i])],
                        [i \in 1 .. Len(fifo[p]) |-> RelTracked(fifo[p][i])] >>],
     [i \in Index |-> RelEntry(rs_entry[i])], rs_count, repair_target,
     RelEntry(stage2), RelEntry(stage2b) >>

=============================================================================
