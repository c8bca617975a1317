-------------------------- MODULE InstructionWindow --------------------------
(***************************************************************************)
(* What a reorder buffer promises, without rings, tags or wrap bits: a     *)
(* queue of the instructions in flight, oldest first.  In one cycle it may *)
(* retire up to two finished instructions from the front and append up to  *)
(* two at the back, or squash a suffix.  Nothing is reordered, nothing is  *)
(* lost from the middle, nothing that failed retires.                      *)
(***************************************************************************)
EXTENDS Naturals, Sequences

CONSTANTS Capacity,  \* how many instructions may be in flight
          Alone      \* the classes that retire only by themselves

VARIABLE window  \* sequence of [cls, done, exception], oldest first

Init == window = << >>

(* An instruction in flight keeps its class and, once done, stays done.    *)
Evolves(before, after) ==
  /\ after.cls = before.cls
  /\ before.done => after.done /\ after.exception = before.exception

(* The front n retire, the next k stay, the rest is squashed or new.       *)
Cycle(n, k) ==
  /\ n + k <= Len(window) /\ k <= Len(window')
  /\ \A j \in 1 .. n : ~window[j].exception
  /\ n = 2 => window[1].cls \notin Alone /\ window[2].cls \notin Alone
  /\ \A j \in 1 .. k : Evolves(window[n + j], window'[j])
  /\ n + k < Len(window) => n = 0 /\ Len(window') = k
  /\ Len(window') <= k + 2
  /\ Len(window') <= Capacity

Next == \E n \in 0 .. 2, k \in 0 .. Capacity : Cycle(n, k)

Spec == Init /\ [][Next]_window

=============================================================================
