----------------------------- MODULE BlockPipeline -----------------------------
(***************************************************************************)
(* What the derivation of Blocks promises to the rest of the system: a     *)
(* Block is sealed, then summarized once with a decision whether to look   *)
(* for Events in it, and then becomes ready together with the Event cards  *)
(* found in it, all in that order and none of it twice.                    *)
(***************************************************************************)
EXTENDS Naturals

CONSTANT Block

VARIABLES stage, plan, cards

vars == <<stage, plan, cards>>

Init ==
  /\ stage = [b \in Block |-> "absent"]
  /\ plan = [b \in Block |-> "none"]
  /\ cards = [b \in Block |-> 0]

Seal(b) ==
  /\ stage[b] = "absent"
  /\ stage' = [stage EXCEPT ![b] = "sealed"]
  /\ UNCHANGED <<plan, cards>>

Summarize(b) ==
  /\ stage[b] = "sealed"
  /\ stage' = [stage EXCEPT ![b] = "summarized"]
  /\ \E v \in {"extract", "skip"} : plan' = [plan EXCEPT ![b] = v]
  /\ UNCHANGED cards

Finish(b) ==
  /\ stage[b] = "summarized"
  /\ stage' = [stage EXCEPT ![b] = "ready"]
  /\ \/ UNCHANGED cards
     \/ plan[b] = "extract" /\ cards' = [cards EXCEPT ![b] = 1]
  /\ UNCHANGED plan

Next == \E b \in Block : Seal(b) \/ Summarize(b) \/ Finish(b)

Spec == Init /\ [][Next]_vars
=============================================================================
