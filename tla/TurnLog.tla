-------------------------------- MODULE TurnLog --------------------------------
(***************************************************************************)
(* What storing conversation promises: every completed turn of a thread is *)
(* recorded once, complete turns wait in the open tail in a fixed relative *)
(* order, and they leave it only as the N oldest at a time, into a Block   *)
(* that is never changed afterwards.                                       *)
(***************************************************************************)
EXTENDS Naturals, Sequences, SequencesExt

CONSTANTS Thread, N, MaxTurn

VARIABLES
  open,       \* open[t]: complete turns that no Block holds yet, in stored order
  sealed      \* sealed[t]: the turns of t's Blocks, N per Block, in sealing order

vars == <<open, sealed>>

Init ==
  /\ open = [t \in Thread |-> <<>>]
  /\ sealed = [t \in Thread |-> <<>>]

\* A turn whose user message was stored ahead of time takes that message's place.
Store(t, n) ==
  /\ n \notin ToSet(open[t]) \cup ToSet(sealed[t])
  /\ \E i \in 1..(Len(open[t]) + 1) : open' = [open EXCEPT ![t] = InsertAt(@, i, n)]
  /\ UNCHANGED sealed

Seal(t) ==
  /\ Len(open[t]) >= N
  /\ sealed' = [sealed EXCEPT ![t] = @ \o SubSeq(open[t], 1, N)]
  /\ open' = [open EXCEPT ![t] = SubSeq(@, N + 1, Len(@))]

Next == \E t \in Thread : Seal(t) \/ \E n \in 1..MaxTurn[t] : Store(t, n)

Spec == Init /\ [][Next]_vars
=============================================================================
