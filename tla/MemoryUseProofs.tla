---------------------------- MODULE MemoryUseProofs ----------------------------
(***************************************************************************)
(* Proofs about MemoryUse, for any number of instances, calls, memories,   *)
(* receipts and failed commits: a use is counted once, and patching single *)
(* rows leaves an instance with the memory that is stored. And about       *)
(* SemanticRecall: a card is ranked by a vector of the text it has.        *)
(***************************************************************************)
EXTENDS MemoryUse, SemanticRecall, SequenceTheorems, FiniteSetTheorems, TLAPS

Receipts == [id: UseReceipt, refs: SUBSET Memory]
Records == [rev: Nat, used: [Memory -> Nat], receipts: SUBSET Receipts, level: Int,
            by: {"none", "user", "agent"}, surface: Int]
Calls == [at: Instance \cup {"nowhere"}, ask: Asked,
          phase: {"none", "waiting", "committed", "swept", "answered", "failed"}]

UseTypes ==
  /\ db \in Records /\ view \in [Instance -> Records]
  /\ calls \in [Call -> Calls] /\ line \in [Instance -> Seq(Call)]

\* A call waits in one place of one queue, and only the one that holds the queue has committed.
LineOK(i) ==
  \A k \in DOMAIN line[i] :
    /\ calls[line[i][k]].at = i /\ calls[line[i][k]].phase \in {"waiting", "committed", "swept"}
    /\ k # 1 => calls[line[i][k]].phase = "waiting"
    /\ \A l \in DOMAIN line[i] : line[i][k] = line[i][l] => k = l

\* All but the pointer.
Agree(s, u) == s.rev = u.rev /\ s.used = u.used /\ s.receipts = u.receipts /\ s.by = u.by /\ s.surface = u.surface

HasCommitted(i) == line[i] # <<>> /\ calls[Holder(i)].phase \in {"committed", "swept"}

\* Where the copy stands: it is never ahead, at the stored revision it agrees, and one that has still
\* to follow its own commit will agree, if nobody has committed after it.
ViewOK(i) ==
  /\ view[i].rev <= db.rev
  /\ view[i].rev = db.rev => Agree(view[i], db)
  /\ HasCommitted(i) => view[i].rev < db.rev
  /\ HasCommitted(i) /\ db.rev = view[i].rev + 1 => Agree(Followed(i), db)

\* Uses are as many as the receipts that name the memory.
CountOK(s) ==
  IsFiniteSet(s.receipts) /\ \A m \in Memory : s.used[m] = Cardinality({r \in s.receipts : m \in r.refs})

UseInv ==
  /\ UseTypes /\ \A i \in Instance : LineOK(i) /\ ViewOK(i)
  /\ CountOK(db)

-----------------------------------------------------------------------------
(* Records                                                                 *)

LEMMA AskedTypes ==
  ASSUME NEW a \in Asked
  PROVE  /\ a.kind \in {"use", "lift", "surface"} /\ a.by \in {"none", "user", "agent"}
         /\ a.refs \subseteq Memory /\ a.level \in Int
         /\ a.kind = "use" => a.receipt \in UseReceipt
  BY DEF Asked, Use, Lift, Surface

\* An operation keeps the revision and the shape of the records.
LEMMA DoneTypes ==
  ASSUME NEW s \in Records, NEW a \in Asked
  PROVE  Done(s, a) \in Records /\ Done(s, a).rev = s.rev
<1>1. CASE a.kind = "use"
  <2>1. a.refs \subseteq Memory /\ a.receipt \in UseReceipt
    BY <1>1, AskedTypes
  <2>2. [id |-> a.receipt, refs |-> a.refs] \in Receipts
    BY <2>1 DEF Receipts
  <2>3. s.used \in [Memory -> Nat] /\ s.receipts \subseteq Receipts
    BY DEF Records
  <2>4. [m \in Memory |-> s.used[m] + (IF m \in a.refs THEN 1 ELSE 0)] \in [Memory -> Nat]
    BY <2>3
  <2> QED BY <1>1, <2>2, <2>3, <2>4 DEF Done, Counted, Records
<1>2. CASE a.kind = "lift"
  BY <1>2, AskedTypes DEF Done, Lifted, Records
<1>3. CASE a.kind = "surface"
  BY <1>3, AskedTypes DEF Done, Records
<1> QED BY <1>1, <1>2, <1>3, AskedTypes

\* Copies that differ by the pointer alone do so after the same operation.
LEMMA DoneAgrees ==
  ASSUME NEW s \in Records, NEW u \in Records, NEW a \in Asked, Agree(s, u)
  PROVE  Agree(Done(s, a), Done(u, a))
<1>1. CASE a.kind = "use"
  BY <1>1 DEF Done, Counted, Records, Agree
<1>2. CASE a.kind # "use"
  BY <1>2 DEF Done, Lifted, Records, Agree
<1> QED BY <1>1, <1>2

LEMMA AgreeCounts ==
  ASSUME NEW s, NEW u, Agree(s, u), CountOK(u)
  PROVE  CountOK(s)
  BY DEF Agree, CountOK

\* A receipt that is not there yet counts one use of each memory it names.
LEMMA DoneCounts ==
  ASSUME NEW s \in Records, NEW a \in Asked, CountOK(s), a.kind = "use" => ~Recorded(s, a)
  PROVE  CountOK(Done(s, a))
<1>1. CASE a.kind # "use"
  BY <1>1 DEF Done, Lifted, CountOK, Records
<1>2. CASE a.kind = "use"
  <2> DEFINE new == [id |-> a.receipt, refs |-> a.refs]
             With(m) == {r \in s.receipts : m \in r.refs}
             After(m) == {r \in s.receipts \cup {new} : m \in r.refs}
  <2>1. new \notin s.receipts
    BY <1>2 DEF Recorded, Named
  <2>2. /\ Done(s, a).receipts = s.receipts \cup {new}
        /\ \A m \in Memory : Done(s, a).used[m] = s.used[m] + (IF m \in a.refs THEN 1 ELSE 0)
    BY <1>2 DEF Done, Counted, Records
  <2>3. IsFiniteSet(s.receipts \cup {new})
    BY FS_AddElement DEF CountOK
  <2>4. ASSUME NEW m \in Memory
        PROVE  Done(s, a).used[m] = Cardinality(After(m))
    <3>1. IsFiniteSet(With(m))
      BY FS_Subset DEF CountOK
    <3>2. s.used[m] = Cardinality(With(m)) /\ s.used[m] \in Nat
      BY DEF CountOK, Records
    <3>3. CASE m \in a.refs
      <4>1. After(m) = With(m) \cup {new}
        BY <3>3
      <4>2. new \notin With(m)
        BY <2>1
      <4>3. Cardinality(With(m) \cup {new}) = Cardinality(With(m)) + 1
        <5> HIDE DEF With, new
        <5> QED BY <3>1, <4>2, FS_AddElement
      <4>4. Done(s, a).used[m] = s.used[m] + 1
        BY <2>2, <3>3
      <4> HIDE DEF After, With
      <4> QED BY <3>2, <4>1, <4>3, <4>4
    <3>4. CASE m \notin a.refs
      <4>1. After(m) = With(m)
        BY <3>4
      <4>2. Done(s, a).used[m] = s.used[m]
        BY <2>2, <3>2, <3>4
      <4> HIDE DEF After, With
      <4> QED BY <3>2, <4>1, <4>2
    <3> QED BY <3>3, <3>4
  <2> QED BY <2>2, <2>3, <2>4 DEF CountOK
<1> QED BY <1>1, <1>2

\* What a commit writes is what the instance will have once it follows, the pointer excepted:
\* the stored row patched, or the whole copy.
LEMMA WrittenFollows ==
  ASSUME NEW i \in Instance, NEW a \in Asked, view[i] \in Records, db \in Records,
         Agree(view[i], db), CountOK(db), ~Settled(i, a)
  PROVE  /\ Written(i, a) \in Records /\ Written(i, a).rev = db.rev + 1
         /\ Agree([Done(view[i], a) EXCEPT !.rev = view[i].rev + 1], Written(i, a))
         /\ CountOK(Written(i, a))
<1> DEFINE s == view[i]
           D == Done(s, a)
           E == Done(db, a)
<1>1. D \in Records /\ E \in Records /\ D.rev = s.rev /\ E.rev = db.rev /\ s.rev = db.rev /\ s.rev \in Nat /\ s.level \in Int
  BY DoneTypes DEF Agree, Records
<1>2. Agree(D, E)
  BY DoneAgrees
<1>3. a.kind = "use" => ~Recorded(s, a) /\ ~Recorded(db, a)
  BY DEF Settled, Recorded, Named, Agree
<1>4. CountOK(D) /\ CountOK(E)
  BY <1>3, AgreeCounts, DoneCounts
<1>5. \E base \in {D, E} : \E level \in {base.level, s.level} :
        Written(i, a) = [base EXCEPT !.level = level, !.rev = s.rev + 1]
  <2> HIDE DEF D, E
  <2>1. \A base \in Records : [base EXCEPT !.rev = s.rev + 1] = [base EXCEPT !.level = base.level, !.rev = s.rev + 1]
    BY <1>1 DEF Records
  <2>2. Written(i, a) = [IF i \in moved /\ a.kind # "surface" THEN D
                         ELSE IF a.kind = "surface" THEN [E EXCEPT !.level = s.level] ELSE E
                         EXCEPT !.rev = s.rev + 1]
    BY <1>3 DEF Written, D, E
  <2>3. CASE i \in moved /\ a.kind # "surface"
    BY <1>1, <2>1, <2>2, <2>3
  <2>4. CASE a.kind = "surface"
    BY <1>1, <2>2, <2>4 DEF Records
  <2>5. CASE i \notin moved /\ a.kind # "surface"
    BY <1>1, <2>1, <2>2, <2>5
  <2> QED BY <2>3, <2>4, <2>5
<1> HIDE DEF D, E
<1>6. PICK base \in {D, E}, level \in Int : Written(i, a) = [base EXCEPT !.level = level, !.rev = s.rev + 1]
  BY <1>1, <1>5 DEF Records
<1>7. base \in Records /\ Agree(D, base) /\ CountOK(base)
  BY <1>1, <1>2, <1>4 DEF Agree
<1>8. Written(i, a) \in Records /\ Written(i, a).rev = db.rev + 1
  <2> DEFINE n == s.rev + 1
             W == [base EXCEPT !.level = level, !.rev = n]
  <2>1. n \in Nat /\ n = db.rev + 1 /\ base \in Records /\ level \in Int
    BY <1>1, <1>7
  <2>2. Written(i, a) = W
    BY <1>6
  <2> HIDE DEF n
  <2>3. W \in Records /\ W.rev = n
    BY <2>1 DEF Records
  <2> QED BY <2>1, <2>2, <2>3
<1>9. CountOK(Written(i, a))
  BY <1>6, <1>7 DEF CountOK, Records
<1>10. Agree([D EXCEPT !.rev = s.rev + 1], Written(i, a))
  BY <1>1, <1>6, <1>7 DEF Agree, Records
<1> QED BY <1>8, <1>9, <1>10 DEF D

-----------------------------------------------------------------------------
(* Queues                                                                  *)

\* What each operation needs of the call that holds a queue.
LEMMA HolderKnown ==
  ASSUME UseTypes, NEW i \in Instance, LineOK(i), line[i] # <<>>
  PROVE  /\ Holder(i) \in Call /\ calls[Holder(i)] \in Calls /\ calls[Holder(i)].at = i
         /\ Ask(Holder(i)) \in Asked /\ line[i] \in Seq(Call) /\ 1 \in DOMAIN line[i] /\ Holder(i) = line[i][1]
<1>1. line[i] \in Seq(Call)
  BY DEF UseTypes
<1>2. Holder(i) = line[i][1] /\ 1 \in DOMAIN line[i] /\ Holder(i) \in Call
  BY <1>1 DEF Holder
<1>3. calls[Holder(i)] \in Calls
  BY <1>2 DEF UseTypes
<1> QED BY <1>1, <1>2, <1>3 DEF LineOK, Calls, Ask

\* A call that leaves the head of its queue: the queue behind it waits.
LEMMA LeaveKeeps ==
  ASSUME UseTypes, NEW i \in Instance, \A j \in Instance : LineOK(j), line[i] # <<>>,
         NEW phase \in {"answered", "failed"}, Leave(i, Holder(i), phase)
  PROVE  /\ calls' \in [Call -> Calls] /\ line' \in [Instance -> Seq(Call)]
         /\ \A j \in Instance : LineOK(j)'
         /\ ~HasCommitted(i)'
         /\ \A j \in Instance \ {i} : HasCommitted(j)' = HasCommitted(j) /\ line'[j] = line[j]
                                      /\ (line[j] # <<>> => Ask(Holder(j))' = Ask(Holder(j)))
<1> DEFINE c == Holder(i)
<1>1. /\ c \in Call /\ calls[c] \in Calls /\ calls[c].at = i /\ line[i] \in Seq(Call)
      /\ 1 \in DOMAIN line[i] /\ c = line[i][1]
  BY HolderKnown
<1>2. calls' = [calls EXCEPT ![c].phase = phase] /\ line' = [line EXCEPT ![i] = Tail(line[i])]
  BY DEF Leave
<1> HIDE DEF c
<1>3. calls' \in [Call -> Calls] /\ \A d \in Call \ {c} : calls'[d] = calls[d]
  BY <1>1, <1>2 DEF UseTypes, Calls
<1>4. line' \in [Instance -> Seq(Call)] /\ line'[i] = Tail(line[i]) /\ \A j \in Instance \ {i} : line'[j] = line[j]
  BY <1>1, <1>2 DEF UseTypes
<1>5. \A j \in Instance \ {i} : \A k \in DOMAIN line[j] : line[j][k] \in Call \ {c}
  BY <1>1 DEF LineOK, UseTypes
<1>6. Len(line[i]) \in Nat /\ Len(Tail(line[i])) = Len(line[i]) - 1 /\ DOMAIN line[i] = 1..Len(line[i])
      /\ DOMAIN Tail(line[i]) = 1..(Len(line[i]) - 1)
      /\ \A k \in 1..(Len(line[i]) - 1) : Tail(line[i])[k] = line[i][k + 1]
  BY <1>1
<1>7. ASSUME NEW k \in DOMAIN line'[i]
      PROVE  /\ k + 1 \in DOMAIN line[i] /\ k + 1 # 1 /\ line'[i][k] = line[i][k + 1]
             /\ line[i][k + 1] \in Call \ {c}
  BY <1>1, <1>4, <1>6 DEF LineOK
<1>8. ASSUME NEW k \in DOMAIN line'[i]
      PROVE  calls'[line'[i][k]].at = i /\ calls'[line'[i][k]].phase = "waiting"
  BY <1>3, <1>7 DEF LineOK
<1>9. LineOK(i)'
  <2>1. ASSUME NEW k \in DOMAIN line'[i], NEW l \in DOMAIN line'[i], line'[i][k] = line'[i][l]
        PROVE  k = l
    <3>1. k + 1 = l + 1
      BY <1>7, <2>1 DEF LineOK
    <3> QED BY <1>4, <1>6, <3>1
  <2> QED BY <1>8, <2>1 DEF LineOK
<1>10. \A j \in Instance \ {i} : LineOK(j)'
  BY <1>3, <1>4, <1>5 DEF LineOK
<1>11. ~HasCommitted(i)'
  <2> SUFFICES ASSUME line'[i] # <<>> PROVE calls'[Head(line'[i])].phase = "waiting"
    BY DEF HasCommitted, Holder
  <2>1. line'[i] \in Seq(Call)
    BY <1>4
  <2>2. 1 \in DOMAIN line'[i] /\ Head(line'[i]) = line'[i][1]
    BY <2>1
  <2> QED BY <1>8, <2>2
<1>12. ASSUME NEW j \in Instance \ {i}
       PROVE  HasCommitted(j)' = HasCommitted(j) /\ line'[j] = line[j] /\ (line[j] # <<>> => Ask(Holder(j))' = Ask(Holder(j)))
  <2>1. CASE line[j] = <<>>
    BY <1>4, <2>1 DEF HasCommitted
  <2>2. CASE line[j] # <<>>
    <3>1. line[j] \in Seq(Call)
      BY DEF UseTypes
    <3>2. 1 \in DOMAIN line[j] /\ Holder(j) = line[j][1] /\ Holder(j)' = Holder(j)
      BY <1>4, <2>2, <3>1 DEF Holder
    <3>3. calls'[Holder(j)] = calls[Holder(j)]
      BY <1>3, <1>5, <3>2
    <3> QED BY <1>4, <3>2, <3>3 DEF HasCommitted, Ask
  <2> QED BY <2>1, <2>2
<1> QED BY <1>3, <1>4, <1>9, <1>10, <1>11, <1>12

-----------------------------------------------------------------------------
(* The invariant                                                           *)

\* What the copies look like depends on the store, the copies and the calls that have committed.
LEMMA ViewsKept ==
  ASSUME UseInv, UNCHANGED db, NEW i \in Instance, view'[i] = view[i],
         HasCommitted(i)' => HasCommitted(i) /\ Ask(Holder(i))' = Ask(Holder(i))
  PROVE  ViewOK(i)'
<1>1. ViewOK(i)
  BY DEF UseInv
<1>2. HasCommitted(i)' => Followed(i)' = Followed(i)
  BY DEF Followed
<1> QED BY <1>1, <1>2 DEF ViewOK

LEMMA InitHolds == UseInit => UseInv
<1> SUFFICES ASSUME UseInit PROVE UseInv
  OBVIOUS
<1>1. Fresh0 \in Records
  BY DEF Fresh0, Records
<1>2. [at |-> "nowhere", ask |-> Surface(4), phase |-> "none"] \in Calls
  BY DEF Calls, Asked
<1>3. UseTypes
  BY <1>1, <1>2 DEF UseInit, UseTypes
<1>4. \A i \in Instance : LineOK(i) /\ ViewOK(i)
  BY <1>1 DEF UseInit, LineOK, ViewOK, HasCommitted, Agree, Records
<1>5. CountOK(db)
  BY FS_EmptySet DEF UseInit, Fresh0, CountOK
<1> QED BY <1>3, <1>4, <1>5 DEF UseInv

LEMMA ArriveKeeps ==
  ASSUME UseInv, NEW c \in Call, NEW i \in Instance, NEW a \in Asked, Arrive(c, i, a)
  PROVE  UseInv'
<1> DEFINE phase == IF ~(a.kind = "use" /\ Recorded(view[i], a)) THEN "waiting"
                    ELSE IF SameContent(view[i], a) THEN "answered" ELSE "failed"
           new == [at |-> i, ask |-> a, phase |-> phase]
<1>1. /\ calls[c].phase = "none" /\ calls' = [calls EXCEPT ![c] = new] /\ UNCHANGED <<db, view>>
      /\ \/ phase = "waiting" /\ line' = [line EXCEPT ![i] = Append(line[i], c)]
         \/ UNCHANGED line
  BY DEF Arrive
<1>2. phase \in {"waiting", "answered", "failed"} /\ new \in Calls /\ new.at = i /\ new.phase = phase
  BY DEF Calls
<1> HIDE DEF phase, new
<1>3. UseTypes'
  <2>1. UseTypes
    BY DEF UseInv
  <2>2. calls' \in [Call -> Calls]
    BY <1>1, <1>2, <2>1 DEF UseTypes
  <2>3. line[i] \in Seq(Call) /\ Append(line[i], c) \in Seq(Call)
    BY <2>1 DEF UseTypes
  <2>4. line' \in [Instance -> Seq(Call)]
    BY <1>1, <2>1, <2>3 DEF UseTypes
  <2> QED BY <1>1, <2>1, <2>2, <2>4 DEF UseTypes
<1>4. calls'[c] = new /\ \A d \in Call \ {c} : calls'[d] = calls[d]
  BY <1>1 DEF UseInv, UseTypes
<1>5. \A j \in Instance : line[j] \in Seq(Call) /\ DOMAIN line[j] = 1..Len(line[j]) /\ Len(line[j]) \in Nat
  BY DEF UseInv, UseTypes
<1>6. \A j \in Instance : \A k \in DOMAIN line[j] : line[j][k] \in Call \ {c}
  BY <1>1, <1>5 DEF UseInv, LineOK
<1>7. ASSUME NEW j \in Instance, line'[j] = line[j]
      PROVE  /\ LineOK(j)'
             /\ HasCommitted(j)' => HasCommitted(j) /\ Ask(Holder(j))' = Ask(Holder(j))
  <2>1. LineOK(j)'
    BY <1>4, <1>6, <1>7 DEF UseInv, LineOK
  <2>2. CASE line[j] = <<>>
    BY <1>7, <2>1, <2>2 DEF HasCommitted
  <2>3. CASE line[j] # <<>>
    <3>1. 1 \in DOMAIN line[j] /\ Holder(j) = line[j][1] /\ Holder(j)' = Holder(j)
      BY <1>5, <1>7, <2>3 DEF Holder
    <3>2. calls'[Holder(j)] = calls[Holder(j)]
      BY <1>4, <1>6, <3>1
    <3> QED BY <1>7, <2>1, <3>1, <3>2 DEF HasCommitted, Ask
  <2> QED BY <2>2, <2>3
<1>8. ASSUME phase = "waiting", line' = [line EXCEPT ![i] = Append(line[i], c)]
      PROVE  /\ LineOK(i)'
             /\ HasCommitted(i)' => HasCommitted(i) /\ Ask(Holder(i))' = Ask(Holder(i))
  <2> DEFINE n == Len(line[i])
  <2>1. line'[i] = Append(line[i], c) /\ n \in Nat /\ DOMAIN line'[i] = 1..(n + 1) /\ line'[i][n + 1] = c
        /\ \A k \in 1..n : line'[i][k] = line[i][k]
    BY <1>5, <1>8 DEF UseInv, UseTypes
  <2>2. DOMAIN line[i] = 1..n
    BY <1>5
  <2> HIDE DEF n
  <2>3. ASSUME NEW k \in DOMAIN line'[i]
        PROVE  /\ calls'[line'[i][k]].at = i /\ calls'[line'[i][k]].phase \in {"waiting", "committed", "swept"}
               /\ k # 1 => calls'[line'[i][k]].phase = "waiting"
    <3>1. CASE k = n + 1
      <4>1. line'[i][k] = c
        BY <2>1, <3>1
      <4>2. calls'[c].at = i /\ calls'[c].phase = "waiting"
        BY <1>2, <1>4, <1>8
      <4> QED BY <4>1, <4>2
    <3>2. CASE k \in 1..n
      <4>1. line'[i][k] = line[i][k] /\ calls'[line[i][k]] = calls[line[i][k]]
        BY <1>4, <1>6, <2>1, <2>2, <3>2
      <4>2. /\ calls[line[i][k]].at = i /\ calls[line[i][k]].phase \in {"waiting", "committed", "swept"}
            /\ k # 1 => calls[line[i][k]].phase = "waiting"
        <5>1. LineOK(i) /\ k \in DOMAIN line[i]
          BY <2>2, <3>2 DEF UseInv
        <5> QED BY <5>1 DEF LineOK
      <4> QED BY <4>1, <4>2, Zenon
    <3> QED BY <2>1, <3>1, <3>2
  <2>4. ASSUME NEW k \in DOMAIN line'[i], NEW l \in DOMAIN line'[i], line'[i][k] = line'[i][l]
        PROVE  k = l
    <3>1. CASE k \in 1..n /\ l \in 1..n
      BY <2>1, <2>2, <2>4, <3>1 DEF UseInv, LineOK
    <3>2. CASE k = n + 1 \/ l = n + 1
      BY <1>6, <2>1, <2>2, <2>4, <3>2
    <3> QED BY <2>1, <3>1, <3>2
  <2>5. LineOK(i)'
    BY <2>3, <2>4 DEF LineOK
  <2>6. CASE line[i] = <<>>
    <3>1. Holder(i)' = c
      BY <1>5, <1>8, <2>1, <2>6 DEF Holder
    <3> QED BY <1>2, <1>4, <1>8, <2>5, <3>1 DEF HasCommitted
  <2>7. CASE line[i] # <<>>
    <3>1. 1 \in DOMAIN line[i] /\ Holder(i) = line[i][1] /\ Holder(i)' = Holder(i)
      BY <1>5, <2>1, <2>2, <2>7 DEF Holder
    <3>2. calls'[Holder(i)] = calls[Holder(i)]
      BY <1>4, <1>6, <3>1
    <3> QED BY <2>5, <2>7, <3>1, <3>2 DEF HasCommitted, Ask
  <2> QED BY <2>6, <2>7
<1>9. ASSUME NEW j \in Instance
      PROVE  /\ LineOK(j)'
             /\ HasCommitted(j)' => HasCommitted(j) /\ Ask(Holder(j))' = Ask(Holder(j))
  <2>1. CASE line'[j] = line[j]
    BY <1>7, <2>1
  <2>2. CASE line'[j] # line[j]
    <3>1. phase = "waiting" /\ line' = [line EXCEPT ![i] = Append(line[i], c)]
      BY <1>1, <2>2
    <3>2. j = i
      BY <2>2, <3>1 DEF UseInv, UseTypes
    <3> QED BY <1>8, <3>1, <3>2
  <2> QED BY <2>1, <2>2
<1>10. \A j \in Instance : ViewOK(j)'
  BY <1>1, <1>9, ViewsKept
<1>11. CountOK(db)'
  BY <1>1 DEF UseInv
<1> QED BY <1>3, <1>9, <1>10, <1>11 DEF UseInv

\* A call that ends without a change.
LEMMA LeavesUnchanged ==
  ASSUME UseInv, NEW i \in Instance, line[i] # <<>>, NEW phase \in {"answered", "failed"},
         Leave(i, Holder(i), phase), UNCHANGED <<db, view>>
  PROVE  UseInv'
<1>1. UseTypes /\ \A j \in Instance : LineOK(j)
  BY DEF UseInv
<1>2. /\ calls' \in [Call -> Calls] /\ line' \in [Instance -> Seq(Call)] /\ \A j \in Instance : LineOK(j)'
      /\ ~HasCommitted(i)'
      /\ \A j \in Instance \ {i} : HasCommitted(j)' = HasCommitted(j) /\ (line[j] # <<>> => Ask(Holder(j))' = Ask(Holder(j)))
  BY <1>1, LeaveKeeps
<1>3. UseTypes'
  BY <1>1, <1>2 DEF UseTypes
<1>4. \A j \in Instance : ViewOK(j)'
  BY <1>2, ViewsKept DEF HasCommitted
<1>5. CountOK(db)'
  BY DEF UseInv
<1> QED BY <1>2, <1>3, <1>4, <1>5 DEF UseInv

LEMMA CommitKeeps ==
  ASSUME UseInv, NEW i \in Instance, Commit(i)
  PROVE  UseInv'
<1> DEFINE c == Holder(i)
           a == Ask(c)
           phase == IF i \in moved THEN "swept" ELSE "committed"
<1>1. /\ line[i] # <<>> /\ calls[c].phase = "waiting" /\ ~Settled(i, a) /\ view[i].rev = db.rev /\ db' = Written(i, a)
      /\ calls' = [calls EXCEPT ![c].phase = phase] /\ UNCHANGED <<view, moved, line>>
  BY DEF Commit, Heads, Holder, UpToDate, Phase
<1>2. UseTypes /\ \A j \in Instance : LineOK(j) /\ ViewOK(j)
  BY DEF UseInv
<1>3. c \in Call /\ calls[c] \in Calls /\ calls[c].at = i /\ a \in Asked /\ 1 \in DOMAIN line[i] /\ c = line[i][1]
  BY <1>1, <1>2, HolderKnown
<1>4. view[i] \in Records /\ db \in Records /\ Agree(view[i], db) /\ CountOK(db)
  BY <1>1, <1>2 DEF UseTypes, ViewOK, UseInv
<1>5. db' \in Records /\ db'.rev = db.rev + 1 /\ Agree([Done(view[i], a) EXCEPT !.rev = view[i].rev + 1], db') /\ CountOK(db)'
  <2>1. /\ Written(i, a) \in Records /\ Written(i, a).rev = db.rev + 1
        /\ Agree([Done(view[i], a) EXCEPT !.rev = view[i].rev + 1], Written(i, a)) /\ CountOK(Written(i, a))
    BY <1>1, <1>3, <1>4, WrittenFollows
  <2>2. CountOK(db)' = CountOK(db')
    BY DEF CountOK
  <2> QED BY <1>1, <2>1, <2>2
<1>6. phase \in {"committed", "swept"}
  OBVIOUS
<1> HIDE DEF phase, a, c
<1>7. /\ calls' \in [Call -> Calls] /\ calls'[c].phase = phase /\ calls'[c].at = i /\ calls'[c].ask = calls[c].ask
      /\ \A d \in Call \ {c} : calls'[d] = calls[d]
  BY <1>1, <1>2, <1>3, <1>6 DEF UseTypes, Calls
<1>8. UseTypes'
  BY <1>1, <1>2, <1>5, <1>7 DEF UseTypes
<1>9. \A j \in Instance \ {i} : \A k \in DOMAIN line[j] : line[j][k] \in Call \ {c}
  BY <1>2, <1>3 DEF LineOK, UseTypes
<1>10. ASSUME NEW j \in Instance \ {i}
       PROVE  LineOK(j)' /\ HasCommitted(j)' = HasCommitted(j) /\ ViewOK(j)'
  <2>1. LineOK(j)'
    BY <1>1, <1>2, <1>7, <1>9, <1>10 DEF LineOK
  <2>2. HasCommitted(j)' = HasCommitted(j)
    <3>1. CASE line[j] = <<>>
      BY <1>1, <3>1 DEF HasCommitted
    <3>2. CASE line[j] # <<>>
      <4>1. line[j] \in Seq(Call)
        BY <1>2 DEF UseTypes
      <4>2. 1 \in DOMAIN line[j] /\ Holder(j) = line[j][1] /\ Holder(j)' = Holder(j)
        BY <1>1, <3>2, <4>1 DEF Holder
      <4>3. calls'[Holder(j)] = calls[Holder(j)]
        BY <1>7, <1>9, <4>2
      <4> QED BY <1>1, <4>2, <4>3 DEF HasCommitted
    <3> QED BY <3>1, <3>2
  <2>3. view[j] \in Records /\ view'[j] = view[j] /\ view[j].rev \in Nat /\ db.rev \in Nat
    BY <1>1, <1>2, <1>4 DEF UseTypes, Records
  <2>4. view[j].rev <= db.rev /\ (HasCommitted(j) => view[j].rev < db.rev)
    BY <1>2 DEF ViewOK
  <2>5. view'[j].rev < db'.rev /\ (HasCommitted(j)' => db'.rev # view'[j].rev + 1)
    BY <1>5, <2>2, <2>3, <2>4
  <2> QED BY <1>5, <2>1, <2>2, <2>3, <2>4, <2>5 DEF ViewOK
<1>11. LineOK(i)'
  <2>1. ASSUME NEW k \in DOMAIN line[i], k # 1
        PROVE  line[i][k] \in Call \ {c}
    BY <1>2, <1>3, <2>1 DEF LineOK, UseTypes
  <2> QED BY <1>1, <1>2, <1>3, <1>6, <1>7, <2>1 DEF LineOK
<1>12. ViewOK(i)'
  <2>1. Followed(i)' = [Done(view[i], a) EXCEPT !.rev = view[i].rev + 1]
    BY <1>1, <1>7 DEF Followed, Ask, Holder, a, c
  <2>2. view'[i].rev < db'.rev
    BY <1>1, <1>4, <1>5 DEF Records
  <2> QED BY <1>1, <1>4, <1>5, <2>1, <2>2 DEF ViewOK, Records
<1> QED BY <1>5, <1>8, <1>10, <1>11, <1>12 DEF UseInv

LEMMA ResumeKeeps ==
  ASSUME UseInv, NEW i \in Instance, Resume(i)
  PROVE  UseInv'
<1> DEFINE a == Ask(Holder(i))
           D == Done(view[i], a)
           F == [D EXCEPT !.rev = view[i].rev + 1]
<1>1. /\ line[i] # <<>> /\ HasCommitted(i) /\ view' = [view EXCEPT ![i] = F] /\ UNCHANGED db
      /\ Leave(i, Holder(i), "answered")
  BY DEF Resume, HasCommitted, Followed
<1>2. UseTypes /\ \A j \in Instance : LineOK(j) /\ ViewOK(j)
  BY DEF UseInv
<1>3. a \in Asked
  BY <1>1, <1>2, HolderKnown
<1>4. view[i] \in Records /\ db \in Records
  BY <1>2 DEF UseTypes
<1>5. D \in Records /\ D.rev = view[i].rev
  BY <1>3, <1>4, DoneTypes
<1>6. F = Followed(i)
  BY DEF Followed
<1>7. F \in Records /\ F.rev = view[i].rev + 1
  <2>1. view[i].rev + 1 \in Nat
    BY <1>4 DEF Records
  <2> HIDE DEF D
  <2> QED BY <1>5, <2>1 DEF Records
<1> HIDE DEF F, D, a
<1>8. /\ calls' \in [Call -> Calls] /\ line' \in [Instance -> Seq(Call)] /\ \A j \in Instance : LineOK(j)'
      /\ ~HasCommitted(i)'
      /\ \A j \in Instance \ {i} : HasCommitted(j)' = HasCommitted(j) /\ (line[j] # <<>> => Ask(Holder(j))' = Ask(Holder(j)))
  BY <1>1, <1>2, LeaveKeeps
<1>9. UseTypes' /\ view'[i] = F /\ \A j \in Instance \ {i} : view'[j] = view[j]
  BY <1>1, <1>2, <1>7, <1>8 DEF UseTypes
<1>10. \A j \in Instance \ {i} : ViewOK(j)'
  BY <1>1, <1>8, <1>9, ViewsKept DEF HasCommitted
<1>11. ViewOK(i)'
  <2>1. view[i].rev < db.rev /\ (db.rev = view[i].rev + 1 => Agree(F, db)) /\ view[i].rev \in Nat /\ db.rev \in Nat
    BY <1>1, <1>2, <1>4, <1>6 DEF ViewOK, Records
  <2> QED BY <1>1, <1>7, <1>8, <1>9, <2>1 DEF ViewOK
<1>12. CountOK(db)'
  BY <1>1 DEF UseInv
<1> QED BY <1>8, <1>9, <1>10, <1>11, <1>12 DEF UseInv

\* A read moves the pointer of the copy, and a reload replaces the copy; no queue changes.
LEMMA CopyKeeps ==
  ASSUME UseInv, NEW i \in Instance, GetContext(i) \/ ReloadFromStorage(i)
  PROVE  UseInv'
<1>1. UseTypes /\ view[i] \in Records /\ db \in Records /\ \A j \in Instance : LineOK(j) /\ ViewOK(j)
  BY DEF UseInv, UseTypes
<1>2. UNCHANGED <<db, calls, line>> /\ \E s \in Records : view' = [view EXCEPT ![i] = s]
  <2>1. CASE GetContext(i)
    <3> DEFINE s == [view[i] EXCEPT !.level = view[i].level - 1]
    <3>1. s \in Records
      BY <1>1 DEF Records
    <3>2. view' = [view EXCEPT ![i] = s]
      BY <2>1 DEF GetContext
    <3> HIDE DEF s
    <3> QED BY <2>1, <3>1, <3>2 DEF GetContext
  <2>2. CASE ReloadFromStorage(i)
    BY <1>1, <2>2 DEF ReloadFromStorage
  <2> QED BY <2>1, <2>2
<1>3. UseTypes' /\ (\A j \in Instance : LineOK(j)') /\ CountOK(db)' /\ \A j \in Instance \ {i} : view'[j] = view[j]
  BY <1>1, <1>2 DEF UseTypes, LineOK, UseInv
<1>4. \A j \in Instance : HasCommitted(j)' => HasCommitted(j) /\ Ask(Holder(j))' = Ask(Holder(j))
  BY <1>2 DEF HasCommitted, Holder, Ask
<1>5. \A j \in Instance \ {i} : ViewOK(j)'
  BY <1>2, <1>3, <1>4, ViewsKept
<1>6. CASE ReloadFromStorage(i)
  <2>1. view'[i] = db /\ UNCHANGED db /\ ~HasCommitted(i)'
    BY <1>1, <1>6 DEF ReloadFromStorage, HasCommitted, UseTypes
  <2>2. ViewOK(i)'
    BY <1>1, <2>1 DEF ViewOK, Agree, Records
  <2> QED BY <1>3, <1>5, <2>2 DEF UseInv
<1>7. CASE GetContext(i)
  <2> DEFINE s == [view[i] EXCEPT !.level = view[i].level - 1]
  <2>0. view' = [view EXCEPT ![i] = s]
    BY <1>7 DEF GetContext
  <2>1. s \in Records /\ Agree(s, view[i]) /\ view'[i] = s /\ s.rev = view[i].rev
    <3>1. s \in Records /\ Agree(s, view[i]) /\ s.rev = view[i].rev
      BY <1>1 DEF Records, Agree
    <3> HIDE DEF s
    <3> QED BY <1>1, <2>0, <3>1 DEF UseTypes
  <2> HIDE DEF s
  <2>2. HasCommitted(i)' => Agree(Followed(i)', Followed(i))
    <3> SUFFICES ASSUME HasCommitted(i)' PROVE Agree(Followed(i)', Followed(i))
      OBVIOUS
    <3> DEFINE a == Ask(Holder(i))
    <3>1. line[i] # <<>> /\ Ask(Holder(i))' = a /\ a \in Asked
      BY <1>1, <1>4, HolderKnown DEF HasCommitted
    <3>2. Agree(Done(s, a), Done(view[i], a)) /\ Done(s, a) \in Records /\ Done(view[i], a) \in Records
      BY <1>1, <2>1, <3>1, DoneAgrees, DoneTypes
    <3>3. Followed(i)' = [Done(s, a) EXCEPT !.rev = view[i].rev + 1]
      BY <2>1, <3>1 DEF Followed
    <3>4. Followed(i) = [Done(view[i], a) EXCEPT !.rev = view[i].rev + 1]
      BY DEF Followed
    <3> HIDE DEF a
    <3> QED BY <3>2, <3>3, <3>4 DEF Agree, Records
  <2>3. UNCHANGED db
    BY <1>2
  <2>4. ViewOK(i)'
    BY <1>1, <1>4, <2>1, <2>2, <2>3 DEF ViewOK, Agree
  <2> QED BY <1>3, <1>5, <2>4 DEF UseInv
<1> QED BY <1>6, <1>7

LEMMA StutterKeeps == UseInv /\ UNCHANGED useVars => UseInv'
<1> SUFFICES ASSUME UseInv, UNCHANGED useVars PROVE UseInv'
  OBVIOUS
<1>1. UNCHANGED <<db, view, calls, line>>
  BY DEF useVars
<1>2. UseTypes' /\ (\A j \in Instance : LineOK(j)') /\ CountOK(db)'
  BY <1>1 DEF UseInv, UseTypes, LineOK
<1>3. \A j \in Instance : ViewOK(j)'
  BY <1>1, ViewsKept DEF HasCommitted, Holder, Ask
<1> QED BY <1>2, <1>3 DEF UseInv

LEMMA InvHolds == UseSpec => []UseInv
<1>1. UseInv /\ [UseNext]_useVars => UseInv'
  <2> SUFFICES ASSUME UseInv, [UseNext]_useVars PROVE UseInv'
    OBVIOUS
  <2>1. ASSUME NEW c \in Call, NEW i \in Instance, NEW a \in Asked, Arrive(c, i, a)
        PROVE  UseInv'
    BY <2>1, ArriveKeeps
  <2>2. ASSUME NEW i \in Instance, Skip(i) \/ Refuse(i)
        PROVE  UseInv'
    <3>1. line[i] # <<>> /\ UNCHANGED <<db, view>>
          /\ \E phase \in {"answered", "failed"} : Leave(i, Holder(i), phase)
      BY <2>2 DEF Skip, Refuse, Heads
    <3> QED BY <3>1, LeavesUnchanged
  <2>3. ASSUME NEW i \in Instance, Commit(i)
        PROVE  UseInv'
    BY <2>3, CommitKeeps
  <2>4. ASSUME NEW i \in Instance, Resume(i)
        PROVE  UseInv'
    BY <2>4, ResumeKeeps
  <2>5. ASSUME NEW i \in Instance, GetContext(i) \/ ReloadFromStorage(i)
        PROVE  UseInv'
    BY <2>5, CopyKeeps
  <2> QED BY <2>1, <2>2, <2>3, <2>4, <2>5, StutterKeeps DEF UseNext
<1> QED BY <1>1, InitHolds, PTL DEF UseSpec

-----------------------------------------------------------------------------
(* Theorems                                                                *)

\* Whatever is retried, refused or committed by several instances at once, a memory has been used
\* as often as the stored receipts name it (recordMemoryUse).
THEOREM UsesAreCounted == UseSpec => []ReceiptCountsOnce
<1>1. UseInv => ReceiptCountsOnce
  BY DEF UseInv, CountOK, ReceiptCountsOnce
<1> QED BY <1>1, InvHolds, PTL

\* Patching single rows, or writing the whole copy after a read has moved a pointer, leaves every
\* instance at the stored revision with the stored memory (applyMutation).
THEOREM CopiesAgree == UseSpec => []SameRevisionSameMemory
<1>1. UseInv => SameRevisionSameMemory
  <2> SUFFICES ASSUME UseInv, NEW i \in Instance, view[i].rev = db.rev
               PROVE  [view[i] EXCEPT !.level = 0] = [db EXCEPT !.level = 0]
    BY DEF SameRevisionSameMemory
  <2>1. view[i] \in Records /\ db \in Records /\ Agree(view[i], db)
    BY DEF UseInv, UseTypes, ViewOK
  <2> QED BY <2>1 DEF Agree, Records
<1> QED BY <1>1, InvHolds, PTL

-----------------------------------------------------------------------------
(* SemanticRecall *)

Vector == [event : Event, model : Model, text : Nat, hash : Nat \cup {Legacy}]
Work == [event : Event, text : Nat, detached : BOOLEAN]
Score == [event : Event, text : Nat, body : Nat]
Lane == [stage : {"rest", "asked", "ranked", "answered"}, scored : SUBSET Score, answer : SUBSET Event]

CardsOK == text \in [Event -> Nat] /\ shown \in [Event -> {"none", "visible", "hidden", "removed"}]
                                   /\ model \in Model \cup {Off}

\* A card has one vector of a model; its fingerprint is of the text it was made from, or is
\* none of any text's.
VectorsOK ==
  /\ vector \subseteq Vector
  /\ \A v \in vector : v.hash \in {Legacy, v.text}
  /\ \A v, u \in vector : v.event = u.event /\ v.model = u.model => v = u

\* A request asks for a card once.
OfDistinctCards(work) == \A w, u \in work : w.event = u.event => w = u
SweepsOK ==
  \A s \in sweeps : s.model \in Model /\ s.work \subseteq Work /\ OfDistinctCards(s.work)

LanesOK == lane \in [Asker -> Lane]

RecallInv == CardsOK /\ VectorsOK /\ SweepsOK /\ LanesOK /\ LaneIsCurrent

LEMMA RecallStarts == RecallInit => RecallInv
<1> SUFFICES ASSUME RecallInit PROVE RecallInv
  OBVIOUS
<1>1. CardsOK
  BY DEF RecallInit, CardsOK
<1>2. VectorsOK
  BY DEF RecallInit, VectorsOK, Vector, Legacy, Searchable
<1>3. SweepsOK /\ LanesOK /\ LaneIsCurrent
  BY DEF RecallInit, SweepsOK, LanesOK, LaneIsCurrent, NoLane, Lane
<1> QED BY <1>1, <1>2, <1>3 DEF RecallInv

\* What is stored replaces the vectors of the same cards and the same model.
LEMMA StoringKeeps ==
  ASSUME VectorsOK, NEW m \in Model, NEW written, OfDistinctCards(written),
         \A w \in written : w.event \in Event /\ w.text \in Nat,
         StoreVectors(written, m)
  PROVE  VectorsOK'
<1> DEFINE kept == {v \in vector : v.model # m \/ \A w \in written : w.event # v.event}
           of(w) == [event |-> w.event, model |-> m, text |-> w.text, hash |-> w.text]
           new == {of(w) : w \in written}
<1>1. vector' = kept \cup new
  BY DEF StoreVectors
<1>2. \A w \in written : of(w) \in Vector /\ of(w).hash = of(w).text /\ of(w).event = w.event /\ of(w).model = m
  BY DEF Vector
<1>3. new \subseteq Vector /\ \A v \in new : v.hash = v.text
  BY <1>2
<1>4. \A v, u \in new : v.event = u.event => v = u
  BY <1>2 DEF OfDistinctCards
<1>5. \A v \in kept, u \in new : ~(v.event = u.event /\ v.model = u.model)
  BY <1>2
<1>6. kept \subseteq vector
  OBVIOUS
<1> HIDE DEF kept, new, of
<1>7. vector' \subseteq Vector /\ \A v \in vector' : v.hash \in {Legacy, v.text}
  BY <1>1, <1>3, <1>6 DEF VectorsOK
<1>8. ASSUME NEW v \in vector', NEW u \in vector', v.event = u.event, v.model = u.model PROVE v = u
  BY <1>1, <1>4, <1>5, <1>6, <1>8 DEF VectorsOK
<1> QED BY <1>7, <1>8 DEF VectorsOK

\* Fewer vectors, or the same ones.
LEMMA FewerVectors == ASSUME VectorsOK, vector' \subseteq vector PROVE VectorsOK'
BY DEF VectorsOK

LEMMA BackfillKeeps ==
  ASSUME RecallInv, NEW ids \in SUBSET Event, NEW resting, Backfill(ids, resting)
  PROVE  SweepsOK'
<1> DEFINE fresh == {e \in ids : shown[e] # "none"} \ InFlight
           asked(e) == [event |-> e, text |-> text[e], detached |-> FALSE]
<1>1. CASE UNCHANGED sweeps
  BY <1>1 DEF RecallInv, SweepsOK
<1>2. CASE sweeps' # sweeps
  <2>1. PICK picked \in kSubset(Min({SweepLimit, Cardinality(fresh)}), fresh) :
          sweeps' = sweeps \cup {[model |-> model, work |-> {asked(e) : e \in picked}]}
    BY <1>2 DEF Backfill
  <2>2. model \in Model
    BY <1>2 DEF Backfill, RecallInv, CardsOK
  <2>3. picked \subseteq Event
    BY DEF kSubset
  <2>4. \A e \in Event : asked(e) \in Work /\ asked(e).event = e
    BY DEF RecallInv, CardsOK, Work
  <2> HIDE DEF asked
  <2>5. {asked(e) : e \in picked} \subseteq Work /\ OfDistinctCards({asked(e) : e \in picked})
    BY <2>3, <2>4 DEF OfDistinctCards
  <2> DEFINE work == {asked(e) : e \in picked}
             sweep == [model |-> model, work |-> work]
  <2>6. sweep.model = model /\ sweep.work = work /\ sweeps' = sweeps \cup {sweep}
    BY <2>1
  <2>7. work \subseteq Work /\ OfDistinctCards(work)
    BY <2>5
  <2> HIDE DEF sweep, work
  <2> QED BY <2>2, <2>6, <2>7 DEF RecallInv, SweepsOK
<1> QED BY <1>1, <1>2

LEMMA SweepAnsweredKeeps ==
  ASSUME RecallInv, NEW s \in sweeps, NEW got \in SUBSET s.work, SweepAnswered(s, got)
  PROVE  RecallInv'
<1>1. SweepsOK'
  BY DEF SweepAnswered, RecallInv, SweepsOK
<1> DEFINE written == {w \in got : w.detached \/ EventContentHash(w.event) = w.text}
<1>2. /\ StoreVectors(written, s.model) /\ s.model \in Model
      /\ \A w \in written : w.event \in Event /\ w.text \in Nat
      /\ OfDistinctCards(written)
  BY DEF SweepAnswered, RecallInv, SweepsOK, OfDistinctCards, Work
<1> HIDE DEF written
<1>3. VectorsOK'
  BY <1>2, StoringKeeps DEF RecallInv
<1>4. CardsOK' /\ LanesOK' /\ LaneIsCurrent'
  BY DEF SweepAnswered, RecallInv, CardsOK, LanesOK, LaneIsCurrent
<1> QED BY <1>1, <1>3, <1>4 DEF RecallInv

\* A search takes a step: what it has scored is what it had, or is current.
LEMMA LaneMoves ==
  ASSUME LanesOK, LaneIsCurrent, NEW a \in Asker, NEW next \in Lane, lane' = [lane EXCEPT ![a] = next],
         \A i \in next.scored : i.text = i.body
  PROVE  LanesOK' /\ LaneIsCurrent'
<1>1. LanesOK'
  BY DEF LanesOK
<1>2. \A b \in Asker : lane'[b] = IF b = a THEN next ELSE lane[b]
  BY DEF LanesOK
<1> QED BY <1>1, <1>2 DEF LaneIsCurrent

LEMMA StageMoves ==
  ASSUME LanesOK, LaneIsCurrent, NEW a \in Asker, NEW stage \in {"rest", "asked", "ranked", "answered"},
         lane' = [lane EXCEPT ![a].stage = stage]
  PROVE  LanesOK' /\ LaneIsCurrent'
<1> DEFINE next == [lane[a] EXCEPT !.stage = stage]
<1>1. next \in Lane /\ next.scored = lane[a].scored
  BY DEF LanesOK, Lane
<1>2. lane' = [lane EXCEPT ![a] = next]
  BY DEF LanesOK
<1>3. \A i \in next.scored : i.text = i.body
  BY <1>1 DEF LaneIsCurrent
<1> HIDE DEF next
<1> QED BY <1>1, <1>2, <1>3, LaneMoves

\* Among the vectors of a card that has a current one there is none else.
LEMMA CurrentVectorIsOfTheText ==
  ASSUME RecallInv, NEW e \in Event, HasCurrentVector(e), NEW v \in Record(e)
  PROVE  v.event = e /\ v.text = text[e] /\ v \in Vector
<1>1. PICK u \in Record(e) : u.hash = text[e]
  BY DEF HasCurrentVector, EventContentHash
<1>2. u = v /\ v.event = e /\ v \in vector
  BY <1>1 DEF Record, RecallInv, VectorsOK
<1>3. text[e] \in Nat
  BY DEF RecallInv, CardsOK
<1> QED BY <1>1, <1>2, <1>3 DEF RecallInv, VectorsOK, Legacy

LEMMA ComputeKeeps ==
  ASSUME RecallInv, NEW a \in Asker, ComputeVectorRanking(a)
  PROVE  RecallInv'
<1> DEFINE scored == {e \in Searchable : HasCurrentVector(e)}
           of(v) == [event |-> v.event, text |-> v.text, body |-> text[v.event]]
<1>1. PICK relevant \in SUBSET scored :
        lane' = [lane EXCEPT ![a].stage = "ranked",
                             ![a].scored = {of(v) : v \in UNION {Record(e) : e \in relevant}}]
  BY DEF ComputeVectorRanking
<1> DEFINE items == {of(v) : v \in UNION {Record(e) : e \in relevant}}
<1>2. \A v \in UNION {Record(e) : e \in relevant} : v.text = text[v.event] /\ v \in Vector
  BY CurrentVectorIsOfTheText DEF Searchable
<1>3. \A v \in UNION {Record(e) : e \in relevant} : of(v) \in Score /\ of(v).text = of(v).body
  BY <1>2 DEF Score, Vector, RecallInv, CardsOK
<1> HIDE DEF of
<1>4. items \in SUBSET Score /\ \A i \in items : i.text = i.body
  BY <1>3
<1> HIDE DEF items
<1> DEFINE next == [lane[a] EXCEPT !.stage = "ranked", !.scored = items]
<1>5. lane[a] \in Lane
  BY DEF RecallInv, LanesOK
<1>6. next \in Lane /\ next.scored = items
  BY <1>4, <1>5 DEF Lane
<1>7. lane' = [lane EXCEPT ![a].stage = "ranked", ![a].scored = items]
  BY <1>1 DEF items
<1>8. lane' = [lane EXCEPT ![a] = next]
  BY <1>5, <1>7 DEF RecallInv, LanesOK, Lane
<1> HIDE DEF next
<1>9. LanesOK' /\ LaneIsCurrent'
  BY <1>4, <1>6, <1>8, LaneMoves DEF RecallInv
<1>10. WithoutVector(scored) \in SUBSET Event /\ Backfill(WithoutVector(scored), cooldown)
  BY DEF ComputeVectorRanking, WithoutVector, Searchable
<1>11. SweepsOK'
  BY <1>10, BackfillKeeps
<1>12. CardsOK' /\ VectorsOK'
  BY DEF ComputeVectorRanking, RecallInv, CardsOK, VectorsOK
<1> QED BY <1>9, <1>11, <1>12 DEF RecallInv

LEMMA SearchEventsKeeps ==
  ASSUME RecallInv, NEW a \in Asker, SearchEvents(a)
  PROVE  RecallInv'
<1>1. PICK found \in SUBSET Searchable :
        lane' = [lane EXCEPT ![a].stage = "answered",
                             ![a].answer = found \cup {e \in {i.event : i \in lane[a].scored} : shown[e] = "visible"}]
  BY DEF SearchEvents
<1> DEFINE answer == found \cup {e \in {i.event : i \in lane[a].scored} : shown[e] = "visible"}
<1>2. lane[a] \in Lane
  BY DEF RecallInv, LanesOK
<1>3. answer \subseteq Event
  BY <1>2 DEF Searchable, Lane, Score
<1>4. lane' = [lane EXCEPT ![a].stage = "answered", ![a].answer = answer]
  BY <1>1
<1> HIDE DEF answer
<1> DEFINE next == [lane[a] EXCEPT !.stage = "answered", !.answer = answer]
<1>5. next \in Lane /\ next.scored = lane[a].scored
  BY <1>2, <1>3 DEF Lane
<1>6. lane' = [lane EXCEPT ![a] = next]
  BY <1>2, <1>4 DEF RecallInv, LanesOK, Lane
<1> HIDE DEF next
<1>7. LanesOK' /\ LaneIsCurrent'
  BY <1>5, <1>6, LaneMoves DEF RecallInv, LaneIsCurrent
<1>8. CardsOK' /\ VectorsOK' /\ SweepsOK'
  BY DEF SearchEvents, RecallInv, CardsOK, VectorsOK, SweepsOK
<1> QED BY <1>7, <1>8 DEF RecallInv

LEMMA AskerKeeps ==
  ASSUME RecallInv, NEW a \in Asker, EmbedQuery(a) \/ QueryFailed(a) \/ Answer(a)
  PROVE  RecallInv'
<1>1. LanesOK' /\ LaneIsCurrent'
  <2>1. CASE EmbedQuery(a)
    BY <2>1, StageMoves DEF EmbedQuery, RecallInv
  <2>2. CASE QueryFailed(a)
    BY <2>2, StageMoves DEF QueryFailed, RecallInv
  <2>3. CASE Answer(a)
    <3>1. NoLane \in Lane /\ NoLane.scored = {}
      BY DEF NoLane, Lane
    <3> QED BY <2>3, <3>1, LaneMoves DEF Answer, RecallInv
  <2> QED BY <2>1, <2>2, <2>3
<1>2. CardsOK' /\ VectorsOK' /\ SweepsOK'
  BY DEF EmbedQuery, QueryFailed, Answer, RecallInv, CardsOK, VectorsOK, SweepsOK
<1> QED BY <1>1, <1>2 DEF RecallInv

\* The texts and the state of cards change, and nothing that was computed from them does.
LEMMA CardChangeKeeps ==
  ASSUME RecallInv, CardsOK', UNCHANGED <<vector, lane>>, SweepsOK'
  PROVE  RecallInv'
BY DEF RecallInv, VectorsOK, LanesOK, LaneIsCurrent

LEMMA RecordAgentMemoryKeeps ==
  ASSUME RecallInv, NEW e \in Event, RecordAgentMemory(e)
  PROVE  RecallInv'
<1> DEFINE job == [event |-> e, text |-> text[e], detached |-> FALSE]
<1>1. job \in Work /\ OfDistinctCards({job})
  BY DEF RecallInv, CardsOK, Work, OfDistinctCards
<1>2. UNCHANGED sweeps \/ (model \in Model /\ sweeps' = sweeps \cup {[model |-> model, work |-> {job}]})
  BY DEF RecordAgentMemory, RecallInv, CardsOK
<1> HIDE DEF job
<1>3. SweepsOK'
  BY <1>1, <1>2 DEF RecallInv, SweepsOK
<1>4. CardsOK' /\ UNCHANGED <<vector, lane>>
  BY DEF RecordAgentMemory, RecallInv, CardsOK
<1> QED BY <1>3, <1>4, CardChangeKeeps

LEMMA ReloadKeeps ==
  ASSUME RecallInv, NEW e \in Event, Reload(e)
  PROVE  RecallInv'
<1> DEFINE apart(w) == [w EXCEPT !.detached = TRUE]
           parted(s) == [s EXCEPT !.work = {apart(w) : w \in @}]
<1>1. sweeps' = {parted(s) : s \in sweeps}
  BY DEF Reload
<1>2. ASSUME NEW s \in sweeps
      PROVE  parted(s).model \in Model /\ parted(s).work \subseteq Work /\ OfDistinctCards(parted(s).work)
  <2>1. s.model \in Model /\ s.work \subseteq Work /\ OfDistinctCards(s.work)
    BY DEF RecallInv, SweepsOK
  <2>2. \A w \in s.work : apart(w) \in Work /\ apart(w).event = w.event
    BY <2>1 DEF Work
  <2>3. parted(s).work = {apart(w) : w \in s.work} \/ parted(s) = s
    OBVIOUS
  <2>4. parted(s).model \in Model
    BY <2>1
  <2> HIDE DEF apart, parted
  <2>5. OfDistinctCards({apart(w) : w \in s.work}) /\ {apart(w) : w \in s.work} \subseteq Work
    BY <2>1, <2>2 DEF OfDistinctCards
  <2> QED BY <2>1, <2>3, <2>4, <2>5
<1> HIDE DEF parted
<1>3. SweepsOK'
  BY <1>1, <1>2 DEF SweepsOK
<1>4. CardsOK' /\ UNCHANGED <<vector, lane>>
  BY DEF Reload, TextChanges, StatusChange, RecallInv, CardsOK
<1> QED BY <1>3, <1>4, CardChangeKeeps

LEMMA RecallStep ==
  ASSUME RecallInv, RecallNext
  PROVE  RecallInv'
<1>1. ASSUME NEW a \in Asker,
             EmbedQuery(a) \/ QueryFailed(a) \/ ComputeVectorRanking(a) \/ SearchEvents(a) \/ Answer(a)
      PROVE  RecallInv'
  BY <1>1, AskerKeeps, ComputeKeeps, SearchEventsKeeps
<1>2. CASE SweepSucceeds
  BY <1>2, SweepAnsweredKeeps DEF SweepSucceeds
<1>3. CASE SweepFallsShort
  BY <1>3, SweepAnsweredKeeps DEF SweepFallsShort
<1>4. CASE CooldownEnds
  BY <1>4, CardChangeKeeps DEF CooldownEnds, RecallInv, CardsOK, SweepsOK
<1>5. CASE CleanupOrphanEventVectors
  <2>1. VectorsOK'
    BY <1>5, FewerVectors DEF CleanupOrphanEventVectors, RecallInv
  <2>2. CardsOK' /\ SweepsOK'
    BY <1>5 DEF CleanupOrphanEventVectors, RecallInv, CardsOK, SweepsOK
  <2>3. NoLane \in Lane /\ NoLane.scored = {}
    BY DEF NoLane, Lane
  <2>4. LanesOK' /\ LaneIsCurrent'
    BY <1>5, <2>3 DEF CleanupOrphanEventVectors, LanesOK, LaneIsCurrent
  <2> QED BY <2>1, <2>2, <2>4 DEF RecallInv
<1>6. ASSUME NEW e \in Event, ExtractEvent(e) \/ MergeInto(e) \/ ForgetOrRestore(e) PROVE RecallInv'
  <2>1. CardsOK' /\ SweepsOK' /\ UNCHANGED <<vector, lane>>
    BY <1>6 DEF ExtractEvent, MergeInto, ForgetOrRestore, TextChanges, StatusChange, RecallInv, CardsOK, SweepsOK
  <2> QED BY <2>1, CardChangeKeeps
<1>7. ASSUME NEW e \in Event, RecordAgentMemory(e) \/ Reload(e) PROVE RecallInv'
  BY <1>7, RecordAgentMemoryKeeps, ReloadKeeps
<1>8. ASSUME NEW e \in Event, DeleteEventVector(e) PROVE RecallInv'
  <2>1. VectorsOK'
    BY <1>8, FewerVectors DEF DeleteEventVector, RecallInv
  <2> QED BY <1>8, <2>1 DEF DeleteEventVector, RecallInv, CardsOK, SweepsOK, LanesOK, LaneIsCurrent
<1>9. ASSUME NEW e \in Event, NEW m \in Model, OtherProcessStores(e, m) PROVE RecallInv'
  <2>1. PICK t \in {text[e], text[e] + 1} : StoreVectors({[event |-> e, text |-> t]}, m)
    BY <1>9 DEF OtherProcessStores
  <2>2. t \in Nat
    BY DEF RecallInv, CardsOK
  <2> DEFINE written == {[event |-> e, text |-> t]}
  <2>3. OfDistinctCards(written) /\ \A w \in written : w.event \in Event /\ w.text \in Nat
    BY <2>2 DEF OfDistinctCards
  <2>4. StoreVectors(written, m)
    BY <2>1
  <2> HIDE DEF written
  <2>5. VectorsOK'
    BY <2>3, <2>4, StoringKeeps DEF RecallInv
  <2> QED BY <1>9, <2>5 DEF OtherProcessStores, RecallInv, CardsOK, SweepsOK, LanesOK, LaneIsCurrent
<1>10. ASSUME NEW m \in Model \cup {Off}, AdminSetVectorSettings(m) PROVE RecallInv'
  BY <1>10, CardChangeKeeps DEF AdminSetVectorSettings, RecallInv, CardsOK, SweepsOK
<1> QED
  BY <1>1, <1>2, <1>3, <1>4, <1>5, <1>6, <1>7, <1>8, <1>9, <1>10 DEF RecallNext

\* LaneIsCurrent, for any cards, models and searches, and any limit of a sweep.
THEOREM SemanticLaneIsCurrent == RecallSpec => []LaneIsCurrent
<1>1. RecallInit => RecallInv
  BY RecallStarts
<1>2. RecallInv /\ [RecallNext]_recallVars => RecallInv'
  <2>1. ASSUME RecallInv, UNCHANGED recallVars PROVE RecallInv'
    BY <2>1 DEF recallVars, RecallInv, CardsOK, VectorsOK, SweepsOK, LanesOK, LaneIsCurrent
  <2> QED BY <2>1, RecallStep
<1>3. RecallInv => LaneIsCurrent
  BY DEF RecallInv
<1> QED BY <1>1, <1>2, <1>3, PTL DEF RecallSpec
=============================================================================
