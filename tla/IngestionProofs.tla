--------------------------- MODULE IngestionProofs ---------------------------
(***************************************************************************)
(* Proofs about Ingestion, for any processes, sessions, turns, Block size, *)
(* restarts and drains: a finished turn is stored or still held, and the   *)
(* turns of a thread are stored in their order.                            *)
(***************************************************************************)
EXTENDS Ingestion, SequenceTheorems, WellFoundedInduction, TLAPS

\* A sequence, whatever its elements are.
IsSeq(s) == s \in Seq(ToSet(s))

\* A copy of the namespace has its three parts.
IsStore(s) == s = [part \in {"tail", "blocks", "receipts"} |-> s[part]]

Finished == [turn: Turn, parts: Nat]
BatchPc == {"idle", "next", "append", "stored", "seal", "reload"}

Shapes ==
  /\ IsStore(db) /\ \A p \in Proc : IsStore(mem[p])
  /\ DOMAIN mem = Proc /\ fresh \in [Proc -> BOOLEAN]
  /\ DOMAIN queue = Proc /\ \A p \in Proc : IsSeq(queue[p])
  /\ host \in [Thread -> [turn: Nat, open: BOOLEAN, parts: Nat]]
  /\ pending \in [Thread -> Seq(Finished)]
  /\ batch \in [Thread -> [pc: BatchPc, turns: Seq(Finished)]]
  /\ log \in [Thread -> Seq(Turn)]

\* A receipt is never forgotten, and a current copy knows all of them.
ReceiptsKept ==
  \A p \in Proc : /\ mem[p].receipts \subseteq db.receipts
                  /\ fresh[p] => mem[p].receipts = db.receipts

\* What a drain has in the mutation queue.
DrainOp(o) == o.kind = "append" \/ (o.kind \in {"seal", "reload"} /\ o.by = "drain")
ThreadOf(o) == IF o.kind = "seal" THEN o.block.thread ELSE o.thread

Awaits(q, t) == \E i \in DOMAIN q : DrainOp(q[i]) /\ ThreadOf(q[i]) = t

\* A drain waits for its own operation, which is about the first turn of its batch.
Fits(b, p, o) ==
  DrainOp(o) => /\ ThreadOf(o) \in Sessions(p)
                /\ b[ThreadOf(o)].pc = o.kind
                /\ o.kind = "append" => o.turn = Head(b[ThreadOf(o)].turns).turn
QueueFits(b, p, q) ==
  /\ \A i \in DOMAIN q : Fits(b, p, q[i])
  /\ \A i, j \in DOMAIN q : DrainOp(q[i]) /\ DrainOp(q[j]) /\ ThreadOf(q[i]) = ThreadOf(q[j]) => i = j
QueuesFit == \A p \in Proc : QueueFits(batch, p, queue[p])

BatchesFit ==
  \A t \in Thread :
    /\ batch[t].pc = "idle" <=> batch[t].turns = <<>>
    /\ batch[t].pc \in {"stored", "seal"} => <<t, Head(batch[t].turns).turn>> \in db.receipts

TurnsAreReal ==
  \A t \in Thread :
    /\ host[t].turn <= MaxTurn[t] /\ (host[t].open => host[t].turn # 0)
    /\ \A n \in ToSet(log[t]) : n \in 1..MaxTurn[t]

TurnInv == Shapes /\ ReceiptsKept /\ QueuesFit /\ BatchesFit /\ TurnsAreReal /\ NoTurnIsDropped

-----------------------------------------------------------------------------
(* Sequences *)

LEMMA SeqFacts ==
  ASSUME NEW s, IsSeq(s)
  PROVE  Len(s) \in Nat /\ DOMAIN s = 1..Len(s) /\ (s # <<>> => Head(s) = s[1] /\ Len(s) > 0)
BY DEF IsSeq

LEMMA AppendFacts ==
  ASSUME NEW s, IsSeq(s), NEW e
  PROVE  /\ IsSeq(Append(s, e)) /\ Len(Append(s, e)) = Len(s) + 1
         /\ \A i \in 1..Len(s) : Append(s, e)[i] = s[i]
         /\ Append(s, e)[Len(s) + 1] = e
<1> DEFINE S == ToSet(s) \cup {e}
<1>1. s \in Seq(S)
  BY SeqMonotonic DEF IsSeq
<1>2. /\ Append(s, e) \in Seq(S) /\ Len(Append(s, e)) = Len(s) + 1 /\ Len(s) \in Nat
      /\ \A i \in 1..Len(s) : Append(s, e)[i] = s[i]
      /\ Append(s, e)[Len(s) + 1] = e
  BY <1>1, AppendProperties
<1>3. IsSeq(Append(s, e))
  <2>1. Append(s, e) \in Seq(Range(Append(s, e)))
    BY <1>2, SeqOfRange
  <2> QED BY <2>1 DEF IsSeq, ToSet, Range
<1> QED BY <1>2, <1>3

LEMMA TailFacts ==
  ASSUME NEW s, IsSeq(s), s # <<>>
  PROVE  /\ IsSeq(Tail(s)) /\ Len(Tail(s)) = Len(s) - 1
         /\ \A i \in 1..Len(Tail(s)) : Tail(s)[i] = s[i + 1]
<1>1. /\ Tail(s) \in Seq(ToSet(s)) /\ Len(Tail(s)) = Len(s) - 1
      /\ \A i \in 1..Len(Tail(s)) : Tail(s)[i] = s[i + 1]
  BY HeadTailProperties DEF IsSeq
<1>2. IsSeq(Tail(s))
  <2>1. Tail(s) \in Seq(Range(Tail(s)))
    BY <1>1, SeqOfRange
  <2> QED BY <2>1 DEF IsSeq, ToSet, Range
<1> QED BY <1>1, <1>2

LEMMA SetOfConcat ==
  ASSUME NEW S, NEW s \in Seq(S), NEW u \in Seq(S)
  PROVE  ToSet(s \o u) = ToSet(s) \cup ToSet(u)
<1>1. \A x : ToSet(x) = Range(x)
  BY DEF ToSet, Range
<1>2. Range(s \o u) = Range(s) \cup Range(u)
  BY RangeConcatenation
<1> QED BY <1>1, <1>2

LEMMA SetOfAppend ==
  ASSUME NEW S, NEW s \in Seq(S), NEW e \in S
  PROVE  ToSet(Append(s, e)) = ToSet(s) \cup {e}
<1>1. <<e>> \in Seq(S) /\ Append(s, e) = s \o <<e>>
  BY AppendIsConcat
<1>2. ToSet(<<e>>) = {e}
  BY DEF ToSet
<1>3. ToSet(s \o <<e>>) = ToSet(s) \cup ToSet(<<e>>)
  BY ZenonT(60), <1>1, SetOfConcat
<1> QED BY <1>1, <1>2, <1>3

LEMMA SetOfTail ==
  ASSUME NEW S, NEW s \in Seq(S), s # <<>>
  PROVE  ToSet(s) = {Head(s)} \cup ToSet(Tail(s))
<1>1. Tail(s) \in Seq(S) /\ Len(Tail(s)) = Len(s) - 1 /\ (\A i \in 1..Len(Tail(s)) : Tail(s)[i] = s[i + 1])
  BY HeadTailProperties
<1>2. Len(s) \in Nat /\ Len(s) > 0 /\ Head(s) = s[1] /\ DOMAIN s = 1..Len(s) /\ DOMAIN Tail(s) = 1..Len(Tail(s))
  BY <1>1
<1>3. ASSUME NEW i \in DOMAIN s PROVE s[i] = Head(s) \/ \E j \in DOMAIN Tail(s) : s[i] = Tail(s)[j]
  <2>1. CASE i = 1
    BY <1>2, <2>1
  <2>2. CASE i # 1
    <3>1. i - 1 \in DOMAIN Tail(s) /\ (i - 1) + 1 = i
      BY <1>1, <1>2, <2>2
    <3> QED BY <1>1, <1>2, <3>1
  <2> QED BY <2>1, <2>2
<1>4. 1 \in DOMAIN s /\ \A j \in DOMAIN Tail(s) : j + 1 \in DOMAIN s
  BY <1>1, <1>2
<1>5. \A x : x \in ToSet(s) => x \in {Head(s)} \cup ToSet(Tail(s))
  BY <1>3 DEF ToSet
<1>6. \A x : x \in ToSet(Tail(s)) => x \in ToSet(s)
  <2> SUFFICES ASSUME NEW j \in DOMAIN Tail(s) PROVE Tail(s)[j] \in ToSet(s)
    BY DEF ToSet
  <2>1. Tail(s)[j] = s[j + 1] /\ j + 1 \in DOMAIN s
    BY <1>1, <1>2, <1>4
  <2> QED BY <2>1 DEF ToSet
<1>7. Head(s) \in ToSet(s)
  BY <1>2, <1>4 DEF ToSet
<1> QED BY <1>5, <1>6, <1>7

-----------------------------------------------------------------------------
(* The mutation queue *)

\* A drain that has nothing in the queue may move on.
LEMMA BatchMoves ==
  ASSUME NEW b, NEW c, NEW p, NEW q, QueueFits(b, p, q), \A t \in Sessions(p) : Awaits(q, t) => c[t] = b[t]
  PROVE  QueueFits(c, p, q)
BY DEF QueueFits, Fits, Awaits

LEMMA PushFits ==
  ASSUME NEW b, NEW p, NEW q, IsSeq(q), QueueFits(b, p, q), NEW o, Fits(b, p, o), DrainOp(o) => ~Awaits(q, ThreadOf(o))
  PROVE  IsSeq(Append(q, o)) /\ QueueFits(b, p, Append(q, o))
<1>1. /\ IsSeq(Append(q, o)) /\ DOMAIN Append(q, o) = 1..(Len(q) + 1) /\ DOMAIN q = 1..Len(q) /\ Len(q) \in Nat
      /\ \A i \in 1..Len(q) : Append(q, o)[i] = q[i]
      /\ Append(q, o)[Len(q) + 1] = o
  BY AppendFacts, SeqFacts
<1>2. \A i \in DOMAIN Append(q, o) : (i \in DOMAIN q /\ Append(q, o)[i] = q[i]) \/ (i = Len(q) + 1 /\ Append(q, o)[i] = o)
  BY <1>1
<1> HIDE DEF Fits, DrainOp, ThreadOf
<1> QED BY <1>1, <1>2 DEF QueueFits, Awaits

LEMMA PopFits ==
  ASSUME NEW b, NEW p, NEW q, IsSeq(q), QueueFits(b, p, q), q # <<>>
  PROVE  /\ IsSeq(Tail(q)) /\ QueueFits(b, p, Tail(q)) /\ Fits(b, p, Head(q))
         /\ DrainOp(Head(q)) => ~Awaits(Tail(q), ThreadOf(Head(q)))
<1>1. /\ IsSeq(Tail(q)) /\ DOMAIN Tail(q) = 1..(Len(q) - 1) /\ DOMAIN q = 1..Len(q) /\ Len(q) \in Nat /\ Len(q) > 0
      /\ \A i \in DOMAIN Tail(q) : Tail(q)[i] = q[i + 1]
      /\ Head(q) = q[1]
  BY TailFacts, SeqFacts
<1>2. 1 \in DOMAIN q /\ \A i \in DOMAIN Tail(q) : i \in Nat /\ i + 1 \in DOMAIN q /\ i + 1 # 1
  BY <1>1
<1>3. \A i, j \in DOMAIN Tail(q) : i + 1 = j + 1 => i = j
  BY <1>2
<1> QED BY <1>1, <1>2, <1>3 DEF QueueFits, Awaits

-----------------------------------------------------------------------------
(* What the durable side keeps *)

LEMMA StoreParts ==
  ASSUME NEW s, IsStore(s), NEW t, NEW f, NEW reserved, NEW b
  PROVE  /\ IsStore(WithTurn(s, t, f, reserved)) /\ WithTurn(s, t, f, reserved).receipts = s.receipts \cup {<<t, f.turn>>}
         /\ IsStore(WithBlock(s, b)) /\ WithBlock(s, b).receipts = s.receipts
BY DEF IsStore, WithTurn, WithBlock

Copies ==
  /\ IsStore(db) /\ \A p \in Proc : IsStore(mem[p])
  /\ DOMAIN mem = Proc /\ fresh \in [Proc -> BOOLEAN]

DurableKept == Copies' /\ ReceiptsKept' /\ db.receipts \subseteq db'.receipts

LEMMA SavedKeeps ==
  ASSUME Shapes, ReceiptsKept, NEW p \in Proc, fresh[p], NEW s, IsStore(s), mem[p].receipts \subseteq s.receipts, Saved(p, s)
  PROVE  DurableKept
<1>1. db' = s /\ DOMAIN mem' = Proc /\ mem'[p] = s /\ (\A q \in Proc : q # p => mem'[q] = mem[q])
  BY DEF Saved, Shapes
<1>2. fresh' \in [Proc -> BOOLEAN] /\ (\A q \in Proc : fresh'[q] = (q = p))
  BY DEF Saved
<1>3. db.receipts \subseteq s.receipts
  BY DEF ReceiptsKept
<1> QED BY <1>1, <1>2, <1>3 DEF DurableKept, Copies, ReceiptsKept, Shapes

LEMMA LoadedKeeps ==
  ASSUME Shapes, ReceiptsKept, NEW p \in Proc, Loaded(p)
  PROVE  DurableKept
<1>1. db' = db /\ DOMAIN mem' = Proc /\ mem'[p] = db /\ (\A q \in Proc : q # p => mem'[q] = mem[q])
  BY DEF Loaded, Shapes
<1>2. fresh' \in [Proc -> BOOLEAN] /\ (\A q \in Proc : q # p => fresh'[q] = fresh[q])
  BY DEF Loaded, Shapes
<1> QED BY <1>1, <1>2 DEF DurableKept, Copies, ReceiptsKept, Shapes

LEMMA UnsavedKeeps ==
  ASSUME Shapes, ReceiptsKept, Unsaved
  PROVE  DurableKept
BY DEF Unsaved, durable, DurableKept, Copies, ReceiptsKept, Shapes

-----------------------------------------------------------------------------
(* What becomes of the turns that a session holds *)

TurnsTyped ==
  /\ pending \in [Thread -> Seq(Finished)]
  /\ batch \in [Thread -> [pc: BatchPc, turns: Seq(Finished)]]

\* A turn of t that was held is still held or stored by now.
StillHeld(t) == \A n : Held(t, n) => Held(t, n)' \/ <<t, n>> \in db'.receipts

BatchFits(t) ==
  /\ batch[t].pc = "idle" <=> batch[t].turns = <<>>
  /\ batch[t].pc \in {"stored", "seal"} => <<t, Head(batch[t].turns).turn>> \in db.receipts

TurnsKept == TurnsTyped' /\ \A t \in Thread : BatchFits(t)' /\ StillHeld(t)

OnlyBatch(t) == \A s \in Thread : s # t => batch'[s] = batch[s]

LEMMA BatchParts ==
  ASSUME Shapes, BatchesFit, NEW t \in Thread
  PROVE  /\ pending[t] \in Seq(Finished) /\ batch[t].turns \in Seq(Finished) /\ batch[t].pc \in BatchPc
         /\ batch[t] = [pc |-> batch[t].pc, turns |-> batch[t].turns]
         /\ BatchFits(t)
BY DEF Shapes, BatchesFit, BatchFits

LEMMA SameTurns ==
  ASSUME Shapes, BatchesFit, db.receipts \subseteq db'.receipts, NEW s \in Thread, pending'[s] = pending[s], batch'[s] = batch[s]
  PROVE  BatchFits(s)' /\ StillHeld(s)
<1>1. BatchFits(s)
  BY BatchParts
<1> QED BY <1>1 DEF BatchFits, StillHeld, Held

LEMMA OtherTurns ==
  ASSUME Shapes, BatchesFit, db.receipts \subseteq db'.receipts, NEW t \in Thread, TurnsTyped', OnlyBatch(t),
         \A s \in Thread : s # t => pending'[s] = pending[s],
         BatchFits(t)', StillHeld(t)
  PROVE  TurnsKept
<1>1. ASSUME NEW s \in Thread PROVE BatchFits(s)' /\ StillHeld(s)
  BY SameTurns DEF OnlyBatch
<1> QED BY <1>1 DEF TurnsKept

LEMMA TurnedKeeps ==
  ASSUME Shapes, BatchesFit, db.receipts \subseteq db'.receipts, NEW t \in Thread, batch[t].pc # "idle",
         NEW pc \in BatchPc \ {"idle"}, Turned(t, pc),
         pc \in {"stored", "seal"} => <<t, Head(batch[t].turns).turn>> \in db'.receipts
  PROVE  TurnsKept /\ OnlyBatch(t) /\ batch'[t].pc = pc /\ batch'[t].turns = batch[t].turns
<1>0. batch[t].turns \in Seq(Finished) /\ BatchFits(t)
  BY BatchParts
<1>1. pending' = pending /\ batch' = [batch EXCEPT ![t].pc = pc]
  BY DEF Turned
<1>2. TurnsTyped'
  BY <1>1 DEF TurnsTyped, Shapes, BatchPc
<1>3. OnlyBatch(t) /\ batch'[t].pc = pc /\ batch'[t].turns = batch[t].turns
  BY <1>1 DEF OnlyBatch, Shapes
<1>4. StillHeld(t)
  BY <1>1, <1>3 DEF StillHeld, Held
<1>5. BatchFits(t)'
  BY <1>0, <1>3 DEF BatchFits
<1> QED BY <1>1, <1>2, <1>3, <1>4, <1>5, OtherTurns

LEMMA HeldTogether ==
  ASSUME Shapes, BatchesFit, NEW t \in Thread, pending'[t] = batch[t].turns \o pending[t], batch'[t] = NoBatch
  PROVE  pending'[t] \in Seq(Finished) /\ StillHeld(t) /\ BatchFits(t)'
<1>1. pending[t] \in Seq(Finished) /\ batch[t].turns \in Seq(Finished)
  BY BatchParts
<1>2. ToSet(pending'[t]) = ToSet(batch[t].turns) \cup ToSet(pending[t])
  BY <1>1, SetOfConcat
<1>3. pending'[t] \in Seq(Finished)
  BY <1>1
<1>4. StillHeld(t)
  BY <1>2 DEF StillHeld, Held
<1>5. BatchFits(t)'
  BY DEF BatchFits, NoBatch
<1> QED BY <1>3, <1>4, <1>5

LEMMA GiveBackKeeps ==
  ASSUME Shapes, BatchesFit, db.receipts \subseteq db'.receipts, NEW t \in Thread, NEW ok, GiveBack(t, ok)
  PROVE  TurnsKept /\ OnlyBatch(t)
<1>1. /\ pending' = [pending EXCEPT ![t] = batch[t].turns \o pending[t]]
      /\ batch' = [batch EXCEPT ![t] = NoBatch]
  BY DEF GiveBack
<1>2. /\ pending'[t] = batch[t].turns \o pending[t] /\ batch'[t] = NoBatch
      /\ OnlyBatch(t) /\ \A s \in Thread : s # t => pending'[s] = pending[s]
  BY <1>1 DEF Shapes, OnlyBatch
<1>3. pending'[t] \in Seq(Finished) /\ StillHeld(t) /\ BatchFits(t)'
  BY <1>2, HeldTogether
<1>4. pending' \in [Thread -> Seq(Finished)]
  BY <1>1, <1>2, <1>3 DEF Shapes
<1>5. batch' \in [Thread -> [pc: BatchPc, turns: Seq(Finished)]]
  <2>1. NoBatch \in [pc: BatchPc, turns: Seq(Finished)]
    BY DEF NoBatch, BatchPc
  <2> QED BY <1>1, <2>1 DEF Shapes
<1> QED BY <1>2, <1>3, <1>4, <1>5, OtherTurns DEF TurnsTyped

LEMMA CompletedKeeps ==
  ASSUME Shapes, BatchesFit, db.receipts \subseteq db'.receipts, NEW t \in Thread, batch[t].pc # "idle",
         Completed(t), <<t, Head(batch[t].turns).turn>> \in db'.receipts
  PROVE  TurnsKept /\ OnlyBatch(t)
<1> DEFINE turns == batch[t].turns
<1>1. pending' = pending /\ pending[t] \in Seq(Finished) /\ turns \in Seq(Finished) /\ turns # <<>>
  BY BatchParts DEF Completed, BatchFits
<1>2. ToSet(turns) = {Head(turns)} \cup ToSet(Tail(turns)) /\ Tail(turns) \in Seq(Finished)
      /\ Len(turns) \in Nat /\ Len(Tail(turns)) = Len(turns) - 1
  BY <1>1, SetOfTail, HeadTailProperties
<1>3. CASE Len(turns) = 1
  <2>1. batch' = [batch EXCEPT ![t] = NoBatch] /\ NoBatch \in [pc: BatchPc, turns: Seq(Finished)]
    BY <1>3 DEF Completed, NoBatch, BatchPc
  <2>2. TurnsTyped' /\ batch'[t] = NoBatch /\ OnlyBatch(t)
    BY <1>1, <2>1 DEF TurnsTyped, Shapes, OnlyBatch
  <2>3. ToSet(Tail(turns)) = {}
    BY <1>2, <1>3 DEF ToSet
  <2>4. StillHeld(t)
    BY <1>1, <1>2, <2>3 DEF StillHeld, Held
  <2>5. BatchFits(t)'
    BY <2>2 DEF BatchFits, NoBatch
  <2> QED BY <1>1, <2>2, <2>4, <2>5, OtherTurns
<1>4. CASE Len(turns) # 1
  <2>1. batch' = [batch EXCEPT ![t] = [pc |-> "next", turns |-> Tail(turns)]]
    BY <1>4 DEF Completed
  <2>2. [pc |-> "next", turns |-> Tail(turns)] \in [pc: BatchPc, turns: Seq(Finished)]
    BY <1>2 DEF BatchPc
  <2>3. TurnsTyped' /\ batch'[t] = [pc |-> "next", turns |-> Tail(turns)] /\ OnlyBatch(t)
    BY <1>1, <2>1, <2>2 DEF TurnsTyped, Shapes, OnlyBatch
  <2> DEFINE rest == Tail(turns)
  <2>4. batch'[t].turns = rest /\ ToSet(turns) = {Head(turns)} \cup ToSet(rest)
    BY <1>2, <2>3
  <2>5. rest # <<>>
    <3>1. Len(rest) # 0 /\ Len(<<>>) = 0
      BY <1>2, <1>4
    <3> QED BY <3>1
  <2>7. StillHeld(t)
    <3> HIDE DEF rest
    <3> SUFFICES ASSUME NEW n, Held(t, n), <<t, n>> \notin db'.receipts PROVE Held(t, n)'
      BY DEF StillHeld
    <3>1. PICK g \in ToSet(pending[t]) \cup ToSet(turns) : g.turn = n
      BY DEF Held
    <3>2. g \in ToSet(pending[t]) \cup ToSet(rest)
      BY <2>4, <3>1
    <3> QED BY <1>1, <2>4, <3>1, <3>2 DEF Held
  <2>6. BatchFits(t)'
    BY <2>3, <2>5 DEF BatchFits
  <2> QED BY <1>1, <2>3, <2>7, <2>6, OtherTurns
<1> QED BY <1>3, <1>4

LEMMA IdleTurns ==
  ASSUME Shapes, BatchesFit, db.receipts \subseteq db'.receipts, UNCHANGED <<pending, batch>>
  PROVE  TurnsKept
<1>1. TurnsTyped'
  BY DEF Shapes, TurnsTyped
<1>2. ASSUME NEW s \in Thread PROVE BatchFits(s)' /\ StillHeld(s)
  BY SameTurns
<1> QED BY <1>1, <1>2 DEF TurnsKept

-----------------------------------------------------------------------------
(* What becomes of the mutation queues *)

QueuesKept == DOMAIN queue' = Proc /\ (\A p \in Proc : IsSeq(queue[p])') /\ QueuesFit'

\* A step that changes the queue of p, and batches of sessions of p only.
LEMMA OneQueue ==
  ASSUME Shapes, QueuesFit, NEW p \in Proc, NEW q, IsSeq(q), queue' = [queue EXCEPT ![p] = q],
         \A s \in Thread : Home[s] # p => batch'[s] = batch[s], QueueFits(batch', p, q)
  PROVE  QueuesKept
<1>1. DOMAIN queue' = Proc /\ queue'[p] = q /\ (\A r \in Proc : r # p => queue'[r] = queue[r])
  BY DEF Shapes
<1>2. \A r \in Proc : IsSeq(queue'[r])
  BY <1>1 DEF Shapes
<1>3. ASSUME NEW r \in Proc PROVE QueueFits(batch', r, queue'[r])
  <2>1. CASE r = p
    BY <1>1, <2>1
  <2>2. CASE r # p
    <3>1. queue'[r] = queue[r] /\ QueueFits(batch, r, queue[r]) /\ (\A t \in Sessions(r) : batch'[t] = batch[t])
      BY <1>1, <2>2 DEF QueuesFit, Sessions
    <3>2. QueueFits(batch', r, queue[r])
      BY <3>1, BatchMoves
    <3> QED BY <3>1, <3>2
  <2> QED BY <2>1, <2>2
<1> QED BY <1>1, <1>2, <1>3 DEF QueuesKept, QueuesFit

LEMMA SameQueues ==
  ASSUME Shapes, QueuesFit, UNCHANGED queue,
         \A p \in Proc : \A t \in Sessions(p) : Awaits(queue[p], t) => batch'[t] = batch[t]
  PROVE  QueuesKept
<1>1. ASSUME NEW p \in Proc PROVE QueueFits(batch', p, queue[p])
  <2>1. QueueFits(batch, p, queue[p]) /\ \A t \in Sessions(p) : Awaits(queue[p], t) => batch'[t] = batch[t]
    BY DEF QueuesFit
  <2> QED BY <2>1, BatchMoves
<1> QED BY <1>1 DEF QueuesKept, QueuesFit, Shapes

LEMMA NotAwaited ==
  ASSUME QueuesFit, NEW p \in Proc, NEW t \in Thread, batch[t].pc \in {"idle", "next", "stored"}
  PROVE  ~Awaits(queue[p], t)
<1>1. QueueFits(batch, p, queue[p])
  BY DEF QueuesFit
<1> QED BY <1>1 DEF Awaits, QueueFits, Fits, DrainOp

\* An operation is put at the end; a drain that waits for it waits for nothing else.
LEMMA PushKeeps ==
  ASSUME Shapes, QueuesFit, NEW p \in Proc, NEW o, queue' = [queue EXCEPT ![p] = Append(@, o)],
         \A s \in Thread : Home[s] # p => batch'[s] = batch[s],
         \A s \in Thread : Awaits(queue[p], s) => batch'[s] = batch[s],
         Fits(batch', p, o), DrainOp(o) => ~Awaits(queue[p], ThreadOf(o))
  PROVE  QueuesKept
<1> DEFINE q == queue[p]
<1>1. IsSeq(q) /\ QueueFits(batch, p, q)
  BY DEF Shapes, QueuesFit
<1>2. QueueFits(batch', p, q)
  BY <1>1, BatchMoves DEF Sessions
<1>3. IsSeq(Append(q, o)) /\ QueueFits(batch', p, Append(q, o))
  BY <1>1, <1>2, PushFits
<1> QED BY <1>3, OneQueue

\* The first operation is done; only the drain that waited for it moves.
LEMMA DoneKeeps ==
  ASSUME Shapes, QueuesFit, NEW p \in Proc, queue[p] # <<>>, Done(p),
         \A s \in Thread : ~(DrainOp(Head(queue[p])) /\ s = ThreadOf(Head(queue[p]))) => batch'[s] = batch[s]
  PROVE  QueuesKept
<1> DEFINE q == Tail(queue[p])
           o == Head(queue[p])
<1>1. IsSeq(queue[p]) /\ QueueFits(batch, p, queue[p])
  BY DEF Shapes, QueuesFit
<1>2. IsSeq(q) /\ QueueFits(batch, p, q) /\ Fits(batch, p, o) /\ (DrainOp(o) => ~Awaits(q, ThreadOf(o)))
  BY <1>1, PopFits
<1> HIDE DEF q, o
<1>3. \A s \in Thread : Home[s] # p => batch'[s] = batch[s]
  BY <1>2 DEF Fits, Sessions, o
<1>4. \A s \in Thread : Awaits(q, s) => batch'[s] = batch[s]
  BY <1>2 DEF o
<1>5. QueueFits(batch', p, q)
  BY <1>2, <1>4, BatchMoves DEF Sessions
<1>6. queue' = [queue EXCEPT ![p] = q]
  BY DEF Done, q
<1> QED BY <1>2, <1>3, <1>5, <1>6, OneQueue

\* The first operation is done, and another takes its place at the end.
LEMMA DoneThenKeeps ==
  ASSUME Shapes, QueuesFit, NEW p \in Proc, queue[p] # <<>>, NEW e, DoneThen(p, e),
         \A s \in Thread : ~(DrainOp(Head(queue[p])) /\ s = ThreadOf(Head(queue[p]))) => batch'[s] = batch[s],
         Fits(batch', p, e), DrainOp(e) => (DrainOp(Head(queue[p])) /\ ThreadOf(e) = ThreadOf(Head(queue[p])))
  PROVE  QueuesKept
<1> DEFINE q == Tail(queue[p])
           o == Head(queue[p])
<1>1. IsSeq(queue[p]) /\ QueueFits(batch, p, queue[p])
  BY DEF Shapes, QueuesFit
<1>2. IsSeq(q) /\ QueueFits(batch, p, q) /\ Fits(batch, p, o) /\ (DrainOp(o) => ~Awaits(q, ThreadOf(o)))
  BY <1>1, PopFits
<1>a. DrainOp(e) => ~Awaits(q, ThreadOf(e))
  BY <1>2
<1> HIDE DEF q, o
<1>3. \A s \in Thread : Home[s] # p => batch'[s] = batch[s]
  BY <1>2 DEF Fits, Sessions, o
<1>4. \A s \in Thread : Awaits(q, s) => batch'[s] = batch[s]
  BY <1>2 DEF o
<1>5. QueueFits(batch', p, q)
  BY <1>2, <1>4, BatchMoves DEF Sessions
<1>6. IsSeq(Append(q, e)) /\ QueueFits(batch', p, Append(q, e))
  BY <1>2, <1>5, <1>a, PushFits
<1>7. queue' = [queue EXCEPT ![p] = Append(q, e)]
  BY DEF DoneThen, q
<1> QED BY <1>3, <1>6, <1>7, OneQueue

-----------------------------------------------------------------------------
(* The invariant after a step that ends no turn and starts none *)

LEMMA StepKeeps ==
  ASSUME TurnInv, DurableKept, TurnsKept, QueuesKept, UNCHANGED <<host, log, lost>>
  PROVE  TurnInv'
<1>1. Shapes'
  BY DEF TurnInv, Shapes, DurableKept, Copies, TurnsKept, TurnsTyped, QueuesKept
<1>2. ReceiptsKept' /\ QueuesFit'
  BY DEF DurableKept, QueuesKept
<1>3. BatchesFit'
  BY DEF TurnsKept, BatchFits, BatchesFit
<1>4. TurnsAreReal'
  BY DEF TurnInv, TurnsAreReal
<1>5. NoTurnIsDropped'
  <2> SUFFICES ASSUME NEW t \in Thread, NEW n \in ToSet(log[t]), ~Held(t, n)' PROVE <<t, n>> \in db'.receipts \cup lost
    BY DEF NoTurnIsDropped
  <2>1. <<t, n>> \in db.receipts \cup lost \/ Held(t, n)
    BY DEF TurnInv, NoTurnIsDropped
  <2> QED BY <2>1 DEF TurnsKept, StillHeld, DurableKept
<1> QED BY <1>1, <1>2, <1>3, <1>4, <1>5 DEF TurnInv

-----------------------------------------------------------------------------
(* The actions *)

LEMMA DrainBeginKeeps ==
  ASSUME TurnInv, NEW t \in Thread, DrainBegin(t)
  PROVE  TurnInv'
<1>0. Shapes /\ ReceiptsKept /\ QueuesFit /\ BatchesFit
  BY DEF TurnInv
<1>1. UNCHANGED <<queue, host, log, lost>> /\ Unsaved /\ db' = db
  BY DEF DrainBegin, past, Unsaved, durable
<1>2. DurableKept
  BY <1>0, <1>1, UnsavedKeeps
<1>3. CASE pending[t] = <<>>
  <2>1. UNCHANGED <<pending, batch>>
    BY <1>3 DEF DrainBegin
  <2> QED BY <1>0, <1>1, <1>2, <2>1, IdleTurns, SameQueues, StepKeeps
<1>4. CASE pending[t] # <<>>
  <2>1. /\ batch[t].pc = "idle" /\ pending[t] \in Seq(Finished) /\ batch[t].turns = <<>>
        /\ batch' = [batch EXCEPT ![t] = [pc |-> "next", turns |-> pending[t]]]
        /\ pending' = [pending EXCEPT ![t] = <<>>]
    BY <1>0, <1>4, BatchParts DEF DrainBegin, BatchFits
  <2>2. [pc |-> "next", turns |-> pending[t]] \in [pc: BatchPc, turns: Seq(Finished)] /\ <<>> \in Seq(Finished)
    BY <2>1 DEF BatchPc
  <2>3. TurnsTyped'
    BY <1>0, <2>1, <2>2 DEF TurnsTyped, Shapes
  <2>4. /\ OnlyBatch(t) /\ batch'[t] = [pc |-> "next", turns |-> pending[t]] /\ pending'[t] = <<>>
        /\ \A s \in Thread : s # t => pending'[s] = pending[s]
    BY <1>0, <2>1 DEF Shapes, OnlyBatch
  <2>5. StillHeld(t)
    BY <2>1, <2>4 DEF StillHeld, Held
  <2>6. BatchFits(t)'
    BY <1>4, <2>4 DEF BatchFits
  <2>7. TurnsKept
    BY <1>0, <1>1, <2>3, <2>4, <2>5, <2>6, OtherTurns
  <2>8. ASSUME NEW p \in Proc, NEW s \in Sessions(p), Awaits(queue[p], s) PROVE batch'[s] = batch[s]
    BY <1>0, <2>1, <2>4, <2>8, NotAwaited DEF Sessions, OnlyBatch
  <2> QED BY <1>0, <1>1, <1>2, <2>7, <2>8, SameQueues, StepKeeps
<1> QED BY <1>3, <1>4

LEMMA AppendTurnKeeps ==
  ASSUME TurnInv, NEW t \in Thread, AppendTurn(t)
  PROVE  TurnInv'
<1> DEFINE p == Home[t]
           f == Head(batch[t].turns)
           held == Reserved(mem[p], t, f.turn)
<1>0. Shapes /\ ReceiptsKept /\ QueuesFit /\ BatchesFit /\ p \in Proc
  BY ConstantsAssumption DEF TurnInv
<1>1. UNCHANGED <<host, log, lost>> /\ Unsaved /\ db' = db /\ batch[t].pc = "next"
  BY DEF AppendTurn, past, Unsaved, durable
<1>2. DurableKept
  BY <1>0, <1>1, UnsavedKeeps
<1>3. ~Awaits(queue[p], t)
  BY <1>0, <1>1, NotAwaited
<1>4. CASE GiveBack(t, FALSE) /\ UNCHANGED queue
  <2>1. TurnsKept /\ OnlyBatch(t)
    BY <1>0, <1>1, <1>4, GiveBackKeeps
  <2>2. ASSUME NEW r \in Proc, NEW s \in Sessions(r), Awaits(queue[r], s) PROVE batch'[s] = batch[s]
    BY <1>0, <1>1, <2>1, <2>2, NotAwaited DEF Sessions, OnlyBatch
  <2> QED BY <1>0, <1>1, <1>2, <1>4, <2>1, <2>2, SameQueues, StepKeeps
<1>5. ASSUME NEW reserved, Turned(t, "append"),
             queue' = [queue EXCEPT ![p] = Append(@,
               [kind |-> "append", thread |-> t, turn |-> f.turn, parts |-> f.parts, reserved |-> reserved])]
      PROVE  TurnInv'
  <2> DEFINE o == [kind |-> "append", thread |-> t, turn |-> f.turn, parts |-> f.parts, reserved |-> reserved]
  <2>1. TurnsKept /\ OnlyBatch(t) /\ batch'[t].pc = "append" /\ batch'[t].turns = batch[t].turns
    <3>1. "append" \in BatchPc \ {"idle"}
      BY DEF BatchPc
    <3> QED BY <1>0, <1>1, <1>5, <3>1, TurnedKeeps
  <2>2. Fits(batch', p, o) /\ ThreadOf(o) = t
    BY <2>1 DEF Fits, DrainOp, ThreadOf, Sessions
  <2>3. queue' = [queue EXCEPT ![p] = Append(queue[p], o)]
    BY <1>5
  <2>4. \A s \in Thread : Home[s] # p => batch'[s] = batch[s]
    BY <2>1 DEF OnlyBatch
  <2>5. \A s \in Thread : Awaits(queue[p], s) => batch'[s] = batch[s]
    BY <1>3, <2>1 DEF OnlyBatch
  <2> HIDE DEF o
  <2>6. QueuesKept
    BY <1>0, <1>3, <2>2, <2>3, <2>4, <2>5, PushKeeps
  <2> QED BY <1>1, <1>2, <2>1, <2>6, StepKeeps
<1> QED BY <1>4, <1>5 DEF AppendTurn

LEMMA SealAfterAppendKeeps ==
  ASSUME TurnInv, NEW t \in Thread, SealAfterAppend(t)
  PROVE  TurnInv'
<1> DEFINE p == Home[t]
<1>0. Shapes /\ ReceiptsKept /\ QueuesFit /\ BatchesFit /\ p \in Proc
  BY ConstantsAssumption DEF TurnInv
<1>1. UNCHANGED <<host, log, lost>> /\ Unsaved /\ db' = db /\ batch[t].pc = "stored"
  BY DEF SealAfterAppend, past, Unsaved, durable
<1>2. DurableKept
  BY <1>0, <1>1, UnsavedKeeps
<1>3. ~Awaits(queue[p], t)
  BY <1>0, <1>1, NotAwaited
<1>4. <<t, Head(batch[t].turns).turn>> \in db'.receipts
  BY <1>0, <1>1, BatchParts DEF BatchFits
<1>5. CASE (Completed(t) \/ GiveBack(t, FALSE)) /\ UNCHANGED queue
  <2>1. TurnsKept /\ OnlyBatch(t)
    BY <1>0, <1>1, <1>4, <1>5, GiveBackKeeps, CompletedKeeps
  <2>2. ASSUME NEW r \in Proc, NEW s \in Sessions(r), Awaits(queue[r], s) PROVE batch'[s] = batch[s]
    BY <1>0, <1>1, <2>1, <2>2, NotAwaited DEF Sessions, OnlyBatch
  <2> QED BY <1>0, <1>1, <1>2, <1>5, <2>1, <2>2, SameQueues, StepKeeps
<1>6. CASE /\ Turned(t, "seal")
           /\ queue' = [queue EXCEPT ![p] = Append(@, [kind |-> "seal", block |-> NextBlock(p, t), by |-> "drain"])]
  <2> DEFINE o == [kind |-> "seal", block |-> NextBlock(p, t), by |-> "drain"]
  <2>1. TurnsKept /\ OnlyBatch(t) /\ batch'[t].pc = "seal"
    <3>1. "seal" \in BatchPc \ {"idle"}
      BY DEF BatchPc
    <3> QED BY <1>0, <1>1, <1>4, <1>6, <3>1, TurnedKeeps
  <2>2. Fits(batch', p, o) /\ ThreadOf(o) = t
    BY <2>1 DEF Fits, DrainOp, ThreadOf, Sessions, NextBlock
  <2>3. queue' = [queue EXCEPT ![p] = Append(queue[p], o)]
    BY <1>6
  <2>4. \A s \in Thread : Home[s] # p => batch'[s] = batch[s]
    BY <2>1 DEF OnlyBatch
  <2>5. \A s \in Thread : Awaits(queue[p], s) => batch'[s] = batch[s]
    BY <1>3, <2>1 DEF OnlyBatch
  <2> HIDE DEF o
  <2>6. QueuesKept
    BY <1>0, <1>3, <2>2, <2>3, <2>4, <2>5, PushKeeps
  <2> QED BY <1>1, <1>2, <2>1, <2>6, StepKeeps
<1> QED BY <1>5, <1>6 DEF SealAfterAppend

LEMMA RunReserveKeeps ==
  ASSUME TurnInv, NEW p \in Proc, RunReserve(p)
  PROVE  TurnInv'
<1>0. Shapes /\ ReceiptsKept /\ QueuesFit /\ BatchesFit
  BY DEF TurnInv
<1> DEFINE o == Head(queue[p])
           said == [mem[p] EXCEPT !.tail[o.thread] = Append(@, User(o.turn, o.parts, "asked"))]
<1>1. UNCHANGED <<host, log, lost, pending, batch>> /\ Done(p) /\ queue[p] # <<>>
  BY DEF RunReserve, past, draining, NextIs
<1>2. CASE Unsaved
  BY <1>0, <1>1, <1>2, UnsavedKeeps, IdleTurns, DoneKeeps, StepKeeps DEF DurableKept
<1>3. ASSUME NEW s, fresh[p], IsStore(s), s.receipts = mem[p].receipts, Saved(p, s) PROVE TurnInv'
  <2>1. DurableKept
    BY <1>0, <1>3, SavedKeeps
  <2> QED BY <1>0, <1>1, <2>1, IdleTurns, DoneKeeps, StepKeeps DEF DurableKept
<1>4. IsStore(mem[p])
  BY <1>0 DEF Shapes
<1>5. IsStore(said) /\ said.receipts = mem[p].receipts
  BY <1>4 DEF IsStore
<1>6. Unsaved \/ (fresh[p] /\ (Saved(p, mem[p]) \/ Saved(p, said)))
  BY DEF RunReserve
<1> HIDE DEF said
<1> QED BY <1>2, <1>3, <1>4, <1>5, <1>6

\* The operation at the head of the queue, when a drain waits for it.
LEMMA DrainHead ==
  ASSUME TurnInv, NEW p \in Proc, queue[p] # <<>>, DrainOp(Head(queue[p]))
  PROVE  LET o == Head(queue[p])  t == ThreadOf(o)
         IN /\ t \in Thread /\ Home[t] = p /\ batch[t].pc = o.kind
            /\ o.kind = "append" => o.turn = Head(batch[t].turns).turn
<1>1. IsSeq(queue[p]) /\ QueueFits(batch, p, queue[p])
  BY DEF TurnInv, Shapes, QueuesFit
<1>2. Fits(batch, p, Head(queue[p]))
  BY <1>1, PopFits
<1> QED BY <1>2 DEF Fits, Sessions

\* A drain that is told the outcome of its operation, and whatever it does with its batch.
LEMMA DrainTold ==
  ASSUME TurnInv, NEW p \in Proc, queue[p] # <<>>, NEW t \in Thread, DrainOp(Head(queue[p])), ThreadOf(Head(queue[p])) = t,
         DurableKept, TurnsKept, OnlyBatch(t), UNCHANGED <<host, log, lost>>,
         \/ Done(p)
         \/ DoneThen(p, [kind |-> "reload", thread |-> t, by |-> "drain"]) /\ batch'[t].pc = "reload"
  PROVE  TurnInv'
<1>0. Shapes /\ QueuesFit
  BY DEF TurnInv
<1> DEFINE e == [kind |-> "reload", thread |-> t, by |-> "drain"]
<1>1. Home[t] = p
  BY DrainHead
<1>2. Fits(batch', p, e) \/ batch'[t].pc # "reload"
  BY <1>1 DEF Fits, DrainOp, ThreadOf, Sessions
<1>3. ThreadOf(e) = t
  BY DEF ThreadOf
<1>4. \A s \in Thread : ~(DrainOp(Head(queue[p])) /\ s = ThreadOf(Head(queue[p]))) => batch'[s] = batch[s]
  BY DEF OnlyBatch
<1>5. CASE Done(p)
  BY <1>0, <1>4, <1>5, DoneKeeps, StepKeeps
<1>6. CASE DoneThen(p, e) /\ batch'[t].pc = "reload"
  <2> HIDE DEF e
  <2>1. QueuesKept
    BY <1>0, <1>2, <1>3, <1>4, <1>6, DoneThenKeeps
  <2> QED BY <2>1, StepKeeps
<1> QED BY <1>5, <1>6

LEMMA RunAppendKeeps ==
  ASSUME TurnInv, NEW p \in Proc, RunAppend(p)
  PROVE  TurnInv'
<1> DEFINE o == Head(queue[p])
           t == o.thread
<1>0. Shapes /\ ReceiptsKept /\ QueuesFit /\ BatchesFit
  BY DEF TurnInv
<1>1. UNCHANGED <<host, log, lost>> /\ queue[p] # <<>> /\ o.kind = "append"
  BY DEF RunAppend, NextIs, past
<1>2. DrainOp(o) /\ ThreadOf(o) = t
  BY <1>1 DEF DrainOp, ThreadOf
<1>3. t \in Thread /\ Home[t] = p /\ batch[t].pc = "append" /\ o.turn = Head(batch[t].turns).turn
  BY <1>1, <1>2, DrainHead
<1>4. CASE Known(p, o) /\ Unsaved /\ Completed(t) /\ Done(p)
  <2>1. DurableKept
    BY <1>0, <1>4, UnsavedKeeps
  <2>2. <<t, Head(batch[t].turns).turn>> \in db'.receipts
    BY <1>0, <1>3, <1>4, <2>1 DEF Known, ReceiptsKept, DurableKept
  <2>3. TurnsKept /\ OnlyBatch(t)
    BY <1>0, <1>3, <1>4, <2>1, <2>2, CompletedKeeps DEF DurableKept
  <2> QED BY <1>1, <1>2, <1>3, <1>4, <2>1, <2>3, DrainTold
<1>5. CASE Unsaved /\ Turned(t, "reload") /\ DoneThen(p, [kind |-> "reload", thread |-> t, by |-> "drain"])
  <2>1. DurableKept
    BY <1>0, <1>5, UnsavedKeeps
  <2>2. "reload" \in BatchPc \ {"idle"}
    BY DEF BatchPc
  <2>3. TurnsKept /\ OnlyBatch(t) /\ batch'[t].pc = "reload"
    BY <1>0, <1>3, <1>5, <2>1, <2>2, TurnedKeeps DEF DurableKept
  <2> QED BY <1>1, <1>2, <1>3, <1>5, <2>1, <2>3, DrainTold
<1>6. CASE Unsaved /\ GiveBack(t, FALSE) /\ Done(p)
  <2>1. DurableKept
    BY <1>0, <1>6, UnsavedKeeps
  <2>3. TurnsKept /\ OnlyBatch(t)
    BY <1>0, <1>3, <1>6, <2>1, GiveBackKeeps DEF DurableKept
  <2> QED BY <1>1, <1>2, <1>3, <1>6, <2>1, <2>3, DrainTold
<1>7. CASE fresh[p] /\ Saved(p, WithTurn(mem[p], t, o, o.reserved)) /\ Turned(t, "stored") /\ Done(p)
  <2> DEFINE s == WithTurn(mem[p], t, o, o.reserved)
  <2>1. IsStore(mem[p])
    BY <1>0 DEF Shapes
  <2>2. IsStore(s) /\ s.receipts = mem[p].receipts \cup {<<t, o.turn>>}
    BY <2>1, StoreParts
  <2> HIDE DEF s
  <2>3. Saved(p, s)
    BY <1>7 DEF s
  <2>4. DurableKept
    BY <1>0, <1>7, <2>2, <2>3, SavedKeeps
  <2>5. <<t, Head(batch[t].turns).turn>> \in db'.receipts
    BY <1>3, <2>2, <2>3 DEF Saved
  <2>6. "stored" \in BatchPc \ {"idle"}
    BY DEF BatchPc
  <2>7. TurnsKept /\ OnlyBatch(t)
    BY <1>0, <1>3, <1>7, <2>4, <2>5, <2>6, TurnedKeeps DEF DurableKept
  <2> QED BY <1>1, <1>2, <1>3, <1>7, <2>4, <2>7, DrainTold
<1> QED BY <1>4, <1>5, <1>6, <1>7 DEF RunAppend

\* Resumption was told the outcome of its operation: no batch moves.
LEMMA ResumeTold ==
  ASSUME TurnInv, NEW p \in Proc, queue[p] # <<>>, Done(p), DurableKept, UNCHANGED <<pending, batch, host, log, lost>>
  PROVE  TurnInv'
<1>0. Shapes /\ QueuesFit /\ BatchesFit
  BY DEF TurnInv
<1>1. TurnsKept
  BY <1>0, IdleTurns DEF DurableKept
<1> QED BY <1>0, <1>1, DoneKeeps, StepKeeps

LEMMA RunSealKeeps ==
  ASSUME TurnInv, NEW p \in Proc, RunSeal(p)
  PROVE  TurnInv'
<1> DEFINE o == Head(queue[p])
           b == o.block
           t == b.thread
<1>0. Shapes /\ ReceiptsKept /\ QueuesFit /\ BatchesFit
  BY DEF TurnInv
<1>1. UNCHANGED <<host, log, lost>> /\ queue[p] # <<>> /\ o.kind = "seal"
  BY DEF RunSeal, NextIs, past
<1>2. DurableKept
  <2>1. CASE Unsaved
    BY <1>0, <2>1, UnsavedKeeps
  <2>2. CASE CanSeal(p, b) /\ Saved(p, WithBlock(mem[p], b))
    <3> DEFINE s == WithBlock(mem[p], b)
    <3>1. IsStore(mem[p]) /\ fresh[p]
      BY <1>0, <2>2 DEF Shapes, CanSeal
    <3>2. IsStore(s) /\ s.receipts = mem[p].receipts
      BY <3>1, StoreParts
    <3> HIDE DEF s
    <3>3. Saved(p, s)
      BY <2>2 DEF s
    <3> QED BY <1>0, <3>1, <3>2, <3>3, SavedKeeps
  <2> QED BY <2>1, <2>2 DEF RunSeal
<1>3. CASE o.by = "drain"
  <2>1. DrainOp(o) /\ ThreadOf(o) = t
    BY <1>1, <1>3 DEF DrainOp, ThreadOf
  <2>2. t \in Thread /\ batch[t].pc = "seal"
    BY <1>1, <2>1, DrainHead
  <2>3. <<t, Head(batch[t].turns).turn>> \in db'.receipts
    BY <1>0, <1>2, <2>2, BatchParts DEF BatchFits, DurableKept
  <2>4. CASE (Completed(t) \/ GiveBack(t, FALSE)) /\ Done(p)
    <3>1. TurnsKept /\ OnlyBatch(t)
      BY <1>0, <1>2, <2>2, <2>3, <2>4, CompletedKeeps, GiveBackKeeps DEF DurableKept
    <3> QED BY <1>1, <1>2, <2>1, <2>2, <2>4, <3>1, DrainTold
  <2>5. CASE Turned(t, "reload") /\ DoneThen(p, [kind |-> "reload", thread |-> t, by |-> "drain"])
    <3>1. "reload" \in BatchPc \ {"idle"}
      BY DEF BatchPc
    <3>2. TurnsKept /\ OnlyBatch(t) /\ batch'[t].pc = "reload"
      BY <1>0, <1>2, <2>2, <2>5, <3>1, TurnedKeeps DEF DurableKept
    <3> QED BY <1>1, <1>2, <2>1, <2>2, <2>5, <3>2, DrainTold
  <2> QED BY <1>3, <2>4, <2>5 DEF RunSeal
<1>4. CASE o.by # "drain"
  <2>1. UNCHANGED <<pending, batch>>
    BY <1>4 DEF RunSeal, draining
  <2>2. CASE Done(p)
    BY <1>1, <1>2, <2>1, <2>2, ResumeTold
  <2>3. CASE DoneThen(p, [kind |-> "reload", thread |-> t, by |-> o.by])
    <3> DEFINE e == [kind |-> "reload", thread |-> t, by |-> o.by]
    <3>1. ~DrainOp(e)
      BY <1>4 DEF DrainOp
    <3>2. Fits(batch', p, e)
      BY <3>1 DEF Fits
    <3> HIDE DEF e
    <3>3. DoneThen(p, e)
      BY <2>3 DEF e
    <3>4. QueuesKept
      BY <1>0, <1>1, <2>1, <3>1, <3>2, <3>3, DoneThenKeeps
    <3>5. TurnsKept
      BY <1>0, <1>2, <2>1, IdleTurns DEF DurableKept
    <3> QED BY <1>1, <1>2, <3>4, <3>5, StepKeeps
  <2> QED BY <2>2, <2>3 DEF RunSeal
<1> QED BY <1>3, <1>4

LEMMA RunReloadKeeps ==
  ASSUME TurnInv, NEW p \in Proc, RunReload(p)
  PROVE  TurnInv'
<1> DEFINE o == Head(queue[p])
           t == o.thread
<1>0. Shapes /\ ReceiptsKept /\ QueuesFit /\ BatchesFit
  BY DEF TurnInv
<1>1. UNCHANGED <<host, log, lost>> /\ queue[p] # <<>> /\ o.kind = "reload" /\ Done(p)
  BY DEF RunReload, NextIs, past
<1>2. DurableKept
  BY <1>0, LoadedKeeps DEF RunReload
<1>3. CASE o.by = "drain"
  <2>1. DrainOp(o) /\ ThreadOf(o) = t /\ GiveBack(t, TRUE)
    BY <1>1, <1>3 DEF DrainOp, ThreadOf, RunReload
  <2>2. t \in Thread
    BY <1>1, <2>1, DrainHead
  <2>3. TurnsKept /\ OnlyBatch(t)
    BY <1>0, <1>2, <2>1, <2>2, GiveBackKeeps DEF DurableKept
  <2> QED BY <1>1, <1>2, <2>1, <2>2, <2>3, DrainTold
<1>4. CASE o.by # "drain"
  BY <1>1, <1>2, <1>4, ResumeTold DEF RunReload, draining
<1> QED BY <1>3, <1>4

LEMMA SealOnOpenKeeps ==
  ASSUME TurnInv, NEW p \in Proc, SealOnOpen(p)
  PROVE  TurnInv'
<1> DEFINE waiting(s) == Home[s] = p /\ batch[s].pc = "next"
<1>0. Shapes /\ ReceiptsKept /\ QueuesFit /\ BatchesFit
  BY DEF TurnInv
<1>1. UNCHANGED <<queue, host, log, lost>>
  BY DEF SealOnOpen, past
<1>2. ASSUME NEW b, CanSeal(p, b), Saved(p, WithBlock(mem[p], b)), UNCHANGED <<pending, batch>> PROVE TurnInv'
  <2> DEFINE s == WithBlock(mem[p], b)
  <2>1. IsStore(mem[p]) /\ fresh[p]
    BY <1>0, <1>2 DEF Shapes, CanSeal
  <2>2. IsStore(s) /\ s.receipts = mem[p].receipts
    BY <2>1, StoreParts
  <2> HIDE DEF s
  <2>3. Saved(p, s)
    BY <1>2 DEF s
  <2>4. DurableKept
    BY <1>0, <2>1, <2>2, <2>3, SavedKeeps
  <2> QED BY <1>0, <1>1, <1>2, <2>4, IdleTurns, SameQueues, StepKeeps DEF DurableKept
<1>3. CASE /\ Unsaved
           /\ batch' = [s \in Thread |-> IF waiting(s) THEN NoBatch ELSE batch[s]]
           /\ pending' = [s \in Thread |-> IF waiting(s) THEN batch[s].turns \o pending[s] ELSE pending[s]]
  <2>1. DurableKept /\ db' = db
    BY <1>0, <1>3, UnsavedKeeps DEF Unsaved, durable
  <2>2. ASSUME NEW s \in Thread
        PROVE  /\ pending'[s] \in Seq(Finished) /\ batch'[s] \in [pc: BatchPc, turns: Seq(Finished)]
               /\ BatchFits(s)' /\ StillHeld(s)
    <3>1. CASE waiting(s)
      <4>1. pending'[s] = batch[s].turns \o pending[s] /\ batch'[s] = NoBatch
        BY <1>3, <3>1
      <4>2. NoBatch \in [pc: BatchPc, turns: Seq(Finished)]
        BY DEF NoBatch, BatchPc
      <4> QED BY <1>0, <4>1, <4>2, HeldTogether
    <3>2. CASE ~waiting(s)
      <4>1. pending'[s] = pending[s] /\ batch'[s] = batch[s]
        BY <1>3, <3>2
      <4>2. BatchFits(s)' /\ StillHeld(s)
        BY <1>0, <2>1, <4>1, SameTurns
      <4> QED BY <1>0, <4>1, <4>2 DEF Shapes
    <3> QED BY <3>1, <3>2
  <2>3. TurnsTyped'
    BY <1>3, <2>2 DEF TurnsTyped
  <2>4. TurnsKept
    BY <2>2, <2>3 DEF TurnsKept
  <2>5. ASSUME NEW r \in Proc, NEW s \in Sessions(r), Awaits(queue[r], s) PROVE batch'[s] = batch[s]
    <3>1. s \in Thread /\ batch[s].pc # "next"
      BY <1>0, <2>5, NotAwaited DEF Sessions
    <3> QED BY <1>3, <3>1
  <2> QED BY <1>0, <1>1, <2>1, <2>4, <2>5, SameQueues, StepKeeps
<1> QED BY <1>2, <1>3 DEF SealOnOpen, draining

\* Steps of the space, of resumption and of a flush that leave the turns where they are.
LEMMA AsideKeeps ==
  ASSUME TurnInv, DurableKept, UNCHANGED <<queue, pending, batch, host, log, lost>>
  PROVE  TurnInv'
BY SameQueues, IdleTurns, StepKeeps DEF TurnInv, DurableKept

\* Operations nobody drains for.
LEMMA PushAside ==
  ASSUME TurnInv, UNCHANGED <<durable, pending, batch, host, log, lost>>, NEW p \in Proc, NEW o, ~DrainOp(o),
         queue' = [queue EXCEPT ![p] = Append(@, o)]
  PROVE  TurnInv'
<1>0. Shapes /\ ReceiptsKept /\ QueuesFit /\ BatchesFit
  BY DEF TurnInv
<1>1. DurableKept
  BY <1>0, UnsavedKeeps DEF Unsaved
<1>2. TurnsKept
  BY <1>0, <1>1, IdleTurns DEF DurableKept
<1>3. Fits(batch', p, o)
  BY DEF Fits
<1>4. QueuesKept
  BY <1>0, <1>3, PushKeeps
<1> QED BY <1>1, <1>2, <1>4, StepKeeps

LEMMA SpaceKeeps ==
  ASSUME TurnInv, NEW p \in Proc, OpenSpace(p) \/ Opened(p) \/ Flush(p) \/ FlushSettled(p)
  PROVE  TurnInv'
<1>0. Shapes /\ ReceiptsKept
  BY DEF TurnInv
<1>1. UNCHANGED <<queue, pending, batch, host, log, lost>>
  BY DEF OpenSpace, Opened, Flush, FlushSettled, draining, past
<1>2. Loaded(p) \/ Unsaved
  BY DEF OpenSpace, Opened, Flush, FlushSettled, Unsaved
<1>3. DurableKept
  BY <1>0, <1>2, LoadedKeeps, UnsavedKeeps
<1> QED BY <1>1, <1>3, AsideKeeps

LEMMA ResumeKeeps ==
  ASSUME TurnInv, NEW p \in Proc, ResumeBegin(p) \/ ResumeSeal(p)
  PROVE  TurnInv'
<1>0. Shapes /\ ReceiptsKept
  BY DEF TurnInv
<1>1. UNCHANGED <<durable, pending, batch, host, log, lost>>
  BY DEF ResumeBegin, ResumeSeal, draining, past
<1>2. CASE UNCHANGED queue
  <2>1. DurableKept
    BY <1>0, <1>1, UnsavedKeeps DEF Unsaved
  <2> QED BY <1>1, <1>2, <2>1, AsideKeeps
<1>3. ASSUME NEW o, o.kind # "append", o.by # "drain", queue' = [queue EXCEPT ![p] = Append(@, o)] PROVE TurnInv'
  BY <1>1, <1>3, PushAside DEF DrainOp
<1>4. ASSUME NEW s, queue' = [queue EXCEPT ![p] = Append(@, [kind |-> "reload", thread |-> s, by |-> "resume"])] PROVE TurnInv'
  <2> DEFINE o == [kind |-> "reload", thread |-> s, by |-> "resume"]
  <2>1. o.kind # "append" /\ o.by # "drain" /\ queue' = [queue EXCEPT ![p] = Append(@, o)]
    BY <1>4
  <2> HIDE DEF o
  <2> QED BY <1>3, <2>1
<1>5. ASSUME NEW b, queue' = [queue EXCEPT ![p] = Append(@, [kind |-> "seal", block |-> b, by |-> "resume"])] PROVE TurnInv'
  <2> DEFINE o == [kind |-> "seal", block |-> b, by |-> "resume"]
  <2>1. o.kind # "append" /\ o.by # "drain" /\ queue' = [queue EXCEPT ![p] = Append(@, o)]
    BY <1>5
  <2> HIDE DEF o
  <2> QED BY <1>3, <2>1
<1>6. \/ UNCHANGED queue
      \/ \E s : queue' = [queue EXCEPT ![p] = Append(@, [kind |-> "reload", thread |-> s, by |-> "resume"])]
      \/ \E t \in Thread : queue' = [queue EXCEPT ![p] = Append(@, [kind |-> "seal", block |-> NextBlock(p, t), by |-> "resume"])]
  BY DEF ResumeBegin, ResumeSeal
<1> QED BY <1>2, <1>4, <1>5, <1>6

LEMMA RememberKeeps ==
  ASSUME TurnInv, NEW t \in Thread, Remember(t)
  PROVE  TurnInv'
<1> DEFINE p == Home[t]
           o == [kind |-> "reserve", thread |-> t, turn |-> host[t].turn, parts |-> host[t].parts]
<1>1. UNCHANGED <<durable, pending, batch, host, log, lost>> /\ p \in Proc /\ queue' = [queue EXCEPT ![p] = Append(@, o)]
  BY ConstantsAssumption DEF Remember, draining, past
<1>2. ~DrainOp(o)
  BY DEF DrainOp
<1> HIDE DEF o
<1> QED BY <1>1, <1>2, PushAside

\* The host's own state changes, and nothing else.
LEMMA HostKeeps ==
  ASSUME TurnInv, NEW t \in Thread, StartTurn(t) \/ Say(t)
  PROVE  TurnInv'
<1>0. host \in [Thread -> [turn: Nat, open: BOOLEAN, parts: Nat]] /\ MaxTurn[t] \in Nat
  BY ConstantsAssumption DEF TurnInv, Shapes
<1>1. UNCHANGED <<db, mem, fresh, queue, pending, batch, log, lost>>
  BY DEF StartTurn, Say, durable, draining, past
<1>2. /\ host' \in [Thread -> [turn: Nat, open: BOOLEAN, parts: Nat]]
      /\ \A s \in Thread : host'[s].turn <= MaxTurn[s] /\ (host'[s].open => host'[s].turn # 0)
  <2>1. CASE StartTurn(t)
    <3>1. host' = [host EXCEPT ![t] = [turn |-> host[t].turn + 1, open |-> TRUE, parts |-> 1]]
          /\ host[t].turn < MaxTurn[t] /\ host[t].turn \in Nat
      BY <1>0, <2>1 DEF StartTurn
    <3>2. /\ host'[t] = [turn |-> host[t].turn + 1, open |-> TRUE, parts |-> 1]
          /\ \A s \in Thread : s # t => host'[s] = host[s]
      BY <1>0, <3>1
    <3>3. host[t].turn + 1 <= MaxTurn[t] /\ host[t].turn + 1 # 0 /\ host[t].turn + 1 \in Nat
      BY <1>0, <3>1
    <3>4. host' \in [Thread -> [turn: Nat, open: BOOLEAN, parts: Nat]]
      BY <1>0, <3>1, <3>3
    <3> QED BY <3>2, <3>3, <3>4 DEF TurnInv, TurnsAreReal
  <2>2. CASE Say(t)
    <3>1. host' = [host EXCEPT ![t].parts = host[t].parts + 1] /\ host[t].parts + 1 \in Nat
      BY <1>0, <2>2 DEF Say
    <3>2. \A s \in Thread : host'[s].turn = host[s].turn /\ host'[s].open = host[s].open
      BY <1>0, <3>1
    <3> QED BY <1>0, <3>1, <3>2 DEF TurnInv, TurnsAreReal
  <2> QED BY <2>1, <2>2
<1>3. Shapes'
  BY <1>1, <1>2 DEF TurnInv, Shapes
<1>4. ReceiptsKept' /\ QueuesFit' /\ BatchesFit'
  BY <1>1 DEF TurnInv, ReceiptsKept, QueuesFit, BatchesFit
<1>5. TurnsAreReal'
  BY <1>1, <1>2 DEF TurnInv, TurnsAreReal
<1>6. NoTurnIsDropped'
  BY <1>1 DEF TurnInv, NoTurnIsDropped, Held
<1> QED BY <1>3, <1>4, <1>5, <1>6 DEF TurnInv

LEMMA EndTurnKeeps ==
  ASSUME TurnInv, NEW t \in Thread, EndTurn(t)
  PROVE  TurnInv'
<1> DEFINE n == host[t].turn
           f == [turn |-> n, parts |-> host[t].parts]
<1>0. /\ host \in [Thread -> [turn: Nat, open: BOOLEAN, parts: Nat]] /\ pending \in [Thread -> Seq(Finished)]
      /\ log \in [Thread -> Seq(Turn)] /\ MaxTurn \in [Thread -> Nat]
  BY ConstantsAssumption DEF TurnInv, Shapes
<1>1. UNCHANGED <<db, mem, fresh, queue, batch, lost>>
  BY DEF EndTurn, durable
<1>2. n \in 1..MaxTurn[t] /\ n \in Turn /\ f \in Finished
  <2>1. n \in Nat /\ n # 0 /\ n <= MaxTurn[t] /\ host[t].parts \in Nat /\ MaxTurn[t] \in Nat
    BY <1>0 DEF TurnInv, TurnsAreReal, EndTurn
  <2> QED BY <2>1 DEF Turn, Finished
<1> HIDE DEF f
<1>3. pending' = [pending EXCEPT ![t] = Append(pending[t], f)] /\ log' = [log EXCEPT ![t] = Append(log[t], n)]
      /\ host' = [host EXCEPT ![t].open = FALSE, ![t].parts = 0]
  BY DEF EndTurn, f
<1> HIDE DEF n
<1>4. Append(pending[t], f) \in Seq(Finished) /\ Append(log[t], n) \in Seq(Turn)
  BY <1>0, <1>2
<1>5. /\ pending' \in [Thread -> Seq(Finished)] /\ log' \in [Thread -> Seq(Turn)]
      /\ host' \in [Thread -> [turn: Nat, open: BOOLEAN, parts: Nat]]
      /\ pending'[t] = Append(pending[t], f) /\ log'[t] = Append(log[t], n)
      /\ \A s \in Thread : s # t => pending'[s] = pending[s] /\ log'[s] = log[s]
  BY <1>0, <1>3, <1>4
<1>6. ToSet(pending'[t]) = ToSet(pending[t]) \cup {f} /\ ToSet(log'[t]) = ToSet(log[t]) \cup {n}
  BY <1>0, <1>2, <1>5, SetOfAppend
<1>7. \A s \in Thread : host'[s].turn = host[s].turn /\ (host'[s].open => host[s].open)
  BY <1>0, <1>3
<1>8. Shapes'
  BY <1>1, <1>5 DEF TurnInv, Shapes
<1>9. ReceiptsKept' /\ QueuesFit' /\ BatchesFit'
  BY <1>1 DEF TurnInv, ReceiptsKept, QueuesFit, BatchesFit
<1>10. TurnsAreReal'
  <2> SUFFICES ASSUME NEW s \in Thread
               PROVE  /\ host'[s].turn <= MaxTurn[s] /\ (host'[s].open => host'[s].turn # 0)
                      /\ \A k \in ToSet(log'[s]) : k \in 1..MaxTurn[s]
    BY DEF TurnsAreReal
  <2>1. \A k \in ToSet(log'[s]) : k \in ToSet(log[s]) \/ (s = t /\ k = n)
    BY <1>5, <1>6
  <2> QED BY <1>2, <1>7, <2>1 DEF TurnInv, TurnsAreReal
<1>11. NoTurnIsDropped'
  <2> SUFFICES ASSUME NEW s \in Thread, NEW k \in ToSet(log'[s]), <<s, k>> \notin db.receipts \cup lost PROVE Held(s, k)'
    BY <1>1 DEF NoTurnIsDropped
  <2>1. ToSet(pending[s]) \subseteq ToSet(pending'[s])
    BY <1>5, <1>6
  <2>2. CASE k \in ToSet(log[s])
    <3>1. Held(s, k)
      BY <2>2 DEF TurnInv, NoTurnIsDropped
    <3> QED BY <1>1, <2>1, <3>1 DEF Held
  <2>3. CASE s = t /\ k = n
    <3>1. f.turn = n /\ f \in ToSet(pending'[t])
      BY <1>6 DEF f, n
    <3> QED BY <2>3, <3>1 DEF Held
  <2> QED BY <1>5, <1>6, <2>2, <2>3
<1> QED BY <1>8, <1>9, <1>10, <1>11 DEF TurnInv

LEMMA RestartKeeps ==
  ASSUME TurnInv, NEW p \in Proc, Restart(p)
  PROVE  TurnInv'
<1>0. Shapes /\ ReceiptsKept /\ QueuesFit /\ BatchesFit
  BY DEF TurnInv
<1>1. UNCHANGED <<db, log>>
  BY DEF Restart
<1>2. /\ DOMAIN mem' = Proc /\ mem'[p] = EmptyStore /\ fresh' \in [Proc -> BOOLEAN] /\ fresh'[p] = FALSE
      /\ \A q \in Proc : q # p => mem'[q] = mem[q] /\ fresh'[q] = fresh[q]
  BY <1>0 DEF Restart, Shapes
<1>3. IsStore(EmptyStore) /\ EmptyStore.receipts = {}
  BY DEF IsStore, EmptyStore
<1>4. DurableKept
  BY <1>0, <1>1, <1>2, <1>3 DEF DurableKept, Copies, ReceiptsKept, Shapes
<1>5. ASSUME NEW t \in Thread
      PROVE  /\ Home[t] = p => pending'[t] = <<>> /\ batch'[t] = NoBatch
             /\ Home[t] = p => host'[t] = [host[t] EXCEPT !.open = FALSE, !.parts = 0]
             /\ Home[t] # p => pending'[t] = pending[t] /\ batch'[t] = batch[t] /\ host'[t] = host[t]
  BY DEF Restart
<1>6. /\ TurnsTyped' /\ host' \in [Thread -> [turn: Nat, open: BOOLEAN, parts: Nat]]
      /\ \A t \in Thread : host'[t].turn = host[t].turn /\ (host'[t].open => host[t].open)
  <2>1. \A t \in Thread : pending[t] \in Seq(Finished) /\ batch[t] \in [pc: BatchPc, turns: Seq(Finished)] /\ host[t] \in [turn: Nat, open: BOOLEAN, parts: Nat]
    BY <1>0 DEF Shapes
  <2>2. NoBatch \in [pc: BatchPc, turns: Seq(Finished)] /\ <<>> \in Seq(Finished)
    BY DEF NoBatch, BatchPc
  <2>3. TurnsTyped'
    BY <2>1, <2>2 DEF Restart, TurnsTyped
  <2>4. ASSUME NEW t \in Thread
        PROVE  host'[t] \in [turn: Nat, open: BOOLEAN, parts: Nat] /\ host'[t].turn = host[t].turn /\ (host'[t].open => host[t].open)
    <3> DEFINE h == [host[t] EXCEPT !.open = FALSE, !.parts = 0]
    <3>1. h \in [turn: Nat, open: BOOLEAN, parts: Nat] /\ h.turn = host[t].turn /\ ~h.open
      BY <2>1
    <3>2. host'[t] = h \/ host'[t] = host[t]
      BY <1>5
    <3> HIDE DEF h
    <3> QED BY <2>1, <3>1, <3>2
  <2>5. host' \in [Thread -> [turn: Nat, open: BOOLEAN, parts: Nat]]
    BY <2>4 DEF Restart
  <2> QED BY <2>3, <2>4, <2>5
<1>7. QueuesKept
  <2> DEFINE q == <<>>
  <2>1. queue' = [queue EXCEPT ![p] = q]
    BY DEF Restart
  <2>5. IsSeq(q)
    BY DEF IsSeq, ToSet
  <2>3. DOMAIN q = {}
    OBVIOUS
  <2>4. QueueFits(batch', p, q)
    BY <2>3 DEF QueueFits
  <2>2. \A s \in Thread : Home[s] # p => batch'[s] = batch[s]
    BY <1>5
  <2> QED BY <1>0, <2>1, <2>2, <2>4, <2>5, OneQueue
<1>8. ASSUME NEW t \in Thread PROVE BatchFits(t)'
  <2>1. CASE Home[t] = p
    <3>1. batch'[t] = NoBatch
      BY <1>5, <2>1
    <3> QED BY <3>1 DEF BatchFits, NoBatch
  <2>2. CASE Home[t] # p
    BY <1>0, <1>1, <1>5, <2>2, SameTurns
  <2> QED BY <2>1, <2>2
<1>9. Shapes'
  BY <1>0, <1>1, <1>4, <1>6, <1>7 DEF Shapes, DurableKept, Copies, TurnsTyped, QueuesKept
<1>10. ReceiptsKept' /\ QueuesFit' /\ BatchesFit'
  BY <1>4, <1>7, <1>8 DEF DurableKept, QueuesKept, BatchFits, BatchesFit
<1>11. TurnsAreReal'
  BY <1>1, <1>6 DEF TurnInv, TurnsAreReal
<1>12. NoTurnIsDropped'
  <2> SUFFICES ASSUME NEW t \in Thread, NEW n \in ToSet(log[t]), <<t, n>> \notin db.receipts PROVE <<t, n>> \in lost' \/ Held(t, n)'
    BY <1>1 DEF NoTurnIsDropped
  <2>1. (<<t, n>> \in lost \/ Held(t, n)) /\ n \in 1..MaxTurn[t]
    BY DEF TurnInv, NoTurnIsDropped, TurnsAreReal
  <2>2. CASE <<t, n>> \in lost
    BY <2>2 DEF Restart
  <2>3. CASE Held(t, n) /\ Home[t] = p
    <3>1. t \in Sessions(p)
      BY <2>3 DEF Sessions
    <3>2. <<t, n>> \in UNION {{s} \X (1..MaxTurn[s]) : s \in Sessions(p)}
      BY <2>1, <3>1
    <3> QED BY <2>3, <3>2 DEF Restart
  <2>4. CASE Held(t, n) /\ Home[t] # p
    BY <1>5, <2>4 DEF Held
  <2> QED BY <2>1, <2>2, <2>3, <2>4
<1> QED BY <1>9, <1>10, <1>11, <1>12 DEF TurnInv

-----------------------------------------------------------------------------
(* The theorem *)

LEMMA InitTurns == Init => TurnInv
<1> SUFFICES ASSUME Init PROVE TurnInv
  OBVIOUS
<1>1. IsStore(EmptyStore) /\ EmptyStore.receipts = {}
  BY DEF IsStore, EmptyStore
<1>2. IsSeq(<<>>) /\ ToSet(<<>>) = {} /\ DOMAIN <<>> = {}
  BY DEF IsSeq, ToSet
<1>3. Shapes
  <2>1. NoBatch \in [pc: BatchPc, turns: Seq(Finished)]
    BY DEF NoBatch, BatchPc
  <2> QED BY <1>1, <1>2, <2>1 DEF Init, Shapes
<1>4. ReceiptsKept
  BY <1>1 DEF Init, ReceiptsKept
<1>5. QueuesFit
  BY <1>2 DEF Init, QueuesFit, QueueFits
<1>6. BatchesFit
  BY DEF Init, BatchesFit, NoBatch
<1>7. TurnsAreReal /\ NoTurnIsDropped
  BY <1>2, ConstantsAssumption DEF Init, TurnsAreReal, NoTurnIsDropped
<1> QED BY <1>3, <1>4, <1>5, <1>6, <1>7 DEF TurnInv

LEMMA StutterTurns == TurnInv /\ UNCHANGED vars => TurnInv'
BY DEF TurnInv, vars, Shapes, ReceiptsKept, QueuesFit, BatchesFit, TurnsAreReal, NoTurnIsDropped, Held

LEMMA TurnsInductive == TurnInv /\ [Next]_vars => TurnInv'
<1> SUFFICES ASSUME TurnInv, [Next]_vars PROVE TurnInv'
  OBVIOUS
<1>1. CASE UNCHANGED vars
  BY <1>1, StutterTurns
<1>2. ASSUME NEW t \in Thread, SessionStep(t) \/ DrainStep(t) PROVE TurnInv'
  BY <1>2, HostKeeps, EndTurnKeeps, RememberKeeps, DrainBeginKeeps, AppendTurnKeeps, SealAfterAppendKeeps
     DEF SessionStep, DrainStep
<1>3. ASSUME NEW p \in Proc, QueueStep(p) \/ SpaceStep(p) \/ ResumeStep(p) \/ FlushStep(p) \/ Restart(p) PROVE TurnInv'
  BY <1>3, RunReserveKeeps, RunAppendKeeps, RunSealKeeps, RunReloadKeeps, SpaceKeeps, SealOnOpenKeeps, ResumeKeeps, RestartKeeps
     DEF QueueStep, SpaceStep, ResumeStep, FlushStep
<1> QED BY <1>1, <1>2, <1>3 DEF Next

\* Whatever conflicts, failed seals, flushes and reloads get in its way, a finished turn
\* has its receipt or is still with the process of its session; only a restart drops it
\* (the drain, the mutation queue and space(), runtime.ts:1039, store.ts:1139).
THEOREM TurnsAreNotDropped == Spec => []NoTurnIsDropped
<1>1. Spec => []TurnInv
  BY InitTurns, TurnsInductive, PTL DEF Spec
<1>2. TurnInv => NoTurnIsDropped
  BY DEF TurnInv
<1> QED BY <1>1, <1>2, PTL

-----------------------------------------------------------------------------
-----------------------------------------------------------------------------
(* The order of the history *)

\* Adding a message and its reply, and dividing a sequence in two.
LEMMA PairFacts ==
  ASSUME NEW s, IsSeq(s), NEW a, NEW b
  PROVE  /\ IsSeq(s \o <<a, b>>) /\ Len(s \o <<a, b>>) = Len(s) + 2
         /\ \A i \in 1..Len(s) : (s \o <<a, b>>)[i] = s[i]
         /\ (s \o <<a, b>>)[Len(s) + 1] = a /\ (s \o <<a, b>>)[Len(s) + 2] = b
<1> DEFINE S == ToSet(s) \cup {a, b}
           u == s \o <<a, b>>
<1>1. s \in Seq(S) /\ <<a, b>> \in Seq(S)
  <2>1. s \in Seq(S) BY SeqMonotonic DEF IsSeq
  <2>2. a \in S /\ b \in S OBVIOUS
  <2> QED BY <2>1, <2>2
<1>2. Len(<<a, b>>) = 2 /\ <<a, b>>[1] = a /\ <<a, b>>[2] = b /\ Len(s) \in Nat
  BY SeqFacts
<1> HIDE DEF S
<1>3. /\ u \in Seq(S) /\ Len(u) = Len(s) + 2
      /\ \A i \in 1 .. Len(s) + 2 : u[i] = IF i <= Len(s) THEN s[i] ELSE <<a, b>>[i - Len(s)]
  BY <1>1, <1>2, ConcatProperties
<1> HIDE DEF u
<1>4. u[Len(s) + 1] = a
  <2>1. Len(s) + 1 \in 1 .. Len(s) + 2 /\ ~(Len(s) + 1 <= Len(s)) /\ (Len(s) + 1) - Len(s) = 1 BY <1>2
  <2> QED BY <1>2, <1>3, <2>1
<1>5. u[Len(s) + 2] = b
  <2>1. Len(s) + 2 \in 1 .. Len(s) + 2 /\ ~(Len(s) + 2 <= Len(s)) /\ (Len(s) + 2) - Len(s) = 2 BY <1>2
  <2> QED BY <1>2, <1>3, <2>1
<1>6. \A i \in 1..Len(s) : u[i] = s[i]
  BY <1>2, <1>3
<1>7. IsSeq(u)
  <2>1. u \in Seq(Range(u)) BY <1>3, SeqOfRange
  <2> QED BY <2>1 DEF IsSeq, ToSet, Range
<1> QED BY <1>3, <1>4, <1>5, <1>6, <1>7 DEF u

LEMMA SliceFacts ==
  ASSUME NEW s, IsSeq(s), NEW m \in Nat \ {0}, NEW n \in Nat, n <= Len(s)
  PROVE  /\ IsSeq(SubSeq(s, m, n)) /\ Len(SubSeq(s, m, n)) = IF m <= n THEN n - m + 1 ELSE 0
         /\ \A i \in 1..Len(SubSeq(s, m, n)) : SubSeq(s, m, n)[i] = s[i + m - 1] /\ i + m - 1 \in 1..n
<1> DEFINE u == SubSeq(s, m, n)
<1>1. \A i \in m..n : s[i] \in ToSet(s)
  <2>1. m \in Nat /\ m > 0 /\ DOMAIN s = 1..Len(s) /\ Len(s) \in Nat BY SeqFacts
  <2> QED BY <2>1 DEF ToSet
<1>2. /\ u \in Seq(ToSet(s)) /\ Len(u) = IF m <= n THEN n - m + 1 ELSE 0
      /\ \A i \in 1 .. n - m + 1 : u[i] = s[m + i - 1]
  BY <1>1, SubSeqProperties
<1> HIDE DEF u
<1>3. IsSeq(u)
  <2>1. u \in Seq(Range(u)) BY <1>2, SeqOfRange
  <2> QED BY <2>1 DEF IsSeq, ToSet, Range
<1>4. ASSUME NEW i \in 1..Len(u) PROVE u[i] = s[i + m - 1] /\ i + m - 1 \in 1..n
  <2>1. m <= n /\ i \in 1 .. n - m + 1 /\ m \in Int /\ n \in Int /\ i \in Int
    BY <1>2
  <2>2. m + i - 1 = i + m - 1 /\ i + m - 1 \in 1..n
    BY <2>1
  <2> QED BY <1>2, <2>1, <2>2
<1> QED BY <1>2, <1>3, <1>4 DEF u

\* What a seal takes is the beginning of the tail.
LEMMA BlockBegins ==
  ASSUME NEW s, IsSeq(s)
  PROVE  /\ IsSeq(PendingBlock(s)) /\ Len(PendingBlock(s)) \in Nat /\ Len(PendingBlock(s)) <= Len(s)
         /\ \A i \in 1..Len(PendingBlock(s)) : PendingBlock(s)[i] = s[i]
<1> DEFINE i == CHOOSE i \in LastOfBlock(s) : TRUE
           rest == {j \in Users(s) : j > i}
           next == CHOOSE j \in rest : \A k \in rest : j <= k
<1>1. Len(s) \in Nat /\ DOMAIN s = 1..Len(s)
  BY SeqFacts
<1>2. CASE LastOfBlock(s) = {}
  <2>1. PendingBlock(s) = <<>> BY <1>2 DEF PendingBlock
  <2>2. IsSeq(<<>>) /\ Len(<<>>) = 0 BY DEF IsSeq, ToSet
  <2> QED BY <1>1, <2>1, <2>2
<1>3. CASE LastOfBlock(s) # {} /\ rest = {}
  <2>1. PendingBlock(s) = s BY <1>3 DEF PendingBlock
  <2> QED BY <1>1, <2>1
<1>4. CASE LastOfBlock(s) # {} /\ rest # {}
  <2>1. PendingBlock(s) = SubSeq(s, 1, next - 1) BY <1>4 DEF PendingBlock
  <2>2. rest \subseteq 1..Len(s) BY <1>1 DEF Users
  <2>3. rest \subseteq Nat BY <1>1, <2>2
  <2> HIDE DEF rest, i
  <2>4. \E j \in rest : \A k \in rest : ~(<<k, j>> \in OpToRel(<, Nat))
    <3>1. IsWellFoundedOn(OpToRel(<, Nat), Nat) BY NatLessThanWellFounded, Zenon
    <3> QED BY <1>4, <2>3, <3>1, WFMin
  <2>5. PICK j \in rest : \A k \in rest : ~(<<k, j>> \in OpToRel(<, Nat))
    BY <2>4
  <2>6. ASSUME NEW k \in rest PROVE j <= k
    <3>1. k \in Nat /\ j \in Nat BY <2>3
    <3>2. ~(k < j) BY <2>5, <3>1 DEF OpToRel
    <3> QED BY <3>1, <3>2
  <2>7. next \in rest
    BY <2>6
  <2> HIDE DEF next
  <2>8. next - 1 \in Nat /\ next - 1 <= Len(s)
    BY <1>1, <2>2, <2>7
  <2> DEFINE n == next - 1
  <2>9. PendingBlock(s) = SubSeq(s, 1, n) /\ n \in Nat /\ n <= Len(s)
    BY <2>1, <2>8
  <2> HIDE DEF n
  <2> DEFINE u == SubSeq(s, 1, n)
  <2>10. /\ IsSeq(u) /\ Len(u) = IF 1 <= n THEN n - 1 + 1 ELSE 0
         /\ \A k \in 1..Len(u) : u[k] = s[k + 1 - 1]
    <3>1. 1 \in Nat \ {0} OBVIOUS
    <3> QED BY <2>9, <3>1, SliceFacts
  <2> HIDE DEF u
  <2>11. Len(u) = n BY <2>9, <2>10
  <2>12. ASSUME NEW k \in 1..Len(u) PROVE u[k] = s[k]
    <3>1. k + 1 - 1 = k BY <2>9, <2>11
    <3> QED BY <2>10, <3>1
  <2>13. PendingBlock(s) = u BY <2>9 DEF u
  <2> QED BY <2>9, <2>10, <2>11, <2>12, <2>13
<1> QED BY <1>2, <1>3, <1>4

-----------------------------------------------------------------------------
-----------------------------------------------------------------------------
(* What the operations do to the order of a thread *)

\* Every message of the thread belongs to a stored turn, and their order is that of the turns.
ThreadFits(s, t) ==
  /\ IsSeq(s.tail[t]) /\ InOrder(s, t)
  /\ \A k \in 1..Parts(s) : \A i \in DOMAIN Part(s, t, k) :
       Part(s, t, k)[i].turn \in Nat /\ <<t, Part(s, t, k)[i].turn>> \in s.receipts

StoreFits(s) ==
  /\ IsStore(s) /\ DOMAIN s.tail = Thread /\ IsSeq(s.blocks)
  /\ \A t \in Thread : ThreadFits(s, t)

LEMMA EmptyFits == StoreFits(EmptyStore)
<1> DEFINE s == EmptyStore
<1>1. IsStore(s) /\ s.tail = [t \in Thread |-> <<>>] /\ s.blocks = <<>> /\ s.receipts = {}
  BY DEF EmptyStore, IsStore
<1>2. IsSeq(<<>>) /\ Len(<<>>) = 0
  BY DEF IsSeq, ToSet
<1>3. Parts(s) = 1
  BY <1>1, <1>2 DEF Parts
<1> HIDE DEF s
<1>4. ASSUME NEW t \in Thread PROVE ThreadFits(s, t)
  <2>1. s.tail[t] = <<>> /\ \A k \in 1..Parts(s) : Part(s, t, k) = <<>>
    BY <1>1, <1>3 DEF Part
  <2> QED BY <1>2, <2>1 DEF ThreadFits, InOrder
<1> QED BY <1>1, <1>2, <1>4 DEF StoreFits, s

\* The same parts of a thread, and more receipts.
LEMMA ThreadStays ==
  ASSUME NEW s, NEW x, NEW t, ThreadFits(s, t), IsSeq(s.blocks), s.receipts \subseteq x.receipts,
         x.tail[t] = s.tail[t],
         \/ x.blocks = s.blocks
         \/ \E b : b.thread # t /\ x.blocks = Append(s.blocks, b)
  PROVE  ThreadFits(x, t)
<1>1. CASE x.blocks = s.blocks
  <2>1. Parts(x) = Parts(s) /\ \A k : Part(x, t, k) = Part(s, t, k)
    BY <1>1 DEF Parts, Part
  <2>2. InOrder(x, t) BY <2>1 DEF InOrder, ThreadFits
  <2> QED BY <2>1, <2>2 DEF ThreadFits
<1>2. ASSUME NEW b, b.thread # t, x.blocks = Append(s.blocks, b) PROVE ThreadFits(x, t)
  <2> DEFINE n == Len(s.blocks)
  <2>1. n \in Nat /\ Len(x.blocks) = n + 1 /\ (\A k \in 1..n : x.blocks[k] = s.blocks[k]) /\ x.blocks[n + 1] = b
    BY <1>2, AppendFacts, SeqFacts
  <2>2. Parts(s) = n + 1 /\ Parts(x) = n + 2
    BY <2>1 DEF Parts
  <2> HIDE DEF n
  <2>3. \A k \in 1..n : Part(x, t, k) = Part(s, t, k)
    BY <2>1, <2>2 DEF Part
  <2>4. Part(x, t, n + 1) = <<>> /\ Part(x, t, n + 2) = s.tail[t] /\ Part(s, t, n + 1) = s.tail[t]
    BY <1>2, <2>1, <2>2 DEF Part
  <2> DEFINE at(k) == IF k = n + 2 THEN n + 1 ELSE k
  <2>5. ASSUME NEW k \in 1..Parts(x), NEW i \in DOMAIN Part(x, t, k)
        PROVE  at(k) \in 1..Parts(s) /\ Part(s, t, at(k)) = Part(x, t, k) /\ k # n + 1
    <3>1. k # n + 1
      BY <2>4, <2>5
    <3>2. k \in 1..n \/ k = n + 2
      BY <2>1, <2>2, <3>1
    <3> QED BY <2>1, <2>2, <2>3, <2>4, <3>1, <3>2
  <2>6. \A k, l \in 1..Parts(x) : k # n + 1 /\ l # n + 1 => (k < l => at(k) < at(l)) /\ (k = l => at(k) = at(l))
    BY <2>1, <2>2
  <2> HIDE DEF at
  <2>7. InOrder(x, t)
    <3> SUFFICES ASSUME NEW k \in 1..Parts(x), NEW l \in 1..Parts(x), NEW i \in DOMAIN Part(x, t, k), NEW j \in DOMAIN Part(x, t, l),
                        k < l \/ (k = l /\ i < j)
                 PROVE  Part(x, t, k)[i].turn <= Part(x, t, l)[j].turn
      BY DEF InOrder
    <3>1. /\ at(k) \in 1..Parts(s) /\ Part(s, t, at(k)) = Part(x, t, k) /\ at(l) \in 1..Parts(s) /\ Part(s, t, at(l)) = Part(x, t, l)
          /\ at(k) < at(l) \/ (at(k) = at(l) /\ i < j)
      BY <2>5, <2>6
    <3>2. InOrder(s, t) BY DEF ThreadFits
    <3> QED BY <3>1, <3>2 DEF InOrder
  <2>8. \A k \in 1..Parts(x) : \A i \in DOMAIN Part(x, t, k) :
          Part(x, t, k)[i].turn \in Nat /\ <<t, Part(x, t, k)[i].turn>> \in x.receipts
    <3> SUFFICES ASSUME NEW k \in 1..Parts(x), NEW i \in DOMAIN Part(x, t, k)
                 PROVE  Part(x, t, k)[i].turn \in Nat /\ <<t, Part(x, t, k)[i].turn>> \in s.receipts
      OBVIOUS
    <3> QED BY <2>5 DEF ThreadFits
  <2> QED BY <2>7, <2>8 DEF ThreadFits
<1> QED BY <1>1, <1>2

\* A turn that is later than all stored ones goes to the end.
IsNewest(s, t, n) == \A m \in Nat : <<t, m>> \in s.receipts => m < n

LEMMA TurnFits ==
  ASSUME NEW s, StoreFits(s), NEW t \in Thread, NEW f, f.turn \in Nat,
         IsNewest(s, t, f.turn)
  PROVE  StoreFits(WithTurn(s, t, f, FALSE)) /\ WithTurn(s, t, f, FALSE).receipts = s.receipts \cup {<<t, f.turn>>}
<1> DEFINE x == WithTurn(s, t, f, FALSE)
           a == User(f.turn, f.parts, "ended")
           b == Assistant(f.turn)
           n == Len(s.blocks)
<1>1. IsStore(s) /\ DOMAIN s.tail = Thread /\ IsSeq(s.blocks) /\ IsSeq(s.tail[t]) /\ ThreadFits(s, t)
  BY DEF StoreFits, ThreadFits
<1>2. /\ IsStore(x) /\ x.blocks = s.blocks /\ x.receipts = s.receipts \cup {<<t, f.turn>>}
      /\ x.tail = [s.tail EXCEPT ![t] = s.tail[t] \o <<a, b>>]
  BY <1>1 DEF WithTurn, IsStore
<1>3. a.turn = f.turn /\ b.turn = f.turn
  BY DEF User, Assistant
<1> HIDE DEF x, a, b
<1>4. DOMAIN x.tail = Thread /\ x.tail[t] = s.tail[t] \o <<a, b>> /\ \A u \in Thread : u # t => x.tail[u] = s.tail[u]
  BY <1>1, <1>2
<1>5. ASSUME NEW u \in Thread, u # t PROVE ThreadFits(x, u)
  BY <1>1, <1>2, <1>4, <1>5, ThreadStays DEF StoreFits
<1> DEFINE m == Len(s.tail[t])
<1>6. /\ n \in Nat /\ Parts(s) = n + 1 /\ Parts(x) = n + 1 /\ m \in Nat /\ DOMAIN s.tail[t] = 1..m
      /\ Part(s, t, n + 1) = s.tail[t] /\ Part(x, t, n + 1) = x.tail[t]
      /\ \A k \in 1..n : Part(x, t, k) = Part(s, t, k)
  BY <1>1, <1>2, SeqFacts DEF Parts, Part
<1>7. /\ IsSeq(x.tail[t]) /\ DOMAIN x.tail[t] = 1..(m + 2)
      /\ \A i \in 1..m : x.tail[t][i] = s.tail[t][i]
      /\ x.tail[t][m + 1] = a /\ x.tail[t][m + 2] = b
  <2> DEFINE u == s.tail[t] \o <<a, b>>
  <2>1. /\ IsSeq(u) /\ Len(u) = m + 2 /\ (\A i \in 1..m : u[i] = s.tail[t][i]) /\ u[m + 1] = a /\ u[m + 2] = b
    BY <1>1, PairFacts
  <2> HIDE DEF u, m
  <2>2. DOMAIN u = 1..(m + 2)
    BY <2>1, SeqFacts
  <2>3. x.tail[t] = u
    BY <1>4 DEF u
  <2> QED BY <2>1, <2>2, <2>3
<1> HIDE DEF m, n
\* Whatever is there was there before, or belongs to the new turn at the end.
<1>8. ASSUME NEW k \in 1..Parts(x), NEW i \in DOMAIN Part(x, t, k)
      PROVE  /\ k \in 1..Parts(s)
             /\ \/ i \in DOMAIN Part(s, t, k) /\ Part(x, t, k)[i] = Part(s, t, k)[i]
                \/ k = n + 1 /\ i > m /\ Part(x, t, k)[i].turn = f.turn
  <2>1. CASE k = n + 1
    <3>1. i \in 1..m \/ i = m + 1 \/ i = m + 2
      BY <1>6, <1>7, <1>8, <2>1
    <3> QED BY <1>3, <1>6, <1>7, <2>1, <3>1
  <2>2. CASE k # n + 1
    BY <1>6, <1>8, <2>2
  <2> QED BY <2>1, <2>2
<1>9. \A k \in 1..Parts(s) : \A i \in DOMAIN Part(s, t, k) : Part(s, t, k)[i].turn \in Nat /\ Part(s, t, k)[i].turn < f.turn
  BY <1>1 DEF ThreadFits, IsNewest
<1>10. InOrder(x, t)
  <2> SUFFICES ASSUME NEW k \in 1..Parts(x), NEW l \in 1..Parts(x), NEW i \in DOMAIN Part(x, t, k), NEW j \in DOMAIN Part(x, t, l),
                      k < l \/ (k = l /\ i < j)
               PROVE  Part(x, t, k)[i].turn <= Part(x, t, l)[j].turn
    BY DEF InOrder
  <2>1. CASE l = n + 1 /\ j > m /\ Part(x, t, l)[j].turn = f.turn
    BY <1>8, <1>9, <2>1
  <2>2. CASE j \in DOMAIN Part(s, t, l) /\ Part(x, t, l)[j] = Part(s, t, l)[j]
    <3>1. ~(k = n + 1 /\ i > m)
      <4> SUFFICES ASSUME k = n + 1, i > m PROVE FALSE
        OBVIOUS
      <4>1. l = n + 1 /\ i < j
        BY <1>6
      <4>2. j \in 1..m /\ i \in 1..(m + 2)
        BY <1>6, <1>7, <2>2, <4>1
      <4> QED BY <1>6, <4>1, <4>2
    <3>2. i \in DOMAIN Part(s, t, k) /\ Part(x, t, k)[i] = Part(s, t, k)[i] /\ k \in 1..Parts(s) /\ l \in 1..Parts(s)
      BY <1>8, <3>1
    <3>3. InOrder(s, t) BY <1>1 DEF ThreadFits
    <3> QED BY <2>2, <3>2, <3>3 DEF InOrder
  <2> QED BY <1>8, <2>1, <2>2
<1>11. ThreadFits(x, t)
  <2> SUFFICES ASSUME NEW k \in 1..Parts(x), NEW i \in DOMAIN Part(x, t, k)
               PROVE  Part(x, t, k)[i].turn \in Nat /\ <<t, Part(x, t, k)[i].turn>> \in x.receipts
    BY <1>7, <1>10 DEF ThreadFits
  <2> QED BY <1>1, <1>2, <1>8 DEF ThreadFits
<1>12. \A u \in Thread : ThreadFits(x, u)
  BY <1>5, <1>11
<1> QED BY <1>1, <1>2, <1>4, <1>12 DEF StoreFits, x

\* A seal divides the tail where the Block ends.
LEMMA BlockFits ==
  ASSUME NEW s, StoreFits(s), NEW e, e.raw = PendingBlock(s.tail[e.thread])
  PROVE  StoreFits(WithBlock(s, e))
<1> DEFINE x == WithBlock(s, e)
           t == e.thread
           n == Len(s.blocks)
<1>1. IsStore(s) /\ DOMAIN s.tail = Thread /\ IsSeq(s.blocks)
  BY DEF StoreFits
<1>2. /\ IsStore(x) /\ x.blocks = Append(s.blocks, e) /\ x.receipts = s.receipts
      /\ x.tail = [s.tail EXCEPT ![t] = SubSeq(s.tail[t], Len(e.raw) + 1, Len(s.tail[t]))]
  BY <1>1 DEF WithBlock, IsStore
<1> HIDE DEF x
<1>3. /\ DOMAIN x.tail = Thread /\ \A u \in Thread : u # t => x.tail[u] = s.tail[u]
      /\ t \in Thread => x.tail[t] = SubSeq(s.tail[t], Len(e.raw) + 1, Len(s.tail[t]))
  BY <1>1, <1>2
<1>4. n \in Nat /\ IsSeq(x.blocks) /\ Len(x.blocks) = n + 1 /\ (\A k \in 1..n : x.blocks[k] = s.blocks[k]) /\ x.blocks[n + 1] = e
  BY <1>1, <1>2, AppendFacts, SeqFacts
<1>5. ASSUME NEW u \in Thread, u # t PROVE ThreadFits(x, u)
  BY <1>1, <1>2, <1>3, <1>5, ThreadStays DEF StoreFits
<1>6. ASSUME t \in Thread PROVE ThreadFits(x, t)
  <2> DEFINE m == Len(e.raw)
             c == Len(s.tail[t])
  <2>1. ThreadFits(s, t) /\ IsSeq(s.tail[t])
    BY <1>6 DEF StoreFits, ThreadFits
  <2>2. /\ IsSeq(e.raw) /\ m \in Nat /\ m <= c /\ c \in Nat /\ DOMAIN e.raw = 1..m /\ DOMAIN s.tail[t] = 1..c
        /\ \A i \in 1..m : e.raw[i] = s.tail[t][i]
    BY <2>1, BlockBegins, SeqFacts
  <2>3. /\ IsSeq(x.tail[t]) /\ DOMAIN x.tail[t] = 1..(c - m)
        /\ \A i \in 1..(c - m) : x.tail[t][i] = s.tail[t][i + m]
    <3> DEFINE u == SubSeq(s.tail[t], m + 1, c)
    <3>1. /\ IsSeq(u) /\ Len(u) = IF m + 1 <= c THEN c - (m + 1) + 1 ELSE 0
          /\ \A i \in 1..Len(u) : u[i] = s.tail[t][i + (m + 1) - 1] /\ i + (m + 1) - 1 \in 1..c
      <4>1. m + 1 \in Nat \ {0} /\ c <= Len(s.tail[t]) BY <2>2
      <4> HIDE DEF m, c
      <4> QED BY <2>1, <2>2, <4>1, SliceFacts
    <3>2. x.tail[t] = u BY <1>3, <1>6
    <3> HIDE DEF u, m, c
    <3>3. Len(u) = c - m BY <2>2, <3>1
    <3>4. DOMAIN u = 1..(c - m) BY <3>1, <3>3, SeqFacts
    <3>5. ASSUME NEW i \in 1..(c - m) PROVE u[i] = s.tail[t][i + m]
      <4>1. i + (m + 1) - 1 = i + m BY <2>2
      <4> QED BY <3>1, <3>3, <4>1
    <3> QED BY <3>1, <3>2, <3>4, <3>5
  <2> HIDE DEF m, c
  <2>4. /\ Parts(s) = n + 1 /\ Parts(x) = n + 2 /\ Part(s, t, n + 1) = s.tail[t]
        /\ Part(x, t, n + 1) = e.raw /\ Part(x, t, n + 2) = x.tail[t]
        /\ \A k \in 1..n : Part(x, t, k) = Part(s, t, k)
    <3>1. Parts(s) = n + 1 /\ Parts(x) = n + 2 BY <1>4 DEF Parts
    <3> QED BY <1>4, <3>1 DEF Part
  <2> HIDE DEF n
  \* Where a message was before.
  <2> DEFINE part(k) == IF k = n + 2 THEN n + 1 ELSE k
             place(k, i) == IF k = n + 2 THEN i + m ELSE i
  <2>5. ASSUME NEW k \in 1..Parts(x), NEW i \in DOMAIN Part(x, t, k)
        PROVE  /\ part(k) \in 1..Parts(s) /\ place(k, i) \in DOMAIN Part(s, t, part(k))
               /\ Part(x, t, k)[i] = Part(s, t, part(k))[place(k, i)]
               /\ k = n + 1 => i <= m
    <3>1. CASE k = n + 2
      <4>1. i \in 1..(c - m) /\ i + m \in 1..c
        BY <2>2, <2>3, <2>4, <2>5, <3>1
      <4> QED BY <1>4, <2>3, <2>2, <2>4, <3>1, <4>1
    <3>2. CASE k = n + 1
      <4>1. i \in 1..m /\ i \in 1..c
        BY <2>2, <2>4, <2>5, <3>2
      <4> QED BY <1>4, <2>2, <2>4, <3>2, <4>1
    <3>3. CASE k \in 1..n
      BY <1>4, <2>4, <2>5, <3>3
    <3>4. k \in 1..n \/ k = n + 1 \/ k = n + 2
      BY <1>4, <2>4
    <3> QED BY <3>1, <3>2, <3>3, <3>4
  <2>6. \A k \in 1..Parts(x) : \A i \in DOMAIN Part(x, t, k) : i \in Nat \/ k \in 1..n
    BY <1>4, <2>2, <2>3, <2>4
  <2>7. InOrder(x, t)
    <3> SUFFICES ASSUME NEW k \in 1..Parts(x), NEW l \in 1..Parts(x), NEW i \in DOMAIN Part(x, t, k), NEW j \in DOMAIN Part(x, t, l),
                        k < l \/ (k = l /\ i < j)
                 PROVE  Part(x, t, k)[i].turn <= Part(x, t, l)[j].turn
      BY DEF InOrder
    <3>1. part(k) < part(l) \/ (part(k) = part(l) /\ place(k, i) < place(l, j))
      <4>1. CASE k = l /\ k \in 1..n
        BY <1>4, <4>1
      <4>2. CASE k = l /\ k \notin 1..n
        <5>1. i \in Nat /\ j \in Nat /\ i < j BY <2>6, <4>2
        <5> QED BY <2>2, <4>2, <5>1
      <4>3. CASE k < l /\ k = n + 1
        <5>1. l = n + 2 BY <1>4, <2>4, <4>3
        <5>2. i <= m BY <2>5, <4>3
        <5>3. i \in Nat /\ j \in 1..(c - m)
          BY <1>4, <2>2, <2>3, <2>4, <4>3, <5>1
        <5> QED BY <1>4, <2>2, <4>3, <5>1, <5>2, <5>3
      <4>4. CASE k < l /\ k # n + 1
        BY <1>4, <2>4, <4>4
      <4> QED BY <4>1, <4>2, <4>3, <4>4
    <3>2. InOrder(s, t) BY <2>1 DEF ThreadFits
    <3> HIDE DEF part, place
    <3>3. /\ part(k) \in 1..Parts(s) /\ place(k, i) \in DOMAIN Part(s, t, part(k)) /\ Part(x, t, k)[i] = Part(s, t, part(k))[place(k, i)]
          /\ part(l) \in 1..Parts(s) /\ place(l, j) \in DOMAIN Part(s, t, part(l)) /\ Part(x, t, l)[j] = Part(s, t, part(l))[place(l, j)]
      BY <2>5
    <3> QED BY <3>1, <3>2, <3>3 DEF InOrder
  <2> HIDE DEF part, place
  <2>8. ASSUME NEW k \in 1..Parts(x), NEW i \in DOMAIN Part(x, t, k)
        PROVE  Part(x, t, k)[i].turn \in Nat /\ <<t, Part(x, t, k)[i].turn>> \in x.receipts
    BY <1>2, <2>1, <2>5 DEF ThreadFits
  <2> QED BY <2>3, <2>7, <2>8 DEF ThreadFits
<1>7. \A u \in Thread : ThreadFits(x, u)
  BY <1>5, <1>6
<1> QED BY <1>2, <1>3, <1>4, <1>7 DEF StoreFits, x

-----------------------------------------------------------------------------
-----------------------------------------------------------------------------
(* The turns of a session that wait, in the order in which they will be stored *)

Line(t) == batch[t].turns \o pending[t]

\* A turn that is over by now.
Over(h, n) == n <= h.turn /\ (h.open => n < h.turn)

\* The turns that wait came one after the other, and behind all that are stored.
LineFits(line, h, R, t) ==
  /\ \A i, j \in DOMAIN line : i < j => line[i].turn < line[j].turn
  /\ \A i \in DOMAIN line : line[i].turn \in Nat /\ Over(h, line[i].turn)
  /\ \A n \in Nat : <<t, n>> \in R => Over(h, n)
  /\ \A i \in DOMAIN line : <<t, line[i].turn>> \notin R => \A n \in Nat : <<t, n>> \in R => n < line[i].turn

LinesFit == \A t \in Thread : LineFits(Line(t), host[t], db.receipts, t)

LEMMA LineTail ==
  ASSUME NEW line, IsSeq(line), line # <<>>, NEW h, NEW R, NEW t, LineFits(line, h, R, t)
  PROVE  LineFits(Tail(line), h, R, t)
<1>1. /\ Len(line) \in Nat /\ DOMAIN line = 1..Len(line) /\ DOMAIN Tail(line) = 1..(Len(line) - 1)
      /\ \A i \in DOMAIN Tail(line) : Tail(line)[i] = line[i + 1]
  BY TailFacts, SeqFacts
<1>2. \A i \in DOMAIN Tail(line) : i + 1 \in DOMAIN line /\ \A j \in DOMAIN Tail(line) : i < j => i + 1 < j + 1
  BY <1>1
<1> QED BY <1>1, <1>2 DEF LineFits

\* The first of the line is later than all that is stored, and stays the first when it is.
LEMMA LineHead ==
  ASSUME NEW line, IsSeq(line), line # <<>>, NEW h, NEW R, NEW t, LineFits(line, h, R, t), <<t, Head(line).turn>> \notin R
  PROVE  /\ Head(line).turn \in Nat /\ \A n \in Nat : <<t, n>> \in R => n < Head(line).turn
         /\ LineFits(line, h, R \cup {<<t, Head(line).turn>>}, t)
<1> DEFINE m == Head(line).turn
           S == R \cup {<<t, m>>}
<1>1. Head(line) = line[1] /\ DOMAIN line = 1..Len(line) /\ Len(line) \in Nat /\ 1 \in DOMAIN line
  BY SeqFacts
<1>2. m \in Nat /\ Over(h, m) /\ \A n \in Nat : <<t, n>> \in R => n < m
  BY <1>1 DEF LineFits
<1>3. \A i \in DOMAIN line : i # 1 => m < line[i].turn
  BY <1>1 DEF LineFits
<1> HIDE DEF m
<1>4. \A n \in Nat : <<t, n>> \in S => n = m \/ <<t, n>> \in R
  OBVIOUS
<1>5. ASSUME NEW i \in DOMAIN line, <<t, line[i].turn>> \notin S, NEW n \in Nat, <<t, n>> \in S PROVE n < line[i].turn
  <2>1. i # 1
    BY <1>1, <1>5 DEF m
  <2>2. <<t, line[i].turn>> \notin R
    BY <1>5
  <2> QED BY <1>3, <1>4, <1>5, <2>1, <2>2 DEF LineFits
<1>6. \A n \in Nat : <<t, n>> \in S => Over(h, n)
  BY <1>2, <1>4 DEF LineFits
<1> HIDE DEF S
<1>7. LineFits(line, h, S, t)
  BY <1>5, <1>6 DEF LineFits
<1> QED BY <1>2, <1>7 DEF S, m

\* A turn that ends is the last of the line; while it runs, what waits is earlier.
LEMMA LineEnd ==
  ASSUME NEW line, IsSeq(line), NEW h, NEW k, NEW R, NEW t, LineFits(line, h, R, t), NEW f,
         h.open, ~k.open, k.turn = h.turn, h.turn \in Nat, f.turn = h.turn
  PROVE  LineFits(Append(line, f), k, R, t)
<1> DEFINE u == Append(line, f)
           c == Len(line)
<1>1. c \in Nat /\ DOMAIN line = 1..c /\ DOMAIN u = 1..(c + 1) /\ (\A i \in 1..c : u[i] = line[i]) /\ u[c + 1] = f
  BY AppendFacts, SeqFacts
<1> HIDE DEF u, c
<1>2. \A i \in DOMAIN line : line[i].turn \in Nat /\ line[i].turn < h.turn
  BY DEF LineFits, Over
<1>3. \A n \in Nat : <<t, n>> \in R => n < h.turn
  BY DEF LineFits, Over
<1>4. \A i \in DOMAIN u : (i \in DOMAIN line /\ u[i] = line[i]) \/ (i = c + 1 /\ u[i].turn = h.turn)
  BY <1>1
<1>5. \A i, j \in DOMAIN u : i < j => i \in DOMAIN line
  BY <1>1
<1>6. \A i, j \in DOMAIN u : i < j => u[i].turn < u[j].turn
  BY <1>1, <1>2, <1>4, <1>5 DEF LineFits
<1>7. \A i \in DOMAIN u : u[i].turn \in Nat /\ Over(k, u[i].turn)
  BY <1>2, <1>4 DEF Over
<1>8. \A n \in Nat : <<t, n>> \in R => Over(k, n)
  BY <1>3 DEF Over
<1>9. \A i \in DOMAIN u : <<t, u[i].turn>> \notin R => \A n \in Nat : <<t, n>> \in R => n < u[i].turn
  BY <1>3, <1>4 DEF LineFits
<1> QED BY <1>6, <1>7, <1>8, <1>9 DEF LineFits, u

LEMMA LineWaits ==
  ASSUME NEW line, NEW h, NEW k, NEW R, NEW t, LineFits(line, h, R, t), h.turn \in Nat, k.turn \in Nat,
         \/ k.turn = h.turn /\ (k.open => h.open)
         \/ ~h.open /\ k.turn = h.turn + 1
  PROVE  LineFits(line, k, R, t) /\ LineFits(<<>>, k, R, t)
<1>1. \A n \in Nat : Over(h, n) => Over(k, n)
  BY DEF Over
<1> QED BY <1>1 DEF LineFits

\* What is stored of other sessions does not matter.
LEMMA LineApart ==
  ASSUME NEW line, NEW h, NEW R, NEW t, NEW s, s # t, NEW n, LineFits(line, h, R, s)
  PROVE  LineFits(line, h, R \cup {<<t, n>>}, s)
<1>1. \A k : <<s, k>> \in R \cup {<<t, n>>} <=> <<s, k>> \in R
  OBVIOUS
<1> QED BY <1>1 DEF LineFits

LEMMA LineIsSeq ==
  ASSUME Shapes, NEW t \in Thread
  PROVE  IsSeq(Line(t)) /\ Line(t) \in Seq(Finished) /\ (batch[t].turns = <<>> => Line(t) = pending[t])
<1>1. pending[t] \in Seq(Finished) /\ batch[t].turns \in Seq(Finished)
  BY DEF Shapes
<1>2. Line(t) \in Seq(Finished)
  BY <1>1, ConcatProperties DEF Line
<1>3. Line(t) \in Seq(Range(Line(t)))
  BY <1>2, SeqOfRange
<1>4. IsSeq(Line(t))
  BY <1>3 DEF IsSeq, ToSet, Range
<1> QED BY <1>1, <1>2, <1>4, ConcatEmptySeq DEF Line

\* The head of a batch is the head of the line.
LEMMA FirstOfLine ==
  ASSUME NEW S, NEW b \in Seq(S), NEW w \in Seq(S), b # <<>>
  PROVE  /\ b \o w # <<>> /\ Head(b \o w) = Head(b) /\ Tail(b) \o w = Tail(b \o w)
<1> DEFINE u == b \o w
<1>0. Len(b) \in Nat /\ Len(w) \in Nat /\ Len(b) > 0
  OBVIOUS
<1>1. /\ u \in Seq(S) /\ Len(u) = Len(b) + Len(w)
      /\ \A i \in 1 .. Len(b) + Len(w) : u[i] = IF i <= Len(b) THEN b[i] ELSE w[i - Len(b)]
  BY ConcatProperties
<1> HIDE DEF u
<1>2. u # <<>> /\ Head(u) = u[1] /\ Head(b) = b[1] /\ u[1] = b[1]
  <2>1. u # <<>>
    <3>1. Len(<<>>) = 0 OBVIOUS
    <3> QED BY <1>0, <1>1, <3>1
  <2>2. Head(u) = u[1] /\ Head(b) = b[1]
    BY <1>1
  <2> QED BY <1>0, <1>1, <2>1, <2>2
<1>3. /\ Tail(u) \in Seq(S) /\ Len(Tail(u)) = Len(u) - 1 /\ (\A i \in 1 .. Len(Tail(u)) : Tail(u)[i] = u[i + 1])
      /\ Tail(b) \in Seq(S) /\ Len(Tail(b)) = Len(b) - 1 /\ (\A i \in 1 .. Len(Tail(b)) : Tail(b)[i] = b[i + 1])
  BY <1>1, <1>2, HeadTailProperties
<1> DEFINE c == Tail(b)
           v == Tail(b) \o w
<1>4. /\ v \in Seq(S) /\ Len(v) = Len(c) + Len(w)
      /\ \A i \in 1 .. Len(c) + Len(w) : v[i] = IF i <= Len(c) THEN c[i] ELSE w[i - Len(c)]
  BY <1>3, ConcatProperties
<1>5. v = Tail(u)
  <2>1. Len(v) = Len(Tail(u)) /\ Len(c) = Len(b) - 1 /\ Len(v) = Len(b) + Len(w) - 1
    BY <1>0, <1>1, <1>3, <1>4
  <2> HIDE DEF c, v
  <2>2. ASSUME NEW i \in 1 .. Len(v) PROVE v[i] = Tail(u)[i]
    <3>1. Tail(u)[i] = u[i + 1] /\ i + 1 \in 1 .. Len(b) + Len(w) /\ i \in 1 .. Len(c) + Len(w)
      BY <1>0, <1>1, <1>3, <1>4, <2>1
    <3>2. CASE i <= Len(c)
      <4>1. v[i] = c[i] /\ c[i] = b[i + 1] /\ i + 1 <= Len(b)
        BY <1>0, <1>3, <1>4, <2>1, <3>1, <3>2 DEF c
      <4> QED BY <1>1, <3>1, <4>1
    <3>3. CASE ~(i <= Len(c))
      <4>1. v[i] = w[i - Len(c)] /\ i - Len(c) = (i + 1) - Len(b) /\ ~(i + 1 <= Len(b))
        BY <1>0, <1>4, <2>1, <3>1, <3>3
      <4> QED BY <1>1, <3>1, <4>1
    <3> QED BY <3>2, <3>3
  <2> QED BY <1>3, <1>4, <2>1, <2>2, SeqEqual
<1> QED BY <1>2, <1>5 DEF u

-----------------------------------------------------------------------------
(* What a drain does to the lines *)

LineStays(s) == Line(s)' = Line(s)
LineMoves(s) == LineStays(s) \/ (Line(s) # <<>> /\ Line(s)' = Tail(Line(s)))

LEMMA TurnedLine ==
  ASSUME Shapes, NEW t \in Thread, NEW pc, Turned(t, pc)
  PROVE  \A s \in Thread : LineStays(s)
<1>1. pending' = pending /\ \A s \in Thread : batch'[s].turns = batch[s].turns
  BY DEF Turned, Shapes
<1> QED BY <1>1 DEF LineStays, Line

LEMMA GivenBackLine ==
  ASSUME Shapes, NEW s \in Thread, pending'[s] = batch[s].turns \o pending[s], batch'[s] = NoBatch
  PROVE  LineStays(s)
<1>1. Line(s)' = <<>> \o (batch[s].turns \o pending[s])
  <2>1. batch'[s].turns = <<>>
    BY DEF NoBatch
  <2>2. Line(s)' = batch'[s].turns \o pending'[s]
    BY DEF Line
  <2> QED BY <2>1, <2>2
<1>2. Line(s) \in Seq(Finished) /\ Line(s) = batch[s].turns \o pending[s]
  BY LineIsSeq DEF Line
<1>3. <<>> \o Line(s) = Line(s)
  BY <1>2, ConcatEmptySeq
<1> QED BY <1>1, <1>2, <1>3 DEF LineStays

LEMMA GiveBackLine ==
  ASSUME Shapes, NEW t \in Thread, NEW ok, GiveBack(t, ok)
  PROVE  \A s \in Thread : LineStays(s)
<1>1. /\ pending'[t] = batch[t].turns \o pending[t] /\ batch'[t] = NoBatch
      /\ \A s \in Thread : s # t => pending'[s] = pending[s] /\ batch'[s] = batch[s]
  BY DEF GiveBack, Shapes
<1>2. LineStays(t)
  BY <1>1, GivenBackLine
<1> QED BY <1>1, <1>2 DEF LineStays, Line

LEMMA CompletedLine ==
  ASSUME Shapes, NEW t \in Thread, batch[t].turns # <<>>, Completed(t)
  PROVE  \A s \in Thread : LineMoves(s)
<1>0. pending[t] \in Seq(Finished) /\ batch[t].turns \in Seq(Finished)
  BY DEF Shapes
<1>1. Line(t) # <<>> /\ Tail(batch[t].turns) \o pending[t] = Tail(Line(t))
  BY <1>0, FirstOfLine DEF Line
<1>2. /\ pending' = pending /\ batch'[t].turns = Tail(batch[t].turns)
      /\ \A s \in Thread : s # t => batch'[s] = batch[s]
  <2>1. CASE Len(batch[t].turns) = 1
    <3>1. batch' = [batch EXCEPT ![t] = NoBatch] /\ pending' = pending
      BY <2>1 DEF Completed
    <3>2. Tail(batch[t].turns) = <<>>
      <4> DEFINE v == Tail(batch[t].turns)
      <4>1. v \in Seq(Finished) /\ Len(v) = 0
        BY <1>0, <2>1, HeadTailProperties
      <4> HIDE DEF v
      <4>2. v = <<>>
        BY <4>1, EmptySeq
      <4> QED BY <4>2 DEF v
    <3> QED BY <3>1, <3>2 DEF Shapes, NoBatch
  <2>2. CASE Len(batch[t].turns) # 1
    BY <2>2 DEF Completed, Shapes
  <2> QED BY <2>1, <2>2
<1>3. LineMoves(t)
  BY <1>1, <1>2 DEF LineMoves, Line
<1>4. \A s \in Thread : s # t => LineMoves(s)
  BY <1>2 DEF LineMoves, LineStays, Line
<1> QED BY <1>3, <1>4

LEMMA LinesGoOn ==
  ASSUME Shapes, LinesFit, UNCHANGED host, db'.receipts = db.receipts, \A s \in Thread : LineMoves(s)
  PROVE  LinesFit'
<1> SUFFICES ASSUME NEW s \in Thread PROVE LineFits(Line(s)', host[s], db.receipts, s)
  BY DEF LinesFit
<1>1. LineFits(Line(s), host[s], db.receipts, s) /\ LineMoves(s) /\ IsSeq(Line(s))
  BY LineIsSeq DEF LinesFit
<1>2. CASE LineStays(s)
  BY <1>1, <1>2 DEF LineStays
<1>3. CASE Line(s) # <<>> /\ Line(s)' = Tail(Line(s))
  BY <1>1, <1>3, LineTail
<1> QED BY <1>1, <1>2, <1>3 DEF LineMoves

-----------------------------------------------------------------------------
-----------------------------------------------------------------------------
(* The invariant of the order *)

\* Without reservations there is nothing to reserve, and an append that finds its message
\* reserved is one whose turn the copy knows.
OpFits(o, R) == o.kind # "reserve" /\ (o.kind = "append" /\ o.reserved # FALSE => <<o.thread, o.turn>> \in R)
OpsFit(q, R) == \A i \in DOMAIN q : OpFits(q[i], R)

StoresFit == StoreFits(db) /\ \A p \in Proc : StoreFits(mem[p]) /\ (fresh[p] => mem[p] = db)

OrderInv == StoresFit /\ LinesFit /\ \A p \in Proc : OpsFit(queue[p], mem[p].receipts)

\* A commit or a load leaves copies in order, which have forgotten no receipt.
CopiesFit == StoresFit' /\ \A p \in Proc : mem[p].receipts \subseteq mem'[p].receipts

LEMMA SavedFits ==
  ASSUME Shapes, StoresFit, NEW p \in Proc, fresh[p], NEW s, StoreFits(s), db.receipts \subseteq s.receipts, Saved(p, s)
  PROVE  CopiesFit /\ db' = s
<1>1. db' = s /\ DOMAIN mem' = Proc /\ mem'[p] = s /\ (\A q \in Proc : q # p => mem'[q] = mem[q])
  BY DEF Saved, Shapes
<1>2. \A q \in Proc : fresh'[q] = (q = p)
  BY DEF Saved
<1>3. StoresFit'
  BY <1>1, <1>2 DEF StoresFit
<1>4. mem[p] = db
  BY DEF StoresFit
<1> QED BY <1>1, <1>3, <1>4 DEF CopiesFit

LEMMA LoadedFits ==
  ASSUME Shapes, ReceiptsKept, StoresFit, NEW p \in Proc, Loaded(p)
  PROVE  CopiesFit /\ db' = db
<1>1. db' = db /\ DOMAIN mem' = Proc /\ mem'[p] = db /\ (\A q \in Proc : q # p => mem'[q] = mem[q])
  BY DEF Loaded, Shapes
<1>2. \A q \in Proc : q # p => fresh'[q] = fresh[q]
  BY DEF Loaded, Shapes
<1>3. StoresFit'
  BY <1>1, <1>2 DEF StoresFit
<1> QED BY <1>1, <1>3 DEF CopiesFit, ReceiptsKept

LEMMA UnsavedFits ==
  ASSUME StoresFit, Unsaved
  PROVE  CopiesFit /\ db' = db
BY DEF StoresFit, Unsaved, durable, CopiesFit

-----------------------------------------------------------------------------
(* The queues *)

LEMMA PopOps ==
  ASSUME NEW q, IsSeq(q), q # <<>>, NEW R, OpsFit(q, R)
  PROVE  OpsFit(Tail(q), R) /\ OpFits(Head(q), R) /\ IsSeq(Tail(q))
<1>1. /\ IsSeq(Tail(q)) /\ DOMAIN Tail(q) = 1..(Len(q) - 1) /\ DOMAIN q = 1..Len(q) /\ Len(q) \in Nat /\ Len(q) > 0
      /\ \A i \in DOMAIN Tail(q) : Tail(q)[i] = q[i + 1]
      /\ Head(q) = q[1]
  BY TailFacts, SeqFacts
<1>2. 1 \in DOMAIN q /\ \A i \in DOMAIN Tail(q) : i + 1 \in DOMAIN q
  BY <1>1
<1> QED BY <1>1, <1>2 DEF OpsFit

LEMMA PushOps ==
  ASSUME NEW q, IsSeq(q), NEW R, OpsFit(q, R), NEW o, OpFits(o, R)
  PROVE  OpsFit(Append(q, o), R)
<1>1. /\ IsSeq(Append(q, o)) /\ DOMAIN Append(q, o) = 1..(Len(q) + 1) /\ DOMAIN q = 1..Len(q) /\ Len(q) \in Nat
      /\ \A i \in 1..Len(q) : Append(q, o)[i] = q[i]
      /\ Append(q, o)[Len(q) + 1] = o
  BY AppendFacts, SeqFacts
<1>2. \A i \in DOMAIN Append(q, o) : (i \in DOMAIN q /\ Append(q, o)[i] = q[i]) \/ Append(q, o)[i] = o
  BY <1>1
<1> QED BY <1>2 DEF OpsFit

\* What a step may do to the queue of p.
QueueMoves(p) ==
  \/ UNCHANGED queue
  \/ queue[p] # <<>> /\ Done(p)
  \/ \E o : OpFits(o, mem[p].receipts) /\ queue' = [queue EXCEPT ![p] = Append(@, o)]
  \/ \E o : OpFits(o, mem[p].receipts) /\ queue[p] # <<>> /\ DoneThen(p, o)

LEMMA OpsGoOn ==
  ASSUME Shapes, OrderInv, CopiesFit, NEW p \in Proc, QueueMoves(p)
  PROVE  \A r \in Proc : OpsFit(queue'[r], mem'[r].receipts)
<1> SUFFICES ASSUME NEW r \in Proc PROVE OpsFit(queue'[r], mem'[r].receipts)
  OBVIOUS
<1>1. IsSeq(queue[r]) /\ OpsFit(queue[r], mem[r].receipts) /\ DOMAIN queue = Proc
  BY DEF Shapes, OrderInv
<1>2. CASE queue'[r] = queue[r]
  BY <1>1, <1>2 DEF OpsFit, OpFits, CopiesFit
<1>3. CASE r = p /\ queue'[r] # queue[r]
  <2>1. OpsFit(queue'[r], mem[r].receipts)
    <3>1. CASE queue[p] # <<>> /\ Done(p)
      BY <1>1, <1>3, <3>1, PopOps DEF Done
    <3>2. CASE \E o : OpFits(o, mem[p].receipts) /\ queue' = [queue EXCEPT ![p] = Append(@, o)]
      BY <1>1, <1>3, <3>2, PushOps
    <3>3. CASE \E o : OpFits(o, mem[p].receipts) /\ queue[p] # <<>> /\ DoneThen(p, o)
      <4>1. PICK o : OpFits(o, mem[p].receipts) /\ queue[p] # <<>> /\ DoneThen(p, o)
        BY <3>3
      <4>2. OpsFit(Tail(queue[p]), mem[p].receipts) /\ IsSeq(Tail(queue[p]))
        BY <1>1, <1>3, <4>1, PopOps
      <4>3. queue'[p] = Append(Tail(queue[p]), o)
        BY <1>1, <4>1 DEF DoneThen
      <4> QED BY <1>3, <4>1, <4>2, <4>3, PushOps
    <3> QED BY <1>3, <3>1, <3>2, <3>3 DEF QueueMoves
  <2> QED BY <2>1 DEF OpsFit, OpFits, CopiesFit
<1>4. r # p => queue'[r] = queue[r]
  BY <1>1 DEF QueueMoves, Done, DoneThen
<1> QED BY <1>2, <1>3, <1>4

\* A step that stores no turn.
LEMMA StepOrders ==
  ASSUME Shapes, OrderInv, CopiesFit, db'.receipts = db.receipts, UNCHANGED host,
         \A s \in Thread : LineMoves(s), NEW p \in Proc, QueueMoves(p)
  PROVE  OrderInv'
<1>1. LinesFit'
  BY LinesGoOn DEF OrderInv
<1> QED BY <1>1, OpsGoOn DEF OrderInv, CopiesFit

\* Operations that fit: no append, or one of a turn that is not reserved or known.
LEMMA OtherOpFits ==
  ASSUME NEW o, NEW R, o.kind \in {"seal", "reload"}
  PROVE  OpFits(o, R)
BY DEF OpFits

-----------------------------------------------------------------------------
-----------------------------------------------------------------------------
(* The actions *)

LEMMA DrainOrders ==
  ASSUME TurnInv, OrderInv, NEW t \in Thread, DrainBegin(t)
  PROVE  OrderInv'
<1>0. Shapes /\ BatchesFit /\ StoresFit /\ Home[t] \in Proc
  BY ConstantsAssumption DEF TurnInv, OrderInv
<1>1. UNCHANGED <<queue, host>> /\ Unsaved
  BY DEF DrainBegin, Unsaved
<1>2. CopiesFit /\ db' = db
  BY <1>0, <1>1, UnsavedFits
<1>3. LineStays(t) /\ \A s \in Thread : s # t => LineStays(s)
  <2>1. CASE pending[t] = <<>>
    BY <2>1 DEF DrainBegin, LineStays, Line
  <2>2. CASE pending[t] # <<>>
    <3>1. /\ batch' = [batch EXCEPT ![t] = [pc |-> "next", turns |-> pending[t]]] /\ pending' = [pending EXCEPT ![t] = <<>>]
          /\ batch[t].turns = <<>> /\ pending[t] \in Seq(Finished)
      BY <1>0, <2>2 DEF DrainBegin, BatchesFit, Shapes
    <3>2. batch'[t].turns = pending[t] /\ pending'[t] = <<>>
      BY <1>0, <3>1 DEF Shapes
    <3>3. Line(t)' = pending[t] \o <<>>
      <4>1. Line(t)' = batch'[t].turns \o pending'[t] BY DEF Line
      <4> QED BY <3>2, <4>1
    <3>4. LineStays(t)
      BY <1>0, <3>1, <3>3, LineIsSeq, ConcatEmptySeq DEF LineStays
    <3> QED BY <1>0, <3>1, <3>4 DEF Shapes, LineStays, Line
  <2> QED BY <2>1, <2>2
<1>4. \A s \in Thread : LineMoves(s)
  BY <1>3 DEF LineMoves
<1> QED BY <1>0, <1>1, <1>2, <1>4, StepOrders DEF QueueMoves

LEMMA AppendTurnOrders ==
  ASSUME TurnInv, OrderInv, NEW t \in Thread, AppendTurn(t)
  PROVE  OrderInv'
<1> DEFINE p == Home[t]
           f == Head(batch[t].turns)
           held == Reserved(mem[p], t, f.turn)
           o == [kind |-> "append", thread |-> t, turn |-> f.turn, parts |-> f.parts, reserved |-> held # {}]
<1>0. Shapes /\ StoresFit /\ p \in Proc
  BY ConstantsAssumption DEF TurnInv, OrderInv
<1>1. UNCHANGED host /\ Unsaved
  BY DEF AppendTurn, Unsaved
<1>2. CopiesFit /\ db' = db
  BY <1>0, <1>1, UnsavedFits
<1>3. CASE GiveBack(t, FALSE) /\ UNCHANGED queue
  <2>1. \A s \in Thread : LineMoves(s)
    BY <1>0, <1>3, GiveBackLine DEF LineMoves
  <2> QED BY <1>0, <1>1, <1>2, <1>3, <2>1, StepOrders DEF QueueMoves
<1>4. CASE Turned(t, "append") /\ queue' = [queue EXCEPT ![p] = Append(@, o)]
  <2>1. \A s \in Thread : LineMoves(s)
    BY <1>0, <1>4, TurnedLine DEF LineMoves
  \* A message of this turn in the tail of the copy has its receipt there.
  <2>2. held # {} => <<t, f.turn>> \in mem[p].receipts
    <3> SUFFICES ASSUME NEW i \in held PROVE <<t, f.turn>> \in mem[p].receipts
      OBVIOUS
    <3>1. i \in DOMAIN mem[p].tail[t] /\ mem[p].tail[t][i].turn = f.turn
      BY DEF Reserved, Users
    <3>2. ThreadFits(mem[p], t) /\ IsSeq(mem[p].blocks)
      BY <1>0 DEF StoresFit, StoreFits
    <3> DEFINE k == Parts(mem[p])
    <3>3. k \in 1..k /\ Part(mem[p], t, k) = mem[p].tail[t]
      BY <3>2, SeqFacts DEF Parts, Part
    <3> HIDE DEF f, k
    <3>4. <<t, Part(mem[p], t, k)[i].turn>> \in mem[p].receipts
      BY <3>1, <3>2, <3>3 DEF ThreadFits, k
    <3> QED BY <3>1, <3>3, <3>4
  <2>3. OpFits(o, mem[p].receipts)
    <3>1. o.kind = "append" /\ o.thread = t /\ o.turn = f.turn /\ o.reserved = (held # {})
      OBVIOUS
    <3> HIDE DEF o, held, f
    <3> QED BY <2>2, <3>1 DEF OpFits
  <2> HIDE DEF o
  <2>4. QueueMoves(p)
    BY <1>4, <2>3 DEF QueueMoves
  <2> QED BY <1>0, <1>1, <1>2, <2>1, <2>4, StepOrders
<1> QED BY <1>3, <1>4, Zenon DEF AppendTurn

LEMMA SealAfterAppendOrders ==
  ASSUME TurnInv, OrderInv, NEW t \in Thread, SealAfterAppend(t)
  PROVE  OrderInv'
<1> DEFINE p == Home[t]
           o == [kind |-> "seal", block |-> NextBlock(p, t), by |-> "drain"]
<1>0. Shapes /\ StoresFit /\ p \in Proc
  BY ConstantsAssumption DEF TurnInv, OrderInv
<1>1. UNCHANGED host /\ Unsaved /\ batch[t].turns # <<>>
  BY DEF SealAfterAppend, Unsaved, TurnInv, BatchesFit
<1>2. CopiesFit /\ db' = db
  BY <1>0, <1>1, UnsavedFits
<1>3. \/ (Completed(t) \/ GiveBack(t, FALSE)) /\ UNCHANGED queue
      \/ Turned(t, "seal") /\ queue' = [queue EXCEPT ![p] = Append(@, o)]
  BY DEF SealAfterAppend
<1>4. OpFits(o, mem[p].receipts)
  BY OtherOpFits
<1> HIDE DEF o
<1>5. QueueMoves(p)
  BY <1>3, <1>4 DEF QueueMoves
<1>6. \A s \in Thread : LineMoves(s)
  <2>1. CASE Completed(t)
    BY <1>0, <1>1, <2>1, CompletedLine
  <2>2. CASE GiveBack(t, FALSE)
    BY <1>0, <2>2, GiveBackLine DEF LineMoves
  <2>3. CASE Turned(t, "seal")
    BY <1>0, <2>3, TurnedLine DEF LineMoves
  <2> QED BY <1>3, <2>1, <2>2, <2>3
<1> QED BY <1>0, <1>1, <1>2, <1>5, <1>6, StepOrders

\* The operation at the head of a queue is one that fits, and a reservation does not.
LEMMA HeadFits ==
  ASSUME Shapes, OrderInv, NEW p \in Proc, queue[p] # <<>>
  PROVE  OpFits(Head(queue[p]), mem[p].receipts) /\ Head(queue[p]).kind # "reserve"
BY PopOps DEF Shapes, OrderInv, OpFits

\* A turn that is stored, when it is the newest.
LEMMA StoredOrders ==
  ASSUME Shapes, StoresFit, NEW p \in Proc, fresh[p], NEW t \in Thread, NEW f, f.turn \in Nat, IsNewest(db, t, f.turn),
         Saved(p, WithTurn(mem[p], t, f, FALSE))
  PROVE  CopiesFit /\ db'.receipts = db.receipts \cup {<<t, f.turn>>}
<1> DEFINE s == WithTurn(db, t, f, FALSE)
<1>1. mem[p] = db /\ StoreFits(db)
  BY DEF StoresFit
<1>2. StoreFits(s) /\ s.receipts = db.receipts \cup {<<t, f.turn>>}
  BY <1>1, TurnFits
<1>3. Saved(p, s)
  BY <1>1
<1> HIDE DEF s
<1> QED BY <1>1, <1>2, <1>3, SavedFits

LEMMA RunAppendOrders ==
  ASSUME TurnInv, OrderInv, NEW p \in Proc, RunAppend(p)
  PROVE  OrderInv'
<1> DEFINE o == Head(queue[p])
           t == o.thread
<1>0. Shapes /\ ReceiptsKept /\ BatchesFit /\ StoresFit
  BY DEF TurnInv, OrderInv
<1>1. UNCHANGED host /\ queue[p] # <<>> /\ o.kind = "append"
  BY DEF RunAppend, NextIs
<1>2. DrainOp(o) /\ ThreadOf(o) = t
  BY <1>1 DEF DrainOp, ThreadOf
<1>3. t \in Thread /\ batch[t].pc = "append" /\ o.turn = Head(batch[t].turns).turn
  BY <1>1, <1>2, DrainHead
<1>4. batch[t].turns # <<>>
  BY <1>0, <1>3 DEF BatchesFit
<1>5. CASE Unsaved /\ (Completed(t) \/ GiveBack(t, FALSE) \/ Turned(t, "reload")) /\ QueueMoves(p)
  <2>1. CopiesFit /\ db' = db
    BY <1>0, <1>5, UnsavedFits
  <2>2. \A s \in Thread : LineMoves(s)
    <3>1. CASE Completed(t)
      BY <1>0, <1>3, <1>4, <3>1, CompletedLine
    <3>2. CASE GiveBack(t, FALSE)
      BY <1>0, <1>3, <3>2, GiveBackLine DEF LineMoves
    <3>3. CASE Turned(t, "reload")
      BY <1>0, <1>3, <3>3, TurnedLine DEF LineMoves
    <3> QED BY <1>5, <3>1, <3>2, <3>3
  <2> QED BY <1>0, <1>1, <1>5, <2>1, <2>2, StepOrders
<1>6. CASE ~Known(p, o) /\ fresh[p] /\ Saved(p, WithTurn(mem[p], t, o, o.reserved)) /\ Turned(t, "stored") /\ Done(p)
  <2>1. mem[p] = db /\ StoreFits(db)
    BY <1>0, <1>6 DEF StoresFit
  <2>2. <<t, o.turn>> \notin db.receipts /\ o.reserved = FALSE
    BY <1>0, <1>1, <1>6, <2>1, HeadFits DEF Known, OpFits
  <2> DEFINE b == batch[t].turns
             w == pending[t]
  <2>3. b \in Seq(Finished) /\ w \in Seq(Finished) /\ Line(t) = b \o w /\ IsSeq(Line(t))
    BY <1>0, <1>3, LineIsSeq DEF Shapes, Line
  <2>4. Line(t) # <<>> /\ Head(Line(t)) = Head(b)
    <3>1. b # <<>> BY <1>4
    <3> HIDE DEF b, w
    <3> QED BY <2>3, <3>1, FirstOfLine
  <2>5. LineFits(Line(t), host[t], db.receipts, t) /\ Head(Line(t)).turn = o.turn
    BY <1>3, <2>4 DEF OrderInv, LinesFit
  <2> DEFINE n == o.turn
  <2>6. /\ n \in Nat /\ \A m \in Nat : <<t, m>> \in db.receipts => m < n
        /\ LineFits(Line(t), host[t], db.receipts \cup {<<t, n>>}, t)
    <3> DEFINE line == Line(t)
               R == db.receipts
               h == host[t]
    <3>1. IsSeq(line) /\ line # <<>> /\ LineFits(line, h, R, t) /\ <<t, Head(line).turn>> \notin R /\ Head(line).turn = n
      BY <2>2, <2>3, <2>4, <2>5
    <3> HIDE DEF line, R, h, n
    <3>2. /\ Head(line).turn \in Nat /\ \A m \in Nat : <<t, m>> \in R => m < Head(line).turn
          /\ LineFits(line, h, R \cup {<<t, Head(line).turn>>}, t)
      BY <3>1, LineHead
    <3>3. n \in Nat /\ (\A m \in Nat : <<t, m>> \in R => m < n) /\ LineFits(line, h, R \cup {<<t, n>>}, t)
      BY <3>1, <3>2
    <3> QED BY <3>3 DEF line, R, h
  <2> DEFINE R == db.receipts \cup {<<t, n>>}
  <2>7. Saved(p, WithTurn(mem[p], t, o, FALSE))
    BY <1>6, <2>2
  <2>8. n \in Nat /\ IsNewest(db, t, n)
    BY <2>6 DEF IsNewest
  <2>9. CopiesFit /\ db'.receipts = R
    BY <1>0, <1>3, <1>6, <2>7, <2>8, StoredOrders
  <2>10. LineFits(Line(t), host[t], R, t)
    BY <2>6
  <2> HIDE DEF n
  <2>11. \A u \in Thread : LineStays(u)
    BY <1>0, <1>3, <1>6, TurnedLine
  <2>12. LinesFit'
    <3> HIDE DEF R
    <3> SUFFICES ASSUME NEW u \in Thread PROVE LineFits(Line(u), host[u], R, u)
      BY <1>1, <2>9, <2>11 DEF LinesFit, LineStays
    <3>1. LineFits(Line(u), host[u], db.receipts, u)
      BY DEF OrderInv, LinesFit
    <3>2. CASE u = t
      BY <2>10, <3>2
    <3>3. CASE u # t
      <4> DEFINE line == Line(u)
                 h == host[u]
      <4>1. LineFits(line, h, db.receipts, u)
        BY <3>1
      <4> HIDE DEF line, h
      <4>2. LineFits(line, h, db.receipts \cup {<<t, n>>}, u)
        BY <3>3, <4>1, LineApart
      <4> QED BY <4>2 DEF line, h, R
    <3> QED BY <3>2, <3>3
  <2>13. QueueMoves(p)
    BY <1>1, <1>6 DEF QueueMoves
  <2>14. \A r \in Proc : OpsFit(queue'[r], mem'[r].receipts)
    BY <1>0, <2>9, <2>13, OpsGoOn
  <2> QED BY <2>9, <2>12, <2>14 DEF OrderInv, CopiesFit
<1>7. ASSUME DoneThen(p, [kind |-> "reload", thread |-> t, by |-> "drain"]) PROVE QueueMoves(p)
  <2> DEFINE e == [kind |-> "reload", thread |-> t, by |-> "drain"]
  <2>1. OpFits(e, mem[p].receipts) /\ DoneThen(p, e)
    BY <1>7, OtherOpFits
  <2> HIDE DEF e
  <2> QED BY <1>1, <2>1 DEF QueueMoves
<1>8. Done(p) => QueueMoves(p)
  BY <1>1 DEF QueueMoves
<1> QED BY <1>5, <1>6, <1>7, <1>8, Zenon DEF RunAppend

\* A seal, whoever asked for it.
LEMMA SealOrders ==
  ASSUME Shapes, StoresFit, NEW p \in Proc, NEW b, CanSeal(p, b), Saved(p, WithBlock(mem[p], b))
  PROVE  CopiesFit /\ db'.receipts = db.receipts
<1> DEFINE s == WithBlock(db, b)
<1>1. fresh[p] /\ mem[p] = db /\ StoreFits(db) /\ b.raw = PendingBlock(db.tail[b.thread])
  BY DEF CanSeal, StoresFit
<1>2. StoreFits(s)
  BY <1>1, BlockFits
<1>3. s.receipts = db.receipts
  BY <1>1, StoreParts DEF StoreFits
<1>4. Saved(p, s)
  BY <1>1
<1> HIDE DEF s
<1> QED BY <1>1, <1>2, <1>3, <1>4, SavedFits

LEMMA RunSealOrders ==
  ASSUME TurnInv, OrderInv, NEW p \in Proc, RunSeal(p)
  PROVE  OrderInv'
<1> DEFINE o == Head(queue[p])
           b == o.block
           t == b.thread
           e == [kind |-> "reload", thread |-> t, by |-> o.by]
<1>0. Shapes /\ BatchesFit /\ StoresFit
  BY DEF TurnInv, OrderInv
<1>1. UNCHANGED host /\ queue[p] # <<>> /\ o.kind = "seal"
  BY DEF RunSeal, NextIs
<1>2. CopiesFit /\ db'.receipts = db.receipts
  BY <1>0, UnsavedFits, SealOrders DEF RunSeal
<1>3. QueueMoves(p)
  <2>1. OpFits(e, mem[p].receipts)
    BY OtherOpFits
  <2>2. Done(p) \/ DoneThen(p, e)
    BY DEF RunSeal
  <2> HIDE DEF e
  <2> QED BY <1>1, <2>1, <2>2 DEF QueueMoves
<1>4. \A s \in Thread : LineMoves(s)
  <2>1. CASE o.by = "drain"
    <3>1. DrainOp(o) /\ ThreadOf(o) = t
      BY <1>1, <2>1 DEF DrainOp, ThreadOf
    <3>2. t \in Thread /\ batch[t].pc = "seal"
      BY <1>1, <3>1, DrainHead
    <3>3. batch[t].turns # <<>>
      BY <1>0, <3>2 DEF BatchesFit
    <3>4. Completed(t) \/ GiveBack(t, FALSE) \/ Turned(t, "reload")
      BY <2>1 DEF RunSeal
    <3> QED BY <1>0, <3>2, <3>3, <3>4, CompletedLine, GiveBackLine, TurnedLine DEF LineMoves
  <2>2. CASE o.by # "drain"
    BY <2>2 DEF RunSeal, draining, LineMoves, LineStays, Line
  <2> QED BY <2>1, <2>2
<1> QED BY <1>0, <1>1, <1>2, <1>3, <1>4, StepOrders

LEMMA RunReloadOrders ==
  ASSUME TurnInv, OrderInv, NEW p \in Proc, RunReload(p)
  PROVE  OrderInv'
<1> DEFINE o == Head(queue[p])
           t == o.thread
<1>0. Shapes /\ ReceiptsKept /\ StoresFit
  BY DEF TurnInv, OrderInv
<1>1. UNCHANGED host /\ queue[p] # <<>> /\ o.kind = "reload" /\ QueueMoves(p)
  BY DEF RunReload, NextIs, QueueMoves
<1>2. CopiesFit /\ db' = db
  BY <1>0, LoadedFits DEF RunReload
<1>3. \A s \in Thread : LineMoves(s)
  <2>1. CASE o.by = "drain"
    <3>1. DrainOp(o) /\ ThreadOf(o) = t /\ GiveBack(t, TRUE)
      BY <1>1, <2>1 DEF DrainOp, ThreadOf, RunReload
    <3>2. t \in Thread
      BY <1>1, <3>1, DrainHead
    <3> QED BY <1>0, <3>1, <3>2, GiveBackLine DEF LineMoves
  <2>2. CASE o.by # "drain"
    BY <2>2 DEF RunReload, draining, LineMoves, LineStays, Line
  <2> QED BY <2>1, <2>2
<1> QED BY <1>0, <1>1, <1>2, <1>3, StepOrders

LEMMA SealOnOpenOrders ==
  ASSUME TurnInv, OrderInv, NEW p \in Proc, SealOnOpen(p)
  PROVE  OrderInv'
<1> DEFINE waiting(s) == Home[s] = p /\ batch[s].pc = "next"
<1>0. Shapes /\ StoresFit
  BY DEF TurnInv, OrderInv
<1>1. UNCHANGED <<queue, host>>
  BY DEF SealOnOpen
<1>2. CASE /\ Unsaved
           /\ batch' = [s \in Thread |-> IF waiting(s) THEN NoBatch ELSE batch[s]]
           /\ pending' = [s \in Thread |-> IF waiting(s) THEN batch[s].turns \o pending[s] ELSE pending[s]]
  <2>1. CopiesFit /\ db' = db
    BY <1>0, <1>2, UnsavedFits
  <2>2. ASSUME NEW s \in Thread PROVE LineMoves(s)
    <3>1. CASE waiting(s)
      BY <1>0, <1>2, <3>1, GivenBackLine DEF LineMoves
    <3>2. CASE ~waiting(s)
      BY <1>2, <3>2 DEF LineMoves, LineStays, Line
    <3> QED BY <3>1, <3>2
  <2> QED BY <1>0, <1>1, <2>1, <2>2, StepOrders DEF QueueMoves
<1>3. ASSUME NEW b, CanSeal(p, b), Saved(p, WithBlock(mem[p], b)), UNCHANGED <<pending, batch>> PROVE OrderInv'
  <2>1. CopiesFit /\ db'.receipts = db.receipts
    BY <1>0, <1>3, SealOrders
  <2>2. \A s \in Thread : LineMoves(s)
    BY <1>3 DEF LineMoves, LineStays, Line
  <2> QED BY <1>0, <1>1, <2>1, <2>2, StepOrders DEF QueueMoves
<1> QED BY <1>2, <1>3 DEF SealOnOpen, draining

LEMMA SpaceOrders ==
  ASSUME TurnInv, OrderInv, NEW p \in Proc, OpenSpace(p) \/ Opened(p) \/ Flush(p) \/ FlushSettled(p)
  PROVE  OrderInv'
<1>0. Shapes /\ ReceiptsKept /\ StoresFit
  BY DEF TurnInv, OrderInv
<1>1. UNCHANGED <<queue, pending, batch, host>>
  BY DEF OpenSpace, Opened, Flush, FlushSettled, draining
<1>2. Loaded(p) \/ Unsaved
  BY DEF OpenSpace, Opened, Flush, FlushSettled, Unsaved
<1>3. CopiesFit /\ db' = db
  BY <1>0, <1>2, LoadedFits, UnsavedFits
<1>4. \A s \in Thread : LineMoves(s)
  BY <1>1 DEF LineMoves, LineStays, Line
<1> QED BY <1>0, <1>1, <1>3, <1>4, StepOrders DEF QueueMoves

LEMMA ResumeOrders ==
  ASSUME TurnInv, OrderInv, NEW p \in Proc, ResumeBegin(p) \/ ResumeSeal(p)
  PROVE  OrderInv'
<1>0. Shapes /\ StoresFit
  BY DEF TurnInv, OrderInv
<1>1. UNCHANGED <<pending, batch, host>> /\ Unsaved
  BY DEF ResumeBegin, ResumeSeal, draining, Unsaved
<1>2. CopiesFit /\ db' = db
  BY <1>0, <1>1, UnsavedFits
<1>3. \A s \in Thread : LineMoves(s)
  BY <1>1 DEF LineMoves, LineStays, Line
<1>4. QueueMoves(p)
  <2>1. \/ UNCHANGED queue
        \/ \E s : queue' = [queue EXCEPT ![p] = Append(@, [kind |-> "reload", thread |-> s, by |-> "resume"])]
        \/ \E t \in Thread : queue' = [queue EXCEPT ![p] = Append(@, [kind |-> "seal", block |-> NextBlock(p, t), by |-> "resume"])]
    BY DEF ResumeBegin, ResumeSeal
  <2>2. ASSUME NEW o, OpFits(o, mem[p].receipts), queue' = [queue EXCEPT ![p] = Append(@, o)] PROVE QueueMoves(p)
    BY <2>2 DEF QueueMoves
  <2>3. \A s : OpFits([kind |-> "reload", thread |-> s, by |-> "resume"], mem[p].receipts)
    BY OtherOpFits
  <2>4. \A s : OpFits([kind |-> "seal", block |-> s, by |-> "resume"], mem[p].receipts)
    BY OtherOpFits
  <2>5. CASE UNCHANGED queue
    BY <2>5 DEF QueueMoves
  <2> QED BY <2>1, <2>2, <2>3, <2>4, <2>5
<1> QED BY <1>0, <1>1, <1>2, <1>3, <1>4, StepOrders

\* The host goes on: a turn starts, or is said more in.
LEMMA HostOrders ==
  ASSUME TurnInv, OrderInv, NEW t \in Thread, StartTurn(t) \/ Say(t)
  PROVE  OrderInv'
<1>0. host \in [Thread -> [turn: Nat, open: BOOLEAN, parts: Nat]]
  BY DEF TurnInv, Shapes
<1>1. UNCHANGED <<db, mem, fresh, queue, pending, batch>>
  BY DEF StartTurn, Say, durable, draining
<1>2. /\ host'[t].turn \in Nat
      /\ \/ host'[t].turn = host[t].turn /\ (host'[t].open => host[t].open)
         \/ ~host[t].open /\ host'[t].turn = host[t].turn + 1
      /\ \A s \in Thread : s # t => host'[s] = host[s]
  <2>1. CASE StartTurn(t)
    BY <1>0, <2>1 DEF StartTurn
  <2>2. CASE Say(t)
    BY <1>0, <2>2 DEF Say
  <2> QED BY <2>1, <2>2
<1>3. LinesFit'
  <2> SUFFICES ASSUME NEW s \in Thread PROVE LineFits(Line(s), host'[s], db.receipts, s)
    BY <1>1 DEF LinesFit, Line
  <2>1. LineFits(Line(s), host[s], db.receipts, s) /\ host[s].turn \in Nat
    BY <1>0 DEF OrderInv, LinesFit
  <2>2. CASE s = t
    BY <1>2, <2>1, <2>2, LineWaits
  <2> QED BY <1>2, <2>1, <2>2
<1> QED BY <1>1, <1>3 DEF OrderInv, StoresFit

LEMMA EndTurnOrders ==
  ASSUME TurnInv, OrderInv, NEW t \in Thread, EndTurn(t)
  PROVE  OrderInv'
<1> DEFINE f == [turn |-> host[t].turn, parts |-> host[t].parts]
<1>0. host \in [Thread -> [turn: Nat, open: BOOLEAN, parts: Nat]] /\ Shapes
  BY DEF TurnInv, Shapes
<1>1. /\ UNCHANGED <<db, mem, fresh, queue, batch>> /\ pending' = [pending EXCEPT ![t] = Append(pending[t], f)]
      /\ host' = [host EXCEPT ![t].open = FALSE, ![t].parts = 0] /\ host[t].open
  BY DEF EndTurn, durable
<1>2. f.turn = host[t].turn /\ f \in Finished \cup {f}
  OBVIOUS
<1> HIDE DEF f
<1>3. /\ host[t].turn \in Nat /\ host'[t].turn = host[t].turn /\ ~host'[t].open
      /\ \A s \in Thread : s # t => host'[s] = host[s] /\ pending'[s] = pending[s]
      /\ pending'[t] = Append(pending[t], f)
  BY <1>0, <1>1 DEF Shapes
<1>4. Line(t)' = Append(Line(t), f)
  <2> DEFINE S == Finished \cup {f}
             b == batch[t].turns
             w == pending[t]
  <2>1. b \in Seq(Finished) /\ w \in Seq(Finished)
    BY <1>0 DEF Shapes
  <2>2. b \in Seq(S) /\ w \in Seq(S) /\ f \in S
    BY <2>1, SeqMonotonic
  <2> HIDE DEF S
  <2>3. b \o w \in Seq(S)
    BY <2>2, ConcatProperties
  <2>4. Line(t)' = b \o Append(w, f) /\ Line(t) = b \o w
    BY <1>1, <1>3 DEF Line
  <2> HIDE DEF b, w
  <2>5. <<f>> \in Seq(S) /\ Append(w, f) = w \o <<f>>
    BY <2>2, AppendIsConcat
  <2> DEFINE u == b \o w
  <2>6. u \in Seq(S) BY <2>3
  <2> HIDE DEF u
  <2>7. Append(u, f) = u \o <<f>>
    BY <2>2, <2>6, AppendIsConcat
  <2>8. (b \o w) \o <<f>> = b \o (w \o <<f>>)
    BY <2>2, <2>5, ConcatAssociative
  <2> QED BY <2>4, <2>5, <2>7, <2>8 DEF u
<1>5. LinesFit'
  <2> SUFFICES ASSUME NEW s \in Thread PROVE LineFits(Line(s)', host'[s], db.receipts, s)
    BY <1>1 DEF LinesFit
  <2>1. LineFits(Line(s), host[s], db.receipts, s) /\ IsSeq(Line(s))
    BY <1>0, LineIsSeq DEF OrderInv, LinesFit
  <2>2. CASE s = t
    <3> DEFINE line == Line(t)
               h == host[t]
               k == host'[t]
    <3>1. LineFits(line, h, db.receipts, t) /\ IsSeq(line) /\ h.open /\ ~k.open /\ k.turn = h.turn /\ h.turn \in Nat /\ f.turn = h.turn
      BY <1>1, <1>2, <1>3, <2>1, <2>2
    <3>2. Line(t)' = Append(line, f)
      BY <1>4
    <3> HIDE DEF line, h, k
    <3>3. LineFits(Append(line, f), k, db.receipts, t)
      BY <3>1, LineEnd
    <3> QED BY <2>2, <3>2, <3>3 DEF k
  <2>3. CASE s # t
    BY <1>1, <1>3, <2>1, <2>3 DEF Line
  <2> QED BY <2>2, <2>3
<1> QED BY <1>1, <1>5 DEF OrderInv, StoresFit

LEMMA RestartOrders ==
  ASSUME TurnInv, OrderInv, NEW p \in Proc, Restart(p)
  PROVE  OrderInv'
<1>0. Shapes
  BY DEF TurnInv
<1>1. db' = db
  BY DEF Restart
<1>2. /\ mem'[p] = EmptyStore /\ fresh'[p] = FALSE /\ queue'[p] = <<>>
      /\ \A q \in Proc : q # p => mem'[q] = mem[q] /\ fresh'[q] = fresh[q] /\ queue'[q] = queue[q]
  BY <1>0 DEF Restart, Shapes
<1>3. StoresFit'
  BY <1>1, <1>2, EmptyFits DEF OrderInv, StoresFit
<1>4. \A r \in Proc : OpsFit(queue'[r], mem'[r].receipts)
  <2>1. DOMAIN <<>> = {}
    OBVIOUS
  <2>2. OpsFit(queue'[p], mem'[p].receipts)
    BY <1>2, <2>1 DEF OpsFit
  <2> QED BY <1>2, <2>2 DEF OrderInv
<1>5. ASSUME NEW t \in Thread PROVE LineFits(Line(t)', host'[t], db.receipts, t)
  <2>0. host[t] \in [turn: Nat, open: BOOLEAN, parts: Nat] /\ LineFits(Line(t), host[t], db.receipts, t)
    BY <1>0 DEF Shapes, OrderInv, LinesFit
  <2>1. CASE Home[t] = p
    <3>1. pending'[t] = <<>> /\ batch'[t] = NoBatch /\ host'[t] = [host[t] EXCEPT !.open = FALSE, !.parts = 0]
      BY <2>1 DEF Restart
    <3>2. Line(t)' = <<>> \o <<>>
      <4>1. batch'[t].turns = <<>> BY <3>1 DEF NoBatch
      <4>2. Line(t)' = batch'[t].turns \o pending'[t] BY DEF Line
      <4> QED BY <3>1, <4>1, <4>2
    <3>3. Line(t)' = <<>>
      BY <3>2
    <3>4. host'[t].turn = host[t].turn /\ ~host'[t].open /\ host[t].turn \in Nat
      BY <2>0, <3>1
    <3> QED BY <2>0, <3>3, <3>4, LineWaits
  <2>2. CASE Home[t] # p
    <3>1. pending'[t] = pending[t] /\ batch'[t] = batch[t] /\ host'[t] = host[t]
      BY <2>2 DEF Restart
    <3> QED BY <2>0, <3>1 DEF Line
  <2> QED BY <2>1, <2>2
<1>6. LinesFit'
  BY <1>1, <1>5 DEF LinesFit
<1> QED BY <1>3, <1>4, <1>6 DEF OrderInv

LEMMA InitOrders == Init => OrderInv
<1> SUFFICES ASSUME Init PROVE OrderInv
  OBVIOUS
<1>1. db = EmptyStore /\ \A p \in Proc : mem[p] = EmptyStore /\ fresh[p] = FALSE /\ queue[p] = <<>>
  BY DEF Init
<1>2. StoresFit
  BY <1>1, EmptyFits DEF StoresFit
<1>3. \A p \in Proc : OpsFit(queue[p], mem[p].receipts)
  <2>1. DOMAIN <<>> = {}
    OBVIOUS
  <2> QED BY <1>1, <2>1 DEF OpsFit
<1>4. ASSUME NEW t \in Thread PROVE LineFits(Line(t), host[t], db.receipts, t)
  <2>1. batch[t].turns = <<>> /\ pending[t] = <<>>
    BY DEF Init, NoBatch
  <2>2. Line(t) = <<>> \o <<>>
    BY <2>1 DEF Line
  <2>3. Line(t) = <<>>
    BY <2>2
  <2>4. db.receipts = {}
    BY <1>1 DEF EmptyStore
  <2> QED BY <2>3, <2>4 DEF LineFits
<1> QED BY <1>2, <1>3, <1>4 DEF OrderInv, LinesFit

LEMMA OrdersInductive ==
  ASSUME Remembers = FALSE, TurnInv, OrderInv, [Next]_vars
  PROVE  OrderInv'
<1>1. CASE UNCHANGED vars
  BY <1>1 DEF vars, OrderInv, StoresFit, LinesFit, Line
<1>2. ASSUME NEW t \in Thread, SessionStep(t) \/ DrainStep(t) PROVE OrderInv'
  <2>1. ~Remember(t)
    BY DEF Remember
  <2> QED BY <1>2, <2>1, HostOrders, EndTurnOrders, DrainOrders, AppendTurnOrders, SealAfterAppendOrders DEF SessionStep, DrainStep
<1>3. ASSUME NEW p \in Proc, QueueStep(p) \/ SpaceStep(p) \/ ResumeStep(p) \/ FlushStep(p) \/ Restart(p) PROVE OrderInv'
  <2>1. ~RunReserve(p)
    BY HeadFits DEF RunReserve, NextIs, TurnInv
  <2> QED BY <1>3, <2>1, RunAppendOrders, RunSealOrders, RunReloadOrders, SpaceOrders, SealOnOpenOrders, ResumeOrders, RestartOrders
          DEF QueueStep, SpaceStep, ResumeStep, FlushStep
<1> QED BY <1>1, <1>2, <1>3 DEF Next

\* The turns of a thread are stored in the order in which they ended, in Blocks and in the tail, whatever
\* failed batches, conflicts, reloads, other processes that seal and restarts come in between (the drain,
\* runtime.ts:1039).  Without reservations: one that is stored while earlier turns wait comes before them.
THEOREM HistoryStaysInOrder ==
  ASSUME Remembers = FALSE
  PROVE  Spec => []StoredInOrder
<1>1. Init => TurnInv /\ OrderInv
  BY InitTurns, InitOrders
<1>2. TurnInv /\ OrderInv /\ [Next]_vars => (TurnInv /\ OrderInv)'
  BY TurnsInductive, OrdersInductive
<1>3. TurnInv /\ OrderInv => StoredInOrder
  BY DEF OrderInv, StoresFit, StoreFits, ThreadFits, StoredInOrder
<1> QED BY <1>1, <1>2, <1>3, PTL DEF Spec
=============================================================================
