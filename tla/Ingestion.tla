------------------------------- MODULE Ingestion -------------------------------
(***************************************************************************)
(* Ingestion: the turns of host sessions become raw messages in the open   *)
(* tail of a namespace, and N complete turns of one thread become a sealed *)
(* Block.  A finished turn is queued in memory, drained in batches per     *)
(* session, and appended with a receipt; memory_remember may store the     *)
(* user message of a turn that is still running.  Every process holds one  *)
(* StrataGate instance of the namespace, whose writes go one at a time     *)
(* through a mutation queue and are accepted only at the current revision. *)
(*                                                                         *)
(* Sources: src/runtime.ts (queue, drain, spaces, worker), src/fold.ts     *)
(* (turns) and packages/core/src/store.ts, sqlite.ts (tail and Blocks).    *)
(***************************************************************************)
EXTENDS Naturals, Sequences, SequencesExt, FiniteSets

CONSTANTS
  Proc,        \* processes; each holds one StrataGate instance
  Thread,      \* sessions of the namespace
  Home,        \* Home[t]: the process that runs session t
  N,           \* blockTurnSize
  MaxTurn,     \* bound: MaxTurn[t] turns of session t
  MaxParts,    \* bound: user messages in one turn
  MaxCrash,    \* bound: process restarts
  MaxDrains,   \* bound: drains of a session that wait for each other
  Remembers,   \* TRUE: the agent calls memory_remember
  Flushes      \* TRUE: callers flush the queue of turns before they read

ASSUME ConstantsAssumption ==
  /\ Home \in [Thread -> Proc]
  /\ N \in Nat \ {0}
  /\ MaxTurn \in [Thread -> Nat] /\ MaxParts \in Nat /\ MaxCrash \in Nat
  /\ MaxDrains \in Nat \ {0}
  /\ Remembers \in BOOLEAN /\ Flushes \in BOOLEAN

VARIABLES
  db,         \* the durable namespace
  mem,        \* mem[p]: the copy held by p's instance
  fresh,      \* fresh[p]: p's revision equals the durable revision
  space,      \* space[p]: whether p has opened the namespace
  queue,      \* queue[p]: the instance's mutation queue
  host,       \* host[t]: the session's running turn, as the folder sees it
  pending,    \* pending[t]: finished turns waiting for a drain
  batch,      \* batch[t]: the drain that holds t's detached turns
  drains,     \* drains[t]: the timer, the chain of drains, and the error of the last
  flushing,   \* flushing[p]: a flush waits for the drains of p
  resume,     \* resume[p]: background resumption of unfinished work
  log,        \* log[t]: finished turns with a user message, in the host's own log
  lost,       \* history: finished turns a restart dropped before they were stored
  crashes     \* restarts so far

vars == <<db, mem, fresh, space, queue, host, pending, batch, drains, flushing, resume,
          log, lost, crashes>>

durable == <<db, mem, fresh>>
draining == <<pending, batch, drains>>
past == <<log, lost, crashes>>

Turn == Nat \ {0}         \* the host's turn numbers, per session

Sessions(p) == {t \in Thread : Home[t] = p}

-----------------------------------------------------------------------------
(* Messages, the open tail and Blocks *)

\* The identity of a user message is its turn, its content is abstracted to the
\* number of user messages joined in it, and createdAt to the instant it names.
Message == [turn: Turn, role: {"user", "assistant"}, parts: 0..MaxParts,
            at: {"asked", "ended"}]

User(n, parts, at) == [turn |-> n, role |-> "user", parts |-> parts, at |-> at]
Assistant(n) == [turn |-> n, role |-> "assistant", parts |-> 0, at |-> "ended"]

Users(s) == {i \in DOMAIN s : s[i].role = "user"}

\* userTurnHasAssistant: the next message of the thread is a reply.
HasReply(s, i) == i < Len(s) /\ s[i + 1].role = "assistant"

CompleteUsers(s) == {i \in Users(s) : HasReply(s, i)}

Sealable(s) == Cardinality(CompleteUsers(s)) >= N

\* Where the N-th user message is, when it and all before it have their reply.
LastOfBlock(s) ==
  {i \in Users(s) : /\ Cardinality({j \in Users(s) : j <= i}) = N
                    /\ \A j \in Users(s) : j <= i => HasReply(s, j)}

\* Everything up to the user message after the N-th, or to the end.
PendingBlock(s) ==
  IF LastOfBlock(s) = {} THEN <<>>
  ELSE LET i == CHOOSE i \in LastOfBlock(s) : TRUE
           rest == {j \in Users(s) : j > i}
       IN IF rest = {} THEN s
          ELSE SubSeq(s, 1, (CHOOSE j \in rest : \A k \in rest : j <= k) - 1)

Block == [thread: Thread, sequence: Nat \ {0}, first: Nat \ {0}, raw: Seq(Message)]

Store == [tail: [Thread -> Seq(Message)], blocks: Seq(Block),
          receipts: SUBSET (Thread \X Turn)]

EmptyStore == [tail |-> [t \in Thread |-> <<>>], blocks |-> <<>>, receipts |-> {}]

BlocksOf(s, t) == SelectSeq(s.blocks, LAMBDA b : b.thread = t)
Sealed(s, t) == FlattenSeq([i \in DOMAIN BlocksOf(s, t) |-> BlocksOf(s, t)[i].raw])
History(s, t) == Sealed(s, t) \o s.tail[t]

Reserved(s, t, n) == {i \in Users(s.tail[t]) : s.tail[t][i].turn = n}

-----------------------------------------------------------------------------
(* State *)

FoldedTurn == [turn: Turn, parts: 1..MaxParts]

Op == [kind: {"reserve"}, thread: Thread, turn: Turn, parts: 1..MaxParts]
 \cup [kind: {"append"}, thread: Thread, turn: Turn, parts: 1..MaxParts, reserved: BOOLEAN]
 \cup [kind: {"seal"}, block: Block, by: {"drain", "resume"}]
 \cup [kind: {"reload"}, thread: Thread, by: {"drain", "resume"}]

TypeOK ==
  /\ db \in Store
  /\ mem \in [Proc -> Store]
  /\ fresh \in [Proc -> BOOLEAN]
  /\ space \in [Proc -> {"closed", "opening", "open"}]
  /\ queue \in [Proc -> Seq(Op)]
  /\ host \in [Thread -> [turn: Nat, open: BOOLEAN, parts: 0..MaxParts]]
  /\ pending \in [Thread -> Seq(FoldedTurn)]
  /\ batch \in [Thread -> [pc: {"idle", "next", "append", "stored", "seal", "reload"},
                           turns: Seq(FoldedTurn)]]
  /\ drains \in [Thread -> [timer: BOOLEAN, calls: Seq({"timer", "flush"}), failed: BOOLEAN]]
  /\ flushing \in [Proc -> BOOLEAN]
  /\ resume \in [Proc -> {"idle", "reload", "check", "seal"}]
  /\ log \in [Thread -> Seq(Turn)]
  /\ lost \in SUBSET (Thread \X Turn)
  /\ crashes \in 0..MaxCrash

\* The process of t holds turn n, queued or in a batch.
Held(t, n) == \E f \in ToSet(pending[t]) \cup ToSet(batch[t].turns) : f.turn = n

NoBatch == [pc |-> "idle", turns |-> <<>>]
NoDrains == [timer |-> FALSE, calls |-> <<>>, failed |-> FALSE]

Init ==
  /\ db = EmptyStore
  /\ mem = [p \in Proc |-> EmptyStore]
  /\ fresh = [p \in Proc |-> FALSE]
  /\ space = [p \in Proc |-> "closed"]
  /\ queue = [p \in Proc |-> <<>>]
  /\ host = [t \in Thread |-> [turn |-> 0, open |-> FALSE, parts |-> 0]]
  /\ pending = [t \in Thread |-> <<>>]
  /\ batch = [t \in Thread |-> NoBatch]
  /\ drains = [t \in Thread |-> NoDrains]
  /\ flushing = [p \in Proc |-> FALSE]
  /\ resume = [p \in Proc |-> "idle"]
  /\ log = [t \in Thread |-> <<>>]
  /\ lost = {}
  /\ crashes = 0

-----------------------------------------------------------------------------
(* The host session and the folder *)

\* A turn begins with a message of the user.  One without user text folds to nothing
\* and is left out.
StartTurn(t) ==
  /\ ~host[t].open /\ host[t].turn < MaxTurn[t]
  /\ host' = [host EXCEPT ![t] = [turn |-> @.turn + 1, open |-> TRUE, parts |-> 1]]
  /\ UNCHANGED <<durable, space, queue, draining, flushing, resume, past>>

\* A further message of the user, sent while the turn runs.
Say(t) ==
  /\ host[t].open /\ host[t].parts < MaxParts
  /\ host' = [host EXCEPT ![t].parts = @ + 1]
  /\ UNCHANGED <<durable, space, queue, draining, flushing, resume, past>>

EndTurn(t) ==
  /\ host[t].open
  /\ host' = [host EXCEPT ![t].open = FALSE, ![t].parts = 0]
  /\ pending' = [pending EXCEPT ![t] =
       Append(@, [turn |-> host[t].turn, parts |-> host[t].parts])]
  /\ drains' = [drains EXCEPT ![t].timer = TRUE]
  /\ log' = [log EXCEPT ![t] = Append(@, host[t].turn)]
  /\ UNCHANGED <<durable, space, queue, batch, flushing, resume, lost, crashes>>

\* recordAgentMemory asks for the user message of the running turn to be stored.
Remember(t) ==
  LET p == Home[t]
  IN /\ Remembers
     /\ space[p] = "open" /\ host[t].open
     /\ \A i \in DOMAIN queue[p] : queue[p][i].kind = "reserve" => queue[p][i].thread # t
     /\ queue' = [queue EXCEPT ![p] = Append(@,
          [kind |-> "reserve", thread |-> t, turn |-> host[t].turn, parts |-> host[t].parts])]
     /\ UNCHANGED <<durable, space, host, draining, flushing, resume, past>>

-----------------------------------------------------------------------------
(* The durable side *)

Saved(p, s) ==
  /\ db' = s
  /\ mem' = [mem EXCEPT ![p] = s]
  /\ fresh' = [q \in Proc |-> q = p]

Unsaved == UNCHANGED durable

Loaded(p) ==
  /\ mem' = [mem EXCEPT ![p] = db]
  /\ fresh' = [fresh EXCEPT ![p] = TRUE]
  /\ UNCHANGED db

\* The turn is appended, or its reply is put right behind the reserved message.
WithTurn(s, t, f, reserved) ==
  LET tail == s.tail[t]
      at == Reserved(s, t, f.turn)
      longer == IF ~reserved
                THEN tail \o <<User(f.turn, f.parts, "ended"), Assistant(f.turn)>>
                ELSE IF at = {} THEN Append(tail, Assistant(f.turn))
                ELSE InsertAt(tail, (CHOOSE i \in at : TRUE) + 1, Assistant(f.turn))
  IN [s EXCEPT !.tail[t] = longer, !.receipts = @ \cup {<<t, f.turn>>}]

\* The code filters the sealed ids out of the tail.  Ids are unique, and the mutation has
\* just seen that the tail begins with the messages of the Block: the rest remains.
WithBlock(s, b) ==
  [s EXCEPT !.blocks = Append(@, b),
            !.tail[b.thread] = SubSeq(@, Len(b.raw) + 1, Len(@))]

\* What sealOpenTail reads before its mutation waits for its turn.
NextBlock(p, t) ==
  [thread |-> t, sequence |-> Len(mem[p].blocks) + 1,
   first |-> N * Len(BlocksOf(mem[p], t)) + 1, raw |-> PendingBlock(mem[p].tail[t])]

-----------------------------------------------------------------------------
(* Drain *)

\* A drain that ends leaves its error behind.  Only one that a timer started sets the
\* timer again when turns are left.
AfterDrain(d, ok, left) ==
  [timer |-> d.timer \/ (Head(d.calls) = "timer" /\ left),
   calls |-> Tail(d.calls),
   failed |-> IF ok THEN d.failed /\ left ELSE TRUE]

\* The next drain of the chain, or one that the timer starts, detaches all that waits.
\* A timer that fires while the session is drained would only join the chain: it counts
\* as firing later.
DrainBegin(t) ==
  /\ batch[t].pc = "idle" /\ (drains[t].calls # <<>> \/ drains[t].timer)
  /\ LET d == IF drains[t].calls # <<>> THEN drains[t]
              ELSE [drains[t] EXCEPT !.timer = FALSE, !.calls = <<"timer">>]
     IN IF pending[t] = <<>>
        THEN /\ drains' = [drains EXCEPT ![t] = AfterDrain(d, TRUE, FALSE)]
             /\ UNCHANGED <<batch, pending>>
        ELSE /\ batch' = [batch EXCEPT ![t] = [pc |-> "next", turns |-> pending[t]]]
             /\ pending' = [pending EXCEPT ![t] = <<>>]
             /\ drains' = [drains EXCEPT ![t] = d]
  /\ UNCHANGED <<durable, space, queue, host, flushing, resume, past>>

\* Faulty variant: the rest of a failed batch goes behind the turns that came meanwhile.
GiveBackLast(t, ok) ==
  /\ pending' = [pending EXCEPT ![t] = @ \o batch[t].turns]
  /\ batch' = [batch EXCEPT ![t] = NoBatch]
  /\ drains' = [drains EXCEPT ![t] = AfterDrain(@, ok, TRUE)]

\* Faulty variant: the turn that failed counts as completed.
GiveBackWithoutFailed(t, ok) ==
  /\ pending' = [pending EXCEPT ![t] = Tail(batch[t].turns) \o @]
  /\ batch' = [batch EXCEPT ![t] = NoBatch]
  /\ drains' = [drains EXCEPT ![t] = AfterDrain(@, ok, pending'[t] # <<>>)]

\* A failed batch puts its unfinished turns back, ahead of those that came meanwhile.
\* After a conflict and a reload the drain itself has not failed (ok).
GiveBack(t, ok) ==
  /\ pending' = [pending EXCEPT ![t] = batch[t].turns \o @]
  /\ batch' = [batch EXCEPT ![t] = NoBatch]
  /\ drains' = [drains EXCEPT ![t] = AfterDrain(@, ok, TRUE)]

Turned(t, pc) == batch' = [batch EXCEPT ![t].pc = pc] /\ UNCHANGED <<pending, drains>>

\* On to the next turn of the batch, if there is one.
Completed(t) ==
  /\ IF Len(batch[t].turns) = 1
     THEN /\ batch' = [batch EXCEPT ![t] = NoBatch]
          /\ drains' = [drains EXCEPT ![t] = AfterDrain(@, TRUE, pending[t] # <<>>)]
     ELSE /\ batch' = [batch EXCEPT ![t] = [pc |-> "next", turns |-> Tail(@.turns)]]
          /\ UNCHANGED drains
  /\ UNCHANGED pending

Waits(t) == pending[t] # <<>>

\* One round of settleIngestion: every session with turns is drained now, and its timer
\* is cleared.
FlushRound(p) ==
  /\ \A t \in Sessions(p) : Waits(t) => Len(drains[t].calls) < MaxDrains
  /\ drains' = [t \in Thread |->
       IF t \in Sessions(p) /\ Waits(t)
       THEN [drains[t] EXCEPT !.timer = FALSE, !.calls = Append(@, "flush")] ELSE drains[t]]

Flush(p) ==
  /\ Flushes /\ ~flushing[p]
  /\ \E t \in Sessions(p) : Waits(t)
  /\ FlushRound(p)
  /\ flushing' = [flushing EXCEPT ![p] = TRUE]
  /\ UNCHANGED <<durable, space, queue, host, pending, batch, resume, past>>

\* All drains have ended: without an error a flush goes on until nothing waits, with
\* one it reports it and is over.
FlushSettled(p) ==
  /\ flushing[p] /\ \A t \in Sessions(p) : drains[t].calls = <<>>
  /\ LET more == /\ \A t \in Sessions(p) : ~drains[t].failed
                 /\ \E t \in Sessions(p) : Waits(t)
     IN IF more THEN FlushRound(p) /\ UNCHANGED flushing
        ELSE /\ flushing' = [flushing EXCEPT ![p] = FALSE]
             /\ drains' = [t \in Thread |->
                  IF t \in Sessions(p) THEN [drains[t] EXCEPT !.failed = FALSE] ELSE drains[t]]
  /\ UNCHANGED <<durable, space, queue, host, pending, batch, resume, past>>

\* appendTurn up to the mutation queue, once the namespace is open: the reservation is looked up here, and one
\* that does not match the turn is an error.
AppendTurn(t) ==
  /\ batch[t].pc = "next" /\ space[Home[t]] = "open"
  /\ LET p == Home[t]
         f == Head(batch[t].turns)
         held == Reserved(mem[p], t, f.turn)
     IN \/ /\ \E i \in held : mem[p].tail[t][i].parts # f.parts
           /\ GiveBack(t, FALSE) /\ UNCHANGED queue
        \/ /\ \A i \in held : mem[p].tail[t][i].parts = f.parts
           /\ Turned(t, "append")
           /\ queue' = [queue EXCEPT ![p] = Append(@,
                [kind |-> "append", thread |-> t, turn |-> f.turn, parts |-> f.parts,
                 reserved |-> held # {}])]
  /\ UNCHANGED <<durable, space, host, flushing, resume, past>>

\* appendTurn after a turn was stored: seal the thread when it is full.
SealAfterAppend(t) ==
  /\ batch[t].pc = "stored"
  /\ LET p == Home[t]
     IN \/ /\ ~Sealable(mem[p].tail[t])
           /\ Completed(t) /\ UNCHANGED queue
        \/ /\ Sealable(mem[p].tail[t]) /\ PendingBlock(mem[p].tail[t]) = <<>>
           /\ GiveBack(t, FALSE) /\ UNCHANGED queue
        \/ /\ Sealable(mem[p].tail[t]) /\ PendingBlock(mem[p].tail[t]) # <<>>
           /\ Turned(t, "seal")
           /\ queue' = [queue EXCEPT ![p] = Append(@,
                [kind |-> "seal", block |-> NextBlock(p, t), by |-> "drain"])]
  /\ UNCHANGED <<durable, space, host, flushing, resume, past>>

-----------------------------------------------------------------------------
(* The mutation queue *)

NextIs(p, kind) == queue[p] # <<>> /\ Head(queue[p]).kind = kind
Done(p) == queue' = [queue EXCEPT ![p] = Tail(@)]
DoneThen(p, op) == queue' = [queue EXCEPT ![p] = Append(Tail(@), op)]

\* A user message has one row, in the tail or in a Block.
Stored(s, t, n) == \E i \in DOMAIN History(s, t) :
  History(s, t)[i].role = "user" /\ History(s, t)[i].turn = n

\* reserveUserMessage.  A repeated reservation commits nothing new.
RunReserve(p) ==
  /\ NextIs(p, "reserve")
  /\ LET o == Head(queue[p])
         held == Reserved(mem[p], o.thread, o.turn)
         m == User(o.turn, o.parts, "asked")
     IN IF ~fresh[p] \/ \E i \in held : mem[p].tail[o.thread][i].parts # o.parts
        THEN Unsaved
        ELSE IF held # {} THEN Saved(p, mem[p])
        ELSE IF Stored(db, o.thread, o.turn) THEN Unsaved
        ELSE Saved(p, [mem[p] EXCEPT !.tail[o.thread] = Append(@, m)])
  /\ Done(p)
  /\ UNCHANGED <<space, host, draining, flushing, resume, past>>

\* Faulty variant: the receipt is not consulted.
KnownNever(p, o) == FALSE

Known(p, o) == <<o.thread, o.turn>> \in mem[p].receipts

\* The queued part of appendTurn.  A conflict makes the drain reload the namespace.
RunAppend(p) ==
  /\ NextIs(p, "append")
  /\ LET o == Head(queue[p])
         t == o.thread
     IN \/ /\ Known(p, o)
           /\ Unsaved /\ Completed(t) /\ Done(p)
        \/ /\ ~Known(p, o) /\ ~fresh[p]
           /\ Unsaved /\ Turned(t, "reload")
           /\ DoneThen(p, [kind |-> "reload", thread |-> t, by |-> "drain"])
        \/ /\ ~Known(p, o) /\ fresh[p] /\ ~o.reserved /\ Stored(db, t, o.turn)
           /\ Unsaved /\ GiveBack(t, FALSE) /\ Done(p)
        \/ /\ ~Known(p, o) /\ fresh[p] /\ (o.reserved \/ ~Stored(db, t, o.turn))
           /\ Saved(p, WithTurn(mem[p], t, o, o.reserved))
           /\ Turned(t, "stored") /\ Done(p)
  /\ UNCHANGED <<space, host, flushing, resume, past>>

\* The tail still starts with these messages, and no Block took the number meanwhile.
CanSeal(p, b) ==
  /\ PendingBlock(mem[p].tail[b.thread]) = b.raw
  /\ fresh[p]
  /\ \A i \in DOMAIN db.blocks : db.blocks[i].sequence # b.sequence

\* The queued part of sealOpenTail, for a drain or for resumed work.
RunSeal(p) ==
  /\ NextIs(p, "seal")
  /\ LET o == Head(queue[p])
         b == o.block
         t == b.thread
         stale == ~fresh[p] /\ PendingBlock(mem[p].tail[t]) = b.raw
     IN \/ /\ CanSeal(p, b)
           /\ Saved(p, WithBlock(mem[p], b)) /\ Done(p)
           /\ IF o.by = "drain" THEN Completed(t) /\ UNCHANGED resume
              ELSE resume' = [resume EXCEPT ![p] = "check"] /\ UNCHANGED draining
        \/ /\ ~CanSeal(p, b) /\ stale
           /\ Unsaved /\ DoneThen(p, [kind |-> "reload", thread |-> t, by |-> o.by])
           /\ IF o.by = "drain" THEN Turned(t, "reload") /\ UNCHANGED resume
              ELSE resume' = [resume EXCEPT ![p] = "reload"] /\ UNCHANGED draining
        \/ /\ ~CanSeal(p, b) /\ ~stale
           /\ Unsaved /\ Done(p)
           /\ IF o.by = "drain" THEN GiveBack(t, FALSE) /\ UNCHANGED resume
              ELSE resume' = [resume EXCEPT ![p] = "idle"] /\ UNCHANGED draining
  /\ UNCHANGED <<space, host, flushing, past>>

RunReload(p) ==
  /\ NextIs(p, "reload")
  /\ Loaded(p) /\ Done(p)
  /\ IF Head(queue[p]).by = "drain"
     THEN GiveBack(Head(queue[p]).thread, TRUE) /\ UNCHANGED resume
     ELSE resume' = [resume EXCEPT ![p] = "check"] /\ UNCHANGED draining
  /\ UNCHANGED <<space, host, flushing, past>>

-----------------------------------------------------------------------------
(* Opening the namespace, and background resumption *)

OpenSpace(p) ==
  /\ space[p] = "closed"
  /\ space' = [space EXCEPT ![p] = "opening"]
  /\ Loaded(p)
  /\ UNCHANGED <<queue, host, draining, flushing, resume, past>>

\* space() seals what it finds before anyone gets the instance.  When that fails the
\* instance is closed, and the drains that waited for it get an error.
SealOnOpen(p) ==
  /\ space[p] = "opening"
  /\ \E t \in Thread :
       /\ Sealable(mem[p].tail[t])
       /\ LET b == NextBlock(p, t)
              waiting(s) == Home[s] = p /\ batch[s].pc = "next"
          IN \/ /\ b.raw # <<>> /\ CanSeal(p, b)
                /\ Saved(p, WithBlock(mem[p], b))
                /\ UNCHANGED <<space, draining>>
             \/ /\ b.raw = <<>> \/ ~CanSeal(p, b)
                /\ Unsaved
                /\ space' = [space EXCEPT ![p] = "closed"]
                /\ batch' = [s \in Thread |-> IF waiting(s) THEN NoBatch ELSE batch[s]]
                /\ pending' = [s \in Thread |->
                     IF waiting(s) THEN batch[s].turns \o pending[s] ELSE pending[s]]
                /\ drains' = [s \in Thread |->
                     IF waiting(s) THEN AfterDrain(drains[s], FALSE, TRUE) ELSE drains[s]]
  /\ UNCHANGED <<queue, host, flushing, resume, past>>

Opened(p) ==
  /\ space[p] = "opening"
  /\ \A t \in Thread : ~Sealable(mem[p].tail[t])
  /\ space' = [space EXCEPT ![p] = "open"]
  /\ UNCHANGED <<durable, queue, host, draining, flushing, resume, past>>

\* The worker reloads a copy that is behind; a derivation timer does not look.
ResumeBegin(p) ==
  /\ space[p] = "open" /\ resume[p] = "idle"
  /\ \/ /\ ~fresh[p]
        /\ resume' = [resume EXCEPT ![p] = "reload"]
        /\ queue' = [queue EXCEPT ![p] = Append(@,
             [kind |-> "reload", thread |-> CHOOSE t \in Thread : TRUE, by |-> "resume"])]
     \/ /\ \E t \in Thread : Sealable(mem[p].tail[t])
        /\ resume' = [resume EXCEPT ![p] = "check"]
        /\ UNCHANGED queue
  /\ UNCHANGED <<durable, space, host, draining, flushing, past>>

\* Faulty variant: resumption goes straight to the jobs.
ResumeWithoutSealing(p) ==
  /\ resume[p] = "check"
  /\ resume' = [resume EXCEPT ![p] = "idle"]
  /\ UNCHANGED <<durable, space, queue, host, draining, flushing, past>>

\* resumePendingWork seals thread after thread until none is full.
ResumeSeal(p) ==
  /\ resume[p] = "check"
  /\ \/ /\ \A t \in Thread : ~Sealable(mem[p].tail[t])
        /\ resume' = [resume EXCEPT ![p] = "idle"]
        /\ UNCHANGED queue
     \/ \E t \in Thread :
          /\ Sealable(mem[p].tail[t])
          /\ IF PendingBlock(mem[p].tail[t]) = <<>>
             THEN resume' = [resume EXCEPT ![p] = "idle"] /\ UNCHANGED queue
             ELSE /\ resume' = [resume EXCEPT ![p] = "seal"]
                  /\ queue' = [queue EXCEPT ![p] = Append(@,
                       [kind |-> "seal", block |-> NextBlock(p, t), by |-> "resume"])]
  /\ UNCHANGED <<durable, space, host, draining, flushing, past>>

\* The process dies and starts again: what it only had in memory is gone, and its
\* sessions go on with new turns.
Restart(p) ==
  /\ crashes < MaxCrash
  /\ crashes' = crashes + 1
  /\ fresh' = [fresh EXCEPT ![p] = FALSE]
  /\ mem' = [mem EXCEPT ![p] = EmptyStore]
  /\ space' = [space EXCEPT ![p] = "closed"]
  /\ queue' = [queue EXCEPT ![p] = <<>>]
  /\ resume' = [resume EXCEPT ![p] = "idle"]
  /\ host' = [t \in Thread |->
       IF Home[t] = p THEN [host[t] EXCEPT !.open = FALSE, !.parts = 0] ELSE host[t]]
  /\ pending' = [t \in Thread |-> IF Home[t] = p THEN <<>> ELSE pending[t]]
  /\ batch' = [t \in Thread |-> IF Home[t] = p THEN NoBatch ELSE batch[t]]
  /\ drains' = [t \in Thread |-> IF Home[t] = p THEN NoDrains ELSE drains[t]]
  /\ flushing' = [flushing EXCEPT ![p] = FALSE]
  /\ lost' = lost \cup
       {x \in UNION {{t} \X (1..MaxTurn[t]) : t \in Sessions(p)} : Held(x[1], x[2]) /\ x \notin db.receipts}
  /\ UNCHANGED <<db, log>>

-----------------------------------------------------------------------------
(* The system *)

SessionStep(t) == StartTurn(t) \/ Say(t) \/ EndTurn(t) \/ Remember(t)
DrainStep(t) == DrainBegin(t) \/ AppendTurn(t) \/ SealAfterAppend(t)
QueueStep(p) == RunReserve(p) \/ RunAppend(p) \/ RunSeal(p) \/ RunReload(p)
SpaceStep(p) == OpenSpace(p) \/ SealOnOpen(p) \/ Opened(p)
FlushStep(p) == Flush(p) \/ FlushSettled(p)
ResumeStep(p) == ResumeBegin(p) \/ ResumeSeal(p)

Next ==
  \/ \E t \in Thread : SessionStep(t) \/ DrainStep(t)
  \/ \E p \in Proc : QueueStep(p) \/ SpaceStep(p) \/ ResumeStep(p) \/ FlushStep(p) \/ Restart(p)

Spec == Init /\ [][Next]_vars

\* Timers that are set fire, drains and flushes that were started go on, the queue runs
\* what is in it, and the worker looks at the namespace again and again.  Nothing makes a
\* user act, a session end or a caller flush.
Fairness ==
  /\ \A t \in Thread : WF_vars(DrainStep(t))
  /\ \A p \in Proc : WF_vars(QueueStep(p)) /\ WF_vars(SpaceStep(p)) /\ WF_vars(ResumeStep(p))
                      /\ WF_vars(FlushSettled(p))

FairSpec == Spec /\ Fairness

-----------------------------------------------------------------------------
(* Safety *)

\* A finished turn is stored, or its process still holds it and will try again; only
\* a restart may drop it.
NoTurnIsDropped ==
  \A t \in Thread : \A n \in ToSet(log[t]) :
    \/ <<t, n>> \in db.receipts \cup lost
    \/ Held(t, n)

\* A thread's history in parts: the Blocks as they were sealed, those of other threads
\* left empty, and behind them the open tail.
Parts(s) == Len(s.blocks) + 1
Part(s, t, k) ==
  IF k = Parts(s) THEN s.tail[t]
  ELSE IF s.blocks[k].thread = t THEN s.blocks[k].raw ELSE <<>>

InOrder(s, t) ==
  \A k, l \in 1..Parts(s) : \A i \in DOMAIN Part(s, t, k), j \in DOMAIN Part(s, t, l) :
    k < l \/ (k = l /\ i < j) => Part(s, t, k)[i].turn <= Part(s, t, l)[j].turn

\* What a thread has said is kept in the order in which its turns ended, also when
\* a failed batch is retried (the comment on drain, runtime.ts:1039).
StoredInOrder == \A t \in Thread : InOrder(db, t)

-----------------------------------------------------------------------------
(* Refinement: the complete turns of the tail and of the Blocks are a turn log *)

StoredTurns(s) ==
  LET replies == SelectSeq(s, LAMBDA m : m.role = "assistant")
  IN [i \in DOMAIN replies |-> replies[i].turn]

TurnLog == INSTANCE TurnLog WITH
  open <- [t \in Thread |-> StoredTurns(db.tail[t])],
  sealed <- [t \in Thread |-> StoredTurns(Sealed(db, t))]

\* Storing a turn, in whatever way, adds one complete turn to the thread, and sealing
\* moves its N oldest complete turns into a Block, for good.
ImplementsTurnLog == TurnLog!Spec

-----------------------------------------------------------------------------
(* Liveness *)

\* Every finished turn is stored, unless a restart drops it.
FinishedTurnsAreStored ==
  \A t \in Thread : \A n \in 1..MaxTurn[t] : Held(t, n) ~> <<t, n>> \in db.receipts \cup lost

\* ... and does not stay in a full Block that nobody seals, also when the seal that
\* should have followed the append was lost to a conflict.
FinishedTurnsAreSealed ==
  \A t \in Thread : \A n \in 1..MaxTurn[t] :
    Held(t, n) ~> <<t, n>> \in db.receipts \cup lost /\ ~Sealable(db.tail[t])
=============================================================================
