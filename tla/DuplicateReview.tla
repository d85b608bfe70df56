--------------------------- MODULE DuplicateReview ---------------------------
(***************************************************************************)
(* The journal of possible duplicates (src/src/event-duplicate-             *)
(* maintenance.ts) beside the cards themselves: each choice is one          *)
(* transaction of the namespace between two saves of the journal, a table   *)
(* of its own whose writers take a lease. A maintenance tick pays for at    *)
(* most two opinions on a pair; a person decides, takes over and undoes.    *)
(* Whatever dies between the saves, the next tick completes the record.     *)
(***************************************************************************)
EXTENDS EventPool, SequencesExt

CONSTANTS
  Deaths,    \* bound: processes that die with a lease
  Rescans,   \* bound: scans a person asks for
  Writes     \* bound: other writes of the namespace

ASSUME ReviewAssumption == Deaths \in Nat /\ Rescans \in Nat /\ Writes \in Nat

VARIABLES
  journal,   \* [pairs, cursor, status], or no journal yet
  lease,     \* who may save the journal
  work,      \* actor -> the step of its operation it has reached
  died, scans

reviewVars == <<journal, lease, work, died, scans>>
restOfPool == <<born, deciding, undoable, turns, revived, seen, strays>>

Actor == {"user", "worker"}
NoJournal == [pairs |-> <<>>, cursor |-> 1, status |-> "none"]
NoIntent == [mode |-> "none", keep |-> None, actor |-> "none"]
NoUndo == [has |-> FALSE, data |-> [before |-> <<>>, after |-> <<>>], pending |-> FALSE]
PairOf(l, r) == [l |-> l, r |-> r, fl |-> Fingerprint(l), fr |-> Fingerprint(r), outcome |-> "none",
                 keep |-> None, attempts |-> 0, reviewed |-> FALSE, ai |-> FALSE, reopened |-> FALSE,
                 intent |-> NoIntent, undo |-> NoUndo]
\* The pairs a scan of the live cards proposes; every two of them are similar enough here.
Proposed == {x \in CardId \X CardId : x[1] < x[2] /\ Live(x[1]) /\ Live(x[2])}
Precedes(x, y) == x[2] < y[2] \/ (x[2] = y[2] /\ x[1] < y[1])
Scan(skip) ==
  LET found == CHOOSE s \in SetToSeqs(Proposed \ skip) : \A i, j \in DOMAIN s : i < j => Precedes(s[i], s[j])
  IN [i \in 1..Len(found) |-> PairOf(found[i][1], found[i][2])]
Ids(p) == <<p.l, p.r>>
Range2(s) == {Ids(s[i]) : i \in DOMAIN s}

Rest == [pc |-> "rest", at |-> 0, after |-> <<>>]
Step(pc, i) == [pc |-> pc, at |-> i, after |-> <<>>]
Pair(i) == journal.pairs[i]
Other(p, keep) == IF keep = p.l THEN p.r ELSE p.l
Fresh(p) == p.l \in Stored /\ p.r \in Stored /\ Fingerprint(p.l) = p.fl /\ Fingerprint(p.r) = p.fr

\* The card a pair's other one was archived for.
JoinedInto(o, k) ==
  /\ o \in Stored /\ k \in Stored /\ cards[o].status = "archived"
  /\ o \in cards[k].merged \/ (cards[o].by = k /\ ~\E e \in Stored \ {k} : o \in cards[e].merged)
JoinedPair(p) == JoinedInto(p.l, p.r) \/ JoinedInto(p.r, p.l)

\* Saves are fenced by the lease; a pair that is done lets the cursor pass.
Holding(a) == lease = a
SetPair(i, p) == [journal EXCEPT !.pairs[i] = p]
Handled(p) == p.reviewed \/ p.outcome = "merged"
Advanced(j) ==
  LET open == {i \in j.cursor..Len(j.pairs) : ~Handled(j.pairs[i])}
      next == IF open = {} THEN Len(j.pairs) + 1 ELSE CHOOSE i \in open : \A k \in open : i <= k
  IN [j EXCEPT !.cursor = next, !.status = IF next > Len(j.pairs) THEN "completed" ELSE @]
Past(j) == [j EXCEPT !.cursor = @ + 1, !.status = IF j.cursor >= Len(j.pairs) THEN "completed" ELSE "pending"]
Release(a) == /\ lease' = (IF Holding(a) THEN "free" ELSE lease) /\ work' = [work EXCEPT ![a] = Rest]
Quiet == UNCHANGED <<died, scans>>

-----------------------------------------------------------------------------
(* A choice: intent, inverse, cards, outcome *)

\* What a page offers a choice about: both cards, and neither stands for the other.
Offered(p) == p.l \in Stored /\ p.r \in Stored /\ p.outcome \in {"kept", "failed"} /\ ~JoinedPair(p)

\* A person chooses with the two cards as they are now on the screen.
Resolve(i, mode, keep) ==
  /\ work["user"] = Rest /\ lease = "free" /\ i \in DOMAIN journal.pairs
  /\ LET p == Pair(i) IN
       /\ Offered(p) /\ keep \in {p.l, p.r}
       /\ mode = "manual" => ManualMergeable(keep, Other(p, keep))
       /\ journal' = [SetPair(i, [p EXCEPT !.fl = Fingerprint(p.l), !.fr = Fingerprint(p.r),
                                    !.intent = [mode |-> mode, keep |-> keep, actor |-> "user"]])
                      EXCEPT !.status = "pending"]
  /\ lease' = "user" /\ work' = [work EXCEPT !["user"] = Step("review", i)]
  /\ UNCHANGED <<cards, restOfPool>> /\ Quiet

KeepBoth(i) ==
  /\ work["user"] = Rest /\ lease = "free" /\ i \in DOMAIN journal.pairs
  /\ Offered(Pair(i))
  /\ journal' = Advanced(SetPair(i, [Pair(i) EXCEPT !.outcome = "kept", !.keep = None, !.reviewed = TRUE,
                    !.reopened = FALSE, !.ai = FALSE, !.intent = NoIntent, !.undo = [NoUndo EXCEPT !.has = TRUE]]))
  /\ UNCHANGED <<cards, restOfPool, lease, work>> /\ Quiet

\* Inside the core transaction the inverse is saved first.
Prepare(a) ==
  /\ work[a].pc = "review" /\ Holding(a)
  /\ LET i == work[a].at
         p == Pair(i)
         k == p.intent.keep
         d == Other(p, k)
         ok == Fresh(p) /\ Reviewable(p.intent.mode, k, d)
         after == Reviewed(p.intent.mode, k, d)
     IN \/ /\ ok
           /\ journal' = SetPair(i, [p EXCEPT !.undo = [has |-> TRUE, data |-> InverseOf(after), pending |-> FALSE]])
           /\ work' = [work EXCEPT ![a] = [Step("commit", i) EXCEPT !.after = after]] /\ UNCHANGED lease
        \/ /\ ~ok    \* refused: the record is as it was, or the worker keeps both
           /\ journal' = IF a = "user" THEN SetPair(i, [p EXCEPT !.intent = NoIntent])
                         ELSE Past(SetPair(i, [p EXCEPT !.intent = NoIntent, !.outcome = "kept"]))
           /\ Release(a)
  /\ UNCHANGED <<cards, restOfPool>> /\ Quiet

\* The transaction commits, unless another writer of the namespace was first.
CommitReview(a) ==
  /\ work[a].pc = "commit"
  /\ LET u == Pair(work[a].at).undo.data
     IN IF Holds(u.before) /\ Stored = DOMAIN work[a].after
        THEN cards' = work[a].after /\ work' = [work EXCEPT ![a] = Step("record", @.at)] /\ UNCHANGED lease
        ELSE UNCHANGED cards /\ Release(a)
  /\ UNCHANGED <<restOfPool, journal>> /\ Quiet

RecordChoice(a) ==
  /\ work[a].pc = "record" /\ Holding(a)
  /\ LET i == work[a].at  p == Pair(i)
         q == [p EXCEPT !.intent = NoIntent, !.outcome = IF p.intent.mode = "select" THEN "selected" ELSE "merged",
                        !.keep = p.intent.keep, !.reviewed = (a = "user"), !.ai = (a = "worker"),
                        !.reopened = FALSE]
     IN journal' = IF a = "user" THEN Advanced(SetPair(i, q)) ELSE Past(SetPair(i, q))
  /\ Release(a) /\ UNCHANGED <<cards, restOfPool>> /\ Quiet

\* Faulty variant: an intent still there is taken for a choice that never happened.
CommittedIntentNever(p) == FALSE

\* What the next tick makes of an intent nobody finished, from the cards alone.
CommittedIntent(p) ==
  LET k == p.intent.keep
      o == Other(p, k)
      mine == o \in DOMAIN p.undo.data.after /\ o \in Stored
              /\ [p.undo.data.after[o] EXCEPT !.pinned = FALSE, !.edit = 0] = Fingerprint(o)
  IN /\ Active(k) /\ o \in Stored /\ cards[o].status = "archived"
     /\ cards[o].by = k \/ (p.intent.mode = "select" /\ mine) \/ (p.intent.mode # "select" /\ o \in cards[k].merged)
     /\ (o \in cards[k].merged) <=> (p.intent.mode # "select")
RecoveredChoice(p) ==
  IF p.intent = NoIntent THEN p
  ELSE IF CommittedIntent(p)
       THEN [p EXCEPT !.intent = NoIntent, !.outcome = IF p.intent.mode = "select" THEN "selected" ELSE "merged",
                      !.keep = p.intent.keep, !.reviewed = (p.intent.actor = "user"), !.ai = (p.intent.actor = "worker")]
       ELSE [p EXCEPT !.intent = NoIntent, !.outcome = "kept", !.reviewed = FALSE, !.ai = FALSE,
                      !.keep = None, !.undo = NoUndo]
RecoverChoices ==
  /\ lease = "free" /\ work["worker"] = Rest
  /\ \E i \in DOMAIN journal.pairs : Pair(i).intent # NoIntent
  /\ LET pairs == [i \in DOMAIN journal.pairs |-> RecoveredChoice(Pair(i))]
         open == {i \in DOMAIN pairs : pairs[i].outcome = "none" /\ ~pairs[i].reviewed}
         next == IF open = {} THEN Len(pairs) + 1 ELSE CHOOSE i \in open : \A k \in open : i <= k
     IN journal' = [pairs |-> pairs, cursor |-> next, status |-> IF open = {} THEN "completed" ELSE "pending"]
  /\ UNCHANGED <<cards, restOfPool, lease, work>> /\ Quiet

-----------------------------------------------------------------------------
(* The maintenance tick *)

FirstScan ==
  /\ journal = NoJournal
  /\ journal' = [pairs |-> Scan({}), cursor |-> 1, status |-> "pending"]
  /\ UNCHANGED <<cards, restOfPool, lease, work>> /\ Quiet

\* New cards reopen a finished journal.
ScanAdditions ==
  /\ journal.status = "completed" /\ lease = "free" /\ Scan(Range2(journal.pairs)) # <<>>
  /\ journal' = [journal EXCEPT !.pairs = @ \o Scan(Range2(journal.pairs)), !.status = "pending"]
  /\ UNCHANGED <<cards, restOfPool, lease, work>> /\ Quiet

Settled(p) == p.reviewed \/ p.ai \/ p.reopened \/ p.outcome = "merged"
Decidable(p) ==
  /\ Fresh(p) /\ Active(p.l) /\ Active(p.r) /\ ~(cards[p.l].pinned /\ cards[p.r].pinned)

\* The attempt is paid for, and saved, before the call.
Reserved(p) == [p EXCEPT !.attempts = @ + 1]

\* One comparison: passed over, found done, found impossible, or put to the model.
Compare ==
  /\ work["worker"] = Rest /\ lease = "free" /\ journal.status = "pending"
  /\ \A i \in DOMAIN journal.pairs : Pair(i).intent = NoIntent
  /\ UNCHANGED <<cards, restOfPool, died, scans>>
  /\ IF journal.cursor > Len(journal.pairs)
     THEN journal' = [journal EXCEPT !.status = "completed"] /\ UNCHANGED <<lease, work>>
     ELSE LET i == journal.cursor
              p == Pair(i) IN
       \/ Settled(p) /\ journal' = [journal EXCEPT !.cursor = @ + 1] /\ UNCHANGED <<lease, work>>
       \/ /\ ~Settled(p) /\ JoinedPair(p)
          /\ LET k == IF cards[p.l].status = "archived" THEN p.r ELSE p.l
                 merged == Other(p, k) \in cards[k].merged
             IN journal' = Past(SetPair(i, [p EXCEPT !.keep = k, !.outcome = IF merged THEN "merged" ELSE "selected",
                                              !.reviewed = @ \/ ~merged]))
          /\ UNCHANGED <<lease, work>>
       \/ /\ ~Settled(p) /\ ~JoinedPair(p) /\ ~Decidable(p)
          /\ journal' = Past(SetPair(i, [p EXCEPT !.outcome = "kept"])) /\ UNCHANGED <<lease, work>>
       \/ /\ ~Settled(p) /\ ~JoinedPair(p) /\ Decidable(p) /\ p.attempts >= 2
          /\ journal' = Past(SetPair(i, [p EXCEPT !.outcome = "failed"])) /\ UNCHANGED <<lease, work>>
       \/ /\ ~Settled(p) /\ ~JoinedPair(p) /\ Decidable(p) /\ p.attempts < 2
          /\ journal' = SetPair(i, Reserved(p))
          /\ lease' = "worker" /\ work' = [work EXCEPT !["worker"] = Step("model", i)]

\* The opinion: an error, "keep both", doubt, or a card to keep with a draft.
Opinion ==
  /\ work["worker"].pc = "model" /\ UNCHANGED <<cards, restOfPool>> /\ Quiet
  /\ IF ~Holding("worker") THEN Release("worker") /\ UNCHANGED journal
     ELSE LET i == work["worker"].at
              p == Pair(i) IN
       \/ /\ journal' = IF p.attempts < 2 THEN journal ELSE Past(SetPair(i, [p EXCEPT !.outcome = "failed"]))
          /\ Release("worker")
       \/ /\ \E sure \in BOOLEAN : journal' = Past(SetPair(i, [p EXCEPT !.outcome = "kept", !.ai = sure]))
          /\ Release("worker")
       \/ \E k \in {p.l, p.r} :
            /\ journal' = SetPair(i, [p EXCEPT !.intent = [mode |-> "auto", keep |-> k, actor |-> "worker"]])
            /\ work' = [work EXCEPT !["worker"] = Step("review", i)] /\ UNCHANGED lease

-----------------------------------------------------------------------------
(* Taking over, undoing, scanning again, dying *)

TakeOver(i) ==
  /\ work["user"] = Rest /\ lease = "free" /\ i \in DOMAIN journal.pairs
  /\ Pair(i).outcome \notin {"merged", "selected"} /\ Pair(i).l \in Stored /\ Pair(i).r \in Stored
  /\ ~JoinedPair(Pair(i))
  /\ journal' = SetPair(i, [Pair(i) EXCEPT !.outcome = "kept", !.ai = FALSE, !.reviewed = FALSE, !.reopened = TRUE,
                              !.fl = Fingerprint(Pair(i).l), !.fr = Fingerprint(Pair(i).r)])
  /\ UNCHANGED <<cards, restOfPool, lease, work>> /\ Quiet

\* A person undoes, or a tick goes on with an undo that was cut off.
BeginUndo(a, i) ==
  /\ work[a] = Rest /\ lease = "free" /\ i \in DOMAIN journal.pairs /\ Pair(i).undo.has
  /\ a = "worker" => Pair(i).undo.pending
  /\ journal' = SetPair(i, [Pair(i) EXCEPT !.undo.pending = TRUE])
  /\ lease' = a /\ work' = [work EXCEPT ![a] = Step("restore", i)]
  /\ UNCHANGED <<cards, restOfPool>> /\ Quiet

RestoreCards(a) ==
  /\ work[a].pc = "restore" /\ UNCHANGED restOfPool /\ Quiet
  /\ LET i == work[a].at
         u == Pair(i).undo.data
         go == work' = [work EXCEPT ![a] = Step("reopen", i)] /\ UNCHANGED <<journal, lease>>
     IN \/ Holds(u.before) /\ UNCHANGED cards /\ go    \* nothing to do, or already done
        \/ ~Holds(u.before) /\ Holds(u.after) /\ cards' = Undone(u) /\ go
        \/ /\ ~Holds(u.before)    \* the cards, or what was derived from them, moved on
           /\ journal' = SetPair(i, [Pair(i) EXCEPT !.undo.pending = FALSE])
           /\ Release(a) /\ UNCHANGED cards

Reopen(a) ==
  /\ work[a].pc = "reopen" /\ Holding(a)
  /\ journal' = SetPair(work[a].at, [Pair(work[a].at) EXCEPT !.outcome = "kept", !.reviewed = FALSE, !.ai = FALSE,
                                       !.reopened = TRUE, !.intent = NoIntent, !.undo = NoUndo])
  /\ Release(a) /\ UNCHANGED <<cards, restOfPool>> /\ Quiet

\* Inverses of pairs the new scan does not propose are kept, in their order.
Rescan ==
  /\ scans < Rescans /\ scans' = scans + 1 /\ work["user"] = Rest /\ lease = "free" /\ journal # NoJournal
  /\ LET found == Scan({})
         keeps == {i \in DOMAIN journal.pairs : Pair(i).undo.has /\ Ids(Pair(i)) \notin Range2(found)}
         kept == [n \in 1..Cardinality(keeps) |-> Pair(CHOOSE i \in keeps : Cardinality({j \in keeps : j <= i}) = n)]
         pairs == found \o kept
     IN journal' = [pairs |-> pairs, cursor |-> 1, status |-> IF pairs = <<>> THEN "completed" ELSE "pending"]
  /\ UNCHANGED <<cards, restOfPool, lease, work, died>>

\* The process of an actor dies. Its lease stays until it is over.
ActorDies(a) ==
  /\ died < Deaths /\ died' = died + 1 /\ work[a] # Rest
  /\ work' = [work EXCEPT ![a] = Rest]
  /\ UNCHANGED <<cards, restOfPool, journal, lease, scans>>

\* A lease ends under a holder that is gone, or that has waited too long for the model.
LeaseEnds ==
  /\ lease # "free" /\ (work[lease] = Rest \/ work[lease].pc = "model") /\ lease' = "free"
  /\ UNCHANGED <<cards, restOfPool, journal, work>> /\ Quiet

\* The user's own edits of a card.
OtherWrite ==
  /\ turns < Writes /\ \E e \in CardId : Pin(e) \/ ForgetEvent(e) \/ RestoreEvent(e)
  /\ UNCHANGED reviewVars

-----------------------------------------------------------------------------

\* Two current cards, one of them forgotten, or a history version and its successor.
ReviewInit ==
  /\ NothingYet
  /\ \E fact \in [1..FirstCards -> Fact] :
       LET pool == FirstPool(fact)
       IN cards \in {pool, [pool EXCEPT ![1].status = "forgotten"],
                   [pool EXCEPT ![1].status = "superseded", ![1].by = 2, ![2].supersedes = {1}]}
  /\ journal = NoJournal /\ lease = "free" /\ work = [a \in Actor |-> Rest]
  /\ died = 0 /\ scans = 0

ReviewNext ==
  \/ \E i \in 1..Len(journal.pairs), mode \in {"manual", "select"}, k \in CardId : Resolve(i, mode, k)
  \/ \E i \in 1..Len(journal.pairs) : KeepBoth(i) \/ TakeOver(i) \/ BeginUndo("user", i) \/ BeginUndo("worker", i)
  \/ \E a \in Actor : Prepare(a) \/ CommitReview(a) \/ RecordChoice(a) \/ RestoreCards(a) \/ Reopen(a) \/ ActorDies(a)
  \/ RecoverChoices \/ FirstScan \/ ScanAdditions \/ Compare \/ Opinion \/ Rescan \/ LeaseEnds \/ OtherWrite

ReviewTypeOK ==
  /\ PoolTypeOK /\ lease \in Actor \cup {"free"} /\ journal.status \in {"none", "pending", "completed"}
  /\ \A a \in Actor : work[a].pc \in {"rest", "review", "commit", "record", "model", "restore", "reopen"}
  /\ \A i \in DOMAIN journal.pairs :
       /\ Pair(i).outcome \in {"none", "merged", "selected", "kept", "failed"} /\ Pair(i).attempts \in 0..2

\* The journal and the cards are saved apart. Once no operation is open, and as long as nothing
\* else wrote the cards, the journal calls a pair handled exactly when one card stands for the
\* other, and it holds the inverse: no committed choice is lost or reported undone.
AtRest ==
  /\ lease = "free" /\ \A a \in Actor : work[a] = Rest
  /\ \A i \in DOMAIN journal.pairs : Pair(i).intent = NoIntent /\ ~Pair(i).undo.pending
JournalIsTrue ==
  AtRest /\ turns = 0 =>
    \A i \in DOMAIN journal.pairs :
      LET handled == Pair(i).outcome \in {"merged", "selected"}
      IN handled = JoinedPair(Pair(i)) /\ (handled => Pair(i).undo.has)

ReviewSpec == ReviewInit /\ [][ReviewNext]_<<poolVars, reviewVars>>
=============================================================================
