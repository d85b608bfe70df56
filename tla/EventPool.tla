------------------------------- MODULE EventPool -------------------------------
(***************************************************************************)
(* The pool of Event cards of one namespace (packages/core/src/store.ts):   *)
(* what stores, replaces, forgets, restores, merges, selects, imports and   *)
(* undoes do to the cards and to the links between them. Every operation    *)
(* is one storage transaction. A card's text, times and weights are left    *)
(* out: of its chronology the links of replacement and conflict are kept.   *)
(***************************************************************************)
EXTENDS Integers, FiniteSets, Functions

CONSTANTS
  MaxCards,    \* cards ever stored; an id is never used again
  FirstCards,  \* cards there are at the start
  MaxTurns,    \* bound: user operations a behaviour has
  Fact         \* what a card may say

ASSUME PoolAssumption ==
  /\ MaxCards \in Nat /\ FirstCards \in 1..MaxCards /\ MaxTurns \in Nat /\ IsFiniteSet(Fact)

VARIABLES
  cards,     \* id -> card, for the cards stored now
  born,      \* cards stored so far
  deciding,  \* agent recordings out with the model: [fact, matched]
  undoable,  \* inverses of reviews, as the host's journal keeps them
  turns,     \* user operations so far
  revived,   \* history: merged originals an import or its undo has brought back
  seen,      \* history: the stored cards an undone import has found, each time
  strays     \* history: cards a late decision has named as replaced, or as in conflict, after
             \* their import was undone

poolVars == <<cards, born, deciding, undoable, turns, revived, seen, strays>>

CardId == 1..MaxCards
None == 0
Status == {"active", "superseded", "archived", "forgotten"}
Card == [status : Status, by : CardId \cup {None}, supersedes : SUBSET CardId,
         conflicts : SUBSET CardId, merged : SUBSET CardId, source : CardId \cup {None},
         pinned : BOOLEAN, fact : Fact, agent : BOOLEAN, edit : 0..(MaxTurns + 1)]
IsPool(p) == DOMAIN p \subseteq CardId /\ \A e \in DOMAIN p : p[e] \in Card

Stored == DOMAIN cards
Live(e) == e \in Stored /\ cards[e].status \in {"active", "superseded"}
Active(e) == e \in Stored /\ cards[e].status = "active"
\* e is the archived original of another card, which speaks for it
MergedElsewhere(e) == \E k \in Stored \ {e} : e \in cards[k].merged

\* The card and its updatedAt; a fingerprint leaves out what only use and pinning change.
Touched(c) == [c EXCEPT !.edit = turns + 1]
Fingerprint(e) == [cards[e] EXCEPT !.pinned = FALSE, !.edit = 0]

NewCard(fact, source, sup, con, agent) ==
  [status |-> "active", by |-> None, supersedes |-> sup, conflicts |-> con, merged |-> {},
   source |-> source, pinned |-> FALSE, fact |-> fact, agent |-> agent, edit |-> turns + 1]

\* The pool once card k is stored: the cards it replaces point to it, whatever their status
\* was, and the cards in `marked` carry its conflict.
With(k, c, marked) ==
  [e \in Stored \cup {k} |->
     IF e = k THEN c
     ELSE LET old == cards[e]
              replaced == IF e \in c.supersedes
                          THEN [Touched(old) EXCEPT !.status = "superseded", !.by = k] ELSE old
          IN IF e \in marked THEN [Touched(replaced) EXCEPT !.conflicts = @ \cup {k}] ELSE replaced]

\* Merged originals that speak for themselves.
Doubled == {e \in Stored : MergedElsewhere(e) /\ cards[e].status # "archived"}

Spend == turns < MaxTurns /\ turns' = turns + 1
Room == born < MaxCards
Store(c, marked) == /\ born' = born + 1 /\ cards' = With(born + 1, c, marked)

\* A decision names cards, and of those some are gone.
StraysWith(sup, con) ==
  [supersedes |-> strays.supersedes \cup (sup \ Stored), conflicts |-> strays.conflicts \cup (con \ Stored)]

-----------------------------------------------------------------------------
(* The user's own operations *)

Pin(e) ==
  /\ Spend /\ e \in Stored
  /\ cards' = [cards EXCEPT ![e] = [Touched(@) EXCEPT !.pinned = ~cards[e].pinned]]
  /\ UNCHANGED <<born, deciding, undoable, revived, seen, strays>>

SetStatus(e, status) ==
  /\ Spend /\ e \in Stored /\ ~MergedElsewhere(e)
  /\ cards' = [cards EXCEPT ![e] = [Touched(@) EXCEPT !.status = status]]
  /\ UNCHANGED <<born, deciding, undoable, revived, seen, strays>>

ForgetEvent(e) == SetStatus(e, "forgotten")
RestoreEvent(e) == SetStatus(e, "active")    \* the link to a successor stays

-----------------------------------------------------------------------------
(* Facts an agent records: gate, adjudication, gate again *)

SameFact(f) == {e \in Stored : Active(e) /\ cards[e].fact = f}

\* The gate: a card with the same text is reinforced, a fact nothing resembles is written, an
\* ambiguous one goes to the model with the cards it resembles.
RecordAgentEvent(f) ==
  /\ Spend /\ Cardinality(deciding) = 0
  /\ UNCHANGED <<undoable, revived, seen, strays>>
  /\ \/ \E e \in SameFact(f) : /\ cards' = [cards EXCEPT ![e] = Touched(@)]
                               /\ UNCHANGED <<born, deciding>>
     \/ /\ SameFact(f) = {} /\ Room
        /\ Store(NewCard(f, None, {}, {}, TRUE), {}) /\ UNCHANGED deciding
     \/ /\ SameFact(f) = {}
        /\ \E m \in SUBSET {e \in Stored : Live(e)} :
             m # {} /\ deciding' = {[fact |-> f, matched |-> m]}
        /\ UNCHANGED <<cards, born>>

\* Faulty variant: a target is only looked up when the model is asked.
MayReplaceMatched(targets) == targets # {}

\* Whether the decision may replace the cards it names: they are current ones, still.
MayReplace(targets) == targets # {} /\ \A e \in targets : Active(e)

\* The decision, or none; what it may not replace becomes a conflict, a card that is gone too.
Adjudicated(d) ==
  /\ d \in deciding /\ deciding' = deciding \ {d} /\ UNCHANGED <<undoable, turns, revived, seen>>
  /\ \/ \E e \in SameFact(d.fact) : cards' = [cards EXCEPT ![e] = Touched(@)] /\ UNCHANGED <<born, strays>>
     \/ SameFact(d.fact) = {} /\ UNCHANGED <<cards, born, strays>>      \* IGNORE
     \/ /\ SameFact(d.fact) = {} /\ Room
        /\ \E targets \in SUBSET d.matched :
             \/ Store(NewCard(d.fact, None, {}, {}, TRUE), {}) /\ UNCHANGED strays
             \/ /\ MayReplace(targets) /\ UNCHANGED strays
                /\ Store(NewCard(d.fact, None, targets, {}, TRUE), targets)
             \/ /\ Store(NewCard(d.fact, None, {}, targets, TRUE), targets)
                /\ strays' = StraysWith({}, targets)

-----------------------------------------------------------------------------
(* Duplicate reviews *)

\* "k stays, d goes": the other card is archived, the contents are not mixed.
Selectable(k, d) ==
  /\ Live(k) /\ Live(d) /\ ~cards[d].pinned /\ ~MergedElsewhere(d)
Selected(k, d) ==
  [cards EXCEPT ![k] = [Touched(@) EXCEPT !.status = "active", !.by = None],
                ![d] = [Touched(@) EXCEPT !.status = "archived",
                                          !.by = IF cards[d].by = None THEN k ELSE cards[d].by]]

\* Chronology among the cards that count: what is replaced comes before what replaces it.
Counted == {e \in Stored : cards[e].status \notin {"archived", "forgotten"}}
Successors(S) == {e \in Counted : cards[e].supersedes \cap S # {}}
LaterCards(e) ==
  LET grow[n \in 0..MaxCards] ==
        IF n = 0 THEN Successors({e}) ELSE grow[n - 1] \cup Successors(grow[n - 1])
  IN grow[MaxCards]

\* A merge the maintenance may make by itself, and one a user confirms with a draft.
AutoMergeable(k, d) ==
  /\ Active(k) /\ Active(d) /\ ~cards[d].pinned
  /\ k \notin LaterCards(d) /\ d \notin LaterCards(k) /\ d \notin cards[k].conflicts /\ k \notin cards[d].conflicts
ManualMergeable(k, d) ==
  /\ Active(k) /\ Live(d) /\ ~cards[d].pinned /\ ~MergedElsewhere(d)

\* Links to d become links to k, in every card that counts.
Redirect(S, d, k, e) == IF d \in S THEN (S \ {d}) \cup ({k} \ {e}) ELSE S
Joined(k, d) ==
  [cards EXCEPT ![k] = [Touched(@) EXCEPT !.merged = cards[k].merged \cup {d} \cup cards[d].merged],
                ![d] = [Touched(@) EXCEPT !.status = "archived", !.by = k]]
AutoMerged(k, d) ==
  [e \in Stored |->
     IF e = d \/ e \notin Counted THEN Joined(k, d)[e]
     ELSE LET c == Joined(k, d)[e]
              sup == IF e = k THEN c.supersedes \cup cards[d].supersedes ELSE c.supersedes
              con == IF e = k THEN c.conflicts \cup cards[d].conflicts ELSE c.conflicts
              linked == [c EXCEPT !.supersedes = Redirect(sup, d, k, e),
                                  !.conflicts = Redirect(con, d, k, e)]
          IN IF linked = c THEN c ELSE Touched(linked)]
ManualMerged(k, d) ==    \* history stays on the original
  [Joined(k, d) EXCEPT ![d].by = IF cards[d].by = None THEN k ELSE cards[d].by]

\* What a review does to the pool, if it may be made.
Reviewed(mode, k, d) ==
  IF mode = "select" THEN Selected(k, d)
  ELSE IF mode = "auto" THEN AutoMerged(k, d) ELSE ManualMerged(k, d)
Reviewable(mode, k, d) ==
  IF mode = "select" THEN Selectable(k, d)
  ELSE IF mode = "auto" THEN AutoMergeable(k, d) ELSE ManualMergeable(k, d)

\* The records a review changes, before and after it: its inverse.
InverseOf(after) ==
  LET changed == {e \in Stored : after[e] # cards[e]}
  IN [before |-> Restrict(cards, changed), after |-> Restrict(after, changed)]

ReviewDuplicates(mode, k, d) ==
  /\ Spend /\ k # d /\ Reviewable(mode, k, d)
  /\ cards' = Reviewed(mode, k, d)
  /\ undoable' = undoable \cup {InverseOf(Reviewed(mode, k, d))}
  /\ UNCHANGED <<born, deciding, revived, seen, strays>>

\* Faulty variant: a record is only looked for, not compared.
HoldsAlways(records) == DOMAIN records \subseteq Stored

Holds(records) == \A e \in DOMAIN records : e \in Stored /\ cards[e] = records[e]
Undone(u) == [e \in Stored |-> IF e \in DOMAIN u.before THEN u.before[e] ELSE cards[e]]

\* Only while every record is as the review left it (and no projection has moved on).
UndoReview(u) ==
  /\ Spend /\ u \in undoable /\ Holds(u.after)
  /\ cards' = Undone(u) /\ undoable' = undoable \ {u}
  /\ UNCHANGED <<born, deciding, revived, seen, strays>>

-----------------------------------------------------------------------------
(* External imports *)

\* Cards one search of the namespace has found, now or before imports were undone.
FoundTogether(targets) == targets \subseteq Stored \/ \E p \in seen : targets \subseteq p

\* One decision of an import is applied: its targets were found when the candidate was examined.
\* They are replaced, or marked, whatever has become of them since; one that is gone is only
\* named, for the commit is given the revision of the moment and not that of the examination.
CommitImport(f, action, targets) ==
  /\ Spend /\ Room /\ FoundTogether(targets) /\ (action # "ADD" => targets # {})
  /\ LET id == born + 1
         sup == IF action = "SUPERSEDE" THEN targets ELSE {}
         con == IF action = "CONFLICT" THEN targets ELSE {}
     IN Store(NewCard(f, id, sup, con, FALSE), con) /\ strays' = StraysWith(sup, con)
  /\ revived' = revived \cup Doubled' /\ UNCHANGED <<deciding, undoable, seen>>

Imported(s) == {e \in Stored : cards[e].source = s}

\* A card without its links to the imported ones. Where one replaced it, it is current again
\* or belongs to the next card that names it.
Scrubbed(c, e, gone) ==
  LET heirs == {r \in Stored \ (gone \cup {e}) : e \in cards[r].supersedes}
      links == [c EXCEPT !.supersedes = @ \ gone, !.conflicts = @ \ gone]
      freed == IF c.by \notin gone THEN {links}
               ELSE IF heirs = {} THEN {[links EXCEPT !.status = "active", !.by = None]}
               ELSE {[links EXCEPT !.status = "superseded", !.by = r] : r \in heirs}
  IN {IF x = c THEN c ELSE Touched(x) : x \in freed}

UndoImport(s) ==
  /\ Spend
  /\ LET gone == Imported(s)
     IN /\ gone # {}
        /\ \A e \in Stored : cards[e].merged # {} => e \notin gone /\ cards[e].merged \cap gone = {}
        /\ cards' \in {p \in [Stored \ gone -> UNION {Scrubbed(cards[e], e, gone) : e \in Stored \ gone}] :
                         \A e \in Stored \ gone : p[e] \in Scrubbed(cards[e], e, gone)}
  /\ revived' = revived \cup Doubled' /\ seen' = seen \cup {Stored}
  /\ UNCHANGED <<born, deciding, undoable, strays>>

-----------------------------------------------------------------------------

FirstPool(fact) == [e \in 1..FirstCards |-> [NewCard(fact[e], None, {}, {}, FALSE) EXCEPT !.edit = 0]]
NoStrays == [supersedes |-> {}, conflicts |-> {}]
NothingYet ==
  /\ born = FirstCards /\ deciding = {} /\ undoable = {} /\ turns = 0
  /\ revived = {} /\ seen = {} /\ strays = NoStrays
PoolInit == NothingYet /\ \E fact \in [1..FirstCards -> Fact] : cards = FirstPool(fact)

PoolNext ==
  \/ \E e \in CardId : Pin(e) \/ ForgetEvent(e) \/ RestoreEvent(e)
  \/ \E f \in Fact : RecordAgentEvent(f)
  \/ \E d \in deciding : Adjudicated(d)
  \/ \E mode \in {"auto", "manual", "select"}, k, d \in CardId : ReviewDuplicates(mode, k, d)
  \/ \E u \in undoable : UndoReview(u)
  \/ \E f \in Fact, action \in {"ADD", "SUPERSEDE", "CONFLICT"}, t \in SUBSET CardId :
       CommitImport(f, action, t)
  \/ \E s \in CardId : UndoImport(s)

PoolTypeOK ==
  /\ IsPool(cards) /\ Stored \subseteq 1..born /\ born \in 0..MaxCards /\ turns \in 0..MaxTurns
  /\ \A d \in deciding : d.fact \in Fact /\ d.matched \subseteq CardId
  /\ \A u \in undoable : IsPool(u.before) /\ IsPool(u.after)
  /\ seen \subseteq SUBSET CardId /\ strays.supersedes \cup strays.conflicts \subseteq CardId

\* What is archived in favour of a merged card never speaks for itself again: "a merged
\* original cannot be restored on its own" (restoreEvent). Undoing an import, or applying one
\* decided before the merge, brings it back.
MergedOriginalsStayArchived == Doubled = {}

\* ... and nothing else does: no restore, choice, recording or undone review.
OnlyImportsRevive == Doubled \subseteq revived

\* No link names a card that is gone: undoing an import scrubs its cards from every other one
\* in both pools (undoExternalMemoryImport), and neither a merge nor an undone review brings such
\* a link back (undoDuplicateReview). The exceptions are the code's. A recording that was out with
\* the model while its target went may not replace it, and marks a conflict with it instead; an
\* import decided before another import was undone still names what that one had brought, as
\* replaced or in conflict, whichever was decided.
LinksResolve ==
  \A e \in Stored : /\ cards[e].supersedes \subseteq Stored \cup strays.supersedes
                    /\ cards[e].conflicts \subseteq Stored \cup strays.conflicts

PoolSpec == PoolInit /\ [][PoolNext]_poolVars
=============================================================================
