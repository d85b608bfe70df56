------------------------------ MODULE ClaimProofs ------------------------------
(***************************************************************************)
(* Proofs about the claims of Derivation: while heartbeats are punctual    *)
(* nobody ends, repeats or takes over a claim but the activation that      *)
(* holds it, for any number of processes, activations and Blocks.  And,    *)
(* from that, about one process whose mutations do not throw: it           *)
(* implements BlockPipeline, and forgets no work.                          *)
(***************************************************************************)
EXTENDS DerivationProofs

-----------------------------------------------------------------------------
(* The inductive invariant, on top of IInv *)

Active(a) == a.pc \in {"summary", "failing", "extraction"}

\* The store s has, at time t, an unexpired claim of the activation a.
Holds(s, t, a) ==
  /\ RunningAs(s.job[KindOf(a)][a.block], a)
  /\ s.job[KindOf(a)][a.block].lease > t

SameClaimant(a, c) == KindOf(a) = KindOf(c) /\ a.block = c.block

ClaimsHeld ==
  \A p \in Proc, w \in Worker : Active(work[p][w]) => Holds(db, clock, work[p][w])

OneHolder ==
  \A p, q \in Proc, w, v \in Worker :
    Active(work[p][w]) /\ Active(work[q][v]) /\ SameClaimant(work[p][w], work[q][v])
    => p = q /\ w = v

\* Layers come from a summary that succeeded, cards from layers that ask for them, and
\* a Block that does not exist has no jobs.
Written(s) ==
  \A b \in Block :
    /\ s.layers[b] # "none" => s.job["summary"][b].status = "succeeded"
    /\ s.layers[b] # "extract" => s.job["extraction"][b].status \in {"none", "skipped"}
    /\ s.status[b] = "absent" => \A k \in Kind : s.job[k][b].status = "none"

\* A summary that succeeded stays, with its layers.
Grows(s, t) ==
  \A b \in Block :
    s.job["summary"][b].status = "succeeded" =>
      t.job["summary"][b].status = "succeeded" /\ t.layers[b] = s.layers[b]

Copies == Written(db) /\ \A p \in Proc : Written(mem[p]) /\ Grows(mem[p], db)

\* An activation between its two jobs has a summary behind it, and one that skips the
\* extraction by the layers it kept is not mistaken.
Fits(s, a) ==
  a.pc = "routed" =>
    /\ s.job["summary"][a.block].status = "succeeded"
    /\ ~a.attached /\ a.layers = "skip" => s.layers[a.block] # "extract"

RoutedFits == \A p \in Proc, w \in Worker : Fits(db, work[p][w])

ClaimInv == ClaimsHeld /\ OneHolder /\ Copies /\ RoutedFits

\* An activation that is at the same place after a step is at it with the same claim.
SameTask(a, c) == a.block = c.block /\ a.attempts = c.attempts /\ a.round = c.round
TasksGoOn ==
  \A p \in Proc, w \in Worker :
    Active(work[p][w]) /\ work'[p][w].pc = work[p][w].pc => SameTask(work'[p][w], work[p][w])

-----------------------------------------------------------------------------
(* Commits *)

LEMMA GrowsTransitive ==
  ASSUME NEW s, NEW t, NEW u, Grows(s, t), Grows(t, u)
  PROVE  Grows(s, u)
  BY DEF Grows

LEMMA MergedJob ==
  ASSUME db \in Store, NEW s \in Store, NEW k \in Kind, NEW b \in Block
  PROVE  Merged(s).job[k][b] = MergeLease(s.job[k][b], db.job[k][b])
  BY DEF Merged, Store

\* A commit puts what it writes into the database, up to heartbeats.
LEMMA MergedLike ==
  ASSUME db \in Store, NEW s \in Store
  PROVE  /\ Written(s) => Written(Merged(s))
         /\ \A t : Grows(t, s) => Grows(t, Merged(s))
         /\ \A a : a.block \in Block /\ Fits(s, a) => Fits(Merged(s), a)
<1>1. /\ Merged(s).status = s.status /\ Merged(s).layers = s.layers
      /\ \A k \in Kind, b \in Block : Merged(s).job[k][b].status = s.job[k][b].status
  BY MergedType DEF SameClaim
<1>2. "summary" \in Kind /\ "extraction" \in Kind
  BY DEF Kind
<1> HIDE DEF Merged
<1>3. Written(s) => Written(Merged(s))
  BY <1>1, <1>2 DEF Written
<1>4. \A t : Grows(t, s) => Grows(t, Merged(s))
  BY <1>1, <1>2 DEF Grows
<1>5. \A a : a.block \in Block /\ Fits(s, a) => Fits(Merged(s), a)
  BY <1>1, <1>2 DEF Fits
<1> QED BY <1>3, <1>4, <1>5

\* What an up-to-date instance leaves alone is left alone in the database.
LEMMA ClaimStays ==
  ASSUME StoreInv, NEW p \in Proc, fresh[p], NEW s \in Store, NEW t \in Nat, NEW a,
         KindOf(a) \in Kind, a.block \in Block, Holds(db, t, a),
         s.job[KindOf(a)][a.block] = mem[p].job[KindOf(a)][a.block]
  PROVE  Holds(Merged(s), t, a)
<1> DEFINE d == db.job[KindOf(a)][a.block]
           i == mem[p].job[KindOf(a)][a.block]
<1>1. d \in Job /\ i \in Job /\ SameClaim(i, d)
  BY FreshCopy DEF StoreInv, Store
<1>2. Merged(s).job[KindOf(a)][a.block] = MergeLease(i, d)
  BY MergedJob DEF StoreInv
<1>3. RunningAs(d, a) /\ d.lease > t
  BY DEF Holds
<1>4. /\ d \in JobRecord /\ i \in JobRecord /\ d.lease \in Nat /\ i.lease \in Nat
  BY <1>1 DEF Job, JobRecord
<1> HIDE DEF d, i, Merged
<1>5. RunningAs(MergeLease(i, d), a)
  BY <1>1, <1>3, <1>4 DEF MergeLease, RunningAs, SameClaim, JobRecord
<1>6. MergeLease(i, d).lease > t
  BY <1>1, <1>3, <1>4 DEF MergeLease, RunningAs, SameClaim, JobRecord
<1> QED BY <1>2, <1>5, <1>6 DEF Holds

\* A store that an up-to-date instance may commit: it is well written, and summaries stay.
GoodCommit(p, s) == s \in Store /\ fresh[p] /\ Saved(p, s) /\ Written(s) /\ Grows(mem[p], s)

LEMMA CopiesAfter ==
  ASSUME StoreInv, Copies, NEW p \in Proc, NEW s, GoodCommit(p, s)
  PROVE  /\ db' = Merged(s) /\ Copies'
         /\ Grows(db, s) /\ Grows(db, db')
<1>1. db' = Merged(s) /\ mem' = [mem EXCEPT ![p] = Merged(s)] /\ s \in Store /\ db \in Store
  BY DEF Saved, GoodCommit, StoreInv
<1>2. "summary" \in Kind
  BY DEF Kind
<1>3. Grows(db, mem[p])
  BY <1>2, FreshCopy DEF Grows, SameClaim, GoodCommit
<1>4. Grows(db, s)
  BY <1>3, GrowsTransitive DEF GoodCommit
<1>5. Written(db') /\ Grows(db, db')
  BY <1>1, <1>4, MergedLike DEF GoodCommit
<1>6. ASSUME NEW q \in Proc PROVE Written(mem'[q]) /\ Grows(mem'[q], db')
  <2>1. CASE q = p
    <3>1. mem'[q] = db'
      BY <1>1, <2>1 DEF StoreInv
    <3> QED BY <3>1, <1>5 DEF Grows
  <2>2. CASE q # p
    <3>1. mem'[q] = mem[q]
      BY <1>1, <2>2 DEF StoreInv
    <3> QED BY <3>1, <1>5, GrowsTransitive DEF Copies
  <2> QED BY <2>1, <2>2
<1> QED BY <1>1, <1>4, <1>5, <1>6 DEF Copies

LEMMA BusyTypes ==
  ASSUME WorkInv, NEW p \in Proc, NEW w \in Worker
  PROVE  /\ work[p][w].pc # "idle" => work[p][w].block \in Block
         /\ Active(work[p][w]) => work[p][w].pc # "idle" /\ work[p][w].pc # "routed"
         /\ KindOf(work[p][w]) \in Kind
  BY DEF WorkInv, ActiveWork, Active, KindOf, Kind

LEMMA FitsLater ==
  ASSUME NEW s, NEW t, NEW a, a.pc # "idle" => a.block \in Block, Fits(s, a), Grows(s, t)
  PROVE  Fits(t, a)
  BY DEF Fits, Grows

-----------------------------------------------------------------------------
(* Activations that go on, and one that ends                               *)

\* c goes on with the claim of a.
Follows(a, c) == Active(a) /\ KindOf(c) = KindOf(a) /\ SameTask(c, a)

\* What a step that leaves the database alone may make of an activation a of p.
Quiet(p, a, c) ==
  \/ c.pc = "idle"
  \/ c = a
  \/ c = Detached(p, a)
  \/ a.pc = "summary" /\ c = [Detached(p, a) EXCEPT !.pc = "failing"]
  \/ \E b \in Block : c = Routed(b, TRUE, "none") /\ mem[p].job["summary"][b].status = "succeeded"

LEMMA FollowsHolds ==
  ASSUME NEW s, NEW t, NEW a, NEW c, Follows(a, c), Holds(s, t, a)
  PROVE  Holds(s, t, c)
  BY DEF Follows, Holds, SameTask, RunningAs

LEMMA WorkFollows ==
  ASSUME OneHolder,
         \A q \in Proc, v \in Worker : Active(work'[q][v]) => Follows(work[q][v], work'[q][v])
  PROVE  OneHolder'
  BY DEF OneHolder, Follows, SameClaimant, SameTask

\* What detaching keeps, and what it writes into the copy the activation goes on with.
LEMMA DetachedParts ==
  ASSUME StoreInv, WorkInv, NEW p \in Proc, NEW w \in Worker
  PROVE  LET a == work[p][w]
             c == Detached(p, a)
         IN /\ c.pc = a.pc /\ SameTask(c, a) /\ KindOf(c) = KindOf(a) /\ ~c.attached
            /\ IF a.attached THEN c.layers = mem[p].layers[a.block] ELSE c = a
            /\ [c EXCEPT !.pc = "failing"].pc = "failing"
            /\ SameTask([c EXCEPT !.pc = "failing"], a)
<1> DEFINE a == work[p][w]
           c == Detached(p, a)
<1>1. a \in Activation
  BY DEF WorkInv
<1>2. CASE a.attached
  <2>1. c = [a EXCEPT !.attached = FALSE, !.layers = mem[p].layers[a.block]]
    BY <1>2 DEF Detached
  <2> HIDE DEF c
  <2>2. /\ c.pc = a.pc /\ c.block = a.block /\ c.attempts = a.attempts /\ c.round = a.round
        /\ c.attached = FALSE /\ c.layers = mem[p].layers[a.block]
    BY <1>1, <2>1 DEF Activation
  <2>3. /\ [c EXCEPT !.pc = "failing"].pc = "failing" /\ [c EXCEPT !.pc = "failing"].block = c.block
        /\ [c EXCEPT !.pc = "failing"].attempts = c.attempts /\ [c EXCEPT !.pc = "failing"].round = c.round
    BY <1>1, <2>1 DEF Activation
  <2> QED BY <1>2, <2>2, <2>3 DEF c, SameTask, KindOf
<1>3. CASE ~a.attached
  <2>1. c = a
    BY <1>3 DEF Detached
  <2>2. /\ [a EXCEPT !.pc = "failing"].pc = "failing" /\ [a EXCEPT !.pc = "failing"].block = a.block
        /\ [a EXCEPT !.pc = "failing"].attempts = a.attempts /\ [a EXCEPT !.pc = "failing"].round = a.round
    BY <1>1 DEF Activation
  <2> QED BY <1>3, <2>1, <2>2 DEF SameTask, KindOf
<1> QED BY <1>2, <1>3

LEMMA QuietStep ==
  ASSUME StoreInv, WorkInv, Copies, NEW p \in Proc, NEW w \in Worker, Fits(db, work[p][w]),
         NEW c, Quiet(p, work[p][w], c)
  PROVE  (Active(c) => Follows(work[p][w], c)) /\ Fits(db, c)
<1> DEFINE a == work[p][w]
<1>1. CASE c.pc = "idle"
  BY <1>1 DEF Active, Fits
<1>2. CASE c = a
  BY <1>2 DEF Follows, SameTask
<1>3. CASE c = Detached(p, a)
  <2>1. /\ c.pc = a.pc /\ SameTask(c, a) /\ KindOf(c) = KindOf(a)
        /\ IF a.attached THEN c.layers = mem[p].layers[a.block] ELSE c = a
    BY <1>3, DetachedParts
  <2>2. Active(c) => Follows(a, c)
    BY <2>1 DEF Follows, Active
  <2>3. ASSUME c.pc = "routed", a.attached, c.layers = "skip"
        PROVE  db.layers[a.block] # "extract"
    <3>1. a.block \in Block
      BY <2>1, <2>3, BusyTypes
    <3>2. mem[p].layers[a.block] = "skip"
      BY <2>1, <2>3
    <3>3. mem[p].job["summary"][a.block].status = "succeeded"
      BY SMTT(30), <3>1, <3>2 DEF Copies, Written
    <3> QED BY <3>1, <3>2, <3>3 DEF Copies, Grows
  <2>4. Fits(db, c)
    BY <2>1, <2>3 DEF Fits, SameTask
  <2> QED BY <2>2, <2>4
<1>4. CASE a.pc = "summary" /\ c = [Detached(p, a) EXCEPT !.pc = "failing"]
  <2>1. c.pc = "failing" /\ SameTask(c, a)
    BY <1>4, DetachedParts
  <2> QED BY <1>4, <2>1 DEF Follows, Active, KindOf, Fits
<1>5. CASE \E b \in Block : c = Routed(b, TRUE, "none") /\ mem[p].job["summary"][b].status = "succeeded"
  <2>1. PICK b \in Block : c = Routed(b, TRUE, "none") /\ mem[p].job["summary"][b].status = "succeeded"
    BY <1>5
  <2>2. c.pc = "routed" /\ c.block = b /\ c.attached = TRUE
    BY <2>1 DEF Routed
  <2>3. db.job["summary"][b].status = "succeeded"
    BY <2>1 DEF Copies, Grows
  <2> QED BY <2>2, <2>3 DEF Active, Fits
<1> QED BY <1>1, <1>2, <1>3, <1>4, <1>5 DEF Quiet

\* A step that leaves the database alone.
LEMMA SameDbKeeps ==
  ASSUME StoreInv, WorkInv, ClaimInv, db' = db, clock' = clock, Copies',
         \A q \in Proc, v \in Worker : Quiet(q, work[q][v], work'[q][v])
  PROVE  ClaimInv' /\ TasksGoOn
<1>1. ASSUME NEW q \in Proc, NEW v \in Worker
      PROVE  (Active(work'[q][v]) => Follows(work[q][v], work'[q][v])) /\ Fits(db, work'[q][v])
  BY QuietStep DEF ClaimInv, RoutedFits
<1>2. OneHolder'
  BY <1>1, WorkFollows DEF ClaimInv
<1>3. ClaimsHeld'
  <2>1. ASSUME NEW q \in Proc, NEW v \in Worker, Active(work'[q][v])
        PROVE  Holds(db', clock', work'[q][v])
    <3>1. Follows(work[q][v], work'[q][v])
      BY <1>1, <2>1
    <3>2. Holds(db, clock, work[q][v])
      BY <3>1 DEF ClaimInv, ClaimsHeld, Follows
    <3> QED BY <3>1, <3>2, FollowsHolds
  <2> QED BY <2>1 DEF ClaimsHeld
<1>4. RoutedFits'
  BY <1>1 DEF RoutedFits
<1>5. TasksGoOn
  <2>1. ASSUME NEW q \in Proc, NEW v \in Worker, Active(work[q][v]), work'[q][v].pc = work[q][v].pc
        PROVE  SameTask(work'[q][v], work[q][v])
    <3>1. Active(work'[q][v])
      BY <2>1 DEF Active
    <3> QED BY <1>1, <3>1 DEF Follows
  <2> QED BY <2>1 DEF TasksGoOn
<1> QED BY <1>2, <1>3, <1>4, <1>5 DEF ClaimInv

\* s has the jobs that somebody holds as p's copy has them.
LeavesHeld(p, s) ==
  \A q \in Proc, v \in Worker :
    LET a == work[q][v]
    IN Active(a) => s.job[KindOf(a)][a.block] = mem[p].job[KindOf(a)][a.block]

\* A commit that touches no held claim and no activation.
LEMMA QuietCommitKeeps ==
  ASSUME StoreInv, WorkInv, ClaimInv, NEW p \in Proc, NEW s, GoodCommit(p, s),
         clock' = clock, work' = work, LeavesHeld(p, s)
  PROVE  ClaimInv' /\ TasksGoOn
<1>1. db' = Merged(s) /\ Copies' /\ Grows(db, db') /\ s \in Store /\ fresh[p] /\ clock \in Nat
  BY CopiesAfter DEF ClaimInv, GoodCommit, WorkInv
<1> HIDE DEF Merged
<1>2. ASSUME NEW q \in Proc, NEW v \in Worker, Active(work[q][v])
      PROVE  Holds(db', clock, work[q][v])
  <2>1. KindOf(work[q][v]) \in Kind /\ work[q][v].block \in Block
    BY <1>2, BusyTypes
  <2>2. Holds(db, clock, work[q][v])
    BY <1>2 DEF ClaimInv, ClaimsHeld
  <2>3. s.job[KindOf(work[q][v])][work[q][v].block] = mem[p].job[KindOf(work[q][v])][work[q][v].block]
    BY <1>2 DEF LeavesHeld
  <2> QED BY <1>1, <2>1, <2>2, <2>3, ClaimStays
<1>3. ClaimsHeld'
  BY <1>2 DEF ClaimsHeld
<1>4. OneHolder'
  BY DEF ClaimInv, OneHolder
<1>5. RoutedFits'
  <2>1. ASSUME NEW q \in Proc, NEW v \in Worker PROVE Fits(db', work[q][v])
    <3>1. work[q][v].pc # "idle" => work[q][v].block \in Block
      BY BusyTypes
    <3>2. Fits(db, work[q][v])
      BY DEF ClaimInv, RoutedFits
    <3> QED BY <1>1, <3>1, <3>2, FitsLater
  <2> QED BY <2>1 DEF RoutedFits
<1>6. TasksGoOn
  BY DEF TasksGoOn, SameTask
<1> QED BY <1>1, <1>3, <1>4, <1>5, <1>6 DEF ClaimInv

\* s differs from u in the job k of b, and in the layers and the status of b, alone.
OnlyJob(u, s, k, b) == \A l \in Kind, c \in Block : (l = k /\ c = b) \/ s.job[l][c] = u.job[l][c]
OnlyBlock(u, m, b) ==
  /\ m.job = u.job /\ m.status[b] # "absent"
  /\ \A c \in Block : c # b => m.status[c] = u.status[c] /\ m.layers[c] = u.layers[c]

\* Nobody but w of p works on the job k of b.
NobodyElse(p, w, k, b) ==
  \A q \in Proc, v \in Worker :
    Active(work[q][v]) /\ KindOf(work[q][v]) = k /\ work[q][v].block = b => q = p /\ v = w

\* A commit by the activation w of p about the job k of b, which nobody else holds: w ends what
\* it did, or goes on with the claim it made.
LEMMA CommitKeeps ==
  ASSUME StoreInv, WorkInv, ClaimInv, NEW p \in Proc, NEW w \in Worker, NEW s, GoodCommit(p, s),
         clock' = clock, NEW k \in Kind, NEW b \in Block,
         OnlyJob(mem[p], s, k, b), NobodyElse(p, w, k, b),
         NEW next, work' = [work EXCEPT ![p][w] = next],
         Active(work[p][w]) => ~Active(next),
         Active(next) => KindOf(next) = k /\ next.block = b /\ Holds(Merged(s), clock, next),
         Fits(s, next), next.block \in Block \/ next.pc = "idle"
  PROVE  ClaimInv' /\ TasksGoOn
<1>1. db' = Merged(s) /\ Copies' /\ Grows(db, db') /\ s \in Store /\ fresh[p] /\ clock \in Nat /\ db \in Store
  BY CopiesAfter DEF ClaimInv, GoodCommit, WorkInv, StoreInv
<1>2. Fits(db', next)
  BY <1>1, MergedLike DEF Fits
<1> HIDE DEF Merged
<1>3. work'[p][w] = next
  BY DEF WorkInv
<1>4. \A q \in Proc, v \in Worker : ~(q = p /\ v = w) => work'[q][v] = work[q][v]
  BY DEF WorkInv
<1>5. ASSUME NEW q \in Proc, NEW v \in Worker, Active(work[q][v]), ~(q = p /\ v = w)
      PROVE  Holds(db', clock, work[q][v])
  <2>1. KindOf(work[q][v]) \in Kind /\ work[q][v].block \in Block
    BY <1>5, BusyTypes
  <2>2. Holds(db, clock, work[q][v])
    BY <1>5 DEF ClaimInv, ClaimsHeld
  <2>3. s.job[KindOf(work[q][v])][work[q][v].block] = mem[p].job[KindOf(work[q][v])][work[q][v].block]
    BY <1>5, <2>1 DEF OnlyJob, NobodyElse
  <2> QED BY <1>1, <2>1, <2>2, <2>3, ClaimStays
<1>6. ClaimsHeld'
  <2>1. ASSUME NEW q \in Proc, NEW v \in Worker, Active(work'[q][v])
        PROVE  Holds(db', clock', work'[q][v])
    BY <1>1, <1>3, <1>4, <1>5, <2>1
  <2> QED BY <2>1 DEF ClaimsHeld
<1>7. OneHolder'
  <2>1. ASSUME NEW q \in Proc, NEW v \in Worker, Active(work'[q][v]), Active(work'[p][w]),
               SameClaimant(work'[q][v], work'[p][w])
        PROVE  q = p /\ v = w
    BY <1>3, <1>4, <2>1 DEF SameClaimant, NobodyElse
  <2>2. ASSUME NEW q \in Proc, NEW v \in Worker, NEW r \in Proc, NEW u \in Worker,
               Active(work'[q][v]), Active(work'[r][u]), SameClaimant(work'[q][v], work'[r][u])
        PROVE  q = r /\ v = u
    <3>1. CASE q = p /\ v = w
      BY <2>1, <2>2, <3>1 DEF SameClaimant
    <3>2. CASE r = p /\ u = w
      BY <2>1, <2>2, <3>2
    <3>3. CASE ~(q = p /\ v = w) /\ ~(r = p /\ u = w)
      BY <1>4, <2>2, <3>3 DEF ClaimInv, OneHolder
    <3> QED BY <3>1, <3>2, <3>3
  <2> QED BY <2>2 DEF OneHolder
<1>8. RoutedFits'
  <2>1. ASSUME NEW q \in Proc, NEW v \in Worker PROVE Fits(db', work'[q][v])
    <3>1. CASE q = p /\ v = w
      BY <1>2, <1>3, <3>1
    <3>2. CASE ~(q = p /\ v = w)
      <4>1. work[q][v].pc # "idle" => work[q][v].block \in Block
        BY BusyTypes
      <4>2. Fits(db, work[q][v]) /\ work'[q][v] = work[q][v]
        BY <1>4, <3>2 DEF ClaimInv, RoutedFits
      <4> QED BY <1>1, <4>1, <4>2, FitsLater
    <3> QED BY <3>1, <3>2
  <2> QED BY <2>1 DEF RoutedFits
<1>9. TasksGoOn
  <2>1. ASSUME NEW q \in Proc, NEW v \in Worker, Active(work[q][v]), work'[q][v].pc = work[q][v].pc
        PROVE  SameTask(work'[q][v], work[q][v])
    <3>1. Active(work'[q][v])
      BY <2>1 DEF Active
    <3>2. ~(q = p /\ v = w)
      BY <1>3, <2>1, <3>1
    <3> QED BY <1>4, <3>2 DEF SameTask
  <2> QED BY <2>1 DEF TasksGoOn
<1> QED BY <1>1, <1>6, <1>7, <1>8, <1>9 DEF ClaimInv

-----------------------------------------------------------------------------
(* The steps of an activation                                              *)

\* The job of an activation at work is running in every up-to-date copy.
LEMMA OwnJobRuns ==
  ASSUME StoreInv, WorkInv, ClaimInv, NEW p \in Proc, fresh[p],
         NEW q \in Proc, NEW v \in Worker, Active(work[q][v]),
         NEW k, k = KindOf(work[q][v]), NEW b, b = work[q][v].block
  PROVE  b \in Block /\ k \in Kind /\ mem[p].job[k][b].status = "running"
<1>1. b \in Block /\ k \in Kind
  BY BusyTypes
<1>2. db.job[k][b].status = "running"
  BY DEF ClaimInv, ClaimsHeld, Holds, RunningAs
<1>3. SameClaim(mem[p].job[k][b], db.job[k][b])
  BY <1>1, FreshCopy
<1> QED BY <1>1, <1>2, <1>3 DEF SameClaim

\* One job, and layers or status of its Block, are changed in a copy.
LEMMA PutJobGood ==
  ASSUME NEW m \in Store, NEW u \in Store, NEW k \in Kind, NEW b \in Block, NEW j \in Job,
         Written(u), OnlyBlock(u, m, b),
         u.job["summary"][b].status = "succeeded" =>
           m.layers[b] = u.layers[b] /\ (k = "summary" => j.status = "succeeded"),
         m.layers[b] # "none" =>
           IF k = "summary" THEN j.status = "succeeded" ELSE u.job["summary"][b].status = "succeeded",
         m.layers[b] # "extract" =>
           IF k = "extraction" THEN j.status \in {"none", "skipped"}
                               ELSE u.job["extraction"][b].status \in {"none", "skipped"}
  PROVE  /\ PutJob(m, k, b, j) \in Store
         /\ Written(PutJob(m, k, b, j)) /\ Grows(u, PutJob(m, k, b, j))
         /\ OnlyJob(u, PutJob(m, k, b, j), k, b)
<1> DEFINE s == PutJob(m, k, b, j)
<1>1. /\ s \in Store /\ s.status = m.status /\ s.layers = m.layers
      /\ \A l \in Kind, c \in Block : s.job[l][c] = IF l = k /\ c = b THEN j ELSE m.job[l][c]
  BY PutJobParts
<1>2. "summary" \in Kind /\ "extraction" \in Kind /\ "summary" # "extraction" /\ k \in {"summary", "extraction"}
  BY DEF Kind
<1> HIDE DEF s
<1>7. /\ m.job = u.job /\ m.status[b] # "absent"
      /\ \A c \in Block : c # b => m.status[c] = u.status[c] /\ m.layers[c] = u.layers[c]
  BY DEF OnlyBlock
<1>3. ASSUME NEW c \in Block, c # b
      PROVE  s.status[c] = u.status[c] /\ s.layers[c] = u.layers[c] /\ \A l \in Kind : s.job[l][c] = u.job[l][c]
  BY <1>1, <1>3, <1>7
<1>4. Written(s)
  <2>1. ASSUME NEW c \in Block
        PROVE  /\ s.layers[c] # "none" => s.job["summary"][c].status = "succeeded"
               /\ s.layers[c] # "extract" => s.job["extraction"][c].status \in {"none", "skipped"}
               /\ s.status[c] = "absent" => \A l \in Kind : s.job[l][c].status = "none"
    <3>1. CASE c = b
      BY <1>1, <1>2, <1>7, <3>1
    <3>2. CASE c # b
      BY <1>2, <1>3, <3>2 DEF Written
    <3> QED BY <3>1, <3>2
  <2> QED BY <2>1 DEF Written
<1>5. Grows(u, s)
  <2>1. ASSUME NEW c \in Block, u.job["summary"][c].status = "succeeded"
        PROVE  s.job["summary"][c].status = "succeeded" /\ s.layers[c] = u.layers[c]
    <3>1. CASE c = b
      BY <1>1, <1>2, <1>7, <2>1, <3>1
    <3>2. CASE c # b
      BY <1>2, <1>3, <2>1, <3>2
    <3> QED BY <3>1, <3>2
  <2> QED BY <2>1 DEF Grows
<1>6. OnlyJob(u, s, k, b)
  BY <1>1, <1>7 DEF OnlyJob
<1> QED BY <1>1, <1>4, <1>5, <1>6 DEF s

LEMMA PutSummaryGood ==
  ASSUME NEW m \in Store, NEW u \in Store, NEW b \in Block, NEW j \in Job,
         Written(u), OnlyBlock(u, m, b),
         u.job["summary"][b].status # "succeeded",
         m.layers[b] # "none" => j.status = "succeeded",
         m.layers[b] # "extract" => u.job["extraction"][b].status \in {"none", "skipped"}
  PROVE  /\ PutJob(m, "summary", b, j) \in Store
         /\ Written(PutJob(m, "summary", b, j)) /\ Grows(u, PutJob(m, "summary", b, j))
         /\ OnlyJob(u, PutJob(m, "summary", b, j), "summary", b)
<1>1. "summary" \in Kind /\ "summary" # "extraction"
  BY DEF Kind
<1> DEFINE k == "summary"
<1>2. k = "summary" /\ k \in Kind
  BY <1>1
<1> HIDE DEF k
<1> QED BY SMTT(30), <1>1, <1>2, PutJobGood

LEMMA PutExtractionGood ==
  ASSUME NEW m \in Store, NEW u \in Store, NEW b \in Block, NEW j \in Job,
         Written(u), OnlyBlock(u, m, b), m.layers = u.layers,
         m.layers[b] # "extract" => j.status \in {"none", "skipped"}
  PROVE  /\ PutJob(m, "extraction", b, j) \in Store
         /\ Written(PutJob(m, "extraction", b, j)) /\ Grows(u, PutJob(m, "extraction", b, j))
         /\ OnlyJob(u, PutJob(m, "extraction", b, j), "extraction", b)
<1>1. "extraction" \in Kind /\ "summary" # "extraction"
  BY DEF Kind
<1> DEFINE k == "extraction"
<1>2. k = "extraction" /\ k \in Kind
  BY <1>1
<1>3. m.layers[b] # "none" => u.job["summary"][b].status = "succeeded"
  BY DEF Written
<1> HIDE DEF k
<1> QED BY <1>1, <1>2, <1>3, PutJobGood

\* An activation that ends with a commit about its job.
LEMMA EndKeeps ==
  ASSUME StoreInv, WorkInv, ClaimInv, NEW p \in Proc, NEW w \in Worker, NEW s, GoodCommit(p, s),
         clock' = clock, NEW k \in Kind, NEW b \in Block,
         OnlyJob(mem[p], s, k, b), NobodyElse(p, w, k, b),
         work' = [work EXCEPT ![p][w] = Idle]
  PROVE  ClaimInv' /\ TasksGoOn
<1> DEFINE next == Idle
<1>1. next.pc = "idle" /\ work' = [work EXCEPT ![p][w] = next]
  BY DEF Idle
<1> HIDE DEF next
<1>2. ~Active(next) /\ Fits(s, next)
  BY <1>1 DEF Active, Fits
<1> QED BY <1>1, <1>2, CommitKeeps

\* A commit that is rejected sends the activation home; the others of its instance lose their objects.
LEMMA HomeKeeps ==
  ASSUME StoreInv, WorkInv, ClaimInv, NEW p \in Proc, NEW w \in Worker, Rejected, clock' = clock,
         Abandon(p, w, Idle) \/ work' = [work EXCEPT ![p][w] = Idle]
  PROVE  ClaimInv' /\ TasksGoOn
<1>1. db' = db /\ Copies'
  BY DEF Rejected, ClaimInv, Copies
<1>2. ASSUME NEW q \in Proc, NEW v \in Worker
      PROVE  work'[q][v] \in {Idle, work[q][v], Detached(q, work[q][v])}
  BY DEF Abandon, WorkInv
<1>3. Idle.pc = "idle"
  BY DEF Idle
<1>4. \A q \in Proc, v \in Worker : Quiet(q, work[q][v], work'[q][v])
  <2>1. ASSUME NEW q \in Proc, NEW v \in Worker PROVE Quiet(q, work[q][v], work'[q][v])
    BY <1>2, <1>3, Zenon DEF Quiet
  <2> QED BY <2>1
<1> QED BY <1>1, <1>4, SameDbKeeps

\* The job k of b is the one w of p works on; what an up-to-date copy says of it.
OwnsJob(p, w, k, b) ==
  /\ mem[p] \in Store /\ Written(mem[p]) /\ b \in Block /\ mem[p].job[k][b] \in Job
  /\ mem[p].job[k][b].status = "running" /\ mem[p].status[b] # "absent"
  /\ k = "summary" => /\ mem[p].layers[b] = "none"
                      /\ mem[p].job["extraction"][b].status \in {"none", "skipped"}
  /\ k = "extraction" => /\ mem[p].layers[b] = "extract"
                         /\ mem[p].job["summary"][b].status = "succeeded"
  /\ NobodyElse(p, w, k, b)

LEMMA OwnJob ==
  ASSUME StoreInv, WorkInv, ClaimInv, NEW p \in Proc, NEW w \in Worker, Active(work[p][w]), fresh[p]
  PROVE  OwnsJob(p, w, KindOf(work[p][w]), work[p][w].block)
<1> DEFINE k == KindOf(work[p][w])
           b == work[p][w].block
<1>1. mem[p] \in Store /\ Written(mem[p]) /\ b \in Block /\ k \in Kind /\ mem[p].job[k][b].status = "running"
  BY OwnJobRuns DEF ClaimInv, Copies, StoreInv
<1>2. NobodyElse(p, w, k, b)
  <2>1. ASSUME NEW q \in Proc, NEW v \in Worker,
               Active(work[q][v]), KindOf(work[q][v]) = k, work[q][v].block = b
        PROVE  q = p /\ v = w
    BY <2>1 DEF ClaimInv, OneHolder, SameClaimant
  <2> QED BY <2>1 DEF NobodyElse
<1> HIDE DEF k, b
<1>3. mem[p].status[b] # "absent"
  BY <1>1 DEF Written
<1>4. k = "summary" => /\ mem[p].layers[b] = "none"
                       /\ mem[p].job["extraction"][b].status \in {"none", "skipped"}
  BY <1>1 DEF Written
<1>5. k = "extraction" => /\ mem[p].layers[b] = "extract"
                          /\ mem[p].job["summary"][b].status = "succeeded"
  BY <1>1 DEF Written
<1>6. mem[p].job[k][b] \in Job
  BY <1>1 DEF Store
<1>7. OwnsJob(p, w, k, b)
  BY <1>1, <1>2, <1>3, <1>4, <1>5, <1>6 DEF OwnsJob
<1> QED BY <1>7 DEF k, b

LEMMA FailSummaryKeepsClaims ==
  ASSUME StoreInv, WorkInv, ClaimInv, NEW p \in Proc, NEW w \in Worker, FailSummary(p, w)
  PROVE  ClaimInv' /\ TasksGoOn
<1> DEFINE b == work[p][w].block
           j == Failed(mem[p].job["summary"][b])
           s == PutJob(mem[p], "summary", b, j)
<1>1. /\ Active(work[p][w]) /\ KindOf(work[p][w]) = "summary" /\ clock' = clock /\ "summary" \in Kind
      /\ Idle.pc = "idle"
  BY DEF FailSummary, Active, KindOf, Kind, Idle
<1>2. \/ CanCommit(p, s) /\ Saved(p, s) /\ work' = [work EXCEPT ![p][w] = Idle]
      \/ ~CanCommit(p, s) /\ Rejected /\ Abandon(p, w, Idle)
  BY DEF FailSummary
<1>3. CASE CanCommit(p, s) /\ Saved(p, s) /\ work' = [work EXCEPT ![p][w] = Idle]
  <2>1. fresh[p]
    BY <1>3 DEF CanCommit
  <2>2. /\ mem[p] \in Store /\ Written(mem[p]) /\ b \in Block
        /\ mem[p].job["summary"][b] \in Job
        /\ mem[p].job["summary"][b].status = "running" /\ mem[p].status[b] # "absent"
        /\ mem[p].layers[b] = "none" /\ mem[p].job["extraction"][b].status \in {"none", "skipped"}
        /\ NobodyElse(p, w, "summary", b)
    <3>1. OwnsJob(p, w, KindOf(work[p][w]), work[p][w].block)
      BY <1>1, <2>1, OwnJob
    <3> QED BY <1>1, <3>1 DEF OwnsJob
  <2>3. j \in Job
    BY <2>2, JobTypes DEF WorkInv
  <2>7. OnlyBlock(mem[p], mem[p], b)
    BY <2>2 DEF OnlyBlock
  <2> HIDE DEF j, b
  <2>4. s \in Store /\ Written(s) /\ Grows(mem[p], s) /\ OnlyJob(mem[p], s, "summary", b)
    BY <2>2, <2>3, <2>7, PutSummaryGood
  <2> HIDE DEF s
  <2>5. GoodCommit(p, s)
    BY <1>3, <2>1, <2>4 DEF GoodCommit
  <2> QED BY <1>1, <1>3, <2>2, <2>4, <2>5, EndKeeps
<1>4. CASE ~CanCommit(p, s) /\ Rejected /\ Abandon(p, w, Idle)
  BY <1>1, <1>4, HomeKeeps
<1> QED BY <1>2, <1>3, <1>4

LEMMA FailExtractionKeepsClaims ==
  ASSUME StoreInv, WorkInv, ClaimInv, NEW p \in Proc, NEW w \in Worker, FailExtraction(p, w)
  PROVE  ClaimInv' /\ TasksGoOn
<1> DEFINE b == work[p][w].block
           j == Failed(mem[p].job["extraction"][b])
           s == PutJob(mem[p], "extraction", b, j)
<1>1. /\ Active(work[p][w]) /\ KindOf(work[p][w]) = "extraction" /\ clock' = clock /\ "extraction" \in Kind
      /\ Idle.pc = "idle"
  BY DEF FailExtraction, Active, KindOf, Kind, Idle
<1>2. \/ CanCommit(p, s) /\ Saved(p, s) /\ work' = [work EXCEPT ![p][w] = Idle]
      \/ ~CanCommit(p, s) /\ Rejected /\ Abandon(p, w, Idle)
  BY DEF FailExtraction
<1>3. CASE CanCommit(p, s) /\ Saved(p, s) /\ work' = [work EXCEPT ![p][w] = Idle]
  <2>1. fresh[p]
    BY <1>3 DEF CanCommit
  <2>2. /\ mem[p] \in Store /\ Written(mem[p]) /\ b \in Block
        /\ mem[p].status[b] # "absent" /\ mem[p].layers[b] = "extract"
        /\ mem[p].job["extraction"][b] \in Job
        /\ mem[p].job["summary"][b].status = "succeeded"
        /\ NobodyElse(p, w, "extraction", b)
    <3>1. OwnsJob(p, w, KindOf(work[p][w]), work[p][w].block)
      BY <1>1, <2>1, OwnJob
    <3> QED BY <1>1, <3>1 DEF OwnsJob
  <2>3. j \in Job
    BY <2>2, JobTypes DEF WorkInv
  <2>7. OnlyBlock(mem[p], mem[p], b)
    BY <2>2 DEF OnlyBlock
  <2> HIDE DEF j, b
  <2>4. s \in Store /\ Written(s) /\ Grows(mem[p], s) /\ OnlyJob(mem[p], s, "extraction", b)
    BY <2>2, <2>3, <2>7, PutExtractionGood
  <2> HIDE DEF s
  <2>5. GoodCommit(p, s)
    BY <1>3, <2>1, <2>4 DEF GoodCommit
  <2> QED BY <1>1, <1>3, <2>2, <2>4, <2>5, EndKeeps
<1>4. CASE ~CanCommit(p, s) /\ Rejected /\ Abandon(p, w, Idle)
  BY <1>1, <1>4, HomeKeeps
<1> QED BY <1>2, <1>3, <1>4

LEMMA FinishSummaryKeepsClaims ==
  ASSUME StoreInv, WorkInv, ClaimInv, NEW p \in Proc, NEW w \in Worker, FinishSummary(p, w)
  PROVE  ClaimInv' /\ TasksGoOn
<1> DEFINE a == work[p][w]
           b == a.block
           j == Closed(mem[p].job["summary"][b], "succeeded")
           m(v) == IF a.attached THEN PutLayers(mem[p], b, v) ELSE mem[p]
           s(v) == PutJob(m(v), "summary", b, j)
           routed(v) == Routed(b, a.attached, IF a.attached THEN "none" ELSE v)
           failing == [Detached(p, a) EXCEPT !.pc = "failing"]
<1>1. /\ a.pc = "summary" /\ Active(a) /\ KindOf(a) = "summary" /\ clock' = clock /\ "summary" \in Kind
      /\ a.attached \in BOOLEAN
  BY Busy DEF FinishSummary, Active, KindOf, Kind
<1>2. PICK v \in {"extract", "skip"} :
        \/ CanCommit(p, s(v)) /\ Saved(p, s(v)) /\ work' = [work EXCEPT ![p][w] = routed(v)]
        \/ ~CanCommit(p, s(v)) /\ Rejected /\ Abandon(p, w, failing)
  BY DEF FinishSummary
<1> HIDE DEF s, routed
<1>3. CASE CanCommit(p, s(v)) /\ Saved(p, s(v)) /\ work' = [work EXCEPT ![p][w] = routed(v)]
  <2>1. fresh[p] /\ v \in Layers
    BY <1>3 DEF CanCommit, Layers
  <2>2. OwnsJob(p, w, "summary", b)
    <3>1. OwnsJob(p, w, KindOf(work[p][w]), work[p][w].block)
      BY <1>1, <2>1, OwnJob
    <3> QED BY <1>1, <3>1
  <2>3. /\ mem[p] \in Store /\ Written(mem[p]) /\ b \in Block /\ mem[p].job["summary"][b] \in Job
        /\ mem[p].job["summary"][b].status = "running" /\ mem[p].status[b] # "absent"
        /\ mem[p].layers[b] = "none" /\ mem[p].job["extraction"][b].status \in {"none", "skipped"}
        /\ NobodyElse(p, w, "summary", b)
    BY <2>2 DEF OwnsJob
  <2>4. j \in Job /\ j.status = "succeeded"
    <3>1. j \in Job
      BY <2>3, JobTypes DEF WorkInv, JobStatus
    <3>2. j.status = "succeeded"
      BY <2>3 DEF Closed, Job, JobRecord
    <3> QED BY <3>1, <3>2
  <2>5. /\ m(v) \in Store /\ m(v).status = mem[p].status /\ m(v).job = mem[p].job
        /\ m(v).layers = IF a.attached THEN [mem[p].layers EXCEPT ![b] = v] ELSE mem[p].layers
    <3>1. CASE a.attached
      <4>1. m(v) = PutLayers(mem[p], b, v)
        BY <3>1
      <4> HIDE DEF m, j, b
      <4>2. /\ PutLayers(mem[p], b, v) \in Store /\ PutLayers(mem[p], b, v).status = mem[p].status
            /\ PutLayers(mem[p], b, v).layers = [mem[p].layers EXCEPT ![b] = v]
            /\ PutLayers(mem[p], b, v).job = mem[p].job
        BY <2>1, <2>3, PutLayersParts
      <4> QED BY <3>1, <4>1, <4>2
    <3>2. CASE ~a.attached
      BY <2>3, <3>2
    <3> QED BY <3>1, <3>2
  <2>6. /\ OnlyBlock(mem[p], m(v), b)
        /\ ~a.attached => m(v).layers[b] = "none"
    <3>1. mem[p].layers \in [Block -> Layers]
      BY <2>3 DEF Store
    <3> QED BY <2>3, <2>5, <3>1 DEF OnlyBlock
  <2>7. routed(v).pc = "routed" /\ routed(v).block = b
        /\ routed(v).attached = a.attached
    BY DEF Routed, routed
  <2> HIDE DEF j, b, m
  <2>8. s(v) \in Store /\ Written(s(v)) /\ Grows(mem[p], s(v)) /\ OnlyJob(mem[p], s(v), "summary", b)
    BY <2>3, <2>4, <2>5, <2>6, PutSummaryGood DEF s
  <2>9. s(v).job["summary"][b].status = "succeeded" /\ s(v).layers = m(v).layers
    BY <1>1, <2>3, <2>4, <2>5, PutJobParts DEF s
  <2>10. Fits(s(v), routed(v)) /\ ~Active(routed(v))
    BY <1>1, <2>6, <2>7, <2>9 DEF Fits, Active
  <2>11. GoodCommit(p, s(v))
    BY <1>3, <2>1, <2>8 DEF GoodCommit
  <2> HIDE DEF a
  <2> QED BY <1>1, <1>3, <2>3, <2>7, <2>8, <2>10, <2>11, CommitKeeps
<1>4. CASE ~CanCommit(p, s(v)) /\ Rejected /\ Abandon(p, w, failing)
  <2>1. db' = db /\ Copies'
    BY <1>4 DEF Rejected, ClaimInv, Copies
  <2>2. ASSUME NEW q \in Proc, NEW x \in Worker PROVE Quiet(q, work[q][x], work'[q][x])
    <3>1. CASE q = p /\ x = w
      BY <1>1, <1>4, <3>1 DEF Abandon, WorkInv, Quiet
    <3>2. CASE q = p /\ x # w
      BY <1>4, <3>2 DEF Abandon, WorkInv, Quiet
    <3>3. CASE q # p
      BY <1>4, <3>3 DEF Abandon, WorkInv, Quiet
    <3> QED BY <3>1, <3>2, <3>3
  <2> QED BY <1>1, <2>1, <2>2, SameDbKeeps
<1> QED BY <1>2, <1>3, <1>4

LEMMA PickSummarizedKeepsClaims ==
  ASSUME StoreInv, WorkInv, ClaimInv, NEW p \in Proc, NEW w \in Worker, NEW b \in Block,
         PickSummarized(p, w, b)
  PROVE  ClaimInv' /\ TasksGoOn
<1>1. /\ work' = [work EXCEPT ![p][w] = Routed(b, TRUE, "none")] /\ db' = db /\ clock' = clock /\ Copies'
      /\ mem[p].job["summary"][b].status = "succeeded"
  BY DEF PickSummarized, ClaimInv, Copies
<1>2. ASSUME NEW q \in Proc, NEW x \in Worker PROVE Quiet(q, work[q][x], work'[q][x])
  <2>1. CASE q = p /\ x = w
    <3>1. work'[q][x] = Routed(b, TRUE, "none")
      BY <1>1, <2>1 DEF WorkInv
    <3> QED BY <1>1, <2>1, <3>1, Zenon DEF Quiet
  <2>2. CASE ~(q = p /\ x = w)
    <3>1. work'[q][x] = work[q][x]
      BY <1>1, <2>2 DEF WorkInv
    <3> QED BY <3>1 DEF Quiet
  <2> QED BY <2>1, <2>2
<1> QED BY <1>1, <1>2, SameDbKeeps

LEMMA FinishExtractionKeepsClaims ==
  ASSUME StoreInv, WorkInv, ClaimInv, NEW p \in Proc, NEW w \in Worker, FinishExtraction(p, w)
  PROVE  ClaimInv' /\ TasksGoOn
<1> DEFINE a == work[p][w]
           b == a.block
           n(found) == IF found THEN PutEvents(mem[p], b, mem[p].events[b] + 1) ELSE mem[p]
           m(found) == IF a.attached THEN PutStatus(n(found), b, "ready") ELSE n(found)
           j(found) == Closed(mem[p].job["extraction"][b], IF found THEN "succeeded" ELSE "skipped")
           s(found) == PutJob(m(found), "extraction", b, j(found))
<1>1. /\ Active(a) /\ KindOf(a) = "extraction" /\ clock' = clock /\ "extraction" \in Kind
      /\ a.attached \in BOOLEAN
  BY Busy DEF FinishExtraction, Active, KindOf, Kind
<1>2. PICK found \in BOOLEAN :
        \/ CanCommit(p, s(found)) /\ Saved(p, s(found)) /\ work' = [work EXCEPT ![p][w] = Idle]
        \/ Rejected /\ Abandon(p, w, Idle)
  BY DEF FinishExtraction
<1> HIDE DEF s
<1>3. CASE CanCommit(p, s(found)) /\ Saved(p, s(found)) /\ work' = [work EXCEPT ![p][w] = Idle]
  <2>1. fresh[p]
    BY <1>3 DEF CanCommit
  <2>2. OwnsJob(p, w, "extraction", b)
    <3>1. OwnsJob(p, w, KindOf(work[p][w]), work[p][w].block)
      BY <1>1, <2>1, OwnJob
    <3> QED BY <1>1, <3>1
  <2>3. /\ mem[p] \in Store /\ Written(mem[p]) /\ b \in Block /\ mem[p].job["extraction"][b] \in Job
        /\ mem[p].status[b] # "absent" /\ mem[p].layers[b] = "extract"
        /\ NobodyElse(p, w, "extraction", b)
    BY <2>2 DEF OwnsJob
  <2>4. j(found) \in Job
    BY <2>3, JobTypes DEF WorkInv, JobStatus
  <2>5. /\ n(found) \in Store /\ n(found).status = mem[p].status
        /\ n(found).layers = mem[p].layers /\ n(found).job = mem[p].job
    <3>1. mem[p].events[b] + 1 \in Nat
      BY <2>3 DEF Store
    <3> QED BY <2>3, <3>1, PutEventsParts
  <2> HIDE DEF n, j
  <2>6. /\ m(found) \in Store /\ m(found).layers = mem[p].layers /\ m(found).job = mem[p].job
        /\ m(found).status = mem[p].status \/ m(found).status = [mem[p].status EXCEPT ![b] = "ready"]
    <3>1. CASE a.attached
      <4> DEFINE u == n(found)
                 t == m(found)
      <4>1. /\ t = PutStatus(u, b, "ready") /\ u \in Store /\ u.layers = mem[p].layers /\ u.job = mem[p].job
            /\ u.status = mem[p].status
        BY <2>5, <3>1
      <4> HIDE DEF u, t, b
      <4>2. t \in Store /\ t.layers = u.layers /\ t.job = u.job /\ t.status = [u.status EXCEPT ![b] = "ready"]
        BY <2>3, <4>1, PutStatusParts
      <4> QED BY <4>1, <4>2 DEF t
    <3>2. CASE ~a.attached
      BY <2>5, <3>2
    <3> QED BY <3>1, <3>2
  <2>7. OnlyBlock(mem[p], m(found), b)
    <3>1. mem[p].status \in [Block -> {"absent", "pending", "ready"}]
      BY <2>3 DEF Store
    <3> QED BY <2>3, <2>6, <3>1 DEF OnlyBlock
  <2> HIDE DEF b, m
  <2>8. s(found) \in Store /\ Written(s(found)) /\ Grows(mem[p], s(found)) /\ OnlyJob(mem[p], s(found), "extraction", b)
    BY <2>3, <2>4, <2>6, <2>7, PutExtractionGood DEF s
  <2>9. GoodCommit(p, s(found))
    BY <1>3, <2>1, <2>8 DEF GoodCommit
  <2> QED BY <1>1, <1>3, <2>3, <2>8, <2>9, EndKeeps
<1>4. CASE Rejected /\ Abandon(p, w, Idle)
  BY <1>1, <1>4, HomeKeeps
<1> QED BY <1>2, <1>3, <1>4

\* An activation that skips the extraction ends no claim: layers that ask for no cards have no
\* extraction that runs.
LEMMA SkipExtractionKeepsClaims ==
  ASSUME StoreInv, WorkInv, ClaimInv, NEW p \in Proc, NEW w \in Worker, SkipExtraction(p, w)
  PROVE  ClaimInv' /\ TasksGoOn
<1> DEFINE a == work[p][w]
           b == a.block
           j == Unleased(Closed(mem[p].job["extraction"][b], "skipped"))
           m == IF a.attached THEN PutStatus(mem[p], b, "ready") ELSE mem[p]
           s == PutJob(m, "extraction", b, j)
<1>1. /\ a.pc = "routed" /\ View(p, w) = "skip" /\ clock' = clock /\ "extraction" \in Kind /\ "summary" \in Kind
      /\ a.attached \in BOOLEAN /\ b \in Block /\ mem[p] \in Store /\ mem[p].job["extraction"][b] \in Job
  BY Busy DEF SkipExtraction, Kind
<1>2. \/ CanCommit(p, s) /\ Saved(p, s) /\ work' = [work EXCEPT ![p][w] = Idle]
      \/ Rejected /\ Abandon(p, w, Idle)
  BY DEF SkipExtraction
<1> HIDE DEF s
<1>3. CASE CanCommit(p, s) /\ Saved(p, s) /\ work' = [work EXCEPT ![p][w] = Idle]
  <2>1. fresh[p]
    BY <1>3 DEF CanCommit
  <2>2. /\ mem[p].layers = db.layers /\ mem[p].status = db.status /\ Written(mem[p])
        /\ mem[p].job["summary"][b].status = db.job["summary"][b].status
        /\ mem[p].job["extraction"][b].status = db.job["extraction"][b].status
    <3>1. /\ SameClaim(mem[p].job["summary"][b], db.job["summary"][b])
          /\ SameClaim(mem[p].job["extraction"][b], db.job["extraction"][b])
          /\ mem[p].layers = db.layers /\ mem[p].status = db.status
      BY <1>1, <2>1, FreshCopy
    <3> QED BY <3>1 DEF SameClaim, ClaimInv, Copies
  <2>3. Fits(db, a)
    BY DEF ClaimInv, RoutedFits
  <2>4. db.job["summary"][b].status = "succeeded" /\ db.layers[b] # "extract"
    BY <1>1, <2>2, <2>3 DEF Fits, View
  <2>5. mem[p].job["extraction"][b].status \in {"none", "skipped"} /\ mem[p].status[b] # "absent"
    BY <1>1, <2>2, <2>4 DEF Written
  <2>6. j \in Job /\ j.status = "skipped"
    <3>1. Closed(mem[p].job["extraction"][b], "skipped") \in Job
      BY <1>1, JobTypes DEF WorkInv, JobStatus
    <3>2. j \in Job
      BY <3>1, JobTypes DEF WorkInv
    <3>3. j.status = "skipped"
      BY <1>1 DEF Unleased, Closed, Job, JobRecord
    <3> QED BY <3>2, <3>3
  <2>7. /\ m \in Store /\ m.layers = mem[p].layers /\ m.job = mem[p].job
        /\ m.status = mem[p].status \/ m.status = [mem[p].status EXCEPT ![b] = "ready"]
    BY <1>1, PutStatusParts
  <2>8. OnlyBlock(mem[p], m, b)
    <3>1. mem[p].status \in [Block -> {"absent", "pending", "ready"}]
      BY <1>1 DEF Store
    <3> QED BY <1>1, <2>5, <2>7, <3>1 DEF OnlyBlock
  <2>9. NobodyElse(p, w, "extraction", b)
    <3>1. ASSUME NEW q \in Proc, NEW x \in Worker,
                 Active(work[q][x]), KindOf(work[q][x]) = "extraction", work[q][x].block = b
          PROVE  FALSE
      <4>1. mem[p].job["extraction"][b].status = "running"
        BY <2>1, <3>1, OwnJobRuns
      <4> QED BY <2>5, <4>1
    <3> QED BY <3>1 DEF NobodyElse
  <2> HIDE DEF b, m, j
  <2>10. s \in Store /\ Written(s) /\ Grows(mem[p], s) /\ OnlyJob(mem[p], s, "extraction", b)
    BY <1>1, <2>2, <2>6, <2>7, <2>8, PutExtractionGood DEF s
  <2>11. GoodCommit(p, s)
    BY <1>3, <2>1, <2>10 DEF GoodCommit
  <2> QED BY <1>1, <1>3, <2>9, <2>10, <2>11, EndKeeps
<1>4. CASE Rejected /\ Abandon(p, w, Idle)
  BY <1>1, <1>4, HomeKeeps
<1> QED BY <1>2, <1>3, <1>4

\* A claim: the job did not run, so nobody held it, and its new lease counts.
LEMMA ClaimKeeps ==
  ASSUME StoreInv, WorkInv, ClaimInv, NEW p \in Proc, NEW w \in Worker, NEW k \in Kind, NEW b \in Block,
         NEW j \in Job, j = Claimed(mem[p].job[k][b]), mem[p].job[k][b].status # "running",
         NEW s, s.job[k][b] = j, GoodCommit(p, s), OnlyJob(mem[p], s, k, b), clock' = clock,
         ~Active(work[p][w]), work' = [work EXCEPT ![p][w] = Holding(k, b, j)]
  PROVE  ClaimInv' /\ TasksGoOn
<1> DEFINE i == mem[p].job[k][b]
           d == db.job[k][b]
           next == Holding(k, b, j)
<1>1. /\ fresh[p] /\ s \in Store /\ db \in Store /\ mem[p] \in Store /\ clock \in Nat
      /\ k \in {"summary", "extraction"}
  BY DEF GoodCommit, StoreInv, WorkInv, Kind
<1>2. i \in Job /\ SameClaim(i, d) /\ d \in Job
  BY <1>1, FreshCopy DEF Store
<1>3. NobodyElse(p, w, k, b)
  <2>1. ASSUME NEW q \in Proc, NEW v \in Worker,
               Active(work[q][v]), KindOf(work[q][v]) = k, work[q][v].block = b
        PROVE  FALSE
    <3>1. mem[p].job[k][b].status = "running"
      BY <1>1, <2>1, OwnJobRuns
    <3> QED BY <3>1
  <2> QED BY <2>1 DEF NobodyElse
<1>4. j.status = "running" /\ j.lease = clock + Lease
  BY <1>2 DEF Claimed, Job, JobRecord
<1>5. Merged(s).job[k][b] = j
  <2>1. Merged(s).job[k][b] = MergeLease(j, d)
    BY <1>1, MergedJob
  <2>2. d.status # "running"
    BY <1>2 DEF SameClaim
  <2> QED BY <2>1, <2>2 DEF MergeLease
<1>6. /\ next.pc = k /\ next.block = b /\ next.attempts = j.attempts /\ next.round = j.round
      /\ KindOf(next) = k
  BY <1>1 DEF Holding, KindOf
<1>7. Holds(Merged(s), clock, next)
  <2>1. j.lease > clock
    BY <1>1, <1>4, ConstantsAssumption
  <2> HIDE DEF Merged, next
  <2> QED BY <1>4, <1>5, <1>6, <2>1 DEF Holds, RunningAs
<1>8. Fits(s, next)
  BY <1>1, <1>6 DEF Fits
<1> HIDE DEF next, Merged
<1> QED BY <1>3, <1>6, <1>7, <1>8, CommitKeeps DEF next

LEMMA ClaimSummaryKeepsClaims ==
  ASSUME StoreInv, WorkInv, ClaimInv, NEW p \in Proc, NEW w \in Worker, NEW b \in Block,
         ClaimSummary(p, w, b)
  PROVE  ClaimInv' /\ TasksGoOn
<1> DEFINE i == mem[p].job["summary"][b]
           j == Claimed(i)
           s == PutJob(mem[p], "summary", b, j)
<1>1. /\ mem[p].status[b] = "pending" /\ JobCanRun(i) /\ ~Active(work[p][w]) /\ clock' = clock
      /\ "summary" \in Kind /\ mem[p] \in Store /\ Written(mem[p])
  BY DEF ClaimSummary, Kind, Active, StoreInv, ClaimInv, Copies
<1>2. i \in Job
  BY <1>1 DEF Store
<1>3. j \in Job /\ i.status # "running" /\ i.status # "succeeded"
  BY <1>1, <1>2, JobTypes DEF WorkInv, JobCanRun
<1>4. \/ CanCommit(p, s) /\ Saved(p, s) /\ work' = [work EXCEPT ![p][w] = Holding("summary", b, j)]
      \/ Rejected /\ Abandon(p, w, Idle)
  BY DEF ClaimSummary
<1>5. CASE CanCommit(p, s) /\ Saved(p, s) /\ work' = [work EXCEPT ![p][w] = Holding("summary", b, j)]
  <2>1. fresh[p]
    BY <1>5 DEF CanCommit
  <2>2. /\ mem[p].layers[b] = "none"
        /\ mem[p].job["extraction"][b].status \in {"none", "skipped"}
    BY <1>1, <1>3 DEF Written
  <2>3. OnlyBlock(mem[p], mem[p], b)
    BY <1>1 DEF OnlyBlock
  <2> DEFINE k == "summary"
  <2>4. j = Claimed(mem[p].job[k][b]) /\ mem[p].job[k][b].status # "running" /\ k \in Kind
    BY <1>1, <1>3
  <2> HIDE DEF j
  <2>5. s \in Store /\ Written(s) /\ Grows(mem[p], s) /\ OnlyJob(mem[p], s, k, b)
    BY <1>1, <1>3, <2>2, <2>3, PutSummaryGood
  <2>6. s.job[k][b] = j
    BY <1>1, <1>3, PutJobParts
  <2> HIDE DEF s
  <2>7. GoodCommit(p, s)
    BY <1>5, <2>1, <2>5 DEF GoodCommit
  <2>8. work' = [work EXCEPT ![p][w] = Holding(k, b, j)]
    BY <1>5
  <2> HIDE DEF k
  <2> QED BY <1>1, <1>3, <2>4, <2>5, <2>6, <2>7, <2>8, ClaimKeeps
<1>6. CASE Rejected /\ Abandon(p, w, Idle)
  BY <1>1, <1>6, HomeKeeps
<1> QED BY <1>4, <1>5, <1>6

LEMMA ClaimExtractionKeepsClaims ==
  ASSUME StoreInv, WorkInv, ClaimInv, NEW p \in Proc, NEW w \in Worker, ClaimExtraction(p, w)
  PROVE  ClaimInv' /\ TasksGoOn
<1> DEFINE b == work[p][w].block
           i == mem[p].job["extraction"][b]
           j == Claimed(i)
           s == PutJob(mem[p], "extraction", b, j)
<1>1. /\ work[p][w].pc = "routed" /\ ~Active(work[p][w]) /\ b \in Block /\ clock' = clock
      /\ "extraction" \in Kind /\ mem[p] \in Store /\ i \in Job /\ Written(mem[p])
  BY Busy DEF ClaimExtraction, Kind, Active, ClaimInv, Copies
<1>2. \/ /\ ExtractionTarget(p, b) /\ i.status \in {"none", "failed"} /\ CanCommit(p, s) /\ Saved(p, s)
         /\ work' = [work EXCEPT ![p][w] = Holding("extraction", b, j)]
      \/ Rejected /\ Abandon(p, w, Idle)
      \/ Rejected /\ work' = [work EXCEPT ![p][w] = Idle]
  BY DEF ClaimExtraction
<1>3. CASE /\ ExtractionTarget(p, b) /\ i.status \in {"none", "failed"} /\ CanCommit(p, s) /\ Saved(p, s)
           /\ work' = [work EXCEPT ![p][w] = Holding("extraction", b, j)]
  <2>1. fresh[p] /\ mem[p].status[b] = "pending" /\ mem[p].layers[b] = "extract"
    BY <1>3 DEF CanCommit, ExtractionTarget
  <2>2. j \in Job
    <3>1. i.status = "none" => i.attempts = 0
      BY <1>1 DEF Job
    <3>2. i.status = "none" \/ i.attempts < MaxAttempts
      BY <1>3 DEF ExtractionTarget, JobCanRun
    <3>3. 0 < MaxAttempts
      BY ConstantsAssumption
    <3>4. i.attempts < MaxAttempts
      BY <3>1, <3>2, <3>3
    <3> QED BY <1>1, <3>4, JobTypes DEF WorkInv
  <2>3. OnlyBlock(mem[p], mem[p], b)
    BY <2>1 DEF OnlyBlock
  <2> DEFINE k == "extraction"
  <2>4. j = Claimed(mem[p].job[k][b]) /\ mem[p].job[k][b].status # "running" /\ k \in Kind
    BY <1>1, <1>3
  <2> HIDE DEF j, b
  <2>5. s \in Store /\ Written(s) /\ Grows(mem[p], s) /\ OnlyJob(mem[p], s, k, b)
    BY <1>1, <2>1, <2>2, <2>3, PutExtractionGood
  <2>6. s.job[k][b] = j
    BY <1>1, <2>2, PutJobParts
  <2> HIDE DEF s
  <2>7. GoodCommit(p, s)
    BY <1>3, <2>1, <2>5 DEF GoodCommit
  <2>8. work' = [work EXCEPT ![p][w] = Holding(k, b, j)]
    BY <1>3
  <2> HIDE DEF k
  <2> QED BY <1>1, <2>2, <2>4, <2>5, <2>6, <2>7, <2>8, ClaimKeeps
<1>4. CASE Rejected /\ (Abandon(p, w, Idle) \/ work' = [work EXCEPT ![p][w] = Idle])
  BY <1>1, <1>4, HomeKeeps
<1> QED BY <1>2, <1>3, <1>4

\* What is said of claims, leases apart, is said of every copy with other leases.
LEMMA LikeWritten ==
  ASSUME NEW s, NEW t, SameUpToLease(t, s)
  PROVE  /\ Written(s) => Written(t)
         /\ \A u, v : SameUpToLease(v, u) /\ Grows(s, u) => Grows(t, v)
         /\ \A a : a.block \in Block /\ Fits(s, a) => Fits(t, a)
<1>1. /\ t.status = s.status /\ t.layers = s.layers
      /\ \A k \in Kind, b \in Block : t.job[k][b].status = s.job[k][b].status
      /\ "summary" \in Kind /\ "extraction" \in Kind
  BY DEF SameUpToLease, SameClaim, Kind
<1>2. Written(s) => Written(t)
  BY <1>1 DEF Written
<1>3. ASSUME NEW u, NEW v, SameUpToLease(v, u), Grows(s, u) PROVE Grows(t, v)
  <2>1. v.layers = u.layers /\ \A k \in Kind, b \in Block : v.job[k][b].status = u.job[k][b].status
    BY <1>3 DEF SameUpToLease, SameClaim
  <2> QED BY <1>1, <1>3, <2>1 DEF Grows
<1>4. \A a : a.block \in Block /\ Fits(s, a) => Fits(t, a)
  BY <1>1 DEF Fits
<1> QED BY <1>2, <1>3, <1>4

LEMMA RenewKeepsClaims ==
  ASSUME StoreInv, WorkInv, ClaimInv, NEW p \in Proc, NEW w \in Worker, Renew(p, w)
  PROVE  ClaimInv' /\ TasksGoOn
<1>1. PICK l \in BOOLEAN : work' = [work EXCEPT ![p][w].lost = l]
  BY DEF Renew
<1>2. /\ clock' = clock /\ clock \in Nat /\ Lease \in Nat \ {0} /\ db \in Store
      /\ SameUpToLease(db', db) /\ \A q \in Proc : SameUpToLease(mem'[q], mem[q])
      /\ \A k \in Kind, b \in Block : db'.job[k][b].lease \in {db.job[k][b].lease, clock + Lease}
  BY HeartbeatWrites, ConstantsAssumption DEF Renew, WorkInv, StoreInv
<1>3. ASSUME NEW q \in Proc, NEW v \in Worker
      PROVE  /\ work'[q][v].pc = work[q][v].pc /\ work'[q][v].attached = work[q][v].attached
             /\ work'[q][v].layers = work[q][v].layers /\ SameTask(work'[q][v], work[q][v])
             /\ KindOf(work'[q][v]) = KindOf(work[q][v])
  <2>1. work[q][v] \in Activation
    BY DEF WorkInv
  <2>2. work'[q][v] = work[q][v] \/ work'[q][v] = [work[q][v] EXCEPT !.lost = l]
    BY <1>1 DEF WorkInv
  <2> QED BY <2>1, <2>2 DEF Activation, SameTask, KindOf
<1>4. ASSUME NEW q \in Proc, NEW v \in Worker, Active(work[q][v])
      PROVE  Holds(db', clock, work[q][v])
  <2> DEFINE k == KindOf(work[q][v])
             b == work[q][v].block
  <2>1. k \in Kind /\ b \in Block
    BY <1>4, BusyTypes
  <2>2. RunningAs(db.job[k][b], work[q][v]) /\ db.job[k][b].lease > clock
    BY <1>4 DEF ClaimInv, ClaimsHeld, Holds
  <2>3. SameClaim(db'.job[k][b], db.job[k][b]) /\ db'.job[k][b].lease \in {db.job[k][b].lease, clock + Lease}
    BY <1>2, <2>1 DEF SameUpToLease
  <2>4. db'.job[k][b].lease > clock
    <3>1. clock + Lease > clock
      BY <1>2
    <3> QED BY <2>2, <2>3, <3>1
  <2>5. RunningAs(db'.job[k][b], work[q][v])
    BY <2>2, <2>3 DEF RunningAs, SameClaim
  <2> QED BY <2>4, <2>5 DEF Holds
<1>5. ClaimsHeld'
  <2>1. ASSUME NEW q \in Proc, NEW v \in Worker, Active(work'[q][v])
        PROVE  Holds(db', clock', work'[q][v])
    <3>1. Follows(work[q][v], work'[q][v]) /\ Active(work[q][v])
      BY <1>3, <2>1 DEF Follows, Active
    <3> QED BY <1>2, <1>4, <3>1, FollowsHolds
  <2> QED BY <2>1 DEF ClaimsHeld
<1>6. OneHolder'
  <2>1. \A q \in Proc, v \in Worker : Active(work'[q][v]) => Follows(work[q][v], work'[q][v])
    BY <1>3 DEF Follows, Active
  <2> QED BY <2>1, WorkFollows DEF ClaimInv
<1>7. Copies'
  BY <1>2, LikeWritten DEF ClaimInv, Copies
<1>8. RoutedFits'
  <2>1. ASSUME NEW q \in Proc, NEW v \in Worker PROVE Fits(db', work'[q][v])
    <3>1. work[q][v].pc # "idle" => work[q][v].block \in Block
      BY BusyTypes
    <3>2. Fits(db, work[q][v])
      BY DEF ClaimInv, RoutedFits
    <3>3. Fits(db', work[q][v])
      <4>1. CASE work[q][v].pc = "routed"
        BY <1>2, <3>1, <3>2, <4>1, LikeWritten
      <4>2. CASE work[q][v].pc # "routed"
        BY <4>2 DEF Fits
      <4> QED BY <4>1, <4>2
    <3> QED BY <1>3, <3>3 DEF Fits, SameTask
  <2> QED BY <2>1 DEF RoutedFits
<1>9. TasksGoOn
  BY <1>3 DEF TasksGoOn
<1> QED BY <1>5, <1>6, <1>7, <1>8, <1>9 DEF ClaimInv

-----------------------------------------------------------------------------
(* The steps of the instance and of its environment                        *)

\* A commit that is rejected and has no activation of its own.
LEMMA DetachAllKeepsClaims ==
  ASSUME StoreInv, WorkInv, ClaimInv, NEW p \in Proc, db' = db, clock' = clock, Copies', DetachAll(p)
  PROVE  ClaimInv' /\ TasksGoOn
<1>1. ASSUME NEW q \in Proc, NEW v \in Worker PROVE Quiet(q, work[q][v], work'[q][v])
  <2>1. work'[q][v] \in {work[q][v], Detached(q, work[q][v])}
    BY DEF DetachAll, WorkInv
  <2> QED BY <2>1, Zenon DEF Quiet
<1> QED BY <1>1, SameDbKeeps

LEMMA RejectedKeepsClaims ==
  ASSUME StoreInv, WorkInv, ClaimInv, NEW p \in Proc, Rejected, clock' = clock, DetachAll(p)
  PROVE  ClaimInv' /\ TasksGoOn
<1>1. db' = db /\ Copies'
  BY DEF Rejected, ClaimInv, Copies
<1> QED BY <1>1, DetachAllKeepsClaims

\* Nobody is at work on a job that does not run.
LEMMA NotHeld ==
  ASSUME StoreInv, WorkInv, ClaimInv, NEW p \in Proc, fresh[p], NEW k \in Kind, NEW b \in Block,
         mem[p].job[k][b].status # "running", NEW s, OnlyJob(mem[p], s, k, b)
  PROVE  LeavesHeld(p, s)
<1>1. ASSUME NEW q \in Proc, NEW v \in Worker, Active(work[q][v])
      PROVE  LET a == work[q][v] IN s.job[KindOf(a)][a.block] = mem[p].job[KindOf(a)][a.block]
  <2> DEFINE l == KindOf(work[q][v])
             c == work[q][v].block
  <2>1. c \in Block /\ l \in Kind /\ mem[p].job[l][c].status = "running"
    BY <1>1, OwnJobRuns
  <2> HIDE DEF l, c
  <2>2. s.job[l][c] = mem[p].job[l][c]
    BY <2>1 DEF OnlyJob
  <2> QED BY <2>2 DEF l, c
<1> QED BY <1>1 DEF LeavesHeld

LEMMA OtherMutationKeepsClaims ==
  ASSUME StoreInv, WorkInv, ClaimInv, NEW p \in Proc, OtherMutation(p)
  PROVE  ClaimInv' /\ TasksGoOn
<1>1. clock' = clock
  BY DEF OtherMutation
<1>2. CASE CanCommit(p, mem[p]) /\ Saved(p, mem[p]) /\ UNCHANGED work
  <2>1. GoodCommit(p, mem[p])
    BY <1>2 DEF GoodCommit, CanCommit, StoreInv, ClaimInv, Copies, Grows
  <2> DEFINE s == mem[p]
  <2>2. LeavesHeld(p, s)
    BY DEF LeavesHeld
  <2>3. GoodCommit(p, s)
    BY <2>1
  <2> HIDE DEF s
  <2> QED BY <1>1, <1>2, <2>2, <2>3, QuietCommitKeeps
<1>3. CASE Rejected /\ DetachAll(p)
  BY <1>1, <1>3, RejectedKeepsClaims
<1> QED BY <1>2, <1>3 DEF OtherMutation

LEMMA SealKeepsClaims ==
  ASSUME StoreInv, WorkInv, ClaimInv, NEW p \in Proc, NEW b \in Block, Seal(p, b)
  PROVE  ClaimInv' /\ TasksGoOn
<1> DEFINE j == [NoJob EXCEPT !.status = "pending"]
           m == PutStatus(mem[p], b, "pending")
           s == PutJob(m, "summary", b, j)
<1>1. /\ clock' = clock /\ mem[p].status[b] = "absent" /\ mem[p] \in Store /\ Written(mem[p])
      /\ "summary" \in Kind /\ "extraction" \in Kind
  BY DEF Seal, StoreInv, Kind, ClaimInv, Copies
<1>2. j \in Job
  BY ConstantsAssumption DEF NoJob, Job, JobRecord, JobStatus
<1>3. \/ CanCommit(p, s) /\ Saved(p, s) /\ UNCHANGED work
      \/ Rejected /\ DetachAll(p)
  BY DEF Seal
<1> HIDE DEF j
<1>4. CASE CanCommit(p, s) /\ Saved(p, s) /\ UNCHANGED work
  <2>1. fresh[p]
    BY <1>4 DEF CanCommit
  <2>2. /\ m \in Store /\ m.status = [mem[p].status EXCEPT ![b] = "pending"]
        /\ m.layers = mem[p].layers /\ m.job = mem[p].job
    BY <1>1, PutStatusParts
  <2>3. /\ mem[p].job["summary"][b].status = "none" /\ mem[p].job["extraction"][b].status = "none"
        /\ mem[p].layers[b] = "none"
    BY <1>1 DEF Written
  <2>4. OnlyBlock(mem[p], m, b)
    <3>1. mem[p].status \in [Block -> {"absent", "pending", "ready"}]
      BY <1>1 DEF Store
    <3> QED BY <2>2, <3>1 DEF OnlyBlock
  <2> HIDE DEF m
  <2>5. s \in Store /\ Written(s) /\ Grows(mem[p], s) /\ OnlyJob(mem[p], s, "summary", b)
    BY <1>1, <1>2, <2>2, <2>3, <2>4, PutSummaryGood
  <2> HIDE DEF s
  <2>6. GoodCommit(p, s)
    BY <1>4, <2>1, <2>5 DEF GoodCommit
  <2>7. LeavesHeld(p, s)
    <3> DEFINE k == "summary"
    <3>1. k \in Kind /\ mem[p].job[k][b].status # "running" /\ OnlyJob(mem[p], s, k, b)
      BY <1>1, <2>3, <2>5
    <3> HIDE DEF k
    <3> QED BY SMTT(30), <2>1, <3>1, NotHeld
  <2> QED BY <1>1, <1>4, <2>6, <2>7, QuietCommitKeeps
<1>5. CASE Rejected /\ DetachAll(p)
  BY <1>1, <1>5, RejectedKeepsClaims
<1> QED BY <1>3, <1>4, <1>5

\* A manual retry needs a job that failed, which nobody holds.
LEMMA ManualRetryKeepsClaims ==
  ASSUME StoreInv, WorkInv, ClaimInv, NEW p \in Proc, NEW k \in Kind, NEW b \in Block, ManualRetry(p, k, b)
  PROVE  ClaimInv' /\ TasksGoOn
<1> DEFINE j == Retried(k, mem[p].job[k][b])
           s == PutJob(mem[p], k, b, j)
<1>1. /\ clock' = clock /\ mem[p].status[b] = "pending" /\ mem[p].job[k][b] \in Job /\ mem[p] \in Store
      /\ Written(mem[p]) /\ k \in {"summary", "extraction"}
      /\ k = "extraction" => mem[p].layers[b] = "extract"
  BY DEF ManualRetry, StoreInv, Store, ClaimInv, Copies, Kind
<1>2. j \in Job
  BY <1>1, JobTypes DEF WorkInv
<1>3. \/ mem[p].job[k][b].status = "failed" /\ CanCommit(p, s) /\ Saved(p, s) /\ UNCHANGED work
      \/ Rejected /\ DetachAll(p)
  BY DEF ManualRetry
<1> HIDE DEF j
<1>4. CASE mem[p].job[k][b].status = "failed" /\ CanCommit(p, s) /\ Saved(p, s) /\ UNCHANGED work
  <2>1. fresh[p]
    BY <1>4 DEF CanCommit
  <2>2. OnlyBlock(mem[p], mem[p], b)
    BY <1>1 DEF OnlyBlock
  <2>3. s \in Store /\ Written(s) /\ Grows(mem[p], s) /\ OnlyJob(mem[p], s, k, b)
    <3>1. CASE k = "summary"
      <4>1. mem[p].layers[b] = "none" /\ mem[p].job["extraction"][b].status \in {"none", "skipped"}
        BY <1>1, <1>4, <3>1 DEF Written
      <4> QED BY <1>1, <1>2, <1>4, <2>2, <3>1, <4>1, PutSummaryGood
    <3>2. CASE k = "extraction"
      BY <1>1, <1>2, <2>2, <3>2, PutExtractionGood
    <3> QED BY <1>1, <3>1, <3>2
  <2> HIDE DEF s
  <2>4. GoodCommit(p, s)
    BY <1>4, <2>1, <2>3 DEF GoodCommit
  <2>5. LeavesHeld(p, s)
    <3>1. mem[p].job[k][b].status # "running"
      BY <1>4
    <3> QED BY <2>1, <2>3, <3>1, NotHeld
  <2> QED BY <1>1, <1>4, <2>4, <2>5, QuietCommitKeeps
<1>5. CASE Rejected /\ DetachAll(p)
  BY <1>1, <1>5, RejectedKeepsClaims
<1> QED BY <1>3, <1>4, <1>5

\* Recovery judges by the lease its instance knows.  The commit refuses a claim whose lease has
\* moved on, so what it sweeps has run out in the database, too: nobody holds it.
LEMMA SweptGood ==
  ASSUME StoreInv, WorkInv, ClaimInv, NEW p \in Proc, NEW k \in Kind, NEW s \in Store, CanCommit(p, s),
         s.status = mem[p].status, s.layers = mem[p].layers,
         \A l \in Kind, c \in Block :
           s.job[l][c] = IF l = k /\ Expired(mem[p].job[l][c]) THEN Interrupted(mem[p].job[l][c])
                                                              ELSE mem[p].job[l][c]
  PROVE  Written(s) /\ Grows(mem[p], s) /\ LeavesHeld(p, s)
<1>1. fresh[p] /\ mem[p] \in Store /\ Written(mem[p]) /\ "summary" \in Kind /\ "extraction" \in Kind
  BY DEF CanCommit, StoreInv, ClaimInv, Copies, Kind
<1>2. \A l \in Kind, c \in Block : mem[p].job[l][c].status # "running" => s.job[l][c] = mem[p].job[l][c]
  BY DEF Expired
<1>3. Written(s) /\ Grows(mem[p], s)
  BY SMTT(30), <1>1, <1>2 DEF Written, Grows
<1>4. ASSUME NEW q \in Proc, NEW v \in Worker, Active(work[q][v])
      PROVE  LET a == work[q][v] IN s.job[KindOf(a)][a.block] = mem[p].job[KindOf(a)][a.block]
  <2> DEFINE l == KindOf(work[q][v])
             c == work[q][v].block
             i == mem[p].job[l][c]
             d == db.job[l][c]
  <2>1. c \in Block /\ l \in Kind /\ i.status = "running"
    BY <1>1, <1>4, OwnJobRuns
  <2>2. d.status = "running" /\ d.lease > clock
    BY <1>4 DEF ClaimInv, ClaimsHeld, Holds, RunningAs
  <2>3. i \in Job /\ d \in Job /\ clock \in Nat
    <3>1. mem[p] \in Store /\ db \in Store /\ clock \in Nat
      BY <1>1 DEF StoreInv, WorkInv
    <3> HIDE DEF l, c
    <3>2. mem[p].job[l][c] \in Job /\ db.job[l][c] \in Job
      BY <2>1, <3>1 DEF Store
    <3> QED BY <3>1, <3>2
  <2>4. ~LeaseConflict(s.job[l][c], i, d)
    BY <2>1 DEF CanCommit
  <2> HIDE DEF l, c
  <2>5. ASSUME l = k, Expired(i) PROVE FALSE
    <3>1. s.job[l][c] = Interrupted(i)
      BY <2>1, <2>5
    <3>2. s.job[l][c].status = "failed"
      BY <2>3, <3>1 DEF Interrupted, Job, JobRecord
    <3>3. i.lease = d.lease
      BY <2>1, <2>2, <2>4, <3>2 DEF LeaseConflict
    <3>4. i.lease <= clock /\ d.lease \in Nat
      BY <2>3, <2>5 DEF Expired, Job, JobRecord
    <3> QED BY <2>2, <2>3, <3>3, <3>4
  <2>6. s.job[l][c] = i
    BY <2>1, <2>5
  <2> QED BY <2>6 DEF l, c
<1>5. LeavesHeld(p, s)
  BY <1>4 DEF LeavesHeld
<1> QED BY <1>3, <1>5

LEMMA RecoverKeepsClaims ==
  ASSUME StoreInv, WorkInv, ClaimInv, NEW p \in Proc, NEW k \in Kind, Recover(p, k)
  PROVE  ClaimInv' /\ TasksGoOn
<1> DEFINE Swept(j) == IF Expired(j) THEN Interrupted(j) ELSE j
           f == [b \in Block |-> Swept(mem[p].job[k][b])]
           s == [mem[p] EXCEPT !.job[k] = f]
<1>1. clock' = clock /\ mem[p] \in Store
  BY DEF Recover, StoreInv
<1>2. \A j \in Job : Swept(j) \in Job
  BY JobTypes DEF WorkInv
<1>3. /\ f \in [Block -> Job]
      /\ \A b \in Block : f[b] = Swept(mem[p].job[k][b])
  BY <1>1, <1>2 DEF Store
<1>4. \/ CanCommit(p, s) /\ Saved(p, s) /\ UNCHANGED work
      \/ Rejected /\ DetachAll(p)
  BY DEF Recover
<1> HIDE DEF f
<1>5. s \in Store
  BY <1>1, <1>3, Zenon DEF Store
<1>6. /\ s.status = mem[p].status /\ s.layers = mem[p].layers
      /\ \A l \in Kind, b \in Block : s.job[l][b] = IF l = k THEN f[b] ELSE mem[p].job[l][b]
  BY <1>1, <1>3 DEF Store
<1>7. \A l \in Kind, b \in Block :
        s.job[l][b] = IF l = k /\ Expired(mem[p].job[l][b]) THEN Interrupted(mem[p].job[l][b])
                                                           ELSE mem[p].job[l][b]
  BY <1>3, <1>6
<1> HIDE DEF s
<1>8. CASE CanCommit(p, s) /\ Saved(p, s) /\ UNCHANGED work
  <2>1. fresh[p]
    BY <1>8 DEF CanCommit
  <2>2. Written(s) /\ Grows(mem[p], s) /\ LeavesHeld(p, s)
    BY <1>5, <1>6, <1>7, <1>8, SweptGood
  <2>3. GoodCommit(p, s)
    BY <1>5, <1>8, <2>1, <2>2 DEF GoodCommit
  <2> QED BY <1>1, <1>8, <2>2, <2>3, QuietCommitKeeps
<1>9. CASE Rejected /\ DetachAll(p)
  BY <1>1, <1>9, RejectedKeepsClaims
<1> QED BY <1>4, <1>8, <1>9

\* A reload writes nothing: a copy that takes over what the database has is as well written.
LEMMA ReloadKeepsClaims ==
  ASSUME StoreInv, WorkInv, ClaimInv, NEW p \in Proc, Reload(p)
  PROVE  ClaimInv' /\ TasksGoOn
<1>1. db' = db /\ clock' = clock /\ db \in Store /\ mem \in [Proc -> Store] /\ Copies /\ "summary" \in Kind
  BY DEF Reload, StoreInv, ClaimInv, Kind
<1>2. CASE fresh[p] /\ mem' = [mem EXCEPT ![p] = Merged(mem[p])] /\ work' = work
  <2>1. Written(Merged(mem[p])) /\ mem[p] \in Store
    BY <1>1, MergedLike DEF Copies
  <2>2. Grows(Merged(mem[p]), db)
    <3>1. /\ Merged(mem[p]).layers = mem[p].layers
          /\ \A b \in Block : Merged(mem[p]).job["summary"][b].status = mem[p].job["summary"][b].status
      BY <1>1, <2>1, MergedType DEF SameClaim
    <3> HIDE DEF Merged
    <3> QED BY <1>1, <3>1 DEF Copies, Grows
  <2> HIDE DEF Merged
  <2>3. Copies'
    BY <1>1, <1>2, <2>1, <2>2 DEF Copies
  <2>4. \A q \in Proc, v \in Worker : Quiet(q, work[q][v], work'[q][v])
    BY <1>2 DEF Quiet
  <2> QED BY <1>1, <2>3, <2>4, SameDbKeeps
<1>3. CASE mem' = [mem EXCEPT ![p] = db] /\ DetachAll(p)
  <2>1. Copies'
    BY <1>1, <1>3 DEF Copies, Grows
  <2> QED BY <1>1, <1>3, <2>1, DetachAllKeepsClaims
<1> QED BY <1>2, <1>3 DEF Reload

LEMMA RejectedMutationKeepsClaims ==
  ASSUME StoreInv, WorkInv, ClaimInv, NEW p \in Proc, RejectedMutation(p)
  PROVE  ClaimInv' /\ TasksGoOn
  BY RejectedKeepsClaims DEF RejectedMutation

LEMMA EmptyIsWritten == Written(EmptyStore) /\ \A t : Grows(EmptyStore, t)
<1>1. "summary" \in Kind /\ "extraction" \in Kind
  BY DEF Kind
<1>2. \A b \in Block : /\ EmptyStore.layers[b] = "none"
                       /\ \A k \in Kind : EmptyStore.job[k][b].status = "none"
  BY DEF EmptyStore, NoJob
<1> HIDE DEF EmptyStore
<1> QED BY <1>1, <1>2 DEF Written, Grows

\* Who dies loses what it worked on: its claims are nobody's.
LEMMA CrashKeepsClaims ==
  ASSUME StoreInv, WorkInv, ClaimInv, NEW p \in Proc, Crash(p)
  PROVE  ClaimInv' /\ TasksGoOn
<1>1. /\ db' = db /\ clock' = clock /\ mem' = [mem EXCEPT ![p] = EmptyStore]
      /\ work' = [work EXCEPT ![p] = [w \in Worker |-> Idle]] /\ Idle.pc = "idle"
  BY DEF Crash, Idle
<1>2. Copies'
  BY <1>1, EmptyIsWritten DEF ClaimInv, Copies, StoreInv
<1>3. ASSUME NEW q \in Proc, NEW v \in Worker PROVE Quiet(q, work[q][v], work'[q][v])
  <2>1. work'[q][v] = IF q = p THEN Idle ELSE work[q][v]
    BY <1>1 DEF WorkInv
  <2> QED BY <1>1, <2>1, Zenon DEF Quiet
<1> QED BY <1>1, <1>2, <1>3, SameDbKeeps

LEMMA OpenKeepsClaims ==
  ASSUME StoreInv, WorkInv, ClaimInv, NEW p \in Proc, Open(p)
  PROVE  ClaimInv' /\ TasksGoOn
<1>1. db' = db /\ clock' = clock /\ mem' = [mem EXCEPT ![p] = db] /\ work' = work
  BY DEF Open
<1>2. Copies'
  BY <1>1 DEF ClaimInv, Copies, StoreInv, Grows
<1>3. \A q \in Proc, v \in Worker : Quiet(q, work[q][v], work'[q][v])
  BY <1>1 DEF Quiet
<1> QED BY <1>1, <1>2, <1>3, SameDbKeeps

\* Time passes under a claim only as long as its lease lasts, with punctual heartbeats.
LEMMA TickKeepsClaims ==
  ASSUME Punctual, StoreInv, WorkInv, ClaimInv, Tick
  PROVE  ClaimInv' /\ TasksGoOn
<1>1. db' = db /\ mem' = mem /\ work' = work /\ clock' = clock + 1
  BY DEF Tick
<1>2. ClaimsHeld'
  <2>1. ASSUME NEW p \in Proc, NEW w \in Worker, Active(work[p][w])
        PROVE  Holds(db, clock + 1, work[p][w])
    <3>1. RunningAs(db.job[KindOf(work[p][w])][work[p][w].block], work[p][w])
      BY <2>1 DEF ClaimInv, ClaimsHeld, Holds
    <3>2. Beating(p, w)
      BY DEF Tick
    <3> QED BY <2>1, <3>1, <3>2 DEF Beating, Active, Holds
  <2> QED BY <1>1, <2>1 DEF ClaimsHeld
<1>3. OneHolder' /\ Copies' /\ RoutedFits' /\ TasksGoOn
  BY <1>1 DEF ClaimInv, OneHolder, Copies, RoutedFits, TasksGoOn, SameTask
<1> QED BY <1>2, <1>3 DEF ClaimInv

LEMMA UnchangedKeepsClaims ==
  ASSUME ClaimInv, UNCHANGED vars
  PROVE  ClaimInv' /\ TasksGoOn
  BY DEF vars, ClaimInv, ClaimsHeld, OneHolder, Copies, RoutedFits, TasksGoOn, SameTask

-----------------------------------------------------------------------------
(* The theorem                                                             *)

LEMMA ClaimInit == Init => ClaimInv
<1> SUFFICES ASSUME Init PROVE ClaimInv
  OBVIOUS
<1>1. \A p \in Proc, w \in Worker : work[p][w].pc = "idle"
  BY DEF Init, Idle
<1>2. Copies
  BY EmptyIsWritten DEF Init, Copies
<1> QED BY <1>1, <1>2 DEF ClaimInv, ClaimsHeld, OneHolder, RoutedFits, Fits, Active

LEMMA ClaimStep ==
  ASSUME Punctual, IInv, ClaimInv, [Next]_vars
  PROVE  ClaimInv' /\ TasksGoOn
<1>0. StoreInv /\ WorkInv
  BY Parts
<1>1. ASSUME NEW p \in Proc, NEW w \in Worker, Activity(p, w)
      PROVE  ClaimInv' /\ TasksGoOn
  BY <1>0, <1>1, ClaimSummaryKeepsClaims, PickSummarizedKeepsClaims, FinishSummaryKeepsClaims,
     FailSummaryKeepsClaims, SkipExtractionKeepsClaims, ClaimExtractionKeepsClaims,
     FinishExtractionKeepsClaims, FailExtractionKeepsClaims, RenewKeepsClaims DEF Activity
<1>2. ASSUME NEW p \in Proc, Maintenance(p)
      PROVE  ClaimInv' /\ TasksGoOn
  BY <1>0, <1>2, RecoverKeepsClaims, ReloadKeepsClaims, SealKeepsClaims, ManualRetryKeepsClaims,
     OtherMutationKeepsClaims, RejectedMutationKeepsClaims, CrashKeepsClaims, OpenKeepsClaims
     DEF Maintenance
<1>3. CASE Tick
  BY <1>0, <1>3, TickKeepsClaims
<1>4. CASE UNCHANGED vars
  BY <1>4, UnchangedKeepsClaims
<1> QED BY <1>1, <1>2, <1>3, <1>4 DEF Next

\* With punctual heartbeats every activation at work has the unexpired durable claim of its own
\* job, and no two of them work on one: no two model calls for a job run side by side, however
\* many processes share the database.
THEOREM ClaimsAreExclusive == Punctual => (Spec => [](ClaimsHeld /\ OneHolder))
<1>1. SUFFICES ASSUME Punctual PROVE Spec => [](ClaimsHeld /\ OneHolder)
  OBVIOUS
<1>2. IInv /\ ClaimInv /\ [Next]_vars => ClaimInv'
  BY <1>1, ClaimStep
<1>3. ClaimInv => ClaimsHeld /\ OneHolder
  BY DEF ClaimInv
<1> QED BY <1>2, <1>3, ClaimInit, Invariance, PTL DEF Spec

\* The step that ends a claim before its lease is its holder's own: with punctual heartbeats no
\* recovery, retry, reload or other process takes a running job from the activation at work.
THEOREM HolderEndsClaim == Punctual => (Spec => OnlyTheHolderEndsAClaim)
<1>1. SUFFICES ASSUME Punctual PROVE Spec => OnlyTheHolderEndsAClaim
  OBVIOUS
<1> DEFINE Ends == \A p \in Proc, w \in Worker :
       LET a == work[p][w]
           k == KindOf(a)
       IN /\ InFlight(p, w) /\ up'[p]
          /\ RunningAs(db.job[k][a.block], a) /\ db.job[k][a.block].lease > clock
          => RunningAs(db'.job[k][a.block], a) \/ work'[p][w].pc # a.pc
<1>2. IInv /\ ClaimInv /\ [Next]_vars => ClaimInv' /\ TasksGoOn
  BY <1>1, ClaimStep
<1>3. ASSUME ClaimInv', TasksGoOn PROVE Ends
  <2>1. ASSUME NEW p \in Proc, NEW w \in Worker, InFlight(p, w), work'[p][w].pc = work[p][w].pc
        PROVE  RunningAs(db'.job[KindOf(work[p][w])][work[p][w].block], work[p][w])
    <3>1. Active(work[p][w]) /\ Active(work'[p][w])
      BY <2>1 DEF InFlight, Active
    <3>2. SameTask(work'[p][w], work[p][w]) /\ KindOf(work'[p][w]) = KindOf(work[p][w])
      BY <1>3, <2>1, <3>1 DEF TasksGoOn, KindOf
    <3>3. Holds(db', clock', work'[p][w])
      BY <1>3, <3>1 DEF ClaimInv, ClaimsHeld
    <3> QED BY <3>2, <3>3 DEF Holds, SameTask, RunningAs
  <2> QED BY <2>1
<1>4. IInv /\ ClaimInv /\ [Next]_vars => ClaimInv' /\ [Ends]_vars
  BY <1>2, <1>3
<1>5. OnlyTheHolderEndsAClaim <=> [][Ends]_vars
  BY DEF OnlyTheHolderEndsAClaim
<1> HIDE DEF Ends
<1> QED BY <1>4, <1>5, ClaimInit, Invariance, PTL DEF Spec

-----------------------------------------------------------------------------
(* One process: the derivation implements BlockPipeline                    *)

\* One process, heartbeats in time, and no mutation that throws.
Alone(p) == Proc = {p} /\ Punctual /\ ~RejectedMutations

\* The copy of the only process is the database, and its activations hold the objects of the copy.
Current(p) == up[p] => fresh[p] /\ mem[p] = db
Objects(p) ==
  \A w \in Worker : work[p][w].pc # "idle" => work[p][w].attached /\ work[p][w].pc # "failing"

\* A summary that somebody will look at again, or that is done.
Awake(j) ==
  \/ j.status \in {"running", "succeeded"}
  \/ j.status = "pending" /\ j.attempts = 0
  \/ j.status = "failed" /\ (j.attempts < MaxAttempts => j.due # None)

\* Cards come with readiness, and an extraction that is over made its Block ready.
SettledAt(s, b) ==
  /\ s.status[b] # "ready" => /\ s.events[b] = 0
                              /\ s.job["extraction"][b].status \in {"none", "running", "failed"}
  /\ s.status[b] = "ready" => s.job["extraction"][b].status # "running"
  /\ s.status[b] # "absent" => Awake(s.job["summary"][b])
Settled(s) == \A b \in Block : SettledAt(s, b)

SoleInv(p) == Current(p) /\ Objects(p) /\ Settled(db)
Scene(p) == Alone(p) /\ StoreInv /\ WorkInv /\ ClaimInv /\ SoleInv(p)

Moves == [Pipeline!Next]_(Pipeline!vars)
SoleStep(p) == SoleInv(p)' /\ Moves

-----------------------------------------------------------------------------
(* What the steps of the pipeline ask of the database *)

LEMMA MovesNot ==
  ASSUME db'.status = db.status, db'.layers = db.layers, db'.events = db.events
  PROVE  Moves
<1>1. \A b \in Block : Stage(b)' = Stage(b)
  BY DEF Stage
<1>2. [b \in Block |-> Stage(b)]' = [b \in Block |-> Stage(b)]
  BY <1>1
<1> QED BY <1>2 DEF Moves, Pipeline!vars

LEMMA MovesBySeal ==
  ASSUME db \in Store, NEW b \in Block, db.status[b] = "absent", db.layers[b] = "none",
         db'.status = [db.status EXCEPT ![b] = "pending"], db'.layers = db.layers, db'.events = db.events
  PROVE  Moves
<1>1. db.status \in [Block -> {"absent", "pending", "ready"}]
  BY DEF Store
<1>2. [c \in Block |-> Stage(c)]' = [[c \in Block |-> Stage(c)] EXCEPT ![b] = "sealed"]
  BY <1>1 DEF Stage
<1>3. Stage(b) = "absent"
  BY DEF Stage
<1>4. Pipeline!Seal(b)
  BY <1>2, <1>3 DEF Pipeline!Seal
<1> QED BY <1>4 DEF Moves, Pipeline!Next

LEMMA MovesBySummary ==
  ASSUME db \in Store, NEW b \in Block, db.status[b] = "pending", db.layers[b] = "none",
         NEW v \in {"extract", "skip"},
         db'.status = db.status, db'.layers = [db.layers EXCEPT ![b] = v], db'.events = db.events
  PROVE  Moves
<1>1. db.layers \in [Block -> Layers]
  BY DEF Store
<1>2. [c \in Block |-> Stage(c)]' = [[c \in Block |-> Stage(c)] EXCEPT ![b] = "summarized"]
  BY <1>1 DEF Stage
<1>3. Stage(b) = "sealed"
  BY DEF Stage
<1>4. Pipeline!Summarize(b)
  BY <1>2, <1>3 DEF Pipeline!Summarize
<1> QED BY <1>4 DEF Moves, Pipeline!Next

LEMMA MovesByFinish ==
  ASSUME db \in Store, NEW b \in Block, db.status[b] = "pending", db.layers[b] # "none",
         db'.status = [db.status EXCEPT ![b] = "ready"], db'.layers = db.layers,
         \/ db'.events = db.events
         \/ db.layers[b] = "extract" /\ db'.events = [db.events EXCEPT ![b] = 1]
  PROVE  Moves
<1>1. db.status \in [Block -> {"absent", "pending", "ready"}]
  BY DEF Store
<1>2. [c \in Block |-> Stage(c)]' = [[c \in Block |-> Stage(c)] EXCEPT ![b] = "ready"]
  BY <1>1 DEF Stage
<1>3. Stage(b) = "summarized"
  BY DEF Stage
<1>4. Pipeline!Finish(b)
  BY <1>2, <1>3 DEF Pipeline!Finish
<1> QED BY <1>4 DEF Moves, Pipeline!Next

-----------------------------------------------------------------------------
(* The only process commits whatever it wants *)

LEMMA OwnCopy ==
  ASSUME NEW p, Scene(p), up[p]
  PROVE  /\ p \in Proc /\ fresh[p] /\ mem[p] = db /\ db \in Store /\ Written(db)
         /\ \A k \in Kind, b \in Block : db.job[k][b] \in Job
         /\ "summary" \in Kind /\ "extraction" \in Kind
  BY DEF Scene, Alone, SoleInv, Current, StoreInv, ClaimInv, Copies, Store, Kind

\* The row of a running job is left to the claim that runs it.
Rewrites(d, j) ==
  d.status = "running" => j.attempts = d.attempts /\ (j.status = "running" => j.round = d.round)

LEMMA NothingRefused ==
  ASSUME NEW p, Scene(p), up[p], NEW s \in Store,
         \A k \in Kind, b \in Block : Rewrites(db.job[k][b], s.job[k][b])
  PROVE  CanCommit(p, s)
  BY OwnCopy DEF CanCommit, LeaseConflict, Rewrites

LEMMA JobNotRefused ==
  ASSUME NEW p, Scene(p), up[p], NEW s \in Store, NEW k \in Kind, NEW b \in Block,
         OnlyJob(db, s, k, b), Rewrites(db.job[k][b], s.job[k][b])
  PROVE  CanCommit(p, s)
<1>1. \A l \in Kind, c \in Block : Rewrites(db.job[l][c], s.job[l][c])
  BY DEF OnlyJob, Rewrites
<1> QED BY <1>1, NothingRefused

\* What a commit leaves behind.
LEMMA SoleCommit ==
  ASSUME NEW p, Scene(p), up[p], up' = up, NEW s \in Store, Settled(s), Saved(p, s)
  PROVE  /\ Current(p)' /\ Settled(db)'
         /\ db'.status = s.status /\ db'.layers = s.layers /\ db'.events = s.events
<1>1. /\ Merged(s).status = s.status /\ Merged(s).layers = s.layers /\ Merged(s).events = s.events
      /\ \A k \in Kind, b \in Block : SameClaim(Merged(s).job[k][b], s.job[k][b])
  BY OwnCopy, MergedType
<1>2. db' = Merged(s) /\ mem' = [mem EXCEPT ![p] = Merged(s)] /\ fresh' = [q \in Proc |-> q = p]
  BY DEF Saved
<1> HIDE DEF Merged
<1>3. Current(p)'
  BY <1>2, OwnCopy DEF Current, Scene, StoreInv
<1>4. Settled(Merged(s))
  BY <1>1, OwnCopy DEF Settled, SettledAt, Awake, SameClaim
<1> QED BY <1>1, <1>2, <1>3, <1>4

\* A store is settled where it was not changed.
LEMMA SettledElsewhere ==
  ASSUME NEW s, NEW b \in Block, Settled(db), SettledAt(s, b),
         \A c \in Block : c # b => /\ s.status[c] = db.status[c] /\ s.events[c] = db.events[c]
                                   /\ \A k \in Kind : s.job[k][c] = db.job[k][c]
  PROVE  Settled(s)
<1>1. "summary" \in Kind /\ "extraction" \in Kind
  BY DEF Kind
<1> SUFFICES ASSUME NEW c \in Block PROVE SettledAt(s, c)
  BY DEF Settled
<1>2. CASE c = b
  BY <1>2
<1>3. CASE c # b
  BY <1>1, <1>3 DEF Settled, SettledAt
<1> QED BY <1>2, <1>3

\* An activation is replaced by one that is idle or holds the object of its Block.
LEMMA ObjectsAfter ==
  ASSUME NEW p, Scene(p), NEW w \in Worker, NEW next,
         next.pc # "idle" => next.attached /\ next.pc # "failing",
         work' = [work EXCEPT ![p][w] = next]
  PROVE  Objects(p)'
  BY DEF Scene, Alone, WorkInv, SoleInv, Objects

LEMMA ObjectsStay ==
  ASSUME NEW p, Scene(p), UNCHANGED work
  PROVE  Objects(p)'
  BY DEF Scene, SoleInv, Objects

\* Steps that write nothing.
LEMMA NothingWritten ==
  ASSUME NEW p, Scene(p), db' = db, Current(p)', Objects(p)'
  PROVE  SoleStep(p)
<1>1. Moves
  BY MovesNot
<1>2. Settled(db)'
  BY DEF Scene, SoleInv
<1> QED BY <1>1, <1>2 DEF SoleStep, SoleInv

\* The Block of a claim waits for what the claim is about.
LEMMA HeldBlock ==
  ASSUME NEW p, Scene(p), NEW w \in Worker, Active(work[p][w])
  PROVE  LET a == work[p][w]
             b == a.block
             k == KindOf(a)
         IN /\ up[p] /\ a.attached /\ b \in Block /\ db.status[b] = "pending"
            /\ db.job[k][b].status = "running" /\ SettledAt(db, b)
            /\ k = "summary" => db.layers[b] = "none"
            /\ k = "extraction" => db.layers[b] = "extract"
<1> DEFINE a == work[p][w]
           b == a.block
           k == KindOf(a)
<1>1. p \in Proc /\ StoreInv /\ WorkInv /\ ClaimInv /\ SoleInv(p)
  BY DEF Scene, Alone
<1>2. up[p] /\ a.attached
  BY <1>1, BusyTypes DEF WorkInv, ActiveWork, SoleInv, Objects
<1>3. fresh[p] /\ mem[p] = db
  BY <1>2, OwnCopy
<1>4. OwnsJob(p, w, k, b)
  BY <1>1, <1>3, OwnJob
<1> HIDE DEF b, k
<1>5. /\ b \in Block /\ db.job[k][b].status = "running" /\ db.status[b] # "absent"
      /\ k = "summary" => db.layers[b] = "none"
      /\ k = "extraction" => db.layers[b] = "extract"
  BY <1>3, <1>4 DEF OwnsJob
<1>6. SettledAt(db, b)
  BY <1>1, <1>5 DEF SoleInv, Settled
<1>7. db.status[b] # "ready"
  <2>1. k \in {"summary", "extraction"}
    BY DEF k, KindOf
  <2> QED BY <1>1, <1>5, <1>6, <2>1 DEF SettledAt, StoreInv, ReadyHasLayers
<1>8. db.status[b] = "pending"
  BY <1>1, <1>5, <1>7 DEF StoreInv, Store
<1> QED BY <1>2, <1>5, <1>6, <1>8 DEF b, k

-----------------------------------------------------------------------------
(* The steps of the only process *)

\* What becomes of a job.
LEMMA JobOutcomes ==
  ASSUME NEW j \in Job, clock \in Nat
  PROVE  /\ Failed(j).status = "failed"
         /\ j.attempts < MaxAttempts => Failed(j).due # None
         /\ Interrupted(j).status = "failed" /\ Interrupted(j).due # None
         /\ Claimed(j).status = "running"
         /\ \A st : Closed(j, st).status = st
         /\ \A st : Unleased(Closed(j, st)).status = st
         /\ \A st : Unleased(Closed(j, st)).attempts = j.attempts
         /\ Retried("summary", j).status = "pending" /\ Retried("extraction", j).status = "failed"
<1>1. j \in JobRecord /\ j.attempts \in 0..MaxAttempts /\ None \notin Nat /\ clock \in Nat
  BY ConstantsAssumption DEF Job, JobRecord
<1>2. ASSUME j.attempts < MaxAttempts PROVE Failed(j).due # None
  <2>1. Backoff[j.attempts] \in Nat
    BY <1>1, ConstantsAssumption
  <2>2. RetryAt(j.attempts) \in Nat
    BY <1>1, <1>2, <2>1, ConstantsAssumption DEF RetryAt
  <2>3. Failed(j).due = RetryAt(j.attempts)
    BY <1>1 DEF Failed, JobRecord
  <2> QED BY <1>1, <2>2, <2>3
<1>3. Interrupted(j).due # None
  BY <1>1 DEF Interrupted, JobRecord
<1>4. Failed(j).status = "failed" /\ Interrupted(j).status = "failed" /\ Claimed(j).status = "running"
  BY <1>1 DEF Failed, Interrupted, Claimed, JobRecord
<1>5. /\ \A st : Closed(j, st).status = st
      /\ \A st : Unleased(Closed(j, st)).status = st
      /\ \A st : Unleased(Closed(j, st)).attempts = j.attempts
  BY <1>1 DEF Closed, Unleased, JobRecord
<1>6. Retried("summary", j).status = "pending" /\ Retried("extraction", j).status = "failed"
  BY <1>1 DEF Retried, JobRecord
<1> QED BY <1>2, <1>3, <1>4, <1>5, <1>6

\* A commit that writes one job and nothing else.
LEMMA JobWritten ==
  ASSUME NEW p, Scene(p), up[p], up' = up, NEW k \in Kind, NEW b \in Block, NEW j \in Job,
         NEW s, s = PutJob(mem[p], k, b, j),
         IF k = "summary" THEN Awake(j)
         ELSE /\ db.status[b] = "ready" => j.status # "running"
              /\ db.status[b] # "ready" => j.status \in {"none", "running", "failed"},
         Rewrites(db.job[k][b], j)
  PROVE  CanCommit(p, s) /\ (Saved(p, s) => Current(p)' /\ Settled(db)' /\ Moves)
<1>1. p \in Proc /\ mem[p] = db /\ db \in Store /\ "summary" \in Kind /\ "extraction" \in Kind
  BY OwnCopy
<1>2. /\ s \in Store /\ s.status = db.status /\ s.layers = db.layers /\ s.events = db.events
      /\ \A l \in Kind, c \in Block : s.job[l][c] = IF l = k /\ c = b THEN j ELSE db.job[l][c]
  BY <1>1, PutJobParts
<1>3. OnlyJob(db, s, k, b) /\ Rewrites(db.job[k][b], s.job[k][b])
  BY <1>2 DEF OnlyJob
<1>4. CanCommit(p, s)
  BY <1>2, <1>3, JobNotRefused
<1>5. Settled(db)
  BY DEF Scene, SoleInv
<1>6. SettledAt(s, b)
  <2>1. SettledAt(db, b)
    BY <1>5 DEF Settled
  <2>2. k \in {"summary", "extraction"} /\ "summary" # "extraction"
    BY DEF Kind
  <2>3. CASE k = "summary"
    BY <1>1, <1>2, <2>1, <2>2, <2>3 DEF SettledAt
  <2>4. CASE k = "extraction"
    BY <1>1, <1>2, <2>1, <2>2, <2>4 DEF SettledAt
  <2> QED BY <2>2, <2>3, <2>4
<1>7. Settled(s)
  BY <1>2, <1>5, <1>6, SettledElsewhere
<1>8. ASSUME Saved(p, s) PROVE Current(p)' /\ Settled(db)' /\ Moves
  <2>1. /\ Current(p)' /\ Settled(db)'
        /\ db'.status = s.status /\ db'.layers = s.layers /\ db'.events = s.events
    BY <1>2, <1>7, <1>8, SoleCommit
  <2> QED BY <1>2, <2>1, MovesNot
<1> QED BY <1>4, <1>8

LEMMA ClaimSummaryMoves ==
  ASSUME NEW p, Scene(p), NEW w \in Worker, NEW b \in Block, ClaimSummary(p, w, b)
  PROVE  SoleStep(p)
<1> DEFINE i == mem[p].job["summary"][b]
           j == Claimed(i)
           s == PutJob(mem[p], "summary", b, j)
           next == Holding("summary", b, j)
<1>1. /\ up[p] /\ up' = up /\ JobCanRun(i)
      /\ \/ Saved(p, s) /\ work' = [work EXCEPT ![p][w] = next]
         \/ ~CanCommit(p, s)
  BY DEF ClaimSummary
<1>2. /\ mem[p] = db /\ "summary" \in Kind /\ i \in Job /\ clock \in Nat
  BY <1>1, OwnCopy DEF Scene, WorkInv
<1>3. j \in Job /\ j.status = "running"
  BY <1>1, <1>2, JobTypes, JobOutcomes DEF JobCanRun
<1>4. Rewrites(db.job["summary"][b], j)
  BY <1>1, <1>2 DEF JobCanRun, Rewrites
<1>5. Awake(j)
  BY <1>3 DEF Awake
<1>6. next.pc = "summary" /\ next.attached
  BY DEF Holding
<1> HIDE DEF j, i, s, next
<1>7. CanCommit(p, s) /\ (Saved(p, s) => Current(p)' /\ Settled(db)' /\ Moves)
  BY <1>1, <1>2, <1>3, <1>4, <1>5, JobWritten DEF s
<1>8. Objects(p)'
  BY <1>1, <1>6, <1>7, ObjectsAfter
<1> QED BY <1>1, <1>7, <1>8 DEF SoleStep, SoleInv

LEMMA FailSummaryMoves ==
  ASSUME NEW p, Scene(p), NEW w \in Worker, FailSummary(p, w)
  PROVE  SoleStep(p)
<1> DEFINE b == work[p][w].block
           i == mem[p].job["summary"][b]
           j == Failed(i)
           s == PutJob(mem[p], "summary", b, j)
<1>1. /\ Active(work[p][w]) /\ KindOf(work[p][w]) = "summary" /\ up' = up
      /\ \/ Saved(p, s) /\ work' = [work EXCEPT ![p][w] = Idle]
         \/ ~CanCommit(p, s)
      /\ Idle.pc = "idle"
  BY DEF FailSummary, Active, KindOf, Idle
<1>2. up[p] /\ b \in Block
  BY <1>1, HeldBlock
<1>3. mem[p] = db /\ "summary" \in Kind /\ i \in Job /\ clock \in Nat
  BY <1>2, OwnCopy DEF Scene, WorkInv
<1>4. j \in Job /\ j.status = "failed" /\ j.attempts = i.attempts /\ (i.attempts < MaxAttempts => j.due # None)
  BY <1>3, JobTypes, JobOutcomes, JobAttempts
<1>5. Rewrites(db.job["summary"][b], j) /\ Awake(j)
  BY <1>3, <1>4 DEF Rewrites, Awake
<1> HIDE DEF b, j, i, s
<1>7. CanCommit(p, s) /\ (Saved(p, s) => Current(p)' /\ Settled(db)' /\ Moves)
  BY <1>1, <1>2, <1>3, <1>4, <1>5, JobWritten DEF s
<1>8. Objects(p)'
  BY <1>1, <1>7, ObjectsAfter
<1> QED BY <1>1, <1>7, <1>8 DEF SoleStep, SoleInv

LEMMA FailExtractionMoves ==
  ASSUME NEW p, Scene(p), NEW w \in Worker, FailExtraction(p, w)
  PROVE  SoleStep(p)
<1> DEFINE b == work[p][w].block
           i == mem[p].job["extraction"][b]
           j == Failed(i)
           s == PutJob(mem[p], "extraction", b, j)
<1>1. /\ Active(work[p][w]) /\ up' = up
      /\ \/ Saved(p, s) /\ work' = [work EXCEPT ![p][w] = Idle]
         \/ ~CanCommit(p, s)
      /\ Idle.pc = "idle"
  BY DEF FailExtraction, Active, Idle
<1>2. up[p] /\ b \in Block
  BY <1>1, HeldBlock
<1>3. mem[p] = db /\ "extraction" \in Kind /\ i \in Job /\ clock \in Nat
  BY <1>2, OwnCopy DEF Scene, WorkInv
<1>4. j \in Job /\ j.status = "failed" /\ j.attempts = i.attempts
  BY <1>3, JobTypes, JobOutcomes, JobAttempts
<1>5. Rewrites(db.job["extraction"][b], j) /\ "extraction" # "summary"
  BY <1>3, <1>4 DEF Rewrites
<1> HIDE DEF b, j, i, s
<1>7. CanCommit(p, s) /\ (Saved(p, s) => Current(p)' /\ Settled(db)' /\ Moves)
  BY <1>1, <1>2, <1>3, <1>4, <1>5, JobWritten DEF s
<1>8. Objects(p)'
  BY <1>1, <1>7, ObjectsAfter
<1> QED BY <1>1, <1>7, <1>8 DEF SoleStep, SoleInv

\* An activation between its jobs has the summary of its Block behind it.
LEMMA RoutedBlock ==
  ASSUME NEW p, Scene(p), NEW w \in Worker, work[p][w].pc = "routed"
  PROVE  /\ up[p] /\ work[p][w].attached /\ work[p][w].block \in Block
         /\ View(p, w) = db.layers[work[p][w].block]
         /\ db.status[work[p][w].block] \in {"pending", "ready"}
         /\ SettledAt(db, work[p][w].block)
<1>1. p \in Proc /\ StoreInv /\ WorkInv /\ ClaimInv /\ SoleInv(p)
  BY DEF Scene, Alone
<1>2. up[p] /\ work[p][w].attached /\ work[p][w].block \in Block
  BY <1>1 DEF WorkInv, ActiveWork, SoleInv, Objects
<1>3. mem[p] = db /\ db \in Store /\ Written(db) /\ "summary" \in Kind
  BY <1>2, OwnCopy
<1>4. db.job["summary"][work[p][w].block].status = "succeeded"
  BY <1>1 DEF ClaimInv, RoutedFits, Fits
<1>5. db.status[work[p][w].block] # "absent"
  BY <1>2, <1>3, <1>4 DEF Written
<1>6. db.status[work[p][w].block] \in {"pending", "ready"}
  BY <1>2, <1>3, <1>5 DEF Store
<1> QED BY <1>1, <1>2, <1>3, <1>6 DEF View, SoleInv, Settled

LEMMA ClaimExtractionMoves ==
  ASSUME NEW p, Scene(p), NEW w \in Worker, ClaimExtraction(p, w)
  PROVE  SoleStep(p)
<1> DEFINE b == work[p][w].block
           i == mem[p].job["extraction"][b]
           j == Claimed(i)
           s == PutJob(mem[p], "extraction", b, j)
           next == Holding("extraction", b, j)
<1>1. /\ work[p][w].pc = "routed" /\ up' = up
      /\ \/ ExtractionTarget(p, b) /\ Saved(p, s) /\ work' = [work EXCEPT ![p][w] = next]
         \/ ExtractionTarget(p, b) /\ ~(i.status \in {"none", "failed"} /\ CanCommit(p, s))
         \/ Rejected /\ work' = [work EXCEPT ![p][w] = Idle]
      /\ Idle.pc = "idle"
  BY DEF ClaimExtraction, Idle
<1>2. up[p] /\ b \in Block /\ SettledAt(db, b)
  BY <1>1, RoutedBlock
<1>3. mem[p] = db /\ "extraction" \in Kind /\ i \in Job /\ clock \in Nat /\ p \in Proc
  BY <1>2, OwnCopy DEF Scene, WorkInv
<1>4. next.pc = "extraction" /\ next.attached
  BY DEF Holding
<1>5. CASE ExtractionTarget(p, b)
  <2>1. i.status \in {"none", "failed"} /\ db.status[b] = "pending" /\ i.attempts < MaxAttempts
    <3>1. db.status[b] = "pending" /\ (i.status = "none" \/ JobCanRun(i))
      BY <1>3, <1>5 DEF ExtractionTarget
    <3>2. i.status \in {"none", "failed"}
      BY <1>2, <1>3, <3>1 DEF SettledAt, JobCanRun
    <3>3. i.attempts < MaxAttempts
      <4>1. CASE i.status = "none"
        <5>1. i.attempts = 0 /\ MaxAttempts \in Nat \ {0}
          BY <1>3, <4>1, ConstantsAssumption DEF Job
        <5> QED BY <5>1
      <4>2. CASE JobCanRun(i)
        BY <4>2 DEF JobCanRun
      <4> QED BY <3>1, <4>1, <4>2
    <3> QED BY <3>1, <3>2, <3>3
  <2>2. j \in Job /\ j.status = "running"
    BY <1>3, <2>1, JobTypes, JobOutcomes
  <2>3. Rewrites(db.job["extraction"][b], j)
    BY <1>3, <2>1 DEF Rewrites
  <2> HIDE DEF b, j, i, s, next
  <2>4. CanCommit(p, s) /\ (Saved(p, s) => Current(p)' /\ Settled(db)' /\ Moves)
    BY <1>1, <1>2, <1>3, <2>1, <2>2, <2>3, JobWritten DEF s
  <2>5. CASE Saved(p, s) /\ work' = [work EXCEPT ![p][w] = next]
    <3>1. Objects(p)'
      BY <1>4, <2>5, ObjectsAfter
    <3> QED BY <2>4, <2>5, <3>1 DEF SoleStep, SoleInv
  <2>6. CASE Rejected /\ work' = [work EXCEPT ![p][w] = Idle]
    <3>1. Objects(p)'
      BY <1>1, <2>6, ObjectsAfter
    <3>2. db' = db /\ Current(p)'
      BY <1>1, <2>6 DEF Rejected, Current, Scene, SoleInv
    <3> QED BY <3>1, <3>2, NothingWritten
  <2> QED BY <1>1, <2>1, <2>4, <2>5, <2>6
<1>6. CASE Rejected /\ work' = [work EXCEPT ![p][w] = Idle]
  <2>1. Objects(p)'
    BY <1>1, <1>6, ObjectsAfter
  <2>2. db' = db /\ Current(p)'
    BY <1>1, <1>6 DEF Rejected, Current, Scene, SoleInv
  <2> QED BY <2>1, <2>2, NothingWritten
<1> QED BY <1>1, <1>5, <1>6

LEMMA PickSummarizedMoves ==
  ASSUME NEW p, Scene(p), NEW w \in Worker, NEW b \in Block, PickSummarized(p, w, b)
  PROVE  SoleStep(p)
<1> DEFINE next == Routed(b, TRUE, "none")
<1>1. /\ db' = db /\ mem' = mem /\ fresh' = fresh /\ up' = up /\ work' = [work EXCEPT ![p][w] = next]
      /\ next.pc = "routed" /\ next.attached
  BY DEF PickSummarized, Routed
<1> HIDE DEF next
<1>2. Objects(p)'
  BY <1>1, ObjectsAfter
<1>3. Current(p)'
  BY <1>1 DEF Scene, SoleInv, Current
<1> QED BY <1>1, <1>2, <1>3, NothingWritten

\* A commit about one Block.
LEMMA BlockWritten ==
  ASSUME NEW p, Scene(p), up[p], up' = up, NEW k \in Kind, NEW b \in Block, NEW j \in Job,
         NEW m \in Store, NEW s, s = PutJob(m, k, b, j), m.job = db.job,
         \A c \in Block : c # b => m.status[c] = db.status[c] /\ m.events[c] = db.events[c],
         SettledAt(s, b), Rewrites(db.job[k][b], j)
  PROVE  /\ CanCommit(p, s)
         /\ Saved(p, s) => /\ Current(p)' /\ Settled(db)'
                           /\ db'.status = m.status /\ db'.layers = m.layers /\ db'.events = m.events
<1>1. p \in Proc /\ mem[p] = db /\ db \in Store
  BY OwnCopy
<1>2. /\ s \in Store /\ s.status = m.status /\ s.layers = m.layers /\ s.events = m.events
      /\ \A l \in Kind, c \in Block : s.job[l][c] = IF l = k /\ c = b THEN j ELSE db.job[l][c]
  BY <1>1, PutJobParts
<1>3. OnlyJob(db, s, k, b) /\ Rewrites(db.job[k][b], s.job[k][b])
  BY <1>2 DEF OnlyJob
<1>4. CanCommit(p, s)
  BY <1>2, <1>3, JobNotRefused
<1>5. Settled(db)
  BY DEF Scene, SoleInv
<1>6. Settled(s)
  BY <1>2, <1>5, SettledElsewhere
<1>7. ASSUME Saved(p, s)
      PROVE  /\ Current(p)' /\ Settled(db)'
             /\ db'.status = s.status /\ db'.layers = s.layers /\ db'.events = s.events
  BY <1>2, <1>6, <1>7, SoleCommit
<1> QED BY <1>2, <1>4, <1>7

LEMMA FinishSummaryMoves ==
  ASSUME NEW p, Scene(p), NEW w \in Worker, FinishSummary(p, w)
  PROVE  SoleStep(p)
<1> DEFINE b == work[p][w].block
           j == Closed(mem[p].job["summary"][b], "succeeded")
           m(v) == PutLayers(mem[p], b, v)
           s(v) == PutJob(m(v), "summary", b, j)
           routed == Routed(b, TRUE, "none")
<1>1. work[p][w].pc = "summary" /\ Active(work[p][w]) /\ KindOf(work[p][w]) = "summary" /\ up' = up
  BY DEF FinishSummary, Active, KindOf
<1>2. /\ up[p] /\ work[p][w].attached /\ b \in Block /\ db.status[b] = "pending" /\ SettledAt(db, b)
      /\ db.layers[b] = "none"
  BY <1>1, HeldBlock
<1>3. PICK v \in {"extract", "skip"} :
        \/ CanCommit(p, s(v)) /\ Saved(p, s(v))
           /\ work' = [work EXCEPT ![p][w] = Routed(b, work[p][w].attached, IF work[p][w].attached THEN "none" ELSE v)]
        \/ ~CanCommit(p, s(v))
  BY <1>2 DEF FinishSummary
<1>4. work[p][w].attached = TRUE
  BY <1>2 DEF Scene, Alone, WorkInv, Activation
<1>5. CanCommit(p, s(v)) => Saved(p, s(v)) /\ work' = [work EXCEPT ![p][w] = routed]
  BY <1>3, <1>4
<1>6. mem[p] = db /\ db \in Store /\ "summary" \in Kind /\ "extraction" \in Kind /\ db.job["summary"][b] \in Job /\ clock \in Nat
  BY <1>2, OwnCopy DEF Scene, WorkInv
<1>7. j \in Job /\ j.status = "succeeded" /\ j.attempts = db.job["summary"][b].attempts
  <2>1. j \in Job
    BY <1>6, JobTypes DEF JobStatus
  <2>2. j.status = "succeeded"
    BY <1>6, JobOutcomes
  <2>3. j.attempts = db.job["summary"][b].attempts
    BY <1>6, JobAttempts
  <2> QED BY <2>1, <2>2, <2>3
<1>8. v \in Layers /\ routed.pc = "routed" /\ routed.attached
  BY DEF Layers, Routed
<1> HIDE DEF b, j, routed
<1>9. /\ m(v) \in Store /\ m(v).status = db.status /\ m(v).layers = [db.layers EXCEPT ![b] = v]
      /\ m(v).job = db.job
  BY <1>2, <1>6, <1>8, PutLayersParts
<1>10. m(v).events = db.events
  BY <1>6 DEF PutLayers, Store
<1> HIDE DEF m
<1>11. /\ s(v).status = db.status /\ s(v).events = db.events
       /\ s(v).job["summary"][b] = j /\ s(v).job["extraction"][b] = db.job["extraction"][b]
  BY <1>2, <1>6, <1>7, <1>9, <1>10, PutJobParts
<1> DEFINE u == s(v)
           n == m(v)
<1>12. u = PutJob(n, "summary", b, j)
  OBVIOUS
<1> HIDE DEF s, u, n
<1>13. SettledAt(u, b)
  BY <1>2, <1>7, <1>11 DEF SettledAt, Awake, u
<1>14. Rewrites(db.job["summary"][b], j)
  BY <1>7 DEF Rewrites
<1>15. /\ CanCommit(p, u)
       /\ Saved(p, u) => /\ Current(p)' /\ Settled(db)'
                         /\ db'.status = n.status /\ db'.layers = n.layers /\ db'.events = n.events
  BY <1>1, <1>2, <1>6, <1>7, <1>9, <1>10, <1>12, <1>13, <1>14, BlockWritten DEF n
<1>16. Saved(p, u) /\ work' = [work EXCEPT ![p][w] = routed]
  BY <1>5, <1>15 DEF u
<1>17. Moves
  BY <1>2, <1>6, <1>9, <1>10, <1>15, <1>16, MovesBySummary DEF n
<1>18. Objects(p)'
  BY <1>8, <1>16, ObjectsAfter
<1> QED BY <1>15, <1>16, <1>17, <1>18 DEF SoleStep, SoleInv

LEMMA SkipExtractionMoves ==
  ASSUME NEW p, Scene(p), NEW w \in Worker, SkipExtraction(p, w)
  PROVE  SoleStep(p)
<1> DEFINE b == work[p][w].block
           i == mem[p].job["extraction"][b]
           j == Unleased(Closed(i, "skipped"))
           m == PutStatus(mem[p], b, "ready")
           s == PutJob(m, "extraction", b, j)
<1>1. work[p][w].pc = "routed" /\ View(p, w) = "skip" /\ up' = up /\ Idle.pc = "idle"
  BY DEF SkipExtraction, Idle
<1>2. /\ up[p] /\ work[p][w].attached /\ b \in Block /\ db.layers[b] = "skip"
      /\ db.status[b] \in {"pending", "ready"} /\ SettledAt(db, b)
  BY <1>1, RoutedBlock
<1>3. CanCommit(p, s) => Saved(p, s) /\ work' = [work EXCEPT ![p][w] = Idle]
  BY <1>2 DEF SkipExtraction
<1>4. /\ mem[p] = db /\ db \in Store /\ "summary" \in Kind /\ "extraction" \in Kind /\ i \in Job /\ clock \in Nat
      /\ db.status \in [Block -> {"absent", "pending", "ready"}] /\ Written(db)
  BY <1>2, OwnCopy DEF Scene, WorkInv, Store
<1>5. j \in Job /\ j.status = "skipped" /\ j.attempts = i.attempts
  <2>1. Closed(i, "skipped") \in Job
    BY <1>4, JobTypes DEF JobStatus
  <2>2. j \in Job
    BY <1>4, <2>1, JobTypes
  <2> QED BY <1>4, <2>2, JobOutcomes
<1>6. Rewrites(db.job["extraction"][b], j)
  BY <1>4, <1>5 DEF Rewrites
<1> HIDE DEF b, i, j
<1>7. /\ m \in Store /\ m.status = [db.status EXCEPT ![b] = "ready"] /\ m.layers = db.layers /\ m.job = db.job
  BY <1>2, <1>4, PutStatusParts
<1>8. m.events = db.events
  BY <1>4 DEF PutStatus, Store
<1> HIDE DEF m
<1>9. /\ s.status[b] = "ready" /\ s.job["extraction"][b] = j /\ s.job["summary"][b] = db.job["summary"][b]
  BY <1>2, <1>4, <1>5, <1>7, PutJobParts
<1> HIDE DEF s
<1>10. SettledAt(s, b)
  BY <1>2, <1>5, <1>9 DEF SettledAt
<1>11. /\ CanCommit(p, s)
       /\ Saved(p, s) => /\ Current(p)' /\ Settled(db)'
                         /\ db'.status = m.status /\ db'.layers = m.layers /\ db'.events = m.events
  BY <1>1, <1>2, <1>4, <1>5, <1>6, <1>7, <1>8, <1>10, BlockWritten DEF s
<1>12. Moves
  <2>1. CASE db.status[b] = "pending"
    BY <1>2, <1>3, <1>4, <1>7, <1>8, <1>11, <2>1, MovesByFinish
  <2>2. CASE db.status[b] = "ready"
    <3>1. [db.status EXCEPT ![b] = "ready"] = db.status
      BY <1>4, <2>2
    <3> QED BY <1>3, <1>7, <1>8, <1>11, <3>1, MovesNot
  <2> QED BY <1>2, <2>1, <2>2
<1>13. Objects(p)'
  BY <1>1, <1>3, <1>11, ObjectsAfter
<1> QED BY <1>3, <1>11, <1>12, <1>13 DEF SoleStep, SoleInv

LEMMA FinishExtractionMoves ==
  ASSUME NEW p, Scene(p), NEW w \in Worker, FinishExtraction(p, w)
  PROVE  SoleStep(p)
<1> DEFINE b == work[p][w].block
           i == mem[p].job["extraction"][b]
           j(found) == Closed(i, IF found THEN "succeeded" ELSE "skipped")
           n(found) == IF found THEN PutEvents(mem[p], b, mem[p].events[b] + 1) ELSE mem[p]
           m(found) == PutStatus(n(found), b, "ready")
           s(found) == PutJob(m(found), "extraction", b, j(found))
<1>1. /\ work[p][w].pc = "extraction" /\ Active(work[p][w]) /\ KindOf(work[p][w]) = "extraction"
      /\ up' = up /\ Idle.pc = "idle"
  BY DEF FinishExtraction, Active, KindOf, Idle
<1>2. /\ up[p] /\ work[p][w].attached /\ b \in Block /\ db.status[b] = "pending" /\ SettledAt(db, b)
      /\ db.layers[b] = "extract"
  BY <1>1, HeldBlock
<1>3. /\ mem[p] = db /\ db \in Store /\ "summary" \in Kind /\ "extraction" \in Kind /\ i \in Job /\ clock \in Nat
      /\ db.events \in [Block -> Nat] /\ db.status \in [Block -> {"absent", "pending", "ready"}]
  BY <1>2, OwnCopy DEF Scene, WorkInv, Store
<1>4. View(p, w) = "extract"
  BY <1>2, <1>3 DEF View
<1>5. PICK found \in BOOLEAN :
        CanCommit(p, s(found)) => Saved(p, s(found)) /\ work' = [work EXCEPT ![p][w] = Idle]
  BY <1>2, <1>4 DEF FinishExtraction
<1>6. j(found) \in Job /\ j(found).status # "running" /\ j(found).attempts = i.attempts
  <2>1. (IF found THEN "succeeded" ELSE "skipped") \in JobStatus \ {"none"}
    BY DEF JobStatus
  <2>2. j(found).status = IF found THEN "succeeded" ELSE "skipped"
    BY <1>3, JobOutcomes
  <2> QED BY <1>3, <2>1, <2>2, JobTypes, JobAttempts
<1>7. Rewrites(db.job["extraction"][b], j(found))
  BY <1>3, <1>6 DEF Rewrites
<1>8. db.events[b] = 0
  BY <1>2 DEF SettledAt
<1> DEFINE o == j(found)
           e == n(found)
<1>9. /\ e \in Store /\ e.status = db.status /\ e.layers = db.layers /\ e.job = db.job
      /\ e.events = db.events \/ e.events = [db.events EXCEPT ![b] = 1]
  <2>1. CASE found
    <3>1. e = PutEvents(db, b, 1)
      BY <1>3, <1>8, <2>1
    <3>2. PutEvents(db, b, 1).events = [db.events EXCEPT ![b] = 1]
      BY <1>3 DEF PutEvents, Store
    <3> HIDE DEF e
    <3> QED BY <1>2, <1>3, <3>1, <3>2, PutEventsParts
  <2>2. CASE ~found
    BY <1>3, <2>2
  <2> QED BY <2>1, <2>2
<1> DEFINE c == m(found)
           t == s(found)
<1>10. c = PutStatus(e, b, "ready") /\ t = PutJob(c, "extraction", b, o)
  OBVIOUS
<1>11. CanCommit(p, t) => Saved(p, t) /\ work' = [work EXCEPT ![p][w] = Idle]
  BY <1>5
<1>12. o \in Job /\ o.status # "running" /\ Rewrites(db.job["extraction"][b], o)
  BY <1>6, <1>7
<1> HIDE DEF o, e, c, t, b, i
<1>13. /\ c \in Store /\ c.status = [db.status EXCEPT ![b] = "ready"] /\ c.layers = db.layers /\ c.job = db.job
  <2>1. /\ PutStatus(e, b, "ready") \in Store /\ PutStatus(e, b, "ready").status = [e.status EXCEPT ![b] = "ready"]
        /\ PutStatus(e, b, "ready").layers = e.layers /\ PutStatus(e, b, "ready").job = e.job
    BY <1>2, <1>9, PutStatusParts
  <2> QED BY <1>9, <1>10, <2>1
<1>14. c.events = e.events
  BY <1>9, <1>10 DEF PutStatus, Store
<1>15. /\ t.status[b] = "ready" /\ t.job["extraction"][b] = o /\ t.job["summary"][b] = db.job["summary"][b]
  BY <1>2, <1>3, <1>10, <1>12, <1>13, PutJobParts
<1>16. SettledAt(t, b)
  BY <1>2, <1>12, <1>15 DEF SettledAt
<1>17. \A d \in Block : d # b => c.status[d] = db.status[d] /\ c.events[d] = db.events[d]
  BY <1>3, <1>9, <1>13, <1>14
<1>18. /\ CanCommit(p, t)
       /\ Saved(p, t) => /\ Current(p)' /\ Settled(db)'
                         /\ db'.status = c.status /\ db'.layers = c.layers /\ db'.events = c.events
  BY <1>1, <1>2, <1>3, <1>10, <1>12, <1>13, <1>16, <1>17, BlockWritten
<1>19. Moves
  BY <1>2, <1>3, <1>9, <1>11, <1>13, <1>14, <1>18, MovesByFinish
<1>20. Objects(p)'
  BY <1>1, <1>11, <1>18, ObjectsAfter
<1> QED BY <1>11, <1>18, <1>19, <1>20 DEF SoleStep, SoleInv

LEMMA SealMoves ==
  ASSUME NEW p, Scene(p), NEW b \in Block, Seal(p, b)
  PROVE  SoleStep(p)
<1> DEFINE j == [NoJob EXCEPT !.status = "pending"]
           m == PutStatus(mem[p], b, "pending")
           s == PutJob(m, "summary", b, j)
<1>1. /\ up[p] /\ up' = up /\ mem[p].status[b] = "absent"
      /\ CanCommit(p, s) => Saved(p, s) /\ UNCHANGED work
  BY DEF Seal
<1>2. /\ mem[p] = db /\ db \in Store /\ "summary" \in Kind /\ "extraction" \in Kind /\ Written(db) /\ Settled(db)
  BY <1>1, OwnCopy DEF Scene, SoleInv
<1>3. /\ db.layers[b] = "none" /\ db.events[b] = 0
      /\ db.job["summary"][b].status = "none" /\ db.job["extraction"][b].status = "none"
  BY <1>1, <1>2 DEF Written, Settled, SettledAt
<1>4. j \in Job /\ j.status = "pending" /\ j.attempts = 0
  BY ConstantsAssumption DEF NoJob, Job, JobRecord, JobStatus
<1>5. Rewrites(db.job["summary"][b], j)
  BY <1>3 DEF Rewrites
<1> HIDE DEF j
<1>6. /\ m \in Store /\ m.status = [db.status EXCEPT ![b] = "pending"] /\ m.layers = db.layers /\ m.job = db.job
  BY <1>2, PutStatusParts
<1>7. m.events = db.events
  BY <1>2 DEF PutStatus, Store
<1> HIDE DEF m
<1>8. /\ s.status[b] = "pending" /\ s.events[b] = 0 /\ s.job["summary"][b] = j
      /\ s.job["extraction"][b].status = "none"
  <2>1. db.status \in [Block -> {"absent", "pending", "ready"}]
    BY <1>2 DEF Store
  <2> QED BY <1>2, <1>3, <1>4, <1>6, <1>7, <2>1, PutJobParts
<1> HIDE DEF s
<1>9. SettledAt(s, b)
  BY <1>4, <1>8 DEF SettledAt, Awake
<1>10. \A c \in Block : c # b => m.status[c] = db.status[c] /\ m.events[c] = db.events[c]
  <2>1. db.status \in [Block -> {"absent", "pending", "ready"}]
    BY <1>2 DEF Store
  <2> QED BY <1>6, <1>7, <2>1
<1>11. /\ CanCommit(p, s)
       /\ Saved(p, s) => /\ Current(p)' /\ Settled(db)'
                         /\ db'.status = m.status /\ db'.layers = m.layers /\ db'.events = m.events
  <2>1. s = PutJob(m, "summary", b, j)
    BY DEF s
  <2>2. up[p] /\ up' = up /\ "summary" \in Kind /\ j \in Job /\ m \in Store /\ m.job = db.job
    BY <1>1, <1>2, <1>4, <1>6
  <2> QED BY <1>5, <1>9, <1>10, <2>1, <2>2, BlockWritten
<1>12. Moves
  BY <1>1, <1>2, <1>3, <1>6, <1>7, <1>11, MovesBySeal
<1>13. Objects(p)'
  BY <1>1, <1>11, ObjectsStay
<1> QED BY <1>1, <1>11, <1>12, <1>13 DEF SoleStep, SoleInv

LEMMA ManualRetryMoves ==
  ASSUME NEW p, Scene(p), NEW k \in Kind, NEW b \in Block, ManualRetry(p, k, b)
  PROVE  SoleStep(p)
<1> DEFINE i == mem[p].job[k][b]
           j == Retried(k, i)
           s == PutJob(mem[p], k, b, j)
<1>1. /\ up[p] /\ up' = up /\ mem[p].status[b] = "pending"
      /\ i.status = "failed" /\ CanCommit(p, s) /\ Saved(p, s) /\ UNCHANGED work
  BY DEF ManualRetry, Scene, Alone
<1>2. mem[p] = db /\ i \in Job /\ clock \in Nat /\ k \in {"summary", "extraction"}
  BY <1>1, OwnCopy DEF Scene, WorkInv, Kind
<1>3. j \in Job
  BY <1>2, JobTypes
<1>4. j.attempts = 0 /\ IF k = "summary" THEN j.status = "pending" ELSE j.status = "failed"
  BY <1>2, JobOutcomes, JobAttempts
<1>5. Rewrites(db.job[k][b], j)
  BY <1>1, <1>2 DEF Rewrites
<1>6. IF k = "summary" THEN Awake(j)
      ELSE /\ db.status[b] = "ready" => j.status # "running"
           /\ db.status[b] # "ready" => j.status \in {"none", "running", "failed"}
  BY <1>4 DEF Awake
<1> HIDE DEF i, j, s
<1>7. Current(p)' /\ Settled(db)' /\ Moves
  BY <1>1, <1>2, <1>3, <1>5, <1>6, JobWritten DEF s
<1>8. Objects(p)'
  BY <1>1, ObjectsStay
<1> QED BY <1>7, <1>8 DEF SoleStep, SoleInv

LEMMA OtherMutationMoves ==
  ASSUME NEW p, Scene(p), OtherMutation(p)
  PROVE  SoleStep(p)
<1>1. /\ up[p] /\ up' = up
      /\ CanCommit(p, mem[p]) => Saved(p, mem[p]) /\ UNCHANGED work
  BY DEF OtherMutation
<1>2. mem[p] = db /\ db \in Store /\ Settled(db)
  BY <1>1, OwnCopy DEF Scene, SoleInv
<1>3. CanCommit(p, db)
  BY <1>1, <1>2, NothingRefused DEF Rewrites
<1>4. /\ Current(p)' /\ Settled(db)'
      /\ db'.status = db.status /\ db'.layers = db.layers /\ db'.events = db.events
  BY <1>1, <1>2, <1>3, SoleCommit
<1>5. Moves
  BY <1>4, MovesNot
<1>6. Objects(p)'
  BY <1>1, <1>2, <1>3, ObjectsStay
<1> QED BY <1>4, <1>5, <1>6 DEF SoleStep, SoleInv

LEMMA RecoverMoves ==
  ASSUME NEW p, Scene(p), NEW k \in Kind, Recover(p, k)
  PROVE  SoleStep(p)
<1> DEFINE Swept(j) == IF Expired(j) THEN Interrupted(j) ELSE j
           f == [b \in Block |-> Swept(mem[p].job[k][b])]
           s == [mem[p] EXCEPT !.job[k] = f]
<1>1. /\ up[p] /\ up' = up
      /\ CanCommit(p, s) => Saved(p, s) /\ UNCHANGED work
  BY DEF Recover
<1>2. /\ mem[p] = db /\ db \in Store /\ Settled(db) /\ clock \in Nat /\ "summary" \in Kind /\ "extraction" \in Kind
      /\ \A l \in Kind, b \in Block : db.job[l][b] \in Job
  BY <1>1, OwnCopy DEF Scene, SoleInv, WorkInv
<1>3. ASSUME NEW j \in Job
      PROVE  /\ Swept(j) \in Job /\ Rewrites(j, Swept(j)) /\ (Awake(j) => Awake(Swept(j)))
             /\ Swept(j) # j => j.status = "running" /\ Swept(j).status = "failed"
  <2>1. CASE Expired(j)
    <3>1. Interrupted(j) \in Job
      BY <1>2, JobTypes
    <3>2. Interrupted(j).status = "failed" /\ Interrupted(j).due # None /\ Interrupted(j).attempts = j.attempts
      BY <1>2, JobOutcomes, JobAttempts
    <3> QED BY <2>1, <3>1, <3>2 DEF Expired, Rewrites, Awake
  <2>2. CASE ~Expired(j)
    BY <2>2 DEF Rewrites
  <2> QED BY <2>1, <2>2
<1>4. f \in [Block -> Job] /\ \A b \in Block : f[b] = Swept(db.job[k][b])
  BY <1>2, <1>3
<1> HIDE DEF f, Swept
<1>5. s \in Store
  BY <1>2, <1>4, Zenon DEF Store
<1>6. /\ s.status = db.status /\ s.layers = db.layers /\ s.events = db.events
      /\ \A l \in Kind, b \in Block : s.job[l][b] = IF l = k THEN f[b] ELSE db.job[l][b]
  BY <1>2, <1>4 DEF Store
<1> HIDE DEF s
<1>7. \A l \in Kind, b \in Block : s.job[l][b] \in {Swept(db.job[l][b]), db.job[l][b]}
  BY <1>4, <1>6
<1>8. \A l \in Kind, b \in Block : Rewrites(db.job[l][b], s.job[l][b])
  BY <1>2, <1>3, <1>7 DEF Rewrites
<1>9. CanCommit(p, s)
  BY <1>1, <1>5, <1>8, NothingRefused
<1>10. Settled(s)
  <2> SUFFICES ASSUME NEW b \in Block PROVE SettledAt(s, b)
    BY DEF Settled
  <2>1. SettledAt(db, b)
    BY <1>2 DEF Settled
  <2>2. Awake(db.job["summary"][b]) => Awake(s.job["summary"][b])
    BY <1>2, <1>3, <1>7
  <2>3. \/ s.job["extraction"][b] = db.job["extraction"][b]
        \/ db.job["extraction"][b].status = "running" /\ s.job["extraction"][b].status = "failed"
    BY <1>2, <1>3, <1>7
  <2> QED BY <1>6, <2>1, <2>2, <2>3 DEF SettledAt
<1>11. /\ Current(p)' /\ Settled(db)'
       /\ db'.status = s.status /\ db'.layers = s.layers /\ db'.events = s.events
  BY <1>1, <1>5, <1>9, <1>10, SoleCommit
<1>12. Moves
  BY <1>6, <1>11, MovesNot
<1>13. Objects(p)'
  BY <1>1, <1>9, ObjectsStay
<1> QED BY <1>11, <1>12, <1>13 DEF SoleStep, SoleInv

\* A heartbeat of the only process moves the same lease on both sides.
LEMMA RenewMoves ==
  ASSUME NEW p, Scene(p), NEW w \in Worker, Renew(p, w)
  PROVE  SoleStep(p)
<1> DEFINE a == work[p][w]
           b == a.block
           k == KindOf(a)
           l == clock + Lease
           next == [a EXCEPT !.lost = ~(RunningAs(db.job[k][b], a) /\ db.job[k][b].lease > clock
                                        /\ RunningAs(mem[p].job[k][b], a))]
<1>0. p \in Proc /\ StoreInv /\ WorkInv /\ SoleInv(p)
  BY DEF Scene, Alone
<1>1. Active(a) /\ fresh' = fresh /\ up' = up
  BY DEF Renew, InFlight, Active
<1>2. up[p] /\ a.attached /\ b \in Block
  BY <1>1, HeldBlock
<1>3. mem[p] = db /\ fresh[p]
  BY <1>2, OwnCopy
<1>4. \/ db' = db /\ mem' = mem
      \/ /\ db' = [db EXCEPT !.job[k][b].lease = l]
         /\ mem' = [mem EXCEPT ![p].job[k][b].lease = l]
  BY <1>3 DEF Renew
<1>5. mem'[p] = db'
  <2>1. CASE db' = db /\ mem' = mem
    BY <1>3, <2>1
  <2>2. CASE db' = [db EXCEPT !.job[k][b].lease = l] /\ mem' = [mem EXCEPT ![p].job[k][b].lease = l]
    <3>1. mem'[p] = [mem[p] EXCEPT !.job[k][b].lease = l]
      BY <1>0, <2>2 DEF StoreInv
    <3> QED BY <1>3, <2>2, <3>1
  <2> QED BY <1>4, <2>1, <2>2
<1>6. SameUpToLease(db', db) /\ db' \in Store
  BY <1>0, HeartbeatWrites
<1>7. Settled(db)'
  <2>1. "summary" \in Kind /\ "extraction" \in Kind
    BY DEF Kind
  <2> QED BY <1>0, <1>6, <2>1 DEF SoleInv, Settled, SettledAt, Awake, SameUpToLease, SameClaim
<1>8. Moves
  BY <1>6, MovesNot DEF SameUpToLease
<1>9. Current(p)'
  BY <1>1, <1>3, <1>5 DEF Current
<1>10. Objects(p)'
  <2>1. PICK x \in BOOLEAN : work' = [work EXCEPT ![p][w].lost = x]
    BY DEF Renew
  <2>2. [a EXCEPT !.lost = x].pc = a.pc /\ [a EXCEPT !.lost = x].attached = a.attached
    BY <1>0 DEF WorkInv, Activation
  <2>3. work' = [work EXCEPT ![p][w] = [a EXCEPT !.lost = x]]
    BY <2>1
  <2>4. a.attached /\ a.pc # "failing"
    BY <1>0, <1>1, BusyTypes DEF SoleInv, Objects
  <2> QED BY <2>2, <2>3, <2>4, ObjectsAfter
<1> QED BY <1>7, <1>8, <1>9, <1>10 DEF SoleStep, SoleInv

LEMMA ReloadMoves ==
  ASSUME NEW p, Scene(p), Reload(p)
  PROVE  SoleStep(p)
<1>1. up[p] /\ up' = up /\ db' = db
  BY DEF Reload
<1>2. fresh[p] /\ mem[p] = db /\ db \in Store /\ p \in Proc /\ mem \in [Proc -> Store]
  BY <1>1, OwnCopy DEF Scene, StoreInv
<1>3. mem' = [mem EXCEPT ![p] = Merged(mem[p])] /\ fresh' = fresh /\ UNCHANGED work
  BY <1>2 DEF Reload
<1>4. Merged(db) = db
  <2>1. \A k \in Kind, b \in Block : MergeLease(db.job[k][b], db.job[k][b]) = db.job[k][b]
    <3>1. ASSUME NEW j \in Job PROVE MergeLease(j, j) = j
      <4>1. j.lease \in Nat
        BY DEF Job, JobRecord
      <4> QED BY <4>1 DEF MergeLease
    <3>2. \A k \in Kind, b \in Block : db.job[k][b] \in Job
      BY <1>2 DEF Store
    <3> QED BY <3>1, <3>2
  <2>2. db.job \in [Kind -> [Block -> Job]]
    BY <1>2 DEF Store
  <2>3. [k \in Kind |-> [b \in Block |-> MergeLease(db.job[k][b], db.job[k][b])]] = db.job
    BY <2>1, <2>2
  <2>4. [db EXCEPT !.job = db.job] = db
    BY <1>2 DEF Store
  <2> QED BY <2>3, <2>4 DEF Merged
<1>5. Current(p)'
  BY <1>1, <1>2, <1>3, <1>4 DEF Current
<1>6. Objects(p)'
  BY <1>3, ObjectsStay
<1> QED BY <1>1, <1>5, <1>6, NothingWritten

LEMMA CrashMoves ==
  ASSUME NEW p, Scene(p), Crash(p)
  PROVE  SoleStep(p)
<1>1. p \in Proc /\ up \in [Proc -> BOOLEAN] /\ work \in [Proc -> [Worker -> Activation]]
  BY DEF Scene, Alone, StoreInv, WorkInv
<1>2. db' = db /\ ~up'[p] /\ \A w \in Worker : work'[p][w] = Idle
  BY <1>1 DEF Crash
<1>3. Idle.pc = "idle"
  BY DEF Idle
<1>4. Current(p)' /\ Objects(p)'
  BY <1>2, <1>3 DEF Current, Objects
<1> QED BY <1>2, <1>4, NothingWritten

LEMMA OpenMoves ==
  ASSUME NEW p, Scene(p), Open(p)
  PROVE  SoleStep(p)
<1>1. p \in Proc /\ StoreInv
  BY DEF Scene, Alone
<1>2. /\ db' = db /\ UNCHANGED work
      /\ mem' = [mem EXCEPT ![p] = db] /\ fresh' = [fresh EXCEPT ![p] = TRUE]
  BY DEF Open
<1>3. Current(p)'
  BY <1>1, <1>2 DEF StoreInv, Current
<1>4. Objects(p)'
  BY <1>2, ObjectsStay
<1> QED BY <1>2, <1>3, <1>4, NothingWritten

LEMMA SoleRest ==
  ASSUME NEW p, Scene(p), UNCHANGED <<db, mem, fresh, up, work>>
  PROVE  SoleStep(p)
<1>1. Current(p)'
  BY DEF Scene, SoleInv, Current
<1>2. Objects(p)'
  BY ObjectsStay
<1> QED BY <1>1, <1>2, NothingWritten

-----------------------------------------------------------------------------
(* The theorems about one process *)

LEMMA SoleInit ==
  ASSUME Init, NEW p, Alone(p)
  PROVE  SoleInv(p) /\ Pipeline!Init
<1>1. p \in Proc
  BY DEF Alone
<1>2. Current(p)
  BY <1>1 DEF Init, Current
<1>3. Objects(p)
  BY <1>1 DEF Init, Idle, Objects
<1>4. Settled(db)
  <2>1. "extraction" \in Kind
    BY DEF Kind
  <2> QED BY <2>1 DEF Init, EmptyStore, NoJob, Settled, SettledAt
<1>5. Pipeline!Init
  <2>1. /\ [b \in Block |-> Stage(b)] = [b \in Block |-> "absent"]
        /\ db.layers = [b \in Block |-> "none"] /\ db.events = [b \in Block |-> 0]
    BY DEF Init, EmptyStore, Stage
  <2> QED BY <2>1 DEF Pipeline!Init
<1> QED BY <1>2, <1>3, <1>4, <1>5 DEF SoleInv

LEMMA SoleNext ==
  ASSUME NEW p, Alone(p), IInv, ClaimInv, SoleInv(p), [Next]_vars
  PROVE  SoleStep(p)
<1>0. Scene(p)
  BY Parts DEF Scene
<1>1. ASSUME NEW w \in Worker, Activity(p, w) PROVE SoleStep(p)
  BY <1>0, <1>1, ClaimSummaryMoves, PickSummarizedMoves, FinishSummaryMoves, FailSummaryMoves,
     SkipExtractionMoves, ClaimExtractionMoves, FinishExtractionMoves, FailExtractionMoves, RenewMoves
     DEF Activity
<1>2. CASE Maintenance(p)
  <2>1. ~RejectedMutation(p)
    BY DEF RejectedMutation, Alone
  <2> QED BY <1>0, <1>2, <2>1, RecoverMoves, ReloadMoves, SealMoves, ManualRetryMoves, OtherMutationMoves,
             CrashMoves, OpenMoves DEF Maintenance
<1>3. CASE Tick \/ UNCHANGED vars
  BY <1>0, <1>3, SoleRest DEF Tick, vars
<1>4. \A q \in Proc : q = p
  BY DEF Alone
<1> QED BY <1>1, <1>2, <1>3, <1>4 DEF Next

\* With one process, heartbeats in time and no mutation that throws, the derivation does what
\* BlockPipeline promises, for any number of activations and Blocks, crashes and retries: a Block
\* is summarized once, and becomes ready in one step with its cards, which are written once.
THEOREM DerivationIsAPipeline == ASSUME NEW p, Alone(p) PROVE Spec => PipelineSpec
<1>1. Punctual
  BY DEF Alone
<1>2. IInv /\ ClaimInv /\ [Next]_vars => ClaimInv'
  BY <1>1, ClaimStep
<1>3. IInv /\ ClaimInv /\ SoleInv(p) /\ [Next]_vars => SoleInv(p)' /\ Moves
  BY SoleNext DEF SoleStep
<1>4. Init => SoleInv(p) /\ Pipeline!Init
  BY SoleInit
<1>5. PipelineSpec <=> Pipeline!Init /\ [][Pipeline!Next]_(Pipeline!vars)
  BY DEF PipelineSpec, Pipeline!Spec
<1>6. Moves <=> [Pipeline!Next]_(Pipeline!vars)
  BY DEF Moves
<1> QED BY <1>2, <1>3, <1>4, <1>5, <1>6, ClaimInit, Invariance, PTL DEF Spec

\* In the same setting a pending Block has a time in the scheduling index as long as it has
\* attempts left: what a crash, a failed call or an expired claim leaves behind is looked at again.
THEOREM NoWorkIsForgotten == ASSUME NEW p, Alone(p) PROVE Spec => []NoForgottenWork
<1>1. Punctual
  BY DEF Alone
<1>2. IInv /\ ClaimInv /\ [Next]_vars => ClaimInv'
  BY <1>1, ClaimStep
<1>3. IInv /\ ClaimInv /\ SoleInv(p) /\ [Next]_vars => SoleInv(p)'
  BY SoleNext DEF SoleStep
<1>4. Init => SoleInv(p)
  BY SoleInit
<1>5. IInv /\ SoleInv(p) => NoForgottenWork
  <2> SUFFICES ASSUME db \in Store, Settled(db), NEW b \in Block,
                      db.status[b] = "pending", ~Exhausted(b), ~InterruptedRetry(b)
               PROVE  CoreWake(b) # None
    BY Parts DEF StoreInv, SoleInv, NoForgottenWork
  <2> DEFINE i == db.job["summary"][b]
             j == db.job["extraction"][b]
  <2>1. /\ i \in Job /\ j \in Job /\ "summary" \in Kind /\ "extraction" \in Kind
        /\ MaxAttempts \in Nat \ {0} /\ None \notin Nat
    BY ConstantsAssumption DEF Store, Kind
  <2>2. /\ i.attempts \in 0..MaxAttempts /\ j.attempts \in 0..MaxAttempts /\ i.lease \in Nat /\ j.lease \in Nat
    BY <2>1 DEF Job, JobRecord
  <2>3. Awake(i) /\ j.status \in {"none", "running", "failed"}
    BY DEF Settled, SettledAt
  <2>4. /\ i.status = "failed" => i.attempts < MaxAttempts
        /\ j.status = "failed" => j.attempts < MaxAttempts /\ j.due # None
    BY <2>1, <2>2 DEF Exhausted, InterruptedRetry
  <2> HIDE DEF i, j
  <2>5. i.status # "succeeded" => JobWake(i) # None
    BY <2>1, <2>2, <2>3, <2>4 DEF Awake, JobWake
  <2>6. j.status # "none" => JobWake(j) # None
    BY <2>1, <2>2, <2>3, <2>4 DEF JobWake
  <2> QED BY <2>1, <2>5, <2>6 DEF CoreWake, i, j
<1> QED BY <1>2, <1>3, <1>4, <1>5, ClaimInit, Invariance, PTL DEF Spec

================================================================================
