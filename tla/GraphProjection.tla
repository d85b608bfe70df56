---------------------------- MODULE GraphProjection ----------------------------
(***************************************************************************)
(* The Knowledge Graph's projection jobs.  Events are queued in batches,   *)
(* a worker claims one batch, calls the model outside every transaction    *)
(* and commits what it answers.  The policy (enabled, paused, epoch and    *)
(* the approved history) is in the settings of the same database but       *)
(* belongs to no namespace revision, so an administrator moves it between  *)
(* any two steps; a claim is only as good as the epoch it was made in.     *)
(*                                                                         *)
(* A process whose revision is not the durable one gets nothing committed, *)
(* so the model keeps the durable jobs and who is up to date (fresh), not  *)
(* every copy.  Time is abstract: a lease expires, a backoff ends.         *)
(*                                                                         *)
(* Sources: packages/core/src/store.ts, storage.ts, background-work.ts,    *)
(* sqlite.ts; src/runtime.ts and src/metadata.ts (the policy).             *)
(***************************************************************************)
EXTENDS Naturals, Sequences, FiniteSets

CONSTANTS
  GraphProc,      \* processes
  GraphWorker,    \* activations that may project at once within a process
  GraphEvent,     \* Events, numbered in the order queueMissing ranks them
  GraphBatch,     \* GRAPH_PROJECTION_BATCH_SIZE
  GraphAttempts,  \* DERIVATION_MAX_ATTEMPTS
  NoEpoch,        \* undefined, where an epoch is expected
  Overlap,        \* TRUE: other work of the process gets in between the moment
                  \* prepareGraphWork looks for revoked jobs and its commit
  MaxEpoch,       \* bound: changes of the policy
  MaxGraphRetry,  \* bound: manual retries
  MaxGraphCrash   \* bound: process restarts

ASSUME GraphConstants ==
  /\ GraphEvent \subseteq Nat /\ IsFiniteSet(GraphEvent)
  /\ GraphBatch \in Nat \ {0} /\ GraphAttempts \in Nat \ {0}
  /\ NoEpoch \notin Nat
  /\ Overlap \in BOOLEAN
  /\ MaxEpoch \in Nat /\ MaxGraphRetry \in Nat /\ MaxGraphCrash \in Nat

\* In an instance, processes and Events may be left "unused".
VARIABLES
  policy,     \* the settings row: enabled, paused, epoch, approved Events
  preview,    \* the backlog an administrator has counted and may approve
  card,       \* card[e]: the durable status of Event e
  jobs,       \* the durable jobs; a job's id is its index
  current,    \* current[p]: p holds the durable revision
  act,        \* act[p][w]: what activation w of p is doing
  open,       \* open[p]: p has opened the namespace
  paid,       \* history: paid[e], model calls made for e
  crashes,    \* process restarts so far
  granted     \* history: granted[e], retry budgets given to e after the first

graphVars == <<policy, preview, card, jobs, current, act, open, crashes, paid, granted>>

-----------------------------------------------------------------------------
(* Data *)

Status == {"unused", "absent", "active", "forgotten"}
Epoch == 0..MaxEpoch

GraphJob == [src: SUBSET GraphEvent,
             status: {"pending", "running", "completed", "failed"},
             attempts: 0..GraphAttempts,
             due: {"never", "waiting", "ripe"},          \* nextRetryAt
             lease: {"none", "live", "expired"},         \* leaseUntil
             claimEpoch: Epoch \cup {NoEpoch},
             createdEpoch: Epoch \cup {NoEpoch},
             err: {"none", "revoked", "schema", "other"}, \* lastError
             recovered: BOOLEAN]             \* nameProvenanceRecoveryVersion = 1

\* What an activation holds across its awaits: the jobs it found revoked (ids, as they
\* were in seen, which is all that is left of them once the process has reloaded) or its
\* claim; the epoch it read.
\* The claim token is unique to a job and an attempt of it.
Activity == [pc: {"idle", "adding", "revoking", "prepared", "calling"},
             epoch: Epoch \cup {NoEpoch}, ids: SUBSET Nat, attempt: 0..GraphAttempts,
             seen: Seq(GraphJob), detached: BOOLEAN]

Resting == [pc |-> "idle", epoch |-> NoEpoch, ids |-> {}, attempt |-> 0,
            seen |-> <<>>, detached |-> FALSE]

LegacyJob == [src |-> GraphEvent, status |-> "failed", attempts |-> GraphAttempts,
              due |-> "never", lease |-> "none", claimEpoch |-> NoEpoch,
              createdEpoch |-> NoEpoch, err |-> "schema", recovered |-> FALSE]

GraphTypeOK ==
  /\ policy \in [enabled: BOOLEAN, paused: BOOLEAN, epoch: Epoch, approved: SUBSET GraphEvent]
  /\ preview \in [epoch: Epoch \cup {NoEpoch}, approved: SUBSET GraphEvent]
  /\ card \in [GraphEvent -> Status]
  /\ jobs \in Seq(GraphJob)
  /\ current \in [GraphProc -> BOOLEAN] /\ open \in [GraphProc -> {"unused", "no", "yes"}]
  /\ act \in [GraphProc -> [GraphWorker -> Activity]]
  /\ paid \in [GraphEvent -> Nat] /\ granted \in [GraphEvent -> Nat]

-----------------------------------------------------------------------------
(* Which sources may be projected, and when a job is due *)

CanProcess == policy.enabled /\ ~policy.paused
Exposed(e) == card[e] = "active"

SourceIds(j) ==
  {e \in j.src : Exposed(e) /\ (j.createdEpoch = policy.epoch \/ e \in policy.approved)}

NeedsRecovery(j) ==
  /\ ~j.recovered /\ j.status = "failed" /\ j.err = "schema"
  /\ ~(j.attempts < GraphAttempts /\ j.due # "never")
  /\ j.src # {} /\ \A e \in j.src : Exposed(e)

Claimable(j) ==
  /\ j.attempts < GraphAttempts
  /\ SourceIds(j) # {}
  /\ j.status = "pending" \/ (j.status = "failed" /\ j.due = "ripe")

\* prepareGraphWork: jobs that no claim of this epoch can finish.
Revoked(j) ==
  \/ j.status = "pending" /\ j.attempts >= GraphAttempts
  \/ /\ j.claimEpoch \notin {NoEpoch, policy.epoch}
     /\ j.status # "completed" /\ j.err # "revoked"
     /\ j.attempts < GraphAttempts \/ j.status # "failed" \/ j.lease # "none" \/ j.due # "never"
     /\ j.attempts >= GraphAttempts \/ SourceIds(j) # {}

Covered == UNION {jobs[i].src : i \in DOMAIN jobs}
Missing == {e \in policy.approved : card[e] \notin {"unused", "absent"} /\ e \notin Covered}

\* Faulty variant: a claim that ran out wakes nobody, as if its holder still had it.
WakesForRestingJobs(j) ==
  /\ SourceIds(j) # {} /\ j.err # "revoked"
  /\ j.attempts < GraphAttempts
  /\ \/ j.claimEpoch \notin {NoEpoch, policy.epoch} /\ j.status # "completed"
     \/ j.status = "pending"
     \/ j.status = "failed" /\ j.due = "ripe"

\* jobWake and the graph part of backgroundWorkTimes: the index wakes a worker for j now.
WakesFor(j) ==
  \/ /\ j.attempts >= GraphAttempts
     /\ \/ j.status = "pending"
        \/ j.status = "running" /\ j.claimEpoch \notin {NoEpoch, policy.epoch}
  \/ /\ SourceIds(j) # {} /\ j.err # "revoked"
     /\ \/ /\ j.claimEpoch \notin {NoEpoch, policy.epoch}
           /\ j.status # "completed" /\ j.attempts < GraphAttempts
        \/ j.status = "running" /\ j.lease # "live"
        \/ /\ j.attempts < GraphAttempts
           /\ j.status = "pending" \/ (j.status = "failed" /\ j.due = "ripe")
        \/ NeedsRecovery(j)

\* What is persisted as the time of the namespace's next pass has come.
Due == CanProcess /\
  \/ \E e \in policy.approved : card[e] = "active" /\ e \notin Covered
  \/ \E i \in DOMAIN jobs : WakesFor(jobs[i])

-----------------------------------------------------------------------------
(* Queueing *)

NewJob(src, epoch) ==
  [src |-> src, status |-> "pending", attempts |-> 0, due |-> "never", lease |-> "none",
   claimEpoch |-> NoEpoch, createdEpoch |-> epoch, err |-> "none", recovered |-> TRUE]

Rank(S, x) == Cardinality({y \in S : y <= x})
InOrder(S) == [k \in 1..Cardinality(S) |-> CHOOSE x \in S : Rank(S, x) = k]

\* Consecutive slices of at most GraphBatch Events.
Slices(ids) ==
  [k \in 1..((Cardinality(ids) + GraphBatch - 1) \div GraphBatch) |->
     {x \in ids : (Rank(ids, x) - 1) \div GraphBatch = k - 1}]

\* queueGraphProjection on the jobs js.
Queue(js, ids, epoch) ==
  LET slices == Slices(ids \ UNION {js[i].src : i \in DOMAIN js})
  IN js \o [k \in DOMAIN slices |-> NewJob(slices[k], epoch)]

QueueMissing(js) == Queue(js, {e \in policy.approved : Exposed(e)}, policy.epoch)

-----------------------------------------------------------------------------
(* Commits *)

\* saveUnit with a graphEpoch: refused when the policy has moved on, or the revision.
EpochHolds(p, epoch) == current[p] /\ CanProcess /\ policy.epoch = epoch

\* p can do something now.
Free(p) == open[p] = "yes" /\ (Overlap \/ \A w \in GraphWorker : act[p][w].pc # "revoking")

Wrote(p) == current' = [q \in GraphProc |-> q = p]
Rest(p, w) == act' = [act EXCEPT ![p][w] = Resting]
Hold(p, w, pc, ids, n) ==
  act' = [act EXCEPT ![p][w] = [Resting EXCEPT !.pc = pc, !.epoch = policy.epoch,
                                               !.ids = ids, !.attempt = n]]

RetryDue(attempts) == IF attempts >= GraphAttempts THEN "never" ELSE "waiting"
Failing(j) == [j EXCEPT !.status = "failed", !.err = "other", !.due = RetryDue(j.attempts)]

-----------------------------------------------------------------------------
(* One pass of projectEligibleGraph *)

RevokedIds == {i \in DOMAIN jobs : Revoked(jobs[i])}

\* prepareGraphWork up to its commit: what is revoked is decided here.
Prepare(p, w) ==
  /\ Free(p) /\ current[p] /\ act[p][w].pc = "idle" /\ CanProcess
  /\ RevokedIds # {} \/ Missing # {} \/ \E i \in DOMAIN jobs : Claimable(jobs[i])
  /\ IF RevokedIds = {} /\ Missing = {}
     THEN Hold(p, w, "prepared", {}, 0)
     ELSE act' = [act EXCEPT ![p][w] = [Resting EXCEPT !.pc = "revoking", !.seen = jobs,
                                          !.epoch = policy.epoch, !.ids = RevokedIds]]
  /\ UNCHANGED <<policy, preview, card, jobs, current, open, paid, granted, crashes>>

Retired(j) == [j EXCEPT !.status = "failed", !.due = "never", !.lease = "none",
                        !.err = IF j.err = "none" THEN "other" ELSE j.err]
Revocation(j) == [j EXCEPT !.status = "failed", !.due = "never", !.lease = "none",
                           !.err = "revoked"]

\* Faulty variant: the replacement starts with a new budget.
ReplacementFresh(j) == NewJob(j.src, policy.epoch)
Replacement(j) == [j EXCEPT !.status = IF j.due = "never" THEN "pending" ELSE "failed",
                            !.lease = "none", !.claimEpoch = NoEpoch]

\* The commit trusts the jobs found before it waited for its turn: it looks at none of
\* them again, and of objects that a reload has replaced only the new jobs are kept.
RevokeJobs(a) ==
  LET found == IF a.detached THEN a.seen ELSE jobs
      replaced == {i \in a.ids : found[i].attempts < GraphAttempts /\ SourceIds(found[i]) # {}}
      kept == [i \in DOMAIN jobs |->
                 IF i \notin a.ids \/ a.detached THEN jobs[i]
                 ELSE IF jobs[i].attempts >= GraphAttempts THEN Retired(jobs[i])
                 ELSE IF i \in replaced THEN Revocation(jobs[i]) ELSE jobs[i]]
      order == InOrder(replaced)
  IN kept \o [k \in DOMAIN order |-> Replacement(found[order[k]])]

CommitPrepare(p, w) ==
  LET a == act[p][w] IN
  /\ a.pc = "revoking"
  /\ IF EpochHolds(p, a.epoch)
     THEN /\ jobs' = QueueMissing(RevokeJobs(a))
          /\ Wrote(p)
          /\ Hold(p, w, "prepared", {}, 0)
     ELSE Rest(p, w) /\ UNCHANGED <<jobs, current>>
  /\ UNCHANGED <<policy, preview, card, open, paid, granted, crashes>>

Leased(j) == [j EXCEPT !.status = "running", !.attempts = @ + 1, !.lease = "live",
                       !.claimEpoch = policy.epoch, !.err = "none", !.recovered = TRUE]

\* Sources that may not be projected now and sources beyond one batch go on in
\* jobs of their own, which keep the attempts, the backoff and the epoch.
SplitOff(j, src) == [j EXCEPT !.src = src]

\* The claim of job i: pending jobs go before failed ones, and its id does not change.
ClaimJob(p, w, i) ==
  LET j == jobs[i]
      slices == Slices(SourceIds(j))
      deferred == j.src \ SourceIds(j)
      siblings == (IF deferred = {} THEN <<>> ELSE <<deferred>>) \o Tail(slices)
  IN /\ jobs' = [jobs EXCEPT ![i] = [Leased(j) EXCEPT !.src = slices[1]]]
                  \o [k \in DOMAIN siblings |-> SplitOff(j, siblings[k])]
     /\ paid' = [e \in GraphEvent |-> IF e \in slices[1] THEN paid[e] + 1 ELSE paid[e]]
     /\ Hold(p, w, "calling", {i}, j.attempts + 1)
     /\ Wrote(p)

ClaimGraph(p, w) ==
  LET ripe == {i \in DOMAIN jobs : Claimable(jobs[i])}
      first == {i \in ripe : jobs[i].status = "pending"}
  IN /\ act[p][w].pc = "prepared" /\ Free(p)
     /\ \/ /\ current[p] /\ CanProcess
           /\ \E i \in IF first = {} THEN ripe ELSE first : ClaimJob(p, w, i)
        \/ /\ ~current[p] \/ ~CanProcess \/ ripe = {}
           /\ Rest(p, w) /\ UNCHANGED <<jobs, paid, current>>
     /\ UNCHANGED <<policy, preview, card, open, granted, crashes>>

\* The claim token of the job is this activation's.
Holds(p, w, i) == jobs[i].attempts = act[p][w].attempt

\* failGraphProjection: silent when the policy moved on; a foreign claim is left alone,
\* though even that commit is written.
FailGraph(p, w, i) ==
  IF ~EpochHolds(p, jobs[i].claimEpoch) THEN UNCHANGED <<jobs, current>>
  ELSE /\ Wrote(p)
       /\ jobs' = IF Holds(p, w, i) /\ jobs[i].status # "completed"
                  THEN [jobs EXCEPT ![i] = Failing(@)] ELSE jobs

\* completeGraphProjection.  The lease heartbeat may have told that the claim is lost,
\* and applyGraphProjection may refuse the answer: both end in failGraphProjection.
CompleteGraph(p, w) ==
  LET i == CHOOSE x \in act[p][w].ids : TRUE IN
  /\ act[p][w].pc = "calling" /\ Free(p)
  /\ EpochHolds(p, jobs[i].claimEpoch)
  /\ Holds(p, w, i) /\ jobs[i].status = "running"
  /\ jobs' = [jobs EXCEPT ![i].status = "completed", ![i].err = "none", ![i].due = "never"]
  /\ Wrote(p) /\ Rest(p, w)
  /\ UNCHANGED <<policy, preview, card, open, paid, granted, crashes>>

FailCall(p, w) ==
  /\ act[p][w].pc = "calling" /\ Free(p)
  /\ \E i \in act[p][w].ids : FailGraph(p, w, i)
  /\ Rest(p, w)
  /\ UNCHANGED <<policy, preview, card, open, paid, granted, crashes>>

\* recoverExpiredDerivations, its Graph part; a pass gets to it after its prepareGraphWork.
RecoverGraph(p) ==
  LET dead == {i \in DOMAIN jobs : jobs[i].status = "running" /\ jobs[i].lease # "live"} IN
  /\ Free(p) /\ current[p] /\ CanProcess /\ dead # {}
  /\ jobs' = [i \in DOMAIN jobs |-> IF i \in dead THEN Failing(jobs[i]) ELSE jobs[i]]
  /\ Wrote(p)
  /\ UNCHANGED <<policy, preview, card, act, open, paid, granted, crashes>>

\* retryGraphProjection: the failed job stays as the record of the last budget, and a
\* new job gets a new one.  The claim that follows is ClaimGraph.
RetryGraph(p, w, i) ==
  LET src == {e \in jobs[i].src : Exposed(e)} IN
  /\ Free(p) /\ current[p] /\ CanProcess /\ act[p][w].pc = "idle"
  /\ \A e \in GraphEvent : granted[e] < MaxGraphRetry
  /\ jobs[i].status = "failed" /\ src # {}
  /\ jobs' = Append([jobs EXCEPT ![i].err = "other", ![i].due = "never", ![i].lease = "none"],
                    [NewJob(src, policy.epoch) EXCEPT !.recovered = jobs[i].recovered])
  /\ granted' = [e \in GraphEvent |-> IF e \in src THEN granted[e] + 1 ELSE granted[e]]
  /\ Wrote(p)
  /\ UNCHANGED <<policy, preview, card, act, open, paid, crashes>>

-----------------------------------------------------------------------------
(* Events and other processes *)

\* A commit that adds Event e queues it under the policy the process last read; the
\* store drops the new job when the policy no longer processes, and keeps the Event.
StartAdd(p, w, e) ==
  /\ Free(p) /\ act[p][w].pc = "idle" /\ card[e] = "absent"
  /\ act' = [act EXCEPT ![p][w] = [Resting EXCEPT !.pc = "adding", !.ids = {e},
                                     !.epoch = IF CanProcess THEN policy.epoch ELSE NoEpoch]]
  /\ UNCHANGED <<policy, preview, card, jobs, current, open, paid, granted, crashes>>

CommitAdd(p, w) ==
  LET a == act[p][w] IN
  /\ a.pc = "adding" /\ Free(p)
  /\ IF current[p] /\ \A e \in a.ids : card[e] = "absent"
     THEN /\ card' = [e \in GraphEvent |-> IF e \in a.ids THEN "active" ELSE card[e]]
          /\ jobs' = IF a.epoch # NoEpoch /\ CanProcess THEN Queue(jobs, a.ids, a.epoch) ELSE jobs
          /\ Wrote(p)
     ELSE UNCHANGED <<card, jobs, current>>
  /\ Rest(p, w)
  /\ UNCHANGED <<policy, preview, open, paid, granted, crashes>>

\* Events are forgotten (or archived, which is the same here) by commits of their own; a
\* superseded Event counts as an active one throughout this module.
ForgetEvent(p, e) ==
  /\ Free(p) /\ current[p] /\ Exposed(e)
  /\ card' = [card EXCEPT ![e] = "forgotten"]
  /\ Wrote(p)
  /\ UNCHANGED <<policy, preview, jobs, act, open, paid, granted, crashes>>

ReloadGraph(p) ==
  /\ Free(p) /\ ~current[p]
  /\ current' = [current EXCEPT ![p] = TRUE]
  /\ act' = [act EXCEPT ![p] = [w \in GraphWorker |->
                 IF act[p][w].pc = "revoking" THEN [act[p][w] EXCEPT !.detached = TRUE] ELSE act[p][w]]]
  /\ UNCHANGED <<policy, preview, card, jobs, open, paid, granted, crashes>>

\* recoverGraphNameProvenanceFailures
Recovering(j) ==
  IF NeedsRecovery(j) /\ SourceIds(j) # {}
  THEN [j EXCEPT !.recovered = TRUE, !.status = "pending", !.attempts = 0,
                 !.err = "none", !.due = "never"]
  ELSE j

\* StrataGate.open, after the Topic bootstrap: recovery and the approved backlog.
OpenGraph(p) ==
  /\ open[p] = "no"
  /\ open' = [open EXCEPT ![p] = "yes"]
  /\ LET recovered == {i \in DOMAIN jobs : Recovering(jobs[i]) # jobs[i]} IN
     IF CanProcess /\ (recovered # {} \/ policy.approved \ Covered # {})
     THEN /\ jobs' = QueueMissing([i \in DOMAIN jobs |-> Recovering(jobs[i])])
          /\ granted' = [e \in GraphEvent |-> granted[e] + Cardinality({i \in recovered : e \in jobs[i].src})]
          /\ Wrote(p)
     ELSE current' = [current EXCEPT ![p] = TRUE] /\ UNCHANGED <<jobs, granted>>
  /\ UNCHANGED <<policy, preview, card, act, paid, crashes>>

CrashGraph(p) ==
  /\ open[p] = "yes"
  /\ crashes < MaxGraphCrash /\ crashes' = crashes + 1
  /\ open' = [open EXCEPT ![p] = "no"]
  /\ current' = [current EXCEPT ![p] = FALSE]
  /\ act' = [act EXCEPT ![p] = [w \in GraphWorker |-> Resting]]
  /\ UNCHANGED <<policy, preview, card, jobs, paid, granted>>

-----------------------------------------------------------------------------
(* adminGraphControl: each change is one transaction on the settings and raises the epoch. *)

Preview ==
  LET done == UNION {jobs[i].src : i \in {k \in DOMAIN jobs : jobs[k].status = "completed"}} IN
  /\ preview' = [epoch |-> policy.epoch, approved |-> {e \in GraphEvent : Exposed(e)} \ done]
  /\ preview' # preview
  /\ UNCHANGED <<policy, card, jobs, current, act, open, paid, granted, crashes>>

\* Enable, and resume after a pause: only with a preview counted in this epoch.
EnableGraph ==
  /\ preview.epoch = policy.epoch /\ policy.epoch < MaxEpoch
  /\ policy' = [enabled |-> TRUE, paused |-> FALSE, epoch |-> policy.epoch + 1,
                approved |-> preview.approved]
  /\ preview' = [epoch |-> NoEpoch, approved |-> {}]
  /\ UNCHANGED <<card, jobs, current, act, open, paid, granted, crashes>>

DisableGraph ==
  /\ policy.epoch < MaxEpoch
  /\ \E pause \in BOOLEAN :
       policy' = [policy EXCEPT !.enabled = pause /\ @, !.paused = pause, !.epoch = @ + 1]
  /\ UNCHANGED <<preview, card, jobs, current, act, open, paid, granted, crashes>>

\* Time: the lease of a running job ends unless its heartbeat comes in time (the heartbeat
\* itself leaves the lease live), and a backoff ends.
LeaseEnds(i) ==
  /\ jobs[i].status = "running" /\ jobs[i].lease = "live"
  /\ jobs' = [jobs EXCEPT ![i].lease = "expired"]
  /\ UNCHANGED <<policy, preview, card, current, act, open, paid, granted, crashes>>
BackoffEnds(i) ==
  /\ jobs[i].status = "failed" /\ jobs[i].due = "waiting"
  /\ jobs' = [jobs EXCEPT ![i].due = "ripe"]
  /\ UNCHANGED <<policy, preview, card, current, act, open, paid, granted, crashes>>

-----------------------------------------------------------------------------
GraphInit ==
  /\ policy = [enabled |-> FALSE, paused |-> FALSE, epoch |-> 0, approved |-> {}]
  /\ preview = [epoch |-> NoEpoch, approved |-> {}]
  /\ card \in [GraphEvent -> {"unused", "absent", "active"}]
  /\ jobs = <<>> \/ (jobs = <<LegacyJob>> /\ \A e \in GraphEvent : card[e] = "active")
  /\ current = [p \in GraphProc |-> FALSE] /\ open \in [GraphProc -> {"unused", "no"}]
  /\ act = [p \in GraphProc |-> [w \in GraphWorker |-> Resting]]
  /\ crashes = 0
  /\ paid = [e \in GraphEvent |-> 0] /\ granted = [e \in GraphEvent |-> 0]

Pass(p, w) == Prepare(p, w) \/ CommitPrepare(p, w) \/ ClaimGraph(p, w)
Call(p, w) == CompleteGraph(p, w) \/ FailCall(p, w)
Elapse == \E i \in DOMAIN jobs : LeaseEnds(i) \/ BackoffEnds(i)

GraphNext ==
  \/ \E p \in GraphProc, w \in GraphWorker :
       \/ Pass(p, w) \/ Call(p, w) \/ CommitAdd(p, w)
       \/ \E i \in DOMAIN jobs : RetryGraph(p, w, i)
       \/ \E e \in GraphEvent : StartAdd(p, w, e)
  \/ \E p \in GraphProc : \/ RecoverGraph(p) \/ ReloadGraph(p) \/ OpenGraph(p) \/ CrashGraph(p)
                          \/ \E e \in GraphEvent : ForgetEvent(p, e)
  \/ Preview \/ EnableGraph \/ DisableGraph \/ Elapse

GraphSpec == GraphInit /\ [][GraphNext]_graphVars

\* A due schedule, and nothing else, starts a pass, and the pass runs on; every pass begins by
\* refreshing the copy and recovers what has expired on its way (hence strong fairness: a pass
\* that is in its prepareGraphWork does neither); the host restarts; a model call ends; time
\* goes on.  Administrators owe nothing.
GraphFairness ==
  /\ \A p \in GraphProc : WF_graphVars(OpenGraph(p))
  /\ SF_graphVars(Due /\ \E p \in GraphProc : ReloadGraph(p) \/ RecoverGraph(p))
  /\ \A p \in GraphProc, w \in GraphWorker :
       WF_graphVars((Due \/ act[p][w].pc # "idle") /\ Pass(p, w)) /\ WF_graphVars(Call(p, w)) /\ WF_graphVars(CommitAdd(p, w))
  /\ WF_graphVars(Elapse)

GraphLiveSpec == GraphSpec /\ GraphFairness

-----------------------------------------------------------------------------
(* Properties *)

\* However an Event moves between jobs -- revoked with the epoch, deferred, split off a
\* batch, interrupted -- the model is asked about it at most DERIVATION_MAX_ATTEMPTS times
\* for each budget it was given (the first one, a manual retry, the schema recovery).  With
\* manual retries, or with Overlap, the code asks more often: see the README.
CallsWithinBudget == \A e \in GraphEvent : paid[e] <= GraphAttempts * (1 + granted[e])

Live(j) == j.status \in {"pending", "running"} \/ (j.status = "failed" /\ j.due # "never")

\* No Event is on its way to the graph twice: at most one job that can still call the model
\* covers it, and one more for every manual retry.
OneLiveJob == \A e \in GraphEvent :
  Cardinality({i \in DOMAIN jobs : e \in jobs[i].src /\ Live(jobs[i])}) <= 1 + granted[e]

Wanted(e) == CanProcess /\ e \in policy.approved /\ Exposed(e)
Done(e) == \E i \in DOMAIN jobs :
  e \in jobs[i].src /\ (jobs[i].status = "completed" \/ (jobs[i].status = "failed" /\ jobs[i].attempts = GraphAttempts))

\* Approved history gets into the graph or uses its budget up, unless the policy changes or
\* the Event is forgotten first: no interruption leaves it waiting for ever.
ApprovedHistorySettles == \A e \in GraphEvent : Wanted(e) ~> Done(e) \/ ~Wanted(e)
=============================================================================
