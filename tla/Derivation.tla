------------------------------ MODULE Derivation ------------------------------
(***************************************************************************)
(* Block derivation: a sealed Block gets its L0-L2 layers from a model     *)
(* call (summary) and its Event cards from another one (extraction), after *)
(* which it is ready and may replace native history.  Every process keeps  *)
(* a StrataGate instance -- an in-memory copy of one namespace -- and all  *)
(* of them share one SQLite database.  Writes are optimistic: a commit is  *)
(* accepted only from the current revision, and a rejected one puts the    *)
(* instance back to CLONES of the objects it held before.  Model calls run *)
(* outside every transaction, under a lease that a heartbeat renews.       *)
(*                                                                         *)
(* Sources: packages/core/src/store.ts (the instance), sqlite.ts (the      *)
(* durable side) and src/runtime.ts (who calls what, and when it reloads). *)
(***************************************************************************)
EXTENDS Naturals

CONSTANTS
  Proc,               \* processes; each holds one StrataGate instance
  Worker,             \* concurrent processBlock activations of one instance
  Block,              \* Blocks of the namespace
  MaxAttempts,        \* DERIVATION_MAX_ATTEMPTS
  Lease,              \* DERIVATION_LEASE_MS, in ticks
  Backoff,            \* delay before the next try, after that many attempts
  None,               \* JavaScript's null
  MaxClock,           \* bound: ticks that pass
  MaxRound,           \* bound: manual retries of one job
  MaxCrash,           \* bound: process crashes
  Punctual,           \* TRUE: every heartbeat fires before its lease expires
  RejectedMutations   \* TRUE: callers also submit mutations that throw

ASSUME ConstantsAssumption ==
  /\ MaxAttempts \in Nat \ {0}
  /\ Lease \in Nat \ {0}
  /\ Backoff \in [0..MaxAttempts -> Nat]
  /\ None \notin Nat
  /\ MaxClock \in Nat /\ MaxRound \in Nat /\ MaxCrash \in Nat
  /\ Punctual \in BOOLEAN /\ RejectedMutations \in BOOLEAN

VARIABLES
  db,       \* the durable namespace
  mem,      \* mem[p]: the copy held by p's instance
  fresh,    \* fresh[p]: p's revision equals the durable revision
  up,       \* up[p]: p is running
  work,     \* work[p][w]: what activation w of p is doing
  clock,    \* wall clock, shared by all processes
  crashes,  \* crashes so far
  calls     \* history: model calls started in the current retry budget

vars == <<db, mem, fresh, up, work, clock, crashes, calls>>

-----------------------------------------------------------------------------
(* Data *)

Kind == {"summary", "extraction"}
Layers == {"none", "extract", "skip"}      \* L0-L2 absent, or present with shouldExtract
JobStatus == {"none", "pending", "running", "failed", "succeeded", "skipped"}

\* A durable job.  attempts and round together stand for the claim's updatedAt:
\* a claim raises attempts, and a manual retry, which resets them, raises round.
JobRecord == [status: JobStatus, attempts: 0..MaxAttempts, due: Nat \cup {None},
              lease: Nat, round: Nat]
Job == {j \in JobRecord : j.status = "none" => j.attempts = 0}

Store == [status: [Block -> {"absent", "pending", "ready"}],
          layers: [Block -> Layers],
          events: [Block -> Nat],           \* extraction results committed
          job: [Kind -> [Block -> Job]]]

\* An activation holds the Block object it was started with.  While attached,
\* that object is the one in the instance; once the instance has replaced its
\* objects the activation goes on with a detached copy, whose layers it keeps.
Activation == [pc: {"idle", "summary", "failing", "routed", "extraction"},
               block: Block \cup {None}, attached: BOOLEAN, layers: Layers,
               attempts: 0..MaxAttempts, round: Nat, lost: BOOLEAN]

PutJob(s, k, b, j) == [s EXCEPT !.job[k][b] = j]
PutStatus(s, b, st) == [s EXCEPT !.status[b] = st]
PutLayers(s, b, v) == [s EXCEPT !.layers[b] = v]
PutEvents(s, b, n) == [s EXCEPT !.events[b] = n]

NoJob == [status |-> "none", attempts |-> 0, due |-> None, lease |-> 0, round |-> 0]

EmptyStore == [status |-> [b \in Block |-> "absent"],
               layers |-> [b \in Block |-> "none"],
               events |-> [b \in Block |-> 0],
               job |-> [k \in Kind |-> [b \in Block |-> NoJob]]]

Idle == [pc |-> "idle", block |-> None, attached |-> FALSE, layers |-> "none",
         attempts |-> 0, round |-> 0, lost |-> FALSE]

\* An activation that holds the claim j, and one that is between its two jobs.
Holding(pc, b, j) ==
  [pc |-> pc, block |-> b, attached |-> TRUE, layers |-> "none",
   attempts |-> j.attempts, round |-> j.round, lost |-> FALSE]
Routed(b, attached, layers) ==
  [pc |-> "routed", block |-> b, attached |-> attached, layers |-> layers,
   attempts |-> 0, round |-> 0, lost |-> FALSE]

TypeOK ==
  /\ db \in Store
  /\ mem \in [Proc -> Store]
  /\ fresh \in [Proc -> BOOLEAN]
  /\ up \in [Proc -> BOOLEAN]
  /\ work \in [Proc -> [Worker -> Activation]]
  /\ clock \in Nat
  /\ crashes \in Nat
  /\ calls \in [Kind -> [Block -> Nat]]

-----------------------------------------------------------------------------
(* Jobs *)

Expired(j) == j.status = "running" /\ j.lease <= clock

JobCanRun(j) ==
  /\ j.status \notin {"none", "running", "succeeded"}
  /\ j.attempts < MaxAttempts
  /\ j.due # None => j.due <= clock

RetryAt(attempts) ==
  IF attempts >= MaxAttempts THEN None ELSE clock + Backoff[attempts]

Claimed(j) ==
  [j EXCEPT !.status = "running", !.attempts = j.attempts + 1, !.due = None,
            !.lease = clock + Lease]
Failed(j) == [j EXCEPT !.status = "failed", !.due = RetryAt(j.attempts)]
Interrupted(j) == [j EXCEPT !.status = "failed", !.due = clock]
Closed(j, status) == [j EXCEPT !.status = status, !.due = None]
Unleased(j) == [j EXCEPT !.lease = 0]
Retried(k, j) ==
  [j EXCEPT !.status = IF k = "summary" THEN "pending" ELSE "failed",
            !.attempts = 0, !.due = None, !.round = j.round + 1]

-----------------------------------------------------------------------------
(* The optimistic commit *)

\* Faulty variant: the attempt is compared, the lease the writer started from is not.
LeaseConflictByAttempt(j, g, d) ==
  /\ d.status = "running"
  /\ \/ j.attempts # d.attempts
     \/ j.status = "running" /\ j.round # d.round

\* The durable row of a running job rejects a write that does not come from the
\* claim it holds: j is the incoming job, g the writer's copy before its mutation.
LeaseConflict(j, g, d) ==
  /\ d.status = "running"
  /\ \/ j.attempts # d.attempts
     \/ j.status = "running" /\ j.round # d.round
     \/ /\ j.status # "running"
        /\ IF g.status = "running" THEN g.attempts # d.attempts \/ g.lease # d.lease
                                   ELSE j.lease # d.lease

\* A writer that leaves a claim running adopts its latest heartbeat.
MergeLease(j, d) ==
  IF j.status = "running" /\ d.status = "running" /\ d.lease > j.lease
  THEN [j EXCEPT !.lease = d.lease] ELSE j

Merged(s) ==
  [s EXCEPT !.job = [k \in Kind |-> [b \in Block |-> MergeLease(s.job[k][b], db.job[k][b])]]]

\* Faulty variant: the revision is not checked, only the leases are.
CanCommitFromAnyRevision(p, s) ==
  \A k \in Kind, b \in Block :
    ~LeaseConflict(s.job[k][b], mem[p].job[k][b], db.job[k][b])

CanCommit(p, s) ==
  /\ fresh[p]
  /\ \A k \in Kind, b \in Block :
       ~LeaseConflict(s.job[k][b], mem[p].job[k][b], db.job[k][b])

\* Faulty variant: the commit does not advance the revision.
SavedAtSameRevision(p, s) ==
  /\ db' = Merged(s)
  /\ mem' = [mem EXCEPT ![p] = Merged(s)]
  /\ UNCHANGED fresh

Saved(p, s) ==
  /\ db' = Merged(s)
  /\ mem' = [mem EXCEPT ![p] = Merged(s)]
  /\ fresh' = [q \in Proc |-> q = p]

Rejected == UNCHANGED <<db, mem, fresh>>

\* Replacing the instance's objects leaves every captured Block behind.
Detached(p, a) ==
  IF a.attached THEN [a EXCEPT !.attached = FALSE, !.layers = mem[p].layers[a.block]] ELSE a

\* w goes on as "next"; the other activations of p lose their objects.
Abandon(p, w, next) ==
  work' = [work EXCEPT ![p] = [x \in Worker |-> IF x = w THEN next ELSE Detached(p, work[p][x])]]

DetachAll(p) == work' = [work EXCEPT ![p] = [x \in Worker |-> Detached(p, work[p][x])]]

-----------------------------------------------------------------------------
(* processBlock and extractEligibleBlock *)

\* L0-L2 of the Block object the activation holds.
View(p, w) ==
  IF work[p][w].attached THEN mem[p].layers[work[p][w].block] ELSE work[p][w].layers

\* processBlock up to the model call.  The lookup and the enqueued claim are one step.
ClaimSummary(p, w, b) ==
  /\ up[p] /\ work[p][w].pc = "idle"
  /\ mem[p].status[b] = "pending"
  /\ JobCanRun(mem[p].job["summary"][b])
  /\ LET j == Claimed(mem[p].job["summary"][b])
         s == PutJob(mem[p], "summary", b, j)
     IN \/ /\ CanCommit(p, s) /\ Saved(p, s)
           /\ work' = [work EXCEPT ![p][w] = Holding("summary", b, j)]
           /\ calls' = [calls EXCEPT !["summary"][b] = @ + 1]
        \/ /\ ~CanCommit(p, s) /\ Rejected
           /\ Abandon(p, w, Idle)
           /\ UNCHANGED calls
  /\ UNCHANGED <<up, clock, crashes>>

\* A result of the summarizer is written to the held object: into the instance
\* when it is still attached, into a copy nobody saves when it is not.
FinishSummary(p, w) ==
  /\ work[p][w].pc = "summary" /\ ~work[p][w].lost
  /\ \E v \in {"extract", "skip"} :
       LET a == work[p][w]
           b == a.block
           m == IF a.attached THEN PutLayers(mem[p], b, v) ELSE mem[p]
           s == PutJob(m, "summary", b, Closed(mem[p].job["summary"][b], "succeeded"))
       IN \/ /\ CanCommit(p, s) /\ Saved(p, s)
             /\ work' = [work EXCEPT ![p][w] =
                  Routed(b, a.attached, IF a.attached THEN "none" ELSE v)]
          \/ /\ ~CanCommit(p, s) /\ Rejected
             /\ Abandon(p, w, [Detached(p, a) EXCEPT !.pc = "failing"])
  /\ UNCHANGED <<up, clock, crashes, calls>>

\* failSummary: the model failed, its output was invalid, the heartbeat lost the
\* claim, or the completing commit was rejected.  The job is whatever is there now.
FailSummary(p, w) ==
  /\ work[p][w].pc \in {"summary", "failing"}
  /\ LET b == work[p][w].block
         s == PutJob(mem[p], "summary", b, Failed(mem[p].job["summary"][b]))
     IN \/ /\ CanCommit(p, s) /\ Saved(p, s)
           /\ work' = [work EXCEPT ![p][w] = Idle]
        \/ /\ ~CanCommit(p, s) /\ Rejected
           /\ Abandon(p, w, Idle)
  /\ UNCHANGED <<up, clock, crashes, calls>>

\* processBlock on a Block whose summary job has already succeeded.
PickSummarized(p, w, b) ==
  /\ up[p] /\ work[p][w].pc = "idle"
  /\ mem[p].status[b] = "pending"
  /\ mem[p].job["summary"][b].status = "succeeded"
  /\ work' = [work EXCEPT ![p][w] = Routed(b, TRUE, "none")]
  /\ UNCHANGED <<db, mem, fresh, up, clock, crashes, calls>>

SkipExtraction(p, w) ==
  /\ work[p][w].pc = "routed" /\ View(p, w) = "skip"
  /\ LET a == work[p][w]
         b == a.block
         m == IF a.attached THEN PutStatus(mem[p], b, "ready") ELSE mem[p]
         s == PutJob(m, "extraction", b, Unleased(Closed(mem[p].job["extraction"][b], "skipped")))
     IN \/ /\ CanCommit(p, s) /\ Saved(p, s)
           /\ work' = [work EXCEPT ![p][w] = Idle]
        \/ /\ ~CanCommit(p, s) /\ Rejected
           /\ Abandon(p, w, Idle)
  /\ UNCHANGED <<up, clock, crashes, calls>>

\* The target is looked up again in the instance, so the claim holds an attached object.
ExtractionTarget(p, b) ==
  /\ mem[p].status[b] = "pending"
  /\ mem[p].layers[b] = "extract"
  /\ mem[p].job["extraction"][b].status = "none" \/ JobCanRun(mem[p].job["extraction"][b])

ClaimExtraction(p, w) ==
  /\ work[p][w].pc = "routed" /\ View(p, w) # "skip"
  /\ LET b == work[p][w].block
         j == Claimed(mem[p].job["extraction"][b])
         s == PutJob(mem[p], "extraction", b, j)
         ok == mem[p].job["extraction"][b].status \in {"none", "failed"} /\ CanCommit(p, s)
     IN \/ /\ ExtractionTarget(p, b) /\ ok /\ Saved(p, s)
           /\ work' = [work EXCEPT ![p][w] = Holding("extraction", b, j)]
           /\ calls' = [calls EXCEPT !["extraction"][b] = @ + 1]
        \/ /\ ExtractionTarget(p, b) /\ ~ok /\ Rejected
           /\ Abandon(p, w, Idle)
           /\ UNCHANGED calls
        \/ /\ ~ExtractionTarget(p, b) /\ Rejected
           /\ work' = [work EXCEPT ![p][w] = Idle]
           /\ UNCHANGED calls
  /\ UNCHANGED <<up, clock, crashes>>

\* The Events, the job and the Block's readiness are one commit.  The final commit
\* has no error handler of its own: rejected, it leaves the job running.
FinishExtraction(p, w) ==
  /\ work[p][w].pc = "extraction" /\ ~work[p][w].lost
  /\ \E found \in BOOLEAN :
       LET a == work[p][w]
           b == a.block
           n == IF found THEN PutEvents(mem[p], b, mem[p].events[b] + 1) ELSE mem[p]
           m == IF a.attached THEN PutStatus(n, b, "ready") ELSE n
           s == PutJob(m, "extraction", b, Closed(mem[p].job["extraction"][b],
                                                 IF found THEN "succeeded" ELSE "skipped"))
           ok == View(p, w) # "none" /\ CanCommit(p, s)      \* markBlockReady's check
       IN \/ /\ ok /\ Saved(p, s)
             /\ work' = [work EXCEPT ![p][w] = Idle]
          \/ /\ ~ok /\ Rejected
             /\ Abandon(p, w, Idle)
  /\ UNCHANGED <<up, clock, crashes, calls>>

FailExtraction(p, w) ==
  /\ work[p][w].pc = "extraction"
  /\ LET b == work[p][w].block
         s == PutJob(mem[p], "extraction", b, Failed(mem[p].job["extraction"][b]))
     IN \/ /\ CanCommit(p, s) /\ Saved(p, s)
           /\ work' = [work EXCEPT ![p][w] = Idle]
        \/ /\ ~CanCommit(p, s) /\ Rejected
           /\ Abandon(p, w, Idle)
  /\ UNCHANGED <<up, clock, crashes, calls>>

-----------------------------------------------------------------------------
(* Heartbeat, recovery and reload *)

RunningAs(j, a) == j.status = "running" /\ j.attempts = a.attempts /\ j.round = a.round

KindOf(a) == IF a.pc = "extraction" THEN "extraction" ELSE "summary"

InFlight(p, w) == work[p][w].pc \in {"summary", "extraction"}

\* One tick of withDerivationLease's timer.  The durable lease moves without a new
\* revision; the activation learns here, and only here, that its claim is gone.
Renew(p, w) ==
  /\ InFlight(p, w)
  /\ LET a == work[p][w]
         k == KindOf(a)
         b == a.block
         owned == RunningAs(db.job[k][b], a) /\ db.job[k][b].lease > clock
         known == RunningAs(mem[p].job[k][b], a)
     IN /\ db' = IF owned THEN [db EXCEPT !.job[k][b].lease = clock + Lease] ELSE db
        /\ mem' = IF owned /\ known
                  THEN [mem EXCEPT ![p].job[k][b].lease = clock + Lease] ELSE mem
        /\ work' = [work EXCEPT ![p][w].lost = ~(owned /\ known)]
  /\ UNCHANGED <<fresh, up, clock, crashes, calls>>

\* recoverExpiredDerivations, one commit per kind: every claim whose lease has run
\* out by the instance's copy is failed and may be retried at once.
Recover(p, k) ==
  /\ up[p]
  /\ \E b \in Block : Expired(mem[p].job[k][b])
  /\ LET Swept(j) == IF Expired(j) THEN Interrupted(j) ELSE j
         s == [mem[p] EXCEPT !.job[k] = [b \in Block |-> Swept(mem[p].job[k][b])]]
     IN \/ CanCommit(p, s) /\ Saved(p, s) /\ UNCHANGED work
        \/ ~CanCommit(p, s) /\ Rejected /\ DetachAll(p)
  /\ UNCHANGED <<up, clock, crashes, calls>>

\* Faulty variant: the objects are replaced at the same revision, too.
ReloadAlwaysReplaces(p) ==
  /\ up[p]
  /\ mem' = [mem EXCEPT ![p] = db]
  /\ fresh' = [fresh EXCEPT ![p] = TRUE]
  /\ DetachAll(p)
  /\ UNCHANGED <<db, up, clock, crashes, calls>>

\* reloadFromStorage: at the same revision only leases are refreshed; otherwise the
\* whole copy is replaced.
Reload(p) ==
  /\ up[p]
  /\ \/ /\ fresh[p]
        /\ mem' = [mem EXCEPT ![p] = Merged(mem[p])]
        /\ UNCHANGED <<fresh, work>>
     \/ /\ ~fresh[p]
        /\ mem' = [mem EXCEPT ![p] = db]
        /\ fresh' = [fresh EXCEPT ![p] = TRUE]
        /\ DetachAll(p)
  /\ UNCHANGED <<db, up, clock, crashes, calls>>

-----------------------------------------------------------------------------
(* Other users of the instance *)

\* sealOpenTail: the Block and its pending summary job are one commit.
Seal(p, b) ==
  /\ up[p] /\ mem[p].status[b] = "absent"
  /\ LET s == PutJob(PutStatus(mem[p], b, "pending"), "summary", b,
                     [NoJob EXCEPT !.status = "pending"])
     IN \/ CanCommit(p, s) /\ Saved(p, s) /\ UNCHANGED work
        \/ ~CanCommit(p, s) /\ Rejected /\ DetachAll(p)
  /\ UNCHANGED <<up, clock, crashes, calls>>

\* retryBlockSummary and retryEventExtraction, up to the claim they lead to.  The
\* status is checked inside the mutation, so a refusal is a rejected mutation.
ManualRetry(p, k, b) ==
  /\ up[p] /\ mem[p].status[b] = "pending"
  /\ k = "extraction" => mem[p].layers[b] = "extract"
  /\ LET j == mem[p].job[k][b]
         s == PutJob(mem[p], k, b, Retried(k, j))
     IN \/ /\ j.status = "failed" /\ j.round < MaxRound
           /\ CanCommit(p, s) /\ Saved(p, s)
           /\ calls' = [calls EXCEPT ![k][b] = 0]
           /\ UNCHANGED work
        \/ /\ j.status # "failed" \/ ~CanCommit(p, s)
           /\ RejectedMutations
           /\ Rejected /\ DetachAll(p) /\ UNCHANGED calls
  /\ UNCHANGED <<up, clock, crashes>>

\* Any other commit of the instance: turns, pins, lifts, usage, topics, graph.
OtherMutation(p) ==
  /\ up[p]
  /\ \/ CanCommit(p, mem[p]) /\ Saved(p, mem[p]) /\ UNCHANGED work
     \/ ~CanCommit(p, mem[p]) /\ Rejected /\ DetachAll(p)
  /\ UNCHANGED <<up, clock, crashes, calls>>

\* A mutation that throws: a reservation with other content, an unknown id, ...
RejectedMutation(p) ==
  /\ up[p] /\ RejectedMutations
  /\ Rejected /\ DetachAll(p)
  /\ UNCHANGED <<up, clock, crashes, calls>>

Crash(p) ==
  /\ up[p] /\ crashes < MaxCrash
  /\ up' = [up EXCEPT ![p] = FALSE]
  /\ mem' = [mem EXCEPT ![p] = EmptyStore]
  /\ fresh' = [fresh EXCEPT ![p] = FALSE]
  /\ work' = [work EXCEPT ![p] = [w \in Worker |-> Idle]]
  /\ crashes' = crashes + 1
  /\ UNCHANGED <<db, clock, calls>>

\* openWithStorage up to its first commit; the recovery it runs next is Recover.
Open(p) ==
  /\ ~up[p]
  /\ up' = [up EXCEPT ![p] = TRUE]
  /\ mem' = [mem EXCEPT ![p] = db]
  /\ fresh' = [fresh EXCEPT ![p] = TRUE]
  /\ UNCHANGED <<db, work, clock, crashes, calls>>

\* With punctual heartbeats no lease runs out under an activation that still uses it.
Beating(p, w) ==
  LET a == work[p][w]
      d == db.job[KindOf(a)][a.block]
  IN a.pc \in {"summary", "failing", "extraction"} /\ RunningAs(d, a) => d.lease > clock + 1

Tick ==
  /\ clock < MaxClock
  /\ Punctual => \A p \in Proc, w \in Worker : Beating(p, w)
  /\ clock' = clock + 1
  /\ UNCHANGED <<db, mem, fresh, up, work, crashes, calls>>

-----------------------------------------------------------------------------
(* The scheduling index: when the background worker next has to look at a Block *)

\* Faulty variant: a claim nobody holds any more is not looked at again.
JobWakeSkipsRunning(j) ==
  CASE j.status = "pending" /\ j.attempts < MaxAttempts -> 0
    [] j.status = "failed" /\ j.attempts < MaxAttempts -> j.due
    [] OTHER -> None

\* The time a job has to be looked at, None for never.
JobWake(j) ==
  CASE j.status = "running" -> j.lease
    [] j.status = "pending" /\ j.attempts < MaxAttempts -> 0
    [] j.status = "failed" /\ j.attempts < MaxAttempts -> j.due
    [] OTHER -> None

CoreWake(b) ==
  CASE db.status[b] # "pending" -> None
    [] db.job["summary"][b].status # "succeeded" -> JobWake(db.job["summary"][b])
    [] db.layers[b] = "skip" \/ db.job["extraction"][b].status = "none" -> 0
    [] OTHER -> JobWake(db.job["extraction"][b])

\* The index has one time per namespace: the earliest of its Blocks.
CoreDue == \E b \in Block : CoreWake(b) # None /\ CoreWake(b) <= clock

-----------------------------------------------------------------------------
Init ==
  /\ db = EmptyStore
  /\ mem = [p \in Proc |-> EmptyStore]
  /\ fresh = [p \in Proc |-> TRUE]
  /\ up = [p \in Proc |-> TRUE]
  /\ work = [p \in Proc |-> [w \in Worker |-> Idle]]
  /\ clock = 0
  /\ crashes = 0
  /\ calls = [k \in Kind |-> [b \in Block |-> 0]]

Activity(p, w) ==
  \/ \E b \in Block : ClaimSummary(p, w, b) \/ PickSummarized(p, w, b)
  \/ FinishSummary(p, w) \/ FailSummary(p, w)
  \/ SkipExtraction(p, w) \/ ClaimExtraction(p, w)
  \/ FinishExtraction(p, w) \/ FailExtraction(p, w)
  \/ Renew(p, w)

Maintenance(p) ==
  \/ \E k \in Kind : Recover(p, k)
  \/ Reload(p)
  \/ \E b \in Block : Seal(p, b)
  \/ \E k \in Kind, b \in Block : ManualRetry(p, k, b)
  \/ OtherMutation(p) \/ RejectedMutation(p)
  \/ Crash(p) \/ Open(p)

Next ==
  \/ \E p \in Proc, w \in Worker : Activity(p, w)
  \/ \E p \in Proc : Maintenance(p)
  \/ Tick

Spec == Init /\ [][Next]_vars

-----------------------------------------------------------------------------
(* Properties *)

\* Two copies that agree up to the lease of a running claim.
SameClaim(i, j) ==
  i.status = j.status /\ i.attempts = j.attempts /\ i.due = j.due /\ i.round = j.round

SameUpToLease(s, t) ==
  /\ s.status = t.status /\ s.layers = t.layers /\ s.events = t.events
  /\ \A k \in Kind, b \in Block : SameClaim(s.job[k][b], t.job[k][b])

\* One revision, one content: an instance whose revision is the durable one holds
\* the durable state, except that it may not know the latest heartbeats.  This is
\* what makes a revision check at commit sufficient, and it has to survive
\* heartbeats, which write without a revision, rollbacks and partial reloads.
RevisionDeterminesContent ==
  \A p \in Proc : fresh[p] => up[p] /\ SameUpToLease(mem[p], db)

\* Every model call is paid for by one durable attempt, whichever process starts it
\* and however many died, so a retry budget is never exceeded.
CallsArePaid ==
  \A k \in Kind, b \in Block :
    calls[k][b] = db.job[k][b].attempts /\ calls[k][b] <= MaxAttempts

\* A ready Block can replace native history: it has layers and never leaves that state.
ReadyIsFinal ==
  [][\A b \in Block : db.status[b] = "ready" =>
       db'.status[b] = "ready" /\ db'.layers[b] # "none"]_vars

\* An unexpired claim ends only by a step of the activation that holds it.
OnlyTheHolderEndsAClaim ==
  [][\A p \in Proc, w \in Worker :
       LET a == work[p][w]
           k == KindOf(a)
       IN /\ InFlight(p, w) /\ up'[p]
          /\ RunningAs(db.job[k][a.block], a) /\ db.job[k][a.block].lease > clock
          => RunningAs(db'.job[k][a.block], a) \/ work'[p][w].pc # a.pc]_vars

\* The Block's retry budget is spent: only a user can restart it.
Exhausted(b) ==
  \E k \in Kind : /\ db.job[k][b].status = "failed"
                   /\ db.job[k][b].attempts = MaxAttempts

\* retryEventExtraction resets a failed job in one commit and claims it in the next;
\* cut off in between, the job still reads failed and has no time of its own.
InterruptedRetry(b) ==
  LET j == db.job["extraction"][b] IN j.status = "failed" /\ j.due = None

\* Work left behind by a crash, a rejected commit or a failed call is never forgotten:
\* a pending Block has a time in the index as long as it has attempts left, unless
\* a manual retry of its extraction was cut off (the user still sees it failed).
NoForgottenWork ==
  \A b \in Block :
    db.status[b] = "pending" /\ ~Exhausted(b) /\ ~InterruptedRetry(b) => CoreWake(b) # None

-----------------------------------------------------------------------------
(* Progress *)

\* Steps of an activation that the runtime is bound to take: a namespace that is due
\* gets a worker run over its Blocks, a model call ends (it has a timeout), and a
\* commit that waits in the mutation queue gets its turn.
Progress(p, w) ==
  \/ CoreDue /\ \E b \in Block : ClaimSummary(p, w, b) \/ PickSummarized(p, w, b)
  \/ FinishSummary(p, w) \/ FailSummary(p, w)
  \/ SkipExtraction(p, w) \/ ClaimExtraction(p, w)
  \/ FinishExtraction(p, w) \/ FailExtraction(p, w)

\* Time is worth a step only while a backoff, or the lease of a claim whose holder
\* is gone, has to run out.
Waiting ==
  \E k \in Kind, b \in Block :
    LET j == db.job[k][b]
    IN \/ j.status = "failed" /\ j.due # None /\ j.due > clock
       \/ /\ j.status = "running" /\ j.lease > clock
          /\ \A p \in Proc, w \in Worker :
               ~(InFlight(p, w) /\ work[p][w].block = b /\ RunningAs(j, work[p][w]))

LiveNext == Next /\ (clock' # clock => Waiting)

LiveSpec ==
  /\ Init /\ [][LiveNext]_vars
  /\ \A p \in Proc, w \in Worker : WF_vars(Progress(p, w))
  /\ \A p \in Proc : WF_vars(CoreDue /\ \E k \in Kind : Recover(p, k)) /\ WF_vars(Open(p))
  /\ WF_vars(Tick /\ Waiting)

\* Every sealed Block becomes ready, or its retry budget is spent, or a crash cuts off a manual
\* retry of its extraction: no other crash, expiry or lost commit leaves it waiting for ever.
SealedBlocksSettle ==
  \A b \in Block :
    db.status[b] = "pending" ~> db.status[b] = "ready" \/ Exhausted(b) \/ InterruptedRetry(b)

-----------------------------------------------------------------------------
(* Refinement: what one Block goes through, without instances, leases or jobs *)

Stage(b) ==
  IF db.status[b] = "pending"
  THEN IF db.layers[b] = "none" THEN "sealed" ELSE "summarized"
  ELSE db.status[b]

Pipeline == INSTANCE BlockPipeline
  WITH stage <- [b \in Block |-> Stage(b)], plan <- db.layers, cards <- db.events

PipelineSpec == Pipeline!Spec
=============================================================================
