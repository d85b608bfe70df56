-------------------------------- MODULE Topics --------------------------------
(***************************************************************************)
(* The memory-topic directory: chapters the model writes about batches of  *)
(* Events, the jobs that ask for them, and the two lanes that pay for the  *)
(* calls.  New and changed Events go through the incremental lane; what    *)
(* was there when the directory was first opened, and what has to be       *)
(* rewritten because of another Event, is history and needs a slot of a    *)
(* database-wide allowance.                                                *)
(*                                                                         *)
(* Every operation is one commit on the durable directory, which is synch- *)
(* ronized with the Events at its end; a stale copy is refused and tried   *)
(* again on the durable one, so one copy is kept here.  Superseded and     *)
(* completed jobs have no effect any more and leave the set.  Section      *)
(* titles, overview text and the directory's older generations are left    *)
(* out.                                                                    *)
(*                                                                         *)
(* Sources: packages/core/src/topics.ts and store.ts; src/runtime.ts (the  *)
(* worker's pass) and src/metadata.ts (the allowance).                     *)
(***************************************************************************)
EXTENDS Naturals, Sequences, FiniteSets, FiniteSetsExt, Functions

CONSTANTS
  TopicEvent,     \* Events
  TopicWorker,    \* worker passes that may run at once, in any process
  MaxVersion,     \* bound: semantic versions of an Event
  MaxEdits,       \* bound: edits, archivings and restorations of Events
  TopicBatch,     \* TOPIC_BATCH_LIMIT
  TopicAttempts,  \* TOPIC_MAX_ATTEMPTS
  SplitLimit,     \* the depth of binary splits after max-tokens
  WindowCalls,    \* TOPIC_BOOTSTRAP_WINDOW_CALLS
  MaxTopicRetry,  \* bound: manual retries
  MaxSpread       \* bound: places an answer gives to Events beyond one for each of its batch

ASSUME TopicConstants ==
  /\ MaxVersion \in Nat \ {0} /\ MaxEdits \in Nat /\ MaxTopicRetry \in Nat /\ MaxSpread \in Nat
  /\ TopicBatch \in Nat \ {0} /\ TopicAttempts \in Nat \ {0}
  /\ SplitLimit \in Nat /\ WindowCalls \in Nat

VARIABLES
  ver,        \* ver[e]: the fingerprint of Event e, 0 while it is not visible
  topics,     \* the stored chapters
  topicJobs,  \* the jobs that still count
  projected,  \* projectedVersions
  rebuild,    \* rebuildVersions
  frozen,     \* bootstrap.sourceVersions
  opened,     \* a writer has opened the directory: bootstrap and recoveryVersion are set
  used,       \* calls of the current allowance window that are reserved
  hand,       \* hand[w]: what worker w is doing
  dream,      \* the Dreaming run (see Dreaming)
  edits,      \* edits so far
  regranted   \* history: regranted[e], retry cycles given to e after the first

topicVars == <<ver, topics, topicJobs, projected, rebuild, frozen, opened, used, hand,
               dream, edits, regranted>>

-----------------------------------------------------------------------------
(* Data *)

\* A set of Events with the version each was read at; 0 for those not in it.
Versions == [TopicEvent -> 0..MaxVersion]
Nothing == [e \in TopicEvent |-> 0]
Visible == {e \in TopicEvent : ver[e] # 0}
Now(es) == [e \in TopicEvent |-> IF e \in es THEN ver[e] ELSE 0]
Under(v, w) == [e \in TopicEvent |-> IF w[e] # 0 THEN w[e] ELSE v[e]]
In(v) == {e \in TopicEvent : v[e] # 0}

\* members are the chapter's Events; srcVer and dep what its language was derived from, as
\* stored; read, a history, what it was really derived from, through any inherited prose;
\* edit counts Dreaming's changes to it.
Topic == [id: Nat, members: SUBSET TopicEvent, srcVer: Versions, dep: Versions,
          read: Versions, invalid: BOOLEAN, edit: Nat]

TopicJob == [id: Nat, src: SUBSET TopicEvent, srcVer: Versions, dep: Versions, cand: SUBSET Topic,
             status: {"pending", "running", "failed"}, attempts: 0..TopicAttempts,
             due: {"never", "waiting", "ripe"}, leased: BOOLEAN, depth: 0..SplitLimit,
             manual: BOOLEAN]

DreamStatus == {"none", "running", "pausing", "paused", "completed", "terminated"}

TopicTypeOK ==
  /\ ver \in Versions /\ projected \in Versions /\ rebuild \in Versions /\ frozen \in Versions
  /\ topics \subseteq Topic /\ topicJobs \subseteq TopicJob
  /\ opened \in BOOLEAN /\ used \in 0..WindowCalls
  /\ hand \in [TopicWorker -> [pc: {"idle", "reserved", "calling"}, id: Nat]]
  /\ dream.status \in DreamStatus /\ dream.waiting \in BOOLEAN
  /\ Cardinality({t.id : t \in topics}) = Cardinality(topics)

-----------------------------------------------------------------------------
(* Synchronization with the Events *)

CurrentIn(v, vv) == \A e \in TopicEvent : vv[e] # 0 => vv[e] = v[e]

\* projectedVersions without the Events of chapters that have just become invalid.
Unprojected(v, ts, pr) ==
  LET lost == UNION {t.members : t \in {x \in ts : ~CurrentIn(v, x.dep)}}
  IN [e \in TopicEvent |-> IF e \in lost /\ v[e] # 0 THEN 0 ELSE pr[e]]

\* Of those, the ones that did not change themselves are history now.
Rewritten(v, ts, pr, rb) ==
  [e \in TopicEvent |->
     IF v[e] # 0 /\ \E t \in ts : /\ ~CurrentIn(v, t.dep) /\ e \in t.members
                                  /\ t.srcVer[e] = v[e] /\ pr[e] = v[e]
     THEN v[e] ELSE rb[e]]

Redacted(v, t) ==
  IF CurrentIn(v, t.dep) THEN t
  ELSE [t EXCEPT !.invalid = TRUE, !.read = Nothing,
                 !.srcVer = [e \in TopicEvent |-> IF e \in t.members THEN v[e] ELSE 0],
                 !.dep = [e \in TopicEvent |-> IF e \in t.members \cup In(@) THEN v[e] ELSE 0]]

\* The jobs that remain: inputs unchanged, and after a failure something left to do.
Remaining(v, js, pr) ==
  {j \in js : /\ CurrentIn(v, Under(j.srcVer, j.dep)) /\ \A e \in j.src : v[e] # 0
              /\ j.status = "failed" => \E e \in j.src : pr[e] # v[e]}

\* synchronize, at the end of every commit, for Events at v, chapters ts, jobs js, ...
SyncTo(v, ts, js, pr, rb) ==
  LET pr1 == Unprojected(v, ts, pr)
      rb1 == Rewritten(v, ts, pr, rb)
  IN /\ ver' = v
     /\ topics' = {Redacted(v, t) : t \in ts}
     /\ projected' = pr1
     /\ rebuild' = [e \in TopicEvent |-> IF rb1[e] = v[e] /\ pr1[e] # v[e] THEN rb1[e] ELSE 0]
     /\ topicJobs' = Remaining(v, js, pr1)

-----------------------------------------------------------------------------
(* What is to be done, and who pays *)

\* Faulty variant: a paused run gives the directory back.
ReservesAwake == dream.status \in {"running", "pausing"}

\* dreamingReservesDirectory.
DreamReserves == dream.status \in {"running", "pausing", "paused"}

Outstanding == {e \in Visible : frozen[e] = ver[e] /\ projected[e] # ver[e]}

\* isBootstrap: e belongs to the historical lane.
Historical(e) == rebuild[e] = ver[e] \/ (Outstanding # {} /\ frozen[e] = ver[e])

InLane(es, mode) == \E e \in es : Historical(e) = (mode = "bootstrap")

JobInLane(j, mode) == IF j.manual THEN mode # "bootstrap" ELSE InLane(j.src, mode)

\* pendingWork for jobs js: not projected, and no job has it.
PendingWork(js, mode) ==
  {e \in Visible : /\ projected[e] # ver[e] /\ InLane({e}, mode)
                   /\ ~\E j \in js : j.srcVer[e] = ver[e]}

Eligible(js, mode) ==
  {j \in js : /\ j.attempts < TopicAttempts /\ JobInLane(j, mode)
              /\ \/ j.status = "pending" /\ j.due # "waiting"
                 \/ j.status = "failed" /\ j.due = "ripe"}

Running == {j \in topicJobs : j.status = "running"}

HasPending(mode) ==
  /\ ~DreamReserves
  /\ IF Running # {} THEN \E j \in Running : ~j.leased
     ELSE PendingWork(topicJobs, mode) # {} \/ Eligible(topicJobs, mode) # {}

-----------------------------------------------------------------------------
(* The commits *)

FreshId == LET taken == {j.id : j \in topicJobs} \cup {hand[w].id : w \in TopicWorker}
           IN CHOOSE n \in 1..(Cardinality(taken) + 1) : n \notin taken
FreshTopic == LET taken == {t.id : t \in topics} \cup UNION {{t.id : t \in j.cand} : j \in topicJobs}
              IN CHOOSE n \in 1..(Cardinality(taken) + 1) : n \notin taken

\* Faulty variant: an attempt that was interrupted stays running.
RecoveredNever(js) == js

\* recover: an attempt whose lease has ended failed, and may be tried again at once.
Recovered(js) ==
  {IF j.status = "running" /\ ~j.leased
   THEN [j EXCEPT !.status = "failed", !.cand = {},
                  !.due = IF j.attempts < TopicAttempts THEN "ripe" ELSE "never"]
   ELSE j : j \in js}

\* Faulty variant: only what the batch itself says is a dependency.
BatchDependencies(src, cand) == Now(src)

\* Everything behind every chapter the model is shown.
Dependencies(src, cand) ==
  Now(src \cup UNION {(t.members \cup (IF t.invalid THEN {} ELSE In(t.dep))) \cap Visible : t \in cand})

NewTopicJob(src) ==
  [id |-> 0, src |-> src, srcVer |-> Now(src), dep |-> Nothing, cand |-> {}, status |-> "pending",
   attempts |-> 0, due |-> "never", leased |-> FALSE, depth |-> 0, manual |-> FALSE]

\* Job j, if it is stored already, starts its next attempt in worker w, which is shown the
\* chapters cand.
Start(w, js, j, cand) ==
  /\ SyncTo(ver, topics,
            (js \ {j}) \cup {[j EXCEPT !.id = FreshId, !.status = "running", !.attempts = @ + 1,
                                       !.due = "never", !.leased = TRUE, !.manual = FALSE,
                                       !.cand = cand, !.dep = Dependencies(j.src, cand)]},
            projected, rebuild)
  /\ hand' = [hand EXCEPT ![w] = [pc |-> "calling", id |-> FreshId]]

\* The order of eligible jobs: explicit retries, then what is not history.
Preferred(js) ==
  LET manual == {j \in js : j.manual}
      fresh == {j \in js : \E e \in j.src : ~Historical(e)}
  IN IF manual # {} THEN manual ELSE IF fresh # {} THEN fresh ELSE js

\* claim, in the lane the worker is in.  Without a job and without work only the recovery
\* is kept; with a live attempt anywhere nothing happens.
Claim(w, mode) ==
  LET js == Recovered(topicJobs)
      ready == Preferred(Eligible(js, mode))
      batches == {b \in SUBSET PendingWork(js, mode) : b # {} /\ Cardinality(b) <= TopicBatch}
  IN /\ IF DreamReserves \/ \E j \in js : j.status = "running"
        THEN /\ hand' = [hand EXCEPT ![w] = [pc |-> "idle", id |-> 0]]
             /\ UNCHANGED <<ver, topics, topicJobs, projected, rebuild>>
        ELSE IF ready = {} /\ batches = {}
        THEN /\ hand' = [hand EXCEPT ![w] = [pc |-> "idle", id |-> 0]]
             /\ SyncTo(ver, topics, js, projected, rebuild)
        ELSE \E cand \in SUBSET {t \in topics : t.members \cap Visible # {}} :
               IF ready # {} THEN \E j \in ready : Start(w, js, j, cand)
               ELSE \E b \in batches : Start(w, js, NewTopicJob(b), cand)
     /\ UNCHANGED <<frozen, opened, used, dream, edits, regranted>>

ClaimIncremental(w) ==
  opened /\ hand[w].pc = "idle" /\ HasPending("incremental") /\ Claim(w, "incremental")

\* reserveTopicBootstrapCall, when the incremental lane has nothing.
Reserve(w) ==
  /\ opened /\ hand[w].pc = "idle" /\ HasPending("bootstrap")
  /\ ~HasPending("incremental") \/ Running # {}
  /\ used < WindowCalls
  /\ used' = used + 1
  /\ hand' = [hand EXCEPT ![w].pc = "reserved"]
  /\ UNCHANGED <<ver, topics, topicJobs, projected, rebuild, frozen, opened, dream, edits, regranted>>

ClaimBootstrap(w) == hand[w].pc = "reserved" /\ Claim(w, "bootstrap")

\* complete accepts an answer of a live attempt about chapters that are still the same;
\* with Dreaming in charge only while Dreaming waits for it.
Acceptable(j) ==
  /\ j.status = "running" /\ j.leased /\ j.cand \subseteq topics
  /\ DreamReserves => dream.waiting

\* The chapter a proposal updates (or starts) with the Events es of job j.
Written(j, t, es) ==
  [t EXCEPT !.members = (@ \cap Visible) \cup es, !.srcVer = Now((t.members \cap Visible) \cup es),
            !.dep = Under(IF t.invalid THEN Nothing ELSE t.dep, j.dep),
            !.read = Under(Under(IF t.invalid THEN Nothing ELSE t.read, j.srcVer),
                           [e \in TopicEvent |-> Max({0} \cup {c.read[e] : c \in j.cand})]),
            !.invalid = FALSE]

\* complete: every Event of the batch goes to a chapter, an exposed or a new one, or to more than
\* one, and Events of the exposed chapters may go along; redacted chapters are retired once all
\* their Events are projected again.
CompleteTopic(w) ==
  \E j \in topicJobs :
    /\ hand[w].pc = "calling" /\ j.id = hand[w].id /\ Acceptable(j)
    /\ \E given \in [{t.id : t \in j.cand} \cup {FreshTopic} ->
                       SUBSET (j.src \cup UNION {t.members \cap Visible : t \in j.cand})] :
         LET to == {n \in DOMAIN given : given[n] # {}}
             chapter(n) == IF \E t \in topics : t.id = n THEN CHOOSE t \in topics : t.id = n
                           ELSE [id |-> n, members |-> {}, srcVer |-> Nothing, dep |-> Nothing,
                                 read |-> Nothing, invalid |-> FALSE, edit |-> 0]
             written == {Written(j, chapter(n), given[n]) : n \in to}
             pr == Under(projected, j.srcVer)
             all == {t \in topics : t.id \notin to} \cup written
             kept == {t \in all : ~t.invalid \/ \E e \in t.members \cap Visible : pr[e] # ver[e]}
             places == {x \in (DOMAIN given) \X TopicEvent : x[2] \in given[x[1]]}
         IN /\ j.src \subseteq UNION Range(given) /\ Cardinality(places) <= Cardinality(j.src) + MaxSpread
            /\ SyncTo(ver, kept, topicJobs \ {j}, pr,
                      [e \in TopicEvent |-> IF rebuild[e] = j.srcVer[e] THEN 0 ELSE rebuild[e]])
    /\ hand' = [hand EXCEPT ![w] = [pc |-> "idle", id |-> 0]]
    /\ UNCHANGED <<frozen, opened, used, dream, edits, regranted>>

\* max-tokens halves the batch, at most SplitLimit times.
MaySplit(j) == Cardinality(j.src) > 1 /\ j.depth < SplitLimit

Failed(j) == [j EXCEPT !.status = "failed", !.cand = {}, !.leased = FALSE,
                       !.due = IF j.attempts < TopicAttempts THEN "waiting" ELSE "never"]

Halves(j) ==
  {h \in SUBSET (SUBSET j.src) : /\ Cardinality(h) = 2 /\ UNION h = j.src
                                 /\ \A a, b \in h : a # b => a \cap b = {}
                                 /\ \A a \in h : 2 * Cardinality(a) \in {Cardinality(j.src) - 1, Cardinality(j.src), Cardinality(j.src) + 1}}

\* fail: the answer is refused, the call failed, or the output limit was reached.
FailTopic(w) ==
  /\ hand[w].pc = "calling"
  /\ \E js \in {topicJobs}
       \cup {(topicJobs \ {j}) \cup {Failed(j)} : j \in {k \in Running : k.id = hand[w].id}}
       \cup UNION {{(topicJobs \ {j}) \cup
                      {[Failed(j) EXCEPT !.src = part, !.srcVer = Now(part), !.dep = Nothing, !.status = "pending",
                                         !.attempts = 0, !.depth = @ + 1] : part \in h} : h \in Halves(j)} :
                   j \in {k \in Running : k.id = hand[w].id /\ MaySplit(k)}} :
       /\ (\E j \in Running : j.id = hand[w].id) => js # topicJobs
       /\ SyncTo(ver, topics, js, projected, rebuild)
  /\ hand' = [hand EXCEPT ![w] = [pc |-> "idle", id |-> 0]]
  /\ UNCHANGED <<frozen, opened, used, dream, edits, regranted>>

\* The process dies, or its writes conflict three times: nothing of the pass is left but
\* the running job and the slot.
Abandon(w) ==
  /\ hand[w].pc # "idle"
  /\ hand' = [hand EXCEPT ![w] = [pc |-> "idle", id |-> 0]]
  /\ UNCHANGED <<ver, topics, topicJobs, projected, rebuild, frozen, opened, used, dream, edits, regranted>>

\* requeue: a new cycle for what is left of an exhausted job.
Requeued(j, manual) ==
  LET left == {e \in j.src : projected[e] # ver[e]}
  IN [NewTopicJob(left) EXCEPT !.manual = manual]

Exhausted(j) == j.status = "failed" /\ j.attempts >= TopicAttempts

\* retry: the user grants an exhausted job another cycle.
RetryTopic ==
  /\ opened
  /\ \E j \in topicJobs :
       /\ Exhausted(j) /\ \A e \in j.src : regranted[e] < MaxTopicRetry
       /\ SyncTo(ver, topics, (topicJobs \ {j}) \cup {Requeued(j, TRUE)}, projected, rebuild)
       /\ regranted' = [e \in TopicEvent |-> IF e \in j.src THEN regranted[e] + 1 ELSE regranted[e]]
  /\ UNCHANGED <<frozen, opened, used, hand, dream, edits>>

\* initializeBootstrap, once: the visible Events are history from now on, and jobs that an
\* older version exhausted get one cycle more.
OpenTopics ==
  /\ ~opened /\ opened' = TRUE
  /\ frozen' = ver
  /\ SyncTo(ver, topics, {IF Exhausted(j) THEN Requeued(j, FALSE) ELSE j : j \in topicJobs},
            projected, rebuild)
  /\ regranted' = [e \in TopicEvent |->
       IF \E j \in topicJobs : Exhausted(j) /\ e \in j.src THEN regranted[e] + 1 ELSE regranted[e]]
  /\ UNCHANGED <<used, hand, dream, edits>>

\* An Event is added, edited, archived, restored or forgotten by a commit of its own.
EditEvent(e) ==
  /\ edits < MaxEdits /\ edits' = edits + 1
  /\ \E v \in 0..MaxVersion :
       /\ v # ver[e]
       /\ SyncTo([ver EXCEPT ![e] = v], topics, topicJobs, projected, rebuild)
  /\ UNCHANGED <<frozen, opened, used, hand, dream, regranted>>

\* Time: a lease ends (unless its heartbeat comes first), a backoff ends, a window ends.
Later(js) ==
  /\ topicJobs' = js
  /\ UNCHANGED <<ver, topics, projected, rebuild, frozen, opened, used, hand, dream, edits, regranted>>

TopicLeaseEnds ==
  \E j \in topicJobs : j.leased /\ Later((topicJobs \ {j}) \cup {[j EXCEPT !.leased = FALSE]})
TopicBackoffEnds ==
  \E j \in topicJobs : j.due = "waiting" /\ Later((topicJobs \ {j}) \cup {[j EXCEPT !.due = "ripe"]})
WindowEnds ==
  /\ used > 0 /\ used' = 0
  /\ UNCHANGED <<ver, topics, topicJobs, projected, rebuild, frozen, opened, hand, dream, edits, regranted>>

-----------------------------------------------------------------------------
\* No Dreaming run yet (the fields are Dreaming's).
NoDream == [status |-> "none", waiting |-> FALSE, run |-> 0, epoch |-> 0, owner |-> {},
            leased |-> FALSE, units |-> <<>>, cursor |-> 1, frozen |-> Nothing,
            evid |-> Nothing, held |-> {}, writes |-> 0, replan |-> FALSE]

LegacyFailure == [NewTopicJob(TopicEvent) EXCEPT !.status = "failed", !.attempts = TopicAttempts]

\* An empty directory, with Events already there or not, or the exhausted job of an older
\* version.
TopicInit ==
  /\ ver \in [TopicEvent -> {0, 1}]
  /\ topics = {}
  /\ topicJobs = {} \/ (topicJobs = {LegacyFailure} /\ Visible = TopicEvent)
  /\ projected = Nothing /\ rebuild = Nothing /\ frozen = Nothing
  /\ opened = FALSE /\ used = 0 /\ edits = 0
  /\ hand = [w \in TopicWorker |-> [pc |-> "idle", id |-> 0]]
  /\ regranted = Nothing
  /\ dream = NoDream

TopicPass(w) == ClaimIncremental(w) \/ Reserve(w) \/ ClaimBootstrap(w)
TopicAnswer(w) == CompleteTopic(w) \/ FailTopic(w)

TopicNext ==
  \/ \E w \in TopicWorker : TopicPass(w) \/ TopicAnswer(w) \/ Abandon(w)
  \/ \E e \in TopicEvent : EditEvent(e)
  \/ OpenTopics \/ RetryTopic \/ TopicLeaseEnds \/ TopicBackoffEnds \/ WindowEnds

TopicSpec == TopicInit /\ [][TopicNext]_topicVars

\* The schedule starts a pass while there is work, a call ends, time goes on; a process may
\* die with its slot, but not every one of them.
TopicFairness ==
  /\ WF_topicVars(OpenTopics) /\ WF_topicVars(TopicLeaseEnds)
  /\ WF_topicVars(TopicBackoffEnds) /\ WF_topicVars(WindowEnds)
  /\ \A w \in TopicWorker :
       /\ WF_topicVars(ClaimIncremental(w)) /\ WF_topicVars(Reserve(w))
       /\ SF_topicVars(ClaimBootstrap(w)) /\ WF_topicVars(TopicAnswer(w))

-----------------------------------------------------------------------------
(* Properties *)

\* As long as only the projection writes, nothing a chapter says rests on an Event that has
\* changed or gone: not even through prose inherited from another chapter the model was shown,
\* which the chapter's own sources do not name.  (An Agent of Dreaming is shown more than its
\* edits depend on, see Dreaming.)
ProseIsCurrent == \A t \in topics : ~t.invalid => CurrentIn(ver, t.read)

\* Every visible Event gets into the directory, or uses its attempts up, unless Dreaming
\* keeps the directory.
TopicsSettle ==
  \A e \in TopicEvent :
    (ver[e] # 0) ~> (ver[e] = 0 \/ projected[e] = ver[e] \/ DreamReserves
                     \/ \E j \in topicJobs : Exhausted(j) /\ e \in j.src)
=============================================================================
