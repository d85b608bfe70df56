--------------------------- MODULE DerivationProofs ---------------------------
(***************************************************************************)
(* Proofs about Derivation, for any number of processes, activations and   *)
(* Blocks, any retry budget, lease and backoff, and with or without late   *)
(* heartbeats.                                                             *)
(***************************************************************************)
EXTENDS Derivation, TLAPS

-----------------------------------------------------------------------------
(* The inductive invariant *)

\* What a ready Block replaces history with is there.
ReadyHasLayers == \A b \in Block : db.status[b] = "ready" => db.layers[b] # "none"

\* No attempt is spent on a Block that does not exist.
AbsentHasNoAttempts ==
  \A k \in Kind, b \in Block : db.status[b] = "absent" => db.job[k][b].attempts = 0

\* A busy activation belongs to a running process and works on some Block.
ActiveWork ==
  \A p \in Proc, w \in Worker :
    /\ work[p][w].pc # "idle" => up[p] /\ work[p][w].block \in Block
    /\ work[p][w].attached => work[p][w].block \in Block

IInv ==
  /\ TypeOK
  /\ RevisionDeterminesContent
  /\ CallsArePaid
  /\ ReadyHasLayers
  /\ AbsentHasNoAttempts
  /\ ActiveWork

-----------------------------------------------------------------------------
(* Jobs and copies stay in their types *)

\* What each change of a job yields.
LEMMA JobTypes ==
  ASSUME NEW j \in Job, clock \in Nat
  PROVE  /\ j.attempts < MaxAttempts => Claimed(j) \in Job
         /\ Failed(j) \in Job
         /\ Interrupted(j) \in Job
         /\ \A st \in JobStatus \ {"none"} : Closed(j, st) \in Job
         /\ \A k \in Kind : Retried(k, j) \in Job
         /\ Unleased(j) \in Job
<1>1. /\ MaxAttempts \in Nat \ {0} /\ Lease \in Nat
      /\ \A n \in 0..MaxAttempts : Backoff[n] \in Nat
  BY ConstantsAssumption
<1>2. /\ j \in JobRecord /\ j.attempts \in 0..MaxAttempts /\ j.round \in Nat
      /\ {"running", "failed", "pending"} \subseteq JobStatus
      /\ None \in Nat \cup {None} /\ clock \in Nat \cup {None} /\ 0 \in 0..MaxAttempts
  BY <1>1 DEF Job, JobRecord, JobStatus
<1>3. ASSUME j.attempts < MaxAttempts PROVE Claimed(j) \in Job
  <2>1. j.attempts + 1 \in 0..MaxAttempts /\ clock + Lease \in Nat
    BY <1>1, <1>2, <1>3
  <2>2. Claimed(j) \in JobRecord
    BY <2>1, <1>2, Zenon DEF Claimed, JobRecord
  <2>3. Claimed(j).status = "running"
    BY <1>2 DEF Claimed, JobRecord
  <2> QED BY <2>2, <2>3 DEF Job
<1>4. Failed(j) \in Job
  <2>1. RetryAt(j.attempts) \in Nat \cup {None}
    BY <1>1, <1>2 DEF RetryAt
  <2>2. Failed(j) \in JobRecord
    BY <2>1, <1>2, Zenon DEF Failed, JobRecord
  <2>3. Failed(j).status = "failed"
    BY <1>2 DEF Failed, JobRecord
  <2> QED BY <2>2, <2>3 DEF Job
<1>5. Interrupted(j) \in Job
  <2>1. Interrupted(j) \in JobRecord
    BY <1>2, Zenon DEF Interrupted, JobRecord
  <2>2. Interrupted(j).status = "failed"
    BY <1>2 DEF Interrupted, JobRecord
  <2> QED BY <2>1, <2>2 DEF Job
<1>6. ASSUME NEW st \in JobStatus \ {"none"} PROVE Closed(j, st) \in Job
  <2>1. Closed(j, st) \in JobRecord
    BY <1>2, Zenon DEF Closed, JobRecord
  <2>2. Closed(j, st).status = st
    BY <1>2 DEF Closed, JobRecord
  <2> QED BY <2>1, <2>2 DEF Job
<1>7. ASSUME NEW k \in Kind PROVE Retried(k, j) \in Job
  <2>1. /\ j.round + 1 \in Nat
        /\ (IF k = "summary" THEN "pending" ELSE "failed") \in JobStatus
    BY <1>2
  <2>2. Retried(k, j) \in JobRecord
    BY <2>1, <1>2, Zenon DEF Retried, JobRecord
  <2>3. Retried(k, j).attempts = 0
    BY <1>2 DEF Retried, JobRecord
  <2> QED BY <2>2, <2>3 DEF Job
<1>8. Unleased(j) \in Job
  <2>1. Unleased(j) \in JobRecord
    BY <1>2, Zenon DEF Unleased, JobRecord
  <2>2. Unleased(j).status = j.status /\ Unleased(j).attempts = j.attempts
    BY <1>2 DEF Unleased, JobRecord
  <2> QED BY <2>1, <2>2 DEF Job
<1> QED BY <1>3, <1>4, <1>5, <1>6, <1>7, <1>8

\* Only a claim and a manual retry touch the attempts.
LEMMA JobAttempts ==
  ASSUME NEW j \in Job, NEW st, NEW k
  PROVE  /\ Claimed(j).attempts = j.attempts + 1
         /\ Failed(j).attempts = j.attempts
         /\ Interrupted(j).attempts = j.attempts
         /\ Closed(j, st).attempts = j.attempts
         /\ Retried(k, j).attempts = 0
         /\ Unleased(j).attempts = j.attempts
  BY DEF Job, JobRecord, Claimed, Failed, Interrupted, Closed, Retried, Unleased

\* A copy is put together from its four parts.
LEMMA StoreParts ==
  ASSUME NEW st \in [Block -> {"absent", "pending", "ready"}], NEW la \in [Block -> Layers],
         NEW ev \in [Block -> Nat], NEW jo \in [Kind -> [Block -> Job]]
  PROVE  [status |-> st, layers |-> la, events |-> ev, job |-> jo] \in Store
  BY DEF Store

\* A change of one part of a copy leaves the others alone.
LEMMA PutJobParts ==
  ASSUME NEW s \in Store, NEW k \in Kind, NEW b \in Block, NEW j \in Job
  PROVE  /\ PutJob(s, k, b, j) \in Store
         /\ PutJob(s, k, b, j).status = s.status
         /\ PutJob(s, k, b, j).layers = s.layers
         /\ PutJob(s, k, b, j).events = s.events
         /\ \A l \in Kind, c \in Block :
              PutJob(s, k, b, j).job[l][c] = IF l = k /\ c = b THEN j ELSE s.job[l][c]
<1>1. PutJob(s, k, b, j) \in Store
  BY Zenon DEF PutJob, Store
<1> QED BY <1>1 DEF PutJob, Store

LEMMA PutStatusParts ==
  ASSUME NEW s \in Store, NEW b \in Block, NEW st \in {"absent", "pending", "ready"}
  PROVE  /\ PutStatus(s, b, st) \in Store
         /\ PutStatus(s, b, st).status = [s.status EXCEPT ![b] = st]
         /\ PutStatus(s, b, st).layers = s.layers
         /\ PutStatus(s, b, st).job = s.job
<1>1. PutStatus(s, b, st) \in Store
  BY Zenon DEF PutStatus, Store
<1> QED BY <1>1 DEF PutStatus, Store

LEMMA PutLayersParts ==
  ASSUME NEW s \in Store, NEW b \in Block, NEW v \in Layers
  PROVE  /\ PutLayers(s, b, v) \in Store
         /\ PutLayers(s, b, v).status = s.status
         /\ PutLayers(s, b, v).layers = [s.layers EXCEPT ![b] = v]
         /\ PutLayers(s, b, v).job = s.job
<1>1. PutLayers(s, b, v) \in Store
  BY Zenon DEF PutLayers, Store
<1> QED BY <1>1 DEF PutLayers, Store

LEMMA PutEventsParts ==
  ASSUME NEW s \in Store, NEW b \in Block, NEW n \in Nat
  PROVE  /\ PutEvents(s, b, n) \in Store
         /\ PutEvents(s, b, n).status = s.status
         /\ PutEvents(s, b, n).layers = s.layers
         /\ PutEvents(s, b, n).job = s.job
<1>1. PutEvents(s, b, n) \in Store
  BY Zenon DEF PutEvents, Store
<1> QED BY <1>1 DEF PutEvents, Store

LEMMA MergedType ==
  ASSUME db \in Store, NEW s \in Store
  PROVE  /\ Merged(s) \in Store
         /\ Merged(s).status = s.status /\ Merged(s).layers = s.layers /\ Merged(s).events = s.events
         /\ \A k \in Kind, b \in Block : SameClaim(Merged(s).job[k][b], s.job[k][b])
<1> DEFINE jo == [k \in Kind |-> [b \in Block |-> MergeLease(s.job[k][b], db.job[k][b])]]
<1>1. ASSUME NEW i \in Job, NEW d \in Job
      PROVE  MergeLease(i, d) \in Job /\ SameClaim(MergeLease(i, d), i)
  <2>1. CASE MergeLease(i, d) = i
    BY <2>1 DEF SameClaim
  <2>2. CASE MergeLease(i, d) = [i EXCEPT !.lease = d.lease]
    <3>1. d.lease \in Nat /\ i \in JobRecord
      BY DEF Job, JobRecord
    <3>2. MergeLease(i, d) \in JobRecord
      BY <2>2, <3>1, Zenon DEF JobRecord
    <3>3. SameClaim(MergeLease(i, d), i)
      BY <2>2, <3>1 DEF JobRecord, SameClaim
    <3> QED BY <3>2, <3>3 DEF Job, SameClaim
  <2> QED BY <2>1, <2>2 DEF MergeLease
<1>2. \A k \in Kind, b \in Block : s.job[k][b] \in Job /\ db.job[k][b] \in Job
  BY DEF Store
<1>3. jo \in [Kind -> [Block -> Job]]
  BY <1>1, <1>2
<1>4. /\ s = [status |-> s.status, layers |-> s.layers, events |-> s.events, job |-> s.job]
      /\ s.status \in [Block -> {"absent", "pending", "ready"}]
      /\ s.layers \in [Block -> Layers] /\ s.events \in [Block -> Nat]
  BY DEF Store
<1>5. Merged(s) = [s EXCEPT !.job = jo]
  BY DEF Merged
<1> HIDE DEF jo
<1>6. Merged(s) = [status |-> s.status, layers |-> s.layers, events |-> s.events, job |-> jo]
  BY <1>4, <1>5
<1>7. \A k \in Kind, b \in Block : jo[k][b] = MergeLease(s.job[k][b], db.job[k][b])
  BY DEF jo
<1>8. Merged(s) \in Store
  BY <1>3, <1>4, <1>6, StoreParts
<1> QED BY <1>1, <1>2, <1>6, <1>7, <1>8

-----------------------------------------------------------------------------
(* What a commit has to guarantee *)

\* What a commit of s may rely on and must show: the state it leaves has a layer under
\* every ready Block, no attempt on an absent one, and as many attempts as model calls.
Sound(s) ==
  /\ s \in Store
  /\ calls' \in [Kind -> [Block -> Nat]]
  /\ \A k \in Kind, b \in Block : calls'[k][b] = s.job[k][b].attempts
  /\ \A b \in Block : s.status[b] = "ready" => s.layers[b] # "none"
  /\ \A b \in Block : db.status[b] = "ready" => s.status[b] = "ready"
  /\ \A k \in Kind, b \in Block : s.status[b] = "absent" => s.job[k][b].attempts = 0

\* The part of IInv that commits decide.
StoreInv ==
  /\ db \in Store /\ mem \in [Proc -> Store] /\ fresh \in [Proc -> BOOLEAN]
  /\ up \in [Proc -> BOOLEAN] /\ calls \in [Kind -> [Block -> Nat]]
  /\ RevisionDeterminesContent /\ CallsArePaid /\ ReadyHasLayers /\ AbsentHasNoAttempts

\* The part of IInv about activations and the environment.
WorkInv ==
  /\ work \in [Proc -> [Worker -> Activation]] /\ clock \in Nat /\ crashes \in Nat
  /\ ActiveWork

\* What ReadyIsFinal asks of a step.
ReadyStays ==
  \A b \in Block : db.status[b] = "ready" => db'.status[b] = "ready" /\ db'.layers[b] # "none"

LEMMA Parts == IInv <=> StoreInv /\ WorkInv
  BY DEF IInv, TypeOK, StoreInv, WorkInv

\* The copy of an up-to-date instance has what the durable state has.
LEMMA FreshCopy ==
  ASSUME StoreInv, NEW p \in Proc, fresh[p]
  PROVE  /\ mem[p] \in Store /\ up[p]
         /\ mem[p].status = db.status /\ mem[p].layers = db.layers /\ mem[p].events = db.events
         /\ \A k \in Kind, b \in Block :
              /\ mem[p].job[k][b] \in Job
              /\ SameClaim(mem[p].job[k][b], db.job[k][b])
              /\ mem[p].job[k][b].attempts = calls[k][b]
  BY DEF StoreInv, RevisionDeterminesContent, SameUpToLease, CallsArePaid, SameClaim, Store

LEMMA SavedKeeps ==
  ASSUME StoreInv, NEW p \in Proc, up[p], NEW s, Sound(s), Saved(p, s), up' = up
  PROVE  StoreInv' /\ ReadyStays
<1>1. /\ Merged(s) \in Store
      /\ Merged(s).status = s.status /\ Merged(s).layers = s.layers /\ Merged(s).events = s.events
      /\ \A k \in Kind, b \in Block : SameClaim(Merged(s).job[k][b], s.job[k][b])
  BY MergedType DEF StoreInv, Sound
<1>2. db' = Merged(s) /\ mem' = [mem EXCEPT ![p] = Merged(s)] /\ fresh' = [q \in Proc |-> q = p]
  BY DEF Saved
<1> HIDE DEF Merged
<1>3. db' \in Store /\ mem' \in [Proc -> Store] /\ fresh' \in [Proc -> BOOLEAN]
  BY <1>1, <1>2 DEF StoreInv
<1>4. RevisionDeterminesContent'
  BY <1>1, <1>2 DEF StoreInv, RevisionDeterminesContent, SameUpToLease, SameClaim
<1>5. CallsArePaid'
  <2>1. ASSUME NEW k \in Kind, NEW b \in Block
        PROVE  db'.job[k][b].attempts = calls'[k][b] /\ db'.job[k][b].attempts \in 0..MaxAttempts
    <3>1. db'.job[k][b].attempts = calls'[k][b]
      BY <1>1, <1>2 DEF Sound, SameClaim
    <3>2. db'.job[k][b] \in Job
      BY <1>3 DEF Store
    <3> QED BY <3>1, <3>2 DEF Job, JobRecord
  <2> QED BY <2>1, ConstantsAssumption DEF CallsArePaid
<1>6. ReadyHasLayers'
  BY <1>1, <1>2 DEF Sound, ReadyHasLayers
<1>7. AbsentHasNoAttempts'
  BY <1>1, <1>2 DEF Sound, AbsentHasNoAttempts, SameClaim
<1>8. ReadyStays
  BY <1>1, <1>2 DEF Sound, ReadyStays
<1> QED BY <1>3, <1>4, <1>5, <1>6, <1>7, <1>8 DEF StoreInv, Sound

LEMMA RejectedKeeps ==
  ASSUME StoreInv, Rejected, up' = up, calls' = calls
  PROVE  StoreInv' /\ ReadyStays
  BY DEF ReadyStays, StoreInv, Rejected, RevisionDeterminesContent, CallsArePaid, ReadyHasLayers,
         AbsentHasNoAttempts, SameUpToLease, SameClaim

\* Detaching an activation changes neither what it does nor for which Block.
LEMMA DetachedType ==
  ASSUME StoreInv, WorkInv, NEW p \in Proc, NEW w \in Worker
  PROVE  /\ Detached(p, work[p][w]) \in Activation
         /\ Detached(p, work[p][w]).pc = work[p][w].pc
         /\ Detached(p, work[p][w]).block = work[p][w].block
         /\ ~Detached(p, work[p][w]).attached
<1> DEFINE a == work[p][w]
<1>1. a \in Activation
  BY DEF WorkInv
<1>2. CASE a.attached
  <2>1. mem[p].layers[a.block] \in Layers
    BY <1>2 DEF StoreInv, WorkInv, ActiveWork, Store
  <2>2. Detached(p, a) = [a EXCEPT !.attached = FALSE, !.layers = mem[p].layers[a.block]]
    BY <1>2 DEF Detached
  <2> QED BY <1>1, <2>1, <2>2 DEF Activation
<1>3. CASE ~a.attached
  BY <1>1, <1>3 DEF Detached, Activation
<1> QED BY <1>2, <1>3

LEMMA AbandonKeeps ==
  ASSUME StoreInv, WorkInv, NEW p \in Proc, NEW w \in Worker, NEW next \in Activation,
         Abandon(p, w, next), up' = up, clock' = clock, crashes' = crashes,
         next.pc # "idle" => up[p] /\ next.block \in Block, ~next.attached
  PROVE  WorkInv'
  BY DetachedType DEF Abandon, WorkInv, ActiveWork, Activation

LEMMA DetachAllKeeps ==
  ASSUME StoreInv, WorkInv, NEW p \in Proc,
         DetachAll(p), up' = up, clock' = clock, crashes' = crashes
  PROVE  WorkInv'
  BY DetachedType DEF DetachAll, WorkInv, ActiveWork, Activation

LEMMA ReplacedKeeps ==
  ASSUME WorkInv, NEW p \in Proc, NEW w \in Worker, NEW next \in Activation,
         work' = [work EXCEPT ![p][w] = next], up' = up, clock' = clock, crashes' = crashes,
         next.pc # "idle" => up[p] /\ next.block \in Block,
         next.attached => next.block \in Block
  PROVE  WorkInv'
  BY DEF WorkInv, ActiveWork
-----------------------------------------------------------------------------
(* The steps of an activation *)

\* A commit that leaves the attempts alone, takes no layers away, and makes a Block
\* ready only over its layers.
LEMMA QuietSound ==
  ASSUME StoreInv, NEW p \in Proc, fresh[p], NEW s \in Store, calls' = calls,
         \A b \in Block : \/ s.status[b] = mem[p].status[b]
                          \/ s.status[b] = "ready" /\ s.layers[b] # "none",
         \A b \in Block : s.layers[b] = mem[p].layers[b] \/ s.layers[b] # "none",
         \A k \in Kind, b \in Block : s.job[k][b].attempts = mem[p].job[k][b].attempts
  PROVE  Sound(s)
<1>1. /\ mem[p].status = db.status /\ mem[p].layers = db.layers
      /\ \A k \in Kind, b \in Block : mem[p].job[k][b].attempts = calls[k][b]
  BY FreshCopy
<1>2. /\ \A k \in Kind, b \in Block : calls[k][b] = db.job[k][b].attempts
      /\ calls \in [Kind -> [Block -> Nat]]
  BY DEF StoreInv, CallsArePaid
<1>3. \A b \in Block : db.status[b] = "ready" => db.layers[b] # "none"
  BY DEF StoreInv, ReadyHasLayers
<1>4. \A k \in Kind, b \in Block : db.status[b] = "absent" => db.job[k][b].attempts = 0
  BY DEF StoreInv, AbsentHasNoAttempts
<1>5. \A b \in Block : s.status[b] = "ready" => s.layers[b] # "none"
  BY <1>1, <1>3
<1>6. \A k \in Kind, b \in Block : s.status[b] = "absent" => s.job[k][b].attempts = 0
  BY <1>1, <1>2, <1>4
<1>7. /\ \A b \in Block : db.status[b] = "ready" => s.status[b] = "ready"
      /\ \A k \in Kind, b \in Block : calls'[k][b] = s.job[k][b].attempts
  BY <1>1, <1>2
<1> QED BY <1>2, <1>5, <1>6, <1>7 DEF Sound

\* The same, with a job that keeps its attempts put on top.
LEMMA QuietJobSound ==
  ASSUME StoreInv, NEW p \in Proc, fresh[p], NEW m \in Store, calls' = calls,
         m.job = mem[p].job,
         \A b \in Block : \/ m.status[b] = mem[p].status[b]
                          \/ m.status[b] = "ready" /\ m.layers[b] # "none",
         \A b \in Block : m.layers[b] = mem[p].layers[b] \/ m.layers[b] # "none",
         NEW k \in Kind, NEW b \in Block, NEW j \in Job,
         j.attempts = mem[p].job[k][b].attempts
  PROVE  Sound(PutJob(m, k, b, j))
<1> DEFINE s == PutJob(m, k, b, j)
<1>1. /\ s \in Store /\ s.status = m.status /\ s.layers = m.layers
      /\ \A l \in Kind, c \in Block : s.job[l][c] = IF l = k /\ c = b THEN j ELSE m.job[l][c]
  BY PutJobParts
<1> HIDE DEF s
<1>2. /\ \A l \in Kind, c \in Block : s.job[l][c].attempts = mem[p].job[l][c].attempts
      /\ \A c \in Block : \/ s.status[c] = mem[p].status[c]
                          \/ s.status[c] = "ready" /\ s.layers[c] # "none"
      /\ \A c \in Block : s.layers[c] = mem[p].layers[c] \/ s.layers[c] # "none"
  BY <1>1
<1>3. Sound(s)
  BY <1>1, <1>2, QuietSound
<1> QED BY <1>3 DEF s

\* A claim or a manual retry of a Block that exists: the budget of one job moves.
LEMMA BudgetSound ==
  ASSUME StoreInv, NEW p \in Proc, fresh[p], NEW k \in Kind, NEW b \in Block, NEW j \in Job,
         mem[p].status[b] # "absent", calls' = [calls EXCEPT ![k][b] = j.attempts]
  PROVE  Sound(PutJob(mem[p], k, b, j))
<1> DEFINE s == PutJob(mem[p], k, b, j)
<1>1. /\ mem[p].status = db.status /\ mem[p].layers = db.layers /\ mem[p] \in Store
      /\ \A l \in Kind, c \in Block : mem[p].job[l][c].attempts = calls[l][c]
  BY FreshCopy
<1>2. /\ s \in Store /\ s.status = mem[p].status /\ s.layers = mem[p].layers
      /\ \A l \in Kind, c \in Block :
           s.job[l][c] = IF l = k /\ c = b THEN j ELSE mem[p].job[l][c]
  BY <1>1, PutJobParts
<1>3. j.attempts \in Nat
  BY ConstantsAssumption DEF Job, JobRecord
<1>4. /\ calls \in [Kind -> [Block -> Nat]]
      /\ \A l \in Kind, c \in Block : calls[l][c] = db.job[l][c].attempts
  BY DEF StoreInv, CallsArePaid
<1> HIDE DEF s
<1>5. /\ calls' \in [Kind -> [Block -> Nat]]
      /\ \A l \in Kind, c \in Block :
           calls'[l][c] = IF l = k /\ c = b THEN j.attempts ELSE calls[l][c]
  BY <1>3, <1>4
<1>6. \A l \in Kind, c \in Block : calls'[l][c] = s.job[l][c].attempts
  BY <1>1, <1>2, <1>5
<1>7. \A l \in Kind, c \in Block : s.status[c] = "absent" => s.job[l][c].attempts = 0
  BY SMTT(30), <1>1, <1>2, <1>4 DEF StoreInv, AbsentHasNoAttempts
<1>8. Sound(s)
  BY <1>1, <1>2, <1>5, <1>6, <1>7 DEF Sound, StoreInv, ReadyHasLayers
<1> QED BY <1>8 DEF s

\* What a running activation may rely on.
LEMMA Busy ==
  ASSUME StoreInv, WorkInv, NEW p \in Proc, NEW w \in Worker, work[p][w].pc # "idle"
  PROVE  /\ work[p][w] \in Activation /\ work[p][w].block \in Block /\ up[p]
         /\ work[p][w].attached \in BOOLEAN
         /\ mem[p] \in Store
         /\ \A k \in Kind : mem[p].job[k][work[p][w].block] \in Job
  BY DEF StoreInv, WorkInv, ActiveWork, Activation, Store

LEMMA NewActivation ==
  ASSUME NEW b \in Block
  PROVE  /\ Idle \in Activation
         /\ \A pc \in {"summary", "extraction"}, j \in Job :
              Holding(pc, b, j) \in Activation /\ Holding(pc, b, j).block = b
         /\ \A at \in BOOLEAN, v \in Layers :
              Routed(b, at, v) \in Activation /\ Routed(b, at, v).block = b
  BY ConstantsAssumption DEF Idle, Holding, Routed, Activation, Layers, Job, JobRecord

\* An activation that gives up after a rejected commit.
LEMMA IdleKeeps ==
  ASSUME StoreInv, WorkInv, NEW p \in Proc, NEW w \in Worker,
         Abandon(p, w, Idle) \/ work' = [work EXCEPT ![p][w] = Idle],
         up' = up, clock' = clock, crashes' = crashes
  PROVE  WorkInv'
<1>1. Idle \in Activation /\ Idle.pc = "idle" /\ Idle.attached = FALSE
  BY ConstantsAssumption DEF Idle, Activation, Layers
<1>2. CASE Abandon(p, w, Idle)
  BY <1>1, <1>2, AbandonKeeps
<1>3. CASE work' = [work EXCEPT ![p][w] = Idle]
  BY <1>1, <1>3, ReplacedKeeps
<1> QED BY <1>2, <1>3

LEMMA ClaimSummaryKeeps ==
  ASSUME StoreInv, WorkInv, NEW p \in Proc, NEW w \in Worker, NEW b \in Block,
         ClaimSummary(p, w, b)
  PROVE  StoreInv' /\ WorkInv' /\ ReadyStays
<1> DEFINE j == Claimed(mem[p].job["summary"][b])
           s == PutJob(mem[p], "summary", b, j)
<1>1. /\ up[p] /\ mem[p].status[b] = "pending" /\ JobCanRun(mem[p].job["summary"][b])
      /\ up' = up /\ clock' = clock /\ crashes' = crashes /\ "summary" \in Kind
  BY DEF ClaimSummary, Kind
<1>2. mem[p].job["summary"][b] \in Job
  BY <1>1 DEF StoreInv, Store
<1>3. j \in Job /\ j.attempts = mem[p].job["summary"][b].attempts + 1
  BY <1>1, <1>2, JobTypes, JobAttempts DEF WorkInv, JobCanRun
<1>4. \/ /\ CanCommit(p, s) /\ Saved(p, s) /\ work' = [work EXCEPT ![p][w] = Holding("summary", b, j)]
         /\ calls' = [calls EXCEPT !["summary"][b] = @ + 1]
      \/ ~CanCommit(p, s) /\ Rejected /\ Abandon(p, w, Idle) /\ calls' = calls
  BY DEF ClaimSummary
<1> HIDE DEF s, j
<1>5. CASE /\ CanCommit(p, s) /\ Saved(p, s) /\ work' = [work EXCEPT ![p][w] = Holding("summary", b, j)]
           /\ calls' = [calls EXCEPT !["summary"][b] = @ + 1]
  <2>1. fresh[p]
    BY <1>5 DEF CanCommit
  <2>2. calls["summary"][b] + 1 = j.attempts
    BY <1>1, <1>3, <2>1, FreshCopy
  <2>3. Sound(s)
    BY <1>1, <1>3, <1>5, <2>1, <2>2, BudgetSound DEF s
  <2>4. Holding("summary", b, j) \in Activation /\ Holding("summary", b, j).block = b
    BY <1>3, NewActivation
  <2>5. StoreInv' /\ ReadyStays
    BY <1>1, <1>5, <2>3, SavedKeeps
  <2>6. WorkInv'
    BY ZenonT(60), <1>1, <1>5, <2>4, ReplacedKeeps
  <2> QED BY <2>5, <2>6
<1>6. CASE Rejected /\ Abandon(p, w, Idle) /\ calls' = calls
  BY <1>1, <1>6, IdleKeeps, RejectedKeeps
<1> QED BY <1>4, <1>5, <1>6

LEMMA FinishSummaryKeeps ==
  ASSUME StoreInv, WorkInv, NEW p \in Proc, NEW w \in Worker, FinishSummary(p, w)
  PROVE  StoreInv' /\ WorkInv' /\ ReadyStays
<1> DEFINE a == work[p][w]
           b == a.block
           j == mem[p].job["summary"][b]
           m(v) == IF a.attached THEN PutLayers(mem[p], b, v) ELSE mem[p]
           s(v) == PutJob(m(v), "summary", b, Closed(j, "succeeded"))
           routed(v) == Routed(b, a.attached, IF a.attached THEN "none" ELSE v)
           failing == [Detached(p, a) EXCEPT !.pc = "failing"]
<1>1. /\ a.pc # "idle" /\ b \in Block /\ up[p] /\ a.attached \in BOOLEAN
      /\ up' = up /\ clock' = clock /\ crashes' = crashes /\ calls' = calls
  BY Busy DEF FinishSummary
<1>2. PICK v \in {"extract", "skip"} :
        \/ CanCommit(p, s(v)) /\ Saved(p, s(v)) /\ work' = [work EXCEPT ![p][w] = routed(v)]
        \/ ~CanCommit(p, s(v)) /\ Rejected /\ Abandon(p, w, failing)
  BY DEF FinishSummary
<1> HIDE DEF s, m, routed
<1>3. CASE CanCommit(p, s(v)) /\ Saved(p, s(v)) /\ work' = [work EXCEPT ![p][w] = routed(v)]
  <2>1. fresh[p] /\ "summary" \in Kind /\ v \in Layers
    BY <1>3 DEF CanCommit, Kind, Layers
  <2>2. mem[p] \in Store /\ j \in Job
    BY <1>1, <2>1, Busy
  <2>3. Closed(j, "succeeded") \in Job /\ Closed(j, "succeeded").attempts = j.attempts
    BY <2>2, JobTypes, JobAttempts DEF WorkInv, JobStatus
  <2>4. /\ m(v) \in Store /\ m(v).status = mem[p].status /\ m(v).job = mem[p].job
        /\ m(v).layers \in {mem[p].layers, [mem[p].layers EXCEPT ![b] = v]}
    BY <1>1, <2>1, <2>2, PutLayersParts DEF m
  <2>5. \A c \in Block : m(v).layers[c] = mem[p].layers[c] \/ m(v).layers[c] # "none"
    BY <2>2, <2>4 DEF Store
  <2>6. Sound(s(v))
    BY <1>1, <2>1, <2>3, <2>4, <2>5, QuietJobSound DEF s
  <2>7. routed(v) \in Activation /\ routed(v).block = b
    BY <1>1, NewActivation DEF Layers, routed
  <2> QED BY <1>1, <1>3, <2>6, <2>7, SavedKeeps, ReplacedKeeps
<1>4. CASE ~CanCommit(p, s(v)) /\ Rejected /\ Abandon(p, w, failing)
  <2>1. failing \in Activation /\ failing.block = b /\ ~failing.attached
    BY DetachedType DEF Activation
  <2> QED BY <1>1, <1>4, <2>1, RejectedKeeps, AbandonKeeps
<1> QED BY <1>2, <1>3, <1>4

LEMMA FailSummaryKeeps ==
  ASSUME StoreInv, WorkInv, NEW p \in Proc, NEW w \in Worker, FailSummary(p, w)
  PROVE  StoreInv' /\ WorkInv' /\ ReadyStays
<1> DEFINE b == work[p][w].block
           j == Failed(mem[p].job["summary"][b])
           s == PutJob(mem[p], "summary", b, j)
<1>1. /\ work[p][w].pc # "idle" /\ b \in Block /\ up[p] /\ "summary" \in Kind
      /\ up' = up /\ clock' = clock /\ crashes' = crashes /\ calls' = calls
  BY Busy DEF FailSummary, Kind
<1>2. mem[p] \in Store /\ mem[p].job["summary"][b] \in Job
  BY <1>1, Busy
<1>3. j \in Job /\ j.attempts = mem[p].job["summary"][b].attempts
  BY <1>2, JobTypes, JobAttempts DEF WorkInv
<1>4. \/ CanCommit(p, s) /\ Saved(p, s) /\ work' = [work EXCEPT ![p][w] = Idle]
      \/ ~CanCommit(p, s) /\ Rejected /\ Abandon(p, w, Idle)
  BY DEF FailSummary
<1>5. WorkInv'
  BY <1>1, <1>4, IdleKeeps
<1> HIDE DEF s, j
<1>6. CASE CanCommit(p, s) /\ Saved(p, s)
  <2>1. fresh[p]
    BY <1>6 DEF CanCommit
  <2>2. Sound(s)
    BY <1>1, <1>2, <1>3, <2>1, QuietJobSound DEF s
  <2> QED BY <1>1, <1>5, <1>6, <2>2, SavedKeeps
<1>7. CASE Rejected
  BY <1>1, <1>5, <1>7, RejectedKeeps
<1> QED BY <1>4, <1>6, <1>7

LEMMA PickSummarizedKeeps ==
  ASSUME StoreInv, WorkInv, NEW p \in Proc, NEW w \in Worker, NEW b \in Block,
         PickSummarized(p, w, b)
  PROVE  StoreInv' /\ WorkInv' /\ ReadyStays
<1>1. /\ up[p] /\ work' = [work EXCEPT ![p][w] = Routed(b, TRUE, "none")] /\ Rejected
      /\ up' = up /\ clock' = clock /\ crashes' = crashes /\ calls' = calls
  BY DEF PickSummarized, Rejected
<1>2. Routed(b, TRUE, "none") \in Activation /\ Routed(b, TRUE, "none").block = b
  BY NewActivation DEF Layers
<1>3. StoreInv' /\ ReadyStays
  BY <1>1, RejectedKeeps
<1>4. WorkInv'
  BY ZenonT(60), <1>1, <1>2, ReplacedKeeps
<1> QED BY <1>3, <1>4

LEMMA SkipExtractionKeeps ==
  ASSUME StoreInv, WorkInv, NEW p \in Proc, NEW w \in Worker, SkipExtraction(p, w)
  PROVE  StoreInv' /\ WorkInv' /\ ReadyStays
<1> DEFINE a == work[p][w]
           b == a.block
           j == Unleased(Closed(mem[p].job["extraction"][b], "skipped"))
           m == IF a.attached THEN PutStatus(mem[p], b, "ready") ELSE mem[p]
           s == PutJob(m, "extraction", b, j)
<1>1. /\ a.pc # "idle" /\ b \in Block /\ up[p] /\ "extraction" \in Kind /\ View(p, w) = "skip"
      /\ up' = up /\ clock' = clock /\ crashes' = crashes /\ calls' = calls
  BY Busy DEF SkipExtraction, Kind
<1>2. mem[p] \in Store /\ mem[p].job["extraction"][b] \in Job
  BY <1>1, Busy
<1>3. j \in Job /\ j.attempts = mem[p].job["extraction"][b].attempts
  <2>1. /\ Closed(mem[p].job["extraction"][b], "skipped") \in Job
        /\ Closed(mem[p].job["extraction"][b], "skipped").attempts
             = mem[p].job["extraction"][b].attempts
    BY <1>2, JobTypes, JobAttempts DEF WorkInv, JobStatus
  <2> QED BY <2>1, JobTypes, JobAttempts DEF WorkInv
<1>4. \/ CanCommit(p, s) /\ Saved(p, s) /\ work' = [work EXCEPT ![p][w] = Idle]
      \/ ~CanCommit(p, s) /\ Rejected /\ Abandon(p, w, Idle)
  BY DEF SkipExtraction
<1>5. WorkInv'
  BY <1>1, <1>4, IdleKeeps
<1>6. /\ m \in Store /\ m.layers = mem[p].layers /\ m.job = mem[p].job
      /\ \/ m.status = mem[p].status
         \/ m.status = [mem[p].status EXCEPT ![b] = "ready"] /\ a.attached
  BY <1>1, <1>2, PutStatusParts
<1>7. \A c \in Block : \/ m.status[c] = mem[p].status[c]
                       \/ m.status[c] = "ready" /\ m.layers[c] # "none"
  <2>1. a.attached => mem[p].layers[b] = "skip"
    BY <1>1 DEF View
  <2>2. mem[p].status \in [Block -> {"absent", "pending", "ready"}]
    BY <1>2 DEF Store
  <2> QED BY <1>1, <1>6, <2>1, <2>2
<1> HIDE DEF s, j, m
<1>8. CASE CanCommit(p, s) /\ Saved(p, s)
  <2>1. fresh[p]
    BY <1>8 DEF CanCommit
  <2>2. Sound(s)
    BY <1>1, <1>3, <1>6, <1>7, <2>1, QuietJobSound DEF s
  <2> QED BY <1>1, <1>5, <1>8, <2>2, SavedKeeps
<1>9. CASE Rejected
  BY <1>1, <1>5, <1>9, RejectedKeeps
<1> QED BY <1>4, <1>8, <1>9

LEMMA FailExtractionKeeps ==
  ASSUME StoreInv, WorkInv, NEW p \in Proc, NEW w \in Worker, FailExtraction(p, w)
  PROVE  StoreInv' /\ WorkInv' /\ ReadyStays
<1> DEFINE b == work[p][w].block
           j == Failed(mem[p].job["extraction"][b])
           s == PutJob(mem[p], "extraction", b, j)
<1>1. /\ work[p][w].pc # "idle" /\ b \in Block /\ up[p] /\ "extraction" \in Kind
      /\ up' = up /\ clock' = clock /\ crashes' = crashes /\ calls' = calls
  BY Busy DEF FailExtraction, Kind
<1>2. mem[p] \in Store /\ mem[p].job["extraction"][b] \in Job
  BY <1>1, Busy
<1>3. j \in Job /\ j.attempts = mem[p].job["extraction"][b].attempts
  BY <1>2, JobTypes, JobAttempts DEF WorkInv
<1>4. \/ CanCommit(p, s) /\ Saved(p, s) /\ work' = [work EXCEPT ![p][w] = Idle]
      \/ ~CanCommit(p, s) /\ Rejected /\ Abandon(p, w, Idle)
  BY DEF FailExtraction
<1>5. WorkInv'
  BY <1>1, <1>4, IdleKeeps
<1> HIDE DEF s, j
<1>6. CASE CanCommit(p, s) /\ Saved(p, s)
  <2>1. fresh[p]
    BY <1>6 DEF CanCommit
  <2>2. Sound(s)
    BY <1>1, <1>2, <1>3, <2>1, QuietJobSound DEF s
  <2> QED BY <1>1, <1>5, <1>6, <2>2, SavedKeeps
<1>7. CASE Rejected
  BY <1>1, <1>5, <1>7, RejectedKeeps
<1> QED BY <1>4, <1>6, <1>7

LEMMA ClaimExtractionKeeps ==
  ASSUME StoreInv, WorkInv, NEW p \in Proc, NEW w \in Worker, ClaimExtraction(p, w)
  PROVE  StoreInv' /\ WorkInv' /\ ReadyStays
<1> DEFINE b == work[p][w].block
           old == mem[p].job["extraction"][b]
           j == Claimed(old)
           s == PutJob(mem[p], "extraction", b, j)
<1>1. /\ work[p][w].pc # "idle" /\ b \in Block /\ up[p] /\ "extraction" \in Kind
      /\ up' = up /\ clock' = clock /\ crashes' = crashes
  BY Busy DEF ClaimExtraction, Kind
<1>2. mem[p] \in Store /\ old \in Job
  BY <1>1, Busy
<1>3. \/ /\ ExtractionTarget(p, b) /\ CanCommit(p, s) /\ Saved(p, s)
         /\ work' = [work EXCEPT ![p][w] = Holding("extraction", b, j)]
         /\ calls' = [calls EXCEPT !["extraction"][b] = @ + 1]
      \/ Rejected /\ calls' = calls /\ Abandon(p, w, Idle)
      \/ Rejected /\ calls' = calls /\ work' = [work EXCEPT ![p][w] = Idle]
  BY DEF ClaimExtraction
<1> HIDE DEF s, j
<1>4. CASE /\ ExtractionTarget(p, b) /\ CanCommit(p, s) /\ Saved(p, s)
           /\ work' = [work EXCEPT ![p][w] = Holding("extraction", b, j)]
           /\ calls' = [calls EXCEPT !["extraction"][b] = @ + 1]
  <2>1. fresh[p] /\ mem[p].status[b] = "pending" /\ old.attempts < MaxAttempts
    <3>1. old.status = "none" => old.attempts = 0
      BY <1>2 DEF Job
    <3>2. fresh[p] /\ mem[p].status[b] = "pending" /\ (old.status = "none" \/ old.attempts < MaxAttempts)
      BY <1>4 DEF CanCommit, ExtractionTarget, JobCanRun
    <3>3. 0 < MaxAttempts
      BY ConstantsAssumption
    <3>4. old.attempts < MaxAttempts
      BY <3>1, <3>2, <3>3
    <3> QED BY <3>2, <3>4
  <2>2. j \in Job /\ j.attempts = old.attempts + 1
    BY <1>2, <2>1, JobTypes, JobAttempts DEF WorkInv, j
  <2>3. calls["extraction"][b] + 1 = j.attempts
    BY <1>1, <2>1, <2>2, FreshCopy
  <2>4. Sound(s)
    BY <1>1, <1>4, <2>1, <2>2, <2>3, BudgetSound DEF s
  <2>5. Holding("extraction", b, j) \in Activation /\ Holding("extraction", b, j).block = b
    BY <1>1, <2>2, NewActivation
  <2> QED BY <1>1, <1>4, <2>4, <2>5, SavedKeeps, ReplacedKeeps
<1>5. CASE Rejected /\ calls' = calls /\ Abandon(p, w, Idle)
  BY <1>1, <1>5, IdleKeeps, RejectedKeeps
<1>6. CASE Rejected /\ calls' = calls /\ work' = [work EXCEPT ![p][w] = Idle]
  BY <1>1, <1>6, IdleKeeps, RejectedKeeps
<1> QED BY <1>3, <1>4, <1>5, <1>6

LEMMA FinishExtractionKeeps ==
  ASSUME StoreInv, WorkInv, NEW p \in Proc, NEW w \in Worker, FinishExtraction(p, w)
  PROVE  StoreInv' /\ WorkInv' /\ ReadyStays
<1> DEFINE a == work[p][w]
           b == a.block
           j(found) == Closed(mem[p].job["extraction"][b], IF found THEN "succeeded" ELSE "skipped")
           n(found) == IF found THEN PutEvents(mem[p], b, mem[p].events[b] + 1) ELSE mem[p]
           m(found) == IF a.attached THEN PutStatus(n(found), b, "ready") ELSE n(found)
           s(found) == PutJob(m(found), "extraction", b, j(found))
<1>1. /\ a.pc # "idle" /\ b \in Block /\ up[p] /\ "extraction" \in Kind
      /\ up' = up /\ clock' = clock /\ crashes' = crashes /\ calls' = calls
  BY Busy DEF FinishExtraction, Kind
<1>2. mem[p] \in Store /\ mem[p].job["extraction"][b] \in Job /\ mem[p].events[b] + 1 \in Nat
  BY <1>1, Busy DEF Store
<1>3. PICK found \in BOOLEAN :
        \/ /\ View(p, w) # "none" /\ CanCommit(p, s(found)) /\ Saved(p, s(found))
           /\ work' = [work EXCEPT ![p][w] = Idle]
        \/ Rejected /\ Abandon(p, w, Idle)
  BY DEF FinishExtraction
<1>4. j(found) \in Job /\ j(found).attempts = mem[p].job["extraction"][b].attempts
  BY <1>2, JobTypes, JobAttempts DEF WorkInv, JobStatus
<1>5. WorkInv'
  BY <1>1, <1>3, IdleKeeps
<1>6. /\ n(found) \in Store /\ n(found).layers = mem[p].layers
      /\ n(found).job = mem[p].job /\ n(found).status = mem[p].status
  BY <1>1, <1>2, PutEventsParts
<1> HIDE DEF s, j, n
<1>7. /\ m(found) \in Store /\ m(found).layers = mem[p].layers /\ m(found).job = mem[p].job
      /\ \/ m(found).status = mem[p].status
         \/ m(found).status = [mem[p].status EXCEPT ![b] = "ready"] /\ a.attached
  <2>1. CASE a.attached
    <3>1. /\ PutStatus(n(found), b, "ready") \in Store
          /\ PutStatus(n(found), b, "ready").layers = n(found).layers
          /\ PutStatus(n(found), b, "ready").job = n(found).job
          /\ PutStatus(n(found), b, "ready").status = [n(found).status EXCEPT ![b] = "ready"]
      BY <1>1, <1>6, PutStatusParts
    <3> QED BY <1>6, <2>1, <3>1
  <2>2. CASE ~a.attached
    BY <1>6, <2>2
  <2> QED BY <2>1, <2>2
<1> HIDE DEF m
<1>8. CASE View(p, w) # "none" /\ CanCommit(p, s(found)) /\ Saved(p, s(found))
  <2>1. fresh[p]
    BY <1>8 DEF CanCommit
  <2>2. \A c \in Block : \/ m(found).status[c] = mem[p].status[c]
                         \/ m(found).status[c] = "ready" /\ m(found).layers[c] # "none"
    BY <1>1, <1>2, <1>7, <1>8 DEF Store, View
  <2>3. Sound(s(found))
    BY <1>1, <1>4, <1>7, <2>1, <2>2, QuietJobSound DEF s
  <2> QED BY <1>1, <1>5, <1>8, <2>3, SavedKeeps
<1>9. CASE Rejected
  BY <1>1, <1>5, <1>9, RejectedKeeps
<1> QED BY <1>3, <1>8, <1>9

\* Copies that agree up to leases with copies that do, agree up to leases.
LEMMA SameFits ==
  ASSUME NEW s, NEW t, NEW u, NEW v,
         SameUpToLease(s, t), SameUpToLease(t, u), SameUpToLease(v, u)
  PROVE  SameUpToLease(s, v)
  BY DEF SameUpToLease, SameClaim

\* A renewed lease is all that changes in a copy.
LEMMA RenewedCopy ==
  ASSUME NEW s \in Store, NEW k \in Kind, NEW b \in Block, clock \in Nat
  PROVE  LET t == [s EXCEPT !.job[k][b].lease = clock + Lease]
         IN /\ t \in Store /\ SameUpToLease(t, s)
            /\ \A l \in Kind, c \in Block :
                 t.job[l][c].lease = IF l = k /\ c = b THEN clock + Lease ELSE s.job[l][c].lease
<1> DEFINE j == [s.job[k][b] EXCEPT !.lease = clock + Lease]
<1>1. s.job[k][b] \in Job /\ clock + Lease \in Nat
  BY ConstantsAssumption DEF Store
<1>2. j \in JobRecord
  BY <1>1, Zenon DEF Job, JobRecord
<1>3. j \in Job /\ SameClaim(j, s.job[k][b]) /\ j.lease = clock + Lease
  BY <1>1, <1>2 DEF Job, JobRecord, SameClaim
<1> HIDE DEF j
<1>4. /\ PutJob(s, k, b, j) \in Store
      /\ PutJob(s, k, b, j).status = s.status /\ PutJob(s, k, b, j).layers = s.layers
      /\ PutJob(s, k, b, j).events = s.events
      /\ \A l \in Kind, c \in Block :
           PutJob(s, k, b, j).job[l][c] = IF l = k /\ c = b THEN j ELSE s.job[l][c]
  BY <1>3, PutJobParts
<1>5. SameUpToLease(PutJob(s, k, b, j), s)
  BY <1>3, <1>4 DEF SameUpToLease, SameClaim
<1>6. \A l \in Kind, c \in Block :
        PutJob(s, k, b, j).job[l][c].lease = IF l = k /\ c = b THEN clock + Lease ELSE s.job[l][c].lease
  BY <1>3, <1>4
<1> DEFINE t == [s EXCEPT !.job[k][b].lease = clock + Lease]
<1>7. t = PutJob(s, k, b, j)
  BY DEF PutJob, j
<1> HIDE DEF t
<1>8. /\ t \in Store /\ SameUpToLease(t, s)
      /\ \A l \in Kind, c \in Block :
           t.job[l][c].lease = IF l = k /\ c = b THEN clock + Lease ELSE s.job[l][c].lease
  BY <1>4, <1>5, <1>6, <1>7
<1> QED BY <1>8 DEF t

\* A heartbeat writes leases only, on both sides.
LEMMA HeartbeatWrites ==
  ASSUME StoreInv, WorkInv, NEW p \in Proc, NEW w \in Worker, Renew(p, w)
  PROVE  /\ db' \in Store /\ SameUpToLease(db', db)
         /\ mem' \in [Proc -> Store] /\ \A q \in Proc : SameUpToLease(mem'[q], mem[q])
         /\ \A l \in Kind, c \in Block : db'.job[l][c].lease \in {db.job[l][c].lease, clock + Lease}
<1> DEFINE a == work[p][w]
           b == a.block
           k == KindOf(a)
<1>1. b \in Block /\ k \in Kind /\ clock \in Nat
  BY Busy DEF Renew, InFlight, Kind, KindOf, WorkInv
<1>2. /\ db \in Store /\ mem \in [Proc -> Store]
      /\ \A t \in Store : SameUpToLease(t, t)
  BY DEF StoreInv, SameUpToLease, SameClaim
<1>3. /\ db' \in Store /\ SameUpToLease(db', db)
      /\ \A l \in Kind, c \in Block : db'.job[l][c].lease \in {db.job[l][c].lease, clock + Lease}
  <2>1. db' = db \/ db' = [db EXCEPT !.job[k][b].lease = clock + Lease]
    BY DEF Renew
  <2>2. CASE db' = db
    BY <1>2, <2>2
  <2>3. CASE db' = [db EXCEPT !.job[k][b].lease = clock + Lease]
    <3> DEFINE t == [db EXCEPT !.job[k][b].lease = clock + Lease]
    <3>1. /\ t \in Store /\ SameUpToLease(t, db)
          /\ \A l \in Kind, c \in Block :
               t.job[l][c].lease = IF l = k /\ c = b THEN clock + Lease ELSE db.job[l][c].lease
      BY <1>1, <1>2, RenewedCopy
    <3>2. db' = t
      BY <2>3
    <3> HIDE DEF t
    <3> QED BY <3>1, <3>2
  <2> QED BY <2>1, <2>2, <2>3
<1>4. mem' \in [Proc -> Store] /\ \A q \in Proc : SameUpToLease(mem'[q], mem[q])
  <2>1. CASE mem' = mem
    BY <1>2, <2>1
  <2>2. CASE mem' = [mem EXCEPT ![p].job[k][b].lease = clock + Lease]
    <3> DEFINE t == [mem[p] EXCEPT !.job[k][b].lease = clock + Lease]
    <3>1. t \in Store /\ SameUpToLease(t, mem[p])
      BY <1>1, <1>2, RenewedCopy
    <3>2. mem' = [mem EXCEPT ![p] = t]
      BY <2>2
    <3> HIDE DEF t
    <3> QED BY <1>2, <3>1, <3>2
  <2>3. mem' = mem \/ mem' = [mem EXCEPT ![p].job[k][b].lease = clock + Lease]
    BY DEF Renew
  <2> QED BY <2>1, <2>2, <2>3
<1> QED BY <1>3, <1>4

LEMMA RenewKeeps ==
  ASSUME StoreInv, WorkInv, NEW p \in Proc, NEW w \in Worker, Renew(p, w)
  PROVE  StoreInv' /\ WorkInv' /\ ReadyStays
<1> DEFINE a == work[p][w]
           b == a.block
           k == KindOf(a)
<1>1. /\ a.pc # "idle" /\ b \in Block /\ up[p] /\ k \in Kind /\ a \in Activation
      /\ up' = up /\ clock' = clock /\ crashes' = crashes /\ calls' = calls /\ fresh' = fresh
  BY Busy DEF Renew, InFlight, Kind, KindOf
<1>4. /\ db' \in Store /\ SameUpToLease(db', db)
      /\ mem' \in [Proc -> Store] /\ \A q \in Proc : SameUpToLease(mem'[q], mem[q])
  BY HeartbeatWrites
<1>5. WorkInv'
  <2>1. PICK l \in BOOLEAN : work' = [work EXCEPT ![p][w].lost = l]
    BY DEF Renew
  <2>2. [a EXCEPT !.lost = l] \in Activation
    BY <1>1, Zenon DEF Activation
  <2>3. /\ [a EXCEPT !.lost = l].pc = a.pc /\ [a EXCEPT !.lost = l].block = b
        /\ [a EXCEPT !.lost = l].attached = a.attached
    BY <1>1 DEF Activation
  <2>4. work' = [work EXCEPT ![p][w] = [a EXCEPT !.lost = l]]
    BY <2>1
  <2> QED BY <1>1, <2>2, <2>3, <2>4, ReplacedKeeps
<1>6. StoreInv' /\ ReadyStays
  <2>1. /\ db'.status = db.status /\ db'.layers = db.layers
        /\ \A l \in Kind, c \in Block : db'.job[l][c].attempts = db.job[l][c].attempts
    BY <1>4 DEF SameUpToLease, SameClaim
  <2>2. RevisionDeterminesContent'
    <3>1. ASSUME NEW q \in Proc, fresh'[q] PROVE up'[q] /\ SameUpToLease(mem'[q], db')
      <4>1. up[q] /\ SameUpToLease(mem[q], db)
        BY <1>1, <3>1 DEF StoreInv, RevisionDeterminesContent
      <4>2. SameUpToLease(mem'[q], mem[q]) /\ SameUpToLease(db', db)
        BY <1>4
      <4>3. SameUpToLease(mem'[q], db')
        BY <4>1, <4>2, SameFits
      <4> QED BY <1>1, <4>1, <4>3
    <3> QED BY <3>1 DEF RevisionDeterminesContent
  <2> QED BY <1>1, <1>4, <2>1, <2>2
          DEF StoreInv, CallsArePaid, ReadyHasLayers, AbsentHasNoAttempts, ReadyStays
<1> QED BY <1>5, <1>6

-----------------------------------------------------------------------------
(* The steps of the instance and of its environment *)

LEMMA RecoverKeeps ==
  ASSUME StoreInv, WorkInv, NEW p \in Proc, NEW k \in Kind, Recover(p, k)
  PROVE  StoreInv' /\ WorkInv' /\ ReadyStays
<1> DEFINE Swept(j) == IF Expired(j) THEN Interrupted(j) ELSE j
           f == [b \in Block |-> Swept(mem[p].job[k][b])]
           s == [mem[p] EXCEPT !.job[k] = f]
<1>1. /\ up[p] /\ up' = up /\ clock' = clock /\ crashes' = crashes /\ calls' = calls
      /\ mem[p] \in Store
  BY DEF Recover, StoreInv
<1>2. \A j \in Job : Swept(j) \in Job /\ Swept(j).attempts = j.attempts
  BY JobTypes, JobAttempts DEF WorkInv
<1>3. /\ f \in [Block -> Job]
      /\ \A b \in Block : f[b].attempts = mem[p].job[k][b].attempts
  BY <1>1, <1>2 DEF Store
<1>4. \/ CanCommit(p, s) /\ Saved(p, s) /\ UNCHANGED work
      \/ Rejected /\ DetachAll(p)
  BY DEF Recover
<1> HIDE DEF f
<1>5. s \in Store
  BY <1>1, <1>3, Zenon DEF Store
<1>6. /\ s.status = mem[p].status /\ s.layers = mem[p].layers
      /\ \A l \in Kind, b \in Block : s.job[l][b].attempts = mem[p].job[l][b].attempts
  BY <1>1, <1>3 DEF Store
<1> HIDE DEF s
<1>7. CASE CanCommit(p, s) /\ Saved(p, s) /\ UNCHANGED work
  <2>1. fresh[p]
    BY <1>7 DEF CanCommit
  <2>2. Sound(s)
    BY <1>1, <1>5, <1>6, <2>1, QuietSound
  <2>3. WorkInv'
    BY <1>1, <1>7 DEF WorkInv, ActiveWork
  <2> QED BY <1>1, <1>7, <2>2, <2>3, SavedKeeps
<1>8. CASE Rejected /\ DetachAll(p)
  BY <1>1, <1>8, RejectedKeeps, DetachAllKeeps
<1> QED BY <1>4, <1>7, <1>8

LEMMA ReloadKeeps ==
  ASSUME StoreInv, WorkInv, NEW p \in Proc, Reload(p)
  PROVE  StoreInv' /\ WorkInv' /\ ReadyStays
<1>1. /\ up[p] /\ db' = db /\ up' = up /\ clock' = clock /\ crashes' = crashes /\ calls' = calls
      /\ db \in Store /\ mem \in [Proc -> Store]
  BY DEF Reload, StoreInv
<1>2. PICK t \in Store : /\ mem' = [mem EXCEPT ![p] = t]
                        /\ SameUpToLease(t, db)
                        /\ fresh' = [fresh EXCEPT ![p] = TRUE]
  <2>1. CASE fresh[p]
    <3>1. Merged(mem[p]) \in Store /\ SameUpToLease(Merged(mem[p]), mem[p])
      BY <1>1, MergedType DEF SameUpToLease
    <3>2. SameUpToLease(mem[p], db)
      BY <2>1 DEF StoreInv, RevisionDeterminesContent
    <3>3. SameUpToLease(Merged(mem[p]), db)
      BY SMTT(30), <3>1, <3>2 DEF SameUpToLease, SameClaim
    <3>4. mem' = [mem EXCEPT ![p] = Merged(mem[p])] /\ fresh' = fresh
      BY <2>1 DEF Reload
    <3>5. fresh' = [fresh EXCEPT ![p] = TRUE]
      BY <2>1, <3>4 DEF StoreInv
    <3> QED BY <3>1, <3>3, <3>4, <3>5
  <2>2. CASE ~fresh[p]
    <3>1. mem' = [mem EXCEPT ![p] = db] /\ fresh' = [fresh EXCEPT ![p] = TRUE]
      BY <2>2 DEF Reload
    <3>2. SameUpToLease(db, db)
      BY DEF SameUpToLease, SameClaim
    <3> QED BY <1>1, <3>1, <3>2
  <2> QED BY <2>1, <2>2
<1>3. StoreInv' /\ ReadyStays
  BY SMTT(30), <1>1, <1>2 DEF StoreInv, RevisionDeterminesContent, CallsArePaid, ReadyHasLayers,
     AbsentHasNoAttempts, ReadyStays, SameUpToLease, SameClaim
<1>4. WorkInv'
  <2>1. CASE work' = work
    BY <1>1, <2>1 DEF WorkInv, ActiveWork
  <2>2. CASE DetachAll(p)
    BY <1>1, <2>2, DetachAllKeeps
  <2> QED BY <2>1, <2>2 DEF Reload
<1> QED BY <1>3, <1>4

LEMMA SealKeeps ==
  ASSUME StoreInv, WorkInv, NEW p \in Proc, NEW b \in Block, Seal(p, b)
  PROVE  StoreInv' /\ WorkInv' /\ ReadyStays
<1> DEFINE j == [NoJob EXCEPT !.status = "pending"]
           m == PutStatus(mem[p], b, "pending")
           s == PutJob(m, "summary", b, j)
<1>1. /\ up[p] /\ up' = up /\ clock' = clock /\ crashes' = crashes /\ calls' = calls
      /\ mem[p].status[b] = "absent" /\ mem[p] \in Store /\ "summary" \in Kind
  BY DEF Seal, StoreInv, Kind
<1>2. j \in Job /\ j.attempts = 0
  BY ConstantsAssumption DEF NoJob, Job, JobRecord, JobStatus
<1>3. \/ CanCommit(p, s) /\ Saved(p, s) /\ UNCHANGED work
      \/ Rejected /\ DetachAll(p)
  BY DEF Seal
<1> HIDE DEF j
<1>4. CASE CanCommit(p, s) /\ Saved(p, s) /\ UNCHANGED work
  <2>1. fresh[p]
    BY <1>4 DEF CanCommit
  <2>2. /\ m \in Store /\ m.status = [mem[p].status EXCEPT ![b] = "pending"]
        /\ m.layers = mem[p].layers /\ m.job = mem[p].job
    BY <1>1, PutStatusParts
  <2> HIDE DEF m
  <2>3. /\ s \in Store /\ s.status = m.status /\ s.layers = m.layers
        /\ \A l \in Kind, c \in Block :
             s.job[l][c] = IF l = "summary" /\ c = b THEN j ELSE m.job[l][c]
    BY <1>1, <1>2, <2>2, PutJobParts
  <2> HIDE DEF s
  <2>4. /\ mem[p].status = db.status /\ mem[p].layers = db.layers
        /\ \A l \in Kind, c \in Block : mem[p].job[l][c].attempts = calls[l][c]
    BY <2>1, FreshCopy
  <2>5. /\ calls \in [Kind -> [Block -> Nat]]
        /\ \A l \in Kind, c \in Block : calls[l][c] = db.job[l][c].attempts
        /\ \A l \in Kind, c \in Block : db.status[c] = "absent" => db.job[l][c].attempts = 0
        /\ \A c \in Block : db.status[c] = "ready" => db.layers[c] # "none"
    BY DEF StoreInv, CallsArePaid, AbsentHasNoAttempts, ReadyHasLayers
  <2>6. \A c \in Block : s.status[c] = IF c = b THEN "pending" ELSE db.status[c]
    BY <1>1, <2>2, <2>3, <2>4 DEF Store
  <2>7. \A l \in Kind, c \in Block : s.job[l][c].attempts = calls[l][c]
    BY <1>1, <1>2, <2>2, <2>3, <2>4, <2>5
  <2>8. \A c \in Block : /\ s.status[c] = "ready" => s.layers[c] # "none"
                         /\ db.status[c] = "ready" => s.status[c] = "ready"
    BY <1>1, <2>2, <2>3, <2>4, <2>5, <2>6
  <2>9. \A l \in Kind, c \in Block : s.status[c] = "absent" => s.job[l][c].attempts = 0
    BY <2>5, <2>6, <2>7
  <2>10. Sound(s)
    BY <1>1, <2>3, <2>5, <2>7, <2>8, <2>9 DEF Sound
  <2>11. WorkInv'
    BY <1>1, <1>4 DEF WorkInv, ActiveWork
  <2> QED BY <1>1, <1>4, <2>10, <2>11, SavedKeeps
<1>5. CASE Rejected /\ DetachAll(p)
  BY <1>1, <1>5, RejectedKeeps, DetachAllKeeps
<1> QED BY <1>3, <1>4, <1>5

LEMMA ManualRetryKeeps ==
  ASSUME StoreInv, WorkInv, NEW p \in Proc, NEW k \in Kind, NEW b \in Block, ManualRetry(p, k, b)
  PROVE  StoreInv' /\ WorkInv' /\ ReadyStays
<1> DEFINE j == Retried(k, mem[p].job[k][b])
           s == PutJob(mem[p], k, b, j)
<1>1. /\ up[p] /\ up' = up /\ clock' = clock /\ crashes' = crashes
      /\ mem[p].status[b] = "pending" /\ mem[p].job[k][b] \in Job
  BY DEF ManualRetry, StoreInv, Store
<1>2. j \in Job /\ j.attempts = 0
  BY <1>1, JobTypes, JobAttempts DEF WorkInv
<1>3. \/ CanCommit(p, s) /\ Saved(p, s) /\ calls' = [calls EXCEPT ![k][b] = 0] /\ UNCHANGED work
      \/ Rejected /\ DetachAll(p) /\ calls' = calls
  BY DEF ManualRetry
<1> HIDE DEF s, j
<1>4. CASE CanCommit(p, s) /\ Saved(p, s) /\ calls' = [calls EXCEPT ![k][b] = 0] /\ UNCHANGED work
  <2>1. fresh[p]
    BY <1>4 DEF CanCommit
  <2>2. Sound(s)
    BY <1>1, <1>2, <1>4, <2>1, BudgetSound DEF s
  <2>3. WorkInv'
    BY <1>1, <1>4 DEF WorkInv, ActiveWork
  <2> QED BY <1>1, <1>4, <2>2, <2>3, SavedKeeps
<1>5. CASE Rejected /\ DetachAll(p) /\ calls' = calls
  BY <1>1, <1>5, RejectedKeeps, DetachAllKeeps
<1> QED BY <1>3, <1>4, <1>5

LEMMA OtherMutationKeeps ==
  ASSUME StoreInv, WorkInv, NEW p \in Proc, OtherMutation(p)
  PROVE  StoreInv' /\ WorkInv' /\ ReadyStays
<1>1. /\ up[p] /\ up' = up /\ clock' = clock /\ crashes' = crashes /\ calls' = calls
      /\ mem[p] \in Store
  BY DEF OtherMutation, StoreInv
<1>2. CASE CanCommit(p, mem[p]) /\ Saved(p, mem[p]) /\ UNCHANGED work
  <2>1. Sound(mem[p])
    BY <1>1, <1>2, QuietSound DEF CanCommit
  <2>2. WorkInv'
    BY <1>1, <1>2 DEF WorkInv, ActiveWork
  <2> QED BY <1>1, <1>2, <2>1, <2>2, SavedKeeps
<1>3. CASE Rejected /\ DetachAll(p)
  BY <1>1, <1>3, RejectedKeeps, DetachAllKeeps
<1> QED BY <1>2, <1>3 DEF OtherMutation

LEMMA RejectedMutationKeeps ==
  ASSUME StoreInv, WorkInv, NEW p \in Proc, RejectedMutation(p)
  PROVE  StoreInv' /\ WorkInv' /\ ReadyStays
  BY RejectedKeeps, DetachAllKeeps DEF RejectedMutation

\* A process that dies loses its copy, which is why a copy counts only while it is fresh.
LEMMA CrashKeeps ==
  ASSUME StoreInv, WorkInv, NEW p \in Proc, Crash(p)
  PROVE  StoreInv' /\ WorkInv' /\ ReadyStays
<1>1. EmptyStore \in Store
  <2>1. NoJob \in Job
    BY ConstantsAssumption DEF NoJob, Job, JobRecord, JobStatus
  <2> QED BY <2>1 DEF EmptyStore, Store, Layers
<1>2. Idle \in Activation /\ Idle.pc = "idle" /\ Idle.attached = FALSE
  BY ConstantsAssumption DEF Idle, Activation, Layers
<1>3. StoreInv' /\ ReadyStays
  BY <1>1 DEF Crash, StoreInv, RevisionDeterminesContent, CallsArePaid, ReadyHasLayers,
     AbsentHasNoAttempts, ReadyStays, SameUpToLease
<1>4. WorkInv'
  BY <1>2 DEF Crash, WorkInv, ActiveWork
<1> QED BY <1>3, <1>4

LEMMA OpenKeeps ==
  ASSUME StoreInv, WorkInv, NEW p \in Proc, Open(p)
  PROVE  StoreInv' /\ WorkInv' /\ ReadyStays
<1>1. SameUpToLease(db, db)
  BY DEF SameUpToLease, SameClaim
<1>2. StoreInv' /\ ReadyStays
  BY <1>1 DEF Open, StoreInv, RevisionDeterminesContent, CallsArePaid, ReadyHasLayers,
     AbsentHasNoAttempts, ReadyStays
<1>3. WorkInv'
  BY DEF Open, WorkInv, ActiveWork
<1> QED BY <1>2, <1>3

LEMMA UnchangedKeeps ==
  ASSUME StoreInv, WorkInv, UNCHANGED <<db, mem, fresh, up, work, crashes, calls>>, clock' \in Nat
  PROVE  StoreInv' /\ WorkInv' /\ ReadyStays
  BY RejectedKeeps DEF Rejected, WorkInv, ActiveWork

-----------------------------------------------------------------------------
(* Theorems *)

LEMMA InitEstablishes == Init => IInv
<1> SUFFICES ASSUME Init PROVE IInv
  OBVIOUS
<1>1. NoJob \in Job /\ NoJob.attempts = 0
  BY ConstantsAssumption DEF NoJob, Job, JobRecord, JobStatus
<1>2. EmptyStore \in Store
  BY <1>1 DEF EmptyStore, Store, Layers
<1>3. Idle \in Activation /\ Idle.pc = "idle" /\ Idle.attached = FALSE
  BY ConstantsAssumption DEF Idle, Activation, Layers
<1>4. SameUpToLease(EmptyStore, EmptyStore)
  BY DEF SameUpToLease, SameClaim
<1>5. TypeOK
  BY <1>2, <1>3 DEF Init, TypeOK
<1>6. RevisionDeterminesContent
  BY <1>4 DEF Init, RevisionDeterminesContent
<1>7. \A k \in Kind, b \in Block : db.job[k][b].attempts = 0 /\ calls[k][b] = 0
  BY <1>1 DEF Init, EmptyStore
<1>8. CallsArePaid /\ AbsentHasNoAttempts
  BY <1>7, ConstantsAssumption DEF CallsArePaid, AbsentHasNoAttempts
<1>9. ReadyHasLayers /\ ActiveWork
  BY <1>3 DEF Init, EmptyStore, ReadyHasLayers, ActiveWork
<1> QED BY <1>5, <1>6, <1>8, <1>9 DEF IInv

\* Every step keeps the invariant and the readiness of every Block.
LEMMA StepKeeps ==
  ASSUME IInv, [Next]_vars
  PROVE  IInv' /\ ReadyStays
<1> USE Parts
<1> SUFFICES StoreInv' /\ WorkInv' /\ ReadyStays
  BY DEF IInv, TypeOK, StoreInv, WorkInv
<1>0. StoreInv /\ WorkInv
  OBVIOUS
<1>1. ASSUME NEW p \in Proc, NEW w \in Worker, Activity(p, w)
      PROVE  StoreInv' /\ WorkInv' /\ ReadyStays
  BY <1>0, <1>1, ClaimSummaryKeeps, PickSummarizedKeeps, FinishSummaryKeeps, FailSummaryKeeps,
     SkipExtractionKeeps, ClaimExtractionKeeps, FinishExtractionKeeps, FailExtractionKeeps,
     RenewKeeps DEF Activity
<1>2. ASSUME NEW p \in Proc, Maintenance(p)
      PROVE  StoreInv' /\ WorkInv' /\ ReadyStays
  BY <1>0, <1>2, RecoverKeeps, ReloadKeeps, SealKeeps, ManualRetryKeeps, OtherMutationKeeps,
     RejectedMutationKeeps, CrashKeeps, OpenKeeps DEF Maintenance
<1>3. CASE Tick
  BY <1>0, <1>3, UnchangedKeeps DEF Tick, WorkInv
<1>4. CASE UNCHANGED vars
  BY <1>0, <1>4, UnchangedKeeps DEF vars, WorkInv
<1> QED BY <1>1, <1>2, <1>3, <1>4 DEF Next

\* The inductive invariant holds in every reachable state.
LEMMA Invariance == Spec => []IInv
<1>1. IInv /\ [Next]_vars => IInv'
  BY StepKeeps
<1> QED BY InitEstablishes, <1>1, PTL DEF Spec

\* Every variable keeps its type: no job ever has more attempts than
\* DERIVATION_MAX_ATTEMPTS, and a job without attempts is the only one without status.
THEOREM TypeCorrect == Spec => []TypeOK
<1>1. IInv => TypeOK
  BY DEF IInv
<1> QED BY Invariance, <1>1, PTL

\* The revision check of persistSnapshot suffices: an instance whose revision is the
\* durable one holds the durable content, however heartbeats, rollbacks, reloads and
\* crashes of any number of processes interleave.
THEOREM RevisionCoherence == Spec => []RevisionDeterminesContent
<1>1. IInv => RevisionDeterminesContent
  BY DEF IInv
<1> QED BY Invariance, <1>1, PTL

\* Model calls are bounded by the durable retry budget, across processes and crashes.
THEOREM BudgetRespected == Spec => []CallsArePaid
<1>1. IInv => CallsArePaid
  BY DEF IInv
<1> QED BY Invariance, <1>1, PTL

\* A Block that became ready, and may have replaced native history, stays ready over
\* its layers, even when late heartbeats let claims be taken over.
THEOREM Readiness == Spec => ReadyIsFinal
<1>1. IInv /\ [Next]_vars => [ReadyStays]_vars
  BY StepKeeps
<1>2. ReadyStays => (\A b \in Block : db.status[b] = "ready" =>
                       db'.status[b] = "ready" /\ db'.layers[b] # "none")
  BY DEF ReadyStays
<1> QED BY Invariance, <1>1, <1>2, PTL DEF Spec, ReadyIsFinal
=============================================================================
