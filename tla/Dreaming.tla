------------------------------- MODULE Dreaming -------------------------------
(***************************************************************************)
(* Dreaming: an Agent that a user starts to go through the directory and   *)
(* tidy its chapters up, batch by batch.  The run is a durable record in   *)
(* the directory; a process works on it under a claim (run, owner, epoch   *)
(* and a lease) and reserves the directory while it lasts.  An attempt of  *)
(* the background projection that was running when Dreaming started is let *)
(* finish first.                                                           *)
(*                                                                         *)
(* Extends Topics with the run; the Agent's texts, its tools' paging and   *)
(* the token accounting are left out.                                      *)
(*                                                                         *)
(* Sources: packages/core/src/dreaming.ts; src/runtime.ts and              *)
(* src/dreaming-session.ts (who holds a claim).                            *)
(***************************************************************************)
EXTENDS Topics, SequencesExt

CONSTANTS
  DreamProc,   \* processes in which a user may control Dreaming
  WriteLimit,  \* DREAMING_BATCH_WRITE_LIMIT
  MaxRuns,     \* bound: Dreaming runs
  MaxClaims    \* bound: claims of one run

ASSUME DreamConstants ==
  WriteLimit \in Nat \ {0} /\ MaxRuns \in Nat /\ MaxClaims \in Nat

VARIABLES
  claims,  \* claims[p]: the claims that code in process p still works under
  issued,  \* history: the claim a user granted last and has not ended since, in a set
  writer   \* history: who made the last change of a chapter in Dreaming

dreamVars == <<claims, issued, writer>>
allVars == <<topicVars, dreamVars>>

Claims == [proc: DreamProc, run: 1..MaxRuns, epoch: 1..MaxClaims]
Unit == [topic: Nat, evs: SUBSET TopicEvent]

DreamTypeOK ==
  /\ TopicTypeOK
  /\ claims \in [DreamProc -> SUBSET Claims]
  /\ issued \in SUBSET Claims /\ Cardinality(issued) <= 1 /\ writer \in SUBSET Claims
  /\ dream.run \in 0..MaxRuns /\ dream.epoch \in Nat /\ dream.owner \in SUBSET DreamProc
  /\ dream.leased \in BOOLEAN /\ dream.replan \in BOOLEAN
  /\ dream.units \in Seq(Unit) /\ dream.cursor \in 1..(Len(dream.units) + 1)
  /\ dream.frozen \in Versions /\ dream.evid \in Versions /\ dream.held \subseteq Topic
  /\ dream.writes \in 0..WriteLimit

-----------------------------------------------------------------------------
\* planUnits: the chapters that can be read, one batch each (TopicBatch exceeds them here).
Planned ==
  LET ready == {t \in topics : ~t.invalid /\ t.members # {} /\ t.members \subseteq Visible}
  IN {[topic |-> t.id, evs |-> t.members] : t \in ready}

Plan(d, units) == [d EXCEPT !.units = units, !.frozen = ver, !.waiting = FALSE]
Draining == \E j \in Running : j.leased

Commit(d) ==
  /\ dream' = d
  /\ UNCHANGED <<ver, topics, topicJobs, projected, rebuild, frozen, opened, used, hand,
                 edits, regranted>>

Paused(d) == [d EXCEPT !.status = "paused", !.leased = FALSE]
Replanned(d) == [Paused(d) EXCEPT !.replan = TRUE]

\* start: the directory is reserved at once.
StartDream(p) ==
  LET d == [NoDream EXCEPT !.status = "running", !.run = dream.run + 1, !.epoch = 1,
                             !.owner = {p}, !.leased = TRUE]
      c == [proc |-> p, run |-> dream.run + 1, epoch |-> 1]
  IN /\ ~DreamReserves /\ dream.run < MaxRuns
     /\ Planned # {} \/ Draining
     /\ \E units \in SetToSeqs(Planned) : Commit([Plan(d, units) EXCEPT !.waiting = Draining])
     /\ claims' = [claims EXCEPT ![p] = @ \cup {c}]
     /\ issued' = {c} /\ UNCHANGED writer

Batch == dream.units[dream.cursor]
Chapter == {t \in topics : t.id = Batch.topic /\ ~t.invalid}
Unchanged(es) == \A e \in es : ver[e] # 0 /\ ver[e] = dream.frozen[e]
InPlan == dream.cursor <= Len(dream.units)

\* resume, by hand, of a paused run or of one whose holder has gone: a new epoch.
ResumeDream(p) ==
  LET c == [proc |-> p, run |-> dream.run, epoch |-> dream.epoch + 1] IN
  /\ dream.status = "paused" \/ (dream.status \in {"running", "pausing"} /\ ~dream.leased)
  /\ ~dream.replan /\ dream.epoch < MaxClaims
  /\ IF ~dream.waiting /\ dream.held # {} /\ (Chapter # dream.held \/ ~Unchanged(Batch.evs))
     THEN Commit(Replanned(dream)) /\ UNCHANGED <<claims, issued>>
     ELSE /\ Commit([dream EXCEPT !.status = "running", !.owner = {p}, !.epoch = @ + 1,
                                  !.leased = TRUE, !.writes = 0])
          /\ claims' = [claims EXCEPT ![p] = @ \cup {c}]
          /\ issued' = {c}
  /\ UNCHANGED writer

PauseDream ==
  dream.status = "running" /\ Commit([dream EXCEPT !.status = "pausing"]) /\ UNCHANGED dreamVars

\* terminate: whatever is still under way is cut off by the epoch.
TerminateDream ==
  /\ DreamReserves
  /\ Commit([dream EXCEPT !.status = "terminated", !.epoch = @ + 1, !.leased = FALSE])
  /\ issued' = {} /\ UNCHANGED <<claims, writer>>

\* Faulty variant: any claim of the run will do.
HoldsTheRun(c) ==
  /\ dream.run = c.run /\ dream.status \in {"running", "pausing"} /\ dream.leased

\* The fence of every command of an Agent.
HoldsClaim(c) ==
  /\ dream.run = c.run /\ dream.owner = {c.proc} /\ dream.epoch = c.epoch
  /\ dream.status \in {"running", "pausing"} /\ dream.leased

\* What any command but a checkpoint does first while a pause is wanted.
Settles(c) == HoldsClaim(c) /\ dream.status = "pausing" /\ Commit(Paused(dream)) /\ UNCHANGED dreamVars

\* prepare: once the projection has drained, the plan is made anew; then the next batch is
\* opened, unless its chapter or its Events are not what they were.  Events short enough to
\* be shown whole with the batch count as read.
PrepareBatch(c) ==
  /\ HoldsClaim(c) /\ dream.status = "running"
  /\ dream.waiting => ~Draining
  /\ \E units \in IF dream.waiting THEN SetToSeqs(Planned) ELSE {dream.units} :
       LET d == IF dream.waiting THEN Plan(dream, units) ELSE dream
           b == d.units[d.cursor]
           chapter == {t \in topics : t.id = b.topic /\ ~t.invalid}
       IN IF units = <<>> THEN Commit([d EXCEPT !.status = "completed", !.leased = FALSE])
          ELSE IF \/ chapter = {} \/ \E e \in b.evs : ver[e] = 0 \/ ver[e] # d.frozen[e]
                  \/ d.held \notin {{}, chapter}
          THEN Commit(Replanned(d))
          ELSE \E short \in SUBSET b.evs :
                 Commit([d EXCEPT !.held = chapter, !.writes = IF d.held = {} THEN 0 ELSE @,
                                  !.evid = Under(IF d.held = {} THEN Nothing ELSE @, Now(short))])
  /\ UNCHANGED dreamVars

\* checkpoint: an Event has been read to its end, in the batch or beyond it.
ReadEvent(c, e) ==
  /\ HoldsClaim(c) /\ ~dream.waiting /\ InPlan /\ Chapter # {}
  /\ Unchanged(Batch.evs) /\ Unchanged({e})
  /\ LET d == [dream EXCEPT !.evid[e] = dream.frozen[e]]
     IN Commit(IF dream.status = "pausing" THEN Paused(d) ELSE d)
  /\ UNCHANGED dreamVars

IsLastWrite(n) == n = WriteLimit

\* What the Agent was shown besides: the Events of the run in lists and search results, and the
\* other chapters with their prose.  Showing it makes nothing a dependency.
Glimpsed ==
  [e \in TopicEvent |-> Max({IF Unchanged({e}) THEN ver[e] ELSE 0}
                              \cup {t.read[e] : t \in {x \in topics : ~x.invalid}})]

\* apply: one chapter is changed, and from now on depends on all that was read to its end for
\* it; what it says may rest on more.
ApplyEdit(c) ==
  /\ HoldsClaim(c) /\ dream.status = "running" /\ ~dream.waiting /\ InPlan
  /\ Unchanged(Batch.evs) /\ dream.held # {} /\ Chapter = dream.held
  /\ CurrentIn(ver, dream.evid)
  /\ LET t == CHOOSE x \in dream.held : TRUE
         edited == [t EXCEPT !.edit = @ + 1, !.dep = Under(@, dream.evid),
                             !.read = Under(Under(@, Glimpsed), dream.evid)]
     IN /\ dream' = [dream EXCEPT !.held = {edited}, !.writes = @ + 1,
                                  !.status = IF IsLastWrite(dream.writes + 1) THEN "pausing" ELSE @]
        /\ SyncTo(ver, (topics \ {t}) \cup {edited}, topicJobs, projected, rebuild)
  /\ writer' = {c}
  /\ UNCHANGED <<frozen, opened, used, hand, edits, regranted, claims, issued>>

\* finish-unit: after all its Events have been read.
FinishBatch(c) ==
  /\ HoldsClaim(c) /\ dream.status = "running" /\ ~dream.waiting /\ InPlan
  /\ Unchanged(Batch.evs) /\ dream.held # {} /\ Chapter = dream.held
  /\ \A e \in Batch.evs : dream.evid[e] = dream.frozen[e]
  /\ LET d == [dream EXCEPT !.cursor = @ + 1, !.held = {}, !.evid = Nothing, !.writes = 0]
     IN Commit(IF d.cursor > Len(d.units) THEN [d EXCEPT !.status = "completed", !.leased = FALSE]
               ELSE d)
  /\ UNCHANGED dreamVars

\* suspend: the Agent stops, fails, idles too long, or its chapter has changed under it.
Suspend(c) ==
  /\ HoldsClaim(c)
  /\ \E conflict \in BOOLEAN :
       /\ conflict => ~dream.waiting /\ InPlan /\ (Chapter # dream.held \/ ~Unchanged(Batch.evs)
                                                   \/ ~CurrentIn(ver, dream.evid))
       /\ Commit(IF conflict THEN Replanned(dream) ELSE Paused(dream))
  /\ UNCHANGED dreamVars

\* Code that finds its claim gone ends; a process may also die.
EndTask(p) ==
  /\ \E c \in claims[p] : ~HoldsClaim(c) /\ claims' = [claims EXCEPT ![p] = @ \ {c}]
  /\ UNCHANGED <<topicVars, issued, writer>>
DreamCrash(p) ==
  claims[p] # {} /\ claims' = [claims EXCEPT ![p] = {}] /\ UNCHANGED <<topicVars, issued, writer>>

\* Heartbeats keep the lease; it may end all the same.
DreamLeaseEnds ==
  dream.leased /\ Commit([dream EXCEPT !.leased = FALSE]) /\ UNCHANGED dreamVars

-----------------------------------------------------------------------------
DreamInit ==
  /\ TopicInit
  /\ claims = [p \in DreamProc |-> {}] /\ issued = {} /\ writer = {}

Prepares(c) == Settles(c) \/ PrepareBatch(c)
Orphaned == ~\E p \in DreamProc : \E c \in claims[p] : HoldsClaim(c)

DreamNext ==
  \/ TopicNext /\ UNCHANGED dreamVars
  \/ \E p \in DreamProc :
       \/ StartDream(p) \/ ResumeDream(p) \/ EndTask(p) \/ DreamCrash(p)
       \/ \E c \in claims[p] :
            \/ Prepares(c) \/ ApplyEdit(c) \/ FinishBatch(c) \/ Suspend(c)
            \/ \E e \in TopicEvent : ReadEvent(c, e)
  \/ PauseDream \/ TerminateDream \/ DreamLeaseEnds

DreamSpec == DreamInit /\ [][DreamNext]_allVars

-----------------------------------------------------------------------------
(* Properties *)

\* From the end of the wait to the end of the run, pauses included, a chapter changes by an
\* edit under the claim the user granted last, or because an Event changed: neither a late
\* answer of the background projection, nor a new attempt of it, nor the Agent of a claim
\* that was terminated or resumed elsewhere gets in between.
DirectoryIsReserved ==
  [][dream.status \in {"running", "pausing", "paused"} /\ ~dream.waiting /\ topics' # topics =>
       ver' # ver \/ (writer' = issued /\ dream'.writes > dream.writes)]_allVars
=============================================================================
