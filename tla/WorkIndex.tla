------------------------------ MODULE WorkIndex ------------------------------
(***************************************************************************)
(* How background work is found (sqlite.ts, runtime.ts): a table says of   *)
(* every namespace when work is due, derived from its records. A save of   *)
(* the package writes the rows with the records. Any other write, by an    *)
(* older client or plain SQL, only leaves a mark with a new generation by  *)
(* a trigger; a worker's next pass derives marked namespaces again, in     *)
(* steps, and keeps the result only if the generation is still the one it  *)
(* began with. The workers poll, and are woken by saves of their process.  *)
(***************************************************************************)
EXTENDS Integers, Sequences, FiniteSets

CONSTANTS Space, WorkProc,
          Batch,            \* rebuildBackgroundWorkIndex(8)
          MaxGeneration,    \* bounds the writes that leave a mark
          ControlIsCut      \* a host may die between its two commits of a graph setting

ASSUME WorkIndexAssumption == Batch \in Nat \ {0} /\ MaxGeneration \in Nat

VARIABLES record,     \* per namespace: the jobs' own wake, and Events not covered by a graph job
          graphOn,    \* the graph setting, in a table no trigger watches
          due, mark,  \* background_work_schedule and background_work_dirty
          generation, worker
indexVars == <<record, graphOn, due, mark, generation, worker>>

Wakes == {"now", "later", "never"}
Record == [jobs : Wakes, uncovered : BOOLEAN]

\* backgroundWorkTimes: an approved Event without a job is due at once, a job when it says.
WakeOf(r, on) == IF on /\ r.uncovered THEN "now" ELSE r.jobs

Clean == [generation |-> 0, cooling |-> FALSE]
Marked(g) == [generation |-> g, cooling |-> FALSE]
Ready(n) == mark[n].generation # 0 /\ ~mark[n].cooling

Resting == [timer |-> "later", stage |-> "rest", pending |-> FALSE, keys |-> {}, read |-> "never",
            found |-> {}, control |-> FALSE, told |-> FALSE]

WakeOnlyAtRest(w) ==
  IF w.stage # "rest" THEN [w EXCEPT !.told = TRUE] ELSE [w EXCEPT !.timer = "now", !.told = TRUE]

\* A timer that is set is moved to now; a pass that runs is followed by another one.
WakeBackgroundWorker(w) ==
  IF w.stage # "rest" THEN [w EXCEPT !.timer = "none", !.pending = TRUE, !.told = TRUE]
  ELSE [w EXCEPT !.timer = "now", !.told = TRUE]

Notified(p) == worker' = [worker EXCEPT ![p] = WakeBackgroundWorker(@)]

-----------------------------------------------------------------------------
(* Writers.                                                                *)

\* A save of the package: records, rows and marks in one transaction.
Save(p, n) ==
  /\ \E r \in Record \ {record[n]} : record' = [record EXCEPT ![n] = r]
  /\ due' = [due EXCEPT ![n] = WakeOf(record'[n], graphOn)]
  /\ mark' = [mark EXCEPT ![n] = Clean]
  /\ Notified(p)
  /\ UNCHANGED <<graphOn, generation>>

\* The triggers: a new generation, and a cooldown ends.
DirectWrite(n) ==
  /\ generation < MaxGeneration
  /\ \E r \in Record \ {record[n]} : record' = [record EXCEPT ![n] = r]
  /\ generation' = generation + 1
  /\ mark' = [mark EXCEPT ![n] = Marked(generation')]
  /\ UNCHANGED <<graphOn, due, worker>>

\* A graph setting is one commit, the marks of all namespaces are the next.
AdminGraphControl(p) ==
  /\ ~worker[p].control /\ generation < MaxGeneration
  /\ graphOn' = ~graphOn
  /\ worker' = [worker EXCEPT ![p].control = TRUE]
  /\ UNCHANGED <<record, due, mark, generation>>

RebuildBackgroundWorkSchedule(p) ==
  /\ worker[p].control
  /\ generation' = generation + 1
  /\ mark' = [n \in Space |-> Marked(generation')]
  /\ due' = [n \in Space |-> "never"]
  /\ worker' = [worker EXCEPT ![p] = WakeBackgroundWorker([@ EXCEPT !.control = FALSE])]
  /\ UNCHANGED <<record, graphOn>>

-----------------------------------------------------------------------------
(* A pass of the worker.                                                   *)

Fire(p) ==
  /\ worker[p].stage = "rest" /\ worker[p].timer # "none"
  /\ \E keys \in SUBSET {[space |-> n, generation |-> mark[n].generation] : n \in {m \in Space : Ready(m)}} :
       /\ Cardinality(keys) <= Batch
       /\ Cardinality(keys) < Batch => Cardinality(keys) = Cardinality({n \in Space : Ready(n)})
       /\ worker' = [worker EXCEPT ![p].timer = "none", ![p].stage = "rebuild", ![p].keys = keys]
  /\ UNCHANGED <<record, graphOn, due, mark, generation>>

\* The models are not ready, or marks or due times cannot be read: the pass ends before it has
\* listed anything, and what it was told waits for the next poll.
PassEnds(p) ==
  /\ \/ worker[p].stage = "rest" /\ worker[p].timer # "none"
     \/ worker[p].stage = "rebuild"
  /\ worker' = [worker EXCEPT ![p].stage = "rest", ![p].keys = {}, ![p].pending = FALSE,
                              ![p].timer = IF worker[p].pending THEN "now" ELSE "later",
                              ![p].told = @ /\ worker[p].pending]
  /\ UNCHANGED <<record, graphOn, due, mark, generation>>

\* The jobs are read first, the Events over several turns of the event loop.
ReadJobs(p) ==
  /\ worker[p].stage = "rebuild"
  /\ \E key \in worker[p].keys :
       worker' = IF mark[key.space].generation = 0
                 THEN [worker EXCEPT ![p].keys = @ \ {key}]
                 ELSE [worker EXCEPT ![p].stage = "events", ![p].keys = {key} \cup @, ![p].read = record[key.space].jobs,
                                     ![p].found = {key.space}]
  /\ UNCHANGED <<record, graphOn, due, mark, generation>>

Current(p) == CHOOSE key \in worker[p].keys : key.space \in worker[p].found
KeyDone(p) == worker' = [worker EXCEPT ![p].stage = "rebuild", ![p].keys = @ \ {Current(p)}, ![p].found = {}, ![p].read = "never"]

WriteBackgroundWorkTimesAnyway(p) ==
  LET key == Current(p) IN
  /\ due' = [due EXCEPT ![key.space] = WakeOf([jobs |-> worker[p].read, uncovered |-> record[key.space].uncovered], graphOn)]
  /\ mark' = [mark EXCEPT ![key.space] = Clean]

\* What was read is kept only if nobody wrote since the pass took the key.
WriteBackgroundWorkTimes(p) ==
  LET key == Current(p) IN
  IF mark[key.space].generation = key.generation
  THEN /\ due' = [due EXCEPT ![key.space] = WakeOf([jobs |-> worker[p].read, uncovered |-> record[key.space].uncovered], graphOn)]
       /\ mark' = [mark EXCEPT ![key.space] = Clean]
  ELSE UNCHANGED <<due, mark>>

KeepTimes(p) ==
  /\ worker[p].stage = "events"
  /\ WriteBackgroundWorkTimes(p)
  /\ KeyDone(p)
  /\ UNCHANGED <<record, graphOn, generation>>

\* Records that cannot be read cool down for a minute; a write ends that.
RebuildFails(p) ==
  /\ worker[p].stage = "events"
  /\ LET key == Current(p)
     IN mark' = IF mark[key.space].generation = key.generation THEN [mark EXCEPT ![key.space].cooling = TRUE] ELSE mark
  /\ KeyDone(p)
  /\ UNCHANGED <<record, graphOn, due, generation>>

CoolsDown(n) ==
  /\ mark[n].cooling
  /\ mark' = [mark EXCEPT ![n].cooling = FALSE]
  /\ UNCHANGED <<record, graphOn, due, generation, worker>>

\* Namespaces that wait for a rebuild are not listed; marks that are left wake the next pass.
DueBackgroundNamespaces(p) ==
  /\ worker[p].stage = "rebuild" /\ worker[p].keys = {}
  /\ \E later \in BOOLEAN :
       worker' = [worker EXCEPT ![p].stage = "run", ![p].told = FALSE, ![p].pending = @ \/ \E n \in Space : Ready(n),
                                ![p].found = {n \in Space : mark[n].generation = 0 /\ due[n] \in (IF later THEN {"now", "later"} ELSE {"now"})}]
  /\ UNCHANGED <<record, graphOn, due, mark, generation>>

\* One namespace: its work is done and saved, or it is busy, or nothing can run after all.
RunBackgroundNamespace(p, n) ==
  /\ worker[p].stage = "run" /\ n \in worker[p].found
  /\ \/ /\ worker' = [worker EXCEPT ![p].found = @ \ {n}]
        /\ UNCHANGED <<record, due, mark>>
     \/ /\ \E jobs \in {"later", "never"} : record' = [record EXCEPT ![n] = [jobs |-> jobs, uncovered |-> record[n].uncovered /\ ~graphOn]]
        /\ due' = [due EXCEPT ![n] = WakeOf(record'[n], graphOn)]
        /\ mark' = [mark EXCEPT ![n] = Clean]
        /\ worker' = [worker EXCEPT ![p] = WakeBackgroundWorker([worker[p] EXCEPT !.found = @ \ {n}])]
  /\ UNCHANGED <<graphOn, generation>>

ScheduleBackgroundWorker(p) ==
  /\ worker[p].stage = "run" /\ worker[p].found = {}
  /\ worker' = [worker EXCEPT ![p].stage = "rest", ![p].pending = FALSE,
                              ![p].timer = IF worker[p].pending THEN "now" ELSE "later"]
  /\ UNCHANGED <<record, graphOn, due, mark, generation>>

\* The host dies and is started again.
Restart(p) ==
  /\ worker[p] # Resting
  /\ worker[p].control => ControlIsCut
  /\ worker' = [worker EXCEPT ![p] = Resting]
  /\ UNCHANGED <<record, graphOn, due, mark, generation>>

\* The first start with this version of the table marks everything.
InitializeBackgroundWorkIndex ==
  /\ generation = 1
  /\ due = [n \in Space |-> "never"] /\ mark = [n \in Space |-> Marked(1)]

IndexInit ==
  /\ record \in [Space -> Record]
  /\ graphOn = FALSE
  /\ worker = [p \in WorkProc |-> Resting]
  /\ \/ InitializeBackgroundWorkIndex
     \/ /\ generation = 0
        /\ due = [n \in Space |-> WakeOf(record[n], graphOn)] /\ mark = [n \in Space |-> Clean]

IndexNext ==
  \/ \E n \in Space : DirectWrite(n) \/ CoolsDown(n)
  \/ \E p \in WorkProc :
       \/ AdminGraphControl(p) \/ RebuildBackgroundWorkSchedule(p)
       \/ Fire(p) \/ PassEnds(p) \/ ReadJobs(p) \/ KeepTimes(p) \/ RebuildFails(p) \/ DueBackgroundNamespaces(p)
       \/ ScheduleBackgroundWorker(p) \/ Restart(p)
       \/ \E n \in Space : Save(p, n) \/ RunBackgroundNamespace(p, n)

IndexSpec == IndexInit /\ [][IndexNext]_indexVars

-----------------------------------------------------------------------------
(* Properties.                                                             *)

\* What no mark questions is what the records say: the index never hides work
\* that is due, whoever wrote and however far a rebuild got.
IndexIsHonest ==
  (\A p \in WorkProc : ~worker[p].control) =>
    \A n \in Space : mark[n].generation = 0 => due[n] = WakeOf(record[n], graphOn)

\* News of this process is never slept on: after a save here, the worker is about
\* to list the namespaces, or lists them again at once; or it tried and could not
\* (no models, an unreadable table), and then polls.
NewsIsHeard ==
  \A p \in WorkProc : worker[p].told =>
    worker[p].pending \/ worker[p].timer = "now" \/ worker[p].stage \in {"rebuild", "events"}

=============================================================================
