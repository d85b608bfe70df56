----------------------------- MODULE ServiceProofs -----------------------------
(***************************************************************************)
(* Proofs about what serves a namespace. WorkIndex, for any number of      *)
(* namespaces and workers, any batch and any number of writes: the table   *)
(* never hides work where there is no mark, and no worker sleeps on the    *)
(* news of its own process. RawIndex, for any number of messages, words    *)
(* and processes: a search misses no sealed message, in any mix of writers *)
(* that know the index, that do not, and that only leave marks. ModelCalls,*)
(* for any tasks, Blocks, replies and limits: what a task hands back is    *)
(* whole.                                                                  *)
(***************************************************************************)
EXTENDS WorkIndex, RawIndex, ModelCalls, SequenceTheorems, TLAPS

(* WorkIndex *)

Key == [space : Space, generation : Nat \ {0}]
WorkerType == [timer : {"now", "later", "none"}, stage : {"rest", "rebuild", "events", "run"}, pending : BOOLEAN,
               keys : SUBSET Key, read : Wakes, found : SUBSET Space, control : BOOLEAN, told : BOOLEAN]
MarkType == [generation : Nat, cooling : BOOLEAN]

TablesOK ==
  /\ record \in [Space -> Record] /\ graphOn \in BOOLEAN /\ due \in [Space -> Wakes]
  /\ mark \in [Space -> MarkType] /\ generation \in Nat

IndexTypeOK == TablesOK /\ worker \in [WorkProc -> WorkerType]

\* A pass that is under way has taken its timer, and news reaches the next listing.
Heard(w) ==
  /\ w.stage # "rest" => w.timer = "none"
  /\ w.told => w.pending \/ w.timer = "now" \/ w.stage \in {"rebuild", "events"}

WorkersOK == worker \in [WorkProc -> WorkerType] /\ \A p \in WorkProc : Heard(worker[p])

\* The steps of one worker's pass.
Fired(w, keys) == [w EXCEPT !.timer = "none", !.stage = "rebuild", !.keys = keys]
Skipped(w, key) == [w EXCEPT !.keys = @ \ {key}]
Taken(w, key, jobs) == [w EXCEPT !.stage = "events", !.keys = {key} \cup @, !.read = jobs, !.found = {key.space}]
Finished(w, key) == [w EXCEPT !.stage = "rebuild", !.keys = @ \ {key}, !.found = {}, !.read = "never"]
Listed(w, pending, found) == [w EXCEPT !.stage = "run", !.told = FALSE, !.pending = pending, !.found = found]
Left(w, n) == [w EXCEPT !.found = @ \ {n}]
Rested(w) == [w EXCEPT !.stage = "rest", !.pending = FALSE, !.timer = IF w.pending THEN "now" ELSE "later"]
Ended(w) ==
  [w EXCEPT !.stage = "rest", !.keys = {}, !.pending = FALSE, !.timer = IF w.pending THEN "now" ELSE "later",
            !.told = w.told /\ w.pending]
InControl(w, b) == [w EXCEPT !.control = b]

ReadyKeys == {[space |-> n, generation |-> mark[n].generation] : n \in {m \in Space : Ready(m)}}

-----------------------------------------------------------------------------
(* Types *)

\* Each step leaves a worker a worker, to whom no news is lost.
LEMMA StepsKeepWorkers ==
  ASSUME NEW w \in WorkerType, Heard(w)
  PROVE  /\ WakeBackgroundWorker(w) \in WorkerType /\ Heard(WakeBackgroundWorker(w))
         /\ \A b \in BOOLEAN : InControl(w, b) \in WorkerType /\ Heard(InControl(w, b))
         /\ \A keys \in SUBSET Key : Fired(w, keys) \in WorkerType /\ Heard(Fired(w, keys))
         /\ \A key \in Key : Skipped(w, key) \in WorkerType /\ Heard(Skipped(w, key))
         /\ w.stage = "rebuild" => \A key \in Key, jobs \in Wakes : 
              Taken(w, key, jobs) \in WorkerType /\ Heard(Taken(w, key, jobs))
         /\ w.stage = "events" => \A key : Finished(w, key) \in WorkerType /\ Heard(Finished(w, key))
         /\ w.stage = "rebuild" => \A pending \in BOOLEAN, found \in SUBSET Space :
              Listed(w, pending, found) \in WorkerType /\ Heard(Listed(w, pending, found))
         /\ \A n \in Space : Left(w, n) \in WorkerType /\ Heard(Left(w, n))
         /\ w.stage = "run" => Rested(w) \in WorkerType /\ Heard(Rested(w))
         /\ Ended(w) \in WorkerType /\ Heard(Ended(w))
<1> USE DEF WorkerType, Heard
<1>1. WakeBackgroundWorker(w) \in WorkerType /\ Heard(WakeBackgroundWorker(w))
  BY DEF WakeBackgroundWorker
<1>2. \A b \in BOOLEAN : InControl(w, b) \in WorkerType /\ Heard(InControl(w, b))
  BY DEF InControl
<1>3. \A keys \in SUBSET Key : Fired(w, keys) \in WorkerType /\ Heard(Fired(w, keys))
  BY DEF Fired
<1>4. \A key \in Key : Skipped(w, key) \in WorkerType /\ Heard(Skipped(w, key))
  BY DEF Skipped
<1>5. ASSUME w.stage = "rebuild", NEW key \in Key, NEW jobs \in Wakes
      PROVE  Taken(w, key, jobs) \in WorkerType /\ Heard(Taken(w, key, jobs))
  BY <1>5 DEF Taken, Key
<1>6. ASSUME w.stage = "events", NEW key PROVE Finished(w, key) \in WorkerType /\ Heard(Finished(w, key))
  BY <1>6 DEF Finished, Wakes
<1>7. ASSUME w.stage = "rebuild", NEW pending \in BOOLEAN, NEW found \in SUBSET Space
      PROVE  Listed(w, pending, found) \in WorkerType /\ Heard(Listed(w, pending, found))
  BY <1>7 DEF Listed
<1>8. \A n \in Space : Left(w, n) \in WorkerType /\ Heard(Left(w, n))
  BY DEF Left
<1>9. ASSUME w.stage = "run" PROVE Rested(w) \in WorkerType /\ Heard(Rested(w))
  BY <1>9 DEF Rested
<1>10. Ended(w) \in WorkerType /\ Heard(Ended(w))
  <2>1. w.pending \in BOOLEAN /\ w.told \in BOOLEAN
    OBVIOUS
  <2> DEFINE told == w.told /\ w.pending
  <2>2. told \in BOOLEAN /\ (told => w.pending)
    BY <2>1
  <2>3. Ended(w) = [w EXCEPT !.stage = "rest", !.keys = {}, !.pending = FALSE,
                             !.timer = IF w.pending THEN "now" ELSE "later", !.told = told]
    BY DEF Ended
  <2> HIDE DEF told
  <2> QED BY <2>1, <2>2, <2>3 DEF Key
<1> QED BY <1>1, <1>2, <1>3, <1>4, <1>5, <1>6, <1>7, <1>8, <1>9, <1>10

\* Each action is a step of one worker, or of none.
LEMMA ActionsAreSteps ==
  ASSUME IndexTypeOK, NEW p \in WorkProc
  PROVE  /\ AdminGraphControl(p) => worker' = [worker EXCEPT ![p] = InControl(worker[p], TRUE)]
         /\ RebuildBackgroundWorkSchedule(p) =>
              worker' = [worker EXCEPT ![p] = WakeBackgroundWorker(InControl(worker[p], FALSE))]
         /\ Fire(p) => \E keys \in SUBSET ReadyKeys : worker' = [worker EXCEPT ![p] = Fired(worker[p], keys)]
         /\ ReadJobs(p) => \E key \in worker[p].keys :
              worker' = [worker EXCEPT ![p] = IF mark[key.space].generation = 0 THEN Skipped(worker[p], key)
                                              ELSE Taken(worker[p], key, record[key.space].jobs)]
         /\ KeyDone(p) => worker' = [worker EXCEPT ![p] = Finished(worker[p], Current(p))]
         /\ DueBackgroundNamespaces(p) => \E pending \in BOOLEAN, found \in SUBSET Space :
              worker' = [worker EXCEPT ![p] = Listed(worker[p], pending, found)]
         /\ ScheduleBackgroundWorker(p) => worker' = [worker EXCEPT ![p] = Rested(worker[p])]
         /\ PassEnds(p) => worker' = [worker EXCEPT ![p] = Ended(worker[p])]
         /\ \A n \in Space : RunBackgroundNamespace(p, n) =>
              \/ worker' = [worker EXCEPT ![p] = Left(worker[p], n)] /\ UNCHANGED <<record, due, mark>>
              \/ /\ worker' = [worker EXCEPT ![p] = WakeBackgroundWorker(Left(worker[p], n))]
                 /\ record' \in [Space -> Record] /\ \A m \in Space \ {n} : record'[m] = record[m]
                 /\ due' = [due EXCEPT ![n] = WakeOf(record'[n], graphOn)]
                 /\ mark' = [mark EXCEPT ![n] = Clean]
<1>1. worker \in [WorkProc -> WorkerType] /\ worker[p] \in WorkerType /\ record \in [Space -> Record]
  BY DEF IndexTypeOK, TablesOK
<1>2. AdminGraphControl(p) => worker' = [worker EXCEPT ![p] = InControl(worker[p], TRUE)]
  BY <1>1 DEF AdminGraphControl, InControl
<1>3. RebuildBackgroundWorkSchedule(p) =>
        worker' = [worker EXCEPT ![p] = WakeBackgroundWorker(InControl(worker[p], FALSE))]
  BY <1>1 DEF RebuildBackgroundWorkSchedule, InControl
<1>4. Fire(p) => \E keys \in SUBSET ReadyKeys : worker' = [worker EXCEPT ![p] = Fired(worker[p], keys)]
  BY <1>1 DEF Fire, Fired, ReadyKeys
<1>5. ReadJobs(p) => \E key \in worker[p].keys :
        worker' = [worker EXCEPT ![p] = IF mark[key.space].generation = 0 THEN Skipped(worker[p], key)
                                        ELSE Taken(worker[p], key, record[key.space].jobs)]
  BY ZenonT(60), <1>1 DEF ReadJobs, Skipped, Taken
<1>6. KeyDone(p) => worker' = [worker EXCEPT ![p] = Finished(worker[p], Current(p))]
  BY <1>1 DEF KeyDone, Finished
<1>7. ASSUME DueBackgroundNamespaces(p)
      PROVE  \E pending \in BOOLEAN, found \in SUBSET Space : worker' = [worker EXCEPT ![p] = Listed(worker[p], pending, found)]
  <2>1. PICK later \in BOOLEAN :
          worker' = [worker EXCEPT ![p].stage = "run", ![p].told = FALSE, ![p].pending = @ \/ \E n \in Space : Ready(n),
                                   ![p].found = {n \in Space : mark[n].generation = 0 /\ due[n] \in (IF later THEN {"now", "later"} ELSE {"now"})}]
    BY <1>7 DEF DueBackgroundNamespaces
  <2> DEFINE pending == worker[p].pending \/ \E n \in Space : Ready(n)
             found == {n \in Space : mark[n].generation = 0 /\ due[n] \in (IF later THEN {"now", "later"} ELSE {"now"})}
  <2>2. worker[p].pending \in BOOLEAN
    BY <1>1 DEF WorkerType
  <2>3. worker' = [worker EXCEPT ![p].stage = "run", ![p].told = FALSE, ![p].pending = pending, ![p].found = found]
    BY <1>1, <2>1
  <2>4. pending \in BOOLEAN /\ found \in SUBSET Space
    BY <2>2
  <2> HIDE DEF pending, found
  <2> QED BY <1>1, <2>3, <2>4 DEF Listed
<1>8. ScheduleBackgroundWorker(p) => worker' = [worker EXCEPT ![p] = Rested(worker[p])]
  BY <1>1 DEF ScheduleBackgroundWorker, Rested
<1>9. ASSUME NEW n \in Space, RunBackgroundNamespace(p, n)
      PROVE  \/ worker' = [worker EXCEPT ![p] = Left(worker[p], n)] /\ UNCHANGED <<record, due, mark>>
             \/ /\ worker' = [worker EXCEPT ![p] = WakeBackgroundWorker(Left(worker[p], n))]
                /\ record' \in [Space -> Record] /\ \A m \in Space \ {n} : record'[m] = record[m]
                /\ due' = [due EXCEPT ![n] = WakeOf(record'[n], graphOn)]
                /\ mark' = [mark EXCEPT ![n] = Clean]
  <2>1. CASE worker' = [worker EXCEPT ![p].found = @ \ {n}] /\ UNCHANGED <<record, due, mark>>
    BY <1>1, <2>1 DEF Left
  <2>2. CASE /\ \E jobs \in {"later", "never"} :
                  record' = [record EXCEPT ![n] = [jobs |-> jobs, uncovered |-> record[n].uncovered /\ ~graphOn]]
             /\ due' = [due EXCEPT ![n] = WakeOf(record'[n], graphOn)]
             /\ mark' = [mark EXCEPT ![n] = Clean]
             /\ worker' = [worker EXCEPT ![p] = WakeBackgroundWorker([worker[p] EXCEPT !.found = @ \ {n}])]
    <3>1. PICK jobs \in {"later", "never"} :
                  record' = [record EXCEPT ![n] = [jobs |-> jobs, uncovered |-> record[n].uncovered /\ ~graphOn]]
      BY <2>2
    <3> DEFINE uncovered == record[n].uncovered /\ ~graphOn
    <3>2. uncovered \in BOOLEAN /\ record' = [record EXCEPT ![n] = [jobs |-> jobs, uncovered |-> uncovered]]
      BY <1>1, <3>1 DEF Record
    <3> HIDE DEF uncovered
    <3>3. record' \in [Space -> Record] /\ \A m \in Space \ {n} : record'[m] = record[m]
      BY <1>1, <3>2 DEF Record, Wakes
    <3>4. worker' = [worker EXCEPT ![p] = WakeBackgroundWorker(Left(worker[p], n))]
      BY <1>1, <2>2 DEF Left
    <3> QED BY <2>2, <3>3, <3>4
  <2> QED BY <1>9, <2>1, <2>2 DEF RunBackgroundNamespace
<1>10. PassEnds(p) => worker' = [worker EXCEPT ![p] = Ended(worker[p])]
  BY <1>1 DEF PassEnds, Ended, WorkerType
<1> QED BY <1>2, <1>3, <1>4, <1>5, <1>6, <1>7, <1>8, <1>9, <1>10

\* No step of any actor loses a worker its news.
LEMMA WorkersAreKept == IndexTypeOK /\ WorkersOK /\ [IndexNext]_indexVars => WorkersOK'
<1> SUFFICES ASSUME IndexTypeOK, WorkersOK, [IndexNext]_indexVars PROVE WorkersOK'
  OBVIOUS
<1>1. \A p \in WorkProc : worker[p] \in WorkerType /\ Heard(worker[p])
  BY DEF WorkersOK
<1>2. ASSUME NEW p \in WorkProc, NEW w \in WorkerType, Heard(w), worker' = [worker EXCEPT ![p] = w] PROVE WorkersOK'
  BY <1>2 DEF WorkersOK
<1>3. CASE UNCHANGED worker
  BY <1>3 DEF WorkersOK
<1>4. ASSUME NEW n \in Space, DirectWrite(n) \/ CoolsDown(n) PROVE UNCHANGED worker
  BY <1>4 DEF DirectWrite, CoolsDown
<1>5. ASSUME NEW p \in WorkProc, AdminGraphControl(p) PROVE WorkersOK'
  <2>1. InControl(worker[p], TRUE) \in WorkerType /\ Heard(InControl(worker[p], TRUE))
    BY <1>1, StepsKeepWorkers
  <2>2. worker' = [worker EXCEPT ![p] = InControl(worker[p], TRUE)]
    BY <1>5, ActionsAreSteps
  <2> QED BY <1>2, <2>1, <2>2
<1>6. ASSUME NEW p \in WorkProc, RebuildBackgroundWorkSchedule(p) PROVE WorkersOK'
  <2>1. InControl(worker[p], FALSE) \in WorkerType /\ Heard(InControl(worker[p], FALSE))
    BY <1>1, StepsKeepWorkers
  <2>2. worker' = [worker EXCEPT ![p] = WakeBackgroundWorker(InControl(worker[p], FALSE))]
    BY <1>6, ActionsAreSteps
  <2> QED BY <1>2, <2>1, <2>2, StepsKeepWorkers
<1>7. ASSUME NEW p \in WorkProc, Fire(p) PROVE WorkersOK'
  <2>1. ReadyKeys \subseteq Key
    BY DEF ReadyKeys, Ready, Key, IndexTypeOK, TablesOK, MarkType
  <2>2. PICK keys \in SUBSET Key : worker' = [worker EXCEPT ![p] = Fired(worker[p], keys)]
    BY <1>7, <2>1, ActionsAreSteps
  <2> QED BY <1>1, <1>2, <2>2, StepsKeepWorkers
<1>8. ASSUME NEW p \in WorkProc, ReadJobs(p) PROVE WorkersOK'
  <2>1. PICK key \in worker[p].keys :
          worker' = [worker EXCEPT ![p] = IF mark[key.space].generation = 0 THEN Skipped(worker[p], key)
                                          ELSE Taken(worker[p], key, record[key.space].jobs)]
    BY <1>8, ActionsAreSteps
  <2>2. key \in Key /\ record[key.space].jobs \in Wakes
    BY <1>1 DEF WorkerType, Key, Record, IndexTypeOK, TablesOK
  <2>3. worker[p].stage = "rebuild"
    BY <1>8 DEF ReadJobs
  <2>4. CASE mark[key.space].generation = 0
    BY <1>1, <1>2, <2>1, <2>2, <2>4, StepsKeepWorkers
  <2>5. CASE mark[key.space].generation # 0
    BY <1>1, <1>2, <2>1, <2>2, <2>3, <2>5, StepsKeepWorkers
  <2> QED BY <2>4, <2>5
<1>9. ASSUME NEW p \in WorkProc, KeepTimes(p) \/ RebuildFails(p) PROVE WorkersOK'
  <2>1. worker[p].stage = "events" /\ worker' = [worker EXCEPT ![p] = Finished(worker[p], Current(p))]
    BY <1>9, ActionsAreSteps DEF KeepTimes, RebuildFails
  <2> QED BY <1>1, <1>2, <2>1, StepsKeepWorkers
<1>10. ASSUME NEW p \in WorkProc, DueBackgroundNamespaces(p) PROVE WorkersOK'
  <2>1. worker[p].stage = "rebuild"
    BY <1>10 DEF DueBackgroundNamespaces
  <2>2. PICK pending \in BOOLEAN, found \in SUBSET Space : worker' = [worker EXCEPT ![p] = Listed(worker[p], pending, found)]
    BY <1>10, ActionsAreSteps
  <2> QED BY <1>1, <1>2, <2>1, <2>2, StepsKeepWorkers
<1>11. ASSUME NEW p \in WorkProc, ScheduleBackgroundWorker(p) PROVE WorkersOK'
  <2>1. worker[p].stage = "run" /\ worker' = [worker EXCEPT ![p] = Rested(worker[p])]
    BY <1>11, ActionsAreSteps DEF ScheduleBackgroundWorker
  <2> QED BY <1>1, <1>2, <2>1, StepsKeepWorkers
<1>12. ASSUME NEW p \in WorkProc, Restart(p) PROVE WorkersOK'
  <2>1. Resting \in WorkerType /\ Heard(Resting)
    BY DEF Resting, WorkerType, Wakes, Heard
  <2>2. worker' = [worker EXCEPT ![p] = Resting]
    BY <1>12 DEF Restart
  <2> QED BY <1>2, <2>1, <2>2
<1>13. ASSUME NEW p \in WorkProc, NEW n \in Space, Save(p, n) PROVE WorkersOK'
  <2>1. worker' = [worker EXCEPT ![p] = WakeBackgroundWorker(worker[p])]
    BY <1>13 DEF Save, Notified
  <2> QED BY <1>1, <1>2, <2>1, StepsKeepWorkers
<1>14. ASSUME NEW p \in WorkProc, NEW n \in Space, RunBackgroundNamespace(p, n) PROVE WorkersOK'
  <2>1. Left(worker[p], n) \in WorkerType /\ Heard(Left(worker[p], n))
    BY <1>1, StepsKeepWorkers
  <2>2. \/ worker' = [worker EXCEPT ![p] = Left(worker[p], n)]
        \/ worker' = [worker EXCEPT ![p] = WakeBackgroundWorker(Left(worker[p], n))]
    BY <1>14, ActionsAreSteps
  <2> QED BY <1>2, <2>1, <2>2, StepsKeepWorkers
<1>15. ASSUME NEW p \in WorkProc, PassEnds(p) PROVE WorkersOK'
  <2>1. Ended(worker[p]) \in WorkerType /\ Heard(Ended(worker[p]))
    BY <1>1, StepsKeepWorkers
  <2>2. worker' = [worker EXCEPT ![p] = Ended(worker[p])]
    BY <1>15, ActionsAreSteps
  <2> QED BY <1>2, <2>1, <2>2
<1>16. CASE UNCHANGED indexVars
  BY <1>3, <1>16 DEF indexVars
<1> QED BY <1>3, <1>4, <1>5, <1>6, <1>7, <1>8, <1>9, <1>10, <1>11, <1>12, <1>13, <1>14, <1>15, <1>16 DEF IndexNext

\* The values that rows and marks are set to.
LEMMA RecordTypes ==
  /\ Clean \in MarkType /\ \A g \in Nat : Marked(g) \in MarkType
  /\ \A r \in Record, on \in BOOLEAN : WakeOf(r, on) \in Wakes
BY DEF Clean, Marked, MarkType, WakeOf, Record, Wakes

\* A first start, and a file that has its table already.
LEMMA InitOK == IndexInit => IndexTypeOK /\ WorkersOK
<1> SUFFICES ASSUME IndexInit PROVE IndexTypeOK /\ WorkersOK
  OBVIOUS
<1>1. Resting \in WorkerType /\ Heard(Resting)
  BY DEF Resting, WorkerType, Wakes, Heard
<1>2. WorkersOK
  BY <1>1 DEF IndexInit, WorkersOK
<1>3. due \in [Space -> Wakes] /\ mark \in [Space -> MarkType] /\ generation \in Nat
  <2>1. record \in [Space -> Record] /\ graphOn \in BOOLEAN
    BY DEF IndexInit
  <2>2. CASE InitializeBackgroundWorkIndex
    BY <2>2, RecordTypes DEF InitializeBackgroundWorkIndex, Wakes
  <2>3. CASE generation = 0 /\ due = [n \in Space |-> WakeOf(record[n], graphOn)] /\ mark = [n \in Space |-> Clean]
    BY <2>1, <2>3, RecordTypes
  <2> QED BY <2>2, <2>3 DEF IndexInit
<1> QED BY <1>2, <1>3 DEF IndexInit, IndexTypeOK, TablesOK, WorkersOK

\* Every step of a writer or a worker keeps the tables' types.
LEMMA TablesAreKept == IndexTypeOK /\ [IndexNext]_indexVars => TablesOK'
<1> SUFFICES ASSUME IndexTypeOK, [IndexNext]_indexVars PROVE TablesOK'
  OBVIOUS
<1>1. TablesOK /\ \A p \in WorkProc : worker[p] \in WorkerType
  BY DEF IndexTypeOK
<1> USE DEF TablesOK
<1>2. CASE UNCHANGED <<record, graphOn, due, mark, generation>>
  BY <1>1, <1>2
<1>3. ASSUME NEW n \in Space, DirectWrite(n) PROVE TablesOK'
  <2>1. generation' \in Nat
    BY <1>1, <1>3 DEF DirectWrite
  <2>2. record' \in [Space -> Record]
    BY <1>1, <1>3 DEF DirectWrite
  <2>3. mark' \in [Space -> MarkType]
    BY <1>1, <1>3, <2>1, RecordTypes DEF DirectWrite
  <2> QED BY <1>1, <1>3, <2>1, <2>2, <2>3 DEF DirectWrite
<1>4. ASSUME NEW n \in Space, CoolsDown(n) PROVE TablesOK'
  BY <1>1, <1>4 DEF CoolsDown, MarkType
<1>5. ASSUME NEW p \in WorkProc, AdminGraphControl(p) PROVE TablesOK'
  BY <1>1, <1>5 DEF AdminGraphControl
<1>6. ASSUME NEW p \in WorkProc, RebuildBackgroundWorkSchedule(p) PROVE TablesOK'
  BY <1>1, <1>6, RecordTypes DEF RebuildBackgroundWorkSchedule, Wakes
<1>7. ASSUME NEW p \in WorkProc, KeepTimes(p) PROVE TablesOK'
  <2> DEFINE uncovered == record[Current(p).space].uncovered
             wake == WakeOf([jobs |-> worker[p].read, uncovered |-> uncovered], graphOn)
  <2>1. wake \in Wakes
    BY <1>1 DEF WakeOf, WorkerType, Wakes
  <2>2. \/ /\ due' = [due EXCEPT ![Current(p).space] = wake]
           /\ mark' = [mark EXCEPT ![Current(p).space] = Clean]
        \/ UNCHANGED <<due, mark>>
    BY <1>7 DEF KeepTimes, WriteBackgroundWorkTimes
  <2> HIDE DEF wake
  <2>3. due' \in [Space -> Wakes] /\ mark' \in [Space -> MarkType]
    BY <1>1, <2>1, <2>2, RecordTypes
  <2> QED BY <1>1, <1>7, <2>3 DEF KeepTimes
<1>8. ASSUME NEW p \in WorkProc, RebuildFails(p) PROVE TablesOK'
  BY <1>1, <1>8 DEF RebuildFails, MarkType
<1>9. ASSUME NEW p \in WorkProc, NEW n \in Space, Save(p, n) PROVE TablesOK'
  <2>1. record' \in [Space -> Record]
    BY <1>1, <1>9 DEF Save
  <2>2. due' \in [Space -> Wakes] /\ mark' \in [Space -> MarkType]
    BY <1>1, <1>9, <2>1, RecordTypes DEF Save
  <2> QED BY <1>1, <1>9, <2>1, <2>2 DEF Save
<1>10. ASSUME NEW p \in WorkProc, NEW n \in Space, RunBackgroundNamespace(p, n) PROVE TablesOK'
  <2>1. \/ UNCHANGED <<record, due, mark>>
        \/ /\ record' \in [Space -> Record]
           /\ due' = [due EXCEPT ![n] = WakeOf(record'[n], graphOn)]
           /\ mark' = [mark EXCEPT ![n] = Clean]
    BY <1>10, ActionsAreSteps
  <2>2. record' \in [Space -> Record]
    BY <1>1, <2>1
  <2>3. due' \in [Space -> Wakes] /\ mark' \in [Space -> MarkType]
    BY <1>1, <2>1, <2>2, RecordTypes
  <2> QED BY <1>1, <1>10, <2>2, <2>3 DEF RunBackgroundNamespace
<1>11. ASSUME NEW p \in WorkProc,
              Fire(p) \/ PassEnds(p) \/ ReadJobs(p) \/ DueBackgroundNamespaces(p) \/ ScheduleBackgroundWorker(p) \/ Restart(p)
       PROVE  UNCHANGED <<record, graphOn, due, mark, generation>>
  BY <1>11 DEF Fire, PassEnds, ReadJobs, DueBackgroundNamespaces, ScheduleBackgroundWorker, Restart
<1>12. CASE UNCHANGED indexVars
  BY <1>2, <1>12 DEF indexVars
<1> QED BY <1>2, <1>3, <1>4, <1>5, <1>6, <1>7, <1>8, <1>9, <1>10, <1>11, <1>12 DEF IndexNext

-----------------------------------------------------------------------------
(* News is heard *)

\* No worker sleeps on a save of its own process (wakeBackgroundWorker and
\* scheduleBackgroundWorker): the news reaches a listing that is still to come.
THEOREM WorkersHear == IndexSpec => []NewsIsHeard
<1>1. IndexInit => IndexTypeOK /\ WorkersOK
  BY InitOK
<1>2. IndexTypeOK /\ WorkersOK /\ [IndexNext]_indexVars => (IndexTypeOK /\ WorkersOK)'
  BY WorkersAreKept, TablesAreKept DEF IndexTypeOK, WorkersOK
<1>3. WorkersOK => NewsIsHeard
  BY DEF WorkersOK, Heard, NewsIsHeard
<1> QED BY <1>1, <1>2, <1>3, PTL DEF IndexSpec

-----------------------------------------------------------------------------
(* The table is honest *)

\* A pass has taken one generation of a namespace at a time, none from the future.
KeysOK(w, g) ==
  /\ \A key \in w.keys : key.generation <= g
  /\ \A key, other \in w.keys : key.space = other.space => key = other

\* While the Events of a namespace are read, its jobs are what was read, unless it was marked again.
ReadOK(w, marks, records) ==
  w.stage = "events" =>
    \E key \in w.keys :
      w.found = {key.space} /\ (marks[key.space].generation = key.generation => records[key.space].jobs = w.read)

MarksOK == \A n \in Space : mark[n].generation <= generation

PassesOK == \A p \in WorkProc : KeysOK(worker[p], generation) /\ ReadOK(worker[p], mark, record)

\* A write of records takes the mark away or gives it a generation that no pass has taken.
Moves ==
  /\ generation' \in Nat /\ generation' >= generation
  /\ \A n \in Space : \/ mark'[n].generation = mark[n].generation /\ record'[n] = record[n]
                      \/ mark'[n].generation = 0
                      \/ mark'[n].generation > generation /\ mark'[n].generation <= generation'

\* Every action moves the tables this way.
LEMMA TablesMove == IndexTypeOK /\ [IndexNext]_indexVars => Moves
<1> SUFFICES ASSUME IndexTypeOK, [IndexNext]_indexVars PROVE Moves
  OBVIOUS
<1> USE DEF Moves
<1>1. /\ record \in [Space -> Record] /\ mark \in [Space -> MarkType] /\ generation \in Nat
  BY DEF IndexTypeOK, TablesOK
<1>2. CASE UNCHANGED <<record, mark, generation>>
  BY <1>1, <1>2
<1>3. ASSUME NEW n \in Space, DirectWrite(n) PROVE Moves
  BY <1>1, <1>3 DEF DirectWrite, Marked
<1>4. ASSUME NEW n \in Space, CoolsDown(n) PROVE Moves
  BY <1>1, <1>4 DEF CoolsDown, MarkType
<1>5. ASSUME NEW p \in WorkProc, RebuildBackgroundWorkSchedule(p) PROVE Moves
  BY <1>1, <1>5 DEF RebuildBackgroundWorkSchedule, Marked
<1>6. ASSUME NEW p \in WorkProc, KeepTimes(p) PROVE Moves
  BY <1>1, <1>6 DEF KeepTimes, WriteBackgroundWorkTimes, Clean
<1>7. ASSUME NEW p \in WorkProc, RebuildFails(p) PROVE Moves
  BY <1>1, <1>7 DEF RebuildFails, MarkType
<1>8. ASSUME NEW p \in WorkProc, NEW n \in Space, Save(p, n) PROVE Moves
  BY <1>1, <1>8 DEF Save, Clean
<1>9. ASSUME NEW p \in WorkProc, NEW n \in Space, RunBackgroundNamespace(p, n) PROVE Moves
  <2>1. generation' = generation
    BY <1>9 DEF RunBackgroundNamespace
  <2>2. \/ UNCHANGED <<record, mark>>
        \/ (\A m \in Space \ {n} : record'[m] = record[m]) /\ mark' = [mark EXCEPT ![n] = Clean]
    BY <1>9, ActionsAreSteps
  <2> QED BY <1>1, <2>1, <2>2 DEF Clean
<1>10. ASSUME NEW p \in WorkProc,
              \/ Fire(p) \/ PassEnds(p) \/ ReadJobs(p) \/ DueBackgroundNamespaces(p) \/ ScheduleBackgroundWorker(p)
              \/ Restart(p) \/ AdminGraphControl(p)
       PROVE  UNCHANGED <<record, mark, generation>>
  BY <1>10 DEF Fire, PassEnds, ReadJobs, DueBackgroundNamespaces, ScheduleBackgroundWorker, Restart, AdminGraphControl
<1>11. CASE UNCHANGED indexVars
  BY <1>2, <1>11 DEF indexVars
<1> QED BY <1>2, <1>3, <1>4, <1>5, <1>6, <1>7, <1>8, <1>9, <1>10, <1>11 DEF IndexNext

\* What a pass has taken and read stays right, whatever is written meanwhile.
LEMMA MovesKeepPasses ==
  ASSUME IndexTypeOK, Moves, NEW w \in WorkerType, KeysOK(w, generation), ReadOK(w, mark, record)
  PROVE  KeysOK(w, generation') /\ ReadOK(w, mark', record')
<1>1. generation \in Nat /\ generation' \in Nat /\ generation' >= generation
  BY DEF Moves, IndexTypeOK, TablesOK
<1>2. \A key \in w.keys : key \in Key /\ key.generation <= generation /\ key.space \in Space /\ key.generation \in Nat \ {0}
  BY DEF WorkerType, Key, KeysOK
<1>3. KeysOK(w, generation')
  BY <1>1, <1>2 DEF KeysOK
<1>4. ASSUME w.stage = "events" PROVE ReadOK(w, mark', record')
  <2>1. PICK key \in w.keys :
          w.found = {key.space} /\ (mark[key.space].generation = key.generation => record[key.space].jobs = w.read)
    BY <1>4 DEF ReadOK
  <2>2. mark'[key.space].generation = key.generation => record'[key.space].jobs = w.read
    BY <1>1, <1>2, <2>1 DEF Moves
  <2> QED BY <2>1, <2>2 DEF ReadOK
<1> QED BY <1>3, <1>4 DEF ReadOK

\* The step of a pass itself.
LEMMA StepsKeepPasses ==
  ASSUME NEW w \in WorkerType, NEW g \in Nat, NEW marks, NEW records, KeysOK(w, g), ReadOK(w, marks, records)
  PROVE  /\ KeysOK(WakeBackgroundWorker(w), g) /\ ReadOK(WakeBackgroundWorker(w), marks, records)
         /\ \A b \in BOOLEAN : KeysOK(InControl(w, b), g) /\ ReadOK(InControl(w, b), marks, records)
         /\ w.stage = "rebuild" => \A key : KeysOK(Skipped(w, key), g) /\ ReadOK(Skipped(w, key), marks, records)
         /\ w.stage = "rebuild" => \A key \in w.keys :
              LET taken == Taken(w, key, records[key.space].jobs) IN KeysOK(taken, g) /\ ReadOK(taken, marks, records)
         /\ \A key : KeysOK(Finished(w, key), g) /\ ReadOK(Finished(w, key), marks, records)
         /\ \A pending, found : KeysOK(Listed(w, pending, found), g) /\ ReadOK(Listed(w, pending, found), marks, records)
         /\ w.stage = "run" => \A n : KeysOK(Left(w, n), g) /\ ReadOK(Left(w, n), marks, records)
         /\ KeysOK(Rested(w), g) /\ ReadOK(Rested(w), marks, records)
         /\ KeysOK(Ended(w), g) /\ ReadOK(Ended(w), marks, records)
<1> USE DEF WorkerType, KeysOK, ReadOK
<1>1. KeysOK(WakeBackgroundWorker(w), g) /\ ReadOK(WakeBackgroundWorker(w), marks, records)
  BY DEF WakeBackgroundWorker
<1>2. \A b \in BOOLEAN : KeysOK(InControl(w, b), g) /\ ReadOK(InControl(w, b), marks, records)
  BY DEF InControl
<1>3. ASSUME w.stage = "rebuild", NEW key PROVE KeysOK(Skipped(w, key), g) /\ ReadOK(Skipped(w, key), marks, records)
  BY <1>3 DEF Skipped
<1>4. ASSUME w.stage = "rebuild", NEW key \in w.keys
      PROVE  /\ KeysOK(Taken(w, key, records[key.space].jobs), g)
             /\ ReadOK(Taken(w, key, records[key.space].jobs), marks, records)
  BY <1>4 DEF Taken
<1>5. \A key : KeysOK(Finished(w, key), g) /\ ReadOK(Finished(w, key), marks, records)
  BY DEF Finished
<1>6. \A pending, found : KeysOK(Listed(w, pending, found), g) /\ ReadOK(Listed(w, pending, found), marks, records)
  BY DEF Listed
<1>7. ASSUME w.stage = "run", NEW n PROVE KeysOK(Left(w, n), g) /\ ReadOK(Left(w, n), marks, records)
  BY <1>7 DEF Left
<1>8. KeysOK(Rested(w), g) /\ ReadOK(Rested(w), marks, records)
  BY DEF Rested
<1>9. KeysOK(Ended(w), g) /\ ReadOK(Ended(w), marks, records)
  BY DEF Ended
<1> QED BY <1>1, <1>2, <1>3, <1>4, <1>5, <1>6, <1>7, <1>8, <1>9

\* Every step keeps what the passes have taken and read right.
LEMMA PassesAreKept ==
  IndexTypeOK /\ WorkersOK /\ MarksOK /\ PassesOK /\ [IndexNext]_indexVars => MarksOK' /\ PassesOK'
<1> SUFFICES ASSUME IndexTypeOK, WorkersOK, MarksOK, PassesOK, [IndexNext]_indexVars PROVE MarksOK' /\ PassesOK'
  OBVIOUS
<1>1. Moves /\ generation \in Nat /\ generation' \in Nat /\ \A p \in WorkProc : worker[p] \in WorkerType
  BY TablesMove DEF IndexTypeOK, TablesOK, Moves
<1>2. MarksOK'
  BY <1>1 DEF MarksOK, Moves, IndexTypeOK, TablesOK, MarkType
<1>3. \A p \in WorkProc : /\ KeysOK(worker[p], generation) /\ ReadOK(worker[p], mark, record)
                          /\ KeysOK(worker[p], generation') /\ ReadOK(worker[p], mark', record')
  BY <1>1, MovesKeepPasses DEF PassesOK
<1>4. ASSUME NEW p \in WorkProc, NEW w, worker' = [worker EXCEPT ![p] = w],
             KeysOK(w, generation'), ReadOK(w, mark', record')
      PROVE  PassesOK'
  BY <1>3, <1>4 DEF PassesOK, IndexTypeOK
<1>5. CASE UNCHANGED worker
  BY <1>2, <1>3, <1>5 DEF PassesOK
<1>6. ASSUME NEW n \in Space, DirectWrite(n) \/ CoolsDown(n) PROVE UNCHANGED worker
  BY <1>6 DEF DirectWrite, CoolsDown
<1>7. ASSUME NEW p \in WorkProc, AdminGraphControl(p) PROVE PassesOK'
  BY <1>1, <1>3, <1>4, <1>7, ActionsAreSteps, StepsKeepPasses
<1>8. ASSUME NEW p \in WorkProc, RebuildBackgroundWorkSchedule(p) PROVE PassesOK'
  <2>1. /\ InControl(worker[p], FALSE) \in WorkerType
        /\ KeysOK(InControl(worker[p], FALSE), generation') /\ ReadOK(InControl(worker[p], FALSE), mark', record')
    BY <1>1, <1>3, StepsKeepPasses, StepsKeepWorkers DEF WorkersOK
  <2>2. worker' = [worker EXCEPT ![p] = WakeBackgroundWorker(InControl(worker[p], FALSE))]
    BY <1>8, ActionsAreSteps
  <2> QED BY <1>1, <1>4, <2>1, <2>2, StepsKeepPasses
<1>9. ASSUME NEW p \in WorkProc, Fire(p) PROVE PassesOK'
  <2>1. PICK keys \in SUBSET ReadyKeys : worker' = [worker EXCEPT ![p] = Fired(worker[p], keys)]
    BY <1>9, ActionsAreSteps
  <2>2. Fired(worker[p], keys).stage = "rebuild" /\ Fired(worker[p], keys).keys = keys
    BY <1>1 DEF Fired, WorkerType
  <2>3. generation' = generation
    BY <1>9 DEF Fire
  <2>4. KeysOK(Fired(worker[p], keys), generation') /\ ReadOK(Fired(worker[p], keys), mark', record')
    BY <2>2, <2>3 DEF KeysOK, ReadOK, ReadyKeys, MarksOK
  <2> QED BY <1>4, <2>1, <2>4
<1>10. ASSUME NEW p \in WorkProc, ReadJobs(p) PROVE PassesOK'
  <2>1. PICK key \in worker[p].keys :
          worker' = [worker EXCEPT ![p] = IF mark[key.space].generation = 0 THEN Skipped(worker[p], key)
                                          ELSE Taken(worker[p], key, record[key.space].jobs)]
    BY <1>10, ActionsAreSteps
  <2>2. worker[p].stage = "rebuild" /\ record' = record
    BY <1>10 DEF ReadJobs
  <2>3. /\ KeysOK(Skipped(worker[p], key), generation') /\ ReadOK(Skipped(worker[p], key), mark', record')
        /\ KeysOK(Taken(worker[p], key, record'[key.space].jobs), generation')
        /\ ReadOK(Taken(worker[p], key, record'[key.space].jobs), mark', record')
    BY <1>1, <1>3, <2>2, StepsKeepPasses
  <2> QED BY <1>4, <2>1, <2>2, <2>3
<1>11. ASSUME NEW p \in WorkProc, KeepTimes(p) \/ RebuildFails(p) PROVE PassesOK'
  <2>1. worker' = [worker EXCEPT ![p] = Finished(worker[p], Current(p))]
    BY <1>11, ActionsAreSteps DEF KeepTimes, RebuildFails
  <2>2. \A key : KeysOK(Finished(worker[p], key), generation') /\ ReadOK(Finished(worker[p], key), mark', record')
    BY <1>1, <1>3, StepsKeepPasses
  <2> QED BY <1>4, <2>1, <2>2
<1>12. ASSUME NEW p \in WorkProc, DueBackgroundNamespaces(p) PROVE PassesOK'
  <2>1. PICK pending \in BOOLEAN, found \in SUBSET Space : worker' = [worker EXCEPT ![p] = Listed(worker[p], pending, found)]
    BY <1>12, ActionsAreSteps
  <2>2. /\ KeysOK(Listed(worker[p], pending, found), generation')
        /\ ReadOK(Listed(worker[p], pending, found), mark', record')
    BY <1>1, <1>3, StepsKeepPasses
  <2> QED BY <1>4, <2>1, <2>2
<1>13. ASSUME NEW p \in WorkProc, ScheduleBackgroundWorker(p) PROVE PassesOK'
  BY <1>1, <1>3, <1>4, <1>13, ActionsAreSteps, StepsKeepPasses
<1>14. ASSUME NEW p \in WorkProc, Restart(p) PROVE PassesOK'
  <2>1. KeysOK(Resting, generation') /\ ReadOK(Resting, mark', record')
    BY DEF Resting, KeysOK, ReadOK
  <2>2. worker' = [worker EXCEPT ![p] = Resting]
    BY <1>14 DEF Restart
  <2> QED BY <1>4, <2>1, <2>2
<1>15. ASSUME NEW p \in WorkProc, NEW n \in Space, Save(p, n) PROVE PassesOK'
  <2>1. worker' = [worker EXCEPT ![p] = WakeBackgroundWorker(worker[p])]
    BY <1>15 DEF Save, Notified
  <2> QED BY <1>1, <1>3, <1>4, <2>1, StepsKeepPasses
<1>16. ASSUME NEW p \in WorkProc, NEW n \in Space, RunBackgroundNamespace(p, n) PROVE PassesOK'
  <2>1. worker[p].stage = "run"
    BY <1>16 DEF RunBackgroundNamespace
  <2>2. /\ Left(worker[p], n) \in WorkerType
        /\ KeysOK(Left(worker[p], n), generation') /\ ReadOK(Left(worker[p], n), mark', record')
    BY <1>1, <1>3, <2>1, StepsKeepPasses, StepsKeepWorkers DEF WorkersOK
  <2>3. \/ worker' = [worker EXCEPT ![p] = Left(worker[p], n)]
        \/ worker' = [worker EXCEPT ![p] = WakeBackgroundWorker(Left(worker[p], n))]
    BY <1>16, ActionsAreSteps
  <2> QED BY <1>1, <1>4, <2>2, <2>3, StepsKeepPasses
<1>17. ASSUME NEW p \in WorkProc, PassEnds(p) PROVE PassesOK'
  BY <1>1, <1>3, <1>4, <1>17, ActionsAreSteps, StepsKeepPasses
<1>18. CASE UNCHANGED indexVars
  BY <1>5, <1>18 DEF indexVars
<1> QED BY <1>2, <1>5, <1>6, <1>7, <1>8, <1>9, <1>10, <1>11, <1>12, <1>13, <1>14, <1>15, <1>16, <1>17, <1>18 DEF IndexNext

\* Only the second commit of a setting ends it, unless the host dies in between.
LEMMA ControlsEnd ==
  ASSUME ~ControlIsCut, IndexTypeOK, [IndexNext]_indexVars, \A p \in WorkProc : ~worker'[p].control
  PROVE  \/ \A p \in WorkProc : ~worker[p].control
         \/ \E p \in WorkProc : RebuildBackgroundWorkSchedule(p)
<1>1. worker \in [WorkProc -> WorkerType]
  BY DEF IndexTypeOK
<1>2. ASSUME NEW p \in WorkProc, NEW w, worker' = [worker EXCEPT ![p] = w], w.control = worker[p].control
      PROVE  \A q \in WorkProc : ~worker[q].control
  BY <1>1, <1>2
<1>3. CASE UNCHANGED worker
  BY <1>3
<1>4. \A p \in WorkProc, n \in Space : /\ WakeBackgroundWorker(worker[p]).control = worker[p].control
                                      /\ Left(worker[p], n).control = worker[p].control
                                      /\ WakeBackgroundWorker(Left(worker[p], n)).control = worker[p].control
  BY <1>1 DEF WakeBackgroundWorker, Left, WorkerType
<1>5. ASSUME NEW n \in Space, DirectWrite(n) \/ CoolsDown(n) PROVE UNCHANGED worker
  BY <1>5 DEF DirectWrite, CoolsDown
<1>6. ASSUME NEW p \in WorkProc, AdminGraphControl(p) PROVE FALSE
  BY <1>1, <1>6 DEF AdminGraphControl, WorkerType
<1>7. ASSUME NEW p \in WorkProc, Fire(p) PROVE \A q \in WorkProc : ~worker[q].control
  <2>1. PICK keys \in SUBSET ReadyKeys : worker' = [worker EXCEPT ![p] = Fired(worker[p], keys)]
    BY <1>7, ActionsAreSteps
  <2>2. Fired(worker[p], keys).control = worker[p].control
    BY <1>1 DEF Fired, WorkerType
  <2> QED BY <1>2, <2>1, <2>2
<1>8. ASSUME NEW p \in WorkProc, ReadJobs(p) PROVE \A q \in WorkProc : ~worker[q].control
  <2>1. PICK key \in worker[p].keys :
          worker' = [worker EXCEPT ![p] = IF mark[key.space].generation = 0 THEN Skipped(worker[p], key)
                                          ELSE Taken(worker[p], key, record[key.space].jobs)]
    BY <1>8, ActionsAreSteps
  <2>2. /\ Skipped(worker[p], key).control = worker[p].control
        /\ Taken(worker[p], key, record[key.space].jobs).control = worker[p].control
    BY <1>1 DEF Skipped, Taken, WorkerType
  <2> QED BY <1>2, <2>1, <2>2
<1>9. ASSUME NEW p \in WorkProc, KeepTimes(p) \/ RebuildFails(p) PROVE \A q \in WorkProc : ~worker[q].control
  <2>1. worker' = [worker EXCEPT ![p] = Finished(worker[p], Current(p))]
    BY <1>9, ActionsAreSteps DEF KeepTimes, RebuildFails
  <2>2. Finished(worker[p], Current(p)).control = worker[p].control
    BY <1>1 DEF Finished, WorkerType
  <2> QED BY <1>2, <2>1, <2>2
<1>10. ASSUME NEW p \in WorkProc, DueBackgroundNamespaces(p) PROVE \A q \in WorkProc : ~worker[q].control
  <2>1. PICK pending \in BOOLEAN, found \in SUBSET Space : worker' = [worker EXCEPT ![p] = Listed(worker[p], pending, found)]
    BY <1>10, ActionsAreSteps
  <2>2. Listed(worker[p], pending, found).control = worker[p].control
    BY <1>1 DEF Listed, WorkerType
  <2> QED BY <1>2, <2>1, <2>2
<1>11. ASSUME NEW p \in WorkProc, ScheduleBackgroundWorker(p) PROVE \A q \in WorkProc : ~worker[q].control
  <2>1. worker' = [worker EXCEPT ![p] = Rested(worker[p])]
    BY <1>11, ActionsAreSteps
  <2>2. Rested(worker[p]).control = worker[p].control
    BY <1>1 DEF Rested, WorkerType
  <2> QED BY <1>2, <2>1, <2>2
<1>12. ASSUME NEW p \in WorkProc, Restart(p) PROVE \A q \in WorkProc : ~worker[q].control
  BY <1>1, <1>12 DEF Restart
<1>13. ASSUME NEW p \in WorkProc, NEW n \in Space, Save(p, n) PROVE \A q \in WorkProc : ~worker[q].control
  <2>1. worker' = [worker EXCEPT ![p] = WakeBackgroundWorker(worker[p])]
    BY <1>13 DEF Save, Notified
  <2> QED BY <1>2, <1>4, <2>1
<1>14. ASSUME NEW p \in WorkProc, NEW n \in Space, RunBackgroundNamespace(p, n)
       PROVE  \A q \in WorkProc : ~worker[q].control
  <2>1. \/ worker' = [worker EXCEPT ![p] = Left(worker[p], n)]
        \/ worker' = [worker EXCEPT ![p] = WakeBackgroundWorker(Left(worker[p], n))]
    BY <1>14, ActionsAreSteps
  <2> QED BY <1>2, <1>4, <2>1
<1>15. ASSUME NEW p \in WorkProc, PassEnds(p) PROVE \A q \in WorkProc : ~worker[q].control
  <2>1. worker' = [worker EXCEPT ![p] = Ended(worker[p])]
    BY <1>15, ActionsAreSteps
  <2>2. Ended(worker[p]).control = worker[p].control
    BY <1>1 DEF Ended, WorkerType
  <2> QED BY <1>2, <2>1, <2>2
<1>16. CASE UNCHANGED indexVars
  BY <1>3, <1>16 DEF indexVars
<1> QED BY <1>3, <1>5, <1>6, <1>7, <1>8, <1>9, <1>10, <1>11, <1>12, <1>13, <1>14, <1>15, <1>16 DEF IndexNext

\* Honest at one namespace.
HonestAt(n) == mark[n].generation = 0 => due[n] = WakeOf(record[n], graphOn)

\* A namespace that an action does not write stays as honest as it was; the one it writes is marked,
\* or has the wake that its records ask for.
LEMMA HonestyIsKept ==
  ASSUME ~ControlIsCut, IndexTypeOK, PassesOK, IndexIsHonest, [IndexNext]_indexVars
  PROVE  IndexIsHonest'
<1> SUFFICES ASSUME \A p \in WorkProc : ~worker'[p].control PROVE \A n \in Space : HonestAt(n)'
  BY DEF IndexIsHonest, HonestAt
<1>1. CASE \E p \in WorkProc : RebuildBackgroundWorkSchedule(p)
  BY <1>1 DEF RebuildBackgroundWorkSchedule, HonestAt, Marked, IndexTypeOK, TablesOK
<1>2. ASSUME \A p \in WorkProc : ~worker[p].control PROVE \A n \in Space : HonestAt(n)'
  <2>1. \A n \in Space : HonestAt(n)
    BY <1>2 DEF IndexIsHonest, HonestAt
  <2>2. /\ record \in [Space -> Record] /\ mark \in [Space -> MarkType] /\ generation \in Nat
        /\ due \in [Space -> Wakes]
    BY DEF IndexTypeOK, TablesOK
  <2>3. CASE UNCHANGED <<record, graphOn, due, mark>>
    BY <2>1, <2>3 DEF HonestAt
  <2>4. ASSUME NEW n \in Space, DirectWrite(n) PROVE \A m \in Space : HonestAt(m)'
    BY <2>1, <2>2, <2>4 DEF DirectWrite, HonestAt, Marked
  <2>5. ASSUME NEW n \in Space, CoolsDown(n) PROVE \A m \in Space : HonestAt(m)'
    BY <2>1, <2>2, <2>5 DEF CoolsDown, HonestAt, MarkType
  <2>6. ASSUME NEW p \in WorkProc, AdminGraphControl(p) PROVE FALSE
    <3>1. worker \in [WorkProc -> WorkerType]
      BY DEF IndexTypeOK
    <3> QED BY <2>6, <3>1 DEF AdminGraphControl, WorkerType
  <2>7. ASSUME NEW p \in WorkProc, NEW n \in Space, Save(p, n) PROVE \A m \in Space : HonestAt(m)'
    BY <2>1, <2>2, <2>7 DEF Save, HonestAt
  <2>8. ASSUME NEW p \in WorkProc, NEW n \in Space, RunBackgroundNamespace(p, n) PROVE \A m \in Space : HonestAt(m)'
    <3>1. graphOn' = graphOn
      BY <2>8 DEF RunBackgroundNamespace
    <3>2. \/ UNCHANGED <<record, due, mark>>
          \/ /\ \A m \in Space \ {n} : record'[m] = record[m]
             /\ due' = [due EXCEPT ![n] = WakeOf(record'[n], graphOn)]
             /\ mark' = [mark EXCEPT ![n] = Clean]
      BY <2>8, ActionsAreSteps
    <3> QED BY <2>1, <2>2, <3>1, <3>2 DEF HonestAt
  <2>9. ASSUME NEW p \in WorkProc, RebuildFails(p) PROVE \A m \in Space : HonestAt(m)'
    BY <2>1, <2>2, <2>9 DEF RebuildFails, HonestAt, MarkType
  <2>10. ASSUME NEW p \in WorkProc, KeepTimes(p) PROVE \A m \in Space : HonestAt(m)'
    <3>1. PICK key \in worker[p].keys :
            worker[p].found = {key.space} /\ (mark[key.space].generation = key.generation => record[key.space].jobs = worker[p].read)
      BY <2>10 DEF KeepTimes, PassesOK, ReadOK
    <3>2. Current(p) = key
      BY <3>1 DEF Current, PassesOK, KeysOK
    <3>3. UNCHANGED <<record, graphOn>>
      BY <2>10 DEF KeepTimes
    <3>4. CASE mark[key.space].generation = key.generation
      <4>1. /\ due' = [due EXCEPT ![key.space] = WakeOf([jobs |-> worker[p].read, uncovered |-> record[key.space].uncovered], graphOn)]
            /\ mark' = [mark EXCEPT ![key.space] = Clean]
        BY <2>10, <3>2, <3>4 DEF KeepTimes, WriteBackgroundWorkTimes
      <4>2. WakeOf([jobs |-> worker[p].read, uncovered |-> record[key.space].uncovered], graphOn) = WakeOf(record[key.space], graphOn)
        BY <3>1, <3>4 DEF WakeOf
      <4> QED BY <2>1, <2>2, <3>3, <4>1, <4>2 DEF HonestAt
    <3>5. CASE mark[key.space].generation # key.generation
      BY <2>3, <2>10, <3>2, <3>3, <3>5 DEF KeepTimes, WriteBackgroundWorkTimes
    <3> QED BY <3>4, <3>5
  <2>11. ASSUME NEW p \in WorkProc,
                Fire(p) \/ PassEnds(p) \/ ReadJobs(p) \/ DueBackgroundNamespaces(p) \/ ScheduleBackgroundWorker(p) \/ Restart(p)
         PROVE  UNCHANGED <<record, graphOn, due, mark>>
    BY <2>11 DEF Fire, PassEnds, ReadJobs, DueBackgroundNamespaces, ScheduleBackgroundWorker, Restart
  <2>12. CASE \E p \in WorkProc : RebuildBackgroundWorkSchedule(p)
    BY <1>1, <2>12
  <2>13. CASE UNCHANGED indexVars
    BY <2>3, <2>13 DEF indexVars
  <2> QED BY <2>3, <2>4, <2>5, <2>6, <2>7, <2>8, <2>9, <2>10, <2>11, <2>12, <2>13 DEF IndexNext
<1> QED BY <1>1, <1>2, ControlsEnd

\* The table never hides work that is due behind a namespace without a mark, whoever wrote and
\* however far a rebuild got (writeBackgroundWorkTimes keeps a result of its own generation only),
\* as long as no host dies between the two commits of a graph setting.
THEOREM TheIndexIsHonest == ASSUME ~ControlIsCut PROVE IndexSpec => []IndexIsHonest
<1> DEFINE Inv == IndexTypeOK /\ WorkersOK /\ MarksOK /\ PassesOK /\ IndexIsHonest
<1>1. IndexInit => Inv
  <2> SUFFICES ASSUME IndexInit PROVE Inv
    OBVIOUS
  <2>1. IndexTypeOK /\ WorkersOK
    BY InitOK
  <2>2. MarksOK
    BY DEF IndexInit, InitializeBackgroundWorkIndex, MarksOK, Marked, Clean
  <2>3. PassesOK
    BY DEF IndexInit, PassesOK, KeysOK, ReadOK, Resting
  <2>4. IndexIsHonest
    BY DEF IndexInit, InitializeBackgroundWorkIndex, IndexIsHonest, Marked
  <2> QED BY <2>1, <2>2, <2>3, <2>4
<1>2. Inv /\ [IndexNext]_indexVars => Inv'
  BY WorkersAreKept, TablesAreKept, PassesAreKept, HonestyIsKept DEF IndexTypeOK, WorkersOK
<1>3. Inv => IndexIsHonest
  OBVIOUS
<1> QED BY <1>1, <1>2, <1>3, PTL DEF IndexSpec

-----------------------------------------------------------------------------
(* RawIndex *)

IndexType == [fts : [Message -> SUBSET Word], meta : [Message -> Content], dirty : SUBSET Message]

RawTypeOK ==
  /\ message \in [Message -> Rows] /\ Index \in IndexType /\ tracked \in BOOLEAN
  /\ complete \in {"new", "none", "no", "yes"} /\ fast \in [RawProc -> {"closed", "on", "off"}]

\* What is sealed and not marked is found by its word.
Covers(index, table) ==
  \A m \in Message :
    table[m].where = "block" /\ m \notin index.dirty /\ table[m].content \in Word
    => table[m].content \in index.fts[m]

\* What an operation may do to a message's row: find it, where the message is there; drop it, where
\* it is gone; or leave it as it was, with its mark.
Effect(new, index, upsert, gone, table) ==
  \A m \in Message :
    \/ m \in upsert /\ (table[m].content \in Word => table[m].content \in new.fts[m])
    \/ m \in gone
    \/ m \notin upsert /\ new.fts[m] = index.fts[m] /\ (m \in index.dirty => m \in new.dirty)

\* A process with a working module has put the triggers up; a namespace that was never saved has
\* no messages; and an index that counts as complete, in a file with triggers, covers the table.
RawInv ==
  /\ RawTypeOK
  /\ \A p \in RawProc : fast[p] = "on" => tracked
  /\ complete = "new" => \A m \in Message : message[m] = Absent
  /\ tracked /\ complete = "yes" => Covers(Index, message)
  /\ SearchMissesNothing

-----------------------------------------------------------------------------
(* What the operations on the index do to it *)

\* What is synchronized is found afterwards, the rest is as it was.
LEMMA SyncUpsertFinds ==
  ASSUME NEW index \in IndexType, NEW table \in [Message -> Rows], NEW upsert \in SUBSET Message
  PROVE  /\ SyncUpsert(index, upsert, table) \in IndexType
         /\ Effect(SyncUpsert(index, upsert, table), index, upsert, {}, table)
<1>1. \A m \in Message : table[m].content \in Content
  BY DEF Rows, Absent, Content
<1>2. /\ index.fts \in [Message -> SUBSET Word] /\ index.meta \in [Message -> Content]
      /\ index.dirty \in SUBSET Message
  BY DEF IndexType
<1> QED BY <1>1, <1>2 DEF SyncUpsert, IndexType, Effect

\* A removal leaves what is not removed as it was.
LEMMA SyncDeleteKeeps ==
  ASSUME NEW index \in IndexType, NEW table, NEW gone \in SUBSET Message
  PROVE  SyncDelete(index, gone) \in IndexType /\ Effect(SyncDelete(index, gone), index, {}, gone, table)
<1>1. /\ index.fts \in [Message -> SUBSET Word] /\ index.meta \in [Message -> Content]
      /\ index.dirty \in SUBSET Message
  BY DEF IndexType
<1> QED BY <1>1 DEF SyncDelete, IndexType, Content, Effect

\* Either nothing happens, or what is there is found and what is gone is dropped.
LEMMA SyncFinds ==
  ASSUME NEW index \in IndexType, NEW table \in [Message -> Rows], NEW p \in RawProc,
         NEW upsert \in SUBSET Message, NEW gone \in SUBSET Message
  PROVE  /\ Sync(p, index, upsert, gone, table) \in IndexType
         /\ fast[p] # "on" => Sync(p, index, upsert, gone, table) = index
         /\ fast[p] = "on" => Effect(Sync(p, index, upsert, gone, table), index, upsert, gone, table)
<1> DEFINE deleted == SyncDelete(index, gone)
           new == SyncUpsert(deleted, upsert, table)
<1>1. deleted \in IndexType /\ Effect(deleted, index, {}, gone, table)
  BY SyncDeleteKeeps
<1> HIDE DEF deleted
<1>2. new \in IndexType /\ Effect(new, deleted, upsert, {}, table)
  BY <1>1, SyncUpsertFinds
<1>3. Sync(p, index, upsert, gone, table) = IF fast[p] # "on" THEN index ELSE new
  BY DEF Sync, deleted
<1> HIDE DEF new
<1>4. Effect(new, index, upsert, gone, table)
  BY <1>1, <1>2 DEF Effect
<1> QED BY <1>1, <1>2, <1>3, <1>4

\* A rebuilt index covers the table.
LEMMA RebuiltCovers ==
  ASSUME message \in [Message -> Rows]
  PROVE  /\ Rebuilt \in IndexType
         /\ \A m \in Sealed : message[m].content \in Word => message[m].content \in Rebuilt.fts[m]
<1> DEFINE empty == [fts |-> [m \in Message |-> {}], meta |-> [m \in Message |-> Blank], dirty |-> {}]
           new == SyncUpsert(empty, Sealed, message)
<1>1. empty \in IndexType /\ Sealed \in SUBSET Message
  BY DEF IndexType, Content, Sealed
<1>2. Rebuilt = new
  BY DEF Rebuilt
<1> HIDE DEF empty
<1>4. new \in IndexType /\ Effect(new, empty, Sealed, {}, message)
  BY <1>1, SyncUpsertFinds
<1> QED BY <1>2, <1>4 DEF Effect, Sealed

\* When a process searches, the index finds every sealed message.
LEMMA EnsuredFinds ==
  ASSUME RawInv, NEW p \in RawProc, fast[p] = "on"
  PROVE  /\ Ensured(p) \in IndexType
         /\ \A m \in Sealed : message[m].content \in Word => message[m].content \in Ensured(p).fts[m]
<1>1. CASE complete # "yes"
  BY <1>1, RebuiltCovers DEF Ensured, RawInv, RawTypeOK
<1>2. CASE complete = "yes"
  <2> DEFINE found == dirty \cap Sealed
             gone == dirty \ Sealed
             new == Sync(p, Index, found, gone, message)
  <2>1. Ensured(p) = new
    BY <1>2 DEF Ensured
  <2>2. /\ Index \in IndexType /\ message \in [Message -> Rows] /\ dirty \in SUBSET Message
        /\ Index.dirty = dirty /\ Covers(Index, message)
    BY <1>2 DEF RawInv, RawTypeOK, IndexType, Index
  <2>3. found \in SUBSET Message /\ gone \in SUBSET Message
    BY <2>2
  <2>4. \A m \in Sealed : m \in Message /\ m \notin gone /\ (m \notin found => m \notin dirty)
    BY DEF Sealed
  <2> HIDE DEF found, gone
  <2>5. new \in IndexType /\ Effect(new, Index, found, gone, message)
    BY <2>2, <2>3, SyncFinds
  <2> HIDE DEF new
  <2>6. \A m \in Sealed : message[m].content \in Word => message[m].content \in new.fts[m]
    BY <2>2, <2>4, <2>5 DEF Covers, Sealed, Effect
  <2> QED BY <2>1, <2>5, <2>6
<1> QED BY <1>1, <1>2

-----------------------------------------------------------------------------
(* Writes *)

\* Where there are triggers, a message that is not marked is as it was: the index still covers the
\* table, and it covers the first save of a namespace.
LEMMA TriggersCover ==
  ASSUME RawInv, NEW new \in [Message -> Rows]
  PROVE  /\ Triggers(Index, new) \in IndexType
         /\ tracked /\ complete \in {"yes", "new"} => Covers(Triggers(Index, new), new)
<1> DEFINE marked == Triggers(Index, new)
<1>1. /\ message \in [Message -> Rows] /\ Index \in IndexType
      /\ Index.fts = fts /\ Index.dirty = dirty /\ dirty \in SUBSET Message
      /\ complete = "new" => \A m \in Message : message[m] = Absent
      /\ tracked /\ complete = "yes" => Covers(Index, message)
  BY DEF RawInv, RawTypeOK, Index, IndexType
<1>2. marked = [Index EXCEPT !.dirty = dirty \cup {m \in Message : tracked /\ new[m] # message[m]}]
  BY <1>1 DEF Triggers
<1>3. /\ marked \in IndexType /\ marked.fts = Index.fts
      /\ marked.dirty = dirty \cup {m \in Message : tracked /\ new[m] # message[m]}
  BY <1>1, <1>2 DEF IndexType
<1> HIDE DEF marked
<1>4. ASSUME tracked, complete \in {"yes", "new"} PROVE Covers(marked, new)
  <2>1. SUFFICES ASSUME NEW m \in Message, new[m].where = "block", m \notin marked.dirty, new[m].content \in Word
                 PROVE  new[m].content \in marked.fts[m]
    BY DEF Covers
  <2>2. new[m] = message[m] /\ m \notin dirty
    BY <1>3, <1>4, <2>1
  <2>3. complete = "yes"
    BY <1>1, <1>4, <2>1, <2>2 DEF Absent
  <2> QED BY <1>1, <1>3, <1>4, <2>1, <2>2, <2>3 DEF Covers
<1> QED BY <1>3, <1>4 DEF marked

\* A write keeps the invariant, if the index it leaves covers the table it leaves.
LEMMA WriteKeeps ==
  ASSUME RawInv, NEW new \in [Message -> Rows], NEW indexed \in BOOLEAN, NEW index \in IndexType,
         Write(new, indexed), Becomes(index),
         tracked /\ complete' = "yes" => Covers(index, new)
  PROVE  RawInv'
<1>1. Index' = index /\ message' = new
  BY DEF Index, Becomes, IndexType, Write
<1>2. /\ complete' \in {"yes", "none", "no"}
      /\ tracked' = tracked /\ fast' = fast /\ answer' = answer
  BY DEF Write, RawInv, RawTypeOK
<1> QED BY <1>1, <1>2 DEF RawInv, RawTypeOK, SearchMissesNothing, Covers

\* A write that leaves the marks to the triggers.
LEMMA TriggeredWriteKeeps ==
  ASSUME RawInv, NEW new \in [Message -> Rows], Write(new, FALSE),
         Becomes(Triggers(Index, new)) \/ Becomes(Cascade(Triggers(Index, new), new))
  PROVE  RawInv'
<1> DEFINE marked == Triggers(Index, new)
           alone == Cascade(marked, new)
<1>1. marked \in IndexType /\ (tracked /\ complete = "yes" => Covers(marked, new))
  BY TriggersCover
<1>2. complete' = "yes" => complete = "yes"
  BY DEF Write
<1> HIDE DEF marked
<1>3. alone \in IndexType /\ alone.fts = marked.fts /\ alone.dirty = marked.dirty
  BY <1>1 DEF Cascade, IndexType, Content
<1> HIDE DEF alone
<1>4. tracked /\ complete = "yes" => Covers(alone, new)
  BY <1>1, <1>3 DEF Covers
<1>5. CASE Becomes(marked)
  BY <1>1, <1>2, <1>5, WriteKeeps
<1>6. CASE Becomes(alone)
  BY <1>2, <1>3, <1>4, <1>6, WriteKeeps
<1> QED BY <1>5, <1>6 DEF marked, alone

\* A save that brings the index up to date itself.
LEMMA SyncCovers ==
  ASSUME RawInv, NEW p \in RawProc, NEW new \in [Message -> Rows], NEW kept \in [Message -> Rows],
         NEW upsert \in SUBSET Message, NEW gone \in SUBSET Message,
         \A m \in Message : IF m \in gone THEN new[m] = Absent ELSE kept[m] = new[m]
  PROVE  /\ Sync(p, Triggers(Index, kept), upsert, gone, new) \in IndexType
         /\ tracked /\ complete \in {"yes", "new"} => Covers(Sync(p, Triggers(Index, kept), upsert, gone, new), new)
<1> DEFINE marked == Triggers(Index, kept)
           synced == Sync(p, marked, upsert, gone, new)
<1>1. marked \in IndexType /\ (tracked /\ complete \in {"yes", "new"} => Covers(marked, kept))
  BY TriggersCover
<1> HIDE DEF marked
<1>2. /\ synced \in IndexType
      /\ fast[p] # "on" => synced = marked
      /\ fast[p] = "on" => Effect(synced, marked, upsert, gone, new)
  BY <1>1, SyncFinds
<1> HIDE DEF synced
<1>3. \A m \in gone : new[m].where # "block"
  BY DEF Absent
<1>4. Covers(marked, kept) => Covers(synced, new)
  BY <1>2, <1>3 DEF Covers, Effect
<1> QED BY <1>1, <1>2, <1>4 DEF synced, marked

\* The saves of the package keep the invariant, with an index and without one.
LEMMA SavesKeep ==
  ASSUME RawInv, NEW p \in RawProc, AppendUnit(p) \/ SaveChanges(p) \/ SaveWhole(p)
  PROVE  RawInv'
<1>1. message \in [Message -> Rows] /\ \A new, indexed : Write(new, indexed) /\ complete' = "yes" => complete \in {"yes", "new"}
  BY DEF RawInv, RawTypeOK, Write
<1>2. CASE AppendUnit(p)
  <2>1. PICK m \in Message, c \in Content :
               LET new == [message EXCEPT ![m] = [where |-> "tail", content |-> c]]
               IN Write(new, FALSE) /\ Becomes(Sync(p, Triggers(Index, new), {m}, {}, new))
    BY <1>2 DEF AppendUnit
  <2> DEFINE new == [message EXCEPT ![m] = [where |-> "tail", content |-> c]]
             synced == Sync(p, Triggers(Index, new), {m}, {}, new)
  <2>2. new \in [Message -> Rows]
    BY <1>1 DEF Rows
  <2>3. Write(new, FALSE) /\ Becomes(synced)
    BY <2>1
  <2> HIDE DEF new
  <2>4. synced \in IndexType /\ (tracked /\ complete \in {"yes", "new"} => Covers(synced, new))
    BY <2>2, SyncCovers
  <2> HIDE DEF synced
  <2> QED BY <1>1, <2>2, <2>3, <2>4, WriteKeeps
<1>3. CASE SaveWhole(p)
  <2>1. PICK new \in [Message -> Rows] :
               /\ Write(new, fast[p] = "on")
               /\ Becomes(Sync(p, Triggers(Index, new), {m \in Message : new[m].where = "block"}, {}, new))
    BY <1>3 DEF SaveWhole
  <2> DEFINE upsert == {m \in Message : new[m].where = "block"}
             synced == Sync(p, Triggers(Index, new), upsert, {}, new)
  <2>2. Becomes(synced) /\ upsert \in SUBSET Message
    BY <2>1
  <2> HIDE DEF upsert
  <2>3. synced \in IndexType /\ (tracked /\ complete \in {"yes", "new"} => Covers(synced, new))
    BY <2>2, SyncCovers
  <2> HIDE DEF synced
  <2> QED BY <1>1, <2>1, <2>2, <2>3, WriteKeeps
<1>4. CASE SaveChanges(p)
  <2>1. PICK new \in [Message -> Rows] :
               LET changed == {m \in Message : new[m] # message[m]}
                   gone == {m \in changed : new[m] = Absent}
                   kept == [m \in Message |-> IF m \in gone THEN message[m] ELSE new[m]]
                   synced == Sync(p, Triggers(Index, kept), changed \ gone, gone, new)
               IN /\ Write(new, fast[p] = "on")
                  /\ Becomes(Cascade([synced EXCEPT !.dirty = @ \cup {m \in gone : tracked}], new))
    BY <1>4 DEF SaveChanges
  <2> DEFINE changed == {m \in Message : new[m] # message[m]}
             gone == {m \in changed : new[m] = Absent}
             kept == [m \in Message |-> IF m \in gone THEN message[m] ELSE new[m]]
             upsert == changed \ gone
             synced == Sync(p, Triggers(Index, kept), upsert, gone, new)
             remarked == [synced EXCEPT !.dirty = @ \cup {m \in gone : tracked}]
             alone == Cascade(remarked, new)
  <2>2. Write(new, fast[p] = "on") /\ Becomes(alone)
    BY <2>1
  <2>3. /\ upsert \in SUBSET Message /\ gone \in SUBSET Message /\ kept \in [Message -> Rows]
        /\ \A m \in Message : IF m \in gone THEN new[m] = Absent ELSE kept[m] = new[m]
    BY <1>1
  <2> HIDE DEF upsert, gone, kept
  <2>4. synced \in IndexType /\ (tracked /\ complete \in {"yes", "new"} => Covers(synced, new))
    BY <2>3, SyncCovers
  <2> HIDE DEF synced
  <2>5. /\ alone \in IndexType /\ alone.fts = synced.fts
        /\ alone.dirty = synced.dirty \cup {m \in gone : tracked}
    BY <2>3, <2>4 DEF Cascade, IndexType, Content
  <2> HIDE DEF alone
  <2>6. Covers(synced, new) => Covers(alone, new)
    BY <2>5 DEF Covers
  <2> QED BY <1>1, <2>2, <2>4, <2>5, <2>6, WriteKeeps
<1> QED BY <1>2, <1>3, <1>4

-----------------------------------------------------------------------------
(* The theorem *)

\* No search misses a sealed message that has its word, whichever writers wrote
\* what they knew of the index (searchRawMemory, ensureRawSearchIndex and the triggers).
THEOREM SearchesAreComplete == RawSpec => []SearchMissesNothing
<1>1. RawInit => RawInv
  <2> SUFFICES ASSUME RawInit PROVE RawInv
    OBVIOUS
  <2>1. fts \in [Message -> SUBSET Word] /\ meta \in [Message -> Content] /\ dirty \in SUBSET Message
    BY DEF RawInit
  <2>2. Index \in IndexType
    BY <2>1 DEF Index, IndexType
  <2> QED BY <2>2 DEF RawInit, RawInv, RawTypeOK, SearchMissesNothing, NotAsked
<1>2. RawInv /\ [RawNext]_rawVars => RawInv'
  <2> SUFFICES ASSUME RawInv, [RawNext]_rawVars PROVE RawInv'
    OBVIOUS
  <2>1. CASE ForeignWrite
    BY <2>1, TriggeredWriteKeeps DEF ForeignWrite
  <2>2. ASSUME NEW p \in RawProc, AppendUnit(p) \/ SaveChanges(p) \/ SaveWhole(p) PROVE RawInv'
    BY <2>2, SavesKeep
  <2>3. ASSUME NEW p \in RawProc, EnableRawSearchFts(p) PROVE RawInv'
    <3>1. UNCHANGED <<message, Index, answer>>
      BY <2>3 DEF EnableRawSearchFts, Index
    <3>2. /\ fast \in [RawProc -> {"closed", "on", "off"}] /\ \A q \in RawProc : fast[q] = "on" => tracked
          /\ tracked \in BOOLEAN /\ complete \in {"new", "none", "no", "yes"}
      BY DEF RawInv, RawTypeOK
    <3>3. CASE fast' = [fast EXCEPT ![p] = "on"] /\ tracked' = TRUE
               /\ complete' = IF ~tracked /\ complete = "yes" THEN "no" ELSE complete
      <4>1. fast' \in [RawProc -> {"closed", "on", "off"}]
        BY <3>2, <3>3
      <4>2. /\ tracked' = TRUE /\ complete' \in {"new", "none", "no", "yes"}
            /\ complete' = "new" => complete = "new"
        BY <3>2, <3>3
      <4>3. complete' = "yes" => tracked /\ complete = "yes"
        BY <3>2, <3>3
      <4> QED BY <3>1, <4>1, <4>2, <4>3 DEF RawInv, RawTypeOK, SearchMissesNothing, Covers
    <3>4. CASE fast' = [fast EXCEPT ![p] = "off"] /\ UNCHANGED <<tracked, complete>>
      <4>1. fast' \in [RawProc -> {"closed", "on", "off"}] /\ \A q \in RawProc : fast'[q] = "on" => tracked
        BY <3>2, <3>4
      <4> QED BY <3>1, <3>4, <4>1 DEF RawInv, RawTypeOK, SearchMissesNothing, Covers
    <3> QED BY <2>3, <3>3, <3>4 DEF EnableRawSearchFts
  <2>4. ASSUME NEW p \in RawProc, CloseRaw(p) PROVE RawInv'
    <3>1. UNCHANGED <<message, Index, answer>>
      BY <2>4 DEF CloseRaw, Index
    <3> QED BY <2>4, <3>1 DEF CloseRaw, RawInv, RawTypeOK, SearchMissesNothing, Covers
  <2>5. ASSUME NEW p \in RawProc, RebuildRawSearchIndex(p) PROVE RawInv'
    <3>1. /\ Rebuilt \in IndexType
          /\ \A m \in Sealed : message[m].content \in Word => message[m].content \in Rebuilt.fts[m]
      BY RebuiltCovers DEF RawInv, RawTypeOK
    <3>2. Index' = Rebuilt
      BY <2>5, <3>1 DEF RebuildRawSearchIndex, Becomes, Index, IndexType
    <3>3. Index' \in IndexType /\ Covers(Index', message)
      BY <3>1, <3>2 DEF Covers, Sealed
    <3> QED BY <2>5, <3>3 DEF RebuildRawSearchIndex, RawInv, RawTypeOK, SearchMissesNothing
  <2>6. ASSUME NEW p \in RawProc, NEW w \in Word, SearchRawMemory(p, w) PROVE RawInv'
    <3>1. /\ Ensured(p) \in IndexType
          /\ \A m \in Sealed : message[m].content \in Word => message[m].content \in Ensured(p).fts[m]
      BY <2>6, EnsuredFinds DEF SearchRawMemory
    <3>2. Index' = Ensured(p) /\ fts' = Ensured(p).fts
      BY <2>6, <3>1 DEF SearchRawMemory, Becomes, Index, IndexType
    <3>3. Index' \in IndexType /\ Covers(Index', message)
      BY <3>1, <3>2 DEF Covers, Sealed
    <3>4. SearchMissesNothing'
      BY <2>6, <3>1, <3>2 DEF SearchRawMemory, Answered, SearchMissesNothing, Sealed
    <3> QED BY <2>6, <3>3, <3>4 DEF SearchRawMemory, RawInv, RawTypeOK
  <2>7. ASSUME NEW p \in RawProc, NEW w \in Word, SearchWithoutIndex(p, w) PROVE RawInv'
    <3>1. UNCHANGED <<message, Index>>
      BY <2>7 DEF SearchWithoutIndex, Index
    <3>2. SearchMissesNothing'
      BY <2>7 DEF SearchWithoutIndex, Answered, SearchMissesNothing, Sealed
    <3> QED BY <2>7, <3>1, <3>2 DEF SearchWithoutIndex, RawInv, RawTypeOK, Covers
  <2>8. CASE UNCHANGED rawVars
    <3>1. UNCHANGED <<message, Index, tracked, complete, fast, answer>>
      BY <2>8 DEF rawVars, Index
    <3> QED BY <3>1 DEF RawInv, RawTypeOK, SearchMissesNothing, Covers
  <2> QED BY <2>1, <2>2, <2>3, <2>4, <2>5, <2>6, <2>7, <2>8 DEF RawNext
<1>3. RawInv => SearchMissesNothing
  BY DEF RawInv
<1> QED BY <1>1, <1>2, <1>3, PTL DEF RawSpec

-----------------------------------------------------------------------------
(* ModelCalls *)

CallStages == {"idle", "lookup", "asking", "ready", "waiting", "done", "failed"}
AtWork == {"lookup", "asking", "ready", "waiting"}
Slice == [first : Int, last : Int, depth : Int]
SliceReading == [slice : Slice, cut : BOOLEAN]
SeenCites == {{}} \cup Cites \cup {s \cap Range(Owner) : s \in Cites}
SeenReply == [cut : BOOLEAN, called : BOOLEAN, text : Texts \cup {<<>>}, cites : SeenCites]
Offs == {TRUE, FALSE, ForceOff}
Task ==
  [stage : CallStages, kind : TaskKinds \cup {"none"}, route : Routes \cup {"none"}, off : Offs,
   attempt : Int, sent : Int, unregistered : BOOLEAN, held : BOOLEAN, slices : Seq(Slice), got : Seq(SliceReading),
   calls : Int, reply : SeenReply]

\* Slices follow each other up to the end of the Block.
Joined(s) ==
  /\ s # <<>> /\ s[Len(s)].last = Len(Owner)
  /\ \A i \in 1 .. Len(s) : s[i].first <= s[i].last + 1
  /\ \A i \in 1 .. Len(s) - 1 : s[i + 1].first = s[i].last + 1

\* What was read follows each other from the first unit.
ReadOn(got) ==
  /\ got # <<>> => got[1].slice.first = 1
  /\ \A i \in 1 .. Len(got) : got[i].slice.first <= got[i].slice.last + 1 /\ ~got[i].cut
  /\ \A i \in 1 .. Len(got) - 1 : got[i + 1].slice.first = got[i].slice.last + 1
ReadTo(got) == IF got = <<>> THEN 0 ELSE got[Len(got)].slice.last

\* An extraction at work has slices left, and they go on where it stopped.
SlicesFit(got, slices) == Joined(slices) /\ ReadOn(got) /\ slices[1].first = ReadTo(got) + 1

ReplyFits(k) ==
  /\ k.kind \in {"graphProjector", "topicProjector", "eventDuplicateDecider"} => ~k.reply.cut
  /\ k.kind # "externalMemoryDecider" => k.reply.cites \subseteq Range(Owner)
  /\ k.kind = "topicProjector" => k.reply.cites = Range(Owner)

ReadingFits(k) ==
  k.kind = "extractor" =>
    /\ k.reply = NoReply
    /\ k.stage \in AtWork => SlicesFit(k.got, k.slices)
    /\ k.stage = "done" => Tiled(k.got) /\ \A i \in 1 .. Len(k.got) : ~k.got[i].cut

CallFits(k) == ReadingFits(k) /\ (k.stage = "done" => ReplyFits(k))

BridgeTypes == call \in [Callers -> Task] /\ memoryModel \in {"auto"} \cup Routes
BridgeInv == BridgeTypes /\ \A c \in Callers : CallFits(call[c])

LEMMA NoReplyIsTyped == NoReply \in SeenReply /\ Idle \in Task
<1>1. NoReply \in SeenReply BY DEF NoReply, SeenReply, SeenCites
<1>2. <<>> \in Seq(Slice) /\ <<>> \in Seq(SliceReading) OBVIOUS
<1>3. "idle" \in CallStages /\ "none" \in TaskKinds \cup {"none"} /\ FALSE \in Offs BY DEF CallStages, Offs
<1>4. TRUE \in BOOLEAN /\ FALSE \in BOOLEAN /\ "none" \in Routes \cup {"none"} /\ 0 \in Int OBVIOUS
<1>5. Idle \in Task BY <1>1, <1>2, <1>3, <1>4 DEF Idle, Task
<1> QED BY <1>1, <1>5

LEMMA AFailedCallFits ==
  ASSUME NEW k \in Task
  PROVE  LET n == [Idle EXCEPT !.stage = "failed", !.kind = k.kind] IN n \in Task /\ CallFits(n)
<1> DEFINE n == [Idle EXCEPT !.stage = "failed", !.kind = k.kind]
<1>1. n \in Task BY NoReplyIsTyped DEF Task, CallStages
<1>2. n.stage = "failed" /\ n.reply = NoReply BY NoReplyIsTyped DEF Task, Idle
<1>3. CallFits(n) BY <1>2 DEF CallFits, ReadingFits, AtWork
<1> QED BY <1>1, <1>3

LEMMA AnAskedCallFits ==
  ASSUME NEW c \in Callers, NEW k \in Task, memoryModel \in {"auto"} \cup Routes,
         k.kind = "extractor" => k.reply = NoReply /\ SlicesFit(k.got, k.slices)
  PROVE  Asked(c, k) \in Task /\ CallFits(Asked(c, k))
<1> DEFINE n == Asked(c, k)
<1>1. ResolveRoute(c) \in Routes BY ModelCallsAssumption DEF ResolveRoute
<1> DEFINE r == ResolveRoute(c)
<1> HIDE DEF r
<1>2. n \in Task
  <2>1. n = [k EXCEPT !.stage = "lookup", !.route = r, !.off = FALSE, !.attempt = 1, !.sent = 0, !.unregistered = FALSE]
        BY DEF Asked, r
  <2>2. r \in Routes \cup {"none"} BY <1>1 DEF r
  <2>3. "lookup" \in CallStages /\ 1 \in Int /\ 0 \in Int /\ FALSE \in BOOLEAN /\ FALSE \in Offs BY DEF CallStages, Offs
  <2> QED BY <2>1, <2>2, <2>3 DEF Task
<1>3. n.stage = "lookup" /\ n.kind = k.kind /\ n.reply = k.reply /\ n.got = k.got /\ n.slices = k.slices
      BY DEF Task, Asked
<1>4. CallFits(n) BY <1>3 DEF CallFits, ReadingFits, AtWork
<1> QED BY <1>2, <1>4

\* Cutting the next slice leaves what is left joined.
LEMMA CutsStayJoined ==
  ASSUME NEW got \in Seq(SliceReading), NEW slices \in Seq(Slice), SlicesFit(got, slices),
         NEW u \in Head(slices).first .. Head(slices).last - 1
  PROVE  LET cut == CutAt(Head(slices), u) \o Tail(slices) IN cut \in Seq(Slice) /\ SlicesFit(got, cut)
<1> DEFINE s == Head(slices)
           p == [first |-> s.first, last |-> u, depth |-> s.depth + 1]
           q == [first |-> u + 1, last |-> s.last, depth |-> s.depth + 1]
           pq == <<p, q>>
           rest == Tail(slices)
           cut == pq \o rest
<1>1. slices # <<>> BY DEF SlicesFit, Joined
<1>2. s \in Slice /\ s = slices[1] BY <1>1
<1>3. s.first \in Int /\ s.last \in Int /\ s.depth \in Int /\ u \in Int /\ s.first <= u /\ u < s.last BY <1>2 DEF Slice
<1>4. p \in Slice /\ q \in Slice BY <1>3 DEF Slice
<1>5. p.first = s.first /\ p.last = u /\ q.first = u + 1 /\ q.last = s.last OBVIOUS
<1> HIDE DEF p, q
<1>6. pq \in Seq(Slice) /\ Len(pq) = 2 /\ pq[1] = p /\ pq[2] = q BY <1>4
<1>7. rest \in Seq(Slice) /\ Len(rest) = Len(slices) - 1 /\ \A i \in 1 .. Len(rest) : rest[i] = slices[i + 1]
      BY <1>1, HeadTailProperties
<1> HIDE DEF pq, rest
<1>8. cut \in Seq(Slice) /\ Len(cut) = 2 + Len(rest)
  <2>1. pq \in Seq(Slice) /\ rest \in Seq(Slice) BY <1>6, <1>7
  <2>2. cut \in Seq(Slice) BY <2>1, ConcatProperties
  <2>3. Len(cut) = Len(pq) + Len(rest) BY <2>1, ConcatProperties
  <2> QED BY <2>2, <2>3, <1>6
<1>9. \A i \in 1 .. 2 + Len(rest) : cut[i] = IF i <= 2 THEN pq[i] ELSE rest[i - 2]
  <2>1. pq \in Seq(Slice) /\ rest \in Seq(Slice) BY <1>6, <1>7
  <2>2. \A i \in 1 .. Len(pq) + Len(rest) : cut[i] = IF i <= Len(pq) THEN pq[i] ELSE rest[i - Len(pq)]
        BY <2>1, ConcatProperties
  <2> QED BY <2>2, <1>6
<1> HIDE DEF cut
<1> DEFINE l == Len(slices)
<1>10. l \in Nat /\ l >= 1 /\ Len(cut) = l + 1 BY <1>1, <1>7, <1>8
<1>11. cut[1] = p /\ cut[2] = q
  <2>1. Len(rest) \in Nat BY <1>7
  <2>2. cut[1] = pq[1] /\ cut[2] = pq[2] BY <2>1, <1>9
  <2> QED BY <2>2, <1>6
<1>12. \A i \in 3 .. l + 1 : cut[i] = slices[i - 1]
  <2> TAKE i \in 3 .. l + 1
  <2>1. cut[i] = rest[i - 2] BY <1>7, <1>9, <1>10
  <2>2. rest[i - 2] = slices[i - 1] BY <1>7, <1>10
  <2> QED BY <2>1, <2>2
<1>13. \A i \in 1 .. l : slices[i] \in Slice /\ slices[i].first \in Int /\ slices[i].last \in Int
  <2> TAKE i \in 1 .. l
  <2>1. slices[i] \in Slice OBVIOUS
  <2> QED BY <2>1 DEF Slice
<1> HIDE DEF s, l
<1>14. slices[l].last = Len(Owner)
       /\ (\A i \in 1 .. l : slices[i].first <= slices[i].last + 1)
       /\ (\A i \in 1 .. l - 1 : slices[i + 1].first = slices[i].last + 1)
       BY DEF SlicesFit, Joined, l
<1>15. cut # <<>> BY <1>8, <1>10
<1>16. cut[Len(cut)].last = Len(Owner)
  <2>1. CASE l = 1 BY <2>1, <1>2, <1>5, <1>10, <1>11, <1>14
  <2>2. CASE l > 1 BY <2>2, <1>10, <1>12, <1>14
  <2> QED BY <2>1, <2>2, <1>10
<1>17. \A i \in 1 .. l + 1 : cut[i].first <= cut[i].last + 1
  <2> TAKE i \in 1 .. l + 1
  <2>1. CASE i = 1 BY <2>1, <1>3, <1>5, <1>11
  <2>2. CASE i = 2 BY <2>2, <1>3, <1>5, <1>11
  <2>3. CASE i > 2
    <3>1. cut[i] = slices[i - 1] /\ i - 1 \in 1 .. l BY <2>3, <1>10, <1>12
    <3> QED BY <3>1, <1>14
  <2> QED BY <2>1, <2>2, <2>3
<1>18. \A i \in 1 .. l : cut[i + 1].first = cut[i].last + 1
  <2> TAKE i \in 1 .. l
  <2>1. CASE i = 1 BY <2>1, <1>3, <1>5, <1>11
  <2>2. CASE i = 2
    <3>1. cut[3] = slices[2] BY <2>2, <1>10, <1>12
    <3>2. slices[2].first = slices[1].last + 1 BY <2>2, <1>10, <1>14
    <3> QED BY <2>2, <3>1, <3>2, <1>2, <1>5, <1>11
  <2>3. CASE i > 2
    <3>1. cut[i] = slices[i - 1] /\ cut[i + 1] = slices[i] BY <2>3, <1>10, <1>12
    <3>2. slices[(i - 1) + 1].first = slices[i - 1].last + 1 BY <2>3, <1>10, <1>14
    <3> QED BY <2>3, <3>1, <3>2, <1>10
  <2> QED BY <2>1, <2>2, <2>3
<1>19. Joined(cut) BY <1>10, <1>15, <1>16, <1>17, <1>18 DEF Joined
<1>20. cut[1].first = slices[1].first BY <1>2, <1>5, <1>11
<1>21. SlicesFit(got, cut) BY <1>19, <1>20 DEF SlicesFit
<1>22. CutAt(s, u) = pq BY DEF CutAt, pq, p, q
<1> QED BY <1>8, <1>21, <1>22 DEF cut, rest, s

\* A task that is put in the place of another fits, and so do all others.
LEMMA PutFits ==
  ASSUME BridgeInv, NEW c \in Callers, NEW n \in Task, CallFits(n), Put(c, n),
         memoryModel' \in {"auto"} \cup Routes
  PROVE  BridgeInv'
<1>1. call' = [call EXCEPT ![c] = n] BY DEF Put
<1>2. call' \in [Callers -> Task] BY <1>1 DEF BridgeInv, BridgeTypes
<1>3. \A d \in Callers : CallFits(call'[d])
  <2> TAKE d \in Callers
  <2>1. CASE d = c
    <3>1. call'[d] = n BY <1>1, <2>1 DEF BridgeInv, BridgeTypes
    <3> QED BY <3>1
  <2>2. CASE d # c
    <3>1. call'[d] = call[d] BY <1>1, <2>2 DEF BridgeInv, BridgeTypes
    <3>2. CallFits(call[d]) BY DEF BridgeInv
    <3> QED BY <3>1, <3>2
  <2> QED BY <2>1, <2>2
<1>4. (\A d \in Callers : CallFits(call[d]))' BY <1>3 DEF CallFits, ReadingFits, ReplyFits
<1> QED BY <1>2, <1>4 DEF BridgeInv, BridgeTypes

\* A step inside a call leaves what it has read and what is left alone.
Onward(k, n) ==
  /\ n \in Task /\ n.stage \in AtWork
  /\ n.kind = k.kind /\ n.reply = k.reply /\ n.got = k.got /\ n.slices = k.slices

LEMMA OnwardFits ==
  ASSUME NEW k \in Task, CallFits(k), k.stage \in AtWork, NEW n, Onward(k, n)
  PROVE  n \in Task /\ CallFits(n)
<1>1. n.stage # "done" BY DEF Onward, AtWork
<1> QED BY <1>1 DEF Onward, CallFits, ReadingFits

LEMMA DividedFits ==
  ASSUME BridgeTypes, NEW c \in Callers, NEW k \in Task, CallFits(k), k.stage \in AtWork,
         k.kind = "extractor", Divide(c, k)
  PROVE  \E n \in Task : CallFits(n) /\ Put(c, n)
<1> DEFINE s == Head(k.slices)
           failed(m) == [Idle EXCEPT !.stage = "failed", !.kind = m.kind]
<1>1. memoryModel \in {"auto"} \cup Routes BY DEF BridgeTypes
<1>2. k.got \in Seq(SliceReading) /\ k.slices \in Seq(Slice) /\ k.reply = NoReply /\ SlicesFit(k.got, k.slices)
      BY DEF Task, CallFits, ReadingFits
<1>3. ASSUME NEW m \in Task, Fails(c, m) PROVE \E n \in Task : CallFits(n) /\ Put(c, n)
  <2>1. failed(m) \in Task /\ CallFits(failed(m)) BY AFailedCallFits
  <2>2. Put(c, failed(m)) BY <1>3 DEF Fails
  <2> HIDE DEF failed
  <2> QED BY <2>1, <2>2
<1>4. CASE s.depth >= MaxDepth \/ Splits(s) = {}
  <2>1. Fails(c, k) BY <1>4 DEF Divide
  <2> QED BY <1>3, <2>1
<1>5. CASE ~(s.depth >= MaxDepth \/ Splits(s) = {})
  <2> DEFINE div(p) == [k EXCEPT !.slices = p \o Tail(@)]
             next(p) == Asked(c, div(p))
  <2>1. PICK p \in Splits(s) : IF BudgetLeft(next(p)) THEN Put(c, next(p)) ELSE Fails(c, next(p))
    <3>1. \E p \in Splits(s) : LET nx == Asked(c, [k EXCEPT !.slices = p \o Tail(@)])
                              IN IF BudgetLeft(nx) THEN Put(c, nx) ELSE Fails(c, nx)
          BY <1>5, Zenon DEF Divide
    <3> QED BY <3>1, Zenon
  <2>2. PICK u \in s.first .. s.last - 1 : p = CutAt(s, u) BY DEF Splits
  <2> DEFINE cut == CutAt(s, u) \o Tail(k.slices)
  <2>3. cut \in Seq(Slice) /\ SlicesFit(k.got, cut) BY <1>2, CutsStayJoined
  <2> DEFINE d == div(p)
  <2>4. d = [k EXCEPT !.slices = cut] BY <2>2 DEF Task
  <2> HIDE DEF cut, d
  <2>5. d \in Task BY <2>3, <2>4 DEF Task
  <2>6. d.kind = k.kind /\ d.got = k.got /\ d.slices = cut /\ d.reply = k.reply BY <2>4 DEF Task
  <2>7. Asked(c, d) \in Task /\ CallFits(Asked(c, d))
    <3>1. d.kind = "extractor" => d.reply = NoReply /\ SlicesFit(d.got, d.slices) BY <1>2, <2>3, <2>6
    <3> QED BY <1>1, <2>5, <3>1, AnAskedCallFits
  <2> DEFINE e == next(p)
  <2>8. e = Asked(c, d) BY DEF d
  <2> HIDE DEF e, div
  <2>9. e \in Task /\ CallFits(e) BY <2>7, <2>8
  <2>10. IF BudgetLeft(e) THEN Put(c, e) ELSE Fails(c, e) BY <2>1, Zenon DEF e
  <2> HIDE DEF next
  <2>11. CASE BudgetLeft(e) BY <2>9, <2>10, <2>11
  <2>12. CASE ~BudgetLeft(e) BY <1>3, <2>9, <2>10, <2>12
  <2> QED BY <2>11, <2>12
<1> QED BY <1>4, <1>5

\* The next slice is read.
LEMMA ReadingsStayJoined ==
  ASSUME NEW got \in Seq(SliceReading), NEW slices \in Seq(Slice), SlicesFit(got, slices),
         NEW read, read = Append(got, [slice |-> Head(slices), cut |-> FALSE])
  PROVE  /\ read \in Seq(SliceReading) /\ Tail(slices) \in Seq(Slice) /\ ReadOn(read)
         /\ Tail(slices) # <<>> => SlicesFit(read, Tail(slices))
         /\ Tail(slices) = <<>> => Tiled(read)
<1> DEFINE m == Len(got)
           s == Head(slices)
           g == [slice |-> s, cut |-> FALSE]
           rest == Tail(slices)
           l == Len(slices)
<1>1. slices # <<>> BY DEF SlicesFit, Joined
<1>2. s \in Slice /\ s = slices[1] /\ l \in Nat /\ l >= 1 BY <1>1
<1>3. g \in SliceReading /\ g.slice = s /\ g.cut = FALSE BY <1>2 DEF SliceReading
<1>4. rest \in Seq(Slice) /\ Len(rest) = l - 1 /\ \A i \in 1 .. Len(rest) : rest[i] = slices[i + 1]
      BY <1>1, HeadTailProperties
<1> HIDE DEF g
<1>5. read \in Seq(SliceReading) /\ Len(read) = m + 1 /\ read[m + 1] = g /\ m \in Nat
      /\ \A i \in 1 .. m : read[i] = got[i]
  <2>1. read = Append(got, g) BY DEF g
  <2> QED BY <1>3, <2>1
<1>6. ReadOn(got) /\ Joined(slices) /\ slices[1].first = ReadTo(got) + 1 BY DEF SlicesFit
<1>7. s.first <= s.last + 1 BY <1>2, <1>6 DEF Joined
<1>8. m > 0 => s.first = got[m].slice.last + 1
  <2>1. m > 0 => ReadTo(got) = got[m].slice.last BY DEF ReadTo
  <2> QED BY <2>1, <1>2, <1>6
<1>9. m = 0 => s.first = 1
  <2>1. m = 0 => got = <<>> OBVIOUS
  <2> QED BY <2>1, <1>2, <1>6 DEF ReadTo
<1>10. /\ m > 0 => got[1].slice.first = 1
       /\ \A i \in 1 .. m : got[i].slice.first <= got[i].slice.last + 1 /\ ~got[i].cut
       /\ \A i \in 1 .. m - 1 : got[i + 1].slice.first = got[i].slice.last + 1
       BY <1>6 DEF ReadOn
<1> HIDE DEF m, s, rest, l
<1>11. read # <<>> BY <1>5
<1>12. read[1].slice.first = 1
  <2>1. CASE m = 0 BY <2>1, <1>3, <1>5, <1>9
  <2>2. CASE m > 0 BY <2>2, <1>5, <1>10
  <2> QED BY <2>1, <2>2, <1>5
<1>13. \A i \in 1 .. m + 1 : read[i].slice.first <= read[i].slice.last + 1 /\ ~read[i].cut
  <2> TAKE i \in 1 .. m + 1
  <2>1. CASE i = m + 1 BY <2>1, <1>3, <1>5, <1>7
  <2>2. CASE i # m + 1
    <3>1. i \in 1 .. m BY <2>2, <1>5
    <3> QED BY <3>1, <1>5, <1>10
  <2> QED BY <2>1, <2>2
<1>14. \A i \in 1 .. m : read[i + 1].slice.first = read[i].slice.last + 1
  <2> TAKE i \in 1 .. m
  <2>1. CASE i = m BY <2>1, <1>3, <1>5, <1>8
  <2>2. CASE i # m
    <3>1. i \in 1 .. m - 1 /\ i + 1 \in 1 .. m BY <2>2, <1>5
    <3> QED BY <3>1, <1>5, <1>10
  <2> QED BY <2>1, <2>2
<1>15. (m + 1) - 1 = m BY <1>5
<1>16. ReadOn(read) BY <1>5, <1>12, <1>13, <1>14, <1>15 DEF ReadOn
<1>17. ReadTo(read) = s.last BY <1>3, <1>5, <1>11 DEF ReadTo
<1>18. rest # <<>> => SlicesFit(read, rest)
  <2> HAVE rest # <<>>
  <2>1. Len(rest) >= 1 /\ l > 1 BY <1>2, <1>4
  <2>2. /\ slices[l].last = Len(Owner)
        /\ \A i \in 1 .. l : slices[i].first <= slices[i].last + 1
        /\ \A i \in 1 .. l - 1 : slices[i + 1].first = slices[i].last + 1
        BY <1>6 DEF Joined, l
  <2>3. rest[Len(rest)].last = Len(Owner) BY <2>1, <2>2, <1>2, <1>4
  <2>4. \A i \in 1 .. Len(rest) : rest[i].first <= rest[i].last + 1
    <3> TAKE i \in 1 .. Len(rest)
    <3>1. rest[i] = slices[i + 1] /\ i + 1 \in 1 .. l BY <1>2, <1>4
    <3> QED BY <3>1, <2>2
  <2>5. \A i \in 1 .. Len(rest) - 1 : rest[i + 1].first = rest[i].last + 1
    <3> TAKE i \in 1 .. Len(rest) - 1
    <3>1. rest[i] = slices[i + 1] /\ rest[i + 1] = slices[(i + 1) + 1] /\ i + 1 \in 1 .. l - 1 BY <1>2, <1>4
    <3> QED BY <3>1, <2>2
  <2>6. Joined(rest) BY <2>3, <2>4, <2>5 DEF Joined
  <2>7. rest[1].first = s.last + 1
    <3>1. rest[1] = slices[1 + 1] /\ 1 \in 1 .. l - 1 BY <2>1, <1>2, <1>4
    <3>2. slices[1 + 1].first = slices[1].last + 1 BY <2>2, <3>1
    <3> QED BY <3>1, <3>2, <1>2
  <2> QED BY <2>6, <2>7, <1>16, <1>17 DEF SlicesFit
<1>19. rest = <<>> => Tiled(read)
  <2> HAVE rest = <<>>
  <2>1. l = 1 BY <1>2, <1>4
  <2>2. s.last = Len(Owner) BY <2>1, <1>2, <1>6 DEF Joined, l
  <2>3. read[Len(read)].slice.last = Len(Owner) BY <2>2, <1>3, <1>5
  <2>4. DOMAIN read = 1 .. m + 1 BY <1>5
  <2> QED BY <2>3, <2>4, <1>5, <1>11, <1>12, <1>13, <1>14, <1>15 DEF Tiled
<1> QED BY <1>4, <1>5, <1>16, <1>18, <1>19 DEF rest

LEMMA SliceReadFits ==
  ASSUME BridgeTypes, NEW c \in Callers, NEW k \in Task, CallFits(k), k.stage \in AtWork,
         k.kind = "extractor", NEW r, r.cut = FALSE, SliceRead(c, k, r)
  PROVE  \E n \in Task : CallFits(n) /\ Put(c, n)
<1> DEFINE g == [slice |-> Head(k.slices), cut |-> FALSE]
           got == Append(k.got, g)
           rest == Tail(k.slices)
           n == [k EXCEPT !.got = got, !.slices = rest]
           failed == [Idle EXCEPT !.stage = "failed", !.kind = n.kind]
<1>1. memoryModel \in {"auto"} \cup Routes BY DEF BridgeTypes
<1>2. k.got \in Seq(SliceReading) /\ k.slices \in Seq(Slice) /\ k.reply = NoReply /\ SlicesFit(k.got, k.slices)
      BY DEF Task, CallFits, ReadingFits
<1>3. /\ got \in Seq(SliceReading) /\ rest \in Seq(Slice) /\ ReadOn(got)
      /\ rest # <<>> => SlicesFit(got, rest)
      /\ rest = <<>> => Tiled(got)
      BY <1>2, ReadingsStayJoined
<1>4. n = [k EXCEPT !.got = Append(@, [slice |-> Head(k.slices), cut |-> r.cut]), !.slices = rest] BY DEF Task
<1> HIDE DEF got, rest
<1>5. n \in Task BY <1>3 DEF Task
<1>6. n.kind = k.kind /\ n.got = got /\ n.slices = rest /\ n.reply = NoReply BY <1>2 DEF Task
<1>7. IF rest = <<>> THEN Put(c, Done(n))
      ELSE IF BudgetLeft(n) THEN Put(c, Asked(c, n)) ELSE Fails(c, n)
      BY <1>4, Zenon DEF SliceRead, rest
<1> HIDE DEF n
<1>8. CASE rest = <<>>
  <2> DEFINE d == Done(n)
  <2>1. d \in Task
    <3>1. "done" \in CallStages BY DEF CallStages
    <3>2. n.kind \in TaskKinds \cup {"none"} /\ n.got \in Seq(SliceReading) /\ n.reply \in SeenReply BY <1>5 DEF Task
    <3> QED BY <3>1, <3>2, NoReplyIsTyped DEF Done, Task
  <2>2. d.stage = "done" /\ d.kind = "extractor" /\ d.got = got /\ d.reply = NoReply
        BY <1>6, NoReplyIsTyped DEF Done, Task
  <2> HIDE DEF d
  <2>3. Tiled(got) /\ \A i \in 1 .. Len(got) : ~got[i].cut BY <1>3, <1>8 DEF ReadOn
  <2>4. NoReply.cut = FALSE /\ NoReply.cites = {} BY DEF NoReply
  <2>5. ReadingFits(d)
    <3>1. d.stage \notin AtWork BY <2>2 DEF AtWork
    <3> QED BY <2>2, <2>3, <3>1 DEF ReadingFits
  <2>6. ReplyFits(d) BY <2>2, <2>4 DEF ReplyFits
  <2>7. Put(c, d) BY <1>7, <1>8 DEF d
  <2> QED BY <2>1, <2>5, <2>6, <2>7 DEF CallFits
<1>9. CASE rest # <<>>
  <2>1. CASE BudgetLeft(n)
    <3>1. n.kind = "extractor" => n.reply = NoReply /\ SlicesFit(n.got, n.slices) BY <1>3, <1>6, <1>9
    <3>2. Asked(c, n) \in Task /\ CallFits(Asked(c, n)) BY <1>1, <1>5, <3>1, AnAskedCallFits
    <3>3. Put(c, Asked(c, n)) BY <1>7, <1>9, <2>1
    <3> QED BY <3>2, <3>3
  <2>2. CASE ~BudgetLeft(n)
    <3>1. failed \in Task /\ CallFits(failed) BY <1>5, AFailedCallFits
    <3>2. Put(c, failed) BY <1>7, <1>9, <2>2 DEF Fails
    <3> HIDE DEF failed
    <3> QED BY <3>1, <3>2
  <2> QED BY <2>1, <2>2
<1> QED BY <1>8, <1>9

\* What leaves the bridge is checked or cut down to what was supplied.
LEMMA EvidenceFits ==
  ASSUME NEW k \in Task, NEW r \in Reply, Valid(k, r), k.kind # "extractor",
         NEW n, n.kind = k.kind, n.reply.cut = r.cut, n.reply.cites = Evidence(k, r)
  PROVE  ReplyFits(n)
<1>1. Supplied(k) = Range(Owner) BY DEF Supplied
<1>2. k.kind \in {"graphProjector", "topicProjector", "eventDuplicateDecider"} => ~r.cut BY DEF Valid, Untruncated
<1>3. k.kind = "topicProjector" => r.cites = Range(Owner) BY <1>1 DEF Valid, TopicsCover
<1>4. CASE k.kind = "projector"
  <2>1. Evidence(k, r) = r.cites \cap Range(Owner) BY <1>1, <1>4 DEF Evidence, ProjectedElements
  <2> QED BY <1>2, <1>4, <2>1 DEF ReplyFits
<1>5. CASE k.kind = "graphProjector"
  <2>1. Evidence(k, r) = r.cites \cap Range(Owner) BY <1>1, <1>5 DEF Evidence, ProjectedGraph
  <2> QED BY <1>2, <1>5, <2>1 DEF ReplyFits
<1>6. CASE k.kind \in {"topicProjector", "externalMemoryDecider"}
  <2>1. Evidence(k, r) = r.cites BY <1>6 DEF Evidence
  <2> QED BY <1>2, <1>3, <1>6, <2>1 DEF ReplyFits
<1>7. CASE k.kind \notin {"projector", "graphProjector", "topicProjector", "externalMemoryDecider"}
  <2>1. Evidence(k, r) = {} BY <1>7 DEF Evidence
  <2> QED BY <1>2, <1>7, <2>1 DEF ReplyFits
<1> QED BY <1>4, <1>5, <1>6, <1>7

LEMMA CitesAreTyped ==
  ASSUME NEW k \in Task, NEW r \in Reply, k.kind # "extractor"
  PROVE  Evidence(k, r) \in SeenCites
<1>1. Supplied(k) = Range(Owner) BY DEF Supplied
<1>2. r.cites \in Cites BY DEF Reply
<1>3. r.cites \cap Range(Owner) \in SeenCites /\ r.cites \in SeenCites /\ {} \in SeenCites BY <1>2 DEF SeenCites
<1>4. Evidence(k, r) \in {r.cites \cap Range(Owner), r.cites, {}}
      BY <1>1 DEF Evidence, ProjectedElements, ProjectedGraph
<1> QED BY <1>3, <1>4

LEMMA AcceptedFits ==
  ASSUME BridgeTypes, NEW c \in Callers, NEW k \in Task, CallFits(k), k.stage \in AtWork,
         NEW r \in Reply, ~OverCapacity(k, r), Valid(k, r), Accepted(c, k, r)
  PROVE  \E n \in Task : CallFits(n) /\ Put(c, n)
<1> DEFINE handed == [r EXCEPT !.text = <<>>, !.called = TRUE, !.cites = Evidence(k, r)]
           told == [k EXCEPT !.reply = handed]
           failed == [Idle EXCEPT !.stage = "failed", !.kind = k.kind]
<1>1. IF Unusable(k, r) THEN Fails(c, k)
      ELSE IF k.kind = "extractor" THEN SliceRead(c, k, r)
      ELSE Put(c, Done(told))
      BY Zenon DEF Accepted
<1>2. CASE Unusable(k, r)
  <2>1. failed \in Task /\ CallFits(failed) BY AFailedCallFits
  <2>2. Put(c, failed) BY <1>1, <1>2 DEF Fails
  <2> HIDE DEF failed
  <2> QED BY <2>1, <2>2
<1>3. CASE ~Unusable(k, r) /\ k.kind = "extractor"
  <2>1. r.cut = FALSE
    <3>1. r.cut \in BOOLEAN BY DEF Reply
    <3> QED BY <3>1, <1>3 DEF OverCapacity
  <2>2. SliceRead(c, k, r) BY <1>1, <1>3
  <2> QED BY <1>3, <2>1, <2>2, SliceReadFits
<1>4. CASE ~Unusable(k, r) /\ k.kind # "extractor"
  <2> DEFINE ev == Evidence(k, r)
  <2>1. ev \in SeenCites BY <1>4, CitesAreTyped
  <2>2. handed = [r EXCEPT !.text = <<>>, !.called = TRUE, !.cites = ev] OBVIOUS
  <2> HIDE DEF ev
  <2>3. r \in [cut : BOOLEAN, called : BOOLEAN, text : Texts, cites : Cites] BY DEF Reply
  <2>4. handed \in SeenReply BY <2>1, <2>2, <2>3 DEF SeenReply
  <2>5. handed.cut = r.cut /\ handed.cites = ev BY <2>2, <2>3
  <2> HIDE DEF handed
  <2> DEFINE d == Done(told)
  <2>6. told.kind = k.kind /\ told.got = k.got /\ told.reply = handed BY DEF Task
  <2> HIDE DEF told
  <2>7. d \in Task
    <3>1. "done" \in CallStages BY DEF CallStages
    <3>2. told.kind \in TaskKinds \cup {"none"} /\ told.got \in Seq(SliceReading) /\ told.reply \in SeenReply
          BY <2>4, <2>6 DEF Task
    <3> QED BY <3>1, <3>2, NoReplyIsTyped DEF Done, Task
  <2>8. d.stage = "done" /\ d.kind = k.kind /\ d.reply = handed BY <2>6, NoReplyIsTyped DEF Done, Task
  <2>9. Put(c, d) BY <1>1, <1>4
  <2> HIDE DEF d
  <2>10. ReplyFits(d) BY <1>4, <2>5, <2>8, EvidenceFits DEF ev
  <2>11. CallFits(d) BY <1>4, <2>8, <2>10 DEF CallFits, ReadingFits
  <2> QED BY <2>7, <2>9, <2>11
<1> QED BY <1>2, <1>3, <1>4

LEMMA ReceiveFits ==
  ASSUME BridgeTypes, NEW c \in Callers, CallFits(call[c]), Receive(c)
  PROVE  \E n \in Task : CallFits(n) /\ Put(c, n)
<1> DEFINE k == call[c]
           failed == [Idle EXCEPT !.stage = "failed", !.kind = k.kind]
           again == [k EXCEPT !.stage = "ready", !.attempt = @ + 1]
<1>1. k \in Task BY DEF BridgeTypes
<1>2. k.stage = "waiting" BY DEF Receive
<1>3. k.stage \in AtWork BY <1>2 DEF AtWork
<1>4. ASSUME Fails(c, k) PROVE \E n \in Task : CallFits(n) /\ Put(c, n)
  <2>1. failed \in Task /\ CallFits(failed) BY <1>1, AFailedCallFits
  <2>2. Put(c, failed) BY <1>4 DEF Fails
  <2> HIDE DEF failed
  <2> QED BY <2>1, <2>2
<1>5. Onward(k, again)
  <2> DEFINE a == k.attempt + 1
  <2>1. a \in Int BY <1>1 DEF Task
  <2>2. again = [k EXCEPT !.stage = "ready", !.attempt = a] BY <1>1 DEF Task
  <2> HIDE DEF a, again
  <2>3. "ready" \in CallStages /\ "ready" \in AtWork BY DEF CallStages, AtWork
  <2>4. again \in Task BY <1>1, <2>1, <2>2, <2>3 DEF Task
  <2>5. again.stage = "ready" /\ again.kind = k.kind /\ again.reply = k.reply /\ again.got = k.got /\ again.slices = k.slices
        BY <1>1, <2>2 DEF Task
  <2> QED BY <2>3, <2>4, <2>5 DEF Onward
<1>6. PICK r \in Reply :
        \/ Fails(c, k)
        \/ OverCapacity(k, r) /\ Divide(c, k)
        \/ ~OverCapacity(k, r) /\ Valid(k, r) /\ Accepted(c, k, r)
        \/ Put(c, again)
      BY Zenon DEF Receive
<1>7. CASE Fails(c, k) BY <1>4, <1>7
<1>8. CASE OverCapacity(k, r) /\ Divide(c, k)
  <2>1. k.kind = "extractor" BY <1>8 DEF OverCapacity
  <2> QED BY <1>1, <1>3, <1>8, <2>1, DividedFits
<1>9. CASE ~OverCapacity(k, r) /\ Valid(k, r) /\ Accepted(c, k, r) BY <1>1, <1>3, <1>9, AcceptedFits
<1>10. CASE Put(c, again)
  <2>1. again \in Task /\ CallFits(again) BY <1>1, <1>3, <1>5, OnwardFits
  <2> HIDE DEF again
  <2> QED BY <1>10, <2>1
<1> QED BY <1>6, <1>7, <1>8, <1>9, <1>10

\* The steps that set a few fields of a call at work.
LEMMA FieldsFit ==
  ASSUME NEW k \in Task, CallFits(k), k.stage \in AtWork, NEW n \in Task, n.stage \in AtWork,
         n.kind = k.kind, n.reply = k.reply, n.got = k.got, n.slices = k.slices
  PROVE  n \in Task /\ CallFits(n)
<1>1. Onward(k, n) BY DEF Onward
<1> QED BY <1>1, OnwardFits

LEMMA CallerFits ==
  ASSUME BridgeTypes, NEW c \in Callers, CallFits(call[c]),
         \/ StartCall(c) \/ KnownOff(c) \/ AskModelInfo(c) \/ ModelInfo(c) \/ Send(c) \/ TooLarge(c)
         \/ NoAnswer(c) \/ NoAdapter(c) \/ OffRejected(c) \/ Receive(c) \/ LoseLease(c)
  PROVE  \E n \in Task : CallFits(n) /\ Put(c, n)
<1> DEFINE k == call[c]
           failed == [Idle EXCEPT !.stage = "failed", !.kind = k.kind]
<1>1. k \in Task /\ memoryModel \in {"auto"} \cup Routes BY DEF BridgeTypes
<1>2. ASSUME Fails(c, k) PROVE \E n \in Task : CallFits(n) /\ Put(c, n)
  <2>1. failed \in Task /\ CallFits(failed) BY <1>1, AFailedCallFits
  <2>2. Put(c, failed) BY <1>2 DEF Fails
  <2> HIDE DEF failed
  <2> QED BY <2>1, <2>2
<1>3. "lookup" \in CallStages /\ "asking" \in CallStages /\ "ready" \in CallStages /\ "waiting" \in CallStages BY DEF CallStages
<1>4. "lookup" \in AtWork /\ "asking" \in AtWork /\ "ready" \in AtWork /\ "waiting" \in AtWork BY DEF AtWork
<1>5. CASE StartCall(c)
  <2> DEFINE slices(kind) == IF kind = "extractor" THEN <<WholeBlock>> ELSE <<>>
             start(kind) == [Idle EXCEPT !.kind = kind, !.slices = slices(kind)]
  <2>1. PICK kind \in Kinds[c] : Put(c, Asked(c, start(kind))) BY <1>5 DEF StartCall
  <2>2. kind \in TaskKinds BY <2>1, ModelCallsAssumption
  <2>3. WholeBlock \in Slice
    <3>1. Len(Owner) \in Int BY ModelCallsAssumption
    <3> QED BY <3>1 DEF WholeBlock, Slice
  <2> DEFINE s == slices(kind)
             n == start(kind)
  <2>4. s \in Seq(Slice) BY <2>3
  <2>5. kind = "extractor" => s = <<WholeBlock>> OBVIOUS
  <2> HIDE DEF s
  <2>6. n = [Idle EXCEPT !.kind = kind, !.slices = s] BY DEF s
  <2> HIDE DEF n
  <2>7. n \in Task BY <2>2, <2>4, <2>6, NoReplyIsTyped DEF Task
  <2>8. n.kind = kind /\ n.slices = s /\ n.got = <<>> /\ n.reply = NoReply
    <3>1. Idle.got = <<>> /\ Idle.reply = NoReply BY DEF Idle
    <3> QED BY <2>6, <3>1, NoReplyIsTyped DEF Task
  <2>9. SlicesFit(<<>>, <<WholeBlock>>)
    <3> DEFINE w == <<WholeBlock>>
    <3>1. Len(Owner) \in Nat BY ModelCallsAssumption
    <3>2. WholeBlock.first = 1 /\ WholeBlock.last = Len(Owner) BY DEF WholeBlock
    <3>3. Len(w) = 1 /\ w[1] = WholeBlock /\ w # <<>> OBVIOUS
    <3> HIDE DEF w
    <3>4. Joined(w) BY <3>1, <3>2, <3>3 DEF Joined
    <3>5. ReadOn(<<>>) BY DEF ReadOn
    <3>6. w[1].first = ReadTo(<<>>) + 1 BY <3>2, <3>3 DEF ReadTo
    <3>7. SlicesFit(<<>>, w) BY <3>4, <3>5, <3>6 DEF SlicesFit
    <3> QED BY <3>7 DEF w
  <2>10. n.kind = "extractor" => n.reply = NoReply /\ SlicesFit(n.got, n.slices) BY <2>5, <2>8, <2>9
  <2>11. Asked(c, n) \in Task /\ CallFits(Asked(c, n)) BY <1>1, <2>7, <2>10, AnAskedCallFits
  <2>12. Put(c, Asked(c, n)) BY <2>1 DEF n
  <2> QED BY <2>11, <2>12
<1>6. CASE KnownOff(c)
  <2> DEFINE o == capability[k.route] = "supported"
             n == [k EXCEPT !.stage = "ready", !.off = o]
  <2>1. k.stage \in AtWork /\ Put(c, n) BY <1>4, <1>6 DEF KnownOff
  <2>2. o \in Offs BY DEF Offs
  <2> HIDE DEF o
  <2>3. n \in Task /\ n.stage = "ready" /\ n.kind = k.kind /\ n.reply = k.reply /\ n.got = k.got /\ n.slices = k.slices
        BY <1>1, <1>3, <2>2 DEF Task
  <2> HIDE DEF n
  <2> QED BY <1>1, <1>4, <2>1, <2>3, FieldsFit
<1>7. CASE AskModelInfo(c)
  <2> DEFINE n == [k EXCEPT !.stage = "asking"]
  <2>1. k.stage \in AtWork /\ Put(c, n) BY <1>4, <1>7 DEF AskModelInfo
  <2>2. n \in Task /\ n.stage = "asking" /\ n.kind = k.kind /\ n.reply = k.reply /\ n.got = k.got /\ n.slices = k.slices
        BY <1>1, <1>3 DEF Task
  <2> HIDE DEF n
  <2> QED BY <1>1, <1>4, <2>1, <2>2, FieldsFit
<1>8. CASE ModelInfo(c)
  <2> DEFINE n(o) == [k EXCEPT !.stage = "ready", !.off = o]
  <2>1. k.stage \in AtWork /\ \E o \in Offs : Put(c, n(o))
    <3>1. ASSUME NEW told \in {"supported", "unsupported"}, Put(c, [k EXCEPT !.stage = "ready", !.off = told = "supported"])
          PROVE  \E o \in Offs : Put(c, n(o))
      <4> DEFINE o == told = "supported"
      <4>1. o \in Offs BY DEF Offs
      <4>2. Put(c, n(o)) BY <3>1
      <4> HIDE DEF o, n
      <4> QED BY <4>1, <4>2
    <3>2. ForceOff \in Offs BY DEF Offs
    <3>3. \/ Put(c, [k EXCEPT !.stage = "ready", !.off = ForceOff])
          \/ \E told \in {"supported", "unsupported"} : Put(c, [k EXCEPT !.stage = "ready", !.off = told = "supported"])
          BY <1>8, Zenon DEF ModelInfo
    <3>4. k.stage \in AtWork BY <1>4, <1>8 DEF ModelInfo
    <3>5. CASE Put(c, [k EXCEPT !.stage = "ready", !.off = ForceOff])
      <4>1. Put(c, n(ForceOff)) BY <3>5
      <4> HIDE DEF n
      <4> QED BY <3>2, <3>4, <4>1
    <3>6. CASE \E told \in {"supported", "unsupported"} : Put(c, [k EXCEPT !.stage = "ready", !.off = told = "supported"])
          BY <3>1, <3>4, <3>6, Zenon
    <3> QED BY <3>3, <3>5, <3>6
  <2>2. PICK o \in Offs : Put(c, n(o)) BY <2>1
  <2> DEFINE m == n(o)
  <2>3. m \in Task /\ m.stage = "ready" /\ m.kind = k.kind /\ m.reply = k.reply /\ m.got = k.got /\ m.slices = k.slices
        BY <1>1, <1>3, <2>2 DEF Task
  <2>4. Put(c, m) BY <2>2
  <2> HIDE DEF m
  <2> QED BY <1>1, <1>4, <2>1, <2>3, <2>4, FieldsFit
<1>9. CASE Send(c)
  <2> DEFINE s == k.sent + 1
             calls == IF k.kind = "extractor" THEN k.calls + 1 ELSE k.calls
             n == [k EXCEPT !.stage = "waiting", !.sent = s, !.calls = calls]
  <2>1. s \in Int /\ calls \in Int BY <1>1 DEF Task
  <2>2. k.stage \in AtWork BY <1>4, <1>9 DEF Send
  <2>3. Fails(c, k) \/ Put(c, n)
    <3>1. \/ Put(c, [k EXCEPT !.stage = "waiting", !.sent = @ + 1, !.calls = IF k.kind = "extractor" THEN @ + 1 ELSE @])
          \/ Fails(c, k)
          BY <1>9, Zenon DEF Send
    <3>2. [k EXCEPT !.stage = "waiting", !.sent = @ + 1, !.calls = IF k.kind = "extractor" THEN @ + 1 ELSE @] = n
          BY <1>1 DEF Task
    <3> QED BY <3>1, <3>2
  <2> HIDE DEF s, calls
  <2>4. n \in Task /\ n.stage = "waiting" /\ n.kind = k.kind /\ n.reply = k.reply /\ n.got = k.got /\ n.slices = k.slices
        BY <1>1, <1>3, <2>1 DEF Task
  <2> HIDE DEF n
  <2>5. CASE Fails(c, k) BY <1>2, <2>5
  <2>6. CASE Put(c, n) BY <1>1, <1>4, <2>2, <2>4, <2>6, FieldsFit
  <2> QED BY <2>3, <2>5, <2>6
<1>10. CASE TooLarge(c)
  <2>1. k.stage \in AtWork /\ (IF k.kind = "extractor" THEN Divide(c, k) ELSE Fails(c, k)) BY <1>4, <1>10 DEF TooLarge
  <2>2. CASE k.kind = "extractor" BY <1>1, <2>1, <2>2, DividedFits
  <2>3. CASE k.kind # "extractor" BY <1>2, <2>1, <2>3
  <2> QED BY <2>2, <2>3
<1>11. CASE NoAnswer(c) BY <1>2, <1>11 DEF NoAnswer
<1>12. CASE NoAdapter(c)
  <2> DEFINE n == [k EXCEPT !.stage = "ready", !.unregistered = TRUE]
  <2>1. k.stage \in AtWork /\ (Fails(c, k) \/ Put(c, n)) BY <1>4, <1>12 DEF NoAdapter
  <2>2. n \in Task /\ n.stage = "ready" /\ n.kind = k.kind /\ n.reply = k.reply /\ n.got = k.got /\ n.slices = k.slices
        BY <1>1, <1>3 DEF Task
  <2> HIDE DEF n
  <2>3. CASE Fails(c, k) BY <1>2, <2>3
  <2>4. CASE Put(c, n) BY <1>1, <1>4, <2>1, <2>2, <2>4, FieldsFit
  <2> QED BY <2>1, <2>3, <2>4
<1>13. CASE OffRejected(c)
  <2> DEFINE n == [k EXCEPT !.stage = "ready", !.off = FALSE]
  <2>1. k.stage \in AtWork /\ Put(c, n) BY <1>4, <1>13 DEF OffRejected
  <2>2. FALSE \in Offs BY DEF Offs
  <2>3. n \in Task /\ n.stage = "ready" /\ n.kind = k.kind /\ n.reply = k.reply /\ n.got = k.got /\ n.slices = k.slices
        BY <1>1, <1>3, <2>2 DEF Task
  <2> HIDE DEF n
  <2> QED BY <1>1, <1>4, <2>1, <2>3, FieldsFit
<1>14. CASE Receive(c) BY <1>14, ReceiveFits
<1>15. CASE LoseLease(c)
  <2> DEFINE n == [k EXCEPT !.held = FALSE]
  <2>1. k.kind = "graphProjector" /\ k.stage \notin {"done", "failed"} /\ Put(c, n) BY <1>15 DEF LoseLease
  <2>2. n \in Task /\ n.stage = k.stage /\ n.kind = k.kind BY <1>1 DEF Task
  <2> HIDE DEF n
  <2>3. CallFits(n) BY <2>1, <2>2 DEF CallFits, ReadingFits
  <2> QED BY <2>1, <2>2, <2>3
<1> QED BY <1>5, <1>6, <1>7, <1>8, <1>9, <1>10, <1>11, <1>12, <1>13, <1>14, <1>15

LEMMA BridgeStep == ASSUME BridgeInv, [BridgeNext]_bridgeVars PROVE BridgeInv'
<1>1. ASSUME NEW c \in Callers, memoryModel' = memoryModel,
             \/ StartCall(c) \/ KnownOff(c) \/ AskModelInfo(c) \/ ModelInfo(c) \/ Send(c) \/ TooLarge(c)
             \/ NoAnswer(c) \/ NoAdapter(c) \/ OffRejected(c) \/ Receive(c) \/ LoseLease(c)
      PROVE  BridgeInv'
  <2>1. BridgeTypes /\ CallFits(call[c]) BY DEF BridgeInv
  <2>2. PICK n \in Task : CallFits(n) /\ Put(c, n) BY <1>1, <2>1, CallerFits
  <2>3. memoryModel' \in {"auto"} \cup Routes BY <1>1, <2>1 DEF BridgeTypes
  <2> QED BY <2>2, <2>3, PutFits
<1>2. ASSUME call' = call, memoryModel' \in {"auto"} \cup Routes PROVE BridgeInv'
      BY <1>2 DEF BridgeInv, BridgeTypes, CallFits, ReadingFits, ReplyFits
<1>3. memoryModel \in {"auto"} \cup Routes BY DEF BridgeInv, BridgeTypes
<1>4. CASE \E c \in Callers : \/ StartCall(c) \/ KnownOff(c) \/ AskModelInfo(c) \/ ModelInfo(c)
                              \/ Send(c) \/ TooLarge(c) \/ NoAnswer(c) \/ NoAdapter(c) \/ OffRejected(c)
                              \/ Receive(c) \/ LoseLease(c)
  <2>1. PICK c \in Callers : \/ StartCall(c) \/ KnownOff(c) \/ AskModelInfo(c) \/ ModelInfo(c)
                              \/ Send(c) \/ TooLarge(c) \/ NoAnswer(c) \/ NoAdapter(c) \/ OffRejected(c)
                              \/ Receive(c) \/ LoseLease(c) BY <1>4
  <2>2. memoryModel' = memoryModel
        BY <2>1 DEF StartCall, KnownOff, AskModelInfo, ModelInfo, Send, TooLarge, NoAnswer, NoAdapter, OffRejected, Receive, LoseLease
  <2> QED BY <1>1, <2>1, <2>2
<1>5. CASE AdaptersUpdated BY <1>2, <1>3, <1>5 DEF AdaptersUpdated
<1>6. CASE SetMemoryModel BY <1>2, <1>6 DEF SetMemoryModel
<1>7. CASE TakeSuccessfulResponses BY <1>2, <1>3, <1>7 DEF TakeSuccessfulResponses
<1>8. CASE UNCHANGED bridgeVars BY <1>2, <1>3, <1>8 DEF bridgeVars
<1> QED BY <1>4, <1>5, <1>6, <1>7, <1>8 DEF BridgeNext

LEMMA BridgeStart == BridgeInit => BridgeInv
<1> HAVE BridgeInit
<1>1. call = [c \in Callers |-> Idle] /\ memoryModel = "auto" BY DEF BridgeInit
<1>2. CallFits(Idle)
  <2>1. Idle.stage = "idle" /\ Idle.kind = "none" BY DEF Idle
  <2> QED BY <2>1 DEF CallFits, ReadingFits
<1>3. BridgeTypes BY <1>1, NoReplyIsTyped DEF BridgeTypes
<1> QED BY <1>1, <1>2, <1>3 DEF BridgeInv

LEMMA BridgeGivesWholeResults == BridgeInv => ResultsAreWhole
<1> SUFFICES ASSUME BridgeInv, NEW c \in Callers, call[c].stage = "done"
             PROVE  LET k == call[c] IN
                    /\ k.kind = "extractor" => Tiled(k.got) /\ \A i \in DOMAIN k.got : ~k.got[i].cut
                    /\ k.kind \in {"graphProjector", "topicProjector", "eventDuplicateDecider"} => ~k.reply.cut
                    /\ k.kind # "externalMemoryDecider" => k.reply.cites \subseteq Range(Owner)
                    /\ k.kind = "topicProjector" => k.reply.cites = Range(Owner)
  BY DEF ResultsAreWhole
<1> DEFINE k == call[c]
<1>1. k \in Task /\ CallFits(k) BY DEF BridgeInv, BridgeTypes
<1>2. ReplyFits(k) BY <1>1 DEF CallFits
<1>3. ASSUME k.kind = "extractor" PROVE Tiled(k.got) /\ \A i \in DOMAIN k.got : ~k.got[i].cut
  <2>1. Tiled(k.got) /\ \A i \in 1 .. Len(k.got) : ~k.got[i].cut BY <1>1, <1>3 DEF CallFits, ReadingFits
  <2>2. DOMAIN k.got = 1 .. Len(k.got)
    <3>1. k.got \in Seq(SliceReading) BY <1>1 DEF Task
    <3> QED BY <3>1
  <2> QED BY <2>1, <2>2
<1> QED BY <1>2, <1>3 DEF ReplyFits

\* ResultsAreWhole: for any tasks, routes, Blocks, replies and limits, whatever is cut, repeated,
\* refused or divided, an extraction that ends has read its Block once, in order and from whole
\* replies, and no other task hands back what was not supplied to it.
THEOREM ResultsStayWhole == BridgeSpec => []ResultsAreWhole
<1>1. BridgeInit => BridgeInv BY BridgeStart
<1>2. BridgeInv /\ [BridgeNext]_bridgeVars => BridgeInv' BY BridgeStep
<1>3. BridgeInv => ResultsAreWhole BY BridgeGivesWholeResults
<1> QED BY <1>1, <1>2, <1>3, PTL DEF BridgeSpec
================================================================================
