------------------------------- MODULE WorkBuddy -------------------------------
(***************************************************************************)
(* The WorkBuddy plugin (integrations/workbuddy/src): short hook processes  *)
(* around each turn of a session, and the MCP server with its worker and    *)
(* its evidence tools, each of which opens the memory for one operation and *)
(* closes it again. A hook may be cut off anywhere; the host goes on.       *)
(***************************************************************************)
EXTENDS Integers, FiniteSets, Sequences, FiniteSetsExt

CONSTANTS
  MaxPrompts,    \* bound: turns of the session
  StopsPerTurn,  \* how often the host announces the end of one turn
  PromptsReach,  \* whether the hook of a prompt always gets to save it
  Attempts,      \* openings an operation is given
  Window,        \* entries of the transcript a hook reads at most
  Assessment,    \* ids of assessments
  UsesToInvite,  \* recorded uses before the invitation is shown
  MaxCuts,       \* bound: hooks cut off
  MaxFailures,   \* bound: failures the worker counts
  MaxRevision    \* bound: revisions the worker commits up to

ASSUME WorkBuddyAssumption ==
  /\ MaxPrompts \in Nat /\ Attempts \in Nat \ {0} /\ Window \in Nat \ {0}
  /\ UsesToInvite \in Nat /\ MaxCuts \in Nat /\ MaxFailures \in Nat /\ MaxRevision \in Nat
  /\ StopsPerTurn \in Nat /\ PromptsReach \in BOOLEAN

VARIABLES
  said,     \* what the host has said: user and assistant entries, by turn
  written,  \* how many of them are in the transcript file
  stops,    \* how often the end of the current turn was announced
  prompt,   \* the pending prompt on disk: its turn, 0 without one
  cursor,   \* the transcript cursor on disk
  stored,   \* turns appended to the memory: [user, answers, from, to]
  missed,   \* history: answered turns whose Stop never came, or ended before its append
  rev,      \* revision of the memory
  op,       \* process -> its operation: phase, revision opened at, attempts, what it appends
  verdicts, \* assessments on disk, with their verdict
  uses,     \* assessments recorded as used
  invited,  \* how often the invitation was shown
  worker,   \* the server's worker: [phase, failures]
  cuts

buddyVars == <<said, written, stops, prompt, cursor, stored, missed, rev, op, verdicts, uses, invited, worker, cuts>>

Client == {"hook", "use"}
Entry(turn, by) == [turn |-> turn, by |-> by]
NoTurn == [user |-> 0, answers |-> {}, from |-> 0, to |-> 0]
Free == [phase |-> "free", at |-> 0, tries |-> 0, turn |-> NoTurn, assessment |-> "none"]
Turns == IF said = <<>> THEN 0 ELSE said[Len(said)].turn    \* the last entry is of the last turn
TurnAnswered == said # <<>> /\ said[Len(said)].by = "assistant"

-----------------------------------------------------------------------------
(* The transcript *)

\* Faulty variant: a turn starts at the first entry of the delta.
TurnStartsFirst(from, to, wanted) == from

\* From the last entry that holds the pending prompt, else the last of any user, else the first.
TurnStart(from, to, wanted) ==
  LET users == {i \in from..to : said[i].by = "user"}
      own == {i \in users : said[i].turn = wanted}
  IN IF own # {} THEN Max(own) ELSE IF users # {} THEN Max(users) ELSE from

\* The latest turn of the entries; its text comes with the hook when it is not in them yet.
FoldLatestTurn(from, to, wanted) ==
  LET parts == {i \in TurnStart(from, to, wanted)..to : said[i].by = "assistant"}
  IN [user |-> wanted, from |-> from, to |-> to,
      answers |-> IF parts # {} THEN {said[i].turn : i \in parts} ELSE {said[Len(said)].turn}]

-----------------------------------------------------------------------------
(* Hooks *)

\* A turn begins with its prompt, which is in the transcript; its hook saves it before it searches
\* the memory. The turn before may have been interrupted.
UserPromptSubmit ==
  /\ Turns < MaxPrompts /\ op["hook"].phase = "free"
  /\ said' = Append(said, Entry(Turns + 1, "user")) /\ written' = Len(said) + 1
  /\ prompt' \in {Turns + 1} \cup (IF PromptsReach THEN {} ELSE {prompt}) /\ stops' = 0
  /\ missed' = missed \cup {t \in {Turns} : TurnAnswered /\ stops = 0}
  /\ UNCHANGED <<cursor, stored, rev, op, verdicts, uses, invited, worker, cuts>>

\* The answer reaches the file later.
Answer ==
  /\ said # <<>> /\ ~TurnAnswered /\ said' = Append(said, Entry(Turns, "assistant"))
  /\ UNCHANGED <<written, stops, prompt, cursor, stored, missed, rev, op, verdicts, uses, invited, worker, cuts>>
FileCatchesUp ==
  /\ written < Len(said) /\ written' = Len(said)
  /\ UNCHANGED <<said, stops, prompt, cursor, stored, missed, rev, op, verdicts, uses, invited, worker, cuts>>

\* The hook reads what the cursor has not passed; nothing new ends it.
Stop ==
  /\ op["hook"].phase = "free" /\ TurnAnswered /\ stops < StopsPerTurn /\ stops' = stops + 1
  /\ cursor < written
  /\ LET from == Max({cursor, written - Window}) + 1
     IN op' = [op EXCEPT !["hook"] = [Free EXCEPT !.phase = "open",
                                                   !.turn = FoldLatestTurn(from, written, prompt)]]
  /\ UNCHANGED <<said, written, prompt, cursor, stored, missed, rev, verdicts, uses, invited, worker, cuts>>

\* Faulty variant: a receipt names where its delta starts.
TurnStoredFrom(turn) == \E i \in DOMAIN stored : stored[i].from = turn.from

TurnStored(turn) == \E i \in DOMAIN stored : stored[i].from = turn.from /\ stored[i].to = turn.to

WriteCursor ==
  /\ op["hook"].phase = "cursor" /\ cursor' = op["hook"].turn.to
  /\ op' = [op EXCEPT !["hook"] = Free]
  /\ UNCHANGED <<said, written, stops, prompt, stored, missed, rev, verdicts, uses, invited, worker, cuts>>

\* The turn of a hook that ends before its append: no later hook takes it up.
Misses(p) == missed' = missed \cup {t \in {Turns} : p = "hook" /\ op[p].phase \in {"open", "opened"}}

HookIsCut ==
  /\ op["hook"].phase # "free" /\ cuts < MaxCuts /\ cuts' = cuts + 1
  /\ op' = [op EXCEPT !["hook"] = Free] /\ Misses("hook")
  /\ UNCHANGED <<said, written, stops, prompt, cursor, stored, rev, verdicts, uses, invited, worker>>

-----------------------------------------------------------------------------
(* One operation on a memory opened for it (withMemory) *)

Open(p) ==
  /\ op[p].phase = "open"
  /\ op' = [op EXCEPT ![p].phase = "opened", ![p].at = rev, ![p].tries = @ + 1]
  /\ UNCHANGED <<said, written, stops, prompt, cursor, stored, missed, rev, verdicts, uses, invited, worker, cuts>>

\* A write at another revision is a conflict; the memory is opened again, a few times.
Conflict(p) ==
  /\ op[p].phase = "opened" /\ op[p].at # rev
  /\ op' = [op EXCEPT ![p] = IF @.tries < Attempts THEN [@ EXCEPT !.phase = "open"] ELSE Free]
  /\ IF op[p].tries < Attempts THEN UNCHANGED missed ELSE Misses(p)
  /\ UNCHANGED <<said, written, stops, prompt, cursor, stored, rev, verdicts, uses, invited, worker, cuts>>

TakeTurn ==
  /\ op["hook"].phase = "opened" /\ op["hook"].at = rev
  /\ op' = [op EXCEPT !["hook"].phase = "cursor"]
  /\ IF TurnStored(op["hook"].turn) THEN UNCHANGED <<stored, rev>>
     ELSE stored' = Append(stored, op["hook"].turn) /\ rev' = rev + 1
  /\ UNCHANGED <<said, written, stops, prompt, cursor, missed, verdicts, uses, invited, worker, cuts>>

-----------------------------------------------------------------------------
(* Evidence: a search leaves a batch, a batch is assessed, a sufficient assessment is used *)

Assess(a, verdict) ==
  /\ a \notin DOMAIN verdicts
  /\ verdicts' = [x \in DOMAIN verdicts \cup {a} |-> IF x = a THEN verdict ELSE verdicts[x]]
  /\ UNCHANGED <<said, written, stops, prompt, cursor, stored, missed, rev, op, uses, invited, worker, cuts>>

RecordUse(a) ==
  /\ op["use"].phase = "free" /\ a \in DOMAIN verdicts /\ verdicts[a] = "sufficient"
  /\ op' = [op EXCEPT !["use"] = [Free EXCEPT !.phase = "open", !.assessment = a]]
  /\ UNCHANGED <<said, written, stops, prompt, cursor, stored, missed, rev, verdicts, uses, invited, worker, cuts>>

CommitUse ==
  /\ op["use"].phase = "opened" /\ (op["use"].assessment \in uses \/ op["use"].at = rev)
  /\ uses' = uses \cup {op["use"].assessment} /\ rev' = IF uses' = uses THEN rev ELSE rev + 1
  /\ op' = [op EXCEPT !["use"].phase = "invite"]
  /\ UNCHANGED <<said, written, stops, prompt, cursor, stored, missed, verdicts, invited, worker, cuts>>

\* The file that says it was shown is created once, whoever tries.
ClaimStarPrompt ==
  /\ op["use"].phase = "invite" /\ op' = [op EXCEPT !["use"] = Free]
  /\ invited' = IF Cardinality(uses) >= UsesToInvite /\ invited = 0 THEN 1 ELSE invited
  /\ UNCHANGED <<said, written, stops, prompt, cursor, stored, missed, rev, verdicts, uses, worker, cuts>>

-----------------------------------------------------------------------------
(* The server's worker: one pass at a time, later after a failure *)

WorkerStarts ==
  /\ worker.phase = "idle" /\ worker' = [worker EXCEPT !.phase = "working"]
  /\ UNCHANGED <<said, written, stops, prompt, cursor, stored, missed, rev, op, verdicts, uses, invited, cuts>>
\* Stored turns are derived in commits of their own, against the revision the pass last saw.
WorkerCommits ==
  /\ worker.phase = "working" /\ stored # <<>> /\ rev < MaxRevision
  /\ rev' = rev + 1
  /\ UNCHANGED <<said, written, stops, prompt, cursor, stored, missed, op, verdicts, uses, invited, worker, cuts>>
WorkerEnds ==
  /\ worker.phase = "working" /\ worker' = [phase |-> "idle", failures |-> 0]
  /\ UNCHANGED <<said, written, stops, prompt, cursor, stored, missed, rev, op, verdicts, uses, invited, cuts>>
WorkerFails ==
  /\ worker.phase = "working" /\ worker.failures < MaxFailures
  /\ worker' = [phase |-> "waiting", failures |-> worker.failures + 1]
  /\ UNCHANGED <<said, written, stops, prompt, cursor, stored, missed, rev, op, verdicts, uses, invited, cuts>>
WorkerIsDue ==
  /\ worker.phase = "waiting" /\ worker' = [worker EXCEPT !.phase = "idle"]
  /\ UNCHANGED <<said, written, stops, prompt, cursor, stored, missed, rev, op, verdicts, uses, invited, cuts>>

-----------------------------------------------------------------------------

BuddyInit ==
  /\ said = <<>> /\ written = 0 /\ stops = 0 /\ prompt = 0 /\ cursor = 0 /\ stored = <<>> /\ missed = {} /\ rev = 0
  /\ op = [p \in Client |-> Free] /\ verdicts = <<>> /\ uses = {} /\ invited = 0
  /\ worker = [phase |-> "idle", failures |-> 0] /\ cuts = 0

BuddyNext ==
  \/ UserPromptSubmit \/ Answer \/ FileCatchesUp \/ Stop \/ TakeTurn \/ WriteCursor
  \/ HookIsCut
  \/ \E p \in Client : Open(p) \/ Conflict(p)
  \/ \E a \in Assessment : RecordUse(a) \/ \E verdict \in {"sufficient", "partial", "wrong"} : Assess(a, verdict)
  \/ CommitUse \/ ClaimStarPrompt
  \/ WorkerStarts \/ WorkerCommits \/ WorkerEnds \/ WorkerFails \/ WorkerIsDue

BuddySpec == BuddyInit /\ [][BuddyNext]_buddyVars

BuddyTypeOK ==
  /\ written \in 0..Len(said) /\ cursor \in 0..written /\ prompt \in 0..Turns
  /\ stops \in 0..StopsPerTurn /\ rev \in Nat /\ invited \in 0..1 /\ op["hook"].tries \in 0..Attempts /\ op["use"].tries \in 0..Attempts
  /\ worker.failures \in 0..MaxFailures /\ cuts \in 0..MaxCuts
  /\ \A i \in DOMAIN stored : stored[i].from \in 1..stored[i].to /\ stored[i].to \in 1..Len(said)
  /\ missed \subseteq 1..Turns

WasAnswered(t) == \E i \in DOMAIN said : said[i] = Entry(t, "assistant")
InMemory(t) == \E i \in DOMAIN stored : stored[i].user = t

\* A stored turn joins a prompt with its own answer, and no prompt is stored twice, although a
\* hook reads all that its predecessors left, which were cut off before they saved the cursor,
\* lost against the worker, or never ran ("folds the latest human turn", transcript.test.ts).
\* The cursor stands at the end of a turn that is in the memory, and an answered turn it has
\* passed is there as well ("Stop incrementally ingests the transcript", README), but for one: a
\* turn whose own Stop never came or ended before its append is not taken up by the next Stop,
\* which folds its own turn only and moves the cursor past both. Nothing else loses a turn.
TurnsAreTrue ==
  /\ \A i \in DOMAIN stored : stored[i].answers = {stored[i].user}
  /\ \A i, j \in DOMAIN stored : stored[i].user = stored[j].user => i = j
  /\ cursor > 0 => \E i \in DOMAIN stored : stored[i].to = cursor
  /\ \A i \in 1..cursor : WasAnswered(said[i].turn) => InMemory(said[i].turn) \/ said[i].turn \in missed
=============================================================================
