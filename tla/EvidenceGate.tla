------------------------------ MODULE EvidenceGate ------------------------------
(***************************************************************************)
(* From a search to the answer that recorded it (src/runtime.ts, src/tools.ts,  *)
(* packages/core/src/retrieval.ts, src/retrieval-finalization.ts): every    *)
(* search leaves a batch of references, a batch is assessed and then closed *)
(* by recording what the answer used, and a turn that stops with open       *)
(* batches is sent back to close them and to answer again. The host's loop  *)
(* (steps, parallel tool calls, stop listeners) is modelled from the events *)
(* the plugin listens to.                                                   *)
(***************************************************************************)
EXTENDS Integers, FiniteSets

CONSTANTS
  Ref,          \* evidence a search may return
  UseCall,      \* calls that record a use, by the id the host gives them
  MaxBatches,   \* bound: searches
  MaxQuestions, \* bound: turns
  MaxAnswers,   \* attempts at the final answer
  MaxUrges,     \* bound: times another listener keeps a turn going
  MaxFails      \* bound: uses that fail to commit

ASSUME EvidenceAssumption ==
  /\ MaxBatches \in Nat /\ MaxQuestions \in Nat /\ MaxAnswers \in Nat \ {0}
  /\ MaxUrges \in Nat /\ MaxFails \in Nat

VARIABLES
  batches,   \* [refs, status, adopted], by number; adopted is what a sufficient assessment took
  using,     \* call -> what it is about to record
  recorded,  \* what was recorded: [call, batch, refs]
  loop,      \* the host's loop: [at, turns, urges, fails]
  recovery,  \* the recovery of the turn
  shown,     \* the last message of the turn: none, partial or complete
  steered,   \* times the plugin kept the turn going: [closing, answer], and the batches it found first
  ended      \* how the last turn ended

evidenceVars == <<batches, using, recorded, loop, recovery, shown, steered, ended>>

NoUse == [batch |-> 0, refs |-> {}]
NoRecovery == [phase |-> "none", pending |-> {}, stops |-> 0, attempts |-> 0, answers |-> FALSE]
Unresolved == {b \in DOMAIN batches : batches[b].status = "unresolved"}

-----------------------------------------------------------------------------
(* Batches *)

NewBatch(refs) ==
  [b \in DOMAIN batches \cup {Cardinality(DOMAIN batches) + 1} |->
    IF b \in DOMAIN batches THEN batches[b]
    ELSE [refs |-> refs, status |-> "unresolved", adopted |-> {}]]

\* Every kind of search and expansion (events, graph, elements, raw messages, Blocks).
Search(refs) ==
  /\ loop.at = "tools" /\ Cardinality(DOMAIN batches) < MaxBatches
  /\ batches' = NewBatch(refs)
  /\ UNCHANGED <<using, recorded, loop, recovery, shown, steered, ended>>

\* Only references of the batch count, and nothing suffices with more to look for.
NormalizeRetrievalAssessment(b, verdict, refs, next) ==
  IF verdict = "sufficient" /\ next = "answer" THEN refs \cap batches[b].refs ELSE {}

\* A batch may be assessed again until it is closed.
AssessBatch(b, verdict, refs, next) ==
  /\ loop.at = "tools" /\ b \in Unresolved
  /\ batches' = [batches EXCEPT ![b].adopted = NormalizeRetrievalAssessment(b, verdict, refs, next)]
  /\ UNCHANGED <<using, recorded, loop, recovery, shown, steered, ended>>

\* Checked at once; what follows waits for the memory.
RecordBatchUse(c, b, refs) ==
  /\ loop.at = "tools" /\ using[c] = NoUse /\ \A u \in recorded : u.call # c
  /\ b \in Unresolved /\ refs \subseteq batches[b].adopted
  /\ using' = [using EXCEPT ![c] = [batch |-> b, refs |-> refs]]
  /\ UNCHANGED <<batches, recorded, loop, recovery, shown, steered, ended>>

\* The receipt belongs to the call; the batch is closed after it.
UseRecorded(c) ==
  /\ using[c] # NoUse
  /\ recorded' = recorded \cup {[call |-> c, batch |-> using[c].batch, refs |-> using[c].refs]}
  /\ batches' = [batches EXCEPT ![using[c].batch].status = "recorded"]
  /\ using' = [using EXCEPT ![c] = NoUse]
  /\ UNCHANGED <<loop, recovery, shown, steered, ended>>

UseFails(c) ==
  /\ using[c] # NoUse /\ loop.fails < MaxFails
  /\ using' = [using EXCEPT ![c] = NoUse] /\ loop' = [loop EXCEPT !.fails = @ + 1]
  /\ UNCHANGED <<batches, recorded, recovery, shown, steered, ended>>

-----------------------------------------------------------------------------
(* The host's loop and the recovery of a final answer *)

StartTurn ==
  /\ loop.at = "idle" /\ loop.turns < MaxQuestions
  /\ loop' = [loop EXCEPT !.at = "assembling", !.turns = @ + 1]
  /\ shown' = "none" /\ steered' = [closing |-> 0, answer |-> 0, first |-> 0]
  /\ UNCHANGED <<batches, using, recorded, recovery, ended>>

\* The turn is over: its recovery is dropped, open batches stay with the session.
Ends(how) ==
  /\ loop' = [loop EXCEPT !.at = "idle"] /\ recovery' = NoRecovery
  /\ ended' = [how |-> how, recovered |-> recovery.phase # "none", shown |-> shown, pending |-> Unresolved]

\* A request is refused when the answer created a batch, or was tried often enough.
Refused ==
  /\ recovery.phase # "none"
  /\ IF Unresolved # {} THEN recovery.phase # "closing"
     ELSE recovery.phase # "answer-complete" /\ recovery.attempts >= MaxAnswers

Answering == [recovery EXCEPT !.phase = "awaiting-answer", !.attempts = @ + 1, !.answers = TRUE]
Closing == recovery.phase = "closing" /\ Unresolved # {}

\* Every step that is admitted once the batches are closed has to be the answer.
Admitted == IF recovery.phase = "none" \/ Closing THEN recovery ELSE Answering

NextStep ==
  /\ loop.at = "assembling"
  /\ IF Refused THEN Ends("failed") /\ UNCHANGED shown
     ELSE loop' = [loop EXCEPT !.at = "step"] /\ recovery' = Admitted /\ UNCHANGED <<shown, ended>>
  /\ UNCHANGED <<batches, using, recorded, steered>>

\* Faulty variant: any text ends the search for an answer.
AnswerShownAnyhow(kind) ==
  IF ~recovery.answers THEN recovery
  ELSE [recovery EXCEPT !.phase = IF kind = "calls" THEN "awaiting-answer" ELSE "answer-complete"]

\* What a message does to the recovery: the last one of the answer's step decides.
AnswerShown(kind) ==
  IF ~recovery.answers THEN recovery
  ELSE [recovery EXCEPT !.phase = IF kind = "complete" THEN "answer-complete" ELSE "awaiting-answer"]

\* Text ends the step; calls, which are not offered in the answer's step, are run side by side.
Reply(kind) ==
  /\ loop.at = "step" /\ recovery' = AnswerShown(kind)
  /\ shown' = IF kind = "calls" THEN "partial" ELSE kind
  /\ loop' = [loop EXCEPT !.at = IF kind = "calls" THEN "tools" ELSE "stopping"]
  /\ UNCHANGED <<batches, using, recorded, steered, ended>>

ToolsSettle ==
  /\ loop.at = "tools" /\ \A c \in UseCall : using[c] = NoUse
  /\ loop' = [loop EXCEPT !.at = "assembling"]
  /\ UNCHANGED <<batches, using, recorded, recovery, shown, steered, ended>>

Aborted ==
  /\ loop.at \in {"assembling", "step", "stopping"} /\ Ends("aborted")
  /\ UNCHANGED <<batches, using, recorded, shown, steered>>

\* A cleanup has to close a batch each time, and gets no more stops than it first found.
Stuck == recovery.phase = "closing" /\ (recovery.stops = 0 \/ recovery.pending \subseteq Unresolved)

Cleanup ==
  [phase |-> "closing", pending |-> Unresolved, attempts |-> 0, answers |-> FALSE,
   stops |-> IF recovery.phase = "none" THEN Cardinality(Unresolved) ELSE recovery.stops - 1]

Steer(closing) ==
  /\ loop' = [loop EXCEPT !.at = "assembling"] /\ UNCHANGED ended
  /\ IF closing
     THEN /\ recovery' = Cleanup
          /\ steered' = [steered EXCEPT !.closing = @ + 1,
                           !.first = IF recovery.phase = "none" THEN Cardinality(Unresolved) ELSE @]
     ELSE UNCHANGED recovery /\ steered' = [steered EXCEPT !.answer = @ + 1]

\* Open batches are to be closed; an answer that is not complete is asked for again.
TurnStopping ==
  /\ loop.at = "stopping"
  /\ LET open == Unresolved # {}
     IN \/ open /\ (Stuck \/ recovery.phase \in {"awaiting-answer", "answer-complete"})
           /\ Ends("failed") /\ UNCHANGED steered
        \/ open /\ ~Stuck /\ recovery.phase \in {"none", "closing"} /\ Steer(TRUE)
        \/ ~open /\ recovery.phase \notin {"none", "answer-complete"}
           /\ (IF recovery.attempts >= MaxAnswers THEN Ends("failed") /\ UNCHANGED steered ELSE Steer(FALSE))
        \/ ~open /\ recovery.phase \in {"none", "answer-complete"} /\ Ends("completed") /\ UNCHANGED steered
  /\ UNCHANGED <<batches, using, recorded, shown>>

\* Another listener keeps the turn going when this one would let it end.
Urged ==
  /\ loop.at = "stopping" /\ Unresolved = {} /\ recovery.phase \in {"none", "answer-complete"}
  /\ loop.urges < MaxUrges /\ loop' = [loop EXCEPT !.at = "assembling", !.urges = @ + 1]
  /\ UNCHANGED <<batches, using, recorded, recovery, shown, steered, ended>>

-----------------------------------------------------------------------------

EvidenceInit ==
  /\ batches = <<>> /\ using = [c \in UseCall |-> NoUse] /\ recorded = {}
  /\ loop = [at |-> "idle", turns |-> 0, urges |-> 0, fails |-> 0]
  /\ recovery = NoRecovery /\ shown = "none" /\ steered = [closing |-> 0, answer |-> 0, first |-> 0]
  /\ ended = [how |-> "none", recovered |-> FALSE, shown |-> "none", pending |-> {}]

EvidenceNext ==
  \/ \E refs \in SUBSET Ref : Search(refs)
  \/ \E b \in DOMAIN batches :
       \/ \E verdict \in {"sufficient", "partial", "wrong"}, refs \in SUBSET Ref, next \in {"answer", "search"} :
            AssessBatch(b, verdict, refs, next)
       \/ \E c \in UseCall, refs \in SUBSET Ref : RecordBatchUse(c, b, refs)
  \/ \E c \in UseCall : UseRecorded(c) \/ UseFails(c)
  \/ StartTurn \/ NextStep \/ ToolsSettle \/ Aborted \/ TurnStopping \/ Urged
  \/ \E kind \in {"calls", "partial", "complete"} : Reply(kind)

EvidenceSpec == EvidenceInit /\ [][EvidenceNext]_evidenceVars

EvidenceTypeOK ==
  /\ \A b \in DOMAIN batches : batches[b].refs \subseteq Ref /\ batches[b].adopted \subseteq batches[b].refs
  /\ \A u \in recorded : u.call \in UseCall /\ u.batch \in DOMAIN batches
  /\ loop.at \in {"idle", "assembling", "step", "tools", "stopping"} /\ recovery.stops >= 0

\* A turn that completes has closed every batch, and when it had to be sent back, the last thing
\* it shows is a complete answer, whatever the cleanup, parallel calls and other listeners did in
\* between ("the final text must be last", src/retrieval-finalization.ts).  And it is kept going a
\* bounded number of times, although each cleanup may leave new batches ("must fail visibly
\* rather than loop forever").
AnswersAreFinal ==
  /\ ended.how = "completed" => ended.pending = {} /\ (ended.recovered => ended.shown = "complete")
  /\ steered.closing <= steered.first + 1 /\ steered.answer < MaxAnswers
=============================================================================
