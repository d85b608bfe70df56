------------------------------ MODULE HostProofs ------------------------------
(***************************************************************************)
(* Proofs about what hosts do around the memory: an answer that completes  *)
(* is final (EvidenceGate), each candidate of an import has the one        *)
(* decision that was made about it (ExternalImport), a link between cards  *)
(* leads to a card that is there and only the undo of an import revives a  *)
(* card (EventPool), the journal of reviewed duplicates says what happened *)
(* to the cards (DuplicateReview), and a stored turn is one that took      *)
(* place (WorkBuddy).                                                      *)
(***************************************************************************)
EXTENDS EvidenceGate, DuplicateReview, ExternalImport, WorkBuddy, FiniteSetTheorems, SequenceTheorems,
        WellFoundedInduction, TLAPS

(* EvidenceGate *)

Batch == [refs : SUBSET Ref, status : {"unresolved", "recorded"}, adopted : SUBSET Ref]
Recovery == [phase : {"none", "closing", "awaiting-answer", "answer-complete"},
             pending : SUBSET Nat, stops : Nat, attempts : Nat, answers : BOOLEAN]

Loop == [at : {"idle", "assembling", "step", "tools", "stopping"}, turns : Nat, urges : Nat, fails : Nat]
Steered == [closing : Nat, answer : Nat, first : Nat]

BatchesOK ==
  /\ IsFiniteSet(DOMAIN batches) /\ DOMAIN batches \subseteq Nat
  /\ batches \in [DOMAIN batches -> Batch]
  /\ \A b \in DOMAIN batches : batches[b].adopted \subseteq batches[b].refs

\* What a call records, it records of a batch there is.
UsesOK ==
  /\ using \in [UseCall -> [batch : Nat, refs : SUBSET Ref]]
  /\ \A c \in UseCall : using[c] # NoUse => using[c].batch \in DOMAIN batches /\ loop.at = "tools"
  /\ \A u \in recorded : u.call \in UseCall /\ u.batch \in DOMAIN batches

LoopOK ==
  /\ loop \in Loop /\ steered \in Steered
  /\ recovery \in Recovery /\ shown \in {"none", "partial", "complete"}
  /\ ended \in [how : {"none", "completed", "failed", "aborted"}, recovered : BOOLEAN,
                shown : {"none", "partial", "complete"}, pending : SUBSET Nat]

\* A recovery belongs to a turn; its answer was complete when it was last shown; and a step of a
\* cleanup begins with batches to close.
RecoveryOK ==
  /\ loop.at = "idle" => recovery = NoRecovery
  /\ recovery.phase = "answer-complete" => recovery.answers /\ shown = "complete"
  /\ recovery.phase \in {"none", "closing"} => ~recovery.answers
  /\ recovery.phase = "closing" /\ loop.at \in {"step", "stopping"} => Unresolved # {}

\* What a cleanup has left of its stops; an answer is asked for again after an attempt at it.
SteeredOK ==
  loop.at # "idle" =>
    /\ recovery.phase = "none" => steered.closing = 0 /\ steered.answer = 0
    /\ recovery.phase = "closing" =>
         steered.closing + recovery.stops = steered.first + 1 /\ steered.answer = 0
    /\ steered.answer <= recovery.attempts
    /\ recovery.phase \in {"awaiting-answer", "answer-complete"} /\ loop.at # "assembling"
       => steered.answer < recovery.attempts

EvidenceInv ==
  BatchesOK /\ UsesOK /\ LoopOK /\ RecoveryOK /\ SteeredOK /\ AnswersAreFinal

-----------------------------------------------------------------------------

LEMMA EvidenceStarts == EvidenceInit => EvidenceInv
<1> SUFFICES ASSUME EvidenceInit PROVE EvidenceInv
  OBVIOUS
<1> USE DEF EvidenceInit
<1>1. DOMAIN batches = {}
  OBVIOUS
<1>2. BatchesOK
  BY <1>1, FS_EmptySet DEF BatchesOK
<1>3. UsesOK
  BY DEF UsesOK, NoUse
<1>4. LoopOK
  BY DEF LoopOK, Recovery, NoRecovery, Loop, Steered
<1>5. RecoveryOK /\ SteeredOK /\ AnswersAreFinal
  BY EvidenceAssumption DEF RecoveryOK, SteeredOK, AnswersAreFinal, NoRecovery
<1> QED BY <1>2, <1>3, <1>4, <1>5 DEF EvidenceInv

\* While tools run, only the batches and what is said of them change.
Tooling ==
  /\ loop.at = "tools" /\ loop'.at = "tools" /\ UNCHANGED <<recovery, shown, steered, ended>>
  /\ loop' \in Loop

LEMMA ToolsKeepTheTurn ==
  ASSUME EvidenceInv, Tooling
  PROVE  LoopOK' /\ RecoveryOK' /\ SteeredOK' /\ AnswersAreFinal'
<1> USE DEF EvidenceInv, Tooling
<1>1. LoopOK'
  BY DEF LoopOK, Loop, Steered
<1>2. RecoveryOK'
  BY DEF RecoveryOK
<1>3. SteeredOK'
  BY DEF SteeredOK
<1>4. AnswersAreFinal'
  BY DEF AnswersAreFinal
<1> QED BY <1>1, <1>2, <1>3, <1>4

LEMMA SearchKeeps ==
  ASSUME EvidenceInv, NEW refs \in SUBSET Ref, Search(refs)
  PROVE  EvidenceInv'
<1>1. Tooling
  BY DEF Search, Tooling, EvidenceInv, LoopOK, Loop, Steered
<1> DEFINE id == Cardinality(DOMAIN batches) + 1
<1>2. id \in Nat
  BY FS_CardinalityType DEF EvidenceInv, BatchesOK
<1>3. /\ DOMAIN batches' = DOMAIN batches \cup {id}
      /\ \A b \in DOMAIN batches : batches'[b] = batches[b]
      /\ \A b \in DOMAIN batches' : b \notin DOMAIN batches =>
           batches'[b] = [refs |-> refs, status |-> "unresolved", adopted |-> {}]
      /\ batches' = [b \in DOMAIN batches' |-> batches'[b]]
  BY DEF Search, NewBatch
<1>4. IsFiniteSet(DOMAIN batches \cup {id})
  BY FS_AddElement DEF EvidenceInv, BatchesOK
<1> HIDE DEF id
<1>5. \A b \in DOMAIN batches' : batches'[b] \in Batch /\ batches'[b].adopted \subseteq batches'[b].refs
  BY <1>3 DEF EvidenceInv, BatchesOK, Batch
<1>6. BatchesOK'
  BY <1>2, <1>3, <1>4, <1>5 DEF EvidenceInv, BatchesOK
<1>7. UsesOK'
  BY <1>1, <1>3 DEF Search, EvidenceInv, UsesOK, Tooling
<1> QED BY <1>1, <1>6, <1>7, ToolsKeepTheTurn DEF EvidenceInv

LEMMA AssessKeeps ==
  ASSUME EvidenceInv, NEW b \in DOMAIN batches, NEW verdict, NEW refs \in SUBSET Ref, NEW next,
         AssessBatch(b, verdict, refs, next)
  PROVE  EvidenceInv'
<1>1. Tooling
  BY DEF AssessBatch, Tooling, EvidenceInv, LoopOK, Loop, Steered
<1>2. NormalizeRetrievalAssessment(b, verdict, refs, next) \subseteq batches[b].refs
  BY DEF NormalizeRetrievalAssessment
<1> DEFINE taken == NormalizeRetrievalAssessment(b, verdict, refs, next)
<1> HIDE DEF taken
<1>3. batches' = [batches EXCEPT ![b].adopted = taken] /\ taken \subseteq batches[b].refs
  BY <1>2 DEF AssessBatch, taken
<1>4. BatchesOK'
  BY <1>3 DEF EvidenceInv, BatchesOK, Batch
<1>5. UsesOK'
  BY <1>1, <1>3 DEF AssessBatch, EvidenceInv, UsesOK, Tooling
<1> QED BY <1>1, <1>4, <1>5, ToolsKeepTheTurn DEF EvidenceInv

LEMMA RecordUseKeeps ==
  ASSUME EvidenceInv, NEW c \in UseCall, NEW b \in DOMAIN batches, NEW refs \in SUBSET Ref,
         RecordBatchUse(c, b, refs)
  PROVE  EvidenceInv'
<1>1. Tooling
  BY DEF RecordBatchUse, Tooling, EvidenceInv, LoopOK, Loop, Steered
<1>2. BatchesOK'
  BY DEF RecordBatchUse, EvidenceInv, BatchesOK
<1>3. UsesOK'
  BY <1>1 DEF RecordBatchUse, EvidenceInv, BatchesOK, UsesOK, Tooling
<1> QED BY <1>1, <1>2, <1>3, ToolsKeepTheTurn DEF EvidenceInv

LEMMA UseRecordedKeeps ==
  ASSUME EvidenceInv, NEW c \in UseCall, UseRecorded(c)
  PROVE  EvidenceInv'
<1>1. Tooling /\ using[c].batch \in DOMAIN batches
  BY DEF UseRecorded, Tooling, EvidenceInv, LoopOK, UsesOK, Loop, Steered
<1>2. BatchesOK'
  BY <1>1 DEF UseRecorded, EvidenceInv, BatchesOK, Batch
<1>3. UsesOK'
  <2>1. DOMAIN batches' = DOMAIN batches
    BY DEF UseRecorded
  <2>2. using' \in [UseCall -> [batch : Nat, refs : SUBSET Ref]]
    BY DEF UseRecorded, EvidenceInv, UsesOK, NoUse
  <2>3. \A d \in UseCall : using'[d] # NoUse => using'[d] = using[d]
    BY DEF UseRecorded, EvidenceInv, UsesOK
  <2>4. \A u \in recorded' : u.call \in UseCall /\ u.batch \in DOMAIN batches
    BY <1>1 DEF UseRecorded, EvidenceInv, UsesOK
  <2> QED BY <1>1, <2>1, <2>2, <2>3, <2>4 DEF EvidenceInv, UsesOK, Tooling
<1> QED BY <1>1, <1>2, <1>3, ToolsKeepTheTurn DEF EvidenceInv

LEMMA UseFailsKeeps ==
  ASSUME EvidenceInv, NEW c \in UseCall, UseFails(c)
  PROVE  EvidenceInv'
<1>1. Tooling
  BY DEF UseFails, Tooling, EvidenceInv, LoopOK, UsesOK, Loop, Steered
<1>2. BatchesOK'
  BY DEF UseFails, EvidenceInv, BatchesOK
<1>3. UsesOK'
  BY <1>1 DEF UseFails, EvidenceInv, UsesOK, NoUse, Tooling
<1> QED BY <1>1, <1>2, <1>3, ToolsKeepTheTurn DEF EvidenceInv

\* Between the tools, the batches rest and no use is being recorded.
Turning == UNCHANGED <<batches, using, recorded>> /\ \A c \in UseCall : using[c] = NoUse

LEMMA TurnKeepsTheBatches ==
  ASSUME EvidenceInv, Turning
  PROVE  BatchesOK' /\ UsesOK' /\ Unresolved' = Unresolved /\ Unresolved \in SUBSET Nat
         /\ Cardinality(Unresolved) \in Nat
<1>1. BatchesOK'
  BY DEF EvidenceInv, Turning, BatchesOK
<1>2. UsesOK'
  BY DEF EvidenceInv, Turning, UsesOK
<1>3. Unresolved' = Unresolved /\ Unresolved \subseteq DOMAIN batches
  BY DEF Turning, Unresolved
<1>4. Cardinality(Unresolved) \in Nat
  BY <1>3, FS_Subset, FS_CardinalityType DEF EvidenceInv, BatchesOK
<1> QED BY <1>1, <1>2, <1>3, <1>4 DEF EvidenceInv, BatchesOK

LEMMA NoUseOutsideTools ==
  ASSUME EvidenceInv, loop.at # "tools", UNCHANGED <<batches, using, recorded>>
  PROVE  Turning
BY DEF EvidenceInv, UsesOK, Turning

\* A turn that ends otherwise than completed leaves nothing to show.
LEMMA EndsKeeps ==
  ASSUME EvidenceInv, NEW how \in {"failed", "aborted", "completed"}, Ends(how), Turning, UNCHANGED <<shown, steered>>,
         how = "completed" => Unresolved = {} /\ (recovery.phase = "none" \/ shown = "complete")
  PROVE  EvidenceInv'
<1>1. BatchesOK' /\ UsesOK' /\ Unresolved \in SUBSET Nat
  BY TurnKeepsTheBatches
<1>2. loop'.at = "idle" /\ recovery' = NoRecovery
  BY DEF Ends, EvidenceInv, LoopOK, Loop, Steered
<1>3. LoopOK'
  BY <1>1 DEF Ends, EvidenceInv, LoopOK, NoRecovery, Recovery, Loop, Steered
<1>4. RecoveryOK'
  BY <1>2 DEF RecoveryOK, NoRecovery
<1>5. SteeredOK'
  BY <1>2 DEF SteeredOK
<1>6. AnswersAreFinal'
  BY DEF Ends, EvidenceInv, AnswersAreFinal
<1> QED BY <1>1, <1>3, <1>4, <1>5, <1>6 DEF EvidenceInv

LEMMA StartTurnKeeps ==
  ASSUME EvidenceInv, StartTurn
  PROVE  EvidenceInv'
<1>1. Turning
  BY NoUseOutsideTools DEF StartTurn
<1>2. recovery' = NoRecovery /\ shown' = "none" /\ ended' = ended
      /\ steered' = [closing |-> 0, answer |-> 0, first |-> 0] /\ loop'.at = "assembling"
  BY DEF StartTurn, EvidenceInv, RecoveryOK, LoopOK, Loop, Steered
<1>3. loop' \in Loop
  <2> DEFINE next == loop.turns + 1
  <2>1. loop \in Loop /\ next \in Nat
    BY DEF EvidenceInv, LoopOK, Loop
  <2>2. loop' = [loop EXCEPT !.at = "assembling", !.turns = next]
    BY DEF StartTurn
  <2> HIDE DEF next
  <2> QED BY <2>1, <2>2 DEF Loop
<1>4. LoopOK'
  BY <1>2, <1>3 DEF EvidenceInv, LoopOK, NoRecovery, Recovery, Steered, Loop
<1>5. RecoveryOK' /\ SteeredOK'
  BY <1>2 DEF RecoveryOK, SteeredOK, NoRecovery
<1>6. AnswersAreFinal'
  BY <1>2, EvidenceAssumption DEF EvidenceInv, AnswersAreFinal
<1> QED BY <1>1, <1>4, <1>5, <1>6, TurnKeepsTheBatches DEF EvidenceInv

\* Admitting the answer's step is an attempt at it.
LEMMA NextStepKeeps ==
  ASSUME EvidenceInv, NextStep
  PROVE  EvidenceInv'
<1>1. Turning
  BY NoUseOutsideTools DEF NextStep
<1>2. CASE Refused
  BY <1>1, <1>2, EndsKeeps DEF NextStep
<1>3. CASE ~Refused
  <2>1. /\ loop' = [loop EXCEPT !.at = "step"] /\ recovery' = Admitted
        /\ UNCHANGED <<shown, ended, steered>>
    BY <1>3 DEF NextStep
  <2>2. loop'.at = "step" /\ loop.at = "assembling"
    BY <2>1 DEF NextStep, EvidenceInv, LoopOK, Loop, Steered
  <2>3. LoopOK'
    <3>1. loop' \in Loop
      BY <2>1 DEF EvidenceInv, LoopOK, Loop
    <3> DEFINE next == recovery.attempts + 1
    <3>2. recovery \in Recovery /\ next \in Nat
      BY DEF EvidenceInv, LoopOK, Recovery
    <3>3. Answering = [recovery EXCEPT !.phase = "awaiting-answer", !.attempts = next, !.answers = TRUE]
      BY DEF Answering
    <3> HIDE DEF next
    <3>4. Answering \in Recovery
      BY <3>2, <3>3 DEF Recovery
    <3> QED BY <2>1, <3>1, <3>2, <3>4 DEF EvidenceInv, LoopOK, Admitted
  <2>4. \/ recovery' = recovery /\ (recovery.phase = "none" \/ (recovery.phase = "closing" /\ Unresolved # {}))
        \/ /\ recovery'.phase = "awaiting-answer" /\ recovery'.attempts = recovery.attempts + 1
           /\ recovery.phase # "none"
    BY <2>1 DEF Admitted, Answering, Closing, EvidenceInv, LoopOK, Recovery, Loop, Steered
  <2>5. RecoveryOK'
    BY <2>1, <2>2, <2>4, <1>1, TurnKeepsTheBatches DEF EvidenceInv, RecoveryOK
  <2>6. SteeredOK'
    BY <2>1, <2>2, <2>4 DEF EvidenceInv, SteeredOK, LoopOK, Recovery, Loop, Steered
  <2>7. AnswersAreFinal'
    BY <2>1 DEF EvidenceInv, AnswersAreFinal
  <2> QED BY <1>1, <2>3, <2>5, <2>6, <2>7, TurnKeepsTheBatches DEF EvidenceInv
<1> QED BY <1>2, <1>3

LEMMA ReplyKeeps ==
  ASSUME EvidenceInv, NEW kind \in {"calls", "partial", "complete"}, Reply(kind)
  PROVE  EvidenceInv'
<1>1. Turning
  BY NoUseOutsideTools DEF Reply
<1>2. /\ loop.at = "step" /\ loop'.at \in {"tools", "stopping"} /\ loop'.at # "step"
      /\ shown' = (IF kind = "calls" THEN "partial" ELSE kind)
      /\ UNCHANGED <<steered, ended>>
  BY DEF Reply, EvidenceInv, LoopOK, Loop, Steered
<1>3. \/ recovery' = recovery /\ ~recovery.answers /\ recovery.phase # "answer-complete"
      \/ /\ recovery.answers /\ recovery'.answers /\ recovery'.attempts = recovery.attempts
         /\ recovery.phase \in {"awaiting-answer", "answer-complete"}
         /\ recovery'.phase = IF kind = "complete" THEN "answer-complete" ELSE "awaiting-answer"
  BY DEF Reply, AnswerShown, EvidenceInv, LoopOK, RecoveryOK, Recovery, Loop, Steered
<1>4. LoopOK'
  BY DEF Reply, AnswerShown, EvidenceInv, LoopOK, Recovery, Loop, Steered
<1>5. RecoveryOK'
  BY <1>1, <1>2, <1>3, TurnKeepsTheBatches DEF EvidenceInv, RecoveryOK
<1>6. SteeredOK'
  BY <1>2, <1>3 DEF EvidenceInv, SteeredOK
<1>7. AnswersAreFinal'
  BY <1>2 DEF EvidenceInv, AnswersAreFinal
<1> QED BY <1>1, <1>4, <1>5, <1>6, <1>7, TurnKeepsTheBatches DEF EvidenceInv

\* The turn goes on as it was.
LEMMA GoesOnKeeps ==
  ASSUME EvidenceInv, loop.at # "idle", Turning, UNCHANGED <<recovery, shown, steered, ended>>,
         loop' \in Loop /\ loop'.at = "assembling"
  PROVE  EvidenceInv'
<1>1. LoopOK' /\ loop'.at = "assembling"
  BY DEF EvidenceInv, LoopOK, Loop, Steered
<1>2. RecoveryOK' /\ SteeredOK' /\ AnswersAreFinal'
  BY <1>1 DEF EvidenceInv, RecoveryOK, SteeredOK, AnswersAreFinal
<1> QED BY <1>1, <1>2, TurnKeepsTheBatches DEF EvidenceInv

LEMMA ToolsSettleKeeps ==
  ASSUME EvidenceInv, ToolsSettle
  PROVE  EvidenceInv'
<1>1. Turning
  BY DEF ToolsSettle, Turning
<1>2. loop' \in Loop /\ loop'.at = "assembling"
  BY DEF ToolsSettle, EvidenceInv, LoopOK, Loop, Steered
<1> QED BY <1>1, <1>2, GoesOnKeeps DEF ToolsSettle

LEMMA UrgedKeeps ==
  ASSUME EvidenceInv, Urged
  PROVE  EvidenceInv'
<1>1. Turning
  BY NoUseOutsideTools DEF Urged
<1>2. loop' \in Loop /\ loop'.at = "assembling"
  <2> DEFINE next == loop.urges + 1
  <2>1. loop \in Loop /\ next \in Nat
    BY DEF EvidenceInv, LoopOK, Loop
  <2>2. loop' = [loop EXCEPT !.at = "assembling", !.urges = next]
    BY DEF Urged
  <2> HIDE DEF next
  <2> QED BY <2>1, <2>2 DEF Loop
<1> QED BY <1>1, <1>2, GoesOnKeeps DEF Urged

LEMMA AbortedKeeps ==
  ASSUME EvidenceInv, Aborted
  PROVE  EvidenceInv'
<1>1. Turning
  BY NoUseOutsideTools DEF Aborted
<1> QED BY <1>1, EndsKeeps DEF Aborted

\* A cleanup is one of the stops that the first one found batches for.
LEMMA CleanupKeeps ==
  ASSUME EvidenceInv, loop.at = "stopping", Turning, UNCHANGED shown,
         Unresolved # {}, ~Stuck, recovery.phase \in {"none", "closing"}, Steer(TRUE)
  PROVE  EvidenceInv'
<1> DEFINE open == Cardinality(Unresolved)
<1>1. open \in Nat /\ Unresolved \in SUBSET Nat
  BY TurnKeepsTheBatches
<1>2. /\ loop' \in Loop /\ loop'.at = "assembling"
      /\ ended' = ended
      /\ recovery' = [phase |-> "closing", pending |-> Unresolved, attempts |-> 0, answers |-> FALSE,
                      stops |-> IF recovery.phase = "none" THEN open ELSE recovery.stops - 1]
      /\ steered'.closing = steered.closing + 1 /\ steered'.answer = steered.answer
      /\ steered'.first = (IF recovery.phase = "none" THEN open ELSE steered.first)
      /\ steered' \in Steered
  <2>1. loop' \in Loop /\ loop'.at = "assembling"
    BY DEF Steer, EvidenceInv, LoopOK, Loop, Steered
  <2>2. steered \in Steered
    BY DEF EvidenceInv, LoopOK, Loop, Steered
  <2> DEFINE next == steered.closing + 1
             found == IF recovery.phase = "none" THEN open ELSE steered.first
  <2>3. steered' = [steered EXCEPT !.closing = next, !.first = found] /\ next \in Nat /\ found \in Nat
    BY <1>1, <2>2 DEF Steer, Steered
  <2> HIDE DEF next, found
  <2>4. steered'.closing = next /\ steered'.first = found /\ steered'.answer = steered.answer /\ steered' \in Steered
    BY <2>2, <2>3 DEF Steered
  <2>5. /\ steered'.closing = steered.closing + 1 /\ steered'.answer = steered.answer
        /\ steered'.first = (IF recovery.phase = "none" THEN open ELSE steered.first)
        /\ steered' \in Steered
    BY <2>4 DEF next, found
  <2> QED BY <2>1, <2>5 DEF Steer, Cleanup
<1> HIDE DEF open
<1>3. recovery.phase = "closing" => recovery.stops \in Nat \ {0}
  BY DEF Stuck, EvidenceInv, LoopOK, Recovery, Loop, Steered
<1>4. LoopOK'
  BY <1>1, <1>2, <1>3 DEF EvidenceInv, LoopOK, Recovery, Loop, Steered
<1>5. RecoveryOK'
  BY <1>2 DEF RecoveryOK
<1>6. SteeredOK'
  BY <1>1, <1>2, <1>3 DEF EvidenceInv, SteeredOK, LoopOK, Loop, Steered
<1>7. AnswersAreFinal'
  BY <1>1, <1>2, <1>3 DEF EvidenceInv, SteeredOK, LoopOK, AnswersAreFinal, Loop, Steered
<1> QED BY <1>4, <1>5, <1>6, <1>7, TurnKeepsTheBatches DEF EvidenceInv

\* An answer is asked for again only while attempts are left.
LEMMA AskAgainKeeps ==
  ASSUME EvidenceInv, loop.at = "stopping", Turning, UNCHANGED shown,
         Unresolved = {}, recovery.phase \notin {"none", "answer-complete"},
         recovery.attempts < MaxAnswers, Steer(FALSE)
  PROVE  EvidenceInv'
<1>1. recovery.phase = "awaiting-answer"
  BY DEF EvidenceInv, LoopOK, Recovery, RecoveryOK, Loop, Steered
<1>2. /\ loop' \in Loop /\ loop'.at = "assembling"
      /\ ended' = ended /\ recovery' = recovery
      /\ steered'.closing = steered.closing /\ steered'.answer = steered.answer + 1
      /\ steered'.first = steered.first /\ steered' \in Steered
  BY DEF Steer, EvidenceInv, LoopOK, Loop, Steered
<1>3. LoopOK'
  BY <1>2 DEF EvidenceInv, LoopOK, Loop, Steered
<1>4. RecoveryOK'
  BY <1>1, <1>2 DEF EvidenceInv, RecoveryOK
<1>5. SteeredOK'
  BY <1>1, <1>2 DEF EvidenceInv, SteeredOK, LoopOK, Recovery, Loop, Steered
<1>6. AnswersAreFinal'
  BY <1>1, <1>2, EvidenceAssumption DEF EvidenceInv, SteeredOK, LoopOK, Recovery, AnswersAreFinal, Loop, Steered
<1> QED BY <1>3, <1>4, <1>5, <1>6, TurnKeepsTheBatches DEF EvidenceInv

LEMMA TurnStoppingKeeps ==
  ASSUME EvidenceInv, TurnStopping
  PROVE  EvidenceInv'
<1>1. loop.at = "stopping" /\ Turning /\ UNCHANGED shown
  BY NoUseOutsideTools DEF TurnStopping
<1>2. CASE Ends("failed") /\ UNCHANGED steered
  BY <1>1, <1>2, EndsKeeps
<1>3. CASE Unresolved # {} /\ ~Stuck /\ recovery.phase \in {"none", "closing"} /\ Steer(TRUE)
  BY <1>1, <1>3, CleanupKeeps
<1>4. CASE /\ Unresolved = {} /\ recovery.phase \notin {"none", "answer-complete"}
           /\ ~(recovery.attempts >= MaxAnswers) /\ Steer(FALSE)
  BY <1>1, <1>4, AskAgainKeeps, EvidenceAssumption DEF EvidenceInv, LoopOK, Recovery, Loop, Steered
<1>5. CASE /\ Unresolved = {} /\ recovery.phase \in {"none", "answer-complete"}
           /\ Ends("completed") /\ UNCHANGED steered
  BY <1>1, <1>5, EndsKeeps DEF EvidenceInv, RecoveryOK
<1> QED BY <1>2, <1>3, <1>4, <1>5 DEF TurnStopping

LEMMA EvidenceStep ==
  ASSUME EvidenceInv, [EvidenceNext]_evidenceVars
  PROVE  EvidenceInv'
<1>1. CASE UNCHANGED evidenceVars
  BY <1>1 DEF evidenceVars, EvidenceInv, BatchesOK, UsesOK, LoopOK, RecoveryOK, SteeredOK, AnswersAreFinal, Unresolved, Loop, Steered
<1>2. CASE EvidenceNext
  BY <1>2, SearchKeeps, AssessKeeps, RecordUseKeeps, UseRecordedKeeps, UseFailsKeeps, StartTurnKeeps,
     NextStepKeeps, ToolsSettleKeeps, AbortedKeeps, TurnStoppingKeeps, UrgedKeeps, ReplyKeeps
  DEF EvidenceNext
<1> QED BY <1>1, <1>2

\* The evidence of an answer has its type: what is adopted of a batch is of that batch, and a
\* cleanup never has fewer stops than none.
THEOREM EvidenceIsTyped == EvidenceSpec => []EvidenceTypeOK
<1>1. EvidenceInv => EvidenceTypeOK
  BY DEF EvidenceInv, BatchesOK, UsesOK, LoopOK, Batch, Recovery, EvidenceTypeOK, Loop, Steered
<1> QED BY <1>1, EvidenceStarts, EvidenceStep, PTL DEF EvidenceSpec

\* For any references, calls, searches, turns and attempts: a turn that completes has closed every
\* batch, shows a complete answer last when it had to be sent back, and is kept going a bounded
\* number of times (TurnStopping and the steps before it, src/retrieval-finalization.ts).
THEOREM AnswersStayFinal == EvidenceSpec => []AnswersAreFinal
<1>1. EvidenceInv => AnswersAreFinal
  BY DEF EvidenceInv
<1> QED BY <1>1, EvidenceStarts, EvidenceStep, PTL DEF EvidenceSpec

-----------------------------------------------------------------------------
(* ExternalImport *)

Decision == [list : Nat, at : Nat, unsure : BOOLEAN]
Job == [status : JobStatus, bad : BOOLEAN, total : 0..MaxCandidates, list : Nat, answers : Seq(Decision),
        recovered : BOOLEAN, source : 0..MaxClicks]
Run == [pc : {"idle", "look", "extract", "decide", "end"}, list : Nat, at : Nat]

ImportTypes ==
  /\ run \in [Host -> Run]
  /\ admin \in [Host -> [pc : {"none", "commit", "undo"}, source : 0..MaxClicks]]
  /\ page \in [Host -> JobStatus] /\ stale \subseteq Host
  /\ clicks \in 0..MaxClicks /\ applied \subseteq 1..MaxClicks

\* Only a job without candidates waits for a recovery, and its decisions fit the list it has.
JobOK(j) ==
  /\ j \in Job /\ Processed(j) <= j.total
  /\ j.status \in {"none", "extracting"} => j.total = 0
  /\ \A i \in 1..Processed(j) : j.answers[i].list = j.list /\ j.answers[i].at = i - 1

\* A run decides about a candidate of the list the job has.
RunsOK == \A p \in Host : run[p].pc = "decide" => run[p].list = job.list /\ run[p].at < job.total

ImportInv == ImportTypes /\ JobOK(job) /\ RunsOK

\* What a step may do to the job: leave its list and decisions, give it a new list while it has
\* none, or add the decision that is next.
KeepsList(j, k) ==
  /\ k \in Job /\ k.list = j.list /\ k.total = j.total /\ k.answers = j.answers
  /\ k.status \in {"none", "extracting"} => k.total = 0
NewList(j, k) ==
  /\ j.total = 0 /\ k \in Job /\ k.answers = <<>>
  /\ k.status \in {"none", "extracting"} => k.total = 0
Grows(j, k) ==
  /\ k \in Job /\ k.list = j.list /\ k.total = j.total /\ k.status \notin {"none", "extracting"}
  /\ \E a \in Decision : /\ a.list = j.list /\ a.at = Processed(j) /\ Processed(j) < j.total
                         /\ k.answers = Append(j.answers, a)
Moves(j, k) == KeepsList(j, k) \/ NewList(j, k) \/ Grows(j, k)

\* ... and to a run: leave it, take it out of its decision, or let it look at the job.
RunMoves(p) ==
  \/ run'[p] = run[p]
  \/ run'[p].pc # "decide"
  \/ job' = job /\ run'[p].list = job.list /\ run'[p].at < job.total

LEMMA MovesKeepsTheJob ==
  ASSUME NEW j, NEW k, JobOK(j), Moves(j, k)
  PROVE  JobOK(k)
<1>1. j \in Job /\ j.answers \in Seq(Decision) /\ Len(j.answers) \in Nat
  BY DEF JobOK, Job
<1>2. CASE KeepsList(j, k)
  BY <1>2 DEF KeepsList, JobOK, Processed
<1>3. CASE NewList(j, k)
  <2>1. Len(k.answers) = 0 /\ k.total \in Nat
    BY <1>3, ImportAssumption DEF NewList, Job
  <2> QED BY <1>3, <2>1 DEF NewList, JobOK, Processed
<1>4. CASE Grows(j, k)
  <2>1. PICK a \in Decision : /\ a.list = j.list /\ a.at = Processed(j) /\ Processed(j) < j.total
                              /\ k.answers = Append(j.answers, a)
    BY <1>4 DEF Grows
  <2>2. /\ Len(k.answers) = Len(j.answers) + 1
        /\ \A i \in 1..Len(j.answers) : k.answers[i] = j.answers[i]
        /\ k.answers[Len(j.answers) + 1] = a
    BY <1>1, <2>1, AppendProperties
  <2>3. k \in Job /\ k.list = j.list /\ k.total = j.total /\ k.status \notin {"none", "extracting"}
    BY <1>4 DEF Grows
  <2>4. Processed(k) <= k.total
    BY <1>1, <2>1, <2>2, <2>3, ImportAssumption DEF Processed, Job
  <2>5. ASSUME NEW i \in 1..Processed(k)
        PROVE  k.answers[i].list = k.list /\ k.answers[i].at = i - 1
    <3>1. CASE i \in 1..Len(j.answers)
      BY <2>2, <2>3, <3>1 DEF JobOK, Processed
    <3>2. CASE i = Len(j.answers) + 1
      BY <1>1, <2>1, <2>2, <2>3, <3>2 DEF Processed
    <3> QED BY <1>1, <2>2, <3>1, <3>2 DEF Processed
  <2> QED BY <2>3, <2>4, <2>5 DEF JobOK
<1> QED BY <1>2, <1>3, <1>4 DEF Moves

LEMMA MovesKeepTheRuns ==
  ASSUME ImportInv, Moves(job, job'), run' \in [Host -> Run], \A p \in Host : RunMoves(p)
  PROVE  RunsOK'
<1> SUFFICES ASSUME NEW p \in Host, run'[p].pc = "decide"
             PROVE  run'[p].list = job'.list /\ run'[p].at < job'.total
  BY DEF RunsOK
<1>1. CASE run'[p] = run[p]
  <2>1. run[p].list = job.list /\ run[p].at < job.total /\ run[p].at \in Nat
    BY <1>1 DEF ImportInv, RunsOK, ImportTypes, Run
  <2>2. job.total # 0
    BY <2>1
  <2> QED BY <1>1, <2>1, <2>2 DEF Moves, KeepsList, NewList, Grows
<1> QED BY <1>1 DEF RunMoves

\* The types of what a step assigns beside the job and the runs.
OtherTypes ==
  /\ admin \in [Host -> [pc : {"none", "commit", "undo"}, source : 0..MaxClicks]]
  /\ page \in [Host -> JobStatus] /\ stale \subseteq Host
  /\ clicks \in 0..MaxClicks /\ applied \subseteq 1..MaxClicks

LEMMA ImportMoves ==
  ASSUME ImportInv, Moves(job, job'), run' \in [Host -> Run], \A p \in Host : RunMoves(p), OtherTypes'
  PROVE  ImportInv'
<1>1. JobOK(job')
  BY MovesKeepsTheJob DEF ImportInv
<1>2. RunsOK'
  BY MovesKeepTheRuns
<1> QED BY <1>1, <1>2 DEF ImportInv, ImportTypes, OtherTypes, JobOK, Processed

LEMMA ImportStarts == ImportInit => ImportInv
<1> SUFFICES ASSUME ImportInit PROVE ImportInv
  OBVIOUS
<1>1. JobOK(job)
  BY ImportAssumption DEF ImportInit, NoImport, JobOK, Job, JobStatus, Processed
<1>2. ImportTypes
  BY ImportAssumption DEF ImportInit, ImportTypes, Idle, Run, JobStatus
<1>3. RunsOK
  BY DEF ImportInit, RunsOK, Idle
<1> QED BY <1>1, <1>2, <1>3 DEF ImportInv

\* A job that is left alone, and the statuses that leave it to its list.
LEMMA SameJob ==
  ASSUME ImportInv
  PROVE  KeepsList(job, job) /\ job.status \in JobStatus /\ job.source \in 0..MaxClicks
BY DEF ImportInv, JobOK, KeepsList, Job

LEMMA NewStatus ==
  ASSUME ImportInv, NEW s \in JobStatus \ {"none", "extracting"}, NEW src \in 0..MaxClicks
  PROVE  /\ KeepsList(job, [job EXCEPT !.status = s])
         /\ KeepsList(job, [job EXCEPT !.status = s, !.source = src])
BY DEF ImportInv, JobOK, KeepsList, Job

LEMMA FailedJob ==
  ASSUME ImportInv
  PROVE  Moves(job, JobFailed(job))
<1>1. "failed" \in JobStatus \ {"none", "extracting"} /\ job.source \in 0..MaxClicks
  BY SameJob DEF JobStatus
<1>2. KeepsList(job, [job EXCEPT !.status = "failed"])
  BY <1>1, NewStatus
<1> QED BY <1>2 DEF JobFailed, Moves

\* Runs are scheduled, moved on or dropped; none of that is a decision.
LEMMA RunTypes ==
  ASSUME ImportInv, NEW p \in Host
  PROVE  /\ Scheduled(p) \in [Host -> Run]
         /\ \A q \in Host : Scheduled(p)[q] = run[q] \/ Scheduled(p)[q].pc # "decide"
         /\ \A pc \in {"look", "extract", "end"} :
              /\ [run EXCEPT ![p] = At(pc)] \in [Host -> Run]
              /\ \A q \in Host : \/ [run EXCEPT ![p] = At(pc)][q] = run[q]
                                 \/ [run EXCEPT ![p] = At(pc)][q].pc # "decide"
         /\ [run EXCEPT ![p] = Idle] \in [Host -> Run]
         /\ \A q \in Host : [run EXCEPT ![p] = Idle][q] = run[q] \/ [run EXCEPT ![p] = Idle][q].pc # "decide"
<1>1. run \in [Host -> Run]
  BY DEF ImportInv, ImportTypes
<1>2. Idle \in Run /\ Idle.pc = "idle"
  BY DEF Idle, Run
<1>3. \A pc \in {"look", "extract", "end"} : At(pc) \in Run /\ At(pc).pc = pc
  BY DEF At, Idle, Run
<1>4. Scheduled(p) = [run EXCEPT ![p] = IF run[p].pc = "idle" THEN At("look") ELSE run[p]]
  BY DEF Scheduled
<1>5. /\ Scheduled(p) \in [Host -> Run]
      /\ \A q \in Host : Scheduled(p)[q] = run[q] \/ Scheduled(p)[q].pc # "decide"
  BY <1>1, <1>3, <1>4
<1> QED BY <1>1, <1>2, <1>3, <1>5


LEMMA CreateJobKeeps ==
  ASSUME ImportInv, NEW p \in Host, CreateJob(p)
  PROVE  ImportInv'
<1>1. PICK bad \in BOOLEAN, n \in 0..MaxCandidates :
        job' = [NoImport EXCEPT !.bad = bad, !.total = IF bad THEN 0 ELSE n, !.list = 1,
                  !.status = IF bad THEN "extracting" ELSE IF n > 0 THEN "processing" ELSE "ready"]
  BY DEF CreateJob
<1> DEFINE size == IF bad THEN 0 ELSE n
           status == IF bad THEN "extracting" ELSE IF n > 0 THEN "processing" ELSE "ready"
<1>2. size \in 0..MaxCandidates /\ status \in JobStatus \ {"none"} /\ (status = "extracting" => size = 0)
  BY ImportAssumption DEF JobStatus, InAnalysis, Committable
<1> HIDE DEF size, status
<1>3. job' = [NoImport EXCEPT !.bad = bad, !.total = size, !.list = 1, !.status = status]
  BY <1>1 DEF size, status
<1>4. job' = [status |-> status, bad |-> bad, total |-> size, list |-> 1, answers |-> <<>>,
              recovered |-> FALSE, source |-> 0]
  BY <1>3 DEF NoImport
<1>5. job' \in Job
  BY <1>2, <1>4, ImportAssumption DEF Job
<1>6. job.total = 0
  BY DEF CreateJob, ImportInv, JobOK
<1>7. Moves(job, job')
  BY <1>2, <1>4, <1>5, <1>6 DEF Moves, NewList
<1>8. run' \in [Host -> Run] /\ \A q \in Host : RunMoves(q)
  BY RunTypes DEF CreateJob, RunMoves
<1>9. OtherTypes'
  BY <1>5 DEF CreateJob, Overtakes, ImportInv, ImportTypes, OtherTypes, Job
<1> QED BY <1>7, <1>8, <1>9, ImportMoves

LEMMA LookKeeps ==
  ASSUME ImportInv, NEW p \in Host, Look(p)
  PROVE  ImportInv'
<1>1. job' = job /\ Moves(job, job')
  BY SameJob DEF Look, Moves
<1>2. OtherTypes'
  BY DEF Look, ImportInv, ImportTypes, OtherTypes
<1>3. CASE job.status = "processing" /\ Processed(job) < job.total
  <2> DEFINE decide == [pc |-> "decide", list |-> job.list, at |-> Processed(job)]
  <2>1. run' = [run EXCEPT ![p] = decide]
    BY <1>3 DEF Look
  <2>2. decide \in Run /\ decide.list = job.list /\ decide.at < job.total
    BY <1>3 DEF ImportInv, JobOK, Job, Processed, Run
  <2> HIDE DEF decide
  <2>3. run' \in [Host -> Run] /\ \A q \in Host : RunMoves(q)
    BY <1>1, <2>1, <2>2 DEF ImportInv, ImportTypes, RunMoves
  <2> QED BY <1>1, <1>2, <2>3, ImportMoves
<1>4. CASE ~(job.status = "processing" /\ Processed(job) < job.total)
  <2>1. run' = [run EXCEPT ![p] = At("extract")] \/ run' = [run EXCEPT ![p] = At("end")]
    BY <1>4 DEF Look
  <2>2. run' \in [Host -> Run] /\ \A q \in Host : RunMoves(q)
    BY <2>1, RunTypes DEF RunMoves
  <2> QED BY <1>1, <1>2, <2>2, ImportMoves
<1> QED BY <1>3, <1>4

\* A write of the run, whether recording the answer fails afterwards or not.
LEMMA ProceedKeeps ==
  ASSUME ImportInv, NEW p \in Host, NEW j, Moves(job, j), Moves(job, JobFailed(j)), Proceed(p, j),
         OtherTypes'
  PROVE  ImportInv'
<1>1. Moves(job, job')
  BY DEF Proceed
<1>2. run' = [run EXCEPT ![p] = At("look")] \/ run' = [run EXCEPT ![p] = At("end")]
  BY DEF Proceed
<1>3. run' \in [Host -> Run] /\ \A q \in Host : RunMoves(q)
  BY <1>2, RunTypes DEF RunMoves
<1> QED BY <1>1, <1>3, ImportMoves

\* A job that fails keeps what it has.
LEMMA FailedMoves ==
  ASSUME ImportInv, NEW j, Moves(job, j), j.status # "none"
  PROVE  Moves(job, JobFailed(j))
<1>1. JobFailed(j) = [j EXCEPT !.status = "failed"]
  BY DEF JobFailed
<1>2. j \in Job
  BY DEF Moves, KeepsList, NewList, Grows
<1>3. JobFailed(j) \in Job /\ JobFailed(j).status = "failed" /\ JobFailed(j).list = j.list
      /\ JobFailed(j).total = j.total /\ JobFailed(j).answers = j.answers
  BY <1>1, <1>2 DEF Job, JobStatus
<1> HIDE DEF JobFailed
<1> QED BY <1>3 DEF Moves, KeepsList, NewList, Grows

LEMMA FailingKeeps ==
  ASSUME ImportInv, NEW p \in Host, job' = JobFailed(job), run' = [run EXCEPT ![p] = At("end")], OtherTypes'
  PROVE  ImportInv'
<1>1. Moves(job, job')
  BY FailedJob
<1>2. run' \in [Host -> Run] /\ \A q \in Host : RunMoves(q)
  BY RunTypes DEF RunMoves
<1> QED BY <1>1, <1>2, ImportMoves

\* Recovered candidates are a new list, of a job that had none.
LEMMA FallbackMoves ==
  ASSUME ImportInv, NEW n \in 0..MaxCandidates
  PROVE  Moves(job, Fallback(n))
<1>1. CASE job.status # "extracting"
  BY <1>1, SameJob DEF Fallback, Moves
<1>2. CASE job.status = "extracting"
  <2> DEFINE next == job.list + 1
             status == IF n > 0 THEN "processing" ELSE "failed"
             k == [job EXCEPT !.total = n, !.list = next, !.answers = <<>>, !.recovered = TRUE, !.status = status]
             Totals == 0..MaxCandidates
             Sources == 0..MaxClicks
             Answers == Seq(Decision)
             Jobs == [status : JobStatus, bad : BOOLEAN, total : Totals, list : Nat, answers : Answers,
                      recovered : BOOLEAN, source : Sources]
  <2>1. /\ job \in Jobs /\ job.total = 0 /\ n \in Totals /\ next \in Nat /\ <<>> \in Answers
        /\ status \in JobStatus /\ status \notin {"none", "extracting"}
    BY <1>2 DEF ImportInv, JobOK, Job, JobStatus, InAnalysis, Committable
  <2>2. Fallback(n) = k
    BY <1>2 DEF Fallback
  <2> HIDE DEF next, status, Totals, Sources, Answers
  <2>3. k \in Jobs /\ k.answers = <<>> /\ k.status = status
    BY <2>1
  <2> HIDE DEF k
  <2>4. k \in Job
    BY <2>3 DEF Job, Totals, Sources, Answers
  <2> QED BY <2>1, <2>2, <2>3, <2>4 DEF Moves, NewList
<1> QED BY <1>1, <1>2

LEMMA ModelRecoversKeeps ==
  ASSUME ImportInv, NEW p \in Host, ModelRecovers(p)
  PROVE  ImportInv'
<1>1. PICK n \in 0..MaxCandidates : Proceed(p, Fallback(n))
  BY DEF ModelRecovers
<1>2. OtherTypes'
  BY DEF ModelRecovers, Overtakes, ImportInv, ImportTypes, OtherTypes
<1>3. Moves(job, Fallback(n))
  BY FallbackMoves
<1>4. Moves(job, JobFailed(Fallback(n)))
  <2>1. CASE job.status = "extracting"
    <3>1. Fallback(n).status # "none"
      BY <2>1 DEF Fallback, ImportInv, JobOK, Job
    <3> QED BY <1>3, <3>1, FailedMoves
  <2>2. CASE job.status # "extracting"
    BY <2>2, FailedJob DEF Fallback
  <2> QED BY <2>1, <2>2
<1> QED BY <1>1, <1>2, <1>3, <1>4, ProceedKeeps

\* The answer that is next is one more decision about the list of the job.
LEMMA AnsweredMoves ==
  ASSUME ImportInv, NEW p \in Host, run[p].pc = "decide", IsNext(run[p]), NEW unsure \in BOOLEAN
  PROVE  Moves(job, Answered(run[p], unsure)) /\ Answered(run[p], unsure).status # "none"
<1> DEFINE a == [list |-> run[p].list, at |-> run[p].at, unsure |-> unsure \/ job.recovered]
           j == [job EXCEPT !.answers = Append(job.answers, a)]
<1>1. /\ job \in Job /\ run[p].list = job.list /\ run[p].at = Processed(job)
      /\ Processed(job) < job.total /\ job.status = "processing" /\ run[p].at \in Nat
  BY DEF ImportInv, JobOK, RunsOK, ImportTypes, Run, IsNext
<1>2. a \in Decision /\ a.list = job.list /\ a.at = Processed(job)
  BY <1>1 DEF Decision, Job
<1> HIDE DEF a
<1>3. j \in Job /\ j.answers = Append(job.answers, a) /\ j.list = job.list /\ j.total = job.total
      /\ j.status = "processing"
  BY <1>1, <1>2 DEF Job
<1>4. PICK s \in {"processing", "awaiting_confirmation", "ready"} :
        Answered(run[p], unsure) = j \/ Answered(run[p], unsure) = [j EXCEPT !.status = s]
  BY DEF Answered, a
<1>5. /\ [j EXCEPT !.status = s] \in Job /\ [j EXCEPT !.status = s].status = s
      /\ [j EXCEPT !.status = s].answers = j.answers /\ [j EXCEPT !.status = s].list = j.list
      /\ [j EXCEPT !.status = s].total = j.total
  BY <1>3 DEF Job, JobStatus, InAnalysis, Committable
<1> HIDE DEF j
<1>6. Grows(job, j) /\ Grows(job, [j EXCEPT !.status = s])
  BY <1>1, <1>2, <1>3, <1>5 DEF Grows
<1> QED BY <1>3, <1>4, <1>5, <1>6 DEF Moves

LEMMA ModelDecidesKeeps ==
  ASSUME ImportInv, NEW p \in Host, ModelDecides(p)
  PROVE  ImportInv'
<1>1. OtherTypes' /\ run[p].pc = "decide"
  BY DEF ModelDecides, Overtakes, ImportInv, ImportTypes, OtherTypes
<1>2. CASE Known(run[p]) /\ Proceed(p, job)
  <2>1. Moves(job, job) /\ Moves(job, JobFailed(job))
    BY SameJob, FailedJob DEF Moves
  <2> QED BY <1>1, <1>2, <2>1, ProceedKeeps
<1>3. CASE ~Known(run[p]) /\ IsNext(run[p]) /\ \E unsure \in BOOLEAN : Proceed(p, Answered(run[p], unsure))
  <2>1. PICK unsure \in BOOLEAN : Proceed(p, Answered(run[p], unsure))
    BY <1>3
  <2>2. Moves(job, Answered(run[p], unsure)) /\ Answered(run[p], unsure).status # "none"
    BY <1>1, <1>3, AnsweredMoves
  <2>3. Moves(job, JobFailed(Answered(run[p], unsure)))
    BY <2>2, FailedMoves
  <2> QED BY <1>1, <2>1, <2>2, <2>3, ProceedKeeps
<1>4. CASE job' = JobFailed(job) /\ run' = [run EXCEPT ![p] = At("end")]
  BY <1>1, <1>4, FailingKeeps
<1> QED BY <1>2, <1>3, <1>4 DEF ModelDecides

LEMMA ModelFailsKeeps ==
  ASSUME ImportInv, NEW p \in Host, ModelFails(p)
  PROVE  ImportInv'
<1>1. OtherTypes'
  BY DEF ModelFails, Overtakes, ImportInv, ImportTypes, OtherTypes
<1> QED BY <1>1, FailingKeeps DEF ModelFails

\* Steps that leave the job.
LEMMA RestingJobKeeps ==
  ASSUME ImportInv, NEW p \in Host, job' = job, OtherTypes',
         \/ run' = run
         \/ run' = Scheduled(p)
         \/ run' = [run EXCEPT ![p] = At("end")]
         \/ run' = [run EXCEPT ![p] = Idle]
  PROVE  ImportInv'
<1>1. Moves(job, job')
  BY SameJob DEF Moves
<1>2. run' \in [Host -> Run] /\ \A q \in Host : RunMoves(q)
  <2>1. CASE run' = run
    BY <2>1 DEF RunMoves, ImportInv, ImportTypes
  <2>2. CASE run' = Scheduled(p)
    BY <2>2, RunTypes DEF RunMoves
  <2>3. CASE run' = [run EXCEPT ![p] = At("end")]
    BY <2>3, RunTypes DEF RunMoves
  <2>4. CASE run' = [run EXCEPT ![p] = Idle]
    BY <2>4, RunTypes DEF RunMoves
  <2> QED BY <2>1, <2>2, <2>3, <2>4
<1> QED BY <1>1, <1>2, ImportMoves

\* Steps that change no more of the job than its status and its source.
LEMMA StatusKeeps ==
  ASSUME ImportInv, NEW s \in JobStatus \ {"none", "extracting"}, NEW src \in 0..MaxClicks, OtherTypes', run' = run,
         job' = [job EXCEPT !.status = s] \/ job' = [job EXCEPT !.status = s, !.source = src]
  PROVE  ImportInv'
<1>1. Moves(job, job')
  <2>1. KeepsList(job, [job EXCEPT !.status = s]) /\ KeepsList(job, [job EXCEPT !.status = s, !.source = src])
    BY NewStatus
  <2> QED BY <2>1, Zenon DEF Moves
<1>2. run' \in [Host -> Run] /\ \A q \in Host : RunMoves(q)
  BY DEF RunMoves, ImportInv, ImportTypes
<1> QED BY <1>1, <1>2, ImportMoves

LEMMA RetryJobKeeps ==
  ASSUME ImportInv, NEW p \in Host, RetryJob(p)
  PROVE  ImportInv'
<1> DEFINE s == IF job.total = 0 /\ job.bad THEN "extracting" ELSE "processing"
<1>1. /\ s \in JobStatus /\ s # "none" /\ (s = "extracting" => job.total = 0)
      /\ job' = IF job.status # "failed" THEN job ELSE [job EXCEPT !.status = s]
  BY DEF RetryJob, JobStatus, InAnalysis
<1> HIDE DEF s
<1>2. KeepsList(job, [job EXCEPT !.status = s])
  BY <1>1 DEF ImportInv, JobOK, KeepsList, Job
<1>3. Moves(job, job') /\ job' \in Job
  BY <1>1, <1>2, SameJob DEF Moves, KeepsList
<1>4. run' \in [Host -> Run] /\ \A q \in Host : RunMoves(q)
  BY RunTypes DEF RetryJob, RunMoves
<1>5. clicks' \in 0..MaxClicks /\ job'.status \in JobStatus
  BY <1>3, ImportAssumption DEF RetryJob, Request, ImportInv, ImportTypes, Job
<1>6. OtherTypes'
  BY <1>5 DEF RetryJob, Overtakes, ImportInv, ImportTypes, OtherTypes
<1> QED BY <1>3, <1>4, <1>6, ImportMoves

LEMMA AbandonJobKeeps ==
  ASSUME ImportInv, NEW p \in Host, AbandonJob(p)
  PROVE  ImportInv'
<1>1. OtherTypes'
  BY ImportAssumption DEF AbandonJob, Request, Overtakes, ImportInv, ImportTypes, OtherTypes, JobStatus
<1>2. job' = [job EXCEPT !.status = "abandoned"] /\ "abandoned" \in JobStatus \ {"none", "extracting"} /\ run' = run
  BY DEF AbandonJob, JobStatus
<1>3. job.source \in 0..MaxClicks
  BY SameJob
<1> QED BY <1>1, <1>2, <1>3, StatusKeeps

LEMMA ApplyKeeps ==
  ASSUME ImportInv, NEW p \in Host, Apply(p)
  PROVE  ImportInv'
<1>1. clicks + 1 \in 1..MaxClicks /\ clicks' = clicks + 1
  BY ImportAssumption DEF Apply, Request, ImportInv, ImportTypes
<1>2. /\ applied' = applied \cup {clicks + 1}
      /\ admin' = [admin EXCEPT ![p] = [pc |-> "commit", source |-> clicks + 1]]
      /\ stale' = (stale \cup Host) \ {p} /\ UNCHANGED <<job, run, page>>
  BY DEF Apply
<1>3. OtherTypes'
  BY <1>1, <1>2, ImportAssumption DEF ImportInv, ImportTypes, OtherTypes
<1> QED BY <1>2, <1>3, RestingJobKeeps

LEMMA RemoveImportedKeeps ==
  ASSUME ImportInv, NEW p \in Host, RemoveImported(p)
  PROVE  ImportInv'
<1>1. clicks' \in 0..MaxClicks
  BY ImportAssumption DEF RemoveImported, Request, ImportInv, ImportTypes
<1>2. OtherTypes'
  BY <1>1, SameJob DEF RemoveImported, ImportInv, ImportTypes, OtherTypes
<1> QED BY <1>2, RestingJobKeeps DEF RemoveImported

LEMMA CompleteKeeps ==
  ASSUME ImportInv, NEW p \in Host, Complete(p)
  PROVE  ImportInv'
<1>1. OtherTypes' /\ admin[p].source \in 0..MaxClicks
  BY DEF Complete, Overtakes, ImportInv, ImportTypes, OtherTypes, JobStatus
<1>2. CASE p \in stale
  BY <1>1, <1>2, RestingJobKeeps DEF Complete
<1>3. CASE p \notin stale
  <2>1. /\ job' = [job EXCEPT !.status = "committed", !.source = admin[p].source] /\ run' = run
        /\ "committed" \in JobStatus \ {"none", "extracting"}
    BY <1>3 DEF Complete, JobStatus
  <2> QED BY <1>1, <2>1, StatusKeeps
<1> QED BY <1>2, <1>3

LEMMA MarkUndoneKeeps ==
  ASSUME ImportInv, NEW p \in Host, MarkUndone(p)
  PROVE  ImportInv'
<1>1. OtherTypes' /\ job.source \in 0..MaxClicks
  BY SameJob DEF MarkUndone, Overtakes, ImportInv, ImportTypes, OtherTypes, JobStatus
<1>2. CASE p \in stale
  BY <1>1, <1>2, RestingJobKeeps DEF MarkUndone
<1>3. CASE p \notin stale
  <2>1. /\ job' = [job EXCEPT !.status = "undone"] /\ run' = run
        /\ "undone" \in JobStatus \ {"none", "extracting"}
    BY <1>3 DEF MarkUndone, JobStatus
  <2> QED BY <1>1, <2>1, StatusKeeps
<1> QED BY <1>2, <1>3

LEMMA HostDiesKeeps ==
  ASSUME ImportInv, NEW p \in Host, HostDies(p)
  PROVE  ImportInv'
<1>1. OtherTypes'
  BY ImportAssumption DEF HostDies, ImportInv, ImportTypes, OtherTypes
<1> QED BY <1>1, RestingJobKeeps DEF HostDies

LEMMA PollKeeps ==
  ASSUME ImportInv, NEW p \in Host, Poll(p)
  PROVE  ImportInv'
<1>1. OtherTypes'
  BY SameJob DEF Poll, ImportInv, ImportTypes, OtherTypes
<1> QED BY <1>1, RestingJobKeeps DEF Poll

LEMMA RunStopsKeeps ==
  ASSUME ImportInv, NEW p \in Host, GivesUp(p) \/ RunEnds(p)
  PROVE  ImportInv'
<1>1. OtherTypes'
  BY DEF GivesUp, RunEnds, ImportInv, ImportTypes, OtherTypes
<1> QED BY <1>1, RestingJobKeeps DEF GivesUp, RunEnds

LEMMA ImportStep ==
  ASSUME ImportInv, [ImportNext]_importVars
  PROVE  ImportInv'
<1>1. CASE UNCHANGED importVars
  BY <1>1 DEF importVars, ImportInv, ImportTypes, JobOK, RunsOK, Processed
<1>2. CASE ImportNext
  BY <1>2, CreateJobKeeps, LookKeeps, ModelRecoversKeeps, ModelDecidesKeeps, ModelFailsKeeps, RunStopsKeeps,
     PollKeeps, RetryJobKeeps, AbandonJobKeeps, ApplyKeeps, CompleteKeeps, RemoveImportedKeeps, MarkUndoneKeeps,
     HostDiesKeeps
  DEF ImportNext, RunStep
<1> QED BY <1>1, <1>2

\* An import has its type: no more decisions than candidates, and the source of a committed job is
\* one of the requests there were.
THEOREM ImportIsTyped == ImportSpec => []ImportTypeOK
<1>1. ImportInv => ImportTypeOK
  BY DEF ImportInv, ImportTypes, JobOK, Job, Run, ImportTypeOK
<1> QED BY <1>1, ImportStarts, ImportStep, PTL DEF ImportSpec

\* For any processes, candidates, requests, deaths and errors: the i-th decision of a job is about
\* the i-th candidate of the list the job has now, although several processes analyse it, repeat
\* each other's calls, fail it and try it again (completeNextExternalMemoryImport,
\* completeExternalMemoryFallback).
THEOREM AnswersFit == ImportSpec => []AnswersFitCandidates
<1>1. ImportInv => AnswersFitCandidates
  BY DEF ImportInv, JobOK, AnswersFitCandidates
<1> QED BY <1>1, ImportStarts, ImportStep, PTL DEF ImportSpec

-----------------------------------------------------------------------------
(***************************************************************************)
(* EventPool: LinksResolve. A review's inverse may bring links back, so the *)
(* invariant says of every inverse that a link it holds is a link its       *)
(* review left, or leads to a card its review left: undoing the review       *)
(* compares those cards first.                                              *)
(***************************************************************************)

PoolType ==
  /\ IsPool(cards) /\ Stored \subseteq 1..born /\ born \in 0..MaxCards /\ turns \in 0..MaxTurns
  /\ \A d \in deciding : d.fact \in Fact /\ d.matched \subseteq CardId
  /\ \A u \in undoable : IsPool(u.before) /\ IsPool(u.after)

LEMMA TouchedCard == ASSUME turns \in 0..MaxTurns, NEW c \in Card PROVE Touched(c) \in Card
<1> DEFINE t == turns + 1
<1>1. t \in 0..(MaxTurns + 1)
  BY PoolAssumption
<1> HIDE DEF t
<1>2. [c EXCEPT !.edit = t] \in Card
  BY <1>1 DEF Card
<1> QED
  BY <1>2 DEF Touched, t

LEMMA NewCardType ==
  ASSUME turns \in 0..MaxTurns, NEW f \in Fact, NEW source \in CardId \cup {None},
         NEW sup \in SUBSET CardId, NEW con \in SUBSET CardId, NEW agent \in BOOLEAN
  PROVE  NewCard(f, source, sup, con, agent) \in Card
<1> DEFINE t == turns + 1
<1>1. t \in 0..(MaxTurns + 1)
  BY PoolAssumption
<1>2. None \in CardId \cup {None}
  OBVIOUS
<1> HIDE DEF t
<1>3. [status |-> "active", by |-> None, supersedes |-> sup, conflicts |-> con, merged |-> {},
       source |-> source, pinned |-> FALSE, fact |-> f, agent |-> agent, edit |-> t] \in Card
  BY <1>1, <1>2 DEF Card, Status
<1> QED
  BY <1>3 DEF NewCard, t

LEMMA WithType ==
  ASSUME PoolType, NEW k \in CardId, NEW c \in Card, NEW marked
  PROVE  IsPool(With(k, c, marked)) /\ DOMAIN With(k, c, marked) = Stored \cup {k}
<1> DEFINE W == With(k, c, marked)
<1>1. DOMAIN W = Stored \cup {k}
  BY DEF With
<1>2. ASSUME NEW e \in Stored, e # k PROVE W[e] \in Card
  <2> DEFINE old == cards[e]
             replaced == IF e \in c.supersedes
                         THEN [Touched(old) EXCEPT !.status = "superseded", !.by = k] ELSE old
  <2>1. W[e] = IF e \in marked THEN [Touched(replaced) EXCEPT !.conflicts = @ \cup {k}] ELSE replaced
    BY <1>2 DEF With
  <2>2. old \in Card /\ Touched(old) \in Card
    BY TouchedCard DEF PoolType, IsPool, Stored
  <2>3. replaced \in Card
    BY <2>2 DEF Card, Status
  <2> HIDE DEF replaced
  <2>4. Touched(replaced) \in Card
    BY <2>3, TouchedCard DEF PoolType
  <2>5. [Touched(replaced) EXCEPT !.conflicts = @ \cup {k}] \in Card
    BY <2>4 DEF Card
  <2> QED
    BY <2>1, <2>3, <2>5
<1>3. W[k] = c
  BY DEF With
<1> QED
  BY <1>1, <1>2, <1>3 DEF IsPool, PoolType, Stored

\* What a step leaves of the types when it adds neither a decision nor an inverse.
LEMMA PoolTypeKept ==
  ASSUME PoolType, IsPool(cards'), DOMAIN cards' \subseteq 1..born', born' \in 0..MaxCards,
         turns' \in 0..MaxTurns, deciding' \subseteq deciding, undoable' \subseteq undoable
  PROVE  PoolType'
BY DEF PoolType, IsPool, Stored, CardId, Card, Status, None

LEMMA SpentTurn == ASSUME PoolType, Spend PROVE turns' \in 0..MaxTurns
BY PoolAssumption DEF PoolType, Spend

LEMMA StoreType ==
  ASSUME PoolType, Room, NEW c \in Card, NEW marked, Store(c, marked), turns' \in 0..MaxTurns,
         deciding' \subseteq deciding, undoable' \subseteq undoable
  PROVE  PoolType'
<1>1. born + 1 \in CardId /\ born' \in 0..MaxCards /\ born' = born + 1
  BY PoolAssumption DEF PoolType, Room, Store, CardId
<1>2. IsPool(cards') /\ DOMAIN cards' = Stored \cup {born + 1}
  BY <1>1, WithType DEF Store
<1>3. DOMAIN cards' \subseteq 1..born'
  <2>1. Stored \subseteq 1..born /\ born \in Nat
    BY PoolAssumption DEF PoolType
  <2>2. 1..born \subseteq 1..(born + 1) /\ born + 1 \in 1..(born + 1)
    BY <2>1
  <2> QED
    BY <1>1, <1>2, <2>1, <2>2
<1> QED
  BY <1>1, <1>2, <1>3, PoolTypeKept

\* Changing stored cards.
LEMMA ChangeType ==
  ASSUME PoolType, IsPool(cards'), DOMAIN cards' \subseteq Stored, born' = born,
         turns' \in 0..MaxTurns, deciding' \subseteq deciding, undoable' \subseteq undoable
  PROVE  PoolType'
<1>1. DOMAIN cards' \subseteq 1..born' /\ born' \in 0..MaxCards
  BY DEF PoolType
<1> QED
  BY <1>1, PoolTypeKept

LEMMA OneCardType ==
  ASSUME PoolType, NEW e \in Stored, NEW c \in Card, cards' = [cards EXCEPT ![e] = c],
         born' = born, turns' \in 0..MaxTurns, deciding' \subseteq deciding, undoable' \subseteq undoable
  PROVE  PoolType'
<1>1. IsPool(cards') /\ DOMAIN cards' = Stored
  BY DEF PoolType, IsPool, Stored
<1> QED
  BY <1>1, ChangeType

LEMMA PinType == ASSUME PoolType, NEW e \in CardId, Pin(e) PROVE PoolType'
<1> DEFINE pin == ~cards[e].pinned
           c == [Touched(cards[e]) EXCEPT !.pinned = ~cards[e].pinned]
<1>1. e \in Stored /\ cards[e] \in Card /\ turns \in 0..MaxTurns
  BY DEF Pin, PoolType, IsPool, Stored
<1>2. Touched(cards[e]) \in Card
  BY <1>1, TouchedCard
<1>3. pin \in BOOLEAN
  OBVIOUS
<1>4. c = [Touched(cards[e]) EXCEPT !.pinned = pin]
  OBVIOUS
<1> HIDE DEF pin
<1>5. c \in Card
  BY <1>2, <1>3, <1>4 DEF Card
<1>6. cards' = [cards EXCEPT ![e] = c]
  BY DEF Pin
<1> HIDE DEF c
<1>7. turns' \in 0..MaxTurns
  BY SpentTurn DEF Pin
<1> QED
  BY <1>1, <1>5, <1>6, <1>7, OneCardType DEF Pin

LEMMA StatusType ==
  ASSUME PoolType, NEW e \in CardId, NEW status \in Status, SetStatus(e, status) PROVE PoolType'
<1> DEFINE c == [Touched(cards[e]) EXCEPT !.status = status]
<1>1. e \in Stored /\ cards[e] \in Card /\ turns \in 0..MaxTurns
  BY DEF SetStatus, PoolType, IsPool, Stored
<1>2. Touched(cards[e]) \in Card
  BY <1>1, TouchedCard
<1>3. c \in Card
  BY <1>2 DEF Card
<1>4. cards' = [cards EXCEPT ![e] = c]
  BY DEF SetStatus
<1> HIDE DEF c
<1>5. turns' \in 0..MaxTurns
  BY SpentTurn DEF SetStatus
<1> QED
  BY <1>1, <1>3, <1>4, <1>5, OneCardType DEF SetStatus

LEMMA ReinforceType ==
  ASSUME PoolType, NEW e \in Stored, cards' = [cards EXCEPT ![e] = Touched(@)],
         born' = born, turns' \in 0..MaxTurns, deciding' \subseteq deciding, undoable' \subseteq undoable
  PROVE  PoolType'
<1>1. cards[e] \in Card /\ turns \in 0..MaxTurns
  BY DEF PoolType, IsPool, Stored
<1>2. Touched(cards[e]) \in Card
  BY <1>1, TouchedCard
<1> QED
  BY <1>2, OneCardType

LEMMA RecordType == ASSUME PoolType, NEW f \in Fact, RecordAgentEvent(f) PROVE PoolType'
<1>1. turns' \in 0..MaxTurns /\ turns \in 0..MaxTurns /\ undoable' = undoable
  BY SpentTurn DEF RecordAgentEvent, PoolType
<1>2. CASE \E e \in SameFact(f) : /\ cards' = [cards EXCEPT ![e] = Touched(@)]
                                  /\ UNCHANGED <<born, deciding>>
  <2>1. PICK e \in SameFact(f) : /\ cards' = [cards EXCEPT ![e] = Touched(@)]
                                 /\ UNCHANGED <<born, deciding>>
    BY <1>2
  <2>2. e \in Stored
    BY DEF SameFact
  <2> QED
    BY <1>1, <2>1, <2>2, ReinforceType
<1>3. CASE Room /\ Store(NewCard(f, None, {}, {}, TRUE), {}) /\ UNCHANGED deciding
  <2>1. NewCard(f, None, {}, {}, TRUE) \in Card
    BY <1>1, NewCardType
  <2> QED
    BY <1>1, <1>3, <2>1, StoreType
<1>4. CASE (\E m \in SUBSET {e \in Stored : Live(e)} :
               m # {} /\ deciding' = {[fact |-> f, matched |-> m]}) /\ UNCHANGED <<cards, born>>
  <2>1. PICK m \in SUBSET {e \in Stored : Live(e)} : deciding' = {[fact |-> f, matched |-> m]}
    BY <1>4
  <2>2. m \subseteq CardId
    BY DEF PoolType, IsPool, Stored
  <2>3. \A d \in deciding' : d.fact \in Fact /\ d.matched \subseteq CardId
    BY <2>1, <2>2
  <2> QED
    BY <1>1, <1>4, <2>3 DEF PoolType, IsPool, Stored, Card, CardId, Status, None
<1> QED
  BY <1>2, <1>3, <1>4 DEF RecordAgentEvent

LEMMA AdjudicatedType == ASSUME PoolType, NEW d \in deciding, Adjudicated(d) PROVE PoolType'
<1>1. /\ turns' \in 0..MaxTurns /\ turns \in 0..MaxTurns /\ undoable' = undoable /\ deciding' \subseteq deciding
      /\ d.fact \in Fact /\ d.matched \subseteq CardId
  BY DEF Adjudicated, PoolType
<1>2. CASE \E e \in SameFact(d.fact) : cards' = [cards EXCEPT ![e] = Touched(@)] /\ UNCHANGED <<born, strays>>
  <2>1. PICK e \in SameFact(d.fact) : cards' = [cards EXCEPT ![e] = Touched(@)] /\ UNCHANGED <<born, strays>>
    BY <1>2
  <2>2. e \in Stored
    BY DEF SameFact
  <2> QED
    BY <1>1, <2>1, <2>2, ReinforceType
<1>3. CASE UNCHANGED <<cards, born, strays>>
  BY <1>1, <1>3, ChangeType DEF PoolType, IsPool, Stored
<1>4. ASSUME Room, NEW targets \in SUBSET d.matched,
             \/ Store(NewCard(d.fact, None, {}, {}, TRUE), {})
             \/ Store(NewCard(d.fact, None, targets, {}, TRUE), targets)
             \/ Store(NewCard(d.fact, None, {}, targets, TRUE), targets)
      PROVE  PoolType'
  <2>1. targets \in SUBSET CardId
    BY <1>1
  <2>2. /\ NewCard(d.fact, None, {}, {}, TRUE) \in Card
        /\ NewCard(d.fact, None, targets, {}, TRUE) \in Card
        /\ NewCard(d.fact, None, {}, targets, TRUE) \in Card
    BY <1>1, <2>1, NewCardType
  <2> QED
    BY <1>1, <1>4, <2>2, StoreType
<1> QED
  BY <1>2, <1>3, <1>4 DEF Adjudicated

LEMMA CommitType ==
  ASSUME PoolType, NEW f \in Fact, NEW action, NEW t \in SUBSET CardId, CommitImport(f, action, t)
  PROVE  PoolType'
<1> DEFINE id == born + 1
           sup == IF action = "SUPERSEDE" THEN t ELSE {}
           con == IF action = "CONFLICT" THEN t ELSE {}
<1>1. /\ turns' \in 0..MaxTurns /\ turns \in 0..MaxTurns /\ undoable' = undoable /\ deciding' = deciding
      /\ Room /\ Store(NewCard(f, id, sup, con, FALSE), con)
  BY SpentTurn DEF CommitImport, PoolType
<1>2. id \in CardId /\ sup \in SUBSET CardId /\ con \in SUBSET CardId
  BY <1>1, PoolAssumption DEF PoolType, Room, CardId, IsPool, Stored
<1> HIDE DEF id, sup, con
<1>3. NewCard(f, id, sup, con, FALSE) \in Card
  BY <1>1, <1>2, NewCardType
<1> QED
  BY <1>1, <1>3, StoreType

LEMMA ScrubbedCard ==
  ASSUME turns \in 0..MaxTurns, Stored \subseteq CardId, NEW c \in Card, NEW e, NEW gone, NEW x \in Scrubbed(c, e, gone)
  PROVE  x \in Card /\ x.supersedes \subseteq c.supersedes \ gone /\ x.conflicts \subseteq c.conflicts \ gone
<1> DEFINE heirs == {r \in Stored \ (gone \cup {e}) : e \in cards[r].supersedes}
           sup == c.supersedes \ gone
           con == c.conflicts \ gone
           links == [c EXCEPT !.supersedes = sup, !.conflicts = con]
           freed == IF c.by \notin gone THEN {links}
                    ELSE IF heirs = {} THEN {[links EXCEPT !.status = "active", !.by = None]}
                    ELSE {[links EXCEPT !.status = "superseded", !.by = r] : r \in heirs}
<1>1. PICK y \in freed : x = IF y = c THEN c ELSE Touched(y)
  BY DEF Scrubbed
<1>2. sup \in SUBSET CardId /\ con \in SUBSET CardId /\ heirs \subseteq CardId
  BY DEF Card
<1> HIDE DEF sup, con, heirs
<1>3. links \in Card /\ links.supersedes = sup /\ links.conflicts = con
  BY <1>2 DEF Card
<1> HIDE DEF links
<1>4. y \in Card /\ y.supersedes = sup /\ y.conflicts = con
  <2>1. CASE y = links
    BY <2>1, <1>3
  <2>2. CASE y = [links EXCEPT !.status = "active", !.by = None]
    BY <2>2, <1>3 DEF Card, Status
  <2>3. ASSUME NEW r \in heirs, y = [links EXCEPT !.status = "superseded", !.by = r]
        PROVE  y \in Card /\ y.supersedes = sup /\ y.conflicts = con
    BY <2>3, <1>2, <1>3 DEF Card, Status
  <2> QED
    BY <2>1, <2>2, <2>3
<1> HIDE DEF freed
<1>5. Touched(y) \in Card /\ Touched(y).supersedes = sup /\ Touched(y).conflicts = con
  <2>1. Touched(y) \in Card
    BY <1>4, TouchedCard
  <2>2. Touched(y).supersedes = y.supersedes /\ Touched(y).conflicts = y.conflicts
    BY DEF Touched
  <2> QED
    BY <1>4, <2>1, <2>2
<1>6. x \in Card /\ x.supersedes = sup /\ x.conflicts = con
  BY <1>1, <1>4, <1>5
<1> QED
  BY <1>6 DEF sup, con

\* The pool an undone import leaves.
LEMMA UndoneImport ==
  ASSUME PoolType, NEW s \in CardId, UndoImport(s)
  PROVE  /\ DOMAIN cards' = Stored \ Imported(s)
         /\ \A e \in DOMAIN cards' :
              /\ cards'[e] \in Card
              /\ cards'[e].supersedes \subseteq cards[e].supersedes \ Imported(s)
              /\ cards'[e].conflicts \subseteq cards[e].conflicts \ Imported(s)
<1> DEFINE gone == Imported(s)
           All == UNION {Scrubbed(cards[e], e, gone) : e \in Stored \ gone}
<1>1. /\ cards' \in [Stored \ gone -> All]
      /\ \A e \in Stored \ gone : cards'[e] \in Scrubbed(cards[e], e, gone)
  BY DEF UndoImport
<1>2. DOMAIN cards' = Stored \ gone
  BY <1>1
<1>3. ASSUME NEW e \in Stored \ gone
      PROVE  /\ cards'[e] \in Card
             /\ cards'[e].supersedes \subseteq cards[e].supersedes \ gone
             /\ cards'[e].conflicts \subseteq cards[e].conflicts \ gone
  <2>1. turns \in 0..MaxTurns /\ cards[e] \in Card /\ Stored \subseteq CardId
    BY DEF PoolType, IsPool, Stored
  <2>2. cards'[e] \in Scrubbed(cards[e], e, gone)
    BY <1>1
  <2> HIDE DEF gone
  <2> QED
    BY <2>1, <2>2, ScrubbedCard
<1> QED
  BY <1>2, <1>3

LEMMA UndoImportType == ASSUME PoolType, NEW s \in CardId, UndoImport(s) PROVE PoolType'
<1>1. IsPool(cards') /\ DOMAIN cards' \subseteq Stored
  BY UndoneImport DEF PoolType, IsPool, Stored
<1>2. turns' \in 0..MaxTurns
  BY SpentTurn DEF UndoImport
<1> QED
  BY <1>1, <1>2, ChangeType DEF UndoImport

LEMMA UndoReviewType == ASSUME PoolType, NEW u \in undoable, UndoReview(u) PROVE PoolType'
<1>1. IsPool(cards') /\ DOMAIN cards' \subseteq Stored
  BY DEF UndoReview, Undone, PoolType, IsPool, Stored
<1>2. turns' \in 0..MaxTurns
  BY SpentTurn DEF UndoReview
<1> QED
  BY <1>1, <1>2, ChangeType DEF UndoReview

LEMMA PoolStarts == PoolInit => PoolType
<1> SUFFICES ASSUME PoolInit PROVE PoolType
  OBVIOUS
<1>1. PICK fact \in [1..FirstCards -> Fact] : cards = FirstPool(fact)
  BY DEF PoolInit
<1>2. /\ born = FirstCards /\ deciding = {} /\ undoable = {} /\ turns = 0
  BY DEF PoolInit, NothingYet
<1>3. ASSUME NEW e \in 1..FirstCards PROVE cards[e] \in Card
  <2> DEFINE c == NewCard(fact[e], None, {}, {}, FALSE)
  <2>1. turns \in 0..MaxTurns
    BY <1>2, PoolAssumption
  <2>2. None \in CardId \cup {None} /\ fact[e] \in Fact
    OBVIOUS
  <2>3. c \in Card
    BY <2>1, <2>2, NewCardType
  <2>4. cards[e] = [c EXCEPT !.edit = 0]
    BY <1>1 DEF FirstPool
  <2>5. 0 \in 0..(MaxTurns + 1)
    BY PoolAssumption
  <2> HIDE DEF c
  <2> QED
    BY <2>3, <2>4, <2>5 DEF Card
<1>4. DOMAIN cards = 1..FirstCards
  BY <1>1 DEF FirstPool
<1>5. FirstCards \in 0..MaxCards /\ 1..FirstCards \subseteq CardId /\ 0 \in 0..MaxTurns
  BY PoolAssumption DEF CardId
<1> QED
  BY <1>2, <1>3, <1>4, <1>5 DEF PoolType, IsPool, Stored

-----------------------------------------------------------------------------
\* What a review does to a card: its links stay, but for those to the archived card d, and
\* new ones come from d or lead to k.
ReviewedCard(a, b, k, d) ==
  /\ a \in Card
  /\ a.supersedes \subseteq b.supersedes \cup cards[d].supersedes \cup {k}
  /\ a.conflicts \subseteq b.conflicts \cup cards[d].conflicts \cup {k}
  /\ b.supersedes \subseteq a.supersedes \cup {d}
  /\ b.conflicts \subseteq a.conflicts \cup {d}

ReviewedPool(after, k, d) ==
  /\ DOMAIN after = Stored /\ after[d].status = "archived"
  /\ \A e \in Stored : ReviewedCard(after[e], cards[e], k, d)

\* A card that keeps its links is one.
LEMMA SameReviewed ==
  ASSUME NEW a \in Card, NEW b, NEW k, NEW d, a.supersedes = b.supersedes, a.conflicts = b.conflicts
  PROVE  ReviewedCard(a, b, k, d)
BY DEF ReviewedCard

LEMMA SelectedPool ==
  ASSUME PoolType, NEW k \in Stored, NEW d \in Stored, k # d
  PROVE  ReviewedPool(Selected(k, d), k, d)
<1> DEFINE a == Selected(k, d)
           by == IF cards[d].by = None THEN k ELSE cards[d].by
           kept == [Touched(cards[k]) EXCEPT !.status = "active", !.by = None]
           put == [Touched(cards[d]) EXCEPT !.status = "archived", !.by = by]
<1>1. /\ \A e \in Stored : cards[e] \in Card
      /\ turns \in 0..MaxTurns /\ k \in CardId /\ d \in CardId
  BY DEF PoolType, IsPool, Stored
<1>2. Touched(cards[k]) \in Card /\ Touched(cards[d]) \in Card
  BY <1>1, TouchedCard
<1>3. by \in CardId \cup {None}
  BY <1>1 DEF Card
<1>4. DOMAIN a = Stored /\ a[k] = kept /\ a[d] = put /\ \A e \in Stored \ {k, d} : a[e] = cards[e]
  BY DEF Selected, Stored
<1> HIDE DEF by, a
<1>5. kept \in Card /\ kept.supersedes = cards[k].supersedes /\ kept.conflicts = cards[k].conflicts
  <2>1. kept \in Card
    BY <1>2 DEF Card, Status
  <2>2. kept.supersedes = cards[k].supersedes /\ kept.conflicts = cards[k].conflicts
    BY DEF Touched
  <2> QED
    BY <2>1, <2>2
<1>6. put \in Card /\ put.supersedes = cards[d].supersedes /\ put.conflicts = cards[d].conflicts /\ put.status = "archived"
  <2>1. put \in Card /\ put.status = "archived"
    BY <1>2, <1>3 DEF Card, Status
  <2>2. put.supersedes = cards[d].supersedes /\ put.conflicts = cards[d].conflicts
    BY DEF Touched
  <2> QED
    BY <2>1, <2>2
<1> HIDE DEF kept, put
<1>7. ASSUME NEW e \in Stored
      PROVE  /\ a[e] \in Card /\ a[e].supersedes = cards[e].supersedes
             /\ a[e].conflicts = cards[e].conflicts
  BY <1>1, <1>4, <1>5, <1>6
<1>8. \A e \in Stored : ReviewedCard(a[e], cards[e], k, d)
  BY <1>7, SameReviewed
<1> QED
  BY <1>4, <1>6, <1>8 DEF ReviewedPool, a

\* The merge of d into k, before any link is redirected.
JoinedCards(after, d) ==
  /\ DOMAIN after = Stored /\ after[d].status = "archived"
  /\ \A e \in Stored : /\ after[e] \in Card
                       /\ after[e].supersedes = cards[e].supersedes
                       /\ after[e].conflicts = cards[e].conflicts

LEMMA JoinedPool ==
  ASSUME PoolType, NEW k \in Stored, NEW d \in Stored, k # d
  PROVE  JoinedCards(Joined(k, d), d)
<1> DEFINE a == Joined(k, d)
           all == cards[k].merged \cup {d} \cup cards[d].merged
           kept == [Touched(cards[k]) EXCEPT !.merged = all]
           put == [Touched(cards[d]) EXCEPT !.status = "archived", !.by = k]
<1>1. /\ \A e \in Stored : cards[e] \in Card
      /\ turns \in 0..MaxTurns /\ k \in CardId /\ d \in CardId
  BY DEF PoolType, IsPool, Stored
<1>2. Touched(cards[k]) \in Card /\ Touched(cards[d]) \in Card
  BY <1>1, TouchedCard
<1>3. all \in SUBSET CardId
  <2>1. cards[k].merged \subseteq CardId /\ cards[d].merged \subseteq CardId
    BY <1>1 DEF Card
  <2> QED
    BY <1>1, <2>1
<1>4. DOMAIN a = Stored /\ a[k] = kept /\ a[d] = put /\ \A e \in Stored \ {k, d} : a[e] = cards[e]
  BY DEF Joined, Stored
<1> HIDE DEF all, a
<1>5. kept \in Card /\ kept.supersedes = cards[k].supersedes /\ kept.conflicts = cards[k].conflicts
  <2>1. kept \in Card
    BY <1>2, <1>3 DEF Card
  <2>2. kept.supersedes = cards[k].supersedes /\ kept.conflicts = cards[k].conflicts
    BY DEF Touched
  <2> QED
    BY <2>1, <2>2
<1>6. put \in Card /\ put.supersedes = cards[d].supersedes /\ put.conflicts = cards[d].conflicts /\ put.status = "archived"
  <2>1. put \in Card /\ put.status = "archived"
    BY <1>1, <1>2 DEF Card, Status
  <2>2. put.supersedes = cards[d].supersedes /\ put.conflicts = cards[d].conflicts
    BY DEF Touched
  <2> QED
    BY <2>1, <2>2
<1> HIDE DEF kept, put
<1>7. ASSUME NEW e \in Stored
      PROVE  /\ a[e] \in Card /\ a[e].supersedes = cards[e].supersedes
             /\ a[e].conflicts = cards[e].conflicts
  BY <1>1, <1>4, <1>5, <1>6
<1> QED
  BY <1>4, <1>6, <1>7 DEF JoinedCards, a

LEMMA ManualMergedPool ==
  ASSUME PoolType, NEW k \in Stored, NEW d \in Stored, k # d
  PROVE  ReviewedPool(ManualMerged(k, d), k, d)
<1> DEFINE a == ManualMerged(k, d)
           j == Joined(k, d)
           by == IF cards[d].by = None THEN k ELSE cards[d].by
           put == [j[d] EXCEPT !.by = by]
<1>1. JoinedCards(j, d)
  BY JoinedPool
<1>2. by \in CardId \cup {None}
  BY DEF PoolType, IsPool, Stored, Card
<1> HIDE DEF j
<1>3. a = [j EXCEPT ![d] = put]
  BY DEF ManualMerged, j
<1> HIDE DEF by, a
<1>4. put \in Card /\ put.supersedes = cards[d].supersedes /\ put.conflicts = cards[d].conflicts /\ put.status = "archived"
  <2>1. j[d] \in Card /\ j[d].supersedes = cards[d].supersedes /\ j[d].conflicts = cards[d].conflicts /\ j[d].status = "archived"
    BY <1>1 DEF JoinedCards
  <2> QED
    BY <1>2, <2>1 DEF Card
<1> HIDE DEF put
<1>5. DOMAIN a = Stored /\ a[d] = put /\ \A e \in Stored \ {d} : a[e] = j[e]
  BY <1>1, <1>3 DEF JoinedCards
<1>6. ASSUME NEW e \in Stored
      PROVE  /\ a[e] \in Card /\ a[e].supersedes = cards[e].supersedes
             /\ a[e].conflicts = cards[e].conflicts
  BY <1>1, <1>4, <1>5 DEF JoinedCards
<1>7. \A e \in Stored : ReviewedCard(a[e], cards[e], k, d)
  BY <1>6, SameReviewed
<1> QED
  BY <1>4, <1>5, <1>7 DEF ReviewedPool, a

LEMMA RedirectLinks ==
  ASSUME NEW S, NEW k, NEW d, NEW e
  PROVE  Redirect(S, d, k, e) \subseteq S \cup {k} /\ S \subseteq Redirect(S, d, k, e) \cup {d}
BY DEF Redirect

LEMMA AutoMergedPool ==
  ASSUME PoolType, NEW k \in Stored, NEW d \in Stored, k # d
  PROVE  ReviewedPool(AutoMerged(k, d), k, d)
<1> DEFINE a == AutoMerged(k, d)
           j == Joined(k, d)
<1>1. JoinedCards(j, d)
  BY JoinedPool
<1>2. /\ \A e \in Stored : cards[e] \in Card
      /\ turns \in 0..MaxTurns /\ k \in CardId /\ d \in CardId
  BY DEF PoolType, IsPool, Stored
<1>3. DOMAIN a = Stored /\ a[d] = j[d]
  BY DEF AutoMerged, Stored
<1>4. ASSUME NEW e \in Stored PROVE ReviewedCard(a[e], cards[e], k, d)
  <2> DEFINE c == j[e]
             sup == IF e = k THEN c.supersedes \cup cards[d].supersedes ELSE c.supersedes
             con == IF e = k THEN c.conflicts \cup cards[d].conflicts ELSE c.conflicts
             newSup == Redirect(sup, d, k, e)
             newCon == Redirect(con, d, k, e)
             linked == [c EXCEPT !.supersedes = newSup, !.conflicts = newCon]
  <2>1. a[e] = IF e = d \/ e \notin Counted THEN j[e] ELSE IF linked = c THEN c ELSE Touched(linked)
    BY DEF AutoMerged
  <2>2. c \in Card /\ c.supersedes = cards[e].supersedes /\ c.conflicts = cards[e].conflicts
    BY <1>1 DEF JoinedCards
  <2>3. ReviewedCard(c, cards[e], k, d)
    BY <2>2, SameReviewed
  <2> HIDE DEF c
  <2>4. /\ sup \subseteq cards[e].supersedes \cup cards[d].supersedes /\ cards[e].supersedes \subseteq sup
        /\ con \subseteq cards[e].conflicts \cup cards[d].conflicts /\ cards[e].conflicts \subseteq con
    BY <2>2
  <2>5. sup \in SUBSET CardId /\ con \in SUBSET CardId
    <3>1. /\ cards[e].supersedes \subseteq CardId /\ cards[d].supersedes \subseteq CardId
          /\ cards[e].conflicts \subseteq CardId /\ cards[d].conflicts \subseteq CardId
      BY <1>2 DEF Card
    <3> QED
      BY <2>4, <3>1
  <2> HIDE DEF sup, con
  <2>6. /\ newSup \subseteq sup \cup {k} /\ sup \subseteq newSup \cup {d}
        /\ newCon \subseteq con \cup {k} /\ con \subseteq newCon \cup {d}
    BY RedirectLinks
  <2>7. newSup \in SUBSET CardId /\ newCon \in SUBSET CardId
    BY <1>2, <2>5, <2>6
  <2> HIDE DEF newSup, newCon
  <2>8. linked \in Card /\ linked.supersedes = newSup /\ linked.conflicts = newCon
    BY <2>2, <2>7 DEF Card
  <2> HIDE DEF linked
  <2>9. Touched(linked) \in Card /\ Touched(linked).supersedes = newSup /\ Touched(linked).conflicts = newCon
    <3>1. Touched(linked) \in Card
      BY <1>2, <2>8, TouchedCard
    <3>2. Touched(linked).supersedes = linked.supersedes /\ Touched(linked).conflicts = linked.conflicts
      BY DEF Touched
    <3> QED
      BY <2>8, <3>1, <3>2
  <2>10. ReviewedCard(Touched(linked), cards[e], k, d)
    BY <2>4, <2>6, <2>9 DEF ReviewedCard
  <2> QED
    BY <2>1, <2>3, <2>10 DEF c
<1> HIDE DEF a, j
<1> QED
  BY <1>1, <1>3, <1>4 DEF ReviewedPool, JoinedCards, a

-----------------------------------------------------------------------------
\* The links of a card lead to cards of S, or to strays of their kind.
LinksWithin(c, S, T) == c.supersedes \subseteq S \cup T.supersedes /\ c.conflicts \subseteq S \cup T.conflicts
\* Strays are added to.
MoreStrays(T, U) == T.supersedes \subseteq U.supersedes /\ T.conflicts \subseteq U.conflicts

PoolLinks == \A e \in DOMAIN cards : LinksWithin(cards[e], DOMAIN cards, strays)

\* No link of the record before the review is new to what the review left.
KeptBy(b, a, D) == b.supersedes \subseteq a.supersedes \cup D /\ b.conflicts \subseteq a.conflicts \cup D
InverseKept(u) ==
  /\ DOMAIN u.before = DOMAIN u.after
  /\ \A e \in DOMAIN u.before : KeptBy(u.before[e], u.after[e], DOMAIN u.after)

LinksInv ==
  /\ PoolType /\ PoolLinks
  /\ \A u \in undoable : InverseKept(u)

LEMMA LinksStart == PoolInit => LinksInv
<1> SUFFICES ASSUME PoolInit PROVE LinksInv
  OBVIOUS
<1>1. PICK fact \in [1..FirstCards -> Fact] : cards = FirstPool(fact)
  BY DEF PoolInit
<1>2. undoable = {}
  BY DEF PoolInit, NothingYet
<1>3. \A e \in DOMAIN cards : cards[e].supersedes = {} /\ cards[e].conflicts = {}
  BY <1>1 DEF FirstPool, NewCard
<1>4. PoolLinks
  BY <1>3 DEF PoolLinks, LinksWithin
<1>5. PoolType
  BY PoolStarts
<1> QED
  BY <1>2, <1>4, <1>5 DEF LinksInv

\* Touching a card, or giving it another status, pin or successor, leaves its links.
SameLinks(c, d) == c.supersedes = d.supersedes /\ c.conflicts = d.conflicts

LEMMA StatusStep ==
  ASSUME NEW p, NEW q, DOMAIN q = DOMAIN p, NEW T,
         \A e \in DOMAIN p : LinksWithin(p[e], DOMAIN p, T),
         \A e \in DOMAIN p : SameLinks(q[e], p[e])
  PROVE  \A e \in DOMAIN q : LinksWithin(q[e], DOMAIN q, T)
BY DEF LinksWithin, SameLinks

\* Storing a card whose links lead to stored cards, or to strays.
LEMMA StoreStep ==
  ASSUME PoolLinks, NEW k, NEW c, NEW marked, NEW T, MoreStrays(strays, T),
         LinksWithin(c, Stored, T)
  PROVE  \A e \in DOMAIN With(k, c, marked) : LinksWithin(With(k, c, marked)[e], DOMAIN With(k, c, marked), T)
<1> DEFINE W == With(k, c, marked)
<1>1. DOMAIN W = Stored \cup {k}
  BY DEF With
<1>2. ASSUME NEW e \in Stored, e # k
      PROVE  /\ W[e].supersedes = cards[e].supersedes
             /\ W[e].conflicts \subseteq cards[e].conflicts \cup {k}
  <2> DEFINE old == cards[e]
             replaced == IF e \in c.supersedes
                         THEN [Touched(old) EXCEPT !.status = "superseded", !.by = k] ELSE old
  <2>1. W[e] = IF e \in marked THEN [Touched(replaced) EXCEPT !.conflicts = @ \cup {k}] ELSE replaced
    BY <1>2 DEF With
  <2> QED
    BY <2>1 DEF Touched
<1>3. W[k] = c
  BY DEF With
<1>4. ASSUME NEW e \in DOMAIN W PROVE LinksWithin(W[e], DOMAIN W, T)
  <2>1. CASE e = k
    BY <2>1, <1>1, <1>3 DEF LinksWithin
  <2>2. CASE e # k
    <3>1. LinksWithin(cards[e], Stored, strays)
      BY <2>2, <1>1, <1>4 DEF PoolLinks, Stored
    <3> QED
      BY <3>1, <2>2, <1>1, <1>2, <1>4 DEF LinksWithin, MoreStrays
  <2> QED
    BY <2>1, <2>2
<1> QED
  BY <1>4

\* A step that neither adds an inverse nor takes a stray away.
LEMMA LinksKept ==
  ASSUME LinksInv, PoolType', undoable' \subseteq undoable,
         \A e \in DOMAIN cards' : LinksWithin(cards'[e], DOMAIN cards', strays')
  PROVE  LinksInv'
<1>1. PoolLinks'
  BY DEF PoolLinks
<1>2. \A u \in undoable' : InverseKept(u)
  BY DEF LinksInv
<1>3. (\A u \in undoable : InverseKept(u))'
  BY <1>2 DEF InverseKept, KeptBy
<1> QED
  BY <1>1, <1>3 DEF LinksInv

LEMMA LinksTouch ==
  ASSUME LinksInv, PoolType', undoable' \subseteq undoable, strays' = strays, DOMAIN cards' = DOMAIN cards,
         \A e \in DOMAIN cards : SameLinks(cards'[e], cards[e])
  PROVE  LinksInv'
<1>1. \A e \in DOMAIN cards' : LinksWithin(cards'[e], DOMAIN cards', strays)
  BY StatusStep DEF LinksInv, PoolLinks
<1> QED
  BY <1>1, LinksKept

LEMMA LinksStore ==
  ASSUME LinksInv, PoolType', undoable' = undoable, MoreStrays(strays, strays'),
         NEW c, NEW marked, Store(c, marked), LinksWithin(c, Stored, strays')
  PROVE  LinksInv'
<1>1. cards' = With(born + 1, c, marked)
  BY DEF Store
<1>2. \A e \in DOMAIN cards' : LinksWithin(cards'[e], DOMAIN cards', strays')
  BY <1>1, StoreStep DEF LinksInv
<1> QED
  BY <1>2, LinksKept

LEMMA OneTouched ==
  ASSUME LinksInv, PoolType', NEW e \in Stored, NEW c, SameLinks(c, cards[e]),
         cards' = [cards EXCEPT ![e] = c], undoable' = undoable, strays' = strays
  PROVE  LinksInv'
<1>1. DOMAIN cards' = DOMAIN cards
  OBVIOUS
<1>2. \A x \in DOMAIN cards : SameLinks(cards'[x], cards[x])
  BY DEF SameLinks, Stored
<1> QED
  BY <1>1, <1>2, LinksTouch

LEMMA TouchedLinks == \A c : SameLinks(Touched(c), c)
BY DEF Touched, SameLinks

LEMMA PinLinks == ASSUME LinksInv, PoolType', NEW e \in CardId, Pin(e) PROVE LinksInv'
<1>1. SameLinks([Touched(cards[e]) EXCEPT !.pinned = ~cards[e].pinned], cards[e])
  BY DEF Touched, SameLinks
<1> QED
  BY <1>1, OneTouched DEF Pin

LEMMA StatusLinks ==
  ASSUME LinksInv, PoolType', NEW e \in CardId, NEW status, SetStatus(e, status) PROVE LinksInv'
<1>1. SameLinks([Touched(cards[e]) EXCEPT !.status = status], cards[e])
  BY DEF Touched, SameLinks
<1> QED
  BY <1>1, OneTouched DEF SetStatus

LEMMA RecordLinks == ASSUME LinksInv, PoolType', NEW f \in Fact, RecordAgentEvent(f) PROVE LinksInv'
<1>1. CASE \E e \in SameFact(f) : cards' = [cards EXCEPT ![e] = Touched(@)]
  <2>1. PICK e \in SameFact(f) : cards' = [cards EXCEPT ![e] = Touched(@)]
    BY <1>1
  <2>2. e \in Stored
    BY DEF SameFact
  <2> QED
    BY <2>1, <2>2, TouchedLinks, OneTouched DEF RecordAgentEvent
<1>2. CASE Store(NewCard(f, None, {}, {}, TRUE), {})
  <2>1. LinksWithin(NewCard(f, None, {}, {}, TRUE), Stored, strays) /\ MoreStrays(strays, strays)
    BY DEF LinksWithin, NewCard, MoreStrays
  <2> QED
    BY <1>2, <2>1, LinksStore DEF RecordAgentEvent
<1>3. CASE UNCHANGED <<cards, born>>
  BY <1>3, LinksTouch DEF RecordAgentEvent, SameLinks
<1> QED
  BY <1>1, <1>2, <1>3 DEF RecordAgentEvent

LEMMA AdjudicatedLinks == ASSUME LinksInv, PoolType', NEW d \in deciding, Adjudicated(d) PROVE LinksInv'
<1>1. CASE \E e \in SameFact(d.fact) : cards' = [cards EXCEPT ![e] = Touched(@)] /\ UNCHANGED <<born, strays>>
  <2>1. PICK e \in SameFact(d.fact) : cards' = [cards EXCEPT ![e] = Touched(@)] /\ UNCHANGED strays
    BY <1>1
  <2>2. e \in Stored
    BY DEF SameFact
  <2> QED
    BY <2>1, <2>2, TouchedLinks, OneTouched DEF Adjudicated
<1>2. CASE UNCHANGED <<cards, born, strays>>
  BY <1>2, LinksTouch DEF Adjudicated, SameLinks
<1>3. ASSUME NEW targets,
             \/ Store(NewCard(d.fact, None, {}, {}, TRUE), {}) /\ UNCHANGED strays
             \/ /\ MayReplace(targets) /\ UNCHANGED strays
                /\ Store(NewCard(d.fact, None, targets, {}, TRUE), targets)
             \/ /\ Store(NewCard(d.fact, None, {}, targets, TRUE), targets)
                /\ strays' = StraysWith({}, targets)
      PROVE  LinksInv'
  <2> undoable' = undoable
    BY DEF Adjudicated
  <2>1. CASE Store(NewCard(d.fact, None, {}, {}, TRUE), {}) /\ UNCHANGED strays
    <3>1. LinksWithin(NewCard(d.fact, None, {}, {}, TRUE), Stored, strays') /\ MoreStrays(strays, strays')
      BY <2>1 DEF LinksWithin, NewCard, MoreStrays
    <3> QED
      BY <2>1, <3>1, LinksStore
  <2>2. CASE /\ MayReplace(targets) /\ UNCHANGED strays
             /\ Store(NewCard(d.fact, None, targets, {}, TRUE), targets)
    <3>1. LinksWithin(NewCard(d.fact, None, targets, {}, TRUE), Stored, strays') /\ MoreStrays(strays, strays')
      BY <2>2 DEF LinksWithin, NewCard, MayReplace, Active, MoreStrays
    <3> QED
      BY <2>2, <3>1, LinksStore
  <2>3. CASE /\ Store(NewCard(d.fact, None, {}, targets, TRUE), targets)
             /\ strays' = StraysWith({}, targets)
    <3>1. LinksWithin(NewCard(d.fact, None, {}, targets, TRUE), Stored, strays') /\ MoreStrays(strays, strays')
      BY <2>3 DEF LinksWithin, NewCard, MoreStrays, StraysWith
    <3> QED
      BY <2>3, <3>1, LinksStore
  <2> QED
    BY <1>3, <2>1, <2>2, <2>3
<1> QED
  BY <1>1, <1>2, <1>3 DEF Adjudicated

LEMMA CommitLinks ==
  ASSUME LinksInv, PoolType', NEW f \in Fact, NEW action, NEW t \in SUBSET CardId, CommitImport(f, action, t)
  PROVE  LinksInv'
<1> DEFINE sup == IF action = "SUPERSEDE" THEN t ELSE {}
           con == IF action = "CONFLICT" THEN t ELSE {}
<1>1. /\ Store(NewCard(f, born + 1, sup, con, FALSE), con) /\ undoable' = undoable
      /\ strays' = StraysWith(sup, con)
  BY DEF CommitImport
<1> HIDE DEF sup, con
<1>2. LinksWithin(NewCard(f, born + 1, sup, con, FALSE), Stored, strays') /\ MoreStrays(strays, strays')
  BY <1>1 DEF LinksWithin, NewCard, MoreStrays, StraysWith
<1> QED
  BY <1>1, <1>2, LinksStore

LEMMA UndoImportLinks ==
  ASSUME LinksInv, PoolType', NEW s \in CardId, UndoImport(s) PROVE LinksInv'
<1> DEFINE gone == Imported(s)
<1>1. /\ DOMAIN cards' = Stored \ gone
      /\ \A e \in DOMAIN cards' :
           /\ cards'[e].supersedes \subseteq cards[e].supersedes \ gone
           /\ cards'[e].conflicts \subseteq cards[e].conflicts \ gone
  BY UndoneImport DEF LinksInv
<1>2. strays' = strays /\ undoable' = undoable
  BY DEF UndoImport
<1> HIDE DEF gone
<1>3. \A e \in DOMAIN cards' : LinksWithin(cards'[e], DOMAIN cards', strays')
  BY <1>1, <1>2 DEF LinksInv, PoolLinks, LinksWithin, Stored
<1> QED
  BY <1>2, <1>3, LinksKept

LEMMA ReviewedAfter ==
  ASSUME PoolType, NEW mode \in {"auto", "manual", "select"}, NEW k \in CardId, NEW d \in CardId,
         k # d, Reviewable(mode, k, d)
  PROVE  /\ k \in Stored /\ d \in Stored /\ cards[d].status # "archived"
         /\ ReviewedPool(Reviewed(mode, k, d), k, d)
<1>1. k \in Stored /\ d \in Stored /\ cards[d].status # "archived"
  BY DEF Reviewable, Selectable, AutoMergeable, ManualMergeable, Live, Active
<1>2. ReviewedPool(Reviewed(mode, k, d), k, d)
  BY <1>1, SelectedPool, AutoMergedPool, ManualMergedPool DEF Reviewed
<1> QED
  BY <1>1, <1>2

\* A review keeps links in the pool, and keeps its inverse.
LEMMA ReviewKept ==
  ASSUME PoolLinks, NEW k \in Stored, NEW d \in Stored, cards[d].status # "archived",
         NEW after, ReviewedPool(after, k, d)
  PROVE  /\ \A e \in DOMAIN after : LinksWithin(after[e], DOMAIN after, strays)
         /\ InverseKept(InverseOf(after))
<1>1. ASSUME NEW e \in Stored PROVE LinksWithin(after[e], Stored, strays)
  <2>1. LinksWithin(cards[e], Stored, strays) /\ LinksWithin(cards[d], Stored, strays)
    BY DEF PoolLinks, Stored
  <2>2. ReviewedCard(after[e], cards[e], k, d)
    BY DEF ReviewedPool
  <2> QED
    BY <2>1, <2>2 DEF LinksWithin, ReviewedCard
<1> DEFINE changed == {e \in Stored : after[e] # cards[e]}
           u == InverseOf(after)
<1>2. d \in changed
  BY DEF ReviewedPool
<1>3. u = [before |-> [e \in changed |-> cards[e]], after |-> [e \in changed |-> after[e]]]
  BY DEF InverseOf, Restrict
<1>4. /\ DOMAIN u.before = changed /\ DOMAIN u.after = changed
      /\ \A e \in changed : u.before[e] = cards[e] /\ u.after[e] = after[e]
  BY <1>3
<1> HIDE DEF u
<1>5. ASSUME NEW e \in changed PROVE KeptBy(u.before[e], u.after[e], changed)
  <2>1. ReviewedCard(after[e], cards[e], k, d)
    BY DEF ReviewedPool
  <2> QED
    BY <1>2, <1>4, <2>1 DEF ReviewedCard, KeptBy
<1>6. InverseKept(u)
  BY <1>4, <1>5 DEF InverseKept
<1> QED
  BY <1>1, <1>6 DEF ReviewedPool, u

LEMMA InverseType ==
  ASSUME PoolType, NEW after, IsPool(after), DOMAIN after = Stored
  PROVE  IsPool(InverseOf(after).before) /\ IsPool(InverseOf(after).after)
<1> DEFINE changed == {e \in Stored : after[e] # cards[e]}
           u == InverseOf(after)
<1>1. u = [before |-> [e \in changed |-> cards[e]], after |-> [e \in changed |-> after[e]]]
  BY DEF InverseOf, Restrict
<1>2. /\ DOMAIN u.before = changed /\ DOMAIN u.after = changed
      /\ \A e \in changed : u.before[e] = cards[e] /\ u.after[e] = after[e]
  BY <1>1
<1> HIDE DEF u
<1>3. IsPool(u.before) /\ IsPool(u.after)
  BY <1>2 DEF PoolType, IsPool, Stored
<1> QED
  BY <1>3 DEF u

LEMMA ReviewStep ==
  ASSUME LinksInv, NEW mode \in {"auto", "manual", "select"}, NEW k \in CardId, NEW d \in CardId,
         ReviewDuplicates(mode, k, d)
  PROVE  LinksInv'
<1> DEFINE after == Reviewed(mode, k, d)
           u == InverseOf(after)
<1>1. /\ k \in Stored /\ d \in Stored /\ cards[d].status # "archived"
      /\ ReviewedPool(after, k, d)
  BY ReviewedAfter DEF ReviewDuplicates, LinksInv
<1>2. /\ cards' = after /\ undoable' = undoable \cup {u} /\ strays' = strays
      /\ born' = born /\ deciding' = deciding
  BY DEF ReviewDuplicates
<1> HIDE DEF after
<1>3. IsPool(after) /\ DOMAIN after = Stored
  BY <1>1 DEF ReviewedPool, ReviewedCard, IsPool, LinksInv, PoolType, Stored
<1>4. IsPool(u.before) /\ IsPool(u.after)
  BY <1>3, InverseType DEF LinksInv
<1>5. (\A e \in DOMAIN after : LinksWithin(after[e], DOMAIN after, strays)) /\ InverseKept(u)
  BY <1>1, ReviewKept DEF LinksInv
<1> HIDE DEF u
<1>6. turns' \in 0..MaxTurns
  BY SpentTurn DEF ReviewDuplicates, LinksInv
<1>7. PoolType'
  <2>1. \A x \in undoable' : IsPool(x.before) /\ IsPool(x.after)
    BY <1>2, <1>4 DEF LinksInv, PoolType
  <2>2. (\A x \in undoable : IsPool(x.before) /\ IsPool(x.after))'
    BY <2>1 DEF IsPool, CardId, Card, Status, None
  <2>3. IsPool(cards)' /\ Stored' = Stored
    BY <1>2, <1>3 DEF IsPool, CardId, Card, Status, None, Stored
  <2>4. (\A x \in deciding : x.fact \in Fact /\ x.matched \subseteq CardId)'
    BY <1>2 DEF LinksInv, PoolType, CardId
  <2>5. (Stored \subseteq 1..born)' /\ born' \in 0..MaxCards
    BY <1>2, <2>3 DEF LinksInv, PoolType
  <2> QED
    BY <1>6, <2>2, <2>3, <2>4, <2>5 DEF PoolType
<1>8. PoolLinks'
  BY <1>2, <1>5 DEF PoolLinks
<1>9. (\A x \in undoable : InverseKept(x))'
  <2>1. \A x \in undoable' : InverseKept(x)
    BY <1>2, <1>5 DEF LinksInv
  <2> QED
    BY <2>1 DEF InverseKept, KeptBy
<1> QED
  BY <1>7, <1>8, <1>9 DEF LinksInv

LEMMA UndoReviewLinks ==
  ASSUME LinksInv, PoolType', NEW u \in undoable, UndoReview(u) PROVE LinksInv'
<1>1. InverseKept(u) /\ PoolLinks
  BY DEF LinksInv
<1>2. /\ DOMAIN u.after \subseteq Stored /\ \A e \in DOMAIN u.after : cards[e] = u.after[e]
      /\ cards' = Undone(u) /\ undoable' \subseteq undoable /\ strays' = strays
  BY DEF UndoReview, Holds
<1>3. DOMAIN cards' = Stored
  BY <1>2 DEF Undone
<1>4. ASSUME NEW e \in Stored PROVE LinksWithin(cards'[e], Stored, strays)
  <2>1. LinksWithin(cards[e], Stored, strays)
    BY <1>1 DEF PoolLinks, Stored
  <2>2. CASE e \in DOMAIN u.before
    <3>1. KeptBy(u.before[e], cards[e], DOMAIN u.after)
      BY <1>1, <1>2, <2>2 DEF InverseKept
    <3>2. cards'[e] = u.before[e]
      BY <1>2, <2>2 DEF Undone
    <3> QED
      BY <1>2, <2>1, <3>1, <3>2 DEF LinksWithin, KeptBy
  <2>3. CASE e \notin DOMAIN u.before
    BY <1>2, <2>1, <2>3 DEF Undone
  <2> QED
    BY <2>2, <2>3
<1> QED
  BY <1>2, <1>3, <1>4, LinksKept

LEMMA LinksStep == LinksInv /\ [PoolNext]_poolVars => LinksInv'
<1> SUFFICES ASSUME LinksInv, [PoolNext]_poolVars PROVE LinksInv'
  OBVIOUS
<1>0. PoolType
  BY DEF LinksInv
<1>1. ASSUME NEW e \in CardId, Pin(e) PROVE LinksInv'
  BY <1>0, <1>1, PinType, PinLinks
<1>2. ASSUME NEW e \in CardId, ForgetEvent(e) \/ RestoreEvent(e) PROVE LinksInv'
  <2>1. PICK status \in Status : SetStatus(e, status)
    BY <1>2 DEF ForgetEvent, RestoreEvent, Status
  <2> QED
    BY <1>0, <2>1, StatusType, StatusLinks
<1>3. ASSUME NEW f \in Fact, RecordAgentEvent(f) PROVE LinksInv'
  BY <1>0, <1>3, RecordType, RecordLinks
<1>4. ASSUME NEW d \in deciding, Adjudicated(d) PROVE LinksInv'
  BY <1>0, <1>4, AdjudicatedType, AdjudicatedLinks
<1>5. ASSUME NEW mode \in {"auto", "manual", "select"}, NEW k \in CardId, NEW d \in CardId,
             ReviewDuplicates(mode, k, d)
      PROVE  LinksInv'
  BY <1>5, ReviewStep
<1>6. ASSUME NEW u \in undoable, UndoReview(u) PROVE LinksInv'
  BY <1>0, <1>6, UndoReviewType, UndoReviewLinks
<1>7. ASSUME NEW f \in Fact, NEW action \in {"ADD", "SUPERSEDE", "CONFLICT"}, NEW t \in SUBSET CardId,
             CommitImport(f, action, t)
      PROVE  LinksInv'
  BY <1>0, <1>7, CommitType, CommitLinks
<1>8. ASSUME NEW s \in CardId, UndoImport(s) PROVE LinksInv'
  BY <1>0, <1>8, UndoImportType, UndoImportLinks
<1>9. CASE UNCHANGED poolVars
  <2>1. PoolType'
    BY <1>0, <1>9 DEF poolVars, PoolType, IsPool, Stored, CardId, Card, Status, None
  <2>2. \A e \in DOMAIN cards : SameLinks(cards'[e], cards[e])
    BY <1>9 DEF poolVars, SameLinks
  <2> QED
    BY <1>9, <2>1, <2>2, LinksTouch DEF poolVars
<1> QED
  BY <1>1, <1>2, <1>3, <1>4, <1>5, <1>6, <1>7, <1>8, <1>9 DEF PoolNext

(* No link names a card that is gone, but for what a decision taken before the card went    *)
(* has named: a recording's as in conflict only, an import's as it was decided. Undoing an  *)
(* import scrubs its cards from every other one, and no merge and no undone review brings   *)
(* such a link back.                                                                        *)
THEOREM LinksAlwaysResolve == PoolSpec => []LinksResolve
<1>1. PoolInit => LinksInv
  BY LinksStart
<1>2. LinksInv /\ [PoolNext]_poolVars => LinksInv'
  BY LinksStep
<1>3. LinksInv => LinksResolve
  BY DEF LinksInv, PoolLinks, LinksWithin, LinksResolve, Stored
<1> QED
  BY <1>1, <1>2, <1>3, PTL DEF PoolSpec

-----------------------------------------------------------------------------
(***************************************************************************)
(* EventPool: OnlyImportsRevive                                            *)
(***************************************************************************)

\* When the review of an inverse was made: what it changed carries that edit.
Stamp(u) == u.after[CHOOSE y \in DOMAIN u.after : TRUE].edit

Edits(p) == \A y \in DOMAIN p : p[y].edit \in Nat

Stamped(u, b, t) ==
  /\ DOMAIN u.before = DOMAIN u.after /\ DOMAIN u.after # {} /\ DOMAIN u.after \subseteq 1..b
  /\ Stamp(u) \in Nat /\ Stamp(u) <= t /\ Edits(u.before)
  /\ \A y \in DOMAIN u.after : u.after[y].edit = Stamp(u) /\ u.before[y].merged \subseteq u.after[y].merged

\* The cards of an inverse have only been edited since its review, and lost no original.
Ahead(u, p) ==
  /\ \A y \in DOMAIN u.after \cap DOMAIN p :
       p[y].edit >= Stamp(u) /\ u.after[y].merged \subseteq p[y].merged
  /\ \A y \in DOMAIN u.after \ DOMAIN p : u.after[y].merged = {}

\* What the later review w found of a card is what u left, or a later version of it.
Chained(u, w) ==
  Stamp(u) < Stamp(w) =>
    \A y \in DOMAIN u.after \cap DOMAIN w.after :
      w.before[y].edit >= Stamp(u) /\ u.after[y].merged \subseteq w.before[y].merged

\* The review of w made e an original of x: e was archived with it, or was one of a card that was.
Gives(w, x, e) ==
  /\ x \in DOMAIN w.after /\ e \in w.after[x].merged \ w.before[x].merged
  /\ \E d \in DOMAIN w.after \ {x} : d = e \/ e \in w.before[d].merged

\* Only an import brings back an original whose merge cannot be undone any more.
AllGiven(p, U, r) ==
  \A x \in DOMAIN p : \A e \in p[x].merged \ ({x} \cup r) : \E w \in U : Gives(w, x, e)

\* What the later review u would bring back was no original of a card that w changed.
Parted(u, w, r) ==
  Stamp(w) < Stamp(u) =>
    \A e \in DOMAIN u.after : u.before[e].status # "archived" =>
      \A x \in DOMAIN w.after \ {e} : e \in w.after[x].merged => e \in r

Apart(u, w) == u # w => Stamp(u) # Stamp(w)

DoubledIn(p) == {e \in DOMAIN p : (\E k \in DOMAIN p \ {e} : e \in p[k].merged) /\ p[e].status # "archived"}

Revive(p, U, r, b, t) ==
  /\ DoubledIn(p) \subseteq r /\ AllGiven(p, U, r)
  /\ DOMAIN p \subseteq 1..b /\ Edits(p) /\ \A x \in DOMAIN p : p[x].merged \subseteq 1..b
  /\ \A u \in U : Stamped(u, b, t) /\ Ahead(u, p)
  /\ \A u, w \in U : Apart(u, w) /\ Chained(u, w) /\ Parted(u, w, r)

\* A step that changes what no card has of originals.
PoolQuiet(p, q, b, t) ==
  /\ \A y \in DOMAIN q \cap DOMAIN p : q[y].merged = p[y].merged /\ (q[y].edit = p[y].edit \/ q[y].edit = t + 1)
  /\ \A y \in DOMAIN q \ DOMAIN p : y \notin 1..b /\ q[y].merged = {}
  /\ \A y \in DOMAIN p \ DOMAIN q : p[y].merged = {}

LEMMA QuietRevives ==
  ASSUME NEW p, NEW q, NEW U, NEW r, NEW rr, NEW b \in Nat, NEW bb \in Nat, NEW t \in Nat, NEW tt \in Nat,
         Revive(p, U, r, b, t), PoolQuiet(p, q, b, t), r \subseteq rr, b <= bb, t <= tt,
         DoubledIn(q) \subseteq rr, DOMAIN q \subseteq 1..bb, Edits(q)
  PROVE  Revive(q, U, rr, bb, tt)
<1>0. 1..b \subseteq 1..bb
  OBVIOUS
<1>1. AllGiven(q, U, rr)
  <2> SUFFICES ASSUME NEW x \in DOMAIN q, NEW e \in q[x].merged \ ({x} \cup rr) PROVE \E w \in U : Gives(w, x, e)
    BY DEF AllGiven
  <2>1. x \in DOMAIN p /\ e \in p[x].merged \ ({x} \cup r)
    BY DEF PoolQuiet
  <2> QED
    BY <2>1 DEF Revive, AllGiven
<1>2. \A x \in DOMAIN q : q[x].merged \subseteq 1..bb
  BY <1>0 DEF Revive, PoolQuiet
<1>3. ASSUME NEW u \in U PROVE Stamped(u, bb, tt) /\ Ahead(u, q)
  <2>1. Stamped(u, b, t) /\ Ahead(u, p)
    BY DEF Revive
  <2>2. Stamped(u, bb, tt)
    BY <2>1, <1>0 DEF Stamped
  <2>3. ASSUME NEW y \in DOMAIN u.after \cap DOMAIN q
        PROVE  q[y].edit >= Stamp(u) /\ u.after[y].merged \subseteq q[y].merged
    <3>1. y \in 1..b /\ Stamp(u) \in Nat /\ Stamp(u) <= t
      BY <2>1 DEF Stamped
    <3>2. y \in DOMAIN p
      BY <3>1 DEF PoolQuiet
    <3>3. p[y].edit >= Stamp(u) /\ u.after[y].merged \subseteq p[y].merged
      BY <2>1, <3>2 DEF Ahead
    <3> QED
      BY <3>1, <3>2, <3>3 DEF PoolQuiet
  <2>4. ASSUME NEW y \in DOMAIN u.after \ DOMAIN q PROVE u.after[y].merged = {}
    BY <2>1 DEF Ahead, PoolQuiet
  <2>5. Ahead(u, q)
    BY <2>3, <2>4 DEF Ahead
  <2> QED
    BY <2>2, <2>5
<1>4. ASSUME NEW u \in U, NEW w \in U PROVE Apart(u, w) /\ Chained(u, w) /\ Parted(u, w, rr)
  <2>1. Apart(u, w) /\ Chained(u, w) /\ Parted(u, w, r)
    BY DEF Revive
  <2>2. Parted(u, w, rr)
    BY <2>1 DEF Parted
  <2> QED
    BY <2>1, <2>2
<1> QED
  BY <1>1, <1>2, <1>3, <1>4 DEF Revive

\* What a review does to merged originals: k may take d and the originals of d, and d is archived.
Joining(p, q, k, d, t) ==
  /\ DOMAIN q = DOMAIN p /\ q[d].status = "archived" /\ p[d].status # "archived"
  /\ \A y \in DOMAIN p : /\ q[y] = p[y] \/ q[y].edit = t + 1
                         /\ y # k => q[y].merged = p[y].merged
                         /\ q[y].status # "archived" => p[y].status # "archived"
  /\ q[k].merged = p[k].merged \/ q[k].merged = p[k].merged \cup {d} \cup p[d].merged

ChangedBy(p, q) == {y \in DOMAIN p : q[y] # p[y]}
Inverts(u, p, q) ==
  /\ DOMAIN u.before = ChangedBy(p, q) /\ DOMAIN u.after = ChangedBy(p, q)
  /\ \A y \in ChangedBy(p, q) : u.before[y] = p[y] /\ u.after[y] = q[y]

LEMMA InverseIsStamped ==
  ASSUME NEW p, NEW q, NEW u, NEW b \in Nat, NEW t \in Nat, NEW k \in DOMAIN p, NEW d \in DOMAIN p,
         DOMAIN p \subseteq 1..b, Edits(p), Joining(p, q, k, d, t), Inverts(u, p, q)
  PROVE  /\ d \in DOMAIN u.after /\ Stamp(u) = t + 1 /\ Stamped(u, b, t + 1) /\ Ahead(u, q)
         /\ \A y \in DOMAIN p : p[y].merged \subseteq q[y].merged
<1>1. d \in DOMAIN u.after
  BY DEF Joining, Inverts, ChangedBy
<1>2. \A y \in DOMAIN u.after : u.after[y].edit = t + 1
  BY DEF Joining, Inverts, ChangedBy
<1>3. Stamp(u) = t + 1
  <2> DEFINE y == CHOOSE y \in DOMAIN u.after : TRUE
  <2>1. y \in DOMAIN u.after
    BY <1>1
  <2> QED
    BY <2>1, <1>2 DEF Stamp
<1>4. \A y \in DOMAIN p : p[y].merged \subseteq q[y].merged
  BY DEF Joining
<1>5. Edits(u.before)
  BY DEF Edits, Inverts, ChangedBy
<1>6. Stamped(u, b, t + 1)
  <2>1. DOMAIN u.before = DOMAIN u.after /\ DOMAIN u.after # {} /\ DOMAIN u.after \subseteq 1..b
    BY <1>1 DEF Inverts, ChangedBy
  <2>2. \A y \in DOMAIN u.after : u.after[y].edit = Stamp(u) /\ u.before[y].merged \subseteq u.after[y].merged
    BY <1>2, <1>3, <1>4 DEF Inverts, ChangedBy
  <2> QED
    BY <1>3, <1>5, <2>1, <2>2 DEF Stamped
<1>7. Ahead(u, q)
  BY <1>2, <1>3 DEF Ahead, Inverts, ChangedBy, Joining
<1> QED
  BY <1>1, <1>3, <1>4, <1>6, <1>7

\* An original that is shown again by a card which is not archived was doubled before the review.
LEMMA WasDoubled ==
  ASSUME NEW p, NEW U, NEW r, NEW b, NEW t, Revive(p, U, r, b, t),
         NEW e \in DOMAIN p, NEW x \in DOMAIN p \ {e}, e \in p[x].merged, p[e].status # "archived"
  PROVE  e \in r
BY DEF Revive, DoubledIn

LEMMA ReviewRevives ==
  ASSUME NEW p, NEW q, NEW U, NEW u, NEW r, NEW b \in Nat, NEW t \in Nat, NEW k \in DOMAIN p, NEW d \in DOMAIN p,
         Revive(p, U, r, b, t), k # d, Joining(p, q, k, d, t), Inverts(u, p, q), Edits(q)
  PROVE  Revive(q, U \cup {u}, r, b, t + 1)
<1>0. DOMAIN p \subseteq 1..b /\ Edits(p) /\ DOMAIN q = DOMAIN p
  BY DEF Revive, Joining
<1>1. /\ d \in DOMAIN u.after /\ Stamp(u) = t + 1 /\ Stamped(u, b, t + 1) /\ Ahead(u, q)
      /\ \A y \in DOMAIN p : p[y].merged \subseteq q[y].merged
  BY <1>0, InverseIsStamped
<1>2. ASSUME NEW x \in DOMAIN q, NEW e \in q[x].merged, e \notin p[x].merged
      PROVE  x = k /\ (e = d \/ e \in p[d].merged)
  BY <1>2 DEF Joining
<1>3. DoubledIn(q) \subseteq r
  <2> SUFFICES ASSUME NEW e \in DOMAIN q, NEW x \in DOMAIN q \ {e}, e \in q[x].merged, q[e].status # "archived"
               PROVE  e \in r
    BY DEF DoubledIn
  <2>1. p[e].status # "archived" /\ e # d
    BY <1>0 DEF Joining
  <2>2. CASE e \in p[x].merged
    BY <2>1, <2>2, <1>0, WasDoubled
  <2>3. CASE e \notin p[x].merged
    <3>1. e \in p[d].merged
      BY <2>1, <2>3, <1>2
    <3> QED
      BY <2>1, <3>1, <1>0, WasDoubled
  <2> QED
    BY <2>2, <2>3
<1>4. AllGiven(q, U \cup {u}, r)
  <2> SUFFICES ASSUME NEW x \in DOMAIN q, NEW e \in q[x].merged \ ({x} \cup r)
               PROVE  \E w \in U \cup {u} : Gives(w, x, e)
    BY DEF AllGiven
  <2>1. CASE e \in p[x].merged
    BY <2>1, <1>0 DEF Revive, AllGiven
  <2>2. CASE e \notin p[x].merged
    <3>1. x = k /\ (e = d \/ e \in p[d].merged)
      BY <2>2, <1>2
    <3>2. x \in ChangedBy(p, q) /\ d \in ChangedBy(p, q)
      BY <2>2, <1>0, <1>1 DEF ChangedBy, Inverts
    <3>3. u.after[x] = q[x] /\ u.before[x] = p[x] /\ u.before[d] = p[d] /\ x \in DOMAIN u.after /\ d \in DOMAIN u.after
      BY <3>2 DEF Inverts
    <3>4. Gives(u, x, e)
      BY <2>2, <3>1, <3>3 DEF Gives
    <3> QED
      BY <3>4
  <2> QED
    BY <2>1, <2>2
<1>5. \A x \in DOMAIN q : q[x].merged \subseteq 1..b
  <2>1. \A x \in DOMAIN p : p[x].merged \subseteq 1..b
    BY DEF Revive
  <2> QED
    BY <1>0, <1>2, <2>1
<1>6. ASSUME NEW v \in U PROVE Stamped(v, b, t + 1) /\ Ahead(v, q) /\ Stamp(v) \in Nat /\ Stamp(v) <= t
  <2>1. Stamped(v, b, t) /\ Ahead(v, p)
    BY DEF Revive
  <2>2. Stamped(v, b, t + 1) /\ Stamp(v) \in Nat /\ Stamp(v) <= t
    BY <2>1 DEF Stamped
  <2>3. ASSUME NEW y \in DOMAIN v.after \cap DOMAIN q
        PROVE  q[y].edit >= Stamp(v) /\ v.after[y].merged \subseteq q[y].merged
    <3>1. p[y].edit >= Stamp(v) /\ v.after[y].merged \subseteq p[y].merged
      BY <1>0, <2>1 DEF Ahead
    <3>2. q[y] = p[y] \/ q[y].edit = t + 1
      BY <1>0 DEF Joining
    <3> QED
      BY <1>0, <1>1, <2>2, <3>1, <3>2
  <2>4. Ahead(v, q)
    BY <2>1, <2>3, <1>0 DEF Ahead
  <2> QED
    BY <2>2, <2>4
<1>7. ASSUME NEW v \in U PROVE Apart(u, v) /\ Apart(v, u) /\ Chained(u, v) /\ Chained(v, u) /\ Parted(u, v, r) /\ Parted(v, u, r)
  <2>1. Stamp(v) < Stamp(u)
    BY <1>1, <1>6
  <2>2. Apart(u, v) /\ Apart(v, u) /\ Chained(u, v) /\ Parted(v, u, r)
    BY <2>1, <1>1, <1>6 DEF Apart, Chained, Parted
  <2>3. Ahead(v, p)
    BY DEF Revive
  <2>4. Chained(v, u)
    <3> SUFFICES ASSUME NEW y \in DOMAIN v.after \cap DOMAIN u.after
                 PROVE  u.before[y].edit >= Stamp(v) /\ v.after[y].merged \subseteq u.before[y].merged
      BY DEF Chained
    <3>1. y \in DOMAIN p /\ u.before[y] = p[y]
      BY DEF Inverts, ChangedBy
    <3> QED
      BY <2>3, <3>1 DEF Ahead
  <2>5. Parted(u, v, r)
    <3> SUFFICES ASSUME NEW e \in DOMAIN u.after, u.before[e].status # "archived",
                        NEW x \in DOMAIN v.after \ {e}, e \in v.after[x].merged
                 PROVE  e \in r
      BY DEF Parted
    <3>1. e \in DOMAIN p /\ p[e].status # "archived"
      BY DEF Inverts, ChangedBy
    <3>2. x \in DOMAIN p /\ e \in p[x].merged
      BY <2>3 DEF Ahead
    <3> QED
      BY <3>1, <3>2, WasDoubled
  <2> QED
    BY <2>2, <2>4, <2>5
<1>8. Apart(u, u) /\ Chained(u, u) /\ Parted(u, u, r)
  BY <1>1 DEF Apart, Chained, Parted
<1>9. \A v, w \in U : Apart(v, w) /\ Chained(v, w) /\ Parted(v, w, r)
  BY DEF Revive
<1>10. \A v, w \in U \cup {u} : Apart(v, w) /\ Chained(v, w) /\ Parted(v, w, r)
  BY <1>7, <1>8, <1>9
<1> QED
  BY <1>0, <1>1, <1>3, <1>4, <1>5, <1>6, <1>10, Zenon DEF Revive

LEMMA LeastStamp ==
  ASSUME NEW W, \A w \in W : Stamp(w) \in Nat, W # {}
  PROVE  \E w \in W : \A v \in W : Stamp(w) <= Stamp(v)
<1> DEFINE R == OpToRel(<, Nat)
           S == {Stamp(w) : w \in W}
<1>1. IsWellFoundedOn(R, Nat)
  BY NatLessThanWellFounded, Zenon
<1> HIDE DEF R
<1>2. S \subseteq Nat /\ S # {}
  OBVIOUS
<1>3. PICK i \in S : \A j \in S : ~(<<j, i>> \in R)
  BY <1>1, <1>2, WFMin
<1>4. \A j \in S : ~(j < i)
  BY <1>2, <1>3 DEF R, OpToRel
<1>5. PICK w \in W : i = Stamp(w)
  OBVIOUS
<1> QED
  BY <1>4, <1>5

\* The undone inverse found its cards as the review left them.
Found(u, p) == \A e \in DOMAIN u.after : e \in DOMAIN p /\ p[e] = u.after[e]
Back(u, p, q) ==
  /\ DOMAIN q = DOMAIN p
  /\ \A e \in DOMAIN p : q[e] = IF e \in DOMAIN u.before THEN u.before[e] ELSE p[e]

\* No inverse made after u changed a card that u changed: that card would show it.
LEMMA LaterIsDisjoint ==
  ASSUME NEW p, NEW U, NEW r, NEW b \in Nat, NEW t \in Nat, Revive(p, U, r, b, t),
         NEW u \in U, NEW w \in U, Found(u, p), Stamp(u) < Stamp(w), NEW y \in DOMAIN w.after
  PROVE  y \notin DOMAIN u.after
<1> SUFFICES ASSUME y \in DOMAIN u.after PROVE FALSE
  OBVIOUS
<1>1. y \in DOMAIN p /\ p[y].edit = Stamp(u) /\ Stamp(u) \in Nat
  BY DEF Revive, Stamped, Found
<1>2. p[y].edit >= Stamp(w) /\ Stamp(w) \in Nat
  BY <1>1 DEF Revive, Ahead, Stamped
<1> QED
  BY <1>1, <1>2

\* An original that u would bring back belongs to no card but what imports made so.
LEMMA NoneIsLeft ==
  ASSUME NEW p, NEW U, NEW r, NEW b \in Nat, NEW t \in Nat, Revive(p, U, r, b, t),
         NEW u \in U, Found(u, p), NEW e \in DOMAIN u.after, u.before[e].status # "archived",
         NEW x \in DOMAIN p \ {e}, e \in p[x].merged,
         x \in DOMAIN u.after => e \in u.before[x].merged
  PROVE  e \in r
<1> SUFFICES ASSUME e \notin r PROVE FALSE
  OBVIOUS
<1> DEFINE W == {w \in U : Stamp(u) < Stamp(w) /\ \E y : y # e /\ Gives(w, y, e)}
<1>1. \A w \in U : Stamp(w) \in Nat
  BY DEF Revive, Stamped
<1>2. ASSUME NEW w \in U, NEW y, y # e, Gives(w, y, e), w # u PROVE w \in W
  <2>1. Stamp(w) # Stamp(u)
    BY <1>2 DEF Revive, Apart
  <2>2. ~(Stamp(w) < Stamp(u))
    <3> SUFFICES ASSUME Stamp(w) < Stamp(u) PROVE FALSE
      OBVIOUS
    <3>1. Parted(u, w, r)
      BY DEF Revive
    <3>2. y \in DOMAIN w.after \ {e} /\ e \in w.after[y].merged
      BY <1>2 DEF Gives
    <3> QED
      BY <3>1, <3>2 DEF Parted
  <2> QED
    BY <1>1, <1>2, <2>1, <2>2
<1>3. W # {}
  <2>1. PICK w \in U : Gives(w, x, e)
    BY DEF Revive, AllGiven
  <2>2. w # u
    BY <2>1 DEF Gives
  <2> QED
    BY <2>1, <2>2, <1>2
<1>4. PICK w \in W : \A v \in W : Stamp(w) <= Stamp(v)
  BY <1>1, <1>3, LeastStamp
<1>5. PICK y : y # e /\ Gives(w, y, e)
  OBVIOUS
<1>6. PICK d \in DOMAIN w.after \ {y} : d = e \/ e \in w.before[d].merged
  BY <1>5 DEF Gives
<1>7. w \in U /\ Stamp(u) < Stamp(w) /\ d \notin DOMAIN u.after
  BY LaterIsDisjoint
<1>8. d # e /\ e \in w.before[d].merged
  BY <1>6, <1>7
<1>9. e \in w.after[d].merged /\ Ahead(w, p)
  BY <1>7, <1>8 DEF Revive, Stamped
<1>10. d \in DOMAIN p \ {e} /\ e \in p[d].merged
  BY <1>8, <1>9 DEF Ahead
<1>11. PICK v \in U : Gives(v, d, e)
  BY <1>10 DEF Revive, AllGiven
<1>12. v # u /\ d \in DOMAIN v.after /\ e \notin v.before[d].merged /\ e \in v.after[d].merged
  BY <1>7, <1>11 DEF Gives
<1>13. v \in W
  BY <1>2, <1>8, <1>11, <1>12
<1>14. Stamp(w) < Stamp(v)
  <2>1. v # w
    BY <1>8, <1>12
  <2>2. Stamp(v) # Stamp(w) /\ Stamp(w) <= Stamp(v)
    BY <2>1, <1>4, <1>7, <1>13 DEF Revive, Apart
  <2> QED
    BY <1>1, <1>7, <2>2
<1>15. w.after[d].merged \subseteq v.before[d].merged
  BY <1>7, <1>12, <1>14 DEF Revive, Chained
<1> QED
  BY <1>9, <1>12, <1>15

LEMMA UndoRevives ==
  ASSUME NEW p, NEW q, NEW U, NEW r, NEW b \in Nat, NEW t \in Nat, NEW u \in U,
         Revive(p, U, r, b, t), Found(u, p), Back(u, p, q)
  PROVE  Revive(q, U \ {u}, r, b, t + 1)
<1>0. /\ DOMAIN q = DOMAIN p /\ DOMAIN u.before = DOMAIN u.after /\ Stamp(u) \in Nat
      /\ Stamped(u, b, t) /\ DOMAIN p \subseteq 1..b
  BY DEF Revive, Back, Stamped
<1>1. ASSUME NEW y \in DOMAIN p PROVE q[y].merged \subseteq p[y].merged
  BY <1>0 DEF Back, Stamped, Found
<1>2. DoubledIn(q) \subseteq r
  <2> SUFFICES ASSUME NEW e \in DOMAIN q, NEW x \in DOMAIN q \ {e}, e \in q[x].merged, q[e].status # "archived"
               PROVE  e \in r
    BY DEF DoubledIn
  <2>1. e \in p[x].merged /\ e \in DOMAIN p /\ x \in DOMAIN p \ {e}
    BY <1>0, <1>1
  <2>2. CASE p[e].status # "archived"
    BY <2>1, <2>2, WasDoubled
  <2>3. CASE p[e].status = "archived"
    <3>1. e \in DOMAIN u.after /\ u.before[e].status # "archived"
      BY <1>0, <2>3 DEF Back
    <3>2. x \in DOMAIN u.after => e \in u.before[x].merged
      BY <1>0 DEF Back
    <3> QED
      BY <2>1, <3>1, <3>2, NoneIsLeft
  <2> QED
    BY <2>2, <2>3
<1>3. AllGiven(q, U \ {u}, r)
  <2> SUFFICES ASSUME NEW x \in DOMAIN q, NEW e \in q[x].merged \ ({x} \cup r)
               PROVE  \E w \in U \ {u} : Gives(w, x, e)
    BY DEF AllGiven
  <2>1. x \in DOMAIN p /\ e \in p[x].merged \ ({x} \cup r)
    BY <1>0, <1>1
  <2>2. PICK w \in U : Gives(w, x, e)
    BY <2>1 DEF Revive, AllGiven
  <2>3. w # u
    BY <2>1, <2>2, <1>0 DEF Gives, Back
  <2> QED
    BY <2>2, <2>3
<1>4. \A x \in DOMAIN q : q[x].merged \subseteq 1..b
  <2>1. \A x \in DOMAIN p : p[x].merged \subseteq 1..b
    BY DEF Revive
  <2> QED
    BY <1>0, <1>1, <2>1
<1>5. Edits(q)
  BY <1>0 DEF Revive, Edits, Back, Stamped
<1>6. ASSUME NEW v \in U \ {u} PROVE Stamped(v, b, t + 1) /\ Ahead(v, q)
  <2>1. Stamped(v, b, t) /\ Ahead(v, p)
    BY DEF Revive
  <2>2. Stamped(v, b, t + 1) /\ Stamp(v) \in Nat
    BY <2>1 DEF Stamped
  <2>3. ASSUME NEW y \in DOMAIN v.after \cap DOMAIN q
        PROVE  q[y].edit >= Stamp(v) /\ v.after[y].merged \subseteq q[y].merged
    <3>1. CASE y \notin DOMAIN u.after
      BY <3>1, <1>0, <2>1 DEF Back, Ahead
    <3>2. CASE y \in DOMAIN u.after
      <4>1. Stamp(v) < Stamp(u)
        <5>1. Stamp(v) # Stamp(u)
          BY DEF Revive, Apart
        <5>2. ~(Stamp(u) < Stamp(v))
          BY <3>2, LaterIsDisjoint
        <5> QED
          BY <1>0, <2>2, <5>1, <5>2
      <4>2. u.before[y].edit >= Stamp(v) /\ v.after[y].merged \subseteq u.before[y].merged
        BY <3>2, <4>1 DEF Revive, Chained
      <4>3. q[y] = u.before[y]
        BY <1>0, <3>2 DEF Back
      <4> QED
        BY <4>2, <4>3
    <3> QED
      BY <3>1, <3>2
  <2>4. Ahead(v, q)
    BY <2>1, <2>3, <1>0 DEF Ahead
  <2> QED
    BY <2>2, <2>4
<1>7. \A v, w \in U \ {u} : Apart(v, w) /\ Chained(v, w) /\ Parted(v, w, r)
  BY DEF Revive
<1> QED
  BY <1>0, <1>2, <1>3, <1>4, <1>5, <1>6, <1>7, Zenon DEF Revive

-----------------------------------------------------------------------------
(* The reviews *)

LEMMA TouchedFields ==
  ASSUME NEW c \in Card
  PROVE  Touched(c).merged = c.merged /\ Touched(c).status = c.status /\ Touched(c).edit = turns + 1
<1> DEFINE t == turns + 1
<1>1. [c EXCEPT !.edit = t].merged = c.merged /\ [c EXCEPT !.edit = t].status = c.status
  BY DEF Card
<1>2. [c EXCEPT !.edit = t].edit = t
  <2> HIDE DEF t
  <2> QED
    BY DEF Card
<1> QED
  BY <1>1, <1>2 DEF Touched

LEMMA SelectedJoins ==
  ASSUME PoolType, NEW k \in Stored, NEW d \in Stored, k # d, Selectable(k, d)
  PROVE  Joining(cards, Selected(k, d), k, d, turns)
<1> DEFINE a == Selected(k, d)
           by == IF cards[d].by = None THEN k ELSE cards[d].by
           ck == Touched(cards[k])
           cd == Touched(cards[d])
           kept == [ck EXCEPT !.status = "active", !.by = None]
           put == [cd EXCEPT !.status = "archived", !.by = by]
<1>1. /\ \A e \in Stored : cards[e] \in Card
      /\ turns \in 0..MaxTurns
  BY DEF PoolType, IsPool, Stored
<1>2. /\ ck \in Card /\ ck.merged = cards[k].merged /\ ck.edit = turns + 1
      /\ cd \in Card /\ cd.merged = cards[d].merged /\ cd.edit = turns + 1
  BY <1>1, TouchedCard, TouchedFields
<1>3. DOMAIN a = Stored /\ a[k] = kept /\ a[d] = put /\ \A e \in Stored \ {k, d} : a[e] = cards[e]
  BY DEF Selected, Stored
<1> HIDE DEF ck, cd, by, a
<1>4. kept.merged = cards[k].merged /\ kept.edit = turns + 1
  BY <1>2 DEF Card
<1>5. put.merged = cards[d].merged /\ put.edit = turns + 1 /\ put.status = "archived"
  BY <1>2 DEF Card
<1>6. cards[k].status # "archived" /\ cards[d].status # "archived"
  BY DEF Selectable, Live
<1> HIDE DEF kept, put
<1>7. ASSUME NEW y \in Stored
      PROVE  /\ a[y] = cards[y] \/ a[y].edit = turns + 1
             /\ a[y].merged = cards[y].merged
             /\ a[y].status # "archived" => cards[y].status # "archived"
  <2>1. CASE y = k
    BY <2>1, <1>3, <1>4, <1>6
  <2>2. CASE y = d
    BY <2>2, <1>3, <1>5, <1>6
  <2>3. CASE y \notin {k, d}
    BY <2>3, <1>3
  <2> QED
    BY <2>1, <2>2, <2>3
<1>8. Joining(cards, a, k, d, turns)
  BY <1>3, <1>5, <1>6, <1>7 DEF Joining, Stored
<1> QED
  BY <1>8 DEF a

LEMMA JoinedJoins ==
  ASSUME PoolType, NEW k \in Stored, NEW d \in Stored, k # d, Live(k), Live(d)
  PROVE  Joining(cards, Joined(k, d), k, d, turns)
<1> DEFINE a == Joined(k, d)
           all == cards[k].merged \cup {d} \cup cards[d].merged
           ck == Touched(cards[k])
           cd == Touched(cards[d])
           kept == [ck EXCEPT !.merged = all]
           put == [cd EXCEPT !.status = "archived", !.by = k]
<1>1. /\ \A e \in Stored : cards[e] \in Card
      /\ turns \in 0..MaxTurns
  BY DEF PoolType, IsPool, Stored
<1>2. /\ ck \in Card /\ ck.merged = cards[k].merged /\ ck.edit = turns + 1 /\ ck.status = cards[k].status
      /\ cd \in Card /\ cd.merged = cards[d].merged /\ cd.edit = turns + 1
  BY <1>1, TouchedCard, TouchedFields
<1>3. DOMAIN a = Stored /\ a[k] = kept /\ a[d] = put /\ \A e \in Stored \ {k, d} : a[e] = cards[e]
  BY DEF Joined, Stored
<1> HIDE DEF ck, cd, all, a
<1>4. kept.merged = all /\ kept.edit = turns + 1 /\ kept.status = cards[k].status
  BY <1>2 DEF Card
<1>5. put.merged = cards[d].merged /\ put.edit = turns + 1 /\ put.status = "archived"
  BY <1>2 DEF Card
<1>6. cards[k].status # "archived" /\ cards[d].status # "archived"
  BY DEF Live
<1> HIDE DEF kept, put
<1>7. ASSUME NEW y \in Stored
      PROVE  /\ a[y] = cards[y] \/ a[y].edit = turns + 1
             /\ y # k => a[y].merged = cards[y].merged
             /\ a[y].status # "archived" => cards[y].status # "archived"
  <2>1. CASE y = k
    BY <2>1, <1>3, <1>4, <1>6
  <2>2. CASE y = d
    BY <2>2, <1>3, <1>5, <1>6
  <2>3. CASE y \notin {k, d}
    BY <2>3, <1>3
  <2> QED
    BY <2>1, <2>2, <2>3
<1>8. a[k].merged = cards[k].merged \cup {d} \cup cards[d].merged
  BY <1>3, <1>4 DEF all
<1>9. Joining(cards, a, k, d, turns)
  BY <1>3, <1>5, <1>6, <1>7, <1>8 DEF Joining, Stored
<1> QED
  BY <1>9 DEF a

\* What a merge does to the links after it joined the cards.
LEMMA RelinkedJoins ==
  ASSUME NEW p, NEW j, NEW q, NEW k \in DOMAIN p, NEW d \in DOMAIN p, NEW t,
         Joining(p, j, k, d, t), DOMAIN q = DOMAIN j,
         \A y \in DOMAIN j : /\ q[y] = j[y] \/ q[y].edit = t + 1
                             /\ q[y].merged = j[y].merged /\ q[y].status = j[y].status
  PROVE  Joining(p, q, k, d, t)
BY DEF Joining

LEMMA ManualMergedJoins ==
  ASSUME PoolType, NEW k \in Stored, NEW d \in Stored, k # d, ManualMergeable(k, d)
  PROVE  Joining(cards, ManualMerged(k, d), k, d, turns)
<1> DEFINE a == ManualMerged(k, d)
           j == Joined(k, d)
           by == IF cards[d].by = None THEN k ELSE cards[d].by
           put == [j[d] EXCEPT !.by = by]
<1>1. Joining(cards, j, k, d, turns)
  BY JoinedJoins DEF ManualMergeable, Live, Active
<1>2. JoinedCards(j, d)
  BY JoinedPool
<1>3. a = [j EXCEPT ![d] = put]
  BY DEF ManualMerged
<1> HIDE DEF j, by, a
<1>4. j[d].edit = turns + 1
  BY <1>1 DEF Joining, Stored
<1>5. put.merged = j[d].merged /\ put.status = j[d].status /\ put.edit = turns + 1
  BY <1>2, <1>4 DEF JoinedCards, Card
<1> HIDE DEF put
<1>6. DOMAIN a = DOMAIN j /\ a[d] = put /\ \A y \in DOMAIN j \ {d} : a[y] = j[y]
  BY <1>2, <1>3 DEF JoinedCards
<1>7. \A y \in DOMAIN j : /\ a[y] = j[y] \/ a[y].edit = turns + 1
                          /\ a[y].merged = j[y].merged /\ a[y].status = j[y].status
  BY <1>5, <1>6
<1>8. Joining(cards, a, k, d, turns)
  BY <1>1, <1>6, <1>7, RelinkedJoins DEF Stored
<1> QED
  BY <1>8 DEF a

LEMMA AutoMergedJoins ==
  ASSUME PoolType, NEW k \in Stored, NEW d \in Stored, k # d, AutoMergeable(k, d)
  PROVE  Joining(cards, AutoMerged(k, d), k, d, turns)
<1> DEFINE a == AutoMerged(k, d)
           j == Joined(k, d)
<1>1. Joining(cards, j, k, d, turns)
  BY JoinedJoins DEF AutoMergeable, Live, Active
<1>2. JoinedCards(j, d) /\ turns \in 0..MaxTurns
  BY JoinedPool DEF PoolType
<1>3. DOMAIN a = DOMAIN j
  BY <1>2 DEF AutoMerged, JoinedCards
<1>4. ASSUME NEW y \in DOMAIN j
      PROVE  /\ a[y] = j[y] \/ a[y].edit = turns + 1
             /\ a[y].merged = j[y].merged /\ a[y].status = j[y].status
  <2> DEFINE c == j[y]
             sup == IF y = k THEN c.supersedes \cup cards[d].supersedes ELSE c.supersedes
             con == IF y = k THEN c.conflicts \cup cards[d].conflicts ELSE c.conflicts
             newSup == Redirect(sup, d, k, y)
             newCon == Redirect(con, d, k, y)
             linked == [c EXCEPT !.supersedes = newSup, !.conflicts = newCon]
  <2>0. y \in Stored
    BY <1>2 DEF JoinedCards
  <2>1. a[y] = IF y = d \/ y \notin Counted THEN c ELSE IF linked = c THEN c ELSE Touched(linked)
    BY <2>0 DEF AutoMerged
  <2>2. c \in Card
    BY <1>2, <2>0 DEF JoinedCards
  <2>3. k \in CardId /\ \A e \in Stored : cards[e] \in Card
    BY DEF PoolType, IsPool, Stored
  <2> HIDE DEF c
  <2>4. sup \in SUBSET CardId /\ con \in SUBSET CardId
    <3>1. /\ c.supersedes \subseteq CardId /\ cards[d].supersedes \subseteq CardId
          /\ c.conflicts \subseteq CardId /\ cards[d].conflicts \subseteq CardId
      BY <2>2, <2>3 DEF Card
    <3> QED
      BY <3>1
  <2> HIDE DEF sup, con
  <2>5. newSup \in SUBSET CardId /\ newCon \in SUBSET CardId
    <3>1. newSup \subseteq sup \cup {k} /\ newCon \subseteq con \cup {k}
      BY RedirectLinks
    <3> QED
      BY <2>3, <2>4, <3>1
  <2> HIDE DEF newSup, newCon
  <2>6. linked \in Card /\ linked.merged = c.merged /\ linked.status = c.status
    BY <2>2, <2>5 DEF Card
  <2> HIDE DEF linked
  <2>7. Touched(linked).merged = c.merged /\ Touched(linked).status = c.status /\ Touched(linked).edit = turns + 1
    BY <2>6, TouchedFields
  <2> QED
    BY <2>1, <2>7 DEF c
<1> HIDE DEF a, j
<1>5. Joining(cards, a, k, d, turns)
  BY <1>1, <1>3, <1>4, RelinkedJoins DEF Stored
<1> QED
  BY <1>5 DEF a

LEMMA ReviewInverts ==
  ASSUME NEW after
  PROVE  Inverts(InverseOf(after), cards, after)
<1> DEFINE changed == {e \in Stored : after[e] # cards[e]}
           u == InverseOf(after)
<1>1. u = [before |-> [e \in changed |-> cards[e]], after |-> [e \in changed |-> after[e]]]
  BY DEF InverseOf, Restrict
<1>2. changed = ChangedBy(cards, after)
  BY DEF ChangedBy, Stored
<1>3. /\ DOMAIN u.before = changed /\ DOMAIN u.after = changed
      /\ \A e \in changed : u.before[e] = cards[e] /\ u.after[e] = after[e]
  BY <1>1
<1> HIDE DEF u, changed
<1>4. Inverts(u, cards, after)
  BY <1>2, <1>3 DEF Inverts
<1> QED
  BY <1>4 DEF u

-----------------------------------------------------------------------------
(* The invariant and the steps *)

ReviveInv == Revive(cards, undoable, revived, born, turns)

LEMMA PoolEdits == ASSUME NEW p, IsPool(p) PROVE Edits(p)
BY PoolAssumption DEF IsPool, Card, Edits

LEMMA ReviewKeepsRevived ==
  ASSUME LinksInv, LinksInv', ReviveInv, NEW mode \in {"auto", "manual", "select"},
         NEW k \in CardId, NEW d \in CardId, ReviewDuplicates(mode, k, d)
  PROVE  ReviveInv'
<1> DEFINE after == Reviewed(mode, k, d)
           u == InverseOf(after)
<1>1. k # d /\ k \in Stored /\ d \in Stored /\ PoolType
  BY ReviewedAfter DEF ReviewDuplicates, LinksInv
<1>2. /\ cards' = after /\ undoable' = undoable \cup {u} /\ born' = born /\ revived' = revived
      /\ turns' = turns + 1
  BY DEF ReviewDuplicates, Spend
<1>3. Joining(cards, after, k, d, turns)
  BY <1>1, SelectedJoins, AutoMergedJoins, ManualMergedJoins DEF ReviewDuplicates, Reviewable, Reviewed
<1>4. Inverts(u, cards, after)
  BY ReviewInverts
<1>5. born \in Nat /\ turns \in Nat /\ k \in DOMAIN cards /\ d \in DOMAIN cards
  BY <1>1, PoolAssumption DEF PoolType, Stored
<1>6. Edits(after)
  <2>1. IsPool(cards')
    BY DEF LinksInv, PoolType, IsPool, CardId, Card, Status, None
  <2> QED
    BY <1>2, <2>1, PoolEdits
<1> HIDE DEF after, u
<1>7. Revive(after, undoable \cup {u}, revived, born, turns + 1)
  BY <1>1, <1>3, <1>4, <1>5, <1>6, ReviewRevives DEF ReviveInv
<1>8. Revive(cards', undoable', revived', born', turns')
  BY <1>2, <1>7
<1> QED
  BY <1>8 DEF ReviveInv

LEMMA UndoKeepsRevived ==
  ASSUME LinksInv, ReviveInv, NEW u \in undoable, UndoReview(u)
  PROVE  ReviveInv'
<1>1. /\ cards' = Undone(u) /\ undoable' = undoable \ {u} /\ born' = born /\ revived' = revived
      /\ turns' = turns + 1 /\ Found(u, cards)
  BY DEF UndoReview, Spend, Holds, Found, Stored
<1>2. Back(u, cards, cards')
  BY <1>1 DEF Back, Undone, Stored
<1>3. born \in Nat /\ turns \in Nat
  BY PoolAssumption DEF LinksInv, PoolType
<1>4. Revive(cards', undoable \ {u}, revived, born, turns + 1)
  BY <1>1, <1>2, <1>3, UndoRevives DEF ReviveInv
<1>5. Revive(cards', undoable', revived', born', turns')
  BY <1>1, <1>4
<1> QED
  BY <1>5 DEF ReviveInv

LEMMA QuietKeepsRevived ==
  ASSUME LinksInv, LinksInv', ReviveInv, PoolQuiet(cards, cards', born, turns),
         undoable' = undoable, revived \subseteq revived', born' \in {born, born + 1}, turns' \in {turns, turns + 1},
         DoubledIn(cards') \subseteq revived'
  PROVE  ReviveInv'
<1>1. /\ born \in Nat /\ turns \in Nat /\ born' \in Nat /\ turns' \in Nat /\ born <= born' /\ turns <= turns'
  BY PoolAssumption DEF LinksInv, PoolType
<1>2. IsPool(cards') /\ DOMAIN cards' \subseteq 1..born'
  BY DEF LinksInv, PoolType, IsPool, CardId, Card, Status, None, Stored
<1>3. Edits(cards')
  BY <1>2, PoolEdits
<1>4. Revive(cards', undoable, revived', born', turns')
  BY <1>1, <1>2, <1>3, QuietRevives DEF ReviveInv
<1>5. Revive(cards', undoable', revived', born', turns')
  BY <1>4
<1> QED
  BY <1>5 DEF ReviveInv

-----------------------------------------------------------------------------
\* A step that brings no archived original back.
Hushed(q) ==
  /\ PoolQuiet(cards, q, born, turns)
  /\ \A y \in DOMAIN q \cap Stored :
       q[y].status # "archived" => cards[y].status # "archived" \/ ~MergedElsewhere(y)

LEMMA HushedDoubles ==
  ASSUME ReviveInv, NEW q, Hushed(q)
  PROVE  DoubledIn(q) \subseteq revived
<1> SUFFICES ASSUME NEW e \in DOMAIN q, NEW x \in DOMAIN q \ {e}, e \in q[x].merged, q[e].status # "archived"
             PROVE  e \in revived
  BY DEF DoubledIn
<1>1. x \in Stored /\ e \in cards[x].merged
  BY DEF Hushed, PoolQuiet, Stored
<1>2. e \in 1..born
  BY <1>1 DEF ReviveInv, Revive, Stored
<1>3. e \in Stored
  BY <1>2 DEF Hushed, PoolQuiet, Stored
<1>4. MergedElsewhere(e)
  BY <1>1 DEF MergedElsewhere
<1>5. cards[e].status # "archived"
  BY <1>3, <1>4 DEF Hushed
<1> QED
  BY <1>1, <1>3, <1>5, WasDoubled DEF ReviveInv, Stored

LEMMA HushedKeepsRevived ==
  ASSUME LinksInv, LinksInv', ReviveInv, Hushed(cards'),
         undoable' = undoable, revived' = revived, born' \in {born, born + 1}, turns' \in {turns, turns + 1}
  PROVE  ReviveInv'
<1>1. DoubledIn(cards') \subseteq revived'
  BY HushedDoubles
<1> QED
  BY <1>1, QuietKeepsRevived DEF Hushed

LEMMA OneCardHushed ==
  ASSUME NEW e \in Stored, NEW c, c.merged = cards[e].merged, c.edit = turns + 1,
         c.status # "archived" => cards[e].status # "archived" \/ ~MergedElsewhere(e)
  PROVE  Hushed([cards EXCEPT ![e] = c])
<1> DEFINE q == [cards EXCEPT ![e] = c]
<1>1. DOMAIN q = Stored /\ q[e] = c /\ \A y \in Stored \ {e} : q[y] = cards[y]
  BY DEF Stored
<1> HIDE DEF q
<1>2. PoolQuiet(cards, q, born, turns)
  BY <1>1 DEF PoolQuiet, Stored
<1>3. Hushed(q)
  BY <1>1, <1>2 DEF Hushed
<1> QED
  BY <1>3 DEF q

LEMMA StoredCard == ASSUME LinksInv, NEW e \in Stored PROVE cards[e] \in Card /\ Touched(cards[e]) \in Card
BY TouchedCard DEF LinksInv, PoolType, IsPool, Stored

LEMMA PinHushed == ASSUME LinksInv, NEW e \in CardId, Pin(e) PROVE Hushed(cards')
<1> DEFINE t == Touched(cards[e])
           c == [t EXCEPT !.pinned = ~cards[e].pinned]
<1>1. e \in Stored
  BY DEF Pin
<1>2. t \in Card /\ t.merged = cards[e].merged /\ t.status = cards[e].status /\ t.edit = turns + 1
  BY <1>1, StoredCard, TouchedFields
<1>3. cards' = [cards EXCEPT ![e] = c]
  BY DEF Pin
<1> HIDE DEF t
<1>4. c.merged = cards[e].merged /\ c.status = cards[e].status /\ c.edit = turns + 1
  BY <1>2 DEF Card
<1> HIDE DEF c
<1> QED
  BY <1>1, <1>3, <1>4, OneCardHushed

LEMMA StatusHushed == ASSUME LinksInv, NEW e \in CardId, NEW status, SetStatus(e, status) PROVE Hushed(cards')
<1> DEFINE t == Touched(cards[e])
           c == [t EXCEPT !.status = status]
<1>1. e \in Stored /\ ~MergedElsewhere(e)
  BY DEF SetStatus
<1>2. t \in Card /\ t.merged = cards[e].merged /\ t.edit = turns + 1
  BY <1>1, StoredCard, TouchedFields
<1>3. cards' = [cards EXCEPT ![e] = c]
  BY DEF SetStatus
<1> HIDE DEF t
<1>4. c.merged = cards[e].merged /\ c.edit = turns + 1
  BY <1>2 DEF Card
<1> HIDE DEF c
<1> QED
  BY <1>1, <1>3, <1>4, OneCardHushed

LEMMA ReinforceHushed ==
  ASSUME LinksInv, NEW e \in Stored, cards' = [cards EXCEPT ![e] = Touched(@)] PROVE Hushed(cards')
<1> DEFINE c == Touched(cards[e])
<1>1. c.merged = cards[e].merged /\ c.edit = turns + 1 /\ c.status = cards[e].status
  BY StoredCard, TouchedFields
<1>2. cards' = [cards EXCEPT ![e] = c]
  OBVIOUS
<1> HIDE DEF c
<1>3. Hushed([cards EXCEPT ![e] = c])
  BY <1>1, OneCardHushed
<1> QED
  BY <1>2, <1>3

\* What storing a card does to the others: what it replaces is superseded.
LEMMA StoreIsQuiet ==
  ASSUME LinksInv, NEW c, NEW marked, Store(c, marked), c.merged = {}
  PROVE  /\ PoolQuiet(cards, cards', born, turns)
         /\ \A y \in Stored : y \notin c.supersedes => cards'[y].status = cards[y].status
<1> DEFINE k == born + 1
           W == With(k, c, marked)
<1>1. k \notin 1..born /\ Stored \subseteq 1..born
  BY PoolAssumption DEF LinksInv, PoolType
<1>2. cards' = W /\ DOMAIN W = Stored \cup {k} /\ W[k] = c
  BY DEF Store, With
<1>3. ASSUME NEW e \in Stored
      PROVE  /\ W[e].merged = cards[e].merged
             /\ W[e].edit = cards[e].edit \/ W[e].edit = turns + 1
             /\ e \notin c.supersedes => W[e].status = cards[e].status
  <2> DEFINE old == cards[e]
             t == Touched(old)
             replaced == IF e \in c.supersedes
                         THEN [t EXCEPT !.status = "superseded", !.by = k] ELSE old
             tr == Touched(replaced)
  <2>1. W[e] = IF e \in marked THEN [tr EXCEPT !.conflicts = @ \cup {k}] ELSE replaced
    BY <1>1 DEF With
  <2>2. old \in Card /\ t \in Card /\ t.merged = old.merged /\ t.edit = turns + 1 /\ t.status = old.status
    BY StoredCard, TouchedFields
  <2> HIDE DEF old, t, k
  <2>3. /\ replaced.merged = old.merged /\ (e \notin c.supersedes => replaced.status = old.status)
        /\ replaced.edit = old.edit \/ replaced.edit = turns + 1
        /\ DOMAIN replaced = DOMAIN old
    BY <2>2 DEF Card
  <2> HIDE DEF replaced
  <2>4. /\ tr.merged = replaced.merged /\ tr.status = replaced.status /\ tr.edit = turns + 1 /\ DOMAIN tr = DOMAIN old
    BY <2>2, <2>3 DEF Touched, Card
  <2> HIDE DEF tr
  <2>5. [tr EXCEPT !.conflicts = @ \cup {k}].merged = tr.merged /\ [tr EXCEPT !.conflicts = @ \cup {k}].status = tr.status
        /\ [tr EXCEPT !.conflicts = @ \cup {k}].edit = tr.edit
    BY <2>2, <2>4 DEF Card
  <2> QED
    BY <2>1, <2>3, <2>4, <2>5 DEF old
<1> HIDE DEF W, k
<1>4. PoolQuiet(cards, cards', born, turns)
  BY <1>1, <1>2, <1>3 DEF PoolQuiet, Stored
<1> QED
  BY <1>2, <1>3, <1>4

LEMMA StoreHushed ==
  ASSUME LinksInv, NEW c, NEW marked, Store(c, marked), c.merged = {}, \A e \in c.supersedes : Active(e)
  PROVE  Hushed(cards')
<1>1. /\ PoolQuiet(cards, cards', born, turns)
      /\ \A y \in Stored : y \notin c.supersedes => cards'[y].status = cards[y].status
  BY StoreIsQuiet
<1>2. \A y \in c.supersedes : cards[y].status # "archived"
  BY DEF Active
<1> QED
  BY <1>1, <1>2 DEF Hushed

LEMMA RecordKeepsRevived ==
  ASSUME LinksInv, LinksInv', ReviveInv, NEW f \in Fact, RecordAgentEvent(f) PROVE ReviveInv'
<1>1. undoable' = undoable /\ revived' = revived /\ turns' = turns + 1
  BY DEF RecordAgentEvent, Spend
<1>2. CASE \E e \in SameFact(f) : cards' = [cards EXCEPT ![e] = Touched(@)] /\ UNCHANGED <<born, deciding>>
  <2>1. PICK e \in SameFact(f) : cards' = [cards EXCEPT ![e] = Touched(@)] /\ UNCHANGED born
    BY <1>2
  <2>2. e \in Stored
    BY DEF SameFact
  <2>3. Hushed(cards')
    BY <2>1, <2>2, ReinforceHushed
  <2> QED
    BY <1>1, <2>1, <2>3, HushedKeepsRevived
<1>3. CASE Store(NewCard(f, None, {}, {}, TRUE), {})
  <2> DEFINE c == NewCard(f, None, {}, {}, TRUE)
  <2>1. c.merged = {} /\ c.supersedes = {}
    BY DEF NewCard
  <2>2. born' = born + 1
    BY <1>3 DEF Store
  <2> HIDE DEF c
  <2>3. Hushed(cards')
    BY <1>3, <2>1, StoreHushed DEF c
  <2> QED
    BY <1>1, <2>2, <2>3, HushedKeepsRevived
<1>4. CASE UNCHANGED <<cards, born>>
  <2>1. Hushed(cards')
    BY <1>4 DEF Hushed, PoolQuiet
  <2> QED
    BY <1>1, <1>4, <2>1, HushedKeepsRevived
<1> QED
  BY <1>2, <1>3, <1>4 DEF RecordAgentEvent

LEMMA AdjudicatedKeepsRevived ==
  ASSUME LinksInv, LinksInv', ReviveInv, NEW d \in deciding, Adjudicated(d) PROVE ReviveInv'
<1>1. undoable' = undoable /\ revived' = revived /\ turns' = turns
  BY DEF Adjudicated
<1>2. CASE \E e \in SameFact(d.fact) : cards' = [cards EXCEPT ![e] = Touched(@)] /\ UNCHANGED <<born, strays>>
  <2>1. PICK e \in SameFact(d.fact) : cards' = [cards EXCEPT ![e] = Touched(@)] /\ UNCHANGED born
    BY <1>2
  <2>2. e \in Stored
    BY DEF SameFact
  <2>3. Hushed(cards')
    BY <2>1, <2>2, ReinforceHushed
  <2> QED
    BY <1>1, <2>1, <2>3, HushedKeepsRevived
<1>3. CASE UNCHANGED <<cards, born, strays>>
  <2>1. Hushed(cards')
    BY <1>3 DEF Hushed, PoolQuiet
  <2> QED
    BY <1>1, <1>3, <2>1, HushedKeepsRevived
<1>4. ASSUME NEW c, NEW marked, c.merged = {}, \A e \in c.supersedes : Active(e), Store(c, marked)
      PROVE  ReviveInv'
  <2>1. born' = born + 1
    BY <1>4 DEF Store
  <2>2. Hushed(cards')
    BY <1>4, StoreHushed
  <2> QED
    BY <1>1, <2>1, <2>2, HushedKeepsRevived
<1>5. ASSUME NEW targets,
             \/ Store(NewCard(d.fact, None, {}, {}, TRUE), {})
             \/ MayReplace(targets) /\ Store(NewCard(d.fact, None, targets, {}, TRUE), targets)
             \/ Store(NewCard(d.fact, None, {}, targets, TRUE), targets)
      PROVE  ReviveInv'
  <2> DEFINE c(sup, con) == NewCard(d.fact, None, sup, con, TRUE)
  <2>0. \A sup, con : c(sup, con).merged = {} /\ c(sup, con).supersedes = sup
    BY DEF NewCard
  <2> HIDE DEF c
  <2>1. CASE Store(c({}, {}), {})
    BY <2>0, <2>1, <1>4
  <2>2. CASE MayReplace(targets) /\ Store(c(targets, {}), targets)
    BY <2>0, <2>2, <1>4 DEF MayReplace
  <2>3. CASE Store(c({}, targets), targets)
    BY <2>0, <2>3, <1>4
  <2> QED
    BY <1>5, <2>1, <2>2, <2>3 DEF c
<1> QED
  BY <1>2, <1>3, <1>5 DEF Adjudicated

\* Imports and their undo may bring originals back: the history notes which.
LEMMA DoubledNow == (Doubled = DoubledIn(cards)) /\ (Doubled' = DoubledIn(cards'))
BY DEF Doubled, DoubledIn, MergedElsewhere, Stored

LEMMA CommitKeepsRevived ==
  ASSUME LinksInv, LinksInv', ReviveInv, NEW f \in Fact, NEW action, NEW t \in SUBSET CardId, CommitImport(f, action, t)
  PROVE  ReviveInv'
<1> DEFINE sup == IF action = "SUPERSEDE" THEN t ELSE {}
           con == IF action = "CONFLICT" THEN t ELSE {}
           c == NewCard(f, born + 1, sup, con, FALSE)
<1>1. /\ Store(c, con) /\ undoable' = undoable /\ turns' = turns + 1 /\ revived' = revived \cup Doubled'
  BY DEF CommitImport, Spend
<1>2. c.merged = {}
  BY DEF NewCard
<1> HIDE DEF c
<1>3. PoolQuiet(cards, cards', born, turns) /\ born' = born + 1
  BY <1>1, <1>2, StoreIsQuiet DEF Store
<1>4. DoubledIn(cards') \subseteq revived' /\ revived \subseteq revived'
  BY <1>1, DoubledNow
<1> QED
  BY <1>1, <1>3, <1>4, QuietKeepsRevived

LEMMA ScrubbedIsQuiet ==
  ASSUME LinksInv, NEW e \in Stored, NEW gone, NEW x \in Scrubbed(cards[e], e, gone)
  PROVE  x.merged = cards[e].merged /\ (x.edit = cards[e].edit \/ x.edit = turns + 1)
<1> DEFINE c == cards[e]
           heirs == {r \in Stored \ (gone \cup {e}) : e \in cards[r].supersedes}
           sup == c.supersedes \ gone
           con == c.conflicts \ gone
           links == [c EXCEPT !.supersedes = sup, !.conflicts = con]
           freed == IF c.by \notin gone THEN {links}
                    ELSE IF heirs = {} THEN {[links EXCEPT !.status = "active", !.by = None]}
                    ELSE {[links EXCEPT !.status = "superseded", !.by = r] : r \in heirs}
<1>1. PICK y \in freed : x = IF y = c THEN c ELSE Touched(y)
  BY DEF Scrubbed
<1>2. c \in Card /\ heirs \subseteq CardId
  BY StoredCard DEF LinksInv, PoolType, IsPool, Stored
<1> HIDE DEF c, heirs
<1>3. sup \in SUBSET CardId /\ con \in SUBSET CardId
  BY <1>2 DEF Card
<1> HIDE DEF sup, con
<1>4. links \in Card /\ links.merged = c.merged
  BY <1>2, <1>3 DEF Card
<1> HIDE DEF links
<1>5. y \in Card /\ y.merged = c.merged
  <2>1. CASE y = links
    BY <2>1, <1>4
  <2>2. CASE y = [links EXCEPT !.status = "active", !.by = None]
    BY <2>2, <1>4 DEF Card, Status
  <2>3. ASSUME NEW r \in heirs, y = [links EXCEPT !.status = "superseded", !.by = r]
        PROVE  y \in Card /\ y.merged = c.merged
    BY <2>3, <1>2, <1>4 DEF Card, Status
  <2> QED
    BY <2>1, <2>2, <2>3
<1> HIDE DEF freed
<1>6. Touched(y).merged = c.merged /\ Touched(y).edit = turns + 1
  BY <1>5, TouchedFields
<1> QED
  BY <1>1, <1>6 DEF c

LEMMA UndoImportKeepsRevived ==
  ASSUME LinksInv, LinksInv', ReviveInv, NEW s \in CardId, UndoImport(s) PROVE ReviveInv'
<1> DEFINE gone == Imported(s)
           All == UNION {Scrubbed(cards[e], e, gone) : e \in Stored \ gone}
<1>1. /\ undoable' = undoable /\ turns' = turns + 1 /\ born' = born /\ revived' = revived \cup Doubled'
      /\ \A e \in Stored : cards[e].merged # {} => e \notin gone
      /\ cards' \in [Stored \ gone -> All]
      /\ \A e \in Stored \ gone : cards'[e] \in Scrubbed(cards[e], e, gone)
  BY DEF UndoImport, Spend
<1>2. DOMAIN cards' = Stored \ gone
  BY <1>1
<1> HIDE DEF All, gone
<1>3. ASSUME NEW e \in Stored \ gone
      PROVE  cards'[e].merged = cards[e].merged /\ (cards'[e].edit = cards[e].edit \/ cards'[e].edit = turns + 1)
  <2>1. cards'[e] \in Scrubbed(cards[e], e, gone)
    BY <1>1
  <2> QED
    BY <2>1, ScrubbedIsQuiet
<1>4. PoolQuiet(cards, cards', born, turns)
  BY <1>1, <1>2, <1>3 DEF PoolQuiet, Stored
<1>5. DoubledIn(cards') \subseteq revived' /\ revived \subseteq revived'
  BY <1>1, DoubledNow
<1> QED
  BY <1>1, <1>4, <1>5, QuietKeepsRevived

LEMMA ReviveStarts == PoolInit => ReviveInv
<1> SUFFICES ASSUME PoolInit PROVE ReviveInv
  OBVIOUS
<1>1. PICK fact \in [1..FirstCards -> Fact] : cards = FirstPool(fact)
  BY DEF PoolInit
<1>2. undoable = {} /\ born = FirstCards
  BY DEF PoolInit, NothingYet
<1>3. DOMAIN cards = 1..born /\ \A e \in DOMAIN cards : cards[e].merged = {}
  BY <1>1, <1>2 DEF FirstPool, NewCard
<1>4. Edits(cards)
  BY PoolStarts, PoolEdits DEF PoolType
<1> QED
  BY <1>2, <1>3, <1>4 DEF ReviveInv, Revive, AllGiven, DoubledIn

LEMMA ReviveStep == LinksInv /\ LinksInv' /\ ReviveInv /\ [PoolNext]_poolVars => ReviveInv'
<1> SUFFICES ASSUME LinksInv, LinksInv', ReviveInv, [PoolNext]_poolVars PROVE ReviveInv'
  OBVIOUS
<1>1. ASSUME NEW e \in CardId, Pin(e) PROVE ReviveInv'
  <2>1. undoable' = undoable /\ revived' = revived /\ born' = born /\ turns' = turns + 1
    BY <1>1 DEF Pin, Spend
  <2> QED
    BY <1>1, <2>1, PinHushed, HushedKeepsRevived
<1>2. ASSUME NEW e \in CardId, ForgetEvent(e) \/ RestoreEvent(e) PROVE ReviveInv'
  <2>1. PICK status \in Status : SetStatus(e, status)
    BY <1>2 DEF ForgetEvent, RestoreEvent, Status
  <2>2. undoable' = undoable /\ revived' = revived /\ born' = born /\ turns' = turns + 1
    BY <2>1 DEF SetStatus, Spend
  <2> QED
    BY <2>1, <2>2, StatusHushed, HushedKeepsRevived
<1>3. ASSUME NEW f \in Fact, RecordAgentEvent(f) PROVE ReviveInv'
  BY <1>3, RecordKeepsRevived
<1>4. ASSUME NEW d \in deciding, Adjudicated(d) PROVE ReviveInv'
  BY <1>4, AdjudicatedKeepsRevived
<1>5. ASSUME NEW mode \in {"auto", "manual", "select"}, NEW k \in CardId, NEW d \in CardId,
             ReviewDuplicates(mode, k, d)
      PROVE  ReviveInv'
  BY <1>5, ReviewKeepsRevived
<1>6. ASSUME NEW u \in undoable, UndoReview(u) PROVE ReviveInv'
  BY <1>6, UndoKeepsRevived
<1>7. ASSUME NEW f \in Fact, NEW action \in {"ADD", "SUPERSEDE", "CONFLICT"}, NEW t \in SUBSET CardId,
             CommitImport(f, action, t)
      PROVE  ReviveInv'
  BY <1>7, CommitKeepsRevived
<1>8. ASSUME NEW s \in CardId, UndoImport(s) PROVE ReviveInv'
  BY <1>8, UndoImportKeepsRevived
<1>9. CASE UNCHANGED poolVars
  BY <1>9 DEF poolVars, ReviveInv
<1> QED
  BY <1>1, <1>2, <1>3, <1>4, <1>5, <1>6, <1>7, <1>8, <1>9 DEF PoolNext

(* A merged original speaks for itself again only where an import, or the undo of one, has  *)
(* brought it back: no restore, choice, agent recording or undone review does, in whatever  *)
(* order reviews are made and undone.                                                       *)
THEOREM OnlyImportsEverRevive == PoolSpec => []OnlyImportsRevive
<1>1. PoolInit => LinksInv /\ ReviveInv
  BY LinksStart, ReviveStarts
<1>2. LinksInv /\ ReviveInv /\ [PoolNext]_poolVars => LinksInv' /\ ReviveInv'
  BY LinksStep, ReviveStep
<1>3. ReviveInv => OnlyImportsRevive
  BY DoubledNow DEF ReviveInv, Revive, OnlyImportsRevive
<1> QED
  BY <1>1, <1>2, <1>3, PTL DEF PoolSpec

-----------------------------------------------------------------------------
(***************************************************************************)
(* WorkBuddy: TurnsAreTrue, where the host announces the end of a turn once *)
(* and the hook of a prompt gets to save it.                                *)
(***************************************************************************)

Entries == [turn : Nat, by : {"user", "assistant"}]
Folded == [user : Nat, answers : SUBSET Nat, from : Nat, to : Nat]
Operation == [phase : {"free", "open", "opened", "cursor", "invite"}, at : Nat, tries : Nat,
              turn : Folded, assessment : Assessment \cup {"none"}]

BuddyTypes ==
  /\ said \in Seq(Entries) /\ written \in Nat /\ stops \in Nat /\ prompt \in Nat /\ cursor \in Nat
  /\ stored \in Seq(Folded) /\ rev \in Nat /\ op \in [Client -> Operation]

\* The transcript: prompts are numbered upwards, an answer follows its prompt, and only the last
\* answer may not have reached the file.
Transcript ==
  /\ TurnAnswered => Len(said) > 1 /\ said[Len(said) - 1] = Entry(Turns, "user")
  /\ \A i \in 1..(Len(said) - 1) : said[i].turn < Turns \/ (TurnAnswered /\ i = Len(said) - 1)
  /\ prompt = Turns
  /\ written = Len(said) \/ (TurnAnswered /\ written = Len(said) - 1)

\* What a hook carries is the turn that has just ended.
InHand ==
  /\ op["hook"].phase # "free" => /\ stops = 1 /\ TurnAnswered /\ op["hook"].turn.to \in (Len(said) - 1)..Len(said)
                                  /\ op["hook"].turn.user = Turns /\ op["hook"].turn.answers = {Turns}
  /\ op["hook"].phase = "cursor" => TurnStored(op["hook"].turn) /\ InMemory(Turns)

\* The turn in hand is not in the memory before its hook stores it.
Pending == stops = 0 \/ op["hook"].phase \in {"open", "opened"}

Ledger ==
  /\ \A i \in DOMAIN stored : /\ stored[i].answers = {stored[i].user} /\ stored[i].user <= Turns
                              /\ Pending => stored[i].user < Turns
  /\ \A i, j \in DOMAIN stored : stored[i].user = stored[j].user => i = j
  /\ cursor > 0 => \E i \in DOMAIN stored : stored[i].to = cursor

\* What is stored ends before the prompt of the turn in hand, which no receipt can be of then.
PromptAt == IF TurnAnswered THEN Len(said) - 1 ELSE Len(said)

\* Every answered turn is in the memory or missed, but for the one in hand.
Accounted ==
  /\ ~TurnAnswered => stops = 0
  /\ \A i \in DOMAIN stored : stored[i].to <= Len(said) /\ (Pending => stored[i].to < PromptAt)
  /\ \A i \in 1..Len(said) :
       said[i].by = "assistant" =>
         InMemory(said[i].turn) \/ said[i].turn \in missed \/ (said[i].turn = Turns /\ Pending)

BuddyInv == BuddyTypes /\ Transcript /\ InHand /\ Ledger /\ Accounted

LEMMA BuddyStarts == BuddyInit => BuddyInv
<1> SUFFICES ASSUME BuddyInit PROVE BuddyInv
  OBVIOUS
<1>1. /\ said = <<>> /\ written = 0 /\ stops = 0 /\ prompt = 0 /\ cursor = 0 /\ stored = <<>> /\ rev = 0
      /\ op = [p \in Client |-> Free]
  BY DEF BuddyInit
<1>2. Free \in Operation
  BY DEF Free, NoTurn, Operation, Folded
<1>3. BuddyTypes
  BY <1>1, <1>2 DEF BuddyTypes
<1>4. Transcript
  BY <1>1 DEF Transcript, TurnAnswered, Turns
<1>5. op["hook"].phase = "free"
  BY <1>1 DEF Client, Free
<1>6. InHand /\ Ledger
  BY <1>1, <1>5 DEF InHand, Ledger
<1>7. Accounted
  BY <1>1 DEF Accounted, TurnAnswered
<1> QED
  BY <1>3, <1>4, <1>6, <1>7 DEF BuddyInv

\* Turns and TurnAnswered when one entry is added.
LEMMA OneMore ==
  ASSUME BuddyTypes, NEW t \in Nat, NEW by \in {"user", "assistant"}, said' = Append(said, Entry(t, by))
  PROVE  /\ said' \in Seq(Entries) /\ Len(said') = Len(said) + 1 /\ said' # <<>>
         /\ Turns' = t /\ (TurnAnswered' <=> by = "assistant") /\ Len(said) \in Nat
         /\ said'[Len(said) + 1] = Entry(t, by) /\ \A i \in 1..Len(said) : said'[i] = said[i]
<1>1. Entry(t, by) \in Entries /\ said \in Seq(Entries)
  BY DEF Entry, Entries, BuddyTypes
<1>2. /\ said' \in Seq(Entries) /\ Len(said') = Len(said) + 1 /\ Len(said) \in Nat
      /\ said'[Len(said) + 1] = Entry(t, by) /\ \A i \in 1..Len(said) : said'[i] = said[i]
  BY <1>1, AppendProperties
<1>3. said' # <<>>
  BY <1>2
<1>4. Turns' = t /\ (TurnAnswered' <=> by = "assistant")
  BY <1>2, <1>3 DEF Turns, TurnAnswered, Entry
<1> QED
  BY <1>2, <1>3, <1>4

LEMMA TurnsIsNat == ASSUME BuddyTypes PROVE Turns \in Nat /\ Len(said) \in Nat /\ (said # <<>> => Len(said) > 0)
<1>1. said \in Seq(Entries)
  BY DEF BuddyTypes
<1>2. Len(said) \in Nat /\ (said # <<>> => Len(said) > 0 /\ said[Len(said)] \in Entries)
  BY <1>1
<1> QED
  BY <1>2 DEF Turns, Entries

LEMMA SaidTyped == ASSUME BuddyTypes, NEW i \in 1..Len(said) PROVE said[i].turn \in Nat
<1>1. said[i] \in Entries
  BY DEF BuddyTypes
<1> QED
  BY <1>1 DEF Entries

LEMMA StoredTyped == ASSUME BuddyTypes, NEW i \in DOMAIN stored PROVE stored[i].user \in Nat /\ stored[i].to \in Nat
<1>1. stored[i] \in Folded
  BY DEF BuddyTypes
<1> QED
  BY <1>1 DEF Folded

LEMMA PromptKeeps ==
  ASSUME BuddyInv, PromptsReach = TRUE, UserPromptSubmit PROVE BuddyInv'
<1> DEFINE t == Turns + 1
<1>1. t \in Nat /\ Turns \in Nat /\ t = Turns + 1
  BY TurnsIsNat DEF BuddyInv
<1>2. /\ said' = Append(said, Entry(t, "user")) /\ written' = Len(said) + 1 /\ prompt' = t /\ stops' = 0
      /\ op["hook"].phase = "free" /\ UNCHANGED <<cursor, stored, rev, op>>
  BY DEF UserPromptSubmit
<1> HIDE DEF t
<1>3. /\ said' \in Seq(Entries) /\ Len(said') = Len(said) + 1 /\ said' # <<>>
      /\ Turns' = t /\ ~TurnAnswered' /\ Len(said) \in Nat
      /\ said'[Len(said) + 1] = Entry(t, "user") /\ \A i \in 1..Len(said) : said'[i] = said[i]
  BY <1>1, <1>2, OneMore DEF BuddyInv
<1>4. BuddyTypes'
  BY <1>1, <1>2, <1>3 DEF BuddyInv, BuddyTypes
<1>5. ASSUME NEW i \in 1..Len(said) PROVE said[i].turn < t
  <2>1. i = Len(said) \/ i \in 1..(Len(said) - 1)
    BY <1>3
  <2>2. CASE i = Len(said)
    BY <2>2, <1>1, <1>3 DEF Turns
  <2>3. CASE i \in 1..(Len(said) - 1)
    <3>1. said[i].turn < Turns \/ said[i] = Entry(Turns, "user")
      BY <2>3 DEF BuddyInv, Transcript
    <3>2. said[i].turn \in Nat
      BY SaidTyped DEF BuddyInv
    <3> QED
      BY <3>1, <3>2, <1>1 DEF Entry
  <2> QED
    BY <2>1, <2>2, <2>3
<1>6. Transcript'
  BY <1>1, <1>2, <1>3, <1>5 DEF Transcript
<1>7. InHand'
  BY <1>2 DEF InHand
<1>8. Ledger'
  <2>1. \A i \in DOMAIN stored : stored[i].user \in Nat
    BY StoredTyped DEF BuddyInv
  <2> QED
    BY <1>1, <1>2, <1>3, <2>1 DEF BuddyInv, Ledger
<1>9. Accounted'
  <2>1. PromptAt' = Len(said) + 1
    BY <1>3 DEF PromptAt
  <2>2. \A i \in DOMAIN stored : stored[i].to \in Nat /\ stored[i].to <= Len(said)
    BY StoredTyped DEF BuddyInv, Accounted
  <2>3. missed \subseteq missed' /\ (TurnAnswered /\ stops = 0 => Turns \in missed')
    BY DEF UserPromptSubmit
  <2>4. Pending => stops = 0
    BY <1>2 DEF Pending
  <2>5. ASSUME NEW i \in 1..Len(said), said[i].by = "assistant"
        PROVE  InMemory(said[i].turn) \/ said[i].turn \in missed'
    <3>1. CASE said[i].turn = Turns /\ Pending
      <4>1. TurnAnswered
        <5>1. i = Len(said) \/ i \in 1..(Len(said) - 1)
          BY <1>3
        <5>2. CASE i \in 1..(Len(said) - 1)
          BY <5>2, <3>1, <1>1 DEF BuddyInv, Transcript
        <5> QED
          BY <5>1, <5>2, <2>5, <1>3 DEF TurnAnswered
      <4> QED
        BY <4>1, <3>1, <2>3, <2>4
    <3>2. CASE ~(said[i].turn = Turns /\ Pending)
      BY <3>2, <2>3, <2>5 DEF BuddyInv, Accounted
    <3> QED
      BY <3>1, <3>2
  <2>6. ASSUME NEW i \in 1..Len(said'), said'[i].by = "assistant"
        PROVE  (InMemory(said[i].turn) \/ said[i].turn \in missed') /\ said'[i] = said[i]
    <3>1. i \in 1..Len(said)
      BY <2>6, <1>3 DEF Entry
    <3> QED
      BY <3>1, <2>5, <2>6, <1>3
  <2>7. \A x : InMemory(x)' <=> InMemory(x)
    BY <1>2 DEF InMemory
  <2> QED
    BY <2>1, <2>2, <2>6, <2>7, <1>2, <1>3 DEF Accounted
<1> QED
  BY <1>4, <1>6, <1>7, <1>8, <1>9 DEF BuddyInv

LEMMA AnswerKeeps == ASSUME BuddyInv, Answer PROVE BuddyInv'
<1> DEFINE t == Turns
<1>1. t \in Nat /\ Len(said) > 0
  BY TurnsIsNat DEF BuddyInv, Answer
<1>2. /\ said' = Append(said, Entry(t, "assistant")) /\ ~TurnAnswered /\ said # <<>>
      /\ UNCHANGED <<written, stops, prompt, cursor, stored, missed, rev, op>>
  BY DEF Answer
<1> HIDE DEF t
<1>3. /\ said' \in Seq(Entries) /\ Len(said') = Len(said) + 1 /\ said' # <<>>
      /\ Turns' = t /\ TurnAnswered' /\ Len(said) \in Nat
      /\ said'[Len(said) + 1] = Entry(t, "assistant") /\ \A i \in 1..Len(said) : said'[i] = said[i]
  BY <1>1, <1>2, OneMore DEF BuddyInv
<1>4. BuddyTypes'
  BY <1>2, <1>3 DEF BuddyInv, BuddyTypes
<1>5. said[Len(said)] = Entry(t, "user")
  <2>1. said[Len(said)] \in Entries
    BY <1>1, <1>3 DEF BuddyInv, BuddyTypes
  <2>2. said[Len(said)].by # "assistant" /\ said[Len(said)].turn = t
    BY <1>2 DEF TurnAnswered, Turns, t
  <2> QED
    BY <2>1, <2>2 DEF Entries, Entry
<1>6. Transcript'
  <2>1. \A i \in 1..(Len(said) - 1) : said[i].turn < t
    BY <1>2 DEF BuddyInv, Transcript, t
  <2>2. prompt = t /\ written = Len(said)
    BY <1>2 DEF BuddyInv, Transcript, t
  <2> QED
    BY <1>1, <1>2, <1>3, <1>5, <2>1, <2>2 DEF Transcript
<1>7. op["hook"].phase = "free"
  BY <1>2 DEF BuddyInv, InHand
<1>8. InHand' /\ Ledger'
  BY <1>2, <1>3, <1>7 DEF BuddyInv, InHand, Ledger, Pending, t
<1>9. Accounted'
  <2>1. stops = 0 /\ Pending /\ Pending'
    BY <1>2 DEF BuddyInv, Accounted, Pending
  <2>2. PromptAt' = PromptAt /\ PromptAt = Len(said)
    BY <1>2, <1>3 DEF PromptAt
  <2>3. \A i \in DOMAIN stored : stored[i].to \in Nat /\ stored[i].to <= Len(said) /\ stored[i].to < PromptAt
    BY <2>1, StoredTyped DEF BuddyInv, Accounted
  <2>4. \A x : InMemory(x)' <=> InMemory(x)
    BY <1>2 DEF InMemory
  <2>5. ASSUME NEW i \in 1..Len(said'), said'[i].by = "assistant"
        PROVE  InMemory(said'[i].turn) \/ said'[i].turn \in missed \/ said'[i].turn = t
    <3>1. CASE i \in 1..Len(said)
      BY <3>1, <2>5, <1>3 DEF BuddyInv, Accounted, t
    <3>2. CASE i = Len(said) + 1
      BY <3>2, <1>3 DEF Entry
    <3> QED
      BY <3>1, <3>2, <1>3
  <2> QED
    BY <2>1, <2>2, <2>3, <2>4, <2>5, <1>2, <1>3 DEF Accounted
<1> QED
  BY <1>4, <1>6, <1>8, <1>9 DEF BuddyInv

LEMMA CatchUpKeeps == ASSUME BuddyInv, FileCatchesUp PROVE BuddyInv'
<1>1. written' = Len(said) /\ UNCHANGED <<said, stops, prompt, cursor, stored, missed, rev, op>>
  BY DEF FileCatchesUp
<1>2. BuddyTypes'
  BY <1>1, TurnsIsNat DEF BuddyInv, BuddyTypes
<1>3. Transcript'
  BY <1>1 DEF BuddyInv, Transcript, TurnAnswered, Turns
<1>4. InHand' /\ Ledger'
  BY <1>1 DEF BuddyInv, InHand, Ledger, Pending, TurnStored, InMemory, TurnAnswered, Turns
<1>5. Accounted'
  BY <1>1 DEF BuddyInv, Accounted, Pending, PromptAt, InMemory, TurnAnswered, Turns
<1> QED
  BY <1>2, <1>3, <1>4, <1>5 DEF BuddyInv

LEMMA MaxOfOne == ASSUME NEW i \in Int PROVE Max({i}) = i
BY DEF Max

LEMMA MaxOfTwo == ASSUME NEW i \in Int, NEW j \in Int PROVE Max({i, j}) = IF i >= j THEN i ELSE j
<1> DEFINE m == IF i >= j THEN i ELSE j
<1>1. m \in {i, j} /\ \A y \in {i, j} : m >= y
  OBVIOUS
<1>2. ASSUME NEW x \in {i, j}, \A y \in {i, j} : x >= y PROVE x = m
  BY <1>1, <1>2
<1> QED
  BY <1>1, <1>2 DEF Max

\* The fold of what a hook reads, up to the end of the file, is the turn that has just ended.
LEMMA FoldedTurn ==
  ASSUME BuddyTypes, Transcript, TurnAnswered, NEW from \in Nat \ {0}, from <= written
  PROVE  /\ FoldLatestTurn(from, written, prompt) \in Folded
         /\ FoldLatestTurn(from, written, prompt).user = Turns
         /\ FoldLatestTurn(from, written, prompt).answers = {Turns}
         /\ FoldLatestTurn(from, written, prompt).to = written
<1> DEFINE n == Len(said)
           to == written
           users == {i \in from..to : said[i].by = "user"}
           own == {i \in users : said[i].turn = prompt}
           start == TurnStart(from, to, prompt)
           parts == {i \in start..to : said[i].by = "assistant"}
           answers == IF parts # {} THEN {said[i].turn : i \in parts} ELSE {said[n].turn}
<1>1. /\ n \in Nat /\ n > 1 /\ said[n].by = "assistant" /\ said[n].turn = Turns
      /\ said[n - 1] = Entry(Turns, "user") /\ Turns \in Nat /\ prompt = Turns
      /\ \A i \in 1..(n - 2) : said[i].turn < Turns
      /\ to \in {n, n - 1} /\ said \in Seq(Entries)
  <2>1. n \in Nat /\ Turns \in Nat
    BY TurnsIsNat
  <2>2. said # <<>> /\ said[n].by = "assistant" /\ said[n].turn = Turns
    BY DEF TurnAnswered, Turns
  <2> QED
    BY <2>1, <2>2 DEF Transcript, BuddyTypes
<1>2. start = IF own # {} THEN Max(own) ELSE IF users # {} THEN Max(users) ELSE from
  BY DEF TurnStart
<1>5. FoldLatestTurn(from, to, prompt) = [user |-> prompt, from |-> from, to |-> to, answers |-> answers]
  BY DEF FoldLatestTurn
<1>6. ASSUME answers = {Turns}
      PROVE  /\ FoldLatestTurn(from, to, prompt) \in Folded
             /\ FoldLatestTurn(from, to, prompt).user = Turns
             /\ FoldLatestTurn(from, to, prompt).answers = {Turns}
             /\ FoldLatestTurn(from, to, prompt).to = to
  <2> DEFINE a == answers
  <2>1. a = {Turns}
    BY <1>6
  <2>2. FoldLatestTurn(from, to, prompt) = [user |-> prompt, from |-> from, to |-> to, answers |-> a]
    BY <1>5
  <2>3. to \in Nat
    BY DEF BuddyTypes
  <2> HIDE DEF a, to
  <2> QED
    BY <2>1, <2>2, <2>3, <1>1 DEF Folded
<1> HIDE DEF n, start
<1>3. CASE from <= n - 1
  <2>1. own = {n - 1}
    <3>1. n - 1 \in own
      BY <1>1, <1>3 DEF Entry
    <3>2. ASSUME NEW i \in own PROVE i = n - 1
      <4>1. i \in 1..n /\ said[i].by = "user" /\ said[i].turn = Turns
        BY <1>1
      <4>2. i # n
        BY <4>1, <1>1
      <4>3. ~(i \in 1..(n - 2))
        BY <4>1, <1>1
      <4> QED
        BY <4>1, <4>2, <4>3, <1>1
    <3> QED
      BY <3>1, <3>2
  <2> HIDE DEF own
  <2>2. start = n - 1
    BY <2>1, <1>1, <1>2, MaxOfOne
  <2>3. \A i \in parts : i = n
    BY <2>2, <1>1 DEF Entry
  <2>4. answers = {Turns}
    <3>1. CASE parts = {}
      BY <3>1, <1>1
    <3>2. CASE parts # {}
      <4>1. parts = {n}
        BY <3>2, <2>3
      <4> HIDE DEF parts
      <4> QED
        BY <4>1, <1>1
    <3> QED
      BY <3>1, <3>2
  <2> QED
    BY <2>4, <1>6
<1>4. CASE ~(from <= n - 1)
  <2>1. from = n /\ to = n
    BY <1>1, <1>4 DEF to
  <2>2. users = {}
    BY <2>1, <1>1
  <2>3. own = {}
    BY <2>2
  <2> HIDE DEF users, own
  <2>4. start = n
    BY <2>1, <2>2, <2>3, <1>2
  <2>5. parts = {n}
    BY <2>1, <2>4, <1>1
  <2> HIDE DEF parts
  <2>6. answers = {Turns}
    BY <2>5, <1>1
  <2> QED
    BY <2>6, <1>6 DEF parts
<1> QED
  BY <1>3, <1>4

-----------------------------------------------------------------------------
\* An operation that says what an EXCEPT of one field of it says.
LEMMA PhaseTyped ==
  ASSUME NEW o \in Operation, NEW f \in {"free", "open", "opened", "cursor", "invite"}
  PROVE  /\ [o EXCEPT !.phase = f] \in Operation
         /\ [o EXCEPT !.phase = f].phase = f /\ [o EXCEPT !.phase = f].turn = o.turn
BY DEF Operation

LEMMA FreeTyped == Free \in Operation /\ Free.phase = "free"
BY DEF Free, NoTurn, Operation, Folded

\* A step that leaves the transcript and the ledger alone: the hook may be freed, opened or refused.
LEMMA HookMoves ==
  ASSUME BuddyInv, op' \in [Client -> Operation], rev' \in Nat,
         UNCHANGED <<said, written, stops, prompt, cursor, stored>>, missed \subseteq missed',
         \/ op'["hook"] = op["hook"]
         \/ op'["hook"].phase = "free" /\ (op["hook"].phase \in {"open", "opened"} => Turns \in missed')
         \/ /\ op["hook"].phase \in {"open", "opened"} /\ op'["hook"].phase \in {"open", "opened"}
            /\ op'["hook"].turn = op["hook"].turn
  PROVE  BuddyInv'
<1>1. BuddyTypes'
  BY DEF BuddyInv, BuddyTypes
<1>2. Transcript' /\ Turns' = Turns /\ (TurnAnswered' <=> TurnAnswered)
  BY DEF BuddyInv, Transcript, TurnAnswered, Turns
<1>3. InHand'
  BY <1>2 DEF BuddyInv, InHand, TurnStored, InMemory
<1>4. (Pending' => Pending) /\ (Pending => Pending' \/ Turns \in missed')
  BY DEF Pending
<1>5. Ledger'
  BY <1>2, <1>4 DEF BuddyInv, Ledger
<1>6. PromptAt' = PromptAt /\ \A x : InMemory(x)' <=> InMemory(x)
  BY <1>2 DEF PromptAt, InMemory
<1>7. Accounted'
  BY <1>2, <1>4, <1>6 DEF BuddyInv, Accounted
<1> QED
  BY <1>1, <1>2, <1>3, <1>5, <1>7 DEF BuddyInv

LEMMA HookIsClient == "hook" \in Client /\ "use" \in Client /\ "hook" # "use"
BY DEF Client

\* An operation of one process: the others keep theirs.
LEMMA OneProcess ==
  ASSUME BuddyTypes, NEW p \in Client, NEW o \in Operation, op' = [op EXCEPT ![p] = o]
  PROVE  op' \in [Client -> Operation] /\ op'[p] = o /\ \A x \in Client \ {p} : op'[x] = op[x]
BY DEF BuddyTypes

LEMMA StopKeeps == ASSUME BuddyInv, StopsPerTurn \in 0..1, Stop PROVE BuddyInv'
<1> DEFINE from == Max({cursor, written - Window}) + 1
           turn == FoldLatestTurn(from, written, prompt)
           o == [Free EXCEPT !.phase = "open", !.turn = turn]
<1>1. /\ TurnAnswered /\ stops' = stops + 1 /\ stops < StopsPerTurn /\ cursor < written
      /\ op' = [op EXCEPT !["hook"] = o] /\ UNCHANGED <<said, written, prompt, cursor, stored, missed, rev>>
  BY DEF Stop
<1>2. stops = 0 /\ stops' = 1
  BY <1>1 DEF BuddyInv, BuddyTypes
<1>3. from \in Nat \ {0} /\ from <= written
  <2>1. cursor \in Nat /\ written \in Nat /\ Window \in Nat \ {0}
    BY WorkBuddyAssumption DEF BuddyInv, BuddyTypes
  <2>2. Max({cursor, written - Window}) = IF cursor >= written - Window THEN cursor ELSE written - Window
    BY <2>1, MaxOfTwo
  <2> QED
    BY <1>1, <2>1, <2>2
<1> HIDE DEF from
<1>4. turn \in Folded /\ turn.user = Turns /\ turn.answers = {Turns} /\ turn.to = written
  BY <1>1, <1>3, FoldedTurn DEF BuddyInv
<1> HIDE DEF turn
<1>5. o \in Operation /\ o.phase = "open" /\ o.turn = turn
  BY <1>4, FreeTyped DEF Operation
<1> HIDE DEF o
<1>6. op' \in [Client -> Operation] /\ op'["hook"] = o
  BY <1>1, <1>5, HookIsClient, OneProcess DEF BuddyInv
<1>7. BuddyTypes'
  BY <1>1, <1>2, <1>6 DEF BuddyInv, BuddyTypes
<1>8. Transcript' /\ Turns' = Turns /\ TurnAnswered'
  BY <1>1 DEF BuddyInv, Transcript, TurnAnswered, Turns
<1>9. InHand'
  <2>1. written \in (Len(said) - 1)..Len(said)
    BY TurnsIsNat DEF BuddyInv, Transcript
  <2> QED
    BY <2>1, <1>1, <1>2, <1>4, <1>5, <1>6, <1>8 DEF InHand
<1>10. Pending /\ Pending'
  BY <1>2, <1>5, <1>6 DEF Pending
<1>11. Ledger'
  BY <1>1, <1>8, <1>10 DEF BuddyInv, Ledger
<1>12. PromptAt' = PromptAt /\ \A x : InMemory(x)' <=> InMemory(x)
  BY <1>1, <1>8 DEF PromptAt, InMemory
<1>13. Accounted'
  BY <1>1, <1>8, <1>10, <1>12 DEF BuddyInv, Accounted
<1> QED
  BY <1>7, <1>8, <1>9, <1>11, <1>13 DEF BuddyInv

LEMMA TakeKeeps == ASSUME BuddyInv, TakeTurn PROVE BuddyInv'
<1> DEFINE o == [op["hook"] EXCEPT !.phase = "cursor"]
           turn == op["hook"].turn
           n == Len(stored)
<1>0. op["hook"] \in Operation /\ turn \in Folded /\ rev \in Nat /\ stored \in Seq(Folded)
  BY HookIsClient DEF BuddyInv, BuddyTypes, Operation
<1>1. /\ op["hook"].phase = "opened" /\ op' = [op EXCEPT !["hook"] = o]
      /\ IF TurnStored(turn) THEN UNCHANGED <<stored, rev>>
         ELSE stored' = Append(stored, turn) /\ rev' = rev + 1
      /\ UNCHANGED <<said, written, stops, prompt, cursor, missed>>
  BY DEF TakeTurn
<1>2. stops = 1 /\ TurnAnswered /\ turn.user = Turns /\ turn.answers = {Turns}
  BY <1>1 DEF BuddyInv, InHand
<1>3. o \in Operation /\ o.phase = "cursor" /\ o.turn = turn
  BY <1>0, PhaseTyped
<1> HIDE DEF o
<1>4. op' \in [Client -> Operation] /\ op'["hook"] = o
  BY <1>1, <1>3, HookIsClient, OneProcess DEF BuddyInv
<1>5. Transcript' /\ Turns' = Turns /\ TurnAnswered'
  BY <1>1, <1>2 DEF BuddyInv, Transcript, TurnAnswered, Turns
<1>6. Pending /\ ~Pending' /\ Turns \in Nat
  BY <1>1, <1>2, <1>3, <1>4, TurnsIsNat DEF Pending, BuddyInv
<1>7. \A i \in DOMAIN stored : /\ stored[i].answers = {stored[i].user} /\ stored[i].user <= Turns
                               /\ stored[i].user < Turns /\ stored[i].user \in Nat
  BY <1>1, StoredTyped DEF BuddyInv, Ledger, Pending
<1>8. turn.to \in (Len(said) - 1)..Len(said) /\ PromptAt = Len(said) - 1 /\ Len(said) \in Nat /\ turn.to \in Nat
  BY <1>0, <1>1, <1>2, TurnsIsNat DEF BuddyInv, InHand, PromptAt, Folded
<1> HIDE DEF turn
<1>9. ~TurnStored(turn)
  <2>1. \A i \in DOMAIN stored : stored[i].to \in Nat /\ stored[i].to < PromptAt
    BY <1>6, StoredTyped DEF BuddyInv, Accounted
  <2> QED
    BY <2>1, <1>8 DEF TurnStored
<1>10. BuddyInv'
  <2>1. stored' = Append(stored, turn) /\ rev' = rev + 1
    BY <1>1, <1>9
  <2>2. /\ stored' \in Seq(Folded) /\ n \in Nat /\ DOMAIN stored = 1..n /\ DOMAIN stored' = 1..(n + 1)
        /\ stored'[n + 1] = turn /\ \A i \in 1..n : stored'[i] = stored[i]
    BY <2>1, <1>0, AppendProperties
  <2> HIDE DEF n
  <2>3. BuddyTypes'
    BY <2>1, <2>2, <1>0, <1>1, <1>4 DEF BuddyInv, BuddyTypes
  <2>4. \E i \in DOMAIN stored' : stored'[i].from = turn.from /\ stored'[i].to = turn.to
    BY <2>2
  <2>5. InHand' /\ InMemory(Turns)'
    <3>1. InMemory(Turns)'
      BY <2>2, <1>2, <1>5 DEF InMemory
    <3> QED
      BY <3>1, <2>4, <1>1, <1>2, <1>3, <1>4, <1>5, <1>8 DEF InHand, TurnStored
  <2>6. Ledger'
    <3>1. \A i \in DOMAIN stored' : i \in 1..n \/ i = n + 1
      BY <2>2
    <3>2. \A i \in DOMAIN stored' : stored'[i].answers = {stored'[i].user} /\ stored'[i].user <= Turns
      BY <3>1, <2>2, <1>2, <1>6, <1>7
    <3>3. \A i, j \in DOMAIN stored' : stored'[i].user = stored'[j].user => i = j
      <4>1. \A i, j \in 1..n : stored[i].user = stored[j].user => i = j
        BY <2>2 DEF BuddyInv, Ledger
      <4> QED
        BY <3>1, <4>1, <2>2, <1>2, <1>6, <1>7
    <3>4. cursor' > 0 => \E i \in DOMAIN stored' : stored'[i].to = cursor'
      <4>1. cursor > 0 => \E i \in 1..n : stored[i].to = cursor
        BY <2>2 DEF BuddyInv, Ledger
      <4> QED
        BY <4>1, <2>2, <1>1
    <3> QED
      BY <3>2, <3>3, <3>4, <1>5, <1>6 DEF Ledger
  <2>7. Accounted'
    <3>1. \A i \in DOMAIN stored' : stored'[i].to <= Len(said)
      <4>1. \A i \in 1..n : stored[i].to <= Len(said)
        BY <2>2 DEF BuddyInv, Accounted
      <4>2. \A i \in DOMAIN stored' : i \in 1..n \/ i = n + 1
        BY <2>2
      <4> QED
        BY <4>1, <4>2, <2>2, <1>8
    <3>2. \A x : InMemory(x) => InMemory(x)'
      BY <2>2 DEF InMemory
    <3>3. ASSUME NEW i \in 1..Len(said), said[i].by = "assistant", NEW x, x = said[i].turn
          PROVE  InMemory(x)' \/ x \in missed
      <4>1. InMemory(x) \/ x \in missed \/ x = Turns
        BY <3>3 DEF BuddyInv, Accounted
      <4>2. x = Turns => InMemory(x)'
        BY <2>5, <1>5 DEF InMemory
      <4> QED
        BY <4>1, <4>2, <3>2
    <3>4. ASSUME NEW i \in 1..Len(said'), said'[i].by = "assistant"
          PROVE  (InMemory(said[i].turn) \/ said[i].turn \in missed)'
      <4>1. said'[i] = said[i] /\ i \in 1..Len(said)
        BY <3>4, <1>1
      <4>2. \A x : x = said[i].turn => (\E k \in DOMAIN stored' : stored'[k].user = x) \/ x \in missed
        BY <4>1, <3>3, <3>4 DEF InMemory
      <4> QED
        BY <4>1, <4>2, <1>1 DEF InMemory
    <3> QED
      BY <3>1, <3>4, <1>1, <1>2, <1>5, <1>6 DEF Accounted
  <2> QED
    BY <2>3, <2>5, <2>6, <2>7, <1>5 DEF BuddyInv
<1> QED
  BY <1>10

LEMMA CursorKeeps == ASSUME BuddyInv, WriteCursor PROVE BuddyInv'
<1>1. /\ op["hook"].phase = "cursor" /\ cursor' = op["hook"].turn.to /\ op' = [op EXCEPT !["hook"] = Free]
      /\ UNCHANGED <<said, written, stops, prompt, stored, missed, rev>>
  BY DEF WriteCursor
<1>2. op["hook"].turn.to \in Nat
  BY HookIsClient DEF BuddyInv, BuddyTypes, Operation, Folded
<1>3. op' \in [Client -> Operation] /\ op'["hook"].phase = "free"
  BY <1>1, FreeTyped, HookIsClient, OneProcess DEF BuddyInv
<1>4. BuddyTypes'
  BY <1>1, <1>2, <1>3 DEF BuddyInv, BuddyTypes
<1>5. Transcript' /\ Turns' = Turns
  BY <1>1 DEF BuddyInv, Transcript, TurnAnswered, Turns
<1>6. InHand' /\ (Pending' <=> Pending)
  <2>1. InHand'
    BY <1>1, <1>3, <1>5 DEF BuddyInv, InHand
  <2>2. ~Pending /\ ~Pending'
    BY <1>1, <1>3 DEF BuddyInv, InHand, Pending
  <2> QED
    BY <2>1, <2>2
<1>7. \E i \in DOMAIN stored : stored[i].to = op["hook"].turn.to
  BY <1>1 DEF BuddyInv, InHand, TurnStored
<1>8. Ledger'
  BY <1>1, <1>5, <1>6, <1>7 DEF BuddyInv, Ledger
<1>9. (TurnAnswered' <=> TurnAnswered) /\ PromptAt' = PromptAt /\ \A x : InMemory(x)' <=> InMemory(x)
  BY <1>1 DEF TurnAnswered, PromptAt, InMemory
<1>10. Accounted'
  BY <1>1, <1>5, <1>6, <1>9 DEF BuddyInv, Accounted
<1> QED
  BY <1>4, <1>5, <1>6, <1>8, <1>10 DEF BuddyInv

LEMMA CutKeeps == ASSUME BuddyInv, HookIsCut PROVE BuddyInv'
<1>1. op' = [op EXCEPT !["hook"] = Free] /\ UNCHANGED <<said, written, stops, prompt, cursor, stored, rev>>
  BY DEF HookIsCut
<1>2. op' \in [Client -> Operation] /\ op'["hook"].phase = "free"
  BY <1>1, FreeTyped, HookIsClient, OneProcess DEF BuddyInv
<1>3. missed \subseteq missed' /\ (op["hook"].phase \in {"open", "opened"} => Turns \in missed')
  BY DEF HookIsCut, Misses
<1> QED
  BY <1>1, <1>2, <1>3, HookMoves DEF BuddyInv, BuddyTypes

LEMMA OpenKeeps == ASSUME BuddyInv, NEW p \in Client, Open(p) PROVE BuddyInv'
<1> DEFINE tries == op[p].tries + 1
           o == [op[p] EXCEPT !.phase = "opened", !.at = rev, !.tries = tries]
<1>0. op \in [Client -> Operation] /\ op[p] \in Operation /\ rev \in Nat /\ tries \in Nat
  BY DEF BuddyInv, BuddyTypes, Operation
<1>1. /\ op[p].phase = "open" /\ UNCHANGED <<said, written, stops, prompt, cursor, stored, missed, rev>>
      /\ op' = [op EXCEPT ![p].phase = "opened", ![p].at = rev, ![p].tries = @ + 1]
  BY DEF Open
<1>2. op' = [op EXCEPT ![p] = o]
  BY <1>0, <1>1
<1> HIDE DEF tries
<1>3. o \in Operation /\ o.phase = "opened" /\ o.turn = op[p].turn
  BY <1>0 DEF Operation
<1> HIDE DEF o
<1>4. op' \in [Client -> Operation] /\ op'[p] = o /\ \A x \in Client \ {p} : op'[x] = op[x]
  BY <1>2, <1>3, OneProcess DEF BuddyInv
<1> QED
  BY <1>0, <1>1, <1>3, <1>4, HookIsClient, HookMoves

LEMMA ConflictKeeps == ASSUME BuddyInv, NEW p \in Client, Conflict(p) PROVE BuddyInv'
<1> DEFINE again == [op[p] EXCEPT !.phase = "open"]
           o == IF op[p].tries < Attempts THEN again ELSE Free
<1>0. op[p] \in Operation /\ rev \in Nat
  BY DEF BuddyInv, BuddyTypes
<1>1. /\ op[p].phase = "opened" /\ UNCHANGED <<said, written, stops, prompt, cursor, stored, rev>>
      /\ op' = [op EXCEPT ![p] = o]
  BY DEF Conflict
<1>2. again \in Operation /\ again.phase = "open" /\ again.turn = op[p].turn
  BY <1>0, PhaseTyped
<1> HIDE DEF again
<1>3. o \in Operation /\ (o.phase = "free" \/ (o.phase = "open" /\ o.turn = op[p].turn))
  BY <1>2, FreeTyped
<1>4. missed \subseteq missed' /\ (p = "hook" /\ o.phase = "free" => Turns \in missed')
  <2>1. again.phase = "open"
    BY <1>2
  <2>2. o.phase = "free" => ~(op[p].tries < Attempts)
    BY <2>1
  <2>3. IF op[p].tries < Attempts THEN UNCHANGED missed ELSE Misses(p)
    BY DEF Conflict
  <2> HIDE DEF o
  <2> QED
    BY <1>1, <2>2, <2>3 DEF Misses
<1> HIDE DEF o
<1>5. op' \in [Client -> Operation] /\ op'[p] = o /\ \A x \in Client \ {p} : op'[x] = op[x]
  BY <1>1, <1>3, OneProcess DEF BuddyInv
<1>6. CASE p = "hook"
  BY <1>0, <1>1, <1>3, <1>4, <1>5, <1>6, HookMoves
<1>7. CASE p # "hook"
  <2>1. op'["hook"] = op["hook"]
    BY <1>5, <1>7, HookIsClient
  <2> QED
    BY <2>1, <1>0, <1>1, <1>4, <1>5, HookMoves
<1> QED
  BY <1>6, <1>7

\* What the evidence tools do to the operation of their process.
LEMMA UseKeeps ==
  ASSUME BuddyInv, NEW o \in Operation, op' = [op EXCEPT !["use"] = o], rev' \in Nat,
         UNCHANGED <<said, written, stops, prompt, cursor, stored, missed>>
  PROVE  BuddyInv'
<1>1. op' \in [Client -> Operation] /\ op'["hook"] = op["hook"]
  BY HookIsClient, OneProcess DEF BuddyInv
<1> QED
  BY <1>1, HookMoves

LEMMA RecordUseOf == ASSUME BuddyInv, NEW a \in Assessment, RecordUse(a) PROVE BuddyInv'
<1> DEFINE o == [Free EXCEPT !.phase = "open", !.assessment = a]
<1>1. op' = [op EXCEPT !["use"] = o] /\ UNCHANGED <<said, written, stops, prompt, cursor, stored, missed, rev>>
  BY DEF RecordUse
<1>2. o \in Operation
  BY FreeTyped DEF Operation
<1> HIDE DEF o
<1> QED
  BY <1>1, <1>2, UseKeeps DEF BuddyInv, BuddyTypes

LEMMA CommitUseKeeps == ASSUME BuddyInv, CommitUse PROVE BuddyInv'
<1> DEFINE o == [op["use"] EXCEPT !.phase = "invite"]
<1>0. op["use"] \in Operation /\ rev \in Nat
  BY HookIsClient DEF BuddyInv, BuddyTypes
<1>1. op' = [op EXCEPT !["use"] = o] /\ UNCHANGED <<said, written, stops, prompt, cursor, stored, missed>>
  BY DEF CommitUse
<1>2. rev' = rev \/ rev' = rev + 1
  BY DEF CommitUse
<1>3. o \in Operation
  BY <1>0, PhaseTyped
<1> HIDE DEF o
<1>4. rev' \in Nat
  BY <1>0, <1>2
<1> QED
  BY <1>1, <1>3, <1>4, UseKeeps

LEMMA ClaimKeeps == ASSUME BuddyInv, ClaimStarPrompt PROVE BuddyInv'
<1>1. op' = [op EXCEPT !["use"] = Free] /\ UNCHANGED <<said, written, stops, prompt, cursor, stored, missed, rev>>
  BY DEF ClaimStarPrompt
<1> QED
  BY <1>1, FreeTyped, UseKeeps DEF BuddyInv, BuddyTypes

LEMMA OthersKeep ==
  ASSUME BuddyInv, UNCHANGED <<said, written, stops, prompt, cursor, stored, missed, op>>, rev' = rev \/ rev' = rev + 1
  PROVE  BuddyInv'
<1>1. rev' \in Nat /\ op' \in [Client -> Operation]
  BY DEF BuddyInv, BuddyTypes
<1> QED
  BY <1>1, HookMoves

LEMMA BuddyStep ==
  ASSUME BuddyInv, PromptsReach = TRUE, StopsPerTurn \in 0..1, [BuddyNext]_buddyVars
  PROVE  BuddyInv'
<1>1. CASE UserPromptSubmit
  BY <1>1, PromptKeeps
<1>2. CASE Answer
  BY <1>2, AnswerKeeps
<1>3. CASE FileCatchesUp
  BY <1>3, CatchUpKeeps
<1>4. CASE Stop
  BY <1>4, StopKeeps
<1>5. CASE TakeTurn
  BY <1>5, TakeKeeps
<1>6. CASE WriteCursor
  BY <1>6, CursorKeeps
<1>7. CASE HookIsCut
  BY <1>7, CutKeeps
<1>8. ASSUME NEW p \in Client, Open(p) \/ Conflict(p) PROVE BuddyInv'
  BY <1>8, OpenKeeps, ConflictKeeps
<1>9. ASSUME NEW a \in Assessment, RecordUse(a) PROVE BuddyInv'
  BY <1>9, RecordUseOf
<1>10. ASSUME NEW a \in Assessment, NEW verdict, Assess(a, verdict) PROVE BuddyInv'
  BY <1>10, OthersKeep DEF Assess
<1>11. CASE CommitUse
  BY <1>11, CommitUseKeeps
<1>12. CASE ClaimStarPrompt
  BY <1>12, ClaimKeeps
<1>13. CASE WorkerStarts \/ WorkerCommits \/ WorkerEnds \/ WorkerFails \/ WorkerIsDue
  BY <1>13, OthersKeep DEF WorkerStarts, WorkerCommits, WorkerEnds, WorkerFails, WorkerIsDue
<1>14. CASE UNCHANGED buddyVars
  BY <1>14, OthersKeep DEF buddyVars
<1> QED
  BY <1>1, <1>2, <1>3, <1>4, <1>5, <1>6, <1>7, <1>8, <1>9, <1>10, <1>11, <1>12, <1>13, <1>14 DEF BuddyNext

LEMMA AccountedTurns ==
  ASSUME BuddyInv, NEW i \in 1..cursor, WasAnswered(said[i].turn)
  PROVE  InMemory(said[i].turn) \/ said[i].turn \in missed
<1>1. PICK j \in DOMAIN said : said[j] = Entry(said[i].turn, "assistant")
  BY DEF WasAnswered
<1>2. j \in 1..Len(said) /\ said[j].by = "assistant" /\ said[j].turn = said[i].turn
  BY <1>1 DEF Entry, BuddyInv, BuddyTypes
<1>3. ASSUME said[i].turn = Turns, Pending PROVE FALSE
  <2>1. cursor \in Nat /\ cursor > 0 /\ Len(said) \in Nat /\ Turns \in Nat
    BY TurnsIsNat DEF BuddyInv, BuddyTypes
  <2>2. PICK k \in DOMAIN stored : stored[k].to = cursor
    BY <2>1 DEF BuddyInv, Ledger
  <2>3. cursor < PromptAt
    BY <1>3, <2>2 DEF BuddyInv, Accounted
  <2>4. i \in 1..(Len(said) - 1) /\ ~(TurnAnswered /\ i = Len(said) - 1)
    BY <2>1, <2>3 DEF PromptAt
  <2>5. said[i].turn < Turns
    BY <2>4 DEF BuddyInv, Transcript
  <2> QED
    BY <2>1, <2>5, <1>3
<1> QED
  BY <1>2, <1>3 DEF BuddyInv, Accounted

(* Where the host announces the end of a turn once, and the hook of a prompt gets to save   *)
(* it before it can be cut off, a stored turn joins a prompt with its own answer, no prompt *)
(* is stored twice, and of the answered turns the transcript cursor has passed those are in *)
(* the memory whose Stop came and got to its append: wherever hooks are cut off, however    *)
(* late the file shows the answer, and whatever the server's worker commits in between.     *)
(* The others are lost. Without either hypothesis the property fails.                       *)
THEOREM TurnsStayTrue ==
  ASSUME PromptsReach = TRUE, StopsPerTurn \in 0..1
  PROVE  BuddySpec => []TurnsAreTrue
<1>1. BuddyInit => BuddyInv
  BY BuddyStarts
<1>2. BuddyInv /\ [BuddyNext]_buddyVars => BuddyInv'
  BY BuddyStep
<1>3. BuddyInv => TurnsAreTrue
  BY AccountedTurns DEF BuddyInv, Ledger, TurnsAreTrue
<1> QED
  BY <1>1, <1>2, <1>3, PTL DEF BuddySpec

-----------------------------------------------------------------------------

(* DuplicateReview, for one pair of cards *)

Both == {1, 2}
Held == {"review", "commit", "record", "restore", "reopen"}
SmallPool == {<<>>} \cup [Both -> Card]

\* The two cards before a choice, and once k stands for the other one.
Untouched(c) ==
  /\ c \in [Both -> Card]
  /\ \A e \in Both : c[e].edit = 0 /\ c[e].merged = {} /\ c[e].status # "archived" /\ c[e].by \in {None, 3 - e}
StandsFor(c, k, merged) ==
  /\ c \in [Both -> Card] /\ c[k].status = "active" /\ c[3 - k].status = "archived"
  /\ c[3 - k].by = k /\ c[3 - k].merged = {} /\ c[k].merged = IF merged THEN {3 - k} ELSE {}
OneStands(c) == \E k \in Both, merged \in BOOLEAN : StandsFor(c, k, merged)

Choice == [mode : {"manual", "select", "auto"}, keep : Both, actor : Actor]
PairRecord ==
  [l : {1}, r : {2}, fl : Card, fr : Card, outcome : {"none", "merged", "selected", "kept", "failed"},
   keep : {None} \cup Both, attempts : Nat, reviewed : BOOLEAN, ai : BOOLEAN, reopened : BOOLEAN,
   intent : Choice \cup {NoIntent},
   undo : [has : BOOLEAN, data : [before : SmallPool, after : SmallPool], pending : BOOLEAN]]
JournalRecord == [pairs : Seq(PairRecord), cursor : Nat \ {0}, status : {"none", "pending", "completed"}]
WorkRecord == [pc : Held \cup {"rest", "model"}, at : Nat, after : SmallPool]

\* Who holds the lease is at a step of its operation on the pair.
WorkOK(w, ls, some) ==
  /\ w \in [Actor -> WorkRecord] /\ ls \in Actor \cup {"free"} /\ w["user"].pc # "model"
  /\ \A a \in Actor : w[a].pc \in Held => ls = a
  /\ \A a \in Actor : w[a].pc # "rest" /\ ls = a => w[a].at = 1 /\ some

HandledPair(p) == p.outcome \in {"merged", "selected"}
NoData == [before |-> <<>>, after |-> <<>>]
InverseTrue(c, p) ==
  p.undo.data # NoData =>
    /\ p.undo.has /\ Untouched(p.undo.data.before) /\ OneStands(p.undo.data.after)
    /\ Untouched(c) => p.undo.data.before = c
TogetherTrue(c, p) ==
  OneStands(c) =>
    /\ p.undo.data # NoData
    /\ p.intent = NoIntent => HandledPair(p)
    /\ p.intent # NoIntent => StandsFor(c, p.intent.keep, p.intent.mode # "select")
ApartTrue(c, p) ==
  Untouched(c) /\ p.intent = NoIntent /\ ~p.undo.pending => ~HandledPair(p)
StepTrue(c, w, ls, p, a) ==
  /\ w[a].pc = "model" /\ ls = a => Untouched(c)
  /\ w[a].pc = "review" => Untouched(c) /\ p.intent # NoIntent /\ (a = "user" => ~HandledPair(p))
  /\ w[a].pc = "commit" =>
       /\ Untouched(c) /\ p.intent # NoIntent /\ p.undo.data # NoData
       /\ w[a].after = p.undo.data.after /\ StandsFor(w[a].after, p.intent.keep, p.intent.mode # "select")
  /\ w[a].pc = "record" => OneStands(c) /\ p.intent # NoIntent
  /\ w[a].pc \in {"restore", "reopen"} => p.undo.pending
  /\ w[a].pc = "reopen" => Untouched(c)
PairTrue(c, w, ls, p) ==
  InverseTrue(c, p) /\ TogetherTrue(c, p) /\ ApartTrue(c, p) /\ \A a \in Actor : StepTrue(c, w, ls, p, a)

OnePair(j, ls, w, c) ==
  /\ j \in JournalRecord /\ Len(j.pairs) <= 1 /\ WorkOK(w, ls, j.pairs # <<>>)
  /\ Untouched(c) \/ OneStands(c)
  /\ j.pairs = <<>> => Untouched(c)
  /\ j.pairs # <<>> => PairTrue(c, w, ls, j.pairs[1])
ReviewInv == turns \in Nat /\ (turns = 0 => OnePair(journal, lease, work, cards))

-----------------------------------------------------------------------------

\* A journal of one pair.
JournalIs(j, q) == j \in JournalRecord /\ q \in PairRecord /\ j.pairs = <<q>>

LEMMA ApartOrTogether == ASSUME NEW c, Untouched(c), OneStands(c) PROVE FALSE
  BY DEF Untouched, OneStands, StandsFor, Both

LEMMA ThePair ==
  ASSUME NEW j, NEW ls, NEW w, NEW c, OnePair(j, ls, w, c), NEW i \in DOMAIN j.pairs
  PROVE  i = 1 /\ j.pairs # <<>> /\ JournalIs(j, j.pairs[1]) /\ PairTrue(c, w, ls, j.pairs[1])
<1>1. j.pairs \in Seq(PairRecord)
  BY DEF OnePair, JournalRecord
<1>2. Len(j.pairs) = 1 /\ i = 1
  <2>1. Len(j.pairs) <= 1
    BY DEF OnePair
  <2>2. Len(j.pairs) \in Nat /\ DOMAIN j.pairs = 1..Len(j.pairs)
    BY <1>1, LenProperties
  <2>3. i \in 1..Len(j.pairs)
    BY <2>2
  <2> DEFINE n == Len(j.pairs)
  <2>4. n \in Nat /\ n <= 1 /\ i \in 1..n
    BY <2>1, <2>2, <2>3
  <2> HIDE DEF n
  <2>5. n = 1 /\ i = 1
    BY <2>4
  <2> QED BY <2>5 DEF n
<1>3. j.pairs = <<j.pairs[1]>> /\ j.pairs[1] \in PairRecord /\ j.pairs # <<>>
  BY <1>1, <1>2
<1> QED BY <1>2, <1>3 DEF OnePair, JournalIs

LEMMA OnePairAgain ==
  ASSUME NEW j, NEW q, JournalIs(j, q), NEW ls, NEW w, WorkOK(w, ls, TRUE), NEW c,
         Untouched(c) \/ OneStands(c), PairTrue(c, w, ls, q)
  PROVE  OnePair(j, ls, w, c)
<1>1. j.pairs = <<q>> /\ Len(j.pairs) = 1 /\ j.pairs # <<>> /\ j.pairs[1] = q
  BY DEF JournalIs
<1>2. WorkOK(w, ls, j.pairs # <<>>)
  BY <1>1 DEF WorkOK
<1>3. j \in JournalRecord
  BY DEF JournalIs
<1> QED BY <1>1, <1>2, <1>3 DEF OnePair

LEMMA SetPairIs ==
  ASSUME NEW p, JournalIs(journal, p), NEW q \in PairRecord
  PROVE  JournalIs(SetPair(1, q), q)
<1>1. journal \in JournalRecord /\ journal.pairs = <<p>>
  BY DEF JournalIs
<1>2. [journal.pairs EXCEPT ![1] = q] = <<q>>
  BY <1>1
<1>3. SetPair(1, q) = [journal EXCEPT !.pairs = <<q>>]
  BY <1>1, <1>2 DEF SetPair, JournalRecord
<1>4. <<q>> \in Seq(PairRecord)
  OBVIOUS
<1>5. [journal EXCEPT !.pairs = <<q>>] = [pairs |-> <<q>>, cursor |-> journal.cursor, status |-> journal.status]
  BY <1>1 DEF JournalRecord
<1>6. [journal EXCEPT !.pairs = <<q>>] \in JournalRecord
  BY <1>1, <1>4, <1>5 DEF JournalRecord
<1> QED BY <1>3, <1>5, <1>6 DEF JournalIs

LEMMA PastIs ==
  ASSUME NEW j, NEW q, JournalIs(j, q)
  PROVE  JournalIs(Past(j), q)
<1>1. j \in JournalRecord /\ j.pairs = <<q>> /\ Len(j.pairs) = 1 /\ q \in PairRecord
  BY DEF JournalIs
<1>2. PICK s \in {"pending", "completed"} : Past(j) = [j EXCEPT !.cursor = @ + 1, !.status = s]
  BY DEF Past
<1>3. Past(j) = [pairs |-> <<q>>, cursor |-> j.cursor + 1, status |-> s]
  BY <1>1, <1>2 DEF JournalRecord
<1>4. Past(j) \in JournalRecord
  BY <1>1, <1>3 DEF JournalRecord
<1> QED BY <1>1, <1>3, <1>4 DEF JournalIs

LEMMA PendingIs ==
  ASSUME NEW j, NEW q, JournalIs(j, q), NEW s \in {"pending", "completed"}
  PROVE  JournalIs([j EXCEPT !.status = s], q)
  BY DEF JournalIs, JournalRecord

LEMMA NextIs ==
  ASSUME NEW j, NEW q, JournalIs(j, q)
  PROVE  JournalIs([j EXCEPT !.cursor = @ + 1], q)
  BY DEF JournalIs, JournalRecord

\* The first of what is open, or the place after the last.
LEMMA FirstOpen ==
  ASSUME NEW open \in SUBSET {1}
  PROVE  (IF open = {} THEN 2 ELSE CHOOSE i \in open : \A k \in open : i <= k) \in {1, 2}
<1>1. CASE open = {}
  BY <1>1
<1>2. CASE open = {1}
  <2>1. \E i \in open : \A k \in open : i <= k
    BY <1>2
  <2> QED BY <2>1, <1>2
<1> QED BY <1>1, <1>2

LEMMA AdvancedIs ==
  ASSUME NEW j, NEW q, JournalIs(j, q)
  PROVE  JournalIs(Advanced(j), q)
<1> DEFINE open == {i \in j.cursor..Len(j.pairs) : ~Handled(j.pairs[i])}
           next == IF open = {} THEN Len(j.pairs) + 1 ELSE CHOOSE i \in open : \A k \in open : i <= k
<1>1. j \in JournalRecord /\ j.pairs = <<q>> /\ Len(j.pairs) = 1 /\ q \in PairRecord
  BY DEF JournalIs
<1>2. open \in SUBSET {1}
  BY <1>1 DEF JournalRecord
<1>3. next \in {1, 2}
  BY <1>1, <1>2, FirstOpen
<1>4. PICK s \in {"none", "pending", "completed"} : Advanced(j) = [j EXCEPT !.cursor = next, !.status = s]
  <2>1. Advanced(j) = [j EXCEPT !.cursor = next, !.status = IF next > Len(j.pairs) THEN "completed" ELSE j.status]
    BY DEF Advanced
  <2>2. (IF next > Len(j.pairs) THEN "completed" ELSE j.status) \in {"none", "pending", "completed"}
    BY <1>1 DEF JournalRecord
  <2> QED BY <2>1, <2>2
<1>5. Advanced(j) = [pairs |-> <<q>>, cursor |-> next, status |-> s]
  BY <1>1, <1>4 DEF JournalRecord
<1> HIDE DEF next
<1>6. Advanced(j) \in JournalRecord
  BY <1>1, <1>3, <1>5 DEF JournalRecord
<1> QED BY <1>1, <1>5, <1>6 DEF JournalIs

-----------------------------------------------------------------------------

LEMMA ApartIsNotJoined ==
  ASSUME Untouched(cards), NEW p \in PairRecord
  PROVE  ~JoinedPair(p)
<1>1. Stored = Both /\ \A e \in Both : cards[e].status # "archived"
  BY DEF Untouched, Stored
<1> QED BY <1>1 DEF JoinedPair, JoinedInto

LEMMA TogetherIsJoined ==
  ASSUME OneStands(cards), NEW p \in PairRecord
  PROVE  JoinedPair(p)
<1>1. PICK k \in Both, merged \in BOOLEAN : StandsFor(cards, k, merged)
  BY DEF OneStands
<1>2. 3 - k \in Both /\ Stored = Both /\ Stored \ {k} = {3 - k}
  BY <1>1 DEF StandsFor, Stored, Both
<1>3. 3 - k \notin cards[3 - k].merged /\ cards[3 - k].by = k /\ cards[3 - k].status = "archived"
  BY <1>1 DEF StandsFor
<1>4. JoinedInto(3 - k, k)
  BY <1>2, <1>3 DEF JoinedInto
<1>5. (p.l = 3 - k /\ p.r = k) \/ (p.r = 3 - k /\ p.l = k)
  BY DEF PairRecord, Both
<1> QED BY <1>4, <1>5 DEF JoinedPair

LEMMA NewPair ==
  ASSUME Untouched(cards)
  PROVE  /\ PairOf(1, 2) \in PairRecord /\ PairOf(1, 2).intent = NoIntent /\ PairOf(1, 2).undo = NoUndo
         /\ PairOf(1, 2).outcome = "none"
<1>1. Fingerprint(1) \in Card /\ Fingerprint(2) \in Card
  <2>1. ASSUME NEW e \in Both PROVE Fingerprint(e) \in Card
    <3>1. cards[e] \in Card /\ cards[e].edit = 0
      BY DEF Untouched
    <3> QED BY <3>1 DEF Fingerprint, Card
  <2> QED BY <2>1 DEF Both
<1>2. PairOf(1, 2) = [l |-> 1, r |-> 2, fl |-> Fingerprint(1), fr |-> Fingerprint(2), outcome |-> "none",
                      keep |-> None, attempts |-> 0, reviewed |-> FALSE, ai |-> FALSE, reopened |-> FALSE,
                      intent |-> NoIntent, undo |-> NoUndo]
  BY DEF PairOf
<1>3. NoUndo \in [has : BOOLEAN, data : [before : SmallPool, after : SmallPool], pending : BOOLEAN]
  BY DEF NoUndo, SmallPool
<1>4. PairOf(1, 2) \in PairRecord
  <2> DEFINE undos == [has : BOOLEAN, data : [before : SmallPool, after : SmallPool], pending : BOOLEAN]
             keeps == {None} \cup Both
             intents == Choice \cup {NoIntent}
  <2>1. NoUndo \in undos /\ None \in keeps /\ NoIntent \in intents
    BY <1>3
  <2>2. PairRecord = [l : {1}, r : {2}, fl : Card, fr : Card,
           outcome : {"none", "merged", "selected", "kept", "failed"}, keep : keeps, attempts : Nat,
           reviewed : BOOLEAN, ai : BOOLEAN, reopened : BOOLEAN, intent : intents, undo : undos]
    BY DEF PairRecord
  <2> HIDE DEF undos, keeps, intents
  <2>3. ASSUME NEW fl \in Card, NEW fr \in Card
        PROVE  [l |-> 1, r |-> 2, fl |-> fl, fr |-> fr, outcome |-> "none",
                keep |-> None, attempts |-> 0, reviewed |-> FALSE, ai |-> FALSE, reopened |-> FALSE,
                intent |-> NoIntent, undo |-> NoUndo]
               \in [l : {1}, r : {2}, fl : Card, fr : Card,
                   outcome : {"none", "merged", "selected", "kept", "failed"}, keep : keeps, attempts : Nat,
                   reviewed : BOOLEAN, ai : BOOLEAN, reopened : BOOLEAN, intent : intents, undo : undos]
    BY <2>1
  <2>4. [l |-> 1, r |-> 2, fl |-> Fingerprint(1), fr |-> Fingerprint(2), outcome |-> "none",
         keep |-> None, attempts |-> 0, reviewed |-> FALSE, ai |-> FALSE, reopened |-> FALSE,
         intent |-> NoIntent, undo |-> NoUndo] \in PairRecord
    BY <1>1, <2>2, <2>3, Zenon
  <2> QED BY <1>2, <2>4, Zenon
<1> QED BY <1>2, <1>4

\* Scanning two cards finds their one pair, while both are live and it is not skipped.
LEMMA ScanOfTwo ==
  ASSUME NEW skip, Untouched(cards) \/ OneStands(cards)
  PROVE  \/ Scan(skip) = <<>>
         \/ Scan(skip) = <<PairOf(1, 2)>> /\ <<1, 2>> \notin skip /\ Untouched(cards)
<1> DEFINE new == Proposed \ skip
           found == CHOOSE s \in SetToSeqs(new) : \A i, j \in DOMAIN s : i < j => Precedes(s[i], s[j])
<1>1. Stored = Both
  BY DEF Untouched, OneStands, StandsFor, Stored
<1>2. Proposed \subseteq {<<1, 2>>}
  BY <1>1 DEF Proposed, Live, Both
<1>3. Scan(skip) = [i \in 1..Len(found) |-> PairOf(found[i][1], found[i][2])]
  BY DEF Scan
<1>4. CASE new = {}
  <2>1. Cardinality(new) = 0
    BY <1>4, FS_EmptySet
  <2>2. SetToSeqs(new) = {<<>>}
    <3>1. SetToSeqs(new) = {f \in [1..0 -> {}] : \A i, j \in 1..0 : i # j => f[i] # f[j]}
      BY <1>4, <2>1 DEF SetToSeqs
    <3>2. ASSUME NEW f \in [1..0 -> {}] PROVE f = <<>>
      OBVIOUS
    <3>3. <<>> \in [1..0 -> {}]
      OBVIOUS
    <3> QED BY <3>1, <3>2, <3>3
  <2>3. \A i, j \in DOMAIN <<>> : i < j => Precedes(<<>>[i], <<>>[j])
    OBVIOUS
  <2>4. found = <<>>
    BY <2>2, <2>3
  <2>5. Scan(skip) = [i \in 1..0 |-> PairOf(<<>>[i][1], <<>>[i][2])]
    BY <1>3, <2>4
  <2> QED BY <2>5
<1>5. CASE new = {<<1, 2>>}
  <2>1. Cardinality(new) = 1
    BY <1>5, FS_Singleton
  <2>2. SetToSeqs(new) = {<< <<1, 2>> >>}
    <3>1. SetToSeqs(new) = {f \in [1..1 -> {<<1, 2>>}] : \A i, j \in 1..1 : i # j => f[i] # f[j]}
      BY <1>5, <2>1 DEF SetToSeqs
    <3>2. ASSUME NEW f \in [1..1 -> {<<1, 2>>}] PROVE f = << <<1, 2>> >>
      OBVIOUS
    <3>3. << <<1, 2>> >> \in [1..1 -> {<<1, 2>>}]
      OBVIOUS
    <3> QED BY <3>1, <3>2, <3>3
  <2>3. \A i, j \in DOMAIN << <<1, 2>> >> : ~(i < j)
    OBVIOUS
  <2>4. found = << <<1, 2>> >>
    BY <2>2, <2>3
  <2>5. Scan(skip) = <<PairOf(1, 2)>>
    <3> DEFINE one == << <<1, 2>> >>
    <3>1. Len(one) = 1 /\ one[1][1] = 1 /\ one[1][2] = 2
      OBVIOUS
    <3>2. Scan(skip) = [i \in 1..Len(one) |-> PairOf(one[i][1], one[i][2])]
      BY <1>3, <2>4
    <3> HIDE DEF one
    <3>3. Scan(skip) = [i \in 1..1 |-> PairOf(1, 2)]
      BY <3>1, <3>2
    <3> QED BY <3>3
  <2>6. <<1, 2>> \in Proposed /\ <<1, 2>> \notin skip
    BY <1>5
  <2>7. Live(1) /\ Live(2)
    BY <2>6 DEF Proposed
  <2>8. ~OneStands(cards)
    BY <2>7 DEF OneStands, StandsFor, Live, Both
  <2> QED BY <2>5, <2>6, <2>8
<1> QED BY <1>2, <1>4, <1>5

-----------------------------------------------------------------------------

\* A review of two untouched cards makes k stand for the other one, and changes them both.
LEMMA ReviewJoins ==
  ASSUME Untouched(cards), turns = 0, Both \subseteq CardId, NEW mode \in {"manual", "select", "auto"},
         NEW k \in Both, Reviewable(mode, k, 3 - k)
  PROVE  /\ StandsFor(Reviewed(mode, k, 3 - k), k, mode # "select")
         /\ \A e \in Both : Reviewed(mode, k, 3 - k)[e] # cards[e]
<1> DEFINE d == 3 - k
<1>1. d \in Both /\ d # k /\ Both = {k, d} /\ 3 - d = k /\ Stored = Both
  BY DEF Both, Untouched, Stored
<1>2. /\ cards \in [Both -> Card] /\ cards[k].edit = 0 /\ cards[d].edit = 0
      /\ cards[k].merged = {} /\ cards[d].merged = {} /\ cards[d].by \in {None, k}
  BY <1>1 DEF Untouched
<1>3. cards[k] \in Card /\ cards[d] \in Card
  BY <1>1, <1>2
<1>4. k \in CardId /\ d \in CardId /\ 1 \in 0..(MaxTurns + 1)
  BY <1>1, PoolAssumption
<1> HIDE DEF d
<1>5. CASE mode = "select"
  <2> DEFINE ck == [cards[k] EXCEPT !.edit = 1, !.status = "active", !.by = None]
             cd == [cards[d] EXCEPT !.edit = 1, !.status = "archived", !.by = k]
  <2>1. ck \in Card /\ ck.status = "active" /\ ck.merged = {} /\ ck.edit = 1
    BY <1>2, <1>3, <1>4 DEF Card, Status
  <2>2. cd \in Card /\ cd.status = "archived" /\ cd.merged = {} /\ cd.edit = 1 /\ cd.by = k
    BY <1>2, <1>3, <1>4 DEF Card, Status
  <2>3. Selected(k, d) = [cards EXCEPT ![k] = ck, ![d] = cd]
    <3>1. [Touched(cards[k]) EXCEPT !.status = "active", !.by = None] = ck
      BY <1>3 DEF Touched, Card
    <3>2. [Touched(cards[d]) EXCEPT !.status = "archived", !.by = IF cards[d].by = None THEN k ELSE cards[d].by] = cd
      <4>1. (IF cards[d].by = None THEN k ELSE cards[d].by) = k
        BY <1>2
      <4>2. Touched(cards[d]) = [cards[d] EXCEPT !.edit = 1]
        BY DEF Touched
      <4> QED BY <1>3, <4>1, <4>2 DEF Card
    <3> HIDE DEF ck, cd
    <3> QED BY <1>1, <1>2, <3>1, <3>2 DEF Selected
  <2> HIDE DEF ck, cd
  <2>4. /\ Selected(k, d) \in [Both -> Card] /\ Selected(k, d)[k] = ck /\ Selected(k, d)[d] = cd
    BY <1>1, <1>2, <2>1, <2>2, <2>3
  <2>5. Reviewed(mode, k, 3 - k) = Selected(k, d)
    BY <1>5 DEF Reviewed, d
  <2> QED BY <1>1, <1>2, <1>5, <2>1, <2>2, <2>4, <2>5 DEF StandsFor, d
<1>6. ASSUME NEW j, j \in [Both -> Card], j[k].status = "active", j[k].merged = {d}, j[k].edit = 1,
             j[d].status = "archived", j[d].by = k, j[d].merged = {}, j[d].edit = 1, mode # "select"
      PROVE  StandsFor(j, k, mode # "select") /\ \A e \in Both : j[e] # cards[e]
  BY <1>1, <1>2, <1>6 DEF StandsFor, d
<1> DEFINE jk == [cards[k] EXCEPT !.edit = 1, !.merged = {d}]
           jd == [cards[d] EXCEPT !.edit = 1, !.status = "archived", !.by = k]
<1>7. jk \in Card /\ jk.status = cards[k].status /\ jk.merged = {d} /\ jk.edit = 1
  BY <1>2, <1>3, <1>4 DEF Card, Status
<1>8. jd \in Card /\ jd.status = "archived" /\ jd.merged = {} /\ jd.edit = 1 /\ jd.by = k
  BY <1>2, <1>3, <1>4 DEF Card, Status
<1>9. Joined(k, d) = [cards EXCEPT ![k] = jk, ![d] = jd]
  BY <1>1, <1>2, <1>3 DEF Joined, Touched, Card
<1> HIDE DEF jk, jd
<1>10. Joined(k, d) \in [Both -> Card] /\ Joined(k, d)[k] = jk /\ Joined(k, d)[d] = jd
  BY <1>1, <1>2, <1>7, <1>8, <1>9
<1>11. CASE mode = "manual"
  <2>1. cards[k].status = "active"
    BY <1>11 DEF Reviewable, ManualMergeable, Active
  <2>2. Reviewed(mode, k, 3 - k) = ManualMerged(k, d)
    BY <1>11 DEF Reviewed, d
  <2>3. ManualMerged(k, d) = Joined(k, d)
    BY <1>1, <1>2, <1>8, <1>10 DEF ManualMerged, Card
  <2> QED BY <1>6, <1>7, <1>8, <1>10, <1>11, <2>1, <2>2, <2>3
<1>12. CASE mode = "auto"
  <2>1. cards[k].status = "active"
    BY <1>12 DEF Reviewable, AutoMergeable, Active
  <2>2. Reviewed(mode, k, 3 - k) = AutoMerged(k, d)
    BY <1>12 DEF Reviewed, d
  <2>3. AutoMerged(k, d)[d] = jd /\ DOMAIN AutoMerged(k, d) = Both
    BY <1>1, <1>10 DEF AutoMerged
  <2>4. \E sup, con \in SUBSET CardId :
          AutoMerged(k, d)[k] \in {jk, Touched([jk EXCEPT !.supersedes = sup, !.conflicts = con])}
    <3> DEFINE sup == jk.supersedes \cup cards[d].supersedes
               con == jk.conflicts \cup cards[d].conflicts
               linked == [jk EXCEPT !.supersedes = Redirect(sup, d, k, k), !.conflicts = Redirect(con, d, k, k)]
    <3>1. k \in Counted
      BY <1>1, <2>1 DEF Counted
    <3>2. AutoMerged(k, d)[k] = IF linked = jk THEN jk ELSE Touched(linked)
      BY <1>1, <1>10, <3>1 DEF AutoMerged
    <3>3. sup \in SUBSET CardId /\ con \in SUBSET CardId
      BY <1>3, <1>7 DEF Card
    <3>4. Redirect(sup, d, k, k) \in SUBSET CardId /\ Redirect(con, d, k, k) \in SUBSET CardId
      BY <1>4, <3>3 DEF Redirect
    <3> HIDE DEF sup, con
    <3> QED BY <3>2, <3>4
  <2>5. PICK sup \in SUBSET CardId, con \in SUBSET CardId :
          AutoMerged(k, d)[k] \in {jk, Touched([jk EXCEPT !.supersedes = sup, !.conflicts = con])}
    BY <2>4
  <2> DEFINE tk == Touched([jk EXCEPT !.supersedes = sup, !.conflicts = con])
  <2>6. tk \in Card /\ tk.status = jk.status /\ tk.merged = {d} /\ tk.edit = 1
    <3> DEFINE lk == [jk EXCEPT !.supersedes = sup, !.conflicts = con]
    <3>1. lk \in Card /\ lk.status = jk.status /\ lk.merged = {d}
      BY <1>7 DEF Card
    <3> HIDE DEF lk
    <3>2. Touched(lk) \in Card /\ Touched(lk).status = lk.status /\ Touched(lk).merged = lk.merged /\ Touched(lk).edit = 1
      BY <1>4, <3>1 DEF Touched, Card
    <3>3. tk = Touched(lk)
      BY DEF lk
    <3> QED BY <3>1, <3>2, <3>3
  <2> HIDE DEF tk
  <2>7. /\ AutoMerged(k, d)[k] \in Card /\ AutoMerged(k, d)[k].status = "active"
        /\ AutoMerged(k, d)[k].merged = {d} /\ AutoMerged(k, d)[k].edit = 1
    BY <1>7, <2>1, <2>5, <2>6 DEF tk
  <2>8. AutoMerged(k, d) \in [Both -> Card]
    <3>1. \A e \in Both : AutoMerged(k, d)[e] \in Card
      BY <1>1, <1>8, <2>3, <2>7
    <3>2. AutoMerged(k, d) = [e \in Both |-> AutoMerged(k, d)[e]]
      BY <1>1 DEF AutoMerged
    <3> QED BY <3>1, <3>2
  <2> QED BY <1>6, <1>8, <1>12, <2>2, <2>3, <2>7, <2>8
<1> QED BY <1>5, <1>11, <1>12

LEMMA InverseIsWhole ==
  ASSUME NEW after, Untouched(cards), OneStands(after), \A e \in Both : after[e] # cards[e]
  PROVE  InverseOf(after) = [before |-> cards, after |-> after]
<1>1. DOMAIN cards = Both /\ DOMAIN after = Both /\ Stored = Both
  BY DEF Untouched, OneStands, StandsFor, Stored
<1>2. {e \in Stored : after[e] # cards[e]} = Both
  BY <1>1
<1>3. Restrict(cards, Both) = cards /\ Restrict(after, Both) = after
  <2>1. cards = [e \in Both |-> cards[e]]
    BY DEF Untouched
  <2>2. after = [e \in Both |-> after[e]]
    BY DEF OneStands, StandsFor
  <2> QED BY <2>1, <2>2 DEF Restrict
<1> QED BY <1>2, <1>3 DEF InverseOf

LEMMA UndoneIsBefore ==
  ASSUME NEW u, OneStands(cards), Untouched(u.before)
  PROVE  Undone(u) = u.before
<1>1. Stored = Both
  BY DEF OneStands, StandsFor, Stored
<1>2. u.before = [e \in Both |-> u.before[e]] /\ DOMAIN u.before = Both
  BY DEF Untouched
<1> QED BY <1>1, <1>2 DEF Undone

\* Whether the records of an inverse are as they were.
LEMMA HoldsWhole ==
  ASSUME NEW r, r \in [Both -> Card], Untouched(cards) \/ OneStands(cards)
  PROVE  Holds(r) <=> cards = r
<1>1. cards \in [Both -> Card] /\ Stored = Both
  BY DEF Untouched, OneStands, StandsFor, Stored
<1>2. (\A e \in Both : cards[e] = r[e]) => cards = r
  BY <1>1
<1> QED BY <1>1, <1>2 DEF Holds

-----------------------------------------------------------------------------

LEMMA NobodyAtWork ==
  ASSUME NEW w, WorkOK(w, "free", TRUE), NEW c, NEW q, NEW a \in Actor
  PROVE  StepTrue(c, w, "free", q, a)
  BY DEF WorkOK, StepTrue, Held, Actor

LEMMA OneAtWork ==
  ASSUME NEW b \in Actor, NEW w, WorkOK(w, b, TRUE), NEW c, NEW q, NEW a \in Actor, a # b
  PROVE  StepTrue(c, w, b, q, a)
  BY DEF WorkOK, StepTrue, Held

LEMMA Takes ==
  ASSUME NEW some, NEW a \in Actor, WorkOK(work, lease, some), lease \in {"free", a}, NEW s \in WorkRecord,
         s.at = 1, a = "user" => s.pc # "model"
  PROVE  WorkOK([work EXCEPT ![a] = s], a, TRUE)
<1> DEFINE w == [work EXCEPT ![a] = s]
<1>1. w \in [Actor -> WorkRecord] /\ w[a] = s /\ \A b \in Actor : b # a => w[b] = work[b]
  BY DEF WorkOK
<1>2. "free" \notin Actor /\ "user" \in Actor
  BY DEF Actor
<1> HIDE DEF w
<1>3. w["user"].pc # "model"
  BY <1>1, <1>2 DEF WorkOK
<1>4. \A b \in Actor : w[b].pc \in Held => a = b
  BY <1>1, <1>2 DEF WorkOK
<1>5. \A b \in Actor : w[b].pc # "rest" /\ a = b => w[b].at = 1
  BY <1>1
<1>6. WorkOK(w, a, TRUE)
  BY <1>1, <1>3, <1>4, <1>5 DEF WorkOK
<1> QED BY <1>6 DEF w

LEMMA Frees ==
  ASSUME NEW a \in Actor, WorkOK(work, lease, TRUE), lease = a
  PROVE  WorkOK([work EXCEPT ![a] = Rest], "free", TRUE)
<1> DEFINE w == [work EXCEPT ![a] = Rest]
<1>1. Rest \in WorkRecord /\ Rest.pc = "rest" /\ "rest" \notin Held
  BY DEF Rest, WorkRecord, SmallPool, Held
<1>2. w \in [Actor -> WorkRecord] /\ w[a] = Rest /\ \A b \in Actor : b # a => w[b] = work[b]
  BY <1>1 DEF WorkOK
<1>3. "free" \notin Actor /\ "user" \in Actor
  BY DEF Actor
<1> HIDE DEF w
<1>4. w["user"].pc # "model"
  BY <1>1, <1>2, <1>3 DEF WorkOK
<1>5. \A b \in Actor : w[b].pc \notin Held
  BY <1>1, <1>2 DEF WorkOK
<1>6. WorkOK(w, "free", TRUE)
  BY <1>2, <1>3, <1>4, <1>5 DEF WorkOK
<1> QED BY <1>6 DEF w

LEMMA StepIs ==
  ASSUME NEW pc \in Held \cup {"rest", "model"}
  PROVE  Step(pc, 1) \in WorkRecord /\ Step(pc, 1).at = 1 /\ Step(pc, 1).pc = pc
  BY DEF Step, WorkRecord, SmallPool

LEMMA SameInverse ==
  ASSUME NEW c, NEW p, InverseTrue(c, p), NEW q, q.undo.data = p.undo.data, q.undo.has = p.undo.has
  PROVE  InverseTrue(c, q)
  BY DEF InverseTrue

LEMMA ApartPair ==
  ASSUME NEW c, NEW w, NEW ls, NEW q, Untouched(c), InverseTrue(c, q), ApartTrue(c, q),
         \A a \in Actor : StepTrue(c, w, ls, q, a)
  PROVE  PairTrue(c, w, ls, q)
  BY ApartOrTogether DEF PairTrue, TogetherTrue

LEMMA TogetherPair ==
  ASSUME NEW c, NEW w, NEW ls, NEW q, OneStands(c), InverseTrue(c, q), TogetherTrue(c, q),
         \A a \in Actor : StepTrue(c, w, ls, q, a)
  PROVE  PairTrue(c, w, ls, q)
  BY ApartOrTogether DEF PairTrue, ApartTrue

LEMMA FingerprintIs ==
  ASSUME Untouched(cards) \/ OneStands(cards), NEW e \in Both
  PROVE  Fingerprint(e) \in Card
<1>1. cards[e] \in Card
  BY DEF Untouched, OneStands, StandsFor
<1>2. 0 \in 0..(MaxTurns + 1)
  BY PoolAssumption
<1> QED BY <1>1, <1>2 DEF Fingerprint, Card

LEMMA OfferedIsApart ==
  ASSUME Untouched(cards) \/ OneStands(cards), NEW p \in PairRecord, ~JoinedPair(p)
  PROVE  Untouched(cards)
  BY TogetherIsJoined

\* What a step starts from: the pair's record and what is true of it.
Begins(p) ==
  /\ JournalIs(journal, p) /\ p \in PairRecord /\ PairTrue(cards, work, lease, p)
  /\ WorkOK(work, lease, TRUE)
  /\ Untouched(cards) \/ OneStands(cards)

LEMMA PairBegins ==
  ASSUME OnePair(journal, lease, work, cards), NEW i \in DOMAIN journal.pairs
  PROVE  i = 1 /\ Begins(Pair(1))
<1>1. i = 1 /\ journal.pairs # <<>> /\ JournalIs(journal, Pair(1)) /\ PairTrue(cards, work, lease, Pair(1))
  BY ThePair DEF Pair
<1>2. WorkOK(work, lease, TRUE)
  BY <1>1 DEF OnePair, WorkOK
<1> QED BY <1>1, <1>2 DEF Begins, JournalIs, OnePair

LEMMA ResolveTrue ==
  ASSUME OnePair(journal, lease, work, cards), NEW i, NEW mode \in {"manual", "select"}, NEW keep,
         Resolve(i, mode, keep)
  PROVE  OnePair(journal', lease', work', cards')
<1> DEFINE p == Pair(1)
           q == [p EXCEPT !.fl = Fingerprint(p.l), !.fr = Fingerprint(p.r),
                          !.intent = [mode |-> mode, keep |-> keep, actor |-> "user"]]
<1>1. i = 1 /\ Begins(p)
  BY PairBegins DEF Resolve
<1>2. /\ Offered(p) /\ keep \in {p.l, p.r} /\ journal' = [SetPair(1, q) EXCEPT !.status = "pending"]
      /\ lease = "free" /\ lease' = "user" /\ work' = [work EXCEPT !["user"] = Step("review", 1)] /\ cards' = cards
  BY <1>1 DEF Resolve
<1>3. Untouched(cards) /\ ~HandledPair(p)
  BY <1>1, <1>2, OfferedIsApart DEF Offered, HandledPair, Begins
<1>4. p \in PairRecord /\ InverseTrue(cards, p)
  BY <1>1 DEF Begins, PairTrue
<1> HIDE DEF p
<1>5. keep \in Both /\ p.l \in Both /\ p.r \in Both
  BY <1>2, <1>4 DEF PairRecord, Both
<1>6. /\ q \in PairRecord /\ q.intent # NoIntent /\ q.undo = p.undo /\ q.outcome = p.outcome
  <2>1. Fingerprint(p.l) \in Card /\ Fingerprint(p.r) \in Card
    BY <1>3, <1>5, FingerprintIs
  <2>2. [mode |-> mode, keep |-> keep, actor |-> "user"] \in Choice
    BY <1>5 DEF Choice, Actor
  <2>3. [mode |-> mode, keep |-> keep, actor |-> "user"] # NoIntent
    BY DEF NoIntent
  <2> QED BY <1>4, <2>1, <2>2, <2>3 DEF PairRecord
<1> HIDE DEF q
<1>7. JournalIs(journal', q)
  BY <1>1, <1>2, <1>6, SetPairIs, PendingIs DEF Begins
<1>8. WorkOK(work', "user", TRUE)
  BY <1>1, <1>2, Takes, StepIs DEF Begins, Actor, Held
<1>9. \A a \in Actor : StepTrue(cards, work', "user", q, a)
  <2>1. work'["user"].pc = "review"
    BY <1>1, <1>2, StepIs DEF Begins, WorkOK, Actor, Held
  <2>2. StepTrue(cards, work', "user", q, "user")
    BY <1>3, <1>6, <2>1 DEF StepTrue, HandledPair
  <2> QED BY <1>8, <2>2, OneAtWork DEF Actor
<1>10. PairTrue(cards, work', "user", q)
  <2>1. InverseTrue(cards, q)
    BY <1>4, <1>6, SameInverse
  <2>2. ApartTrue(cards, q)
    BY <1>6 DEF ApartTrue
  <2> QED BY <1>3, <1>9, <2>1, <2>2, ApartPair
<1> QED BY <1>2, <1>3, <1>7, <1>8, <1>10, OnePairAgain

LEMMA FreeAgain ==
  ASSUME NEW j, NEW q, JournalIs(j, q), NEW w, WorkOK(w, "free", TRUE), NEW c,
         Untouched(c) \/ OneStands(c), InverseTrue(c, q), TogetherTrue(c, q), ApartTrue(c, q)
  PROVE  OnePair(j, "free", w, c)
<1>1. PairTrue(c, w, "free", q)
  BY NobodyAtWork DEF PairTrue
<1> QED BY <1>1, OnePairAgain

LEMMA TakenAgain ==
  ASSUME NEW j, NEW q, JournalIs(j, q), NEW a \in Actor, NEW w, WorkOK(w, a, TRUE), NEW c,
         Untouched(c) \/ OneStands(c), InverseTrue(c, q), TogetherTrue(c, q), ApartTrue(c, q),
         StepTrue(c, w, a, q, a)
  PROVE  OnePair(j, a, w, c)
<1>1. PairTrue(c, w, a, q)
  BY OneAtWork DEF PairTrue
<1> QED BY <1>1, OnePairAgain

LEMMA NotTogether == ASSUME NEW c, Untouched(c), NEW q PROVE TogetherTrue(c, q)
  BY ApartOrTogether DEF TogetherTrue

LEMMA NotApart == ASSUME NEW c, OneStands(c), NEW q PROVE ApartTrue(c, q)
  BY ApartOrTogether DEF ApartTrue

LEMMA KeepBothTrue ==
  ASSUME OnePair(journal, lease, work, cards), NEW i, KeepBoth(i)
  PROVE  OnePair(journal', lease', work', cards')
<1> DEFINE p == Pair(1)
           q == [p EXCEPT !.outcome = "kept", !.keep = None, !.reviewed = TRUE,
                    !.reopened = FALSE, !.ai = FALSE, !.intent = NoIntent, !.undo = [NoUndo EXCEPT !.has = TRUE]]
<1>1. i = 1 /\ Begins(p)
  BY PairBegins DEF KeepBoth
<1>2. /\ Offered(p) /\ journal' = Advanced(SetPair(1, q)) /\ lease = "free" /\ lease' = lease
      /\ work' = work /\ cards' = cards
  BY <1>1 DEF KeepBoth
<1>3. Untouched(cards)
  BY <1>1, <1>2, OfferedIsApart DEF Offered, Begins
<1>4. p \in PairRecord
  BY <1>1 DEF Begins
<1> HIDE DEF p
<1>5. q \in PairRecord /\ q.undo.data = NoData /\ q.outcome = "kept"
  BY <1>4 DEF PairRecord, NoUndo, NoData, SmallPool, None
<1> HIDE DEF q
<1>6. JournalIs(journal', q)
  BY <1>1, <1>2, <1>5, SetPairIs, AdvancedIs DEF Begins
<1>7. InverseTrue(cards, q) /\ ApartTrue(cards, q)
  BY <1>5 DEF InverseTrue, ApartTrue, HandledPair
<1> QED BY <1>1, <1>2, <1>3, <1>6, <1>7, NotTogether, FreeAgain DEF Begins

LEMMA TakeOverTrue ==
  ASSUME OnePair(journal, lease, work, cards), NEW i, TakeOver(i)
  PROVE  OnePair(journal', lease', work', cards')
<1> DEFINE p == Pair(1)
           q == [p EXCEPT !.outcome = "kept", !.ai = FALSE, !.reviewed = FALSE, !.reopened = TRUE,
                          !.fl = Fingerprint(p.l), !.fr = Fingerprint(p.r)]
<1>1. i = 1 /\ Begins(p)
  BY PairBegins DEF TakeOver
<1>2. /\ ~JoinedPair(p) /\ journal' = SetPair(1, q) /\ lease = "free" /\ lease' = lease
      /\ work' = work /\ cards' = cards
  BY <1>1 DEF TakeOver
<1>3. Untouched(cards)
  BY <1>1, <1>2, OfferedIsApart DEF Begins
<1>4. p \in PairRecord /\ InverseTrue(cards, p)
  BY <1>1 DEF Begins, PairTrue
<1> HIDE DEF p
<1>5. q \in PairRecord /\ q.undo = p.undo /\ q.outcome = "kept"
  <2>1. Fingerprint(p.l) \in Card /\ Fingerprint(p.r) \in Card
    BY <1>3, <1>4, FingerprintIs DEF PairRecord, Both
  <2> QED BY <1>4, <2>1 DEF PairRecord
<1> HIDE DEF q
<1>6. JournalIs(journal', q)
  BY <1>1, <1>2, <1>5, SetPairIs DEF Begins
<1>7. InverseTrue(cards, q) /\ ApartTrue(cards, q)
  BY <1>4, <1>5, SameInverse DEF ApartTrue, HandledPair
<1> QED BY <1>1, <1>2, <1>3, <1>6, <1>7, NotTogether, FreeAgain DEF Begins

LEMMA BeginUndoTrue ==
  ASSUME OnePair(journal, lease, work, cards), NEW a \in Actor, NEW i, BeginUndo(a, i)
  PROVE  OnePair(journal', lease', work', cards')
<1> DEFINE p == Pair(1)
           q == [p EXCEPT !.undo.pending = TRUE]
<1>1. i = 1 /\ Begins(p)
  BY PairBegins DEF BeginUndo
<1>2. /\ journal' = SetPair(1, q) /\ lease = "free" /\ lease' = a
      /\ work' = [work EXCEPT ![a] = Step("restore", 1)] /\ cards' = cards
  BY <1>1 DEF BeginUndo
<1>3. /\ p \in PairRecord /\ InverseTrue(cards, p) /\ TogetherTrue(cards, p) /\ ApartTrue(cards, p)
      /\ Untouched(cards) \/ OneStands(cards)
  BY <1>1 DEF Begins, PairTrue
<1> HIDE DEF p
<1>4. /\ q \in PairRecord /\ q.undo.pending /\ q.undo.data = p.undo.data /\ q.undo.has = p.undo.has
      /\ q.intent = p.intent /\ q.outcome = p.outcome
  BY <1>3 DEF PairRecord
<1> HIDE DEF q
<1>5. JournalIs(journal', q)
  BY <1>1, <1>2, <1>4, SetPairIs DEF Begins
<1>6. WorkOK(work', a, TRUE) /\ work'[a].pc = "restore"
  BY <1>1, <1>2, Takes, StepIs DEF Begins, WorkOK, Held
<1>7. StepTrue(cards, work', a, q, a)
  BY <1>4, <1>6 DEF StepTrue
<1>8. InverseTrue(cards, q) /\ ApartTrue(cards, q) /\ TogetherTrue(cards, q)
  BY <1>3, <1>4, SameInverse DEF ApartTrue, HandledPair, TogetherTrue
<1> QED BY <1>2, <1>3, <1>5, <1>6, <1>7, <1>8, TakenAgain

\* What an actor at a step of its operation holds and works on.
LEMMA AtStep ==
  ASSUME OnePair(journal, lease, work, cards), NEW a \in Actor, work[a].pc \in Held
  PROVE  lease = a /\ work[a].at = 1 /\ Begins(Pair(1)) /\ StepTrue(cards, work, a, Pair(1), a)
<1>1. lease = a /\ work[a].at = 1 /\ journal.pairs # <<>>
  BY DEF OnePair, WorkOK, Held
<1>2. 1 \in DOMAIN journal.pairs
  <2>1. Len(journal.pairs) \in Nat \ {0} /\ DOMAIN journal.pairs = 1..Len(journal.pairs)
    BY <1>1, LenProperties, EmptySeq DEF OnePair, JournalRecord
  <2> QED BY <2>1
<1>3. Begins(Pair(1))
  BY <1>2, PairBegins
<1> QED BY <1>1, <1>3 DEF Begins, PairTrue

LEMMA OtherOfPair ==
  ASSUME NEW p \in PairRecord, NEW k \in Both
  PROVE  Other(p, k) = 3 - k /\ Other(p, k) \in Both
  BY DEF Other, PairRecord, Both

LEMMA IntentOf ==
  ASSUME NEW p \in PairRecord, p.intent # NoIntent
  PROVE  p.intent \in Choice /\ p.intent.keep \in Both /\ p.intent.mode \in {"manual", "select", "auto"}
  BY DEF PairRecord, Choice

LEMMA PrepareTrue ==
  ASSUME OnePair(journal, lease, work, cards), turns = 0, Both \subseteq CardId, NEW a \in Actor, Prepare(a)
  PROVE  OnePair(journal', lease', work', cards')
<1> DEFINE p == Pair(1)
           k == p.intent.keep
           after == Reviewed(p.intent.mode, k, Other(p, k))
<1>1. work[a].pc = "review" /\ "review" \in Held
  BY DEF Prepare, Held
<1>2. lease = a /\ work[a].at = 1 /\ Begins(p) /\ StepTrue(cards, work, a, p, a)
  BY <1>1, AtStep
<1>3. /\ cards' = cards
      /\ \/ /\ Fresh(p) /\ Reviewable(p.intent.mode, k, Other(p, k))
            /\ journal' = SetPair(1, [p EXCEPT !.undo = [has |-> TRUE, data |-> InverseOf(after), pending |-> FALSE]])
            /\ work' = [work EXCEPT ![a] = [Step("commit", 1) EXCEPT !.after = after]] /\ lease' = lease
         \/ /\ journal' = IF a = "user" THEN SetPair(1, [p EXCEPT !.intent = NoIntent])
                          ELSE Past(SetPair(1, [p EXCEPT !.intent = NoIntent, !.outcome = "kept"]))
            /\ Release(a)
  BY <1>2 DEF Prepare
<1>4. /\ p \in PairRecord /\ InverseTrue(cards, p) /\ WorkOK(work, lease, TRUE) /\ JournalIs(journal, p)
      /\ Untouched(cards) /\ p.intent # NoIntent /\ (a = "user" => ~HandledPair(p))
  BY <1>1, <1>2 DEF Begins, PairTrue, StepTrue
<1> HIDE DEF p
<1>5. p.intent \in Choice /\ k \in Both /\ p.intent.mode \in {"manual", "select", "auto"} /\ Other(p, k) = 3 - k
  BY <1>4, IntentOf, OtherOfPair
<1>6. CASE /\ Fresh(p) /\ Reviewable(p.intent.mode, k, Other(p, k))
           /\ journal' = SetPair(1, [p EXCEPT !.undo = [has |-> TRUE, data |-> InverseOf(after), pending |-> FALSE]])
           /\ work' = [work EXCEPT ![a] = [Step("commit", 1) EXCEPT !.after = after]] /\ lease' = lease
  <2> DEFINE q == [p EXCEPT !.undo = [has |-> TRUE, data |-> InverseOf(after), pending |-> FALSE]]
             s == [Step("commit", 1) EXCEPT !.after = after]
  <2>1. StandsFor(after, k, p.intent.mode # "select") /\ \A e \in Both : after[e] # cards[e]
    BY <1>4, <1>5, <1>6, ReviewJoins
  <2> HIDE DEF after
  <2>2. OneStands(after)
    BY <1>5, <2>1 DEF OneStands
  <2>3. InverseOf(after) = [before |-> cards, after |-> after]
    BY <1>4, <2>1, <2>2, InverseIsWhole
  <2>4. cards \in SmallPool /\ after \in SmallPool /\ cards # <<>>
    <3>1. cards \in [Both -> Card] /\ after \in [Both -> Card]
      BY <1>4, <2>2 DEF Untouched, OneStands, StandsFor
    <3>2. 1 \in DOMAIN cards
      BY <3>1 DEF Both
    <3> QED BY <3>1, <3>2 DEF SmallPool
  <2>5. /\ q \in PairRecord /\ q.undo.data = [before |-> cards, after |-> after] /\ q.undo.has
        /\ q.intent = p.intent
    <3> DEFINE u == [has |-> TRUE, data |-> InverseOf(after), pending |-> FALSE]
    <3>1. /\ u \in [has : BOOLEAN, data : [before : SmallPool, after : SmallPool], pending : BOOLEAN]
          /\ u.data = [before |-> cards, after |-> after] /\ u.has
      BY <2>3, <2>4
    <3> HIDE DEF u
    <3>2. [p EXCEPT !.undo = u] \in PairRecord /\ [p EXCEPT !.undo = u].undo = u /\ [p EXCEPT !.undo = u].intent = p.intent
      BY <1>4, <3>1 DEF PairRecord
    <3> QED BY <3>1, <3>2 DEF u
  <2>6. q.undo.data # NoData
    BY <2>4, <2>5 DEF NoData
  <2>7. s \in WorkRecord /\ s.at = 1 /\ s.pc = "commit" /\ s.after = after
    BY <2>4 DEF Step, WorkRecord, Held
  <2>8. journal' = SetPair(1, q) /\ work' = [work EXCEPT ![a] = s] /\ lease' = a
    BY <1>2, <1>6
  <2> HIDE DEF q, s
  <2>9. JournalIs(journal', q)
    BY <1>4, <2>5, <2>8, SetPairIs
  <2>10. WorkOK(work', a, TRUE) /\ work'[a] = s
    BY <1>2, <1>4, <2>7, <2>8, Takes DEF WorkOK
  <2>11. StepTrue(cards, work', a, q, a)
    BY <1>4, <2>1, <2>5, <2>6, <2>7, <2>10 DEF StepTrue
  <2>12. InverseTrue(cards, q) /\ ApartTrue(cards, q)
    BY <1>4, <2>2, <2>5 DEF InverseTrue, ApartTrue
  <2> QED BY <1>3, <1>4, <2>8, <2>9, <2>10, <2>11, <2>12, NotTogether, TakenAgain
<1>7. CASE /\ journal' = IF a = "user" THEN SetPair(1, [p EXCEPT !.intent = NoIntent])
                          ELSE Past(SetPair(1, [p EXCEPT !.intent = NoIntent, !.outcome = "kept"]))
           /\ Release(a)
  <2>1. work' = [work EXCEPT ![a] = Rest] /\ lease' = "free"
    BY <1>2, <1>7 DEF Release, Holding
  <2>2. WorkOK(work', "free", TRUE)
    BY <1>2, <1>4, <2>1, Frees
  <2>3. \E q \in PairRecord : JournalIs(journal', q) /\ q.undo = p.undo /\ ~HandledPair(q)
    <3>1. CASE a = "user"
      <4> DEFINE q == [p EXCEPT !.intent = NoIntent]
      <4>1. q \in PairRecord /\ q.undo = p.undo /\ q.outcome = p.outcome
        BY <1>4 DEF PairRecord
      <4>2. journal' = SetPair(1, q)
        BY <1>7, <3>1
      <4> HIDE DEF q
      <4>3. JournalIs(journal', q)
        BY <1>4, <4>1, <4>2, SetPairIs
      <4> QED BY <1>4, <3>1, <4>1, <4>3 DEF HandledPair
    <3>2. CASE a # "user"
      <4> DEFINE q == [p EXCEPT !.intent = NoIntent, !.outcome = "kept"]
      <4>1. q \in PairRecord /\ q.undo = p.undo /\ q.outcome = "kept"
        BY <1>4 DEF PairRecord
      <4>2. journal' = Past(SetPair(1, q))
        BY <1>7, <3>2
      <4> HIDE DEF q
      <4>3. JournalIs(journal', q)
        BY <1>4, <4>1, <4>2, SetPairIs, PastIs
      <4> QED BY <4>1, <4>3 DEF HandledPair
    <3> QED BY <3>1, <3>2
  <2>4. PICK q \in PairRecord : JournalIs(journal', q) /\ q.undo = p.undo /\ ~HandledPair(q)
    BY <2>3
  <2>5. InverseTrue(cards, q) /\ ApartTrue(cards, q)
    BY <1>4, <2>4, SameInverse DEF ApartTrue
  <2> QED BY <1>3, <1>4, <2>1, <2>2, <2>4, <2>5, NotTogether, FreeAgain
<1> QED BY <1>3, <1>6, <1>7

LEMMA CommitReviewTrue ==
  ASSUME OnePair(journal, lease, work, cards), NEW a \in Actor, CommitReview(a)
  PROVE  OnePair(journal', lease', work', cards')
<1> DEFINE p == Pair(1)
<1>1. work[a].pc = "commit" /\ "commit" \in Held
  BY DEF CommitReview, Held
<1>2. lease = a /\ work[a].at = 1 /\ Begins(p) /\ StepTrue(cards, work, a, p, a)
  BY <1>1, AtStep
<1>3. /\ journal' = journal
      /\ \/ cards' = work[a].after /\ work' = [work EXCEPT ![a] = Step("record", 1)] /\ lease' = lease
         \/ cards' = cards /\ Release(a)
  <2>1. [work EXCEPT ![a] = Step("record", @.at)] = [work EXCEPT ![a] = Step("record", 1)]
    BY <1>2
  <2> QED BY <2>1 DEF CommitReview
<1>4. /\ p \in PairRecord /\ InverseTrue(cards, p) /\ WorkOK(work, lease, TRUE) /\ JournalIs(journal, p)
      /\ Untouched(cards) /\ p.intent # NoIntent /\ p.undo.data # NoData
      /\ StandsFor(work[a].after, p.intent.keep, p.intent.mode # "select")
  BY <1>1, <1>2 DEF Begins, PairTrue, StepTrue
<1> HIDE DEF p
<1>5. OneStands(work[a].after)
  BY <1>4, IntentOf DEF OneStands
<1>6. CASE cards' = work[a].after /\ work' = [work EXCEPT ![a] = Step("record", 1)] /\ lease' = lease
  <2>1. OneStands(cards') /\ TogetherTrue(cards', p)
    BY <1>4, <1>5, <1>6 DEF TogetherTrue
  <2>2. InverseTrue(cards', p)
    BY <1>4, <2>1, ApartOrTogether DEF InverseTrue
  <2>3. WorkOK(work', a, TRUE) /\ work'[a].pc = "record"
    BY <1>2, <1>4, <1>6, Takes, StepIs DEF WorkOK, Held
  <2>4. StepTrue(cards', work', a, p, a)
    BY <1>4, <2>1, <2>3 DEF StepTrue
  <2> QED BY <1>2, <1>3, <1>4, <1>6, <2>1, <2>2, <2>3, <2>4, NotApart, TakenAgain
<1>7. CASE cards' = cards /\ Release(a)
  <2>1. work' = [work EXCEPT ![a] = Rest] /\ lease' = "free"
    BY <1>2, <1>7 DEF Release, Holding
  <2>2. WorkOK(work', "free", TRUE)
    BY <1>2, <1>4, <2>1, Frees
  <2>3. ApartTrue(cards, p)
    BY <1>4 DEF ApartTrue
  <2> QED BY <1>3, <1>4, <1>7, <2>1, <2>2, <2>3, NotTogether, FreeAgain
<1> QED BY <1>3, <1>6, <1>7

LEMMA RecordChoiceTrue ==
  ASSUME OnePair(journal, lease, work, cards), NEW a \in Actor, RecordChoice(a)
  PROVE  OnePair(journal', lease', work', cards')
<1> DEFINE p == Pair(1)
           q == [p EXCEPT !.intent = NoIntent, !.outcome = IF p.intent.mode = "select" THEN "selected" ELSE "merged",
                        !.keep = p.intent.keep, !.reviewed = (a = "user"), !.ai = (a = "worker"),
                        !.reopened = FALSE]
<1>1. work[a].pc = "record" /\ "record" \in Held
  BY DEF RecordChoice, Held
<1>2. lease = a /\ work[a].at = 1 /\ Begins(p) /\ StepTrue(cards, work, a, p, a)
  BY <1>1, AtStep
<1>3. /\ journal' = (IF a = "user" THEN Advanced(SetPair(1, q)) ELSE Past(SetPair(1, q))) /\ Release(a)
      /\ cards' = cards
  BY <1>2 DEF RecordChoice
<1>4. /\ p \in PairRecord /\ InverseTrue(cards, p) /\ TogetherTrue(cards, p) /\ WorkOK(work, lease, TRUE)
      /\ JournalIs(journal, p) /\ OneStands(cards) /\ p.intent # NoIntent
  BY <1>1, <1>2 DEF Begins, PairTrue, StepTrue
<1> HIDE DEF p
<1>5. q \in PairRecord /\ q.undo = p.undo /\ q.intent = NoIntent /\ HandledPair(q)
  <2>1. p.intent.keep \in Both
    BY <1>4, IntentOf
  <2> QED BY <1>4, <2>1 DEF PairRecord, HandledPair
<1> HIDE DEF q
<1>6. JournalIs(journal', q)
  BY <1>3, <1>4, <1>5, SetPairIs, AdvancedIs, PastIs
<1>7. work' = [work EXCEPT ![a] = Rest] /\ lease' = "free"
  BY <1>2, <1>3 DEF Release, Holding
<1>8. WorkOK(work', "free", TRUE)
  BY <1>2, <1>4, <1>7, Frees
<1>9. InverseTrue(cards, q) /\ TogetherTrue(cards, q)
  BY <1>4, <1>5, SameInverse DEF TogetherTrue
<1> QED BY <1>3, <1>4, <1>6, <1>7, <1>8, <1>9, NotApart, FreeAgain

LEMMA RecoveredIs ==
  ASSUME NEW p \in PairRecord, p.intent # NoIntent
  PROVE  RecoveredChoice(p) \in PairRecord
<1>1. p.intent.keep \in Both /\ p.intent.actor \in Actor
  BY IntentOf DEF Choice
<1>2. CASE CommittedIntent(p)
  <2>1. RecoveredChoice(p) =
          [p EXCEPT !.intent = NoIntent, !.outcome = IF p.intent.mode = "select" THEN "selected" ELSE "merged",
                    !.keep = p.intent.keep, !.reviewed = (p.intent.actor = "user"), !.ai = (p.intent.actor = "worker")]
    BY <1>2 DEF RecoveredChoice
  <2> QED BY <1>1, <2>1 DEF PairRecord
<1>3. CASE ~CommittedIntent(p)
  <2>1. RecoveredChoice(p) =
          [p EXCEPT !.intent = NoIntent, !.outcome = "kept", !.reviewed = FALSE, !.ai = FALSE,
                    !.keep = None, !.undo = NoUndo]
    BY <1>3 DEF RecoveredChoice
  <2>2. NoUndo \in [has : BOOLEAN, data : [before : SmallPool, after : SmallPool], pending : BOOLEAN]
    BY DEF NoUndo, SmallPool
  <2> QED BY <2>1, <2>2 DEF PairRecord
<1> QED BY <1>2, <1>3

\* A tick tells from the cards what has become of an intent.
LEMMA RecoverChoicesTrue ==
  ASSUME OnePair(journal, lease, work, cards), RecoverChoices
  PROVE  OnePair(journal', lease', work', cards')
<1> DEFINE p == Pair(1)
           q == RecoveredChoice(p)
<1>1. PICK i \in DOMAIN journal.pairs : Pair(i).intent # NoIntent
  BY DEF RecoverChoices
<1>2. i = 1 /\ Begins(p)
  BY PairBegins
<1>3. /\ p \in PairRecord /\ InverseTrue(cards, p) /\ TogetherTrue(cards, p) /\ WorkOK(work, lease, TRUE)
      /\ JournalIs(journal, p) /\ p.intent # NoIntent
      /\ Untouched(cards) \/ OneStands(cards)
  BY <1>1, <1>2 DEF Begins, PairTrue
<1>4. lease = "free" /\ lease' = lease /\ work' = work /\ cards' = cards
  BY DEF RecoverChoices
<1>5. JournalIs(journal', q)
  <2> DEFINE pairs == [n \in DOMAIN journal.pairs |-> RecoveredChoice(Pair(n))]
             open == {n \in DOMAIN pairs : pairs[n].outcome = "none" /\ ~pairs[n].reviewed}
             next == IF open = {} THEN Len(pairs) + 1 ELSE CHOOSE n \in open : \A m \in open : n <= m
  <2>1. journal' = [pairs |-> pairs, cursor |-> next, status |-> IF open = {} THEN "completed" ELSE "pending"]
    BY DEF RecoverChoices
  <2>2. DOMAIN journal.pairs = 1..1
    BY <1>3 DEF JournalIs
  <2>3. pairs = <<q>>
    BY <2>2
  <2>4. open \in SUBSET {1} /\ Len(pairs) = 1
    BY <2>2, <2>3
  <2> HIDE DEF open, pairs
  <2>5. next \in {1, 2}
    BY <2>4, FirstOpen
  <2> HIDE DEF next
  <2>6. q \in PairRecord
    BY <1>3, RecoveredIs
  <2> HIDE DEF q
  <2> QED BY <2>1, <2>3, <2>5, <2>6 DEF JournalIs, JournalRecord
<1>6. CASE Untouched(cards)
  <2>1. ~CommittedIntent(p)
    <3>1. \A o \in Stored : cards[o].status # "archived"
      BY <1>6 DEF Untouched, Stored
    <3> QED BY <3>1 DEF CommittedIntent
  <2> HIDE DEF p
  <2>2. q = [p EXCEPT !.intent = NoIntent, !.outcome = "kept", !.reviewed = FALSE, !.ai = FALSE,
                      !.keep = None, !.undo = NoUndo]
    BY <1>3, <2>1 DEF RecoveredChoice
  <2>3. q.undo = NoUndo /\ q.outcome = "kept"
    BY <1>3, <2>2 DEF PairRecord
  <2>4. InverseTrue(cards, q) /\ ApartTrue(cards, q)
    BY <2>3 DEF InverseTrue, ApartTrue, HandledPair, NoUndo, NoData
  <2> QED BY <1>3, <1>4, <1>5, <1>6, <2>4, NotTogether, FreeAgain
<1>7. CASE OneStands(cards)
  <2> HIDE DEF p
  <2> DEFINE k == p.intent.keep
  <2>1. p.intent \in Choice /\ k \in Both /\ Other(p, k) = 3 - k
    BY <1>3, IntentOf, OtherOfPair
  <2>2. StandsFor(cards, k, p.intent.mode # "select")
    BY <1>3, <1>7 DEF TogetherTrue
  <2>3. k \in Stored /\ 3 - k \in Stored /\ cards[k].status = "active" /\ cards[3 - k].status = "archived" /\ cards[3 - k].by = k
    BY <2>1, <2>2 DEF StandsFor, Stored, Both
  <2>4. (3 - k \in cards[k].merged) <=> (p.intent.mode # "select")
    BY <2>2 DEF StandsFor
  <2>5. CommittedIntent(p)
    BY <2>1, <2>3, <2>4 DEF CommittedIntent, Active
  <2>6. q = [p EXCEPT !.intent = NoIntent, !.outcome = IF p.intent.mode = "select" THEN "selected" ELSE "merged",
                      !.keep = p.intent.keep, !.reviewed = (p.intent.actor = "user"), !.ai = (p.intent.actor = "worker")]
    BY <1>3, <2>5 DEF RecoveredChoice
  <2>7. q.undo = p.undo /\ q.intent = NoIntent /\ HandledPair(q)
    BY <1>3, <2>6 DEF PairRecord, HandledPair
  <2>8. InverseTrue(cards, q) /\ TogetherTrue(cards, q)
    BY <1>3, <2>7, SameInverse DEF TogetherTrue
  <2> QED BY <1>3, <1>4, <1>5, <1>7, <2>8, NotApart, FreeAgain
<1> QED BY <1>3, <1>6, <1>7

LEMMA NobodyYet ==
  ASSUME NEW w, NEW ls, WorkOK(w, ls, FALSE)
  PROVE  WorkOK(w, ls, TRUE) /\ \A c, q : \A a \in Actor : StepTrue(c, w, ls, q, a)
  BY DEF WorkOK, StepTrue, Held

LEMMA NewPairTrue ==
  ASSUME Untouched(cards)
  PROVE  /\ PairOf(1, 2) \in PairRecord /\ InverseTrue(cards, PairOf(1, 2)) /\ TogetherTrue(cards, PairOf(1, 2))
         /\ ApartTrue(cards, PairOf(1, 2))
<1>1. PairOf(1, 2) \in PairRecord /\ PairOf(1, 2).undo = NoUndo /\ PairOf(1, 2).outcome = "none"
  BY NewPair
<1>2. InverseTrue(cards, PairOf(1, 2)) /\ ApartTrue(cards, PairOf(1, 2))
  BY <1>1 DEF InverseTrue, ApartTrue, HandledPair, NoUndo, NoData
<1> QED BY <1>1, <1>2, NotTogether

\* A journal that has no pair, before or after.
LEMMA EmptyAgain ==
  ASSUME NEW j \in JournalRecord, j.pairs = <<>>, NEW ls, NEW w, WorkOK(w, ls, FALSE), NEW c, Untouched(c)
  PROVE  OnePair(j, ls, w, c)
<1>1. Len(j.pairs) <= 1 /\ ~(j.pairs # <<>>)
  OBVIOUS
<1>2. WorkOK(w, ls, j.pairs # <<>>)
  BY <1>1 DEF WorkOK
<1> QED BY <1>1, <1>2 DEF OnePair

LEMMA FirstScanTrue ==
  ASSUME OnePair(journal, lease, work, cards), FirstScan
  PROVE  OnePair(journal', lease', work', cards')
<1>1. journal.pairs = <<>> /\ Untouched(cards) /\ WorkOK(work, lease, FALSE)
  BY DEF FirstScan, NoJournal, OnePair
<1>2. journal' = [pairs |-> Scan({}), cursor |-> 1, status |-> "pending"] /\ lease' = lease /\ work' = work /\ cards' = cards
  BY DEF FirstScan
<1>3. CASE Scan({}) = <<>>
  <2>1. journal' = [pairs |-> <<>>, cursor |-> 1, status |-> "pending"] /\ <<>> \in Seq(PairRecord)
    BY <1>2, <1>3
  <2>2. journal' \in JournalRecord /\ journal'.pairs = <<>>
    BY <2>1 DEF JournalRecord
  <2> QED BY <1>1, <1>2, <2>2, EmptyAgain
<1>4. CASE Scan({}) = <<PairOf(1, 2)>>
  <2>1. JournalIs(journal', PairOf(1, 2))
    <3>1. PairOf(1, 2) \in PairRecord
      BY <1>1, NewPairTrue
    <3>2. journal' = [pairs |-> <<PairOf(1, 2)>>, cursor |-> 1, status |-> "pending"]
      BY <1>2, <1>4
    <3> QED BY <3>1, <3>2 DEF JournalIs, JournalRecord
  <2>2. PairTrue(cards, work, lease, PairOf(1, 2)) /\ WorkOK(work, lease, TRUE)
    BY <1>1, NobodyYet, NewPairTrue DEF PairTrue
  <2> QED BY <1>1, <1>2, <2>1, <2>2, OnePairAgain
<1> QED BY <1>1, <1>3, <1>4, ScanOfTwo

LEMMA NoneOrOne ==
  ASSUME OnePair(journal, lease, work, cards)
  PROVE  \/ journal.pairs = <<>> /\ Untouched(cards) /\ WorkOK(work, lease, FALSE)
         \/ journal.pairs = <<Pair(1)>> /\ DOMAIN journal.pairs = {1} /\ Begins(Pair(1))
<1>1. CASE journal.pairs = <<>>
  BY <1>1 DEF OnePair
<1>2. CASE journal.pairs # <<>>
  <2>1. Len(journal.pairs) \in Nat \ {0} /\ DOMAIN journal.pairs = 1..Len(journal.pairs)
    BY <1>2, LenProperties, EmptySeq DEF OnePair, JournalRecord
  <2>2. Begins(Pair(1))
    BY <2>1, PairBegins
  <2>3. journal.pairs = <<Pair(1)>>
    BY <2>2 DEF Begins, JournalIs
  <2>4. DOMAIN journal.pairs = {1}
    BY <2>3
  <2> QED BY <2>2, <2>3, <2>4
<1> QED BY <1>1, <1>2

LEMMA ScanAdditionsTrue ==
  ASSUME OnePair(journal, lease, work, cards), ScanAdditions
  PROVE  OnePair(journal', lease', work', cards')
<1> DEFINE new == Scan(Range2(journal.pairs))
<1>1. /\ new # <<>> /\ journal' = [journal EXCEPT !.pairs = journal.pairs \o new, !.status = "pending"]
      /\ lease' = lease /\ work' = work /\ cards' = cards
  BY DEF ScanAdditions
<1>2. new = <<PairOf(1, 2)>> /\ <<1, 2>> \notin Range2(journal.pairs) /\ Untouched(cards)
  BY <1>1, ScanOfTwo DEF OnePair
<1>3. journal.pairs # <<Pair(1)>> \/ ~Begins(Pair(1))
  <2>1. ASSUME journal.pairs = <<Pair(1)>>, Begins(Pair(1)) PROVE FALSE
    <3>1. Ids(Pair(1)) = <<1, 2>>
      BY <2>1 DEF Begins, PairRecord, Ids
    <3>2. 1 \in DOMAIN journal.pairs /\ journal.pairs[1] = Pair(1)
      BY <2>1
    <3> QED BY <1>2, <3>1, <3>2 DEF Range2
  <2> QED BY <2>1
<1>4. journal.pairs = <<>> /\ WorkOK(work, lease, FALSE)
  BY <1>3, NoneOrOne
<1>5. journal.pairs \o new = <<PairOf(1, 2)>>
  BY <1>2, <1>4
<1> HIDE DEF new
<1>6. JournalIs(journal', PairOf(1, 2))
  <2>1. journal \in JournalRecord /\ PairOf(1, 2) \in PairRecord
    BY <1>2, NewPairTrue DEF OnePair
  <2>2. journal' = [pairs |-> <<PairOf(1, 2)>>, cursor |-> journal.cursor, status |-> "pending"]
    BY <1>1, <1>5, <2>1 DEF JournalRecord
  <2> QED BY <2>1, <2>2 DEF JournalIs, JournalRecord
<1>7. PairTrue(cards, work, lease, PairOf(1, 2)) /\ WorkOK(work, lease, TRUE)
  BY <1>2, <1>4, NobodyYet, NewPairTrue DEF PairTrue
<1> QED BY <1>1, <1>2, <1>6, <1>7, OnePairAgain

LEMMA KeepsNone ==
  ASSUME NEW S, S = {}
  PROVE  [n \in 1..Cardinality(S) |-> Pair(CHOOSE i \in S : Cardinality({j \in S : j <= i}) = n)] = <<>>
<1> DEFINE kept == [n \in 1..Cardinality(S) |-> Pair(CHOOSE i \in S : Cardinality({j \in S : j <= i}) = n)]
<1>1. Cardinality(S) = 0
  BY FS_EmptySet
<1>2. kept \in [1..0 -> {kept[n] : n \in 1..0}]
  BY <1>1
<1> HIDE DEF kept
<1>3. kept = <<>>
  BY <1>2
<1> QED BY <1>3 DEF kept

LEMMA KeepsOne ==
  ASSUME NEW S, S = {1}
  PROVE  [n \in 1..Cardinality(S) |-> Pair(CHOOSE i \in S : Cardinality({j \in S : j <= i}) = n)] = <<Pair(1)>>
<1> DEFINE at(n) == CHOOSE i \in S : Cardinality({j \in S : j <= i}) = n
<1>1. Cardinality(S) = 1 /\ {j \in S : j <= 1} = S
  BY FS_Singleton
<1>2. at(1) = 1
  BY <1>1
<1> HIDE DEF at
<1>3. [n \in 1..Cardinality(S) |-> Pair(at(n))] = <<Pair(1)>>
  <2>1. [n \in 1..Cardinality(S) |-> Pair(at(n))] = [n \in 1..1 |-> Pair(at(n))]
    BY <1>1
  <2>2. [n \in 1..1 |-> Pair(at(n))] = <<Pair(at(1))>>
    OBVIOUS
  <2> QED BY <1>2, <2>1, <2>2
<1> QED BY <1>3 DEF at

\* A new scan keeps the pair that is joined, since it holds the inverse.
LEMMA RescanTrue ==
  ASSUME OnePair(journal, lease, work, cards), Rescan
  PROVE  OnePair(journal', lease', work', cards')
<1> DEFINE found == Scan({})
           keeps == {i \in DOMAIN journal.pairs : Pair(i).undo.has /\ Ids(Pair(i)) \notin Range2(found)}
           kept == [n \in 1..Cardinality(keeps) |-> Pair(CHOOSE i \in keeps : Cardinality({j \in keeps : j <= i}) = n)]
           pairs == found \o kept
<1>1. /\ journal' = [pairs |-> pairs, cursor |-> 1, status |-> IF pairs = <<>> THEN "completed" ELSE "pending"]
      /\ lease = "free" /\ lease' = lease /\ work' = work /\ cards' = cards
  BY DEF Rescan
<1>2. DOMAIN journal.pairs \subseteq {1} /\ keeps \subseteq {1}
  <2>1. journal.pairs = <<>> => DOMAIN journal.pairs = {}
    OBVIOUS
  <2>2. DOMAIN journal.pairs \subseteq {1}
    BY <2>1, NoneOrOne
  <2> QED BY <2>2
<1>3. WorkOK(work, "free", FALSE) /\ WorkOK(work, "free", TRUE)
  BY <1>1 DEF OnePair, WorkOK, Actor
<1>4. keeps = {} => kept = <<>>
  <2> HIDE DEF keeps
  <2> QED BY KeepsNone
<1>5. keeps = {1} => kept = <<Pair(1)>>
  <2> HIDE DEF keeps
  <2> QED BY KeepsOne
<1>6. CASE found = <<PairOf(1, 2)>> /\ Untouched(cards)
  <2>1. keeps = {}
    <3>1. \A i \in DOMAIN journal.pairs : Ids(Pair(i)) = <<1, 2>>
      <4>1. ASSUME NEW i \in DOMAIN journal.pairs PROVE Ids(Pair(i)) = <<1, 2>>
        <5>1. i = 1 /\ Pair(1) \in PairRecord
          BY PairBegins DEF Begins
        <5> QED BY <5>1 DEF PairRecord, Ids
      <4> QED BY <4>1
    <3>2. Range2(found) = {<<1, 2>>}
      <4>1. PairOf(1, 2).l = 1 /\ PairOf(1, 2).r = 2
        BY DEF PairOf
      <4>2. Ids(PairOf(1, 2)) = <<1, 2>>
        BY <4>1 DEF Ids
      <4>3. DOMAIN <<PairOf(1, 2)>> = {1}
        OBVIOUS
      <4> QED BY <1>6, <4>2, <4>3 DEF Range2
    <3> QED BY <3>1, <3>2
  <2>2. pairs = <<PairOf(1, 2)>> /\ pairs # <<>>
    <3> HIDE DEF found, keeps, kept
    <3> QED BY <1>4, <1>6, <2>1
  <2> HIDE DEF pairs
  <2>3. JournalIs(journal', PairOf(1, 2))
    <3>1. PairOf(1, 2) \in PairRecord
      BY <1>6, NewPairTrue
    <3>2. journal' = [pairs |-> <<PairOf(1, 2)>>, cursor |-> 1, status |-> "pending"]
      BY <1>1, <2>2
    <3> QED BY <3>1, <3>2 DEF JournalIs, JournalRecord
  <2> QED BY <1>1, <1>3, <1>6, <2>3, NewPairTrue, FreeAgain
<1>7. CASE found = <<>> /\ keeps = {}
  <2>1. pairs = <<>>
    <3> HIDE DEF found, keeps, kept
    <3> QED BY <1>4, <1>7
  <2>2. Untouched(cards)
    <3>1. ASSUME OneStands(cards) PROVE FALSE
      <4>1. ~Untouched(cards)
        BY <3>1, ApartOrTogether
      <4>2. DOMAIN journal.pairs = {1} /\ Begins(Pair(1))
        BY <4>1, NoneOrOne
      <4>3. Pair(1).undo.has
        BY <3>1, <4>2 DEF Begins, PairTrue, TogetherTrue, InverseTrue
      <4>4. Range2(found) = {}
        <5> HIDE DEF found
        <5> QED BY <1>7 DEF Range2
      <4> QED BY <1>7, <4>2, <4>3, <4>4
    <3> QED BY <3>1 DEF OnePair
  <2>3. journal' \in JournalRecord /\ journal'.pairs = <<>>
    <3>1. <<>> \in Seq(PairRecord)
      OBVIOUS
    <3>2. journal' = [pairs |-> <<>>, cursor |-> 1, status |-> "completed"]
      BY <1>1, <2>1
    <3> QED BY <3>1, <3>2 DEF JournalRecord
  <2> QED BY <1>1, <1>3, <2>2, <2>3, EmptyAgain
<1>8. CASE found = <<>> /\ keeps = {1}
  <2>1. pairs = <<Pair(1)>> /\ pairs # <<>>
    <3> HIDE DEF found, keeps, kept
    <3> QED BY <1>5, <1>8
  <2>2. Begins(Pair(1))
    <3>1. 1 \in DOMAIN journal.pairs
      BY <1>8
    <3> QED BY <3>1, PairBegins
  <2>3. Pair(1) \in PairRecord
    BY <2>2 DEF Begins
  <2> HIDE DEF pairs
  <2>4. JournalIs(journal', Pair(1))
    <3> DEFINE p == Pair(1)
    <3>1. journal' = [pairs |-> <<p>>, cursor |-> 1, status |-> "pending"] /\ p \in PairRecord
      BY <1>1, <2>1, <2>3
    <3> HIDE DEF p
    <3>2. JournalIs(journal', p)
      BY <3>1 DEF JournalIs, JournalRecord
    <3> QED BY <3>2 DEF p
  <2> QED BY <1>1, <1>3, <2>2, <2>4, FreeAgain DEF Begins, PairTrue
<1> HIDE DEF keeps
<1>9. keeps = {} \/ keeps = {1}
  BY <1>2
<1> QED BY <1>6, <1>7, <1>8, <1>9, ScanOfTwo DEF OnePair

LEMMA RestoreCardsTrue ==
  ASSUME OnePair(journal, lease, work, cards), NEW a \in Actor, RestoreCards(a)
  PROVE  OnePair(journal', lease', work', cards')
<1> DEFINE p == Pair(1)
           u == p.undo.data
<1>1. work[a].pc = "restore" /\ "restore" \in Held
  BY DEF RestoreCards, Held
<1>2. lease = a /\ work[a].at = 1 /\ Begins(p) /\ StepTrue(cards, work, a, p, a)
  BY <1>1, AtStep
<1>3. \/ /\ Holds(u.before) /\ cards' = cards
         /\ work' = [work EXCEPT ![a] = Step("reopen", 1)] /\ journal' = journal /\ lease' = lease
      \/ /\ ~Holds(u.before) /\ Holds(u.after) /\ cards' = Undone(u)
         /\ work' = [work EXCEPT ![a] = Step("reopen", 1)] /\ journal' = journal /\ lease' = lease
      \/ /\ ~Holds(u.before) /\ journal' = SetPair(1, [p EXCEPT !.undo.pending = FALSE])
         /\ Release(a) /\ cards' = cards
  BY <1>2 DEF RestoreCards
<1>4. /\ p \in PairRecord /\ InverseTrue(cards, p) /\ TogetherTrue(cards, p) /\ WorkOK(work, lease, TRUE)
      /\ JournalIs(journal, p) /\ p.undo.pending
      /\ Untouched(cards) \/ OneStands(cards)
  BY <1>1, <1>2 DEF Begins, PairTrue, StepTrue
<1> HIDE DEF p
<1>5. Holds(u.before) => Untouched(cards)
  <2>1. CASE u = NoData
    BY <1>4, <2>1 DEF TogetherTrue
  <2>2. CASE u # NoData
    <3>1. Untouched(u.before)
      BY <1>4, <2>2 DEF InverseTrue
    <3>2. Holds(u.before) <=> cards = u.before
      BY <1>4, <3>1, HoldsWhole DEF Untouched
    <3> QED BY <3>1, <3>2
  <2> QED BY <2>1, <2>2
<1>6. ~Holds(u.before) => u # NoData /\ OneStands(cards) /\ Untouched(u.before)
  <2>1. u = NoData => Holds(u.before)
    <3>1. ASSUME u = NoData PROVE Holds(u.before)
      <4>1. DOMAIN u.before = {}
        BY <3>1 DEF NoData
      <4> QED BY <4>1 DEF Holds
    <3> QED BY <3>1
  <2>2. ASSUME u # NoData, ~Holds(u.before) PROVE OneStands(cards) /\ Untouched(u.before)
    <3>1. Untouched(u.before) /\ (Untouched(cards) => u.before = cards)
      BY <1>4, <2>2 DEF InverseTrue
    <3>2. Holds(u.before) <=> cards = u.before
      BY <1>4, <3>1, HoldsWhole DEF Untouched
    <3> QED BY <1>4, <2>2, <3>1, <3>2
  <2> QED BY <2>1, <2>2
<1> HIDE DEF u
<1>7. ASSUME NEW c, Untouched(c), InverseTrue(c, p),
             cards' = c, work' = [work EXCEPT ![a] = Step("reopen", 1)], journal' = journal, lease' = lease
      PROVE  OnePair(journal', lease', work', cards')
  <2>1. WorkOK(work', a, TRUE) /\ work'[a].pc = "reopen"
    BY <1>2, <1>4, <1>7, Takes, StepIs DEF WorkOK, Held
  <2>2. StepTrue(c, work', a, p, a)
    BY <1>4, <1>7, <2>1 DEF StepTrue
  <2>3. ApartTrue(c, p)
    BY <1>4 DEF ApartTrue
  <2> QED BY <1>2, <1>4, <1>7, <2>1, <2>2, <2>3, NotTogether, TakenAgain
<1>8. CASE /\ Holds(u.before) /\ cards' = cards
           /\ work' = [work EXCEPT ![a] = Step("reopen", 1)] /\ journal' = journal /\ lease' = lease
  BY <1>4, <1>5, <1>7, <1>8
<1>9. CASE /\ ~Holds(u.before) /\ Holds(u.after) /\ cards' = Undone(u)
           /\ work' = [work EXCEPT ![a] = Step("reopen", 1)] /\ journal' = journal /\ lease' = lease
  <2>1. cards' = u.before /\ Untouched(u.before)
    BY <1>6, <1>9, UndoneIsBefore
  <2>2. InverseTrue(u.before, p)
    BY <1>4, <1>6, <1>9 DEF InverseTrue, u
  <2> QED BY <1>7, <1>9, <2>1, <2>2
<1>10. CASE /\ ~Holds(u.before) /\ journal' = SetPair(1, [p EXCEPT !.undo.pending = FALSE])
            /\ Release(a) /\ cards' = cards
  <2> DEFINE q == [p EXCEPT !.undo.pending = FALSE]
  <2>1. q \in PairRecord /\ q.undo.data = p.undo.data /\ q.undo.has = p.undo.has /\ q.intent = p.intent /\ q.outcome = p.outcome
    BY <1>4 DEF PairRecord
  <2>2. journal' = SetPair(1, q) /\ OneStands(cards)
    BY <1>6, <1>10
  <2> HIDE DEF q
  <2>3. JournalIs(journal', q)
    BY <1>4, <2>1, <2>2, SetPairIs
  <2>4. work' = [work EXCEPT ![a] = Rest] /\ lease' = "free"
    BY <1>2, <1>10 DEF Release, Holding
  <2>5. WorkOK(work', "free", TRUE)
    BY <1>2, <1>4, <2>4, Frees
  <2>6. InverseTrue(cards, q) /\ TogetherTrue(cards, q)
    BY <1>4, <2>1, SameInverse DEF TogetherTrue, HandledPair
  <2> QED BY <1>10, <2>2, <2>3, <2>4, <2>5, <2>6, NotApart, FreeAgain
<1> QED BY <1>3, <1>8, <1>9, <1>10

LEMMA ReopenTrue ==
  ASSUME OnePair(journal, lease, work, cards), NEW a \in Actor, Reopen(a)
  PROVE  OnePair(journal', lease', work', cards')
<1> DEFINE p == Pair(1)
           q == [p EXCEPT !.outcome = "kept", !.reviewed = FALSE, !.ai = FALSE,
                          !.reopened = TRUE, !.intent = NoIntent, !.undo = NoUndo]
<1>1. work[a].pc = "reopen" /\ "reopen" \in Held
  BY DEF Reopen, Held
<1>2. lease = a /\ work[a].at = 1 /\ Begins(p) /\ StepTrue(cards, work, a, p, a)
  BY <1>1, AtStep
<1>3. journal' = SetPair(1, q) /\ Release(a) /\ cards' = cards
  BY <1>2 DEF Reopen
<1>4. p \in PairRecord /\ WorkOK(work, lease, TRUE) /\ JournalIs(journal, p) /\ Untouched(cards)
  BY <1>1, <1>2 DEF Begins, StepTrue
<1> HIDE DEF p
<1>5. q \in PairRecord /\ q.undo = NoUndo /\ q.outcome = "kept"
  BY <1>4 DEF PairRecord, NoUndo, SmallPool
<1> HIDE DEF q
<1>6. JournalIs(journal', q)
  BY <1>3, <1>4, <1>5, SetPairIs
<1>7. work' = [work EXCEPT ![a] = Rest] /\ lease' = "free"
  BY <1>2, <1>3 DEF Release, Holding
<1>8. WorkOK(work', "free", TRUE)
  BY <1>2, <1>4, <1>7, Frees
<1>9. InverseTrue(cards, q) /\ ApartTrue(cards, q)
  BY <1>5 DEF InverseTrue, ApartTrue, HandledPair, NoUndo, NoData
<1> QED BY <1>3, <1>4, <1>6, <1>7, <1>8, <1>9, NotTogether, FreeAgain

\* The journal moves on; its pair, if there is one, and all else is as it was.
LEMMA MovesOn ==
  ASSUME OnePair(journal, lease, work, cards), NEW j \in JournalRecord, j.pairs = journal.pairs
  PROVE  OnePair(j, lease, work, cards)
  BY DEF OnePair

LEMMA CompareTrue ==
  ASSUME OnePair(journal, lease, work, cards), Compare
  PROVE  OnePair(journal', lease', work', cards')
<1>1. journal \in JournalRecord /\ cards' = cards /\ lease = "free"
  BY DEF Compare, OnePair
<1>2. CASE journal.cursor > Len(journal.pairs)
  <2>1. journal' = [journal EXCEPT !.status = "completed"] /\ lease' = lease /\ work' = work
    BY <1>2 DEF Compare
  <2>2. journal' \in JournalRecord /\ journal'.pairs = journal.pairs
    BY <1>1, <2>1 DEF JournalRecord
  <2> QED BY <1>1, <2>1, <2>2, MovesOn
<1>3. CASE ~(journal.cursor > Len(journal.pairs))
  <2>1. journal.cursor \in DOMAIN journal.pairs
    <3>1. journal.cursor \in Nat \ {0} /\ journal.pairs \in Seq(PairRecord)
      BY <1>1 DEF JournalRecord
    <3> QED BY <1>3, <3>1, LenProperties
  <2> DEFINE p == Pair(1)
  <2>2. journal.cursor = 1 /\ Begins(p)
    BY <2>1, PairBegins
  <2>3. p.intent = NoIntent
    BY <2>1, <2>2 DEF Compare
  <2>4. /\ p \in PairRecord /\ InverseTrue(cards, p) /\ TogetherTrue(cards, p) /\ ApartTrue(cards, p)
        /\ JournalIs(journal, p) /\ WorkOK(work, lease, TRUE)
        /\ Untouched(cards) \/ OneStands(cards)
    BY <2>2 DEF Begins, PairTrue
  <2> DEFINE k == IF cards[p.l].status = "archived" THEN p.r ELSE p.l
             merged == Other(p, k) \in cards[k].merged
  <2>5. \/ journal' = [journal EXCEPT !.cursor = @ + 1] /\ lease' = lease /\ work' = work
        \/ /\ JoinedPair(p)
           /\ journal' = Past(SetPair(1, [p EXCEPT !.keep = k, !.outcome = IF merged THEN "merged" ELSE "selected",
                                              !.reviewed = @ \/ ~merged]))
           /\ lease' = lease /\ work' = work
        \/ /\ ~JoinedPair(p)
           /\ \/ journal' = Past(SetPair(1, [p EXCEPT !.outcome = "kept"]))
              \/ journal' = Past(SetPair(1, [p EXCEPT !.outcome = "failed"]))
           /\ lease' = lease /\ work' = work
        \/ /\ ~JoinedPair(p) /\ journal' = SetPair(1, Reserved(p))
           /\ lease' = "worker" /\ work' = [work EXCEPT !["worker"] = Step("model", 1)]
    BY <1>3, <2>2 DEF Compare
  <2> HIDE DEF p
  <2>6. CASE journal' = [journal EXCEPT !.cursor = @ + 1] /\ lease' = lease /\ work' = work
    <3>1. journal' \in JournalRecord /\ journal'.pairs = journal.pairs
      BY <1>1, <2>6 DEF JournalRecord
    <3> QED BY <1>1, <2>6, <3>1, MovesOn
  <2>7. CASE /\ JoinedPair(p)
             /\ journal' = Past(SetPair(1, [p EXCEPT !.keep = k, !.outcome = IF merged THEN "merged" ELSE "selected",
                                                !.reviewed = @ \/ ~merged]))
             /\ lease' = lease /\ work' = work
    <3> DEFINE q == [p EXCEPT !.keep = k, !.outcome = IF merged THEN "merged" ELSE "selected",
                              !.reviewed = @ \/ ~merged]
    <3>1. k \in Both /\ merged \in BOOLEAN
      BY <2>4 DEF PairRecord, Both
    <3> HIDE DEF k, merged
    <3>2. q \in PairRecord /\ q.undo = p.undo /\ q.intent = p.intent /\ HandledPair(q)
      BY <2>4, <3>1 DEF PairRecord, HandledPair
    <3>3. journal' = Past(SetPair(1, q)) /\ OneStands(cards)
      BY <2>4, <2>7, ApartIsNotJoined
    <3> HIDE DEF q
    <3>4. JournalIs(journal', q)
      BY <2>4, <3>2, <3>3, SetPairIs, PastIs
    <3>5. InverseTrue(cards, q) /\ TogetherTrue(cards, q)
      BY <2>3, <2>4, <3>2, SameInverse DEF TogetherTrue
    <3> QED BY <1>1, <2>4, <2>7, <3>3, <3>4, <3>5, NotApart, FreeAgain
  <2>8. CASE /\ ~JoinedPair(p)
             /\ \/ journal' = Past(SetPair(1, [p EXCEPT !.outcome = "kept"]))
                \/ journal' = Past(SetPair(1, [p EXCEPT !.outcome = "failed"]))
             /\ lease' = lease /\ work' = work
    <3>1. PICK o \in {"kept", "failed"} : journal' = Past(SetPair(1, [p EXCEPT !.outcome = o]))
      BY <2>8
    <3> DEFINE q == [p EXCEPT !.outcome = o]
    <3>2. q \in PairRecord /\ q.undo = p.undo /\ ~HandledPair(q)
      BY <2>4 DEF PairRecord, HandledPair
    <3>3. journal' = Past(SetPair(1, q)) /\ Untouched(cards)
      BY <2>4, <2>8, <3>1, OfferedIsApart
    <3> HIDE DEF q
    <3>4. JournalIs(journal', q)
      BY <2>4, <3>2, <3>3, SetPairIs, PastIs
    <3>5. InverseTrue(cards, q) /\ ApartTrue(cards, q)
      BY <2>4, <3>2, SameInverse DEF ApartTrue
    <3> QED BY <1>1, <2>4, <2>8, <3>3, <3>4, <3>5, NotTogether, FreeAgain
  <2>9. CASE /\ ~JoinedPair(p) /\ journal' = SetPair(1, Reserved(p))
             /\ lease' = "worker" /\ work' = [work EXCEPT !["worker"] = Step("model", 1)]
    <3> DEFINE q == Reserved(p)
    <3>1. q \in PairRecord /\ q.undo = p.undo /\ q.intent = p.intent /\ q.outcome = p.outcome
      BY <2>4 DEF PairRecord, Reserved
    <3>2. journal' = SetPair(1, q) /\ Untouched(cards)
      BY <2>4, <2>9, OfferedIsApart
    <3> HIDE DEF q
    <3>3. JournalIs(journal', q)
      BY <2>4, <3>1, <3>2, SetPairIs
    <3>4. WorkOK(work', "worker", TRUE) /\ work'["worker"].pc = "model"
      BY <1>1, <2>4, <2>9, Takes, StepIs DEF Actor, WorkOK
    <3>5. StepTrue(cards, work', "worker", q, "worker")
      BY <3>2, <3>4 DEF StepTrue
    <3>6. InverseTrue(cards, q) /\ ApartTrue(cards, q)
      BY <2>4, <3>1, SameInverse DEF ApartTrue, HandledPair
    <3> QED BY <1>1, <2>9, <3>2, <3>3, <3>4, <3>5, <3>6, NotTogether, TakenAgain DEF Actor
  <2> QED BY <2>5, <2>6, <2>7, <2>8, <2>9
<1> QED BY <1>2, <1>3

\* An actor is gone, or lets go of an operation it has lost the lease for.
LEMMA Drops ==
  ASSUME OnePair(journal, lease, work, cards), NEW a \in Actor
  PROVE  OnePair(journal, lease, [work EXCEPT ![a] = Rest], cards)
<1> DEFINE w == [work EXCEPT ![a] = Rest]
<1>1. Rest \in WorkRecord /\ Rest.pc = "rest" /\ "rest" \notin Held
  BY DEF Rest, WorkRecord, SmallPool, Held
<1>2. w \in [Actor -> WorkRecord] /\ \A b \in Actor : w[b] = Rest \/ w[b] = work[b]
  BY <1>1 DEF OnePair, WorkOK
<1> HIDE DEF w
<1>3. ASSUME NEW some, WorkOK(work, lease, some) PROVE WorkOK(w, lease, some)
  BY <1>1, <1>2, <1>3 DEF WorkOK, Actor
<1>4. ASSUME NEW p, PairTrue(cards, work, lease, p) PROVE PairTrue(cards, w, lease, p)
  <2>1. ASSUME NEW b \in Actor PROVE StepTrue(cards, w, lease, p, b)
    <3>1. CASE w[b] = Rest
      BY <1>1, <3>1 DEF StepTrue
    <3>2. CASE w[b] = work[b]
      BY <1>4, <3>2 DEF StepTrue, PairTrue
    <3> QED BY <1>2, <3>1, <3>2
  <2> QED BY <1>4, <2>1 DEF PairTrue
<1>5. OnePair(journal, lease, w, cards)
  BY <1>3, <1>4 DEF OnePair
<1> QED BY <1>5 DEF w

LEMMA OpinionTrue ==
  ASSUME OnePair(journal, lease, work, cards), Opinion
  PROVE  OnePair(journal', lease', work', cards')
<1>1. work["worker"].pc = "model" /\ cards' = cards /\ "worker" \in Actor
  BY DEF Opinion, Actor
<1>2. CASE lease # "worker"
  <2>1. journal' = journal /\ lease' = lease /\ work' = [work EXCEPT !["worker"] = Rest]
    BY <1>2 DEF Opinion, Holding, Release
  <2> QED BY <1>1, <2>1, Drops
<1>3. CASE lease = "worker"
  <2> DEFINE p == Pair(1)
  <2>1. work["worker"].at = 1 /\ journal.pairs # <<>>
    BY <1>1, <1>3 DEF OnePair, WorkOK
  <2>2. Begins(p)
    BY <2>1, NoneOrOne
  <2>3. /\ p \in PairRecord /\ InverseTrue(cards, p) /\ ApartTrue(cards, p) /\ JournalIs(journal, p)
        /\ WorkOK(work, lease, TRUE) /\ Untouched(cards)
    BY <1>1, <1>3, <2>2 DEF Begins, PairTrue, StepTrue
  <2>4. \/ journal' = journal /\ Release("worker")
        \/ journal' = Past(SetPair(1, [p EXCEPT !.outcome = "failed"])) /\ Release("worker")
        \/ \E sure \in BOOLEAN : journal' = Past(SetPair(1, [p EXCEPT !.outcome = "kept", !.ai = sure])) /\ Release("worker")
        \/ \E k \in {p.l, p.r} :
              /\ journal' = SetPair(1, [p EXCEPT !.intent = [mode |-> "auto", keep |-> k, actor |-> "worker"]])
              /\ work' = [work EXCEPT !["worker"] = Step("review", 1)] /\ lease' = lease
    BY <1>3, <2>1 DEF Opinion, Holding
  <2> HIDE DEF p
  <2>5. ASSUME NEW q \in PairRecord, JournalIs(journal', q), InverseTrue(cards, q), ApartTrue(cards, q), Release("worker")
        PROVE  OnePair(journal', lease', work', cards')
    <3>1. work' = [work EXCEPT !["worker"] = Rest] /\ lease' = "free"
      BY <1>3, <2>5 DEF Release, Holding
    <3>2. WorkOK(work', "free", TRUE)
      BY <1>1, <1>3, <2>3, <3>1, Frees
    <3> QED BY <1>1, <2>3, <2>5, <3>1, <3>2, NotTogether, FreeAgain
  <2>6. CASE journal' = journal /\ Release("worker")
    BY <2>3, <2>5, <2>6
  <2>7. CASE journal' = Past(SetPair(1, [p EXCEPT !.outcome = "failed"])) /\ Release("worker")
    <3> DEFINE q == [p EXCEPT !.outcome = "failed"]
    <3>1. q \in PairRecord /\ q.undo = p.undo /\ ~HandledPair(q)
      BY <2>3 DEF PairRecord, HandledPair
    <3>2. journal' = Past(SetPair(1, q))
      BY <2>7
    <3> HIDE DEF q
    <3>3. JournalIs(journal', q)
      BY <2>3, <3>1, <3>2, SetPairIs, PastIs
    <3>4. InverseTrue(cards, q) /\ ApartTrue(cards, q)
      BY <2>3, <3>1, SameInverse DEF ApartTrue
    <3> QED BY <2>5, <2>7, <3>1, <3>3, <3>4
  <2>8. CASE \E sure \in BOOLEAN : journal' = Past(SetPair(1, [p EXCEPT !.outcome = "kept", !.ai = sure])) /\ Release("worker")
    <3>1. PICK sure \in BOOLEAN : journal' = Past(SetPair(1, [p EXCEPT !.outcome = "kept", !.ai = sure])) /\ Release("worker")
      BY <2>8
    <3> DEFINE q == [p EXCEPT !.outcome = "kept", !.ai = sure]
    <3>2. q \in PairRecord /\ q.undo = p.undo /\ ~HandledPair(q)
      BY <2>3 DEF PairRecord, HandledPair
    <3>3. journal' = Past(SetPair(1, q))
      BY <3>1
    <3> HIDE DEF q
    <3>4. JournalIs(journal', q)
      BY <2>3, <3>2, <3>3, SetPairIs, PastIs
    <3>5. InverseTrue(cards, q) /\ ApartTrue(cards, q)
      BY <2>3, <3>2, SameInverse DEF ApartTrue
    <3> QED BY <2>5, <3>1, <3>2, <3>4, <3>5
  <2>9. CASE \E k \in {p.l, p.r} :
              /\ journal' = SetPair(1, [p EXCEPT !.intent = [mode |-> "auto", keep |-> k, actor |-> "worker"]])
              /\ work' = [work EXCEPT !["worker"] = Step("review", 1)] /\ lease' = lease
    <3>1. PICK k \in {p.l, p.r} :
              /\ journal' = SetPair(1, [p EXCEPT !.intent = [mode |-> "auto", keep |-> k, actor |-> "worker"]])
              /\ work' = [work EXCEPT !["worker"] = Step("review", 1)] /\ lease' = lease
      BY <2>9
    <3> DEFINE intent == [mode |-> "auto", keep |-> k, actor |-> "worker"]
               q == [p EXCEPT !.intent = intent]
    <3>2. k \in Both
      BY <2>3 DEF PairRecord, Both
    <3>3. intent \in Choice /\ intent # NoIntent
      BY <3>2 DEF Choice, Actor, NoIntent
    <3> HIDE DEF intent
    <3>4. q \in PairRecord /\ q.undo = p.undo /\ q.intent # NoIntent
      BY <2>3, <3>3 DEF PairRecord
    <3>5. journal' = SetPair(1, q)
      BY <3>1 DEF intent
    <3> HIDE DEF q
    <3>6. JournalIs(journal', q)
      BY <2>3, <3>4, <3>5, SetPairIs
    <3>7. WorkOK(work', "worker", TRUE) /\ work'["worker"].pc = "review"
      BY <1>1, <1>3, <2>3, <3>1, Takes, StepIs DEF WorkOK, Held
    <3>8. StepTrue(cards, work', "worker", q, "worker")
      BY <2>3, <3>4, <3>7 DEF StepTrue
    <3>9. InverseTrue(cards, q) /\ ApartTrue(cards, q)
      BY <2>3, <3>4, SameInverse DEF ApartTrue
    <3> QED BY <1>1, <1>3, <2>3, <3>1, <3>6, <3>7, <3>8, <3>9, NotTogether, TakenAgain
  <2> QED BY <2>4, <2>6, <2>7, <2>8, <2>9
<1> QED BY <1>2, <1>3

LEMMA LeaseEndsTrue ==
  ASSUME OnePair(journal, lease, work, cards), LeaseEnds
  PROVE  OnePair(journal', lease', work', cards')
<1>1. /\ journal' = journal /\ lease' = "free" /\ work' = work /\ cards' = cards /\ lease # "free"
      /\ work[lease] = Rest \/ work[lease].pc = "model"
  BY DEF LeaseEnds
<1>2. lease \in Actor /\ work[lease].pc \notin Held /\ "free" \notin Actor
  BY <1>1 DEF OnePair, WorkOK, Rest, Held, Actor
<1>3. ASSUME NEW some, WorkOK(work, lease, some) PROVE WorkOK(work, "free", some)
  BY <1>2, <1>3 DEF WorkOK
<1>4. ASSUME NEW p, PairTrue(cards, work, lease, p), WorkOK(work, "free", TRUE) PROVE PairTrue(cards, work, "free", p)
  BY <1>4, NobodyAtWork DEF PairTrue
<1>5. CASE journal.pairs = <<>>
  BY <1>1, <1>3, <1>5 DEF OnePair
<1>6. CASE journal.pairs # <<>>
  <2>1. Begins(Pair(1)) /\ WorkOK(work, "free", TRUE)
    BY <1>3, <1>6, NoneOrOne DEF Begins
  <2>2. PairTrue(cards, work, "free", Pair(1))
    BY <1>4, <2>1 DEF Begins
  <2> QED BY <1>1, <2>1, <2>2, OnePairAgain DEF Begins
<1> QED BY <1>5, <1>6

\* The two cards there are at the start: current ones, one of them forgotten, or a history version.
LEMMA ReviewBegins ==
  ASSUME FirstCards = 2, ReviewInit
  PROVE  ReviewInv /\ Both \subseteq CardId
<1>1. Both \subseteq CardId /\ 1..FirstCards = Both
  BY PoolAssumption DEF CardId, Both
<1>2. PICK fact \in [1..FirstCards -> Fact] :
        cards \in {FirstPool(fact), [FirstPool(fact) EXCEPT ![1].status = "forgotten"],
                   [FirstPool(fact) EXCEPT ![1].status = "superseded", ![1].by = 2, ![2].supersedes = {1}]}
  BY DEF ReviewInit
<1> DEFINE new(e) == NewCard(fact[e], None, {}, {}, FALSE)
           card(e) == [new(e) EXCEPT !.edit = 0]
           pool == FirstPool(fact)
<1>3. pool = [e \in Both |-> card(e)]
  BY <1>1 DEF FirstPool
<1>4. \A e \in Both : /\ card(e) \in Card /\ card(e).edit = 0 /\ card(e).merged = {}
                      /\ card(e).by = None /\ card(e).status = "active"
  <2>1. 0 \in 0..(MaxTurns + 1) /\ turns + 1 \in 0..(MaxTurns + 1)
    BY PoolAssumption DEF ReviewInit, NothingYet
  <2>2. \A e \in Both : fact[e] \in Fact
    BY <1>1
  <2>3. \A e \in Both : /\ new(e) \in Card /\ new(e).merged = {}
                        /\ new(e).by = None /\ new(e).status = "active"
    BY <2>1, <2>2 DEF NewCard, Card, Status
  <2> HIDE DEF new
  <2> QED BY <2>1, <2>3 DEF Card
<1> HIDE DEF card, pool
<1>5. /\ Untouched(pool) /\ pool \in [Both -> Card]
      /\ pool[1] \in Card /\ pool[1].edit = 0 /\ pool[1].merged = {} /\ pool[1].by = None
  <2>1. pool \in [Both -> Card] /\ (\A e \in Both : pool[e] = card(e))
    BY <1>3, <1>4
  <2>2. Untouched(pool)
    BY <1>4, <2>1 DEF Untouched
  <2> QED BY <1>4, <2>1, <2>2 DEF Both
<1>6. Untouched([pool EXCEPT ![1].status = "forgotten"])
  <2> DEFINE c1 == [pool[1] EXCEPT !.status = "forgotten"]
             c == [pool EXCEPT ![1].status = "forgotten"]
  <2>1. c1 \in Card /\ c1.edit = 0 /\ c1.merged = {} /\ c1.status = "forgotten" /\ c1.by = None
    BY <1>5 DEF Card, Status
  <2>2. c = [pool EXCEPT ![1] = c1]
    OBVIOUS
  <2> HIDE DEF c1, c
  <2>3. c \in [Both -> Card] /\ c[1] = c1 /\ c[2] = pool[2]
    BY <1>5, <2>1, <2>2 DEF Both
  <2>4. Untouched(c)
    BY <1>5, <2>1, <2>3 DEF Untouched, Both
  <2> QED BY <2>4 DEF c
<1>7. Untouched([pool EXCEPT ![1].status = "superseded", ![1].by = 2, ![2].supersedes = {1}])
  <2> DEFINE c == [pool EXCEPT ![1].status = "superseded", ![1].by = 2, ![2].supersedes = {1}]
             c1 == [pool[1] EXCEPT !.status = "superseded", !.by = 2]
             c2 == [pool[2] EXCEPT !.supersedes = {1}]
  <2>1. pool[1] \in Card /\ pool[2] \in Card /\ pool \in [Both -> Card]
    BY <1>5 DEF Untouched, Both
  <2>2. c = [pool EXCEPT ![1] = c1, ![2] = c2]
    <3>0. pool \in [Both -> Card] /\ 1 \in Both /\ 2 \in Both
      BY <2>1 DEF Both
    <3>1. DOMAIN c = Both /\ c = [e \in DOMAIN c |-> c[e]]
      BY <3>0
    <3>2. c[1] = c1
      BY <3>0
    <3>3. c[2] = c2
      BY <3>0
    <3> HIDE DEF c, c1, c2
    <3> QED BY <3>0, <3>1, <3>2, <3>3 DEF Both
  <2>3. c1 \in Card /\ c1.edit = pool[1].edit /\ c1.merged = pool[1].merged /\ c1.status = "superseded" /\ c1.by = 2
    BY <1>1, <2>1 DEF Card, Status, Both
  <2>4. c2 \in Card /\ c2.edit = pool[2].edit /\ c2.merged = pool[2].merged /\ c2.status = pool[2].status /\ c2.by = pool[2].by
    BY <1>1, <2>1 DEF Card, Both
  <2> HIDE DEF c1, c2, c
  <2>5. c \in [Both -> Card] /\ c[1] = c1 /\ c[2] = c2
    BY <2>1, <2>2, <2>3, <2>4 DEF Both
  <2>6. Untouched(c)
    BY <1>5, <2>3, <2>4, <2>5 DEF Untouched, Both
  <2> QED BY <2>6 DEF c
<1>8. Untouched(cards)
  BY <1>2, <1>5, <1>6, <1>7 DEF pool
<1>9. turns = 0 /\ journal = NoJournal /\ lease = "free" /\ work = [a \in Actor |-> Rest]
  BY DEF ReviewInit, NothingYet
<1>10. WorkOK(work, lease, FALSE)
  BY <1>9 DEF WorkOK, WorkRecord, Rest, SmallPool, Actor, Held
<1>11. journal \in JournalRecord /\ journal.pairs = <<>>
  <2>1. <<>> \in Seq(PairRecord)
    OBVIOUS
  <2> QED BY <1>9, <2>1 DEF NoJournal, JournalRecord
<1>12. OnePair(journal, lease, work, cards)
  BY <1>8, <1>10, <1>11, EmptyAgain
<1> QED BY <1>1, <1>9, <1>12 DEF ReviewInv

LEMMA JournalStep ==
  ASSUME Both \subseteq CardId, ReviewInv, [ReviewNext]_<<poolVars, reviewVars>>
  PROVE  ReviewInv'
<1>1. CASE UNCHANGED <<poolVars, reviewVars>>
  BY <1>1 DEF ReviewInv, poolVars, reviewVars
<1>2. CASE OtherWrite
  <2>1. turns' = turns + 1
    BY <1>2 DEF OtherWrite, Pin, ForgetEvent, RestoreEvent, SetStatus, Spend
  <2> QED BY <2>1 DEF ReviewInv
<1>3. ASSUME ReviewNext, ~OtherWrite PROVE turns' = turns
  BY <1>3 DEF ReviewNext, restOfPool, Resolve, KeepBoth, TakeOver, BeginUndo, Prepare, CommitReview, RecordChoice,
       RestoreCards, Reopen, ActorDies, RecoverChoices, FirstScan, ScanAdditions, Compare, Opinion, Rescan, LeaseEnds
<1>4. ASSUME turns = 0, ReviewNext, ~OtherWrite PROVE OnePair(journal', lease', work', cards')
  <2>1. OnePair(journal, lease, work, cards)
    BY <1>4 DEF ReviewInv
  <2>2. ASSUME NEW a \in Actor, ActorDies(a) PROVE OnePair(journal', lease', work', cards')
    <3>1. journal' = journal /\ lease' = lease /\ work' = [work EXCEPT ![a] = Rest] /\ cards' = cards
      BY <2>2 DEF ActorDies
    <3> QED BY <2>1, <3>1, Drops
  <2>3. "user" \in Actor /\ "worker" \in Actor
    BY DEF Actor
  <2>4. CASE \E i \in 1..Len(journal.pairs), mode \in {"manual", "select"}, k \in CardId : Resolve(i, mode, k)
    BY <2>1, <2>4, ResolveTrue
  <2>5. CASE \E i \in 1..Len(journal.pairs) : KeepBoth(i) \/ TakeOver(i) \/ BeginUndo("user", i) \/ BeginUndo("worker", i)
    BY <2>1, <2>3, <2>5, KeepBothTrue, TakeOverTrue, BeginUndoTrue
  <2>6. CASE \E a \in Actor : Prepare(a) \/ CommitReview(a) \/ RecordChoice(a) \/ RestoreCards(a) \/ Reopen(a) \/ ActorDies(a)
    BY <1>4, <2>1, <2>2, <2>6, PrepareTrue, CommitReviewTrue, RecordChoiceTrue, RestoreCardsTrue, ReopenTrue
  <2>7. CASE RecoverChoices \/ FirstScan \/ ScanAdditions \/ Compare \/ Opinion \/ Rescan \/ LeaseEnds
    BY <2>1, <2>7, RecoverChoicesTrue, FirstScanTrue, ScanAdditionsTrue, CompareTrue, OpinionTrue, RescanTrue, LeaseEndsTrue
  <2> QED BY <1>4, <2>4, <2>5, <2>6, <2>7 DEF ReviewNext
<1> QED BY <1>1, <1>2, <1>3, <1>4 DEF ReviewInv

LEMMA ReviewInvSays == ASSUME ReviewInv PROVE JournalIsTrue
<1> SUFFICES ASSUME AtRest, turns = 0, NEW i \in DOMAIN journal.pairs
             PROVE  LET handled == Pair(i).outcome \in {"merged", "selected"}
                    IN handled = JoinedPair(Pair(i)) /\ (handled => Pair(i).undo.has)
  BY DEF JournalIsTrue
<1>1. OnePair(journal, lease, work, cards)
  BY DEF ReviewInv
<1>2. i = 1 /\ Begins(Pair(1))
  BY <1>1, PairBegins
<1>3. Pair(1).intent = NoIntent /\ ~Pair(1).undo.pending
  BY <1>2 DEF AtRest
<1> DEFINE p == Pair(1)
<1>4. /\ p \in PairRecord /\ InverseTrue(cards, p) /\ TogetherTrue(cards, p) /\ ApartTrue(cards, p)
      /\ Untouched(cards) \/ OneStands(cards)
  BY <1>2 DEF Begins, PairTrue
<1> HIDE DEF p
<1>5. CASE Untouched(cards)
  <2>1. ~JoinedPair(p) /\ ~HandledPair(p)
    BY <1>3, <1>4, <1>5, ApartIsNotJoined DEF ApartTrue, p
  <2>2. JoinedPair(p) \in BOOLEAN
    BY DEF JoinedPair
  <2>3. JoinedPair(p) = FALSE
    BY <2>1, <2>2
  <2>4. (Pair(i).outcome \in {"merged", "selected"}) = FALSE
    BY <1>2, <2>1 DEF HandledPair, p
  <2> QED BY <1>2, <2>1, <2>3, <2>4 DEF p
<1>6. CASE OneStands(cards)
  <2>1. JoinedPair(p) /\ HandledPair(p) /\ p.undo.has
    BY <1>3, <1>4, <1>6, TogetherIsJoined DEF TogetherTrue, InverseTrue, p
  <2>2. JoinedPair(p) \in BOOLEAN
    BY DEF JoinedPair
  <2>3. JoinedPair(p) = TRUE
    BY <2>1, <2>2
  <2>4. (Pair(i).outcome \in {"merged", "selected"}) = TRUE
    BY <1>2, <2>1 DEF HandledPair, p
  <2> QED BY <1>2, <2>1, <2>3, <2>4 DEF p
<1> QED BY <1>4, <1>5, <1>6

\* For any pair of cards, whatever their facts, and any deaths, rescans, leases and choices of the
\* user and the worker: when no operation is open and nothing else wrote the cards, the journal calls
\* the pair handled exactly when one card stands for the other, and then holds the inverse
\* (EventDuplicateMaintenance, src/event-duplicate-maintenance.ts). With more cards it is false: a
\* pair can be joined through another pair's choice.
THEOREM JournalStaysTrue == FirstCards = 2 => (ReviewSpec => []JournalIsTrue)
<1> SUFFICES ASSUME FirstCards = 2 PROVE ReviewSpec => []JournalIsTrue
  OBVIOUS
<1>1. ReviewInit => ReviewInv
  BY ReviewBegins
<1>2. Both \subseteq CardId
  BY PoolAssumption DEF CardId, Both
<1>3. ReviewInv /\ [ReviewNext]_<<poolVars, reviewVars>> => ReviewInv'
  BY <1>2, JournalStep
<1>4. ReviewInv => JournalIsTrue
  BY ReviewInvSays
<1> QED BY <1>1, <1>3, <1>4, PTL DEF ReviewSpec

===============================================================================
