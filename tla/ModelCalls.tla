----------------------------- MODULE ModelCalls -----------------------------
(***************************************************************************)
(* The model bridge (DshModelBridge in llm.ts, extraction-batches.ts):     *)
(* every memory task asks the model for one structured tool call. What the *)
(* tasks share is here: the route, what is known of a route's ability to   *)
(* run without reasoning, the attempts and their two free repeats, the     *)
(* lease a task must hold, and the ring of raw responses the next save     *)
(* takes. An extraction is a series of such calls: a Block that is too big *)
(* for one call is cut and its parts are read in order.                    *)
(*                                                                         *)
(* A reply is a record: did the output limit cut it, does it hold the one  *)
(* expected call, which text stands there without a call, and which ids it *)
(* cites: source messages for an extraction, Events for the other tasks. A *)
(* text is a sequence of JSON values and prose; a value is "object" if it  *)
(* has the fields of the task.                                             *)
(***************************************************************************)
EXTENDS Integers, SequencesExt, FiniteSets

CONSTANTS Callers,      \* tasks that run side by side on one bridge
          Kinds,        \* the structured tasks each caller starts
          Routes,       \* provider and model
          SessionRoute, \* the route of each caller's session
          Owner,        \* the Block as a sequence of text units: the message each belongs to
          Foreign,      \* an id that was not supplied
          Cites,        \* what a reply may cite
          Texts,        \* what a reply may hold beside or instead of the call
          ForceOff,     \* structuredReasoningEffort is 'force-off'
          Attempts, MaxDepth, MaxCalls, RingSize

VARIABLES call, capability, memoryModel, ring
bridgeVars == <<call, capability, memoryModel, ring>>

TaskKinds == {"summarizer", "extractor", "projector", "graphProjector", "topicProjector", "dreamingStep",
              "eventDuplicateDecider", "externalMemoryDecider", "externalMemoryExtractor", "profileMaintenance"}

ASSUME ModelCallsAssumption ==
  /\ Kinds \in [Callers -> SUBSET TaskKinds]
  /\ Routes # {} /\ SessionRoute \in [Callers -> Routes]
  /\ Attempts \in Nat \ {0} /\ MaxDepth \in Nat /\ MaxCalls \in Nat \ {0} /\ RingSize \in Nat
  /\ Owner \in Seq(Range(Owner)) /\ Foreign \notin Range(Owner)

-----------------------------------------------------------------------------
(* What is asked.                                                          *)

\* A slice is an interval of the Block's text, as deep as it was cut.
WholeBlock == [first |-> 1, last |-> Len(Owner), depth |-> 0]
Messages(s) == {Owner[u] : u \in s.first .. s.last}
CutAt(s, u) == <<[first |-> s.first, last |-> u, depth |-> s.depth + 1],
                 [first |-> u + 1, last |-> s.last, depth |-> s.depth + 1]>>

\* Several messages part between two of them; one message parts inside.
Splits(s) ==
  LET between == {u \in s.first .. s.last - 1 : Owner[u] # Owner[u + 1]}
      inside == s.first .. s.last - 1
  IN {CutAt(s, u) : u \in IF Cardinality(Messages(s)) > 1 THEN between ELSE inside}

Supplied(k) == IF k.kind = "extractor" THEN Messages(Head(k.slices)) ELSE Range(Owner)

ResolveRoute(c) == IF memoryModel = "auto" THEN SessionRoute[c] ELSE memoryModel

-----------------------------------------------------------------------------
(* What a reply is worth.                                                  *)

Reply ==
  {r \in [cut : BOOLEAN, called : BOOLEAN, text : Texts, cites : Cites] : r.called => r.text = <<>>}
NoReply == [cut |-> FALSE, called |-> FALSE, text |-> <<>>, cites |-> {}]

\* A text is read if its last value is the object asked for and nothing but prose
\* makes the earlier ones examples: values side by side are ambiguous.
ParseJsonResponse(text) ==
  LET values == {i \in DOMAIN text : text[i] # "prose"}
  IN /\ values # {}
     /\ Cardinality(values) = 1 \/ values # DOMAIN text
     /\ text[Max(values)] = "object"

\* The output limit ends an extraction slice, whatever the reply holds.
OverCapacityUnlessCalled(k, r) == k.kind = "extractor" /\ r.cut /\ ~r.called
OverCapacity(k, r) == k.kind = "extractor" /\ r.cut

\* A complete call cannot show that a truncated batch was finished.
Untruncated(k, r) == k.kind \in {"graphProjector", "topicProjector", "eventDuplicateDecider"} => ~r.cut

\* parseTopicProjection: every Event of the batch has a topic, and nothing else has.
TopicsCover(k, r) == r.cites = Supplied(k)

\* The extractor's check: an Event cites messages of its slice only, or there is none.
ExtractSlice(k, r) == r.cites \subseteq Supplied(k)

Valid(k, r) ==
  /\ r.called \/ ParseJsonResponse(r.text)
  /\ Untruncated(k, r)
  /\ k.kind = "topicProjector" => TopicsCover(k, r)
  /\ k.kind = "extractor" => ExtractSlice(k, r)

\* An invalid reply is asked for again, but not what the output limit cut off.
Repeats(k, r) ==
  /\ k.attempt < Attempts
  /\ ~(r.cut /\ k.kind \in {"graphProjector", "topicProjector"})

\* What leaves the bridge: items of the reply that cite nothing supplied are dropped.
\* The decider of an import is checked by the core, not here.
ProjectedElements(k, r) == r.cites \cap Supplied(k)
ProjectedGraph(k, r) == r.cites \cap Supplied(k)
Evidence(k, r) ==
  CASE k.kind = "projector" -> ProjectedElements(k, r)
    [] k.kind = "graphProjector" -> ProjectedGraph(k, r)
    [] k.kind \in {"topicProjector", "externalMemoryDecider"} -> r.cites
    [] OTHER -> {}

\* For a profile, Foreign stands for a change outside the fields that may change.
ProfileBroken(k, r) == k.kind = "profileMaintenance" /\ Foreign \in r.cites

\* A graph node without a supported name, or a changed protected profile field:
\* the reply was accepted, so it is in the ring, and its use fails.
Unusable(k, r) ==
  \/ k.kind = "graphProjector" /\ r.cites # {} /\ ProjectedGraph(k, r) = {}
  \/ ProfileBroken(k, r)

InRing(k) == k.kind \notin {"profileMaintenance", "topicProjector", "dreamingStep", "eventDuplicateDecider"}
Push(k, c) ==
  IF InRing(k) THEN LET all == Append(ring, c) IN SubSeq(all, IF Len(all) > RingSize THEN 2 ELSE 1, Len(all)) ELSE ring

-----------------------------------------------------------------------------
(* One structured call.                                                    *)

Idle == [stage |-> "idle", kind |-> "none", route |-> "none", off |-> FALSE, attempt |-> 0, sent |-> 0,
         unregistered |-> FALSE, held |-> TRUE, slices |-> <<>>, got |-> <<>>, calls |-> 0, reply |-> NoReply]

Put(c, k) == call' = [call EXCEPT ![c] = k]
Fails(c, k) == Put(c, [Idle EXCEPT !.stage = "failed", !.kind = k.kind])
Done(k) == [Idle EXCEPT !.stage = "done", !.kind = k.kind, !.got = k.got, !.reply = k.reply]

\* A new structured call of the same task: the route is looked up again.
Asked(c, k) == [k EXCEPT !.stage = "lookup", !.route = ResolveRoute(c), !.off = FALSE,
                         !.attempt = 1, !.sent = 0, !.unregistered = FALSE]

StartCall(c) ==
  /\ call[c].stage \in {"idle", "done", "failed"}
  /\ \E kind \in Kinds[c] :
       Put(c, Asked(c, [Idle EXCEPT !.kind = kind, !.slices = IF kind = "extractor" THEN <<WholeBlock>> ELSE <<>>]))
  /\ UNCHANGED <<capability, memoryModel, ring>>

\* Only the graph callback hands down a check of its lease.
Active(k) == k.kind # "graphProjector" \/ k.held

\* What is cached is used; otherwise the provider is asked, for a bounded time.
KnownOff(c) ==
  LET k == call[c] IN
  /\ k.stage = "lookup" /\ capability[k.route] # "unknown"
  /\ Put(c, [k EXCEPT !.stage = "ready", !.off = capability[k.route] = "supported"])
  /\ UNCHANGED <<capability, memoryModel, ring>>

AskModelInfo(c) ==
  LET k == call[c] IN
  /\ k.stage = "lookup" /\ capability[k.route] = "unknown"
  /\ Put(c, [k EXCEPT !.stage = "asking"])
  /\ UNCHANGED <<capability, memoryModel, ring>>

ModelInfo(c) ==
  LET k == call[c] IN
  /\ k.stage = "asking"
  /\ \/ /\ capability' = capability   \* the provider says nothing of reasoning
        /\ Put(c, [k EXCEPT !.stage = "ready", !.off = ForceOff])
     \/ \E told \in {"supported", "unsupported"} :
          /\ capability' = [capability EXCEPT ![k.route] = told]
          /\ Put(c, [k EXCEPT !.stage = "ready", !.off = told = "supported"])
  /\ UNCHANGED <<memoryModel, ring>>

\* The shared budget of an extraction, looked at before every visit and every request.
BudgetLeft(k) == k.kind = "extractor" => k.calls < MaxCalls

Send(c) ==
  LET k == call[c] IN
  /\ k.stage = "ready"
  /\ IF Active(k) /\ BudgetLeft(k)
     THEN Put(c, [k EXCEPT !.stage = "waiting", !.sent = @ + 1, !.calls = IF k.kind = "extractor" THEN @ + 1 ELSE @])
     ELSE Fails(c, k)
  /\ UNCHANGED <<capability, memoryModel, ring>>

\* Parts too small to cut, or cut too often, fail the task: the Block stays pending.
Divide(c, k) ==
  LET s == Head(k.slices) IN
  IF s.depth >= MaxDepth \/ Splits(s) = {} THEN Fails(c, k)
  ELSE \E parts \in Splits(s) :
         LET next == Asked(c, [k EXCEPT !.slices = parts \o Tail(@)])
         IN IF BudgetLeft(next) THEN Put(c, next) ELSE Fails(c, next)

\* The request does not fit the route's window.
TooLarge(c) ==
  LET k == call[c] IN
  /\ k.stage = "ready" /\ Active(k)
  /\ k.kind \in {"extractor", "graphProjector", "topicProjector", "dreamingStep"}
  /\ IF k.kind = "extractor" THEN Divide(c, k) ELSE Fails(c, k)
  /\ UNCHANGED <<capability, memoryModel, ring>>

\* A timeout, a transport error, the extraction's deadline or an abort from outside.
NoAnswer(c) ==
  LET k == call[c] IN
  /\ k.stage = "waiting"
  /\ Fails(c, k)
  /\ UNCHANGED <<capability, memoryModel, ring>>

\* The two failures that are repeated at once, and do not count as an attempt.
NoAdapter(c) ==
  LET k == call[c] IN
  /\ k.stage = "waiting"
  /\ IF k.unregistered THEN Fails(c, k) ELSE Put(c, [k EXCEPT !.stage = "ready", !.unregistered = TRUE])
  /\ UNCHANGED <<capability, memoryModel, ring>>

OffRejected(c) ==
  LET k == call[c] IN
  /\ k.stage = "waiting" /\ k.off
  /\ capability' = [capability EXCEPT ![k.route] = "unsupported"]
  /\ Put(c, [k EXCEPT !.stage = "ready", !.off = FALSE])
  /\ UNCHANGED <<memoryModel, ring>>

\* The slice is read: the next one, or the end.
SliceRead(c, k, r) ==
  LET rest == Tail(k.slices)
      read == [k EXCEPT !.got = Append(@, [slice |-> Head(k.slices), cut |-> r.cut]), !.slices = rest]
  IN IF rest = <<>> THEN Put(c, Done(read))
     ELSE IF BudgetLeft(read) THEN Put(c, Asked(c, read)) ELSE Fails(c, read)

Accepted(c, k, r) ==
  /\ IF Unusable(k, r) THEN Fails(c, k)
     ELSE IF k.kind = "extractor" THEN SliceRead(c, k, r)
     ELSE Put(c, Done([k EXCEPT !.reply = [r EXCEPT !.text = <<>>, !.called = TRUE, !.cites = Evidence(k, r)]]))
  /\ ring' = Push(k, c)

Receive(c) ==
  LET k == call[c] IN
  /\ k.stage = "waiting"
  /\ \E r \in Reply :
       IF ~Active(k) THEN Fails(c, k) /\ UNCHANGED <<capability, ring>>
       ELSE IF OverCapacity(k, r) THEN Divide(c, k) /\ UNCHANGED <<capability, ring>>
       ELSE /\ capability' = IF k.off THEN [capability EXCEPT ![k.route] = "supported"] ELSE capability
            /\ IF Valid(k, r) THEN Accepted(c, k, r)
               ELSE /\ IF Repeats(k, r) THEN Put(c, [k EXCEPT !.stage = "ready", !.attempt = @ + 1]) ELSE Fails(c, k)
                    /\ ring' = ring
  /\ UNCHANGED memoryModel

-----------------------------------------------------------------------------
(* Around the calls.                                                       *)

\* The lease of a task expires, or another worker takes it over.
LoseLease(c) ==
  /\ call[c].kind = "graphProjector" /\ call[c].stage \notin {"done", "failed"} /\ call[c].held
  /\ Put(c, [call[c] EXCEPT !.held = FALSE])
  /\ UNCHANGED <<capability, memoryModel, ring>>

AdaptersUpdated ==
  /\ capability' = [r \in Routes |-> "unknown"]
  /\ UNCHANGED <<call, memoryModel, ring>>

SetMemoryModel ==
  /\ memoryModel' \in ({"auto"} \cup Routes) \ {memoryModel}
  /\ UNCHANGED <<call, capability, ring>>

\* A save takes every response that was collected, whoever asked for it.
TakeSuccessfulResponses ==
  /\ ring # <<>> /\ ring' = <<>>
  /\ UNCHANGED <<call, capability, memoryModel>>

BridgeInit ==
  /\ call = [c \in Callers |-> Idle]
  /\ capability = [r \in Routes |-> "unknown"]
  /\ memoryModel = "auto"
  /\ ring = <<>>

BridgeNext ==
  \/ \E c \in Callers : \/ StartCall(c) \/ KnownOff(c) \/ AskModelInfo(c) \/ ModelInfo(c)
                        \/ Send(c) \/ TooLarge(c) \/ NoAnswer(c) \/ NoAdapter(c) \/ OffRejected(c)
                        \/ Receive(c) \/ LoseLease(c)
  \/ AdaptersUpdated \/ SetMemoryModel \/ TakeSuccessfulResponses

BridgeSpec == BridgeInit /\ [][BridgeNext]_bridgeVars

-----------------------------------------------------------------------------
(* Properties.                                                             *)

\* The slices that were read follow each other from the first unit of the Block to its last.
Tiled(got) ==
  /\ got # <<>> /\ got[1].slice.first = 1 /\ got[Len(got)].slice.last = Len(Owner)
  /\ \A i \in DOMAIN got : got[i].slice.first <= got[i].slice.last + 1
  /\ \A i \in 1 .. Len(got) - 1 : got[i + 1].slice.first = got[i].slice.last + 1

\* What a task hands back is whole and grounded: an extraction has read every
\* unit of its Block exactly once and in order, from replies no limit cut; a
\* batch judged as a whole was not cut, topics cover their batch, and nothing
\* cites what was not supplied.
ResultsAreWhole ==
  \A c \in Callers : LET k == call[c] IN k.stage = "done" =>
    /\ k.kind = "extractor" => Tiled(k.got) /\ \A i \in DOMAIN k.got : ~k.got[i].cut
    /\ k.kind \in {"graphProjector", "topicProjector", "eventDuplicateDecider"} => ~k.reply.cut
    /\ k.kind # "externalMemoryDecider" => k.reply.cites \subseteq Range(Owner)
    /\ k.kind = "topicProjector" => k.reply.cites = Range(Owner)
=============================================================================
