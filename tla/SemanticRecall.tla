---------------------------- MODULE SemanticRecall ----------------------------
(***************************************************************************)
(* The semantic lane of the Event search (runtime.ts, embedding.ts). Every *)
(* Event may have a vector in a side table, one per embedding model, with  *)
(* the fingerprint of the text it was computed from. A search waits for    *)
(* the vector of its query, scores the vectors whose fingerprint is the    *)
(* card's, and has the missing ones computed by a sweep it does not wait   *)
(* for. Cards are rewritten, hidden and replaced all the while. A text is  *)
(* the number of its version; vectors are the text they were made from.    *)
(***************************************************************************)
EXTENDS Integers, FiniteSets, FiniteSetsExt

CONSTANTS Event, Model, Off,   \* Off: no embedding configured
          Asker,
          SweepLimit,          \* VECTOR_BACKFILL_BATCH_LIMIT
          MaxChanges           \* bounds rewrites, status changes, settings and restarts

ASSUME RecallAssumption == Off \notin Model /\ SweepLimit \in Nat \ {0} /\ MaxChanges \in Nat

VARIABLES text, shown,      \* per card: the version of its text; "none", "visible" or "hidden"
          vector,           \* event_vectors: [event, model, text, hash]
          model,            \* config.embeddingModel
          lane,             \* the searches
          sweeps,           \* requests for vectors in flight
          cooldown,         \* VECTOR_BACKFILL_COOLDOWN_MS has not passed
          unmerged,         \* merged cards whose vector is still to be dropped
          changes
recallVars == <<text, shown, vector, model, lane, sweeps, cooldown, unmerged, changes>>

Legacy == -1    \* rows from before the fingerprint column
NoLane == [stage |-> "rest", scored |-> {}, answer |-> {}]

Searchable == {e \in Event : shown[e] = "visible"}
InFlight == UNION {{w.event : w \in s.work} : s \in sweeps}
EventContentHash(e) == text[e]
Change == changes < MaxChanges /\ changes' = changes + 1

-----------------------------------------------------------------------------
(* Sweeps.                                                                 *)

\* backfillEventVectors up to its request: the texts it sends are captured.
Backfill(ids, resting) ==
  LET fresh == {e \in ids : shown[e] # "none"} \ InFlight IN
  IF resting \/ model = Off \/ fresh = {} THEN UNCHANGED sweeps
  ELSE \E picked \in kSubset(Min({SweepLimit, Cardinality(fresh)}), fresh) :
         sweeps' = sweeps \cup
           {[model |-> model, work |-> {[event |-> e, text |-> text[e], detached |-> FALSE] : e \in picked}]}

StoreVectorsAsCurrent(written, m) ==
  vector' = {v \in vector : v.model # m \/ \A w \in written : w.event # v.event}
            \cup {[event |-> w.event, model |-> m, text |-> w.text, hash |-> EventContentHash(w.event)] : w \in written}

StoreVectors(written, m) ==
  vector' = {v \in vector : v.model # m \/ \A w \in written : w.event # v.event}
            \cup {[event |-> w.event, model |-> m, text |-> w.text, hash |-> w.text] : w \in written}


\* A card that was rewritten meanwhile is left for the next sweep; one that a reload
\* replaced is compared with its former object, which never changes again.
SweepAnswered(s, got) ==
  /\ sweeps' = sweeps \ {s}
  /\ LET written == {w \in got : w.detached \/ EventContentHash(w.event) = w.text} IN
     /\ StoreVectors(written, s.model)
     /\ cooldown' = (cooldown \/ written # {})
  /\ UNCHANGED <<text, shown, model, lane, unmerged, changes>>

\* The request succeeds; it may also fail, or bring some empty vectors.
SweepSucceeds == \E s \in sweeps : SweepAnswered(s, s.work)
SweepFallsShort == \E s \in sweeps : \E got \in SUBSET s.work : got # s.work /\ SweepAnswered(s, got)

CooldownEnds ==
  /\ cooldown /\ cooldown' = FALSE
  /\ UNCHANGED <<text, shown, vector, model, lane, sweeps, unmerged, changes>>

-----------------------------------------------------------------------------
(* Searches.                                                               *)

EmbedQuery(a) ==
  /\ lane[a].stage = "rest" /\ model # Off
  /\ lane' = [lane EXCEPT ![a].stage = "asked"]
  /\ UNCHANGED <<text, shown, vector, model, sweeps, cooldown, unmerged, changes>>

Record(e) == {v \in vector : v.event = e /\ v.model = model}
HasCurrentVector(e) == \E v \in Record(e) : v.hash = EventContentHash(e)

\* Cards without a current vector start a sweep, whatever was found.
WithoutVectorIfFound(scored) == IF scored = {} THEN {} ELSE Searchable \ scored

WithoutVector(scored) == Searchable \ scored

\* Without a vector of the query the search stays lexical.
QueryFailed(a) ==
  /\ lane[a].stage = "asked"
  /\ lane' = [lane EXCEPT ![a].stage = "ranked"]
  /\ UNCHANGED <<text, shown, vector, model, sweeps, cooldown, unmerged, changes>>

\* computeVectorRanking after its await: the model is the one configured now.
ComputeVectorRanking(a) ==
  /\ lane[a].stage = "asked"
  /\ LET scored == {e \in Searchable : HasCurrentVector(e)} IN
     /\ \E relevant \in SUBSET scored :
          lane' = [lane EXCEPT ![a].stage = "ranked",
                               ![a].scored = {[event |-> v.event, text |-> v.text, body |-> text[v.event]] :
                                                v \in UNION {Record(e) : e \in relevant}}]
     /\ Backfill(WithoutVector(scored), cooldown)
  /\ UNCHANGED <<text, shown, vector, model, cooldown, unmerged, changes>>

\* searchEvents of the core: the words find any of the visible cards.
SearchEvents(a) ==
  /\ lane[a].stage = "ranked"
  /\ \E found \in SUBSET Searchable :
       lane' = [lane EXCEPT ![a].stage = "answered",
                            ![a].answer = found \cup {e \in {i.event : i \in lane[a].scored} : shown[e] = "visible"}]
  /\ UNCHANGED <<text, shown, vector, model, sweeps, cooldown, unmerged, changes>>

\* rerankEvents may reorder the answer, or time out; then it is rendered.
Answer(a) ==
  /\ lane[a].stage = "answered"
  /\ lane' = [lane EXCEPT ![a] = NoLane]
  /\ UNCHANGED <<text, shown, vector, model, sweeps, cooldown, unmerged, changes>>

-----------------------------------------------------------------------------
(* What happens to the cards, and to the settings.                         *)

\* A passive Event waits for a search to miss its vector.
ExtractEvent(e) ==
  /\ shown[e] = "none" /\ shown' = [shown EXCEPT ![e] = "visible"]
  /\ UNCHANGED <<text, vector, model, lane, sweeps, cooldown, unmerged, changes>>

\* A recorded one goes out at once: vectorizeNewEvents ends the cooldown.
RecordAgentMemory(e) ==
  /\ shown[e] = "none" /\ shown' = [shown EXCEPT ![e] = "visible"]
  /\ cooldown' = (cooldown /\ model = Off)
  /\ IF model = Off THEN UNCHANGED sweeps
     ELSE sweeps' = sweeps \cup {[model |-> model, work |-> {[event |-> e, text |-> text[e], detached |-> FALSE]}]}
  /\ UNCHANGED <<text, vector, model, lane, unmerged, changes>>

TextChanges(e) == shown[e] \in {"visible", "hidden"} /\ text' = [text EXCEPT ![e] = @ + 1]

\* A merge, by a review or by the decision on a new memory. The review drops the
\* kept card's vector after its commit.
MergeInto(e) ==
  /\ Change /\ TextChanges(e)
  /\ unmerged' \in {unmerged, unmerged \cup {e}}
  /\ UNCHANGED <<shown, vector, model, lane, sweeps, cooldown>>

DeleteEventVector(e) ==
  /\ e \in unmerged /\ unmerged' = unmerged \ {e}
  /\ vector' = {v \in vector : v.event # e}
  /\ UNCHANGED <<text, shown, model, lane, sweeps, cooldown, changes>>

StatusChange(e) ==
  \/ shown[e] = "visible" /\ shown' = [shown EXCEPT ![e] = "hidden"]
  \/ shown[e] = "hidden" /\ shown' = [shown EXCEPT ![e] = "visible"]
  \/ shown[e] \in {"visible", "hidden"} /\ shown' = [shown EXCEPT ![e] = "removed"]

ForgetOrRestore(e) ==
  /\ Change /\ StatusChange(e)
  /\ UNCHANGED <<text, vector, model, lane, sweeps, cooldown, unmerged>>

\* Another process wrote: a reload replaces every card object, the sweeps keep theirs.
Reload(e) ==
  /\ Change
  /\ \/ TextChanges(e) /\ UNCHANGED shown
     \/ StatusChange(e) /\ UNCHANGED text
  /\ sweeps' = {[s EXCEPT !.work = {[w EXCEPT !.detached = TRUE] : w \in @}] : s \in sweeps}
  /\ UNCHANGED <<vector, model, lane, cooldown, unmerged>>

\* Its vectors may be of a text this process has not read yet.
OtherProcessStores(e, m) ==
  /\ Change /\ shown[e] = "visible"
  /\ \E t \in {text[e], text[e] + 1} : StoreVectors({[event |-> e, text |-> t]}, m)
  /\ UNCHANGED <<text, shown, model, lane, sweeps, cooldown, unmerged>>

AdminSetVectorSettings(m) ==
  /\ m # model /\ Change
  /\ model' = m
  /\ UNCHANGED <<text, shown, vector, lane, sweeps, cooldown, unmerged>>

\* What was in flight is lost; vectors of no card are swept on open.
CleanupOrphanEventVectors ==
  /\ Change
  /\ vector' = {v \in vector : shown[v.event] \in {"visible", "hidden"}}
  /\ lane' = [a \in Asker |-> NoLane] /\ sweeps' = {} /\ cooldown' = FALSE /\ unmerged' = {}
  /\ UNCHANGED <<text, shown, model>>

RecallInit ==
  /\ text = [e \in Event |-> 0] /\ shown \in [Event -> {"none", "visible"}]
  /\ model \in Model \cup {Off}
  /\ \E m \in Model : vector \in {{}, {[event |-> e, model |-> m, text |-> 0, hash |-> Legacy] : e \in Searchable}}
  /\ lane = [a \in Asker |-> NoLane]
  /\ sweeps = {} /\ cooldown = FALSE /\ unmerged = {} /\ changes = 0

RecallNext ==
  \/ \E a \in Asker :
       EmbedQuery(a) \/ QueryFailed(a) \/ ComputeVectorRanking(a) \/ SearchEvents(a) \/ Answer(a)
  \/ SweepSucceeds \/ SweepFallsShort \/ CooldownEnds \/ CleanupOrphanEventVectors
  \/ \E e \in Event :
       \/ ExtractEvent(e) \/ RecordAgentMemory(e) \/ MergeInto(e) \/ DeleteEventVector(e)
       \/ ForgetOrRestore(e) \/ Reload(e)
       \/ \E m \in Model : OtherProcessStores(e, m)
  \/ \E m \in Model \cup {Off} : AdminSetVectorSettings(m)

RecallSpec == RecallInit /\ [][RecallNext]_recallVars

\* Conversations go on searching; a provider that is asked again and again answers
\* at some time.
RecallFairness ==
  /\ \A a \in Asker : /\ WF_recallVars(EmbedQuery(a) \/ SearchEvents(a) \/ Answer(a))
                      /\ SF_recallVars(ComputeVectorRanking(a))
  /\ SF_recallVars(SweepSucceeds) /\ WF_recallVars(CooldownEnds)

-----------------------------------------------------------------------------
(* Properties.                                                             *)

\* A card is ranked by the text it has, never by one it had: no rewrite, reload or
\* late answer makes an old vector look current.
LaneIsCurrent == \A a \in Asker : \A i \in lane[a].scored : i.text = i.body

\* When nobody changes anything any more and embedding is on, every visible card
\* comes to have a vector of its text, from an empty or an old table too.
CardsGetVectors == <>[](model # Off => \A e \in Searchable : HasCurrentVector(e))

=============================================================================
