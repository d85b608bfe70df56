-------------------------------- MODULE MCGraph --------------------------------
(* Instances of the graph's jobs, of its records and of the topic directory, side by side:  *)
(* a behaviour belongs to one of them, the others rest.                                     *)
EXTENDS GraphProjection, GraphRecords, Topics, TLC

VARIABLE part   \* the component a behaviour is about

graphRunVars == <<part, graphVars, recordVars, topicVars>>

MCCited == (SUBSET Source) \ {{}}
MCProposed == {"active", "superseded"}

\* Either two processes and one Event, or one process and two Events that are there already.
Used == {e \in GraphEvent : card[e] # "unused"}
Started == {p \in GraphProc : open[p] # "unused"}
Sliced ==
  /\ <<Cardinality(Used), Cardinality(Started)>> \in {<<1, 2>>, <<2, 1>>}
  /\ Cardinality(Used) = 2 => jobs = <<>> /\ \A e \in Used : card[e] = "active"

GraphRests == Used = {} /\ Started = {} /\ jobs = <<>>
TopicsRest == ver = Nothing /\ topicJobs = {}

GraphRunInit ==
  /\ GraphInit /\ RecordsInit /\ TopicInit
  /\ \/ part = "jobs" /\ Sliced /\ nodes = <<>> /\ TopicsRest
     \/ part = "records" /\ GraphRests /\ TopicsRest
     \/ part = "topics" /\ GraphRests /\ nodes = <<>>

GraphRunNext ==
  /\ UNCHANGED part
  /\ \/ part = "jobs" /\ GraphNext /\ UNCHANGED <<recordVars, topicVars>>
     \/ part = "records" /\ RecordsNext /\ UNCHANGED <<graphVars, topicVars>>
     \/ part = "topics" /\ TopicNext /\ UNCHANGED <<graphVars, recordVars>>

GraphRunSpec == GraphRunInit /\ [][GraphRunNext]_graphRunVars

Symmetric == Permutations(TopicEvent) \cup Permutations(TopicWorker)
=============================================================================
