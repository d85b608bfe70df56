------------------------------ MODULE MCDirectory ------------------------------
(* Instances of the topic directory, without Dreaming and with it. *)
EXTENDS Dreaming, TLC

DirectoryIdle ==
  /\ opened = TRUE /\ used = 0 /\ rebuild = Nothing /\ frozen = Nothing
  /\ hand = [w \in TopicWorker |-> [pc |-> "idle", id |-> 0]]
  /\ topicJobs = {} /\ regranted = Nothing

\* A directory with one chapter about one Event, whose other Events are still to be projected.
First == CHOOSE e \in TopicEvent : TRUE
Chaptered ==
  /\ DirectoryIdle /\ ver = [e \in TopicEvent |-> 1] /\ projected = Now({First})
  /\ topics = {[id |-> 1, members |-> {First}, srcVer |-> Now({First}), dep |-> Now({First}),
                read |-> Now({First}), invalid |-> FALSE, edit |-> 0]}

DreamSleeps ==
  /\ dream = NoDream /\ claims = [p \in DreamProc |-> {}] /\ issued = {} /\ writer = {}

DreamSymmetry == Permutations(DreamProc)
=============================================================================
