------------------------------- MODULE MCSettles -------------------------------
(* Fair instances of the projections, of an import and of the semantic search, side by side: *)
(* a behaviour belongs to one of them, the others rest.                                      *)
EXTENDS GraphProjection, MCDirectory, ExternalImport, SemanticRecall

VARIABLE part   \* the component a behaviour is about

settleVars == <<part, graphVars, allVars, importVars, recallVars>>

GraphRests == card = [e \in GraphEvent |-> "unused"] /\ jobs = <<>>
              /\ open = [p \in GraphProc |-> "unused"]
DirectoryRests ==
  DirectoryIdle /\ ver = Nothing /\ topics = {} /\ projected = Nothing /\ edits = 0

RecallRests == model = Off /\ vector = {} /\ shown = [e \in Event |-> "none"]

SettlesInit ==
  /\ part \in {"graph", "topics", "import", "recall"}
  /\ GraphInit /\ DreamSleeps /\ ImportInit /\ RecallInit
  /\ part # "recall" => RecallRests
  /\ \/ /\ part = "graph" /\ DirectoryRests
        /\ \E e \in GraphEvent : card[e] # "unused"
        /\ \E p \in GraphProc : open[p] # "unused"
     \/ part = "topics" /\ GraphRests /\ TopicInit
     \/ part \in {"import", "recall"} /\ GraphRests /\ DirectoryRests

SettlesNext ==
  /\ UNCHANGED part
  /\ \/ part = "graph" /\ GraphNext /\ UNCHANGED <<allVars, importVars, recallVars>>
     \/ part = "topics" /\ TopicNext /\ UNCHANGED <<dreamVars, graphVars, importVars, recallVars>>
     \/ part = "import" /\ ImportNext /\ UNCHANGED <<graphVars, allVars, recallVars>>
     \/ part = "recall" /\ RecallNext /\ UNCHANGED <<graphVars, allVars, importVars>>

SettlesSpec ==
  /\ SettlesInit /\ [][SettlesNext]_settleVars
  /\ GraphFairness /\ TopicFairness /\ ImportFairness /\ RecallFairness
=============================================================================
