----------------------------- MODULE GraphRecords -----------------------------
(***************************************************************************)
(* What a projection writes into the Knowledge Graph and what a reader may *)
(* see of it.  Nodes merge by name and alias, facts and edges supersede    *)
(* one another, and everything carries the Events it came from; readers    *)
(* get a view computed from what those Events are now.                     *)
(*                                                                         *)
(* Sources: packages/core/src/graph.ts.  Values, types, confidence and     *)
(* validity dates are abstracted; a name is its normalized form.           *)
(***************************************************************************)
EXTENDS Naturals, Sequences, FiniteSets, SequencesExt

CONSTANTS
  Source,     \* Events
  Name,       \* entity names
  Key,        \* fact keys
  Relation,   \* edge relations
  Cited,      \* bound: the sets of Events a proposal cites for one thing
  Proposed,   \* bound: the statuses proposals give
  MaxProposals \* bound: proposals of all batches

RecordStatus == {"active", "disputed", "superseded"}

ASSUME RecordsConstants ==
  /\ Cited \subseteq SUBSET Source /\ Proposed \subseteq RecordStatus
  /\ IsFiniteSet(Name) /\ MaxProposals \in Nat

VARIABLES
  event,    \* event[e]: "active", "superseded" or "forgotten"
  nodes,    \* the nodes; a node's id is its index
  edges,    \* the edges; an edge's id is its index
  said,     \* history: <<e, x>> when a projection cited Event e for x
  proposals \* proposals so far

recordVars == <<event, nodes, edges, said, proposals>>

-----------------------------------------------------------------------------
(* Data *)

Fact == [key: Key, status: RecordStatus, src: SUBSET Source]
Node == [name: Name, nameSrc: SUBSET Source, aliases: [Name -> SUBSET Source],
         status: RecordStatus, facts: Seq(Fact), src: SUBSET Source]
Edge == [from: Nat, to: Nat, relation: Relation,
         status: RecordStatus, src: SUBSET Source]

RecordsTypeOK ==
  /\ event \in [Source -> {"active", "superseded", "forgotten"}]
  /\ nodes \in Seq(Node) /\ edges \in Seq(Edge)

Exposable == {e \in Source : event[e] # "forgotten"}
ActiveSources(src) == {e \in src : event[e] = "active"}

-----------------------------------------------------------------------------
(* The view *)

IsCurrent(r) == r.status \in {"active", "disputed"} /\ ActiveSources(r.src) # {}
IsHistory(r) == r.status = "superseded" /\ r.src \cap Exposable # {}

EdgesOf(i) == {k \in DOMAIN edges : i \in {edges[k].from, edges[k].to}}

\* effectiveGraphNodeView: whether there is anything of node i to show.
Viewable(i) ==
  LET n == nodes[i] IN
  /\ n.status \in {"active", "disputed"}
  /\ \/ \E k \in DOMAIN n.facts : IsCurrent(n.facts[k]) \/ IsHistory(n.facts[k])
     \/ \E k \in EdgesOf(i) : IsCurrent(edges[k]) \/ IsHistory(edges[k])
     \/ n.src \cap Exposable # {}

\* effectiveMetadata: a name or alias shows while a source of its own is exposed.
NameShown(n, x) == (n.name = x /\ n.nameSrc \cap Exposable # {}) \/ n.aliases[x] \cap Exposable # {}

\* What a reader learns from node i, each with the Events it is cited for.
Shown(i) ==
  LET n == nodes[i] IN
  IF ~Viewable(i) THEN {} ELSE
    {<<n.name, n.nameSrc \cap Exposable>> : x \in {0 : y \in n.nameSrc \cap Exposable}}
    \cup {<<x, n.aliases[x] \cap Exposable>> : x \in {y \in Name : n.aliases[y] \cap Exposable # {}}}
    \cup {<<n.facts[k].key, n.facts[k].src \cap Exposable>> :
            k \in {j \in DOMAIN n.facts : IsCurrent(n.facts[j]) \/ IsHistory(n.facts[j])}}

\* boundEffectiveGraphNodeView: the same view for a reader who may cite only ids.
BoundShown(i, ids) == {<<s[1], s[2] \cap ids>> : s \in {t \in Shown(i) : t[2] \cap ids # {}}}

-----------------------------------------------------------------------------
(* applyGraphProjection *)

\* entityMatchKind: the first node that shows one of the names.
Match(names) ==
  LET hits == {i \in DOMAIN nodes : \E x \in names : NameShown(nodes[i], x)}
  IN IF hits = {} THEN 0 ELSE CHOOSE i \in hits : \A j \in hits : i <= j

NewNode(x) == [name |-> x, nameSrc |-> {}, aliases |-> [y \in Name |-> {}],
               status |-> "active", facts |-> <<>>, src |-> {}]

\* Faulty variant: the sources of the proposed name prove whatever name the node has.
MetadataOfAnyName(n, x, src, y, ysrc) ==
  [n EXCEPT !.nameSrc = @ \cup src,
            !.aliases = [z \in Name |-> IF z = y THEN @[z] \cup ysrc ELSE @[z]]]

\* The node's own name gains the sources given for that name; any other proposed name
\* becomes an alias with the sources given for it.  y is the proposed alias.
Metadata(n, x, src, y, ysrc) ==
  LET given(z) == (IF z = x THEN src ELSE {}) \cup (IF z = y THEN ysrc ELSE {})
  IN [n EXCEPT !.nameSrc = @ \cup given(n.name),
               !.aliases = [z \in Name |-> IF z = n.name THEN @[z] ELSE @[z] \cup given(z)]]

\* A fact of a current node needs an active source; a new fact retires the active one.
WithFact(n, key, src) ==
  IF n.status # "superseded" /\ ActiveSources(src) = {} THEN n
  ELSE [n EXCEPT !.facts =
          Append([k \in DOMAIN @ |-> IF @[k].key = key /\ @[k].status = "active"
                                     THEN [@[k] EXCEPT !.status = "superseded"] ELSE @[k]],
                 [key |-> key, status |-> n.status, src |-> src])]

Put(i, n) == IF i = 0 THEN Append(nodes, n) ELSE [nodes EXCEPT ![i] = n]
At(i) == IF i = 0 THEN Len(nodes) + 1 ELSE i

\* One node proposal: name x from src, perhaps an alias y from ysrc, a status and perhaps a
\* fact.  Sources outside the batch or no longer exposed make the whole batch fail.
ProposeNode(x, src, y, ysrc, status, key, fsrc) ==
  LET i == Match({x} \cup (IF ysrc = {} THEN {} ELSE {y}))
      old == IF i = 0 THEN NewNode(x) ELSE nodes[i]
      named == [Metadata(old, x, src, y, ysrc) EXCEPT !.status = status, !.src = @ \cup src]
  IN /\ src # {} /\ src \cup ysrc \cup fsrc \subseteq Exposable
     /\ nodes' = Put(i, IF fsrc = {} THEN named ELSE WithFact(named, key, fsrc))
     /\ said' = said \cup (src \X {x}) \cup (ysrc \X {y}) \cup (fsrc \X {key})
     /\ UNCHANGED <<event, edges>>

SameEdge(f, t, r, status) ==
  {k \in DOMAIN edges : /\ edges[k].from = f /\ edges[k].to = t
                        /\ edges[k].relation = r /\ edges[k].status = status}

Superseded(olds) ==
  [k \in DOMAIN edges |->
     IF k \in olds THEN [edges[k] EXCEPT !.status = "superseded"] ELSE edges[k]]

\* An edge between two nodes a batch refers to, which may supersede active edges of the
\* same source and relation to another node.
ProposeEdge(f, t, r, status, src) ==
  LET olds == {k \in DOMAIN edges : edges[k].status = "active" /\ edges[k].from = f
                                     /\ edges[k].relation = r /\ edges[k].to # t}
      same == SameEdge(f, t, r, status)
  IN /\ f # t /\ src # {} /\ src \subseteq Exposable
     /\ status = "superseded" \/ ActiveSources(src) # {}
     /\ \E gone \in SUBSET olds :
          IF same = {}
          THEN edges' = Append(Superseded(gone), [from |-> f, to |-> t, relation |-> r,
                                                  status |-> status, src |-> src])
          ELSE edges' = LET k == CHOOSE j \in same : \A l \in same : j <= l
                        IN [Superseded(gone) EXCEPT ![k].src = @ \cup src]
     /\ UNCHANGED <<event, nodes, said>>

\* Events are superseded and forgotten behind the graph's back.
Demote(e) ==
  /\ event[e] # "forgotten"
  /\ \E s \in {"superseded", "forgotten"} : event' = [event EXCEPT ![e] = s] /\ event[e] # s
  /\ UNCHANGED <<nodes, edges, said, proposals>>

-----------------------------------------------------------------------------
\* An empty graph, or one in which an earlier batch named every entity after one Event.
RecordsInit ==
  /\ event = [e \in Source |-> "active"]
  /\ \/ nodes = <<>> /\ said = {}
     \/ \E e \in Source :
          /\ nodes = [i \in 1..Cardinality(Name) |->
                        LET x == SetToSeq(Name)[i]
                        IN [NewNode(x) EXCEPT !.nameSrc = {e}, !.src = {e}]]
          /\ said = {<<e, x>> : x \in Name}
  /\ edges = <<>> /\ proposals = 0

ProposeNodes ==
  \E x, y \in Name, src \in Cited, ysrc, fsrc \in Cited \cup {{}}, status \in Proposed, key \in Key :
    x # y /\ ProposeNode(x, src, y, ysrc, status, key, fsrc)
ProposeEdges ==
  \E f, t \in DOMAIN nodes, r \in Relation, status \in Proposed, src \in Cited :
    ProposeEdge(f, t, r, status, src)
Demotions == \E e \in Source : Demote(e)

RecordsNext ==
  \/ /\ proposals < MaxProposals /\ proposals' = proposals + 1
     /\ ProposeNodes \/ ProposeEdges
  \/ Demotions

RecordsSpec == RecordsInit /\ [][RecordsNext]_recordVars

-----------------------------------------------------------------------------
(* Properties *)

\* Hidden provenance never reaches a reader: whatever name, alias or fact a view shows is
\* cited for Events that are still exposed and that a projection did give for exactly that,
\* through any sequence of merges by name and alias.
ViewIsProven ==
  \A i \in DOMAIN nodes : \A ids \in SUBSET Source : \A s \in BoundShown(i, ids) :
    s[2] # {} /\ \A e \in s[2] : <<e, s[1]>> \in said
=============================================================================
