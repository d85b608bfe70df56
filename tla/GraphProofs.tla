------------------------------ MODULE GraphProofs ------------------------------
(***************************************************************************)
(* Proofs about GraphRecords, Topics, Dreaming and GraphProjection.  For   *)
(* any Events, names, facts and proposals, what a view shows is cited for  *)
(* Events that were given for exactly that.  For any Events, batches,      *)
(* answers and Agents, what a valid chapter says rests on Events as they   *)
(* are; and while Dreaming has the directory, only its claim changes       *)
(* chapters.  For any Events, processes and policies, no Event is asked    *)
(* about more often than its budget allows.                                *)
(***************************************************************************)
EXTENDS GraphRecords, Dreaming, GraphProjection, SequenceTheorems, FiniteSetTheorems, WellFoundedInduction, TLAPS

\* All a node cites an Event for, a projection has cited it for.
Proven(n, history) ==
  /\ \A e \in n.nameSrc : <<e, n.name>> \in history
  /\ \A x \in Name : \A e \in n.aliases[x] : <<e, x>> \in history
  /\ \A k \in DOMAIN n.facts : \A e \in n.facts[k].src : <<e, n.facts[k].key>> \in history

RecordsInv == RecordsTypeOK /\ \A i \in DOMAIN nodes : Proven(nodes[i], said)

-----------------------------------------------------------------------------
(* What a proposal does to a node *)

LEMMA LeastNat ==
  ASSUME NEW S \in SUBSET Nat, S # {}
  PROVE  \E i \in S : \A j \in S : i <= j
<1> DEFINE R == OpToRel(<, Nat)
<1>1. IsWellFoundedOn(R, Nat)
  BY NatLessThanWellFounded, Zenon
<1> HIDE DEF R
<1>2. PICK i \in S : \A j \in S : ~(<<j, i>> \in R)
  BY <1>1, WFMin
<1>3. \A j \in S : ~(j < i)
  BY <1>2 DEF R, OpToRel
<1> QED BY <1>3

LEMMA NewNodeIsProven ==
  ASSUME NEW x \in Name, NEW history
  PROVE  NewNode(x) \in Node /\ Proven(NewNode(x), history)
BY DEF NewNode, Node, Proven, RecordStatus

\* The sources of a name go to that name, whichever name the node has.
LEMMA MetadataIsProven ==
  ASSUME NEW n \in Node, NEW history, Proven(n, history),
         NEW x \in Name, NEW y \in Name, NEW src \in SUBSET Source, NEW ysrc \in SUBSET Source
  PROVE  /\ Metadata(n, x, src, y, ysrc) \in Node
         /\ Proven(Metadata(n, x, src, y, ysrc), history \cup (src \X {x}) \cup (ysrc \X {y}))
<1> DEFINE given(z) == (IF z = x THEN src ELSE {}) \cup (IF z = y THEN ysrc ELSE {})
           own == n.nameSrc \cup given(n.name)
           others == [z \in Name |-> IF z = n.name THEN n.aliases[z] ELSE n.aliases[z] \cup given(z)]
           m == Metadata(n, x, src, y, ysrc)
           said2 == history \cup (src \X {x}) \cup (ysrc \X {y})
<1>1. m = [n EXCEPT !.nameSrc = own, !.aliases = others]
  BY DEF Metadata
<1>2. \A z : given(z) \subseteq Source /\ \A e \in given(z) : <<e, z>> \in said2
  OBVIOUS
<1>3. n.nameSrc \subseteq Source /\ n.aliases \in [Name -> SUBSET Source] /\ n.name \in Name
  BY DEF Node
<1>4. own \in SUBSET Source /\ others \in [Name -> SUBSET Source]
  BY <1>2, <1>3
<1>5. /\ \A e \in own : <<e, n.name>> \in said2
      /\ \A z \in Name : \A e \in others[z] : <<e, z>> \in said2
  BY <1>2 DEF Proven
<1> HIDE DEF given, own, others, m
<1>6. m \in Node /\ m.nameSrc = own /\ m.aliases = others /\ m.name = n.name /\ m.facts = n.facts
  BY <1>1, <1>4 DEF Node
<1>7. \A k \in DOMAIN n.facts : \A e \in n.facts[k].src : <<e, n.facts[k].key>> \in said2
  BY DEF Proven
<1> HIDE DEF said2
<1>8. Proven(m, said2)
  BY <1>5, <1>6, <1>7 DEF Proven
<1> QED BY <1>6, <1>8 DEF m, said2

\* A fact keeps its sources when it is retired.
LEMMA FactIsProven ==
  ASSUME NEW n \in Node, NEW history, Proven(n, history), NEW key \in Key, NEW src \in SUBSET Source
  PROVE  WithFact(n, key, src) \in Node /\ Proven(WithFact(n, key, src), history \cup (src \X {key}))
<1>1. CASE n.status # "superseded" /\ ActiveSources(src) = {}
  BY <1>1 DEF WithFact, Proven
<1>2. CASE ~(n.status # "superseded" /\ ActiveSources(src) = {})
  <2> DEFINE retired == [k \in DOMAIN n.facts |->
                           IF n.facts[k].key = key /\ n.facts[k].status = "active"
                           THEN [n.facts[k] EXCEPT !.status = "superseded"] ELSE n.facts[k]]
             new == [key |-> key, status |-> n.status, src |-> src]
             all == Append(retired, new)
  <2>1. WithFact(n, key, src) = [n EXCEPT !.facts = all]
    BY <1>2 DEF WithFact
  <2>2. n.facts \in Seq(Fact) /\ n.status \in RecordStatus
    BY DEF Node
  <2>3. new \in Fact
    BY <2>2 DEF Fact
  <2>4. \A k \in DOMAIN n.facts : /\ retired[k] \in Fact /\ retired[k].key = n.facts[k].key
                                  /\ retired[k].src = n.facts[k].src
    <3> SUFFICES ASSUME NEW k \in DOMAIN n.facts
                 PROVE  /\ retired[k] \in Fact /\ retired[k].key = n.facts[k].key
                        /\ retired[k].src = n.facts[k].src
      OBVIOUS
    <3> DEFINE f == n.facts[k]
    <3>1. f \in Fact /\ retired[k] \in {f, [f EXCEPT !.status = "superseded"]}
      BY <2>2
    <3> HIDE DEF f, retired
    <3>2. retired[k] \in Fact /\ retired[k].key = f.key /\ retired[k].src = f.src
      BY <3>1 DEF Fact, RecordStatus
    <3> QED BY <3>2 DEF f
  <2>5. retired \in Seq(Fact) /\ Len(retired) = Len(n.facts)
    <3>1. DOMAIN retired = 1..Len(n.facts) /\ Len(n.facts) \in Nat
      BY <2>2
    <3>2. DOMAIN n.facts = 1..Len(n.facts) /\ retired = [k \in 1..Len(n.facts) |-> retired[k]]
      BY <2>2
    <3> HIDE DEF retired
    <3>3. retired \in [1..Len(n.facts) -> Fact]
      BY <2>4, <3>1, <3>2
    <3> QED BY <3>1, <3>3, SeqDef
  <2>6. \A k \in 1..Len(retired) : \A e \in retired[k].src : <<e, retired[k].key>> \in history
    BY <2>2, <2>4, <2>5 DEF Proven
  <2> HIDE DEF retired
  <2>7. /\ all \in Seq(Fact) /\ Len(all) = Len(retired) + 1
        /\ \A k \in 1..Len(retired) : all[k] = retired[k]
        /\ all[Len(retired) + 1] = new
    BY <2>3, <2>5, AppendProperties
  <2>8. \A k \in DOMAIN all : \A e \in all[k].src : <<e, all[k].key>> \in history \cup (src \X {key})
    <3>1. SUFFICES ASSUME NEW k \in 1..(Len(retired) + 1), NEW e \in all[k].src
                   PROVE  <<e, all[k].key>> \in history \cup (src \X {key})
      BY <2>7
    <3>2. CASE k \in 1..Len(retired)
      BY <2>6, <2>7, <3>2
    <3>3. CASE k = Len(retired) + 1
      BY <2>7, <3>3
    <3> QED BY <2>5, <3>2, <3>3
  <2> HIDE DEF all
  <2>9. [n EXCEPT !.facts = all] \in Node
    BY <2>7 DEF Node
  <2> QED BY <2>1, <2>8, <2>9 DEF Proven, Node
<1> QED BY <1>1, <1>2

\* What was proven stays so.
LEMMA ProvenLasts ==
  ASSUME NEW n, NEW history, NEW more, history \subseteq more, Proven(n, history)
  PROVE  Proven(n, more)
BY DEF Proven

-----------------------------------------------------------------------------
(* The steps *)

LEMMA NamesAreASequence ==
  /\ Cardinality(Name) \in Nat
  /\ \A i \in 1..Cardinality(Name) : SetToSeq(Name)[i] \in Name
<1>1. PICK n \in Nat : ExistsBijection(1..n, Name)
  BY FS_NatBijection, RecordsConstants
<1>2. n = Cardinality(Name)
  BY <1>1, FS_CountingElements
<1>3. PICK f \in [1..n -> Name] : \A i, j \in 1..n : f[i] = f[j] => i = j
  BY <1>1 DEF ExistsBijection, Bijection, Injection, IsInjective
<1>4. \E g \in [1..Cardinality(Name) -> Name] : IsInjective(g)
  BY <1>2, <1>3 DEF IsInjective
<1>5. SetToSeq(Name) \in [1..Cardinality(Name) -> Name]
  BY <1>4 DEF SetToSeq
<1> QED BY <1>1, <1>2, <1>5

LEMMA RecordsStart == RecordsInit => RecordsInv
<1> SUFFICES ASSUME RecordsInit PROVE RecordsInv
  OBVIOUS
<1>1. event \in [Source -> {"active", "superseded", "forgotten"}] /\ edges \in Seq(Edge)
  <2>1. \A S : <<>> \in Seq(S)
    OBVIOUS
  <2> QED BY <2>1 DEF RecordsInit
<1>2. CASE nodes = <<>>
  BY <1>1, <1>2 DEF RecordsInv, RecordsTypeOK
<1>3. ASSUME NEW e \in Source,
             nodes = [i \in 1..Cardinality(Name) |->
                        LET x == SetToSeq(Name)[i]
                        IN [NewNode(x) EXCEPT !.nameSrc = {e}, !.src = {e}]],
             said = {<<e, x>> : x \in Name}
      PROVE  RecordsInv
  <2> DEFINE first(x) == [NewNode(x) EXCEPT !.nameSrc = {e}, !.src = {e}]
  <2>1. ASSUME NEW x \in Name PROVE first(x) \in Node /\ Proven(first(x), said)
    <3> DEFINE node == NewNode(x)
               S == {e}
    <3>1. node \in Node /\ node.name = x /\ Proven(node, said)
      BY NewNodeIsProven DEF NewNode
    <3>2. first(x) = [node EXCEPT !.nameSrc = S, !.src = S] /\ S \subseteq Source
      OBVIOUS
    <3>3. \A d \in S : <<d, x>> \in said
      BY <1>3
    <3> HIDE DEF node, S, first
    <3>4. /\ first(x) \in Node /\ first(x).nameSrc = S /\ first(x).name = x
          /\ first(x).aliases = node.aliases /\ first(x).facts = node.facts
      BY <3>1, <3>2 DEF Node
    <3> QED BY <3>1, <3>3, <3>4 DEF Proven
  <2>2. nodes = [i \in 1..Cardinality(Name) |-> first(SetToSeq(Name)[i])]
    BY <1>3
  <2> HIDE DEF first
  <2>3. \A i \in 1..Cardinality(Name) : nodes[i] \in Node /\ Proven(nodes[i], said)
    BY <2>1, <2>2, NamesAreASequence
  <2>4. nodes \in Seq(Node) /\ DOMAIN nodes = 1..Cardinality(Name)
    BY <2>2, <2>3, NamesAreASequence
  <2> QED BY <1>1, <2>3, <2>4 DEF RecordsInv, RecordsTypeOK
<1> QED BY <1>2, <1>3 DEF RecordsInit

LEMMA ProposeNodeKeeps ==
  ASSUME RecordsInv, NEW x \in Name, NEW y \in Name, NEW src \in Cited, NEW ysrc \in Cited \cup {{}},
         NEW fsrc \in Cited \cup {{}}, NEW status \in Proposed, NEW key \in Key,
         ProposeNode(x, src, y, ysrc, status, key, fsrc)
  PROVE  RecordsInv'
<1> DEFINE i == Match({x} \cup (IF ysrc = {} THEN {} ELSE {y}))
           old == IF i = 0 THEN NewNode(x) ELSE nodes[i]
           meta == Metadata(old, x, src, y, ysrc)
           named == [meta EXCEPT !.status = status, !.src = meta.src \cup src]
           node == IF fsrc = {} THEN named ELSE WithFact(named, key, fsrc)
           said1 == said \cup (src \X {x}) \cup (ysrc \X {y})
<1>1. /\ src \subseteq Source /\ ysrc \subseteq Source /\ fsrc \subseteq Source /\ status \in RecordStatus
  BY RecordsConstants
<1>2. nodes' = Put(i, node) /\ said' = said1 \cup (fsrc \X {key}) /\ UNCHANGED <<event, edges>>
  BY DEF ProposeNode
<1>3. i = 0 \/ i \in DOMAIN nodes
  <2> DEFINE names == {x} \cup (IF ysrc = {} THEN {} ELSE {y})
             hits == {j \in DOMAIN nodes : \E z \in names : NameShown(nodes[j], z)}
  <2>1. i = IF hits = {} THEN 0 ELSE CHOOSE j \in hits : \A k \in hits : j <= k
    BY DEF Match
  <2>2. CASE hits # {}
    <3>1. hits \subseteq Nat
      BY DEF RecordsInv, RecordsTypeOK
    <3>2. \E j \in hits : \A k \in hits : j <= k
      BY <2>2, <3>1, LeastNat
    <3> HIDE DEF i
    <3> QED BY <2>1, <2>2, <3>2
  <2> QED BY <2>1, <2>2
<1>4. old \in Node /\ Proven(old, said)
  BY <1>3, NewNodeIsProven DEF RecordsInv, RecordsTypeOK
<1> HIDE DEF i, old
<1>5. meta \in Node /\ Proven(meta, said1)
  BY <1>1, <1>4, MetadataIsProven
<1> HIDE DEF meta, said1
<1>6. named \in Node /\ Proven(named, said1)
  BY <1>1, <1>5 DEF Node, Proven
<1> HIDE DEF named
<1>7. node \in Node /\ Proven(node, said')
  BY <1>1, <1>2, <1>6, FactIsProven, ProvenLasts
<1> HIDE DEF node
<1>8. said \subseteq said'
  BY <1>2 DEF said1
<1>9. /\ nodes' \in Seq(Node)
      /\ \A j \in DOMAIN nodes' : nodes'[j] = node \/ (j \in DOMAIN nodes /\ nodes'[j] = nodes[j])
  <2>1. nodes \in Seq(Node)
    BY DEF RecordsInv, RecordsTypeOK
  <2>2. CASE i = 0
    <3>1. nodes' = Append(nodes, node)
      BY <1>2, <2>2 DEF Put
    <3> QED BY <1>7, <2>1, <3>1, AppendProperties
  <2>3. CASE i \in DOMAIN nodes /\ i # 0
    <3>1. nodes' = [nodes EXCEPT ![i] = node]
      BY <1>2, <2>3 DEF Put
    <3> QED BY <1>7, <2>1, <2>3, <3>1
  <2> QED BY <1>3, <2>2, <2>3
<1>10. \A j \in DOMAIN nodes' : Proven(nodes'[j], said')
  BY <1>7, <1>8, <1>9, ProvenLasts DEF RecordsInv
<1> QED BY <1>2, <1>9, <1>10 DEF RecordsInv, RecordsTypeOK

LEMMA ProposeEdgeKeeps ==
  ASSUME RecordsInv, NEW f \in DOMAIN nodes, NEW t \in DOMAIN nodes, NEW r \in Relation, NEW status \in Proposed,
         NEW src \in Cited, ProposeEdge(f, t, r, status, src)
  PROVE  RecordsInv'
<1>1. nodes \in Seq(Node) /\ edges \in Seq(Edge) /\ f \in Nat /\ t \in Nat
  BY DEF RecordsInv, RecordsTypeOK
<1> DEFINE new == [from |-> f, to |-> t, relation |-> r, status |-> status, src |-> src]
           same == SameEdge(f, t, r, status)
<1>2. new \in Edge /\ src \subseteq Source
  BY <1>1, RecordsConstants DEF Edge
<1>3. ASSUME NEW gone PROVE Superseded(gone) \in Seq(Edge) /\ DOMAIN Superseded(gone) = DOMAIN edges
  <2>1. ASSUME NEW k \in DOMAIN edges
        PROVE  Superseded(gone)[k] \in Edge
    <3> DEFINE edge == edges[k]
    <3>1. edge \in Edge /\ Superseded(gone)[k] \in {edge, [edge EXCEPT !.status = "superseded"]}
      BY <1>1 DEF Superseded
    <3> HIDE DEF edge
    <3> QED BY <3>1 DEF Edge, RecordStatus
  <2>2. DOMAIN edges = 1..Len(edges) /\ Len(edges) \in Nat
    BY <1>1
  <2>3. Superseded(gone) = [k \in DOMAIN edges |-> Superseded(gone)[k]]
    BY DEF Superseded
  <2> HIDE DEF Superseded
  <2>4. Superseded(gone) \in [1..Len(edges) -> Edge]
    BY <2>1, <2>2, <2>3
  <2> QED BY <2>2, <2>3, <2>4, SeqDef
<1>4. edges' \in Seq(Edge)
  <2>1. PICK gone : IF same = {}
                    THEN edges' = Append(Superseded(gone), new)
                    ELSE edges' = LET k == CHOOSE j \in same : \A l \in same : j <= l
                                  IN [Superseded(gone) EXCEPT ![k].src = @ \cup src]
    BY DEF ProposeEdge
  <2>2. CASE same = {}
    BY <1>2, <1>3, <2>1, <2>2, AppendProperties
  <2>3. CASE same # {}
    <3> DEFINE k == CHOOSE j \in same : \A l \in same : j <= l
               old == Superseded(gone)
    <3>1. edges' = [old EXCEPT ![k].src = @ \cup src]
      BY <2>1, <2>3
    <3>2. same \subseteq DOMAIN edges /\ same \subseteq Nat
      BY <1>1 DEF SameEdge
    <3>3. k \in DOMAIN old /\ old \in Seq(Edge)
      BY <1>3, <2>3, <3>2, LeastNat
    <3> HIDE DEF k, old
    <3> DEFINE edge == old[k]
               more == [edge EXCEPT !.src = edge.src \cup src]
    <3>4. edge \in Edge
      BY <3>3
    <3>5. edges' = [old EXCEPT ![k] = more]
      BY <3>1
    <3> HIDE DEF edge
    <3>6. more \in Edge
      BY <1>2, <3>4 DEF Edge
    <3> HIDE DEF more
    <3> QED BY <3>3, <3>5, <3>6
  <2> QED BY <2>2, <2>3
<1> QED BY <1>4 DEF ProposeEdge, RecordsInv, RecordsTypeOK

LEMMA RecordsStep ==
  ASSUME RecordsInv, [RecordsNext]_recordVars
  PROVE  RecordsInv'
<1>1. CASE UNCHANGED recordVars
  BY <1>1 DEF recordVars, RecordsInv, RecordsTypeOK
<1>2. CASE ProposeNodes
  BY <1>2, ProposeNodeKeeps DEF ProposeNodes
<1>3. CASE ProposeEdges
  BY <1>3, ProposeEdgeKeeps DEF ProposeEdges
<1>4. ASSUME NEW e \in Source, Demote(e)
      PROVE  RecordsInv'
  BY <1>4 DEF Demote, RecordsInv, RecordsTypeOK
<1> QED BY <1>1, <1>2, <1>3, <1>4 DEF RecordsNext, Demotions

\* What a view shows of a proven node is proven.
LEMMA ShownIsProven ==
  ASSUME RecordsInv
  PROVE  ViewIsProven
<1> SUFFICES ASSUME NEW i \in DOMAIN nodes, NEW ids \in SUBSET Source, NEW s \in BoundShown(i, ids)
             PROVE  s[2] # {} /\ \A e \in s[2] : <<e, s[1]>> \in said
  BY DEF ViewIsProven
<1> DEFINE n == nodes[i]
<1>1. PICK t \in Shown(i) : t[2] \cap ids # {} /\ s = <<t[1], t[2] \cap ids>>
  BY DEF BoundShown
<1>2. Proven(n, said)
  BY DEF RecordsInv
<1>3. Viewable(i)
  BY <1>1 DEF Shown
<1>4. \/ t = <<n.name, n.nameSrc \cap Exposable>>
      \/ \E x \in Name : t = <<x, n.aliases[x] \cap Exposable>>
      \/ \E k \in DOMAIN n.facts : t = <<n.facts[k].key, n.facts[k].src \cap Exposable>>
  BY <1>1, <1>3 DEF Shown
<1> HIDE DEF n
<1>5. \A e \in t[2] : <<e, t[1]>> \in said
  BY <1>2, <1>4 DEF Proven
<1> QED BY <1>1, <1>5

\* The nodes and edges have their types: a fact has the status of its node when it was written, or
\* was retired since.
THEOREM RecordsAreTyped == RecordsSpec => []RecordsTypeOK
<1>1. RecordsInv => RecordsTypeOK
  BY DEF RecordsInv
<1> QED BY <1>1, RecordsStart, RecordsStep, PTL DEF RecordsSpec

\* For any Events, names, facts, relations and proposals: whatever a view shows to a reader who
\* may cite only some Events is cited for Events a projection gave for exactly that, through any
\* merges by name and alias (applyGraphProjection, effectiveGraphNodeView, boundEffectiveGraphNodeView).
THEOREM ViewsAreProven == RecordsSpec => []ViewIsProven
<1> QED BY ShownIsProven, RecordsStart, RecordsStep, PTL DEF RecordsSpec

-----------------------------------------------------------------------------
(* Topics: what is shown is current *)

\* Records with their fields, whatever their ids.
ATopic(t) ==
  t \in [id: {t.id}, members: SUBSET TopicEvent, srcVer: {t.srcVer}, dep: Versions, read: {t.read},
         invalid: BOOLEAN, edit: {t.edit}]
AJob(j) ==
  j \in [id: {j.id}, src: SUBSET TopicEvent, srcVer: Versions, dep: Versions, cand: {j.cand}, status: {j.status},
         attempts: {j.attempts}, due: {j.due}, leased: {j.leased}, depth: {j.depth}, manual: {j.manual}]

\* What a chapter depends on is as the Events are.
TopicFits(v, t) == ATopic(t) /\ CurrentIn(v, t.dep)

\* What a chapter of the projection was derived from is what it depends on.
Backed(v, t) ==
  /\ t.invalid => t.read = Nothing
  /\ ~t.invalid => t.read \in Versions /\ CurrentIn(v, t.read) /\ In(t.read) \subseteq In(t.dep)

\* What an attempt was given, and what the chapters it was shown depend on, is what it depends on.
Informed(j) == \A c \in j.cand : ~c.invalid => In(c.dep) \subseteq In(j.dep)
JobFits(v, j) ==
  /\ AJob(j)
  /\ CurrentIn(v, j.srcVer) /\ CurrentIn(v, j.dep) /\ In(j.srcVer) \subseteq j.src
  /\ j.status = "running" => In(j.srcVer) \subseteq In(j.dep) /\ Informed(j)

AllTopicsFit(v, ts) == \A t \in ts : TopicFits(v, t)
AllJobsFit(v, js) == \A j \in js : JobFits(v, j)
TopicsInv == ver \in Versions /\ AllTopicsFit(ver, topics) /\ AllJobsFit(ver, topicJobs)

\* Kept by the projection; Dreaming keeps TopicsInv only.
AllBacked(v, ts) == \A t \in ts : Backed(v, t)
BackedInv == TopicsInv /\ AllBacked(ver, topics)

-----------------------------------------------------------------------------
(* Synchronization *)

LEMMA VersionFacts ==
  /\ Nothing \in Versions /\ In(Nothing) = {}
  /\ \A v : CurrentIn(v, Nothing)
  /\ ver \in Versions => \A es : Now(es) \in Versions /\ CurrentIn(ver, Now(es)) /\ In(Now(es)) \subseteq es
<1>1. Nothing \in Versions /\ In(Nothing) = {} /\ \A v : CurrentIn(v, Nothing)
  BY TopicConstants DEF Nothing, Versions, In, CurrentIn
<1>2. ASSUME ver \in Versions, NEW es
      PROVE  Now(es) \in Versions /\ CurrentIn(ver, Now(es)) /\ In(Now(es)) \subseteq es
  BY <1>2, TopicConstants DEF Now, Versions, CurrentIn, In
<1> QED BY <1>1, <1>2

LEMMA RedactedFits ==
  ASSUME NEW u \in Versions, NEW v \in Versions, NEW t, TopicFits(u, t)
  PROVE  TopicFits(v, Redacted(v, t))
<1>1. CASE CurrentIn(v, t.dep)
  BY <1>1 DEF TopicFits, Redacted
<1>2. CASE ~CurrentIn(v, t.dep)
  <2> DEFINE src == [e \in TopicEvent |-> IF e \in t.members THEN v[e] ELSE 0]
             dep == [e \in TopicEvent |-> IF e \in t.members \cup In(t.dep) THEN v[e] ELSE 0]
             r == [id |-> t.id, members |-> t.members, srcVer |-> src, dep |-> dep, read |-> Nothing,
                   invalid |-> TRUE, edit |-> t.edit]
  <2>1. dep \in Versions /\ CurrentIn(v, dep)
    BY TopicConstants DEF Versions, CurrentIn
  <2> HIDE DEF src, dep
  <2>2. Redacted(v, t) = r
    BY <1>2 DEF Redacted, TopicFits, ATopic, src, dep
  <2>3. TopicFits(v, r)
    BY <2>1 DEF TopicFits, ATopic
  <2> QED BY <2>2, <2>3
<1> QED BY <1>1, <1>2

\* What is left of a chapter has no prose, or the Events its prose rests on are what they were.
LEMMA RedactedIsBacked ==
  ASSUME NEW u \in Versions, NEW v \in Versions, NEW t, TopicFits(u, t), Backed(u, t)
  PROVE  Backed(v, Redacted(v, t))
<1>1. CASE CurrentIn(v, t.dep)
  <2>1. ASSUME ~t.invalid PROVE CurrentIn(v, t.read)
    BY <1>1, <2>1 DEF Backed, TopicFits, CurrentIn, In
  <2> QED BY <1>1, <2>1 DEF Backed, Redacted
<1>2. CASE ~CurrentIn(v, t.dep)
  <2>1. ATopic(t)
    BY DEF TopicFits
  <2>2. Redacted(v, t).invalid = TRUE /\ Redacted(v, t).read = Nothing
    BY <1>2, <2>1 DEF Redacted, ATopic
  <2> QED BY <2>2 DEF Backed
<1> QED BY <1>1, <1>2

LEMMA RemainingFits ==
  ASSUME NEW u \in Versions, NEW v \in Versions, NEW j, JobFits(u, j),
         CurrentIn(v, Under(j.srcVer, j.dep))
  PROVE  JobFits(v, j)
<1>1. CurrentIn(v, j.dep)
  BY DEF JobFits, AJob, CurrentIn, Under, Versions
<1>2. CurrentIn(v, j.srcVer)
  BY <1>1 DEF JobFits, AJob, CurrentIn, Under, Versions
<1> QED BY <1>1, <1>2 DEF JobFits

LEMMA SyncKeeps ==
  ASSUME ver \in Versions, NEW v \in Versions, NEW ts, NEW js, NEW pr, NEW rb,
         AllTopicsFit(ver, ts), AllJobsFit(ver, js), SyncTo(v, ts, js, pr, rb)
  PROVE  TopicsInv'
<1>1. ver' = v /\ topics' = {Redacted(v, t) : t \in ts} /\ topicJobs' = Remaining(v, js, Unprojected(v, ts, pr))
  BY DEF SyncTo
<1>2. AllTopicsFit(v, topics')
  BY <1>1, RedactedFits DEF AllTopicsFit
<1>3. AllJobsFit(v, topicJobs')
  BY <1>1, RemainingFits DEF AllJobsFit, Remaining
<1> QED BY <1>1, <1>2, <1>3 DEF TopicsInv

LEMMA SyncKeepsBacked ==
  ASSUME ver \in Versions, NEW v \in Versions, NEW ts, NEW js, NEW pr, NEW rb,
         AllTopicsFit(ver, ts), AllBacked(ver, ts), SyncTo(v, ts, js, pr, rb)
  PROVE  AllBacked(ver', topics')
<1>1. ver' = v /\ topics' = {Redacted(v, t) : t \in ts}
  BY DEF SyncTo
<1>2. AllBacked(v, topics')
  BY <1>1, RedactedIsBacked DEF AllTopicsFit, AllBacked
<1> QED BY <1>1, <1>2

-----------------------------------------------------------------------------
(* The jobs *)

LEMMA NewJobFits ==
  ASSUME ver \in Versions, NEW src \in SUBSET TopicEvent, NEW manual
  PROVE  JobFits(ver, [NewTopicJob(src) EXCEPT !.manual = manual]) /\ JobFits(ver, NewTopicJob(src))
<1> DEFINE n == Now(src)
<1>1. n \in Versions /\ CurrentIn(ver, n) /\ In(n) \subseteq src
  BY VersionFacts
<1>2. Nothing \in Versions /\ CurrentIn(ver, Nothing)
  BY VersionFacts
<1> HIDE DEF n
<1> QED BY <1>1, <1>2 DEF NewTopicJob, JobFits, AJob, n

\* A job that does not run, with the inputs of one that fits.
LEMMA RestingFits ==
  ASSUME NEW v, NEW j, JobFits(v, j), NEW r, AJob(r),
         r.src = j.src, r.srcVer = j.srcVer, r.dep = j.dep, r.status # "running"
  PROVE  JobFits(v, r)
BY DEF JobFits

LEMMA FailedFits ==
  ASSUME NEW v, NEW j, JobFits(v, j)
  PROVE  JobFits(v, Failed(j))
<1>1. AJob(Failed(j)) /\ Failed(j).src = j.src /\ Failed(j).srcVer = j.srcVer /\ Failed(j).dep = j.dep
      /\ Failed(j).status = "failed"
  BY DEF Failed, JobFits, AJob
<1> QED BY <1>1, RestingFits

LEMMA RecoveredFit ==
  ASSUME NEW v, NEW js, AllJobsFit(v, js)
  PROVE  AllJobsFit(v, Recovered(js))
<1> DEFINE due(j) == IF j.attempts < TopicAttempts THEN "ripe" ELSE "never"
           r(j) == [j EXCEPT !.status = "failed", !.cand = {}, !.due = due(j)]
<1> HIDE DEF due
<1>1. ASSUME NEW j \in js PROVE JobFits(v, r(j))
  <2>1. JobFits(v, j)
    BY DEF AllJobsFit
  <2>2. AJob(r(j)) /\ r(j).src = j.src /\ r(j).srcVer = j.srcVer /\ r(j).dep = j.dep /\ r(j).status = "failed"
    BY <2>1 DEF JobFits, AJob
  <2> QED BY <2>1, <2>2, RestingFits
<1>2. \A j \in Recovered(js) : j \in js \/ \E i \in js : j = r(i)
  BY DEF Recovered, due
<1> QED BY <1>1, <1>2 DEF AllJobsFit

\* Half of a batch starts over.
LEMMA HalfFits ==
  ASSUME ver \in Versions, NEW j, JobFits(ver, j), NEW part \in SUBSET TopicEvent, NEW depth
  PROVE  JobFits(ver, [Failed(j) EXCEPT !.src = part, !.srcVer = Now(part), !.dep = Nothing, !.status = "pending",
                                        !.attempts = 0, !.depth = depth])
<1> DEFINE n == Now(part)
           f == Failed(j)
           r == [f EXCEPT !.src = part, !.srcVer = n, !.dep = Nothing, !.status = "pending",
                          !.attempts = 0, !.depth = depth]
<1>1. n \in Versions /\ CurrentIn(ver, n) /\ In(n) \subseteq part /\ Nothing \in Versions /\ CurrentIn(ver, Nothing)
  BY VersionFacts
<1>2. AJob(f)
  BY FailedFits DEF JobFits
<1> HIDE DEF n, f
<1>3. AJob(r) /\ r.src = part /\ r.srcVer = n /\ r.dep = Nothing /\ r.status = "pending"
  BY <1>1, <1>2 DEF AJob
<1> HIDE DEF r
<1>4. JobFits(ver, r)
  BY <1>1, <1>3 DEF JobFits
<1> QED BY <1>4 DEF n, f, r

\* An attempt depends on all that the chapters it is shown depend on.
LEMMA StartedFits ==
  ASSUME TopicsInv, NEW j, JobFits(ver, j), NEW cand \in SUBSET topics, NEW id, NEW n
  PROVE  JobFits(ver, [j EXCEPT !.id = id, !.status = "running", !.attempts = n, !.due = "never",
                                !.leased = TRUE, !.manual = FALSE, !.cand = cand,
                                !.dep = Dependencies(j.src, cand)])
<1> DEFINE d == Dependencies(j.src, cand)
           r == [j EXCEPT !.id = id, !.status = "running", !.attempts = n, !.due = "never", !.leased = TRUE,
                          !.manual = FALSE, !.cand = cand, !.dep = d]
<1>0. ver \in Versions
  BY DEF TopicsInv
<1>1. d \in Versions /\ CurrentIn(ver, d)
  BY <1>0, VersionFacts DEF Dependencies
<1>2. In(j.srcVer) \subseteq In(d)
  BY <1>0 DEF Dependencies, Now, In, JobFits, CurrentIn
<1>3. ASSUME NEW c \in cand, ~c.invalid PROVE In(c.dep) \subseteq In(d)
  <2>1. CurrentIn(ver, c.dep)
    BY <1>3 DEF TopicsInv, AllTopicsFit, TopicFits
  <2>2. ASSUME NEW e \in In(c.dep) PROVE e \in In(d)
    <3>1. e \in TopicEvent /\ ver[e] # 0
      BY <2>1, <2>2 DEF In, CurrentIn
    <3>2. e \in (c.members \cup (IF c.invalid THEN {} ELSE In(c.dep))) \cap Visible
      BY <1>3, <2>2, <3>1 DEF Visible
    <3>3. e \in UNION {(t.members \cup (IF t.invalid THEN {} ELSE In(t.dep))) \cap Visible : t \in cand}
      BY <3>2
    <3> QED BY <3>1, <3>3 DEF Dependencies, Now, In
  <2> QED BY <2>2
<1> HIDE DEF d
<1>4. AJob(r) /\ r.src = j.src /\ r.srcVer = j.srcVer /\ r.dep = d /\ r.cand = cand
  BY <1>1 DEF JobFits, AJob
<1> HIDE DEF r
<1>5. JobFits(ver, r)
  BY <1>1, <1>2, <1>3, <1>4 DEF JobFits, Informed
<1> QED BY <1>5 DEF d, r

-----------------------------------------------------------------------------
(* The answers *)

Inherited(j) == [e \in TopicEvent |-> Max({0} \cup {c.read[e] : c \in j.cand})]

LEMMA InheritedIsCurrent ==
  ASSUME BackedInv, NEW j, JobFits(ver, j), Acceptable(j), NEW e \in TopicEvent
  PROVE  /\ Inherited(j)[e] \in {0, ver[e]}
         /\ Inherited(j)[e] # 0 => j.dep[e] # 0
<1> DEFINE S == {0} \cup {c.read[e] : c \in j.cand}
<1>1. ver[e] \in Nat
  BY TopicConstants DEF BackedInv, TopicsInv, Versions
<1>2. ASSUME NEW c \in j.cand PROVE c.read[e] = 0 \/ (c.read[e] = ver[e] /\ j.dep[e] # 0)
  <2>1. Backed(ver, c) /\ ATopic(c) /\ (~c.invalid => In(c.dep) \subseteq In(j.dep))
    BY DEF Acceptable, BackedInv, TopicsInv, AllTopicsFit, TopicFits, AllBacked, JobFits, Informed
  <2>2. CASE c.invalid
    BY <2>1, <2>2 DEF Backed, Nothing
  <2>3. CASE ~c.invalid
    BY <2>1, <2>3 DEF Backed, CurrentIn, In
  <2> QED BY <2>2, <2>3
<1>3. S \subseteq {0, ver[e]} /\ 0 \in S
  BY <1>2
<1>4. Max(S) \in S
  <2> HIDE DEF S
  <2>1. \E x \in S : \A y \in S : x >= y
    BY <1>1, <1>3
  <2> QED BY <2>1 DEF Max
<1>5. Inherited(j)[e] = Max(S)
  BY DEF Inherited
<1> QED BY <1>2, <1>3, <1>4, <1>5

LEMMA WrittenFits ==
  ASSUME TopicsInv, NEW j, JobFits(ver, j), NEW t, TopicFits(ver, t), NEW es \in SUBSET TopicEvent
  PROVE  TopicFits(ver, Written(j, t, es))
<1> DEFINE old == IF t.invalid THEN Nothing ELSE t.dep
           was == IF t.invalid THEN Nothing ELSE t.read
           dep == Under(old, j.dep)
           read == Under(Under(was, j.srcVer), Inherited(j))
           members == (t.members \cap Visible) \cup es
           src == Now(members)
           r == [t EXCEPT !.members = members, !.srcVer = src, !.dep = dep, !.read = read, !.invalid = FALSE]
<1>1. j.dep \in Versions /\ CurrentIn(ver, j.dep)
  BY DEF JobFits, AJob
<1>2. old \in Versions /\ CurrentIn(ver, old)
  BY VersionFacts DEF TopicFits, ATopic
<1> HIDE DEF old, was
<1>3. dep \in Versions /\ CurrentIn(ver, dep)
  BY <1>1, <1>2 DEF Under, Versions, CurrentIn
<1>4. members \subseteq TopicEvent
  BY DEF TopicFits, ATopic, Visible
<1>5. Written(j, t, es) = r
  BY Zenon DEF Written, Inherited, old, was
<1> HIDE DEF dep, read, members, src
<1>6. ATopic(r) /\ r.dep = dep
  BY <1>3, <1>4 DEF TopicFits, ATopic
<1> HIDE DEF r
<1>7. TopicFits(ver, r)
  BY <1>3, <1>6 DEF TopicFits
<1> QED BY <1>5, <1>7

\* What the model writes rests on the batch, on the chapter's own prose and on the prose of the
\* chapters it was shown, and its dependencies name all of that.
LEMMA WrittenIsBacked ==
  ASSUME BackedInv, NEW j, JobFits(ver, j), Acceptable(j), NEW t, TopicFits(ver, t), Backed(ver, t),
         NEW es \in SUBSET TopicEvent
  PROVE  Backed(ver, Written(j, t, es))
<1> DEFINE old == IF t.invalid THEN Nothing ELSE t.dep
           was == IF t.invalid THEN Nothing ELSE t.read
           dep == Under(old, j.dep)
           read == Under(Under(was, j.srcVer), Inherited(j))
           members == (t.members \cap Visible) \cup es
           src == Now(members)
           r == [t EXCEPT !.members = members, !.srcVer = src, !.dep = dep, !.read = read, !.invalid = FALSE]
<1>1. ver \in Versions /\ j.dep \in Versions /\ j.srcVer \in Versions
  BY DEF BackedInv, TopicsInv, JobFits, AJob
<1>2. /\ was \in Versions /\ CurrentIn(ver, was) /\ In(was) \subseteq In(old)
  BY VersionFacts DEF Backed
<1>3. CurrentIn(ver, j.srcVer) /\ In(j.srcVer) \subseteq In(j.dep)
  BY DEF JobFits, Acceptable
<1> HIDE DEF old, was
<1>4. ASSUME NEW e \in TopicEvent
      PROVE  read[e] \in {0, ver[e]} /\ (read[e] # 0 => dep[e] # 0)
  <2>1. Inherited(j)[e] \in {0, ver[e]} /\ (Inherited(j)[e] # 0 => j.dep[e] # 0)
    BY InheritedIsCurrent
  <2> HIDE DEF Inherited
  <2>2. read[e] = IF Inherited(j)[e] # 0 THEN Inherited(j)[e] ELSE IF j.srcVer[e] # 0 THEN j.srcVer[e] ELSE was[e]
    BY DEF Under
  <2>3. dep[e] = IF j.dep[e] # 0 THEN j.dep[e] ELSE old[e]
    BY DEF Under
  <2>4. j.srcVer[e] # 0 => j.srcVer[e] = ver[e] /\ j.dep[e] # 0
    BY <1>3 DEF CurrentIn, In
  <2>5. was[e] # 0 => was[e] = ver[e] /\ old[e] # 0
    BY <1>2 DEF CurrentIn, In
  <2> HIDE DEF read, dep
  <2> QED BY <2>1, <2>2, <2>3, <2>4, <2>5
<1>5. read \in Versions /\ CurrentIn(ver, read) /\ In(read) \subseteq In(dep)
  <2>1. read = [e \in TopicEvent |-> read[e]]
    BY DEF Under
  <2> HIDE DEF read, dep
  <2>2. \A e \in TopicEvent : read[e] \in 0..MaxVersion
    BY <1>1, <1>4, TopicConstants DEF Versions
  <2> QED BY <1>4, <2>1, <2>2 DEF Versions, CurrentIn, In
<1>6. Written(j, t, es) = r
  BY Zenon DEF Written, Inherited, old, was
<1>7. ATopic(t)
  BY DEF TopicFits
<1> HIDE DEF dep, read, members, src
<1>8. r.dep = dep /\ r.read = read /\ r.invalid = FALSE
  BY <1>7 DEF ATopic
<1> HIDE DEF r
<1>9. Backed(ver, r)
  BY <1>5, <1>8 DEF Backed
<1> QED BY <1>6, <1>9

-----------------------------------------------------------------------------
(* The steps *)

LEMMA StartKeeps ==
  ASSUME TopicsInv, NEW w, NEW js, AllJobsFit(ver, js), NEW j, JobFits(ver, j),
         NEW cand \in SUBSET topics, Start(w, js, j, cand)
  PROVE  TopicsInv'
<1> DEFINE r == [j EXCEPT !.id = FreshId, !.status = "running", !.attempts = j.attempts + 1, !.due = "never",
                          !.leased = TRUE, !.manual = FALSE, !.cand = cand, !.dep = Dependencies(j.src, cand)]
<1>1. SyncTo(ver, topics, (js \ {j}) \cup {r}, projected, rebuild)
  BY DEF Start
<1>2. JobFits(ver, r)
  BY StartedFits
<1> HIDE DEF r
<1>3. AllJobsFit(ver, (js \ {j}) \cup {r})
  BY <1>2 DEF AllJobsFit
<1> QED BY <1>1, <1>3, SyncKeeps DEF TopicsInv

LEMMA ClaimKeeps ==
  ASSUME TopicsInv, NEW w, NEW mode, Claim(w, mode)
  PROVE  TopicsInv'
<1> DEFINE js == Recovered(topicJobs)
<1>1. AllJobsFit(ver, js) /\ ver \in Versions /\ AllTopicsFit(ver, topics)
  BY RecoveredFit DEF TopicsInv
<1>2. CASE UNCHANGED <<ver, topics, topicJobs>>
  BY <1>2 DEF TopicsInv
<1>3. CASE SyncTo(ver, topics, js, projected, rebuild)
  BY <1>1, <1>3, SyncKeeps
<1>4. ASSUME NEW cand \in SUBSET topics, NEW j \in js, Start(w, js, j, cand) PROVE TopicsInv'
  <2>1. JobFits(ver, j)
    BY <1>1 DEF AllJobsFit
  <2> HIDE DEF js
  <2> QED BY <1>1, <1>4, <2>1, StartKeeps
<1>5. ASSUME NEW cand \in SUBSET topics, NEW b \in SUBSET PendingWork(js, mode), Start(w, js, NewTopicJob(b), cand)
      PROVE  TopicsInv'
  <2>1. JobFits(ver, NewTopicJob(b))
    BY <1>1, NewJobFits DEF PendingWork, Visible
  <2> HIDE DEF js
  <2> QED BY <1>1, <1>5, <2>1, StartKeeps
<1>6. Preferred(Eligible(js, mode)) \subseteq js
  BY DEF Preferred, Eligible
<1> QED BY <1>2, <1>3, <1>4, <1>5, <1>6 DEF Claim

\* An answer: the chapters it leaves fit, and are backed if those before it were.
LEMMA CompleteTopicKeeps ==
  ASSUME TopicsInv, NEW w, CompleteTopic(w)
  PROVE  TopicsInv' /\ (BackedInv => AllBacked(ver', topics'))
<1> DEFINE exposed(j) == j.src \cup UNION {t.members \cap Visible : t \in j.cand}
           to(given) == {n \in DOMAIN given : given[n] # {}}
           chapter(n) == IF \E t \in topics : t.id = n THEN CHOOSE t \in topics : t.id = n
                         ELSE [id |-> n, members |-> {}, srcVer |-> Nothing, dep |-> Nothing,
                               read |-> Nothing, invalid |-> FALSE, edit |-> 0]
           written(j, given) == {Written(j, chapter(n), given[n]) : n \in to(given)}
           pr(j) == Under(projected, j.srcVer)
           all(j, given) == {t \in topics : t.id \notin to(given)} \cup written(j, given)
           kept(j, given) == {t \in all(j, given) : ~t.invalid \/ \E e \in t.members \cap Visible : pr(j)[e] # ver[e]}
           left(j) == [e \in TopicEvent |-> IF rebuild[e] = j.srcVer[e] THEN 0 ELSE rebuild[e]]
<1>1. PICK j \in topicJobs : Acceptable(j) /\ \E given \in [{t.id : t \in j.cand} \cup {FreshTopic} -> SUBSET exposed(j)] :
         SyncTo(ver, kept(j, given), topicJobs \ {j}, pr(j), left(j))
  BY Zenon DEF CompleteTopic
<1>2. PICK given \in [{t.id : t \in j.cand} \cup {FreshTopic} -> SUBSET exposed(j)] :
         SyncTo(ver, kept(j, given), topicJobs \ {j}, pr(j), left(j))
  BY <1>1, Zenon
<1>3. ver \in Versions /\ AllTopicsFit(ver, topics) /\ AllJobsFit(ver, topicJobs \ {j}) /\ JobFits(ver, j)
  BY DEF TopicsInv, AllJobsFit
<1>4. ASSUME NEW n PROVE TopicFits(ver, chapter(n)) /\ (BackedInv => Backed(ver, chapter(n)))
  <2>1. CASE \E t \in topics : t.id = n
    BY <1>3, <2>1 DEF AllTopicsFit, BackedInv, AllBacked
  <2>2. CASE ~\E t \in topics : t.id = n
    BY <2>2, VersionFacts DEF TopicFits, ATopic, Backed
  <2> QED BY <2>1, <2>2
<1> HIDE DEF chapter, pr, left
<1>5. exposed(j) \subseteq TopicEvent
  BY <1>3 DEF JobFits, AJob, Visible
<1> HIDE DEF exposed
<1>6. \A n \in to(given) : given[n] \in SUBSET TopicEvent
  BY <1>2, <1>5
<1> HIDE DEF to
<1>7. ASSUME NEW t \in written(j, given) PROVE TopicFits(ver, t) /\ (BackedInv => Backed(ver, t))
  <2>1. PICK n \in to(given) : t = Written(j, chapter(n), given[n])
    OBVIOUS
  <2>2. given[n] \in SUBSET TopicEvent
    BY <1>6, <2>1
  <2>3. TopicFits(ver, t)
    BY <1>3, <1>4, <2>1, <2>2, WrittenFits
  <2>4. ASSUME BackedInv PROVE Backed(ver, t)
    BY <1>1, <1>3, <1>4, <2>1, <2>2, <2>4, WrittenIsBacked
  <2> QED BY <2>3, <2>4
<1> HIDE DEF written
<1>8. AllTopicsFit(ver, kept(j, given)) /\ (BackedInv => AllBacked(ver, kept(j, given)))
  BY <1>3, <1>7 DEF AllTopicsFit, AllBacked, BackedInv
<1> HIDE DEF kept
<1>9. TopicsInv'
  BY <1>2, <1>3, <1>8, SyncKeeps
<1>10. ASSUME BackedInv PROVE AllBacked(ver', topics')
  BY <1>2, <1>3, <1>8, <1>10, SyncKeepsBacked
<1> QED BY <1>9, <1>10

LEMMA FailTopicKeeps ==
  ASSUME TopicsInv, NEW w, FailTopic(w)
  PROVE  TopicsInv'
<1> DEFINE half(j, part) == [Failed(j) EXCEPT !.src = part, !.srcVer = Now(part), !.dep = Nothing, !.status = "pending",
                                              !.attempts = 0, !.depth = @ + 1]
           failed == {(topicJobs \ {j}) \cup {Failed(j)} : j \in {k \in Running : k.id = hand[w].id}}
           halved(j) == {(topicJobs \ {j}) \cup {half(j, part) : part \in h} : h \in Halves(j)}
           cut == UNION {halved(j) : j \in {k \in Running : k.id = hand[w].id /\ MaySplit(k)}}
<1>1. PICK js \in {topicJobs} \cup failed \cup cut : SyncTo(ver, topics, js, projected, rebuild)
  BY Zenon DEF FailTopic
<1>2. ver \in Versions /\ AllTopicsFit(ver, topics) /\ \A j \in topicJobs : JobFits(ver, j)
  BY DEF TopicsInv, AllJobsFit
<1>3. Running \subseteq topicJobs
  BY DEF Running
<1>4. \A j \in topicJobs : JobFits(ver, Failed(j))
  BY <1>2, FailedFits
<1>5. ASSUME NEW j \in topicJobs, NEW h \in Halves(j), NEW part \in h PROVE JobFits(ver, half(j, part))
  <2>1. part \subseteq TopicEvent
    BY <1>2 DEF Halves, JobFits, AJob
  <2> QED BY <1>2, <2>1, HalfFits
<1> HIDE DEF half
<1>6. \/ js = topicJobs \/ \E j \in topicJobs : js = (topicJobs \ {j}) \cup {Failed(j)}
      \/ \E j \in topicJobs : \E h \in Halves(j) : js = (topicJobs \ {j}) \cup {half(j, part) : part \in h}
  BY <1>1, <1>3
<1>7. AllJobsFit(ver, js)
  BY <1>2, <1>4, <1>5, <1>6 DEF AllJobsFit
<1> QED BY <1>1, <1>2, <1>7, SyncKeeps

LEMMA RequeuedFits ==
  ASSUME TopicsInv, NEW j \in topicJobs, NEW manual
  PROVE  JobFits(ver, Requeued(j, manual))
<1> DEFINE left == {e \in j.src : projected[e] # ver[e]}
<1>1. left \subseteq TopicEvent /\ ver \in Versions
  BY DEF TopicsInv, AllJobsFit, JobFits, AJob
<1>2. Requeued(j, manual) = [NewTopicJob(left) EXCEPT !.manual = manual]
  BY DEF Requeued
<1> HIDE DEF left
<1> QED BY <1>1, <1>2, NewJobFits

LEMMA UserKeeps ==
  ASSUME TopicsInv, RetryTopic \/ OpenTopics \/ \E e \in TopicEvent : EditEvent(e)
  PROVE  TopicsInv'
<1>1. ver \in Versions /\ AllTopicsFit(ver, topics) /\ AllJobsFit(ver, topicJobs)
  BY DEF TopicsInv
<1>2. CASE RetryTopic
  <2>1. PICK j \in topicJobs : SyncTo(ver, topics, (topicJobs \ {j}) \cup {Requeued(j, TRUE)}, projected, rebuild)
    BY <1>2 DEF RetryTopic
  <2>2. AllJobsFit(ver, (topicJobs \ {j}) \cup {Requeued(j, TRUE)})
    BY <1>1, RequeuedFits DEF AllJobsFit
  <2> QED BY <1>1, <2>1, <2>2, SyncKeeps
<1>3. CASE OpenTopics
  <2> DEFINE js == {IF Exhausted(j) THEN Requeued(j, FALSE) ELSE j : j \in topicJobs}
  <2>1. SyncTo(ver, topics, js, projected, rebuild)
    BY <1>3 DEF OpenTopics
  <2>2. AllJobsFit(ver, js)
    BY <1>1, RequeuedFits DEF AllJobsFit
  <2> HIDE DEF js
  <2> QED BY <1>1, <2>1, <2>2, SyncKeeps
<1>4. ASSUME NEW e \in TopicEvent, EditEvent(e) PROVE TopicsInv'
  <2>1. PICK n \in 0..MaxVersion : SyncTo([ver EXCEPT ![e] = n], topics, topicJobs, projected, rebuild)
    BY <1>4 DEF EditEvent
  <2>2. [ver EXCEPT ![e] = n] \in Versions
    BY <1>1 DEF Versions
  <2> QED BY <1>1, <2>1, <2>2, SyncKeeps
<1> QED BY <1>2, <1>3, <1>4

\* Time is not an input.
LEMMA TimeKeeps ==
  ASSUME TopicsInv, TopicLeaseEnds \/ TopicBackoffEnds
  PROVE  TopicsInv'
<1>1. ASSUME NEW j \in topicJobs
      PROVE  JobFits(ver, [j EXCEPT !.leased = FALSE]) /\ JobFits(ver, [j EXCEPT !.due = "ripe"])
  <2>1. JobFits(ver, j)
    BY DEF TopicsInv, AllJobsFit
  <2>2. ASSUME NEW r, AJob(r), r.src = j.src, r.srcVer = j.srcVer, r.dep = j.dep, r.cand = j.cand, r.status = j.status
        PROVE  JobFits(ver, r)
    BY <2>1, <2>2 DEF JobFits, Informed
  <2>3. AJob(j)
    BY <2>1 DEF JobFits
  <2> DEFINE r == [j EXCEPT !.leased = FALSE]
             s == [j EXCEPT !.due = "ripe"]
  <2>4. AJob(r) /\ r.src = j.src /\ r.srcVer = j.srcVer /\ r.dep = j.dep /\ r.cand = j.cand /\ r.status = j.status
    BY <2>3 DEF AJob
  <2>5. AJob(s) /\ s.src = j.src /\ s.srcVer = j.srcVer /\ s.dep = j.dep /\ s.cand = j.cand /\ s.status = j.status
    BY <2>3 DEF AJob
  <2> HIDE DEF r, s
  <2>6. JobFits(ver, r) /\ JobFits(ver, s)
    BY <2>2, <2>4, <2>5
  <2> QED BY <2>6 DEF r, s
<1>2. PICK j \in topicJobs : \/ Later((topicJobs \ {j}) \cup {[j EXCEPT !.leased = FALSE]})
                           \/ Later((topicJobs \ {j}) \cup {[j EXCEPT !.due = "ripe"]})
  BY DEF TopicLeaseEnds, TopicBackoffEnds
<1>3. UNCHANGED <<ver, topics>> /\ \A i \in topicJobs' : JobFits(ver, i)
  BY <1>1, <1>2 DEF Later, TopicsInv, AllJobsFit
<1> QED BY <1>3 DEF TopicsInv, AllJobsFit

LEMMA TopicStepKeeps ==
  ASSUME TopicsInv, TopicNext
  PROVE  TopicsInv'
<1>1. CASE UNCHANGED <<ver, topics, topicJobs>>
  BY <1>1 DEF TopicsInv
<1>2. ASSUME NEW w \in TopicWorker, TopicPass(w) \/ TopicAnswer(w) \/ Abandon(w) PROVE TopicsInv'
  BY <1>1, <1>2, ClaimKeeps, CompleteTopicKeeps, FailTopicKeeps
     DEF TopicPass, TopicAnswer, ClaimIncremental, ClaimBootstrap, Reserve, Abandon
<1>3. CASE WindowEnds
  BY <1>1, <1>3 DEF WindowEnds
<1> QED BY <1>2, <1>3, UserKeeps, TimeKeeps DEF TopicNext

-----------------------------------------------------------------------------
(* Dreaming *)

\* The record of a run: what the Agent has read is versions of Events.
ADream(d) ==
  d \in [status: {d.status}, waiting: {d.waiting}, run: Nat, epoch: Nat, owner: {d.owner}, leased: {d.leased},
         units: {d.units}, cursor: {d.cursor}, frozen: Versions, evid: Versions, held: {d.held}, writes: Nat,
         replan: {d.replan}]

AClaim == [proc: DreamProc, run: Nat, epoch: Nat]

\* While a run has the directory, the claim in its record is the one a user granted last.
Granted(d, given) ==
  d.status \in {"running", "pausing", "paused"} =>
    \E p \in DreamProc : d.owner = {p} /\ given = {[proc |-> p, run |-> d.run, epoch |-> d.epoch]}

DreamInv ==
  /\ TopicsInv
  /\ ADream(dream) /\ Granted(dream, issued)
  /\ claims \in [DreamProc -> SUBSET AClaim]

\* The code that passes the fence is the code the user granted the directory to.
LEMMA HolderWasGranted ==
  ASSUME DreamInv, NEW p \in DreamProc, NEW c \in claims[p], HoldsClaim(c)
  PROVE  issued = {c}
<1>1. c \in AClaim
  BY DEF DreamInv
<1> QED BY <1>1 DEF DreamInv, Granted, HoldsClaim, AClaim

\* What a commit of the run itself leaves: another record of the same claim.
SameRun(d) == ADream(d) /\ d.run = dream.run /\ d.epoch = dream.epoch /\ d.owner = dream.owner

LEMMA CommitKeeps ==
  ASSUME DreamInv, NEW d, Commit(d), ADream(d), Granted(d, issued'), claims' \in [DreamProc -> SUBSET AClaim]
  PROVE  DreamInv' /\ topics' = topics
BY DEF Commit, DreamInv, TopicsInv

LEMMA SameRunKeeps ==
  ASSUME DreamInv, NEW d, Commit(d), SameRun(d), UNCHANGED dreamVars,
         dream.status \in {"running", "pausing", "paused"} \/ d.status = dream.status
  PROVE  DreamInv' /\ topics' = topics
<1>1. Granted(d, issued')
  BY DEF DreamInv, Granted, SameRun, dreamVars
<1> QED BY <1>1, CommitKeeps DEF SameRun, dreamVars, DreamInv

LEMMA PausedIsARun ==
  ASSUME NEW d, ADream(d)
  PROVE  /\ ADream(Paused(d)) /\ ADream(Replanned(d))
         /\ Paused(d).run = d.run /\ Paused(d).epoch = d.epoch /\ Paused(d).owner = d.owner
         /\ Replanned(d).run = d.run /\ Replanned(d).epoch = d.epoch /\ Replanned(d).owner = d.owner
<1>1. ADream(Paused(d)) /\ Paused(d).run = d.run /\ Paused(d).epoch = d.epoch /\ Paused(d).owner = d.owner
  BY DEF Paused, ADream
<1> DEFINE e == Paused(d)
<1> HIDE DEF e
<1>2. ADream([e EXCEPT !.replan = TRUE]) /\ [e EXCEPT !.replan = TRUE].run = e.run
      /\ [e EXCEPT !.replan = TRUE].epoch = e.epoch /\ [e EXCEPT !.replan = TRUE].owner = e.owner
  <2>1. ADream(e)
    BY <1>1 DEF e
  <2> QED BY <2>1 DEF ADream
<1> QED BY <1>1, <1>2 DEF Replanned, e

LEMMA PlannedIsARun ==
  ASSUME DreamInv, NEW d, ADream(d), NEW units
  PROVE  ADream(Plan(d, units)) /\ Plan(d, units).run = d.run /\ Plan(d, units).epoch = d.epoch
         /\ Plan(d, units).owner = d.owner
BY DEF Plan, ADream, DreamInv, TopicsInv

LEMMA ReadingKeeps ==
  ASSUME DreamInv, NEW p \in DreamProc, NEW c \in claims[p], NEW e \in TopicEvent, ReadEvent(c, e)
  PROVE  DreamInv' /\ topics' = topics
<1> DEFINE evid == [dream.evid EXCEPT ![e] = dream.frozen[e]]
           d == [dream EXCEPT !.evid = evid]
<1>0. ADream(dream)
  BY DEF DreamInv
<1>1. evid \in Versions
  BY <1>0 DEF ADream, Versions
<1>2. d = [dream EXCEPT !.evid[e] = dream.frozen[e]]
  BY <1>0 DEF ADream
<1>3. Commit(IF dream.status = "pausing" THEN Paused(d) ELSE d)
  BY <1>2, Zenon DEF ReadEvent
<1> HIDE DEF evid
<1>4. SameRun(d)
  BY <1>0, <1>1 DEF SameRun, ADream
<1> HIDE DEF d
<1>5. SameRun(Paused(d))
  BY <1>4, PausedIsARun DEF SameRun
<1>6. UNCHANGED dreamVars /\ dream.status \in {"running", "pausing"}
  BY DEF ReadEvent, HoldsClaim
<1> QED BY <1>3, <1>4, <1>5, <1>6, SameRunKeeps

LEMMA FinishKeeps ==
  ASSUME DreamInv, NEW p \in DreamProc, NEW c \in claims[p], FinishBatch(c)
  PROVE  DreamInv' /\ topics' = topics
<1> DEFINE d == [dream EXCEPT !.cursor = @ + 1, !.held = {}, !.evid = Nothing, !.writes = 0]
           e == [d EXCEPT !.status = "completed", !.leased = FALSE]
<1>1. Commit(IF d.cursor > Len(d.units) THEN e ELSE d)
  BY Zenon DEF FinishBatch
<1>2. SameRun(d)
  BY VersionFacts DEF SameRun, ADream, DreamInv
<1> HIDE DEF d
<1>3. SameRun(e)
  BY <1>2 DEF SameRun, ADream
<1> HIDE DEF e
<1>4. UNCHANGED dreamVars /\ dream.status = "running"
  BY DEF FinishBatch
<1> QED BY <1>1, <1>2, <1>3, <1>4, SameRunKeeps

LEMMA SuspendKeeps ==
  ASSUME DreamInv, NEW p \in DreamProc, NEW c \in claims[p], Suspend(c) \/ Settles(c)
  PROVE  DreamInv' /\ topics' = topics
<1>1. SameRun(Paused(dream)) /\ SameRun(Replanned(dream))
  BY PausedIsARun DEF SameRun, DreamInv
<1>2. UNCHANGED dreamVars /\ dream.status \in {"running", "pausing"}
  BY DEF Suspend, Settles, HoldsClaim
<1>3. Commit(Replanned(dream)) \/ Commit(Paused(dream))
  BY DEF Suspend, Settles
<1> QED BY <1>1, <1>2, <1>3, SameRunKeeps

LEMMA PrepareKeeps ==
  ASSUME DreamInv, NEW p \in DreamProc, NEW c \in claims[p], PrepareBatch(c)
  PROVE  DreamInv' /\ topics' = topics
<1> DEFINE d(units) == IF dream.waiting THEN Plan(dream, units) ELSE dream
           chapter(units) == {t \in topics : t.id = d(units).units[d(units).cursor].topic /\ ~t.invalid}
           done(x) == [x EXCEPT !.status = "completed", !.leased = FALSE]
           opens(x, ch, short) == [x EXCEPT !.held = ch, !.writes = IF x.held = {} THEN 0 ELSE @,
                                            !.evid = Under(IF x.held = {} THEN Nothing ELSE @, Now(short))]
<1>1. PICK units \in IF dream.waiting THEN SetToSeqs(Planned) ELSE {dream.units} :
         \/ Commit(done(d(units))) \/ Commit(Replanned(d(units)))
         \/ \E short : Commit(opens(d(units), chapter(units), short))
  BY Zenon DEF PrepareBatch
<1>2. SameRun(d(units))
  BY PlannedIsARun DEF SameRun, DreamInv
<1>3. UNCHANGED dreamVars /\ dream.status = "running"
  BY DEF PrepareBatch
<1> HIDE DEF d, chapter
<1>4. SameRun(done(d(units)))
  BY <1>2 DEF SameRun, ADream
<1>5. SameRun(Replanned(d(units)))
  BY <1>2, PausedIsARun DEF SameRun
<1>6. ASSUME NEW short PROVE SameRun(opens(d(units), chapter(units), short))
  <2> DEFINE x == d(units)
             evid == Under(IF x.held = {} THEN Nothing ELSE x.evid, Now(short))
             n == IF x.held = {} THEN 0 ELSE x.writes
  <2>1. x.evid \in Versions /\ Nothing \in Versions /\ Now(short) \in Versions /\ n \in Nat
    BY <1>2, VersionFacts DEF SameRun, ADream, DreamInv, TopicsInv
  <2>2. evid \in Versions
    BY <2>1 DEF Under, Versions
  <2> HIDE DEF evid, n
  <2> DEFINE y == [x EXCEPT !.held = chapter(units), !.writes = n, !.evid = evid]
  <2>3. opens(x, chapter(units), short) = y
    BY Zenon DEF evid, n
  <2>4. SameRun(y)
    <3> HIDE DEF x
    <3> QED BY <1>2, <2>1, <2>2 DEF SameRun, ADream, x
  <2> QED BY <2>3, <2>4 DEF x
<1> HIDE DEF done, opens
<1> QED BY <1>1, <1>2, <1>3, <1>4, <1>5, <1>6, SameRunKeeps

\* A chapter that is edited depends on what was read for the edit too.
LEMMA EditedFits ==
  ASSUME NEW v \in Versions, NEW t, TopicFits(v, t), NEW evid \in Versions, CurrentIn(v, evid), NEW n, NEW read
  PROVE  TopicFits(v, [t EXCEPT !.edit = n, !.dep = Under(t.dep, evid), !.read = read])
<1> DEFINE dep == Under(t.dep, evid)
           r == [t EXCEPT !.edit = n, !.dep = dep, !.read = read]
<1>1. dep \in Versions /\ CurrentIn(v, dep)
  BY DEF TopicFits, ATopic, Under, Versions, CurrentIn
<1> HIDE DEF dep
<1>2. ATopic(r) /\ r.dep = dep
  BY <1>1 DEF TopicFits, ATopic
<1> HIDE DEF r
<1>3. TopicFits(v, r)
  BY <1>1, <1>2 DEF TopicFits
<1> QED BY <1>3 DEF r, dep

LEMMA ApplyKeeps ==
  ASSUME DreamInv, NEW p \in DreamProc, NEW c \in claims[p], ApplyEdit(c)
  PROVE  DreamInv' /\ writer' = issued /\ dream'.writes > dream.writes
<1> DEFINE t == CHOOSE x \in dream.held : TRUE
           edited == [t EXCEPT !.edit = @ + 1, !.dep = Under(@, dream.evid),
                              !.read = Under(Under(@, Glimpsed), dream.evid)]
           status == IF IsLastWrite(dream.writes + 1) THEN "pausing" ELSE dream.status
           d == [dream EXCEPT !.held = {edited}, !.writes = @ + 1, !.status = status]
<1>1. dream' = d /\ SyncTo(ver, (topics \ {t}) \cup {edited}, topicJobs, projected, rebuild)
  BY Zenon DEF ApplyEdit
<1>2. /\ dream.held # {} /\ dream.held \subseteq {x \in topics : ~x.invalid} /\ CurrentIn(ver, dream.evid)
      /\ dream.status = "running" /\ writer' = {c} /\ UNCHANGED <<claims, issued>> /\ HoldsClaim(c)
  BY DEF ApplyEdit, Chapter
<1>3. /\ ver \in Versions /\ AllTopicsFit(ver, topics) /\ AllJobsFit(ver, topicJobs) /\ ADream(dream)
      /\ dream.evid \in Versions /\ Granted(dream, issued)
  BY DEF DreamInv, TopicsInv, ADream
<1>4. t \in topics /\ ~t.invalid
  BY <1>2
<1>5. TopicFits(ver, edited)
  <2> HIDE DEF t
  <2>1. TopicFits(ver, t)
    BY <1>3, <1>4 DEF AllTopicsFit
  <2> QED BY <1>2, <1>3, <1>4, <2>1, EditedFits
<1> HIDE DEF t, edited
<1>6. AllTopicsFit(ver, (topics \ {t}) \cup {edited})
  BY <1>3, <1>5 DEF AllTopicsFit
<1>7. TopicsInv'
  BY <1>1, <1>3, <1>6, SyncKeeps
<1> HIDE DEF status
<1>8. ADream(d) /\ d.run = dream.run /\ d.epoch = dream.epoch /\ d.owner = dream.owner /\ d.writes = dream.writes + 1
  <2> DEFINE n == dream.writes + 1
             r == [dream EXCEPT !.held = {edited}, !.writes = n, !.status = status]
  <2>1. n \in Nat /\ d = r
    BY <1>3 DEF ADream
  <2> HIDE DEF n
  <2>2. ADream(r) /\ r.run = dream.run /\ r.epoch = dream.epoch /\ r.owner = dream.owner /\ r.writes = n
    BY <1>3, <2>1 DEF ADream
  <2> HIDE DEF d, r
  <2> QED BY <2>1, <2>2 DEF n
<1> HIDE DEF d
<1>9. Granted(d, issued)
  BY <1>2, <1>3, <1>8 DEF Granted
<1>10. dream.writes \in Nat
  BY <1>3 DEF ADream
<1>11. writer' = issued
  BY <1>2, HolderWasGranted
<1> QED BY <1>1, <1>2, <1>7, <1>8, <1>9, <1>10, <1>11 DEF DreamInv

LEMMA StartDreamKeeps ==
  ASSUME DreamInv, NEW p \in DreamProc, StartDream(p)
  PROVE  DreamInv' /\ topics' = topics
<1> DEFINE d == [NoDream EXCEPT !.status = "running", !.run = dream.run + 1, !.epoch = 1,
                                !.owner = {p}, !.leased = TRUE]
           c == [proc |-> p, run |-> dream.run + 1, epoch |-> 1]
           e(units) == [Plan(d, units) EXCEPT !.waiting = Draining]
<1>1. PICK units \in SetToSeqs(Planned) : Commit(e(units))
  BY Zenon DEF StartDream
<1>2. claims' = [claims EXCEPT ![p] = @ \cup {c}] /\ issued' = {c}
  BY DEF StartDream
<1>3. dream.run \in Nat
  BY DEF DreamInv, ADream
<1>4. ADream(d) /\ d.run = dream.run + 1 /\ d.epoch = 1 /\ d.owner = {p}
  <2> DEFINE n == dream.run + 1
             r == [NoDream EXCEPT !.status = "running", !.run = n, !.epoch = 1, !.owner = {p}, !.leased = TRUE]
  <2>1. n \in Nat /\ d = r
    BY <1>3
  <2>2. ADream(NoDream)
    BY VersionFacts DEF NoDream, ADream
  <2> HIDE DEF n
  <2>3. ADream(r) /\ r.run = n /\ r.epoch = 1 /\ r.owner = {p}
    BY <2>1, <2>2 DEF ADream
  <2> HIDE DEF d, r
  <2> QED BY <2>1, <2>3 DEF n
<1> HIDE DEF d
<1>5. ADream(Plan(d, units)) /\ Plan(d, units).run = dream.run + 1 /\ Plan(d, units).epoch = 1 /\ Plan(d, units).owner = {p}
  BY <1>4, PlannedIsARun
<1>6. ADream(e(units)) /\ e(units).run = dream.run + 1 /\ e(units).epoch = 1 /\ e(units).owner = {p}
  BY <1>5 DEF ADream
<1> HIDE DEF e
<1>7. Granted(e(units), issued')
  BY <1>2, <1>6 DEF Granted
<1>8. claims' \in [DreamProc -> SUBSET AClaim]
  BY <1>2, <1>3 DEF DreamInv, AClaim
<1> QED BY <1>1, <1>6, <1>7, <1>8, CommitKeeps

LEMMA ResumeKeeps ==
  ASSUME DreamInv, NEW p \in DreamProc, ResumeDream(p)
  PROVE  DreamInv' /\ topics' = topics
<1> DEFINE d == [dream EXCEPT !.status = "running", !.owner = {p}, !.epoch = @ + 1, !.leased = TRUE, !.writes = 0]
           c == [proc |-> p, run |-> dream.run, epoch |-> dream.epoch + 1]
<1>1. dream.status \in {"running", "pausing", "paused"} /\ writer' = writer
  BY DEF ResumeDream
<1>2. ADream(dream) /\ dream.run \in Nat /\ dream.epoch \in Nat
  BY DEF DreamInv, ADream
<1>3. CASE Commit(Replanned(dream)) /\ UNCHANGED <<claims, issued>>
  <2>1. SameRun(Replanned(dream))
    BY <1>2, PausedIsARun DEF SameRun
  <2> QED BY <1>1, <1>3, <2>1, SameRunKeeps DEF dreamVars
<1>4. CASE Commit(d) /\ claims' = [claims EXCEPT ![p] = @ \cup {c}] /\ issued' = {c}
  <2> DEFINE n == dream.epoch + 1
             r == [dream EXCEPT !.status = "running", !.owner = {p}, !.epoch = n, !.leased = TRUE, !.writes = 0]
  <2>1. n \in Nat /\ d = r
    BY <1>2, SMT
  <2> HIDE DEF n
  <2>2. ADream(r) /\ r.run = dream.run /\ r.epoch = n /\ r.owner = {p}
    BY <1>2, <2>1 DEF ADream
  <2> HIDE DEF d, r
  <2>3. Granted(d, issued')
    BY <1>4, <2>1, <2>2 DEF Granted, n
  <2>4. claims' \in [DreamProc -> SUBSET AClaim]
    BY <1>2, <1>4 DEF DreamInv, AClaim
  <2> QED BY <1>4, <2>1, <2>2, <2>3, <2>4, CommitKeeps
<1> QED BY <1>3, <1>4, Zenon DEF ResumeDream

LEMMA ControlKeeps ==
  ASSUME DreamInv, PauseDream \/ TerminateDream \/ DreamLeaseEnds
  PROVE  DreamInv' /\ topics' = topics
<1>1. ADream(dream) /\ dream.epoch \in Nat
  BY DEF DreamInv, ADream
<1>2. CASE PauseDream
  <2> DEFINE d == [dream EXCEPT !.status = "pausing"]
  <2>1. SameRun(d)
    BY <1>1 DEF SameRun, ADream
  <2> QED BY <1>2, <2>1, SameRunKeeps DEF PauseDream
<1>3. CASE DreamLeaseEnds
  <2> DEFINE d == [dream EXCEPT !.leased = FALSE]
  <2>1. SameRun(d) /\ d.status = dream.status
    BY <1>1 DEF SameRun, ADream
  <2> QED BY <1>3, <2>1, SameRunKeeps DEF DreamLeaseEnds
<1>4. CASE TerminateDream
  <2> DEFINE n == dream.epoch + 1
             r == [dream EXCEPT !.status = "terminated", !.epoch = n, !.leased = FALSE]
             d == [dream EXCEPT !.status = "terminated", !.epoch = @ + 1, !.leased = FALSE]
  <2>0. n \in Nat /\ d = r
    BY <1>1, SMT
  <2> HIDE DEF n
  <2>1. ADream(d) /\ d.status = "terminated"
    <3>1. ADream(r) /\ r.status = "terminated"
      BY <1>1, <2>0 DEF ADream
    <3> HIDE DEF d, r
    <3> QED BY <2>0, <3>1
  <2> HIDE DEF d
  <2>2. Commit(d) /\ claims' = claims
    BY <1>4 DEF TerminateDream, d
  <2>3. claims' \in [DreamProc -> SUBSET AClaim] /\ Granted(d, issued')
    BY <2>1, <2>2 DEF DreamInv, Granted
  <2> QED BY <2>1, <2>2, <2>3, CommitKeeps
<1> QED BY <1>2, <1>3, <1>4

LEMMA TaskEndKeeps ==
  ASSUME DreamInv, NEW p \in DreamProc, EndTask(p) \/ DreamCrash(p)
  PROVE  DreamInv' /\ topics' = topics
<1>1. UNCHANGED <<ver, topics, topicJobs, dream, issued>>
  BY DEF EndTask, DreamCrash, topicVars
<1>2. claims' \in [DreamProc -> SUBSET AClaim]
  BY DEF EndTask, DreamCrash, DreamInv
<1> QED BY <1>1, <1>2 DEF DreamInv, TopicsInv

\* Without a new answer and without a change of an Event a synchronization finds nothing to
\* redact.
LEMMA IdleSyncChangesNothing ==
  ASSUME TopicsInv, NEW js, NEW pr, NEW rb, SyncTo(ver, topics, js, pr, rb)
  PROVE  topics' = topics
<1>1. \A t \in topics : Redacted(ver, t) = t
  BY DEF TopicsInv, AllTopicsFit, TopicFits, Redacted
<1>2. topics' = {Redacted(ver, t) : t \in topics}
  BY DEF SyncTo
<1> QED BY <1>1, <1>2

LEMMA ClaimLeavesChapters ==
  ASSUME TopicsInv, NEW w, NEW mode, Claim(w, mode)
  PROVE  topics' = topics
<1>1. ASSUME NEW js, NEW j, NEW cand, Start(w, js, j, cand) PROVE topics' = topics
  BY <1>1, IdleSyncChangesNothing DEF Start
<1> QED BY <1>1, IdleSyncChangesNothing DEF Claim

\* Outside Dreaming a chapter changes by an accepted answer or with its Events.
LEMMA ChaptersRest ==
  ASSUME TopicsInv, TopicNext, topics' # topics
  PROVE  ver' # ver \/ \E j \in topicJobs : Acceptable(j)
<1>1. ASSUME NEW w \in TopicWorker, TopicPass(w) PROVE topics' = topics
  BY <1>1, ClaimLeavesChapters DEF TopicPass, ClaimIncremental, Reserve, ClaimBootstrap
<1>2. ASSUME NEW w \in TopicWorker, CompleteTopic(w) PROVE \E j \in topicJobs : Acceptable(j)
  BY <1>2, Zenon DEF CompleteTopic
<1>3. ASSUME NEW w \in TopicWorker, FailTopic(w) PROVE topics' = topics
  <2>1. \E js : SyncTo(ver, topics, js, projected, rebuild)
    BY <1>3, Zenon DEF FailTopic
  <2> QED BY <2>1, IdleSyncChangesNothing
<1>4. ASSUME NEW w \in TopicWorker, Abandon(w) PROVE topics' = topics
  BY <1>4 DEF Abandon
<1>5. CASE OpenTopics \/ RetryTopic
  <2>1. \E js : SyncTo(ver, topics, js, projected, rebuild)
    BY <1>5, Zenon DEF OpenTopics, RetryTopic
  <2> QED BY <2>1, IdleSyncChangesNothing
<1>6. ASSUME NEW e \in TopicEvent, EditEvent(e) PROVE ver' # ver
  <2>1. PICK n \in 0..MaxVersion : n # ver[e] /\ SyncTo([ver EXCEPT ![e] = n], topics, topicJobs, projected, rebuild)
    BY <1>6 DEF EditEvent
  <2>2. ver \in Versions /\ ver' = [ver EXCEPT ![e] = n]
    BY <2>1 DEF SyncTo, TopicsInv
  <2> QED BY <2>1, <2>2 DEF Versions
<1>7. CASE TopicLeaseEnds \/ TopicBackoffEnds \/ WindowEnds
  BY <1>7 DEF TopicLeaseEnds, TopicBackoffEnds, WindowEnds, Later
<1> QED BY <1>1, <1>2, <1>3, <1>4, <1>5, <1>6, <1>7 DEF TopicNext, TopicAnswer

\* The run's record is Dreaming's own.
LEMMA TopicStepsLeaveTheRun ==
  ASSUME TopicNext
  PROVE  dream' = dream
BY Zenon DEF TopicNext, TopicPass, TopicAnswer, ClaimIncremental, Reserve, ClaimBootstrap, Claim, CompleteTopic,
   FailTopic, Abandon, EditEvent, OpenTopics, RetryTopic, TopicLeaseEnds, TopicBackoffEnds, WindowEnds, Later

\* A step of DirectoryIsReserved.
ChapterStep ==
  dream.status \in {"running", "pausing", "paused"} /\ ~dream.waiting /\ topics' # topics =>
    ver' # ver \/ (writer' = issued /\ dream'.writes > dream.writes)

LEMMA DreamStepKeeps ==
  ASSUME DreamInv, [DreamNext]_allVars
  PROVE  DreamInv' /\ ChapterStep
<1>1. CASE TopicNext /\ UNCHANGED dreamVars
  <2>1. TopicsInv /\ TopicsInv' /\ dream' = dream
    BY <1>1, TopicStepKeeps, TopicStepsLeaveTheRun DEF DreamInv
  <2>2. DreamInv'
    BY <1>1, <2>1 DEF DreamInv, dreamVars
  <2> QED BY <1>1, <2>1, <2>2, ChaptersRest DEF ChapterStep, Acceptable, DreamReserves
<1>2. CASE UNCHANGED allVars
  BY <1>2 DEF allVars, topicVars, dreamVars, DreamInv, TopicsInv, ChapterStep
<1>3. ASSUME NEW p \in DreamProc, StartDream(p) \/ ResumeDream(p) \/ EndTask(p) \/ DreamCrash(p)
      PROVE  DreamInv' /\ topics' = topics
  BY <1>3, StartDreamKeeps, ResumeKeeps, TaskEndKeeps
<1>4. ASSUME NEW p \in DreamProc, NEW c \in claims[p], ApplyEdit(c)
      PROVE  DreamInv' /\ ChapterStep
  BY <1>4, ApplyKeeps DEF ChapterStep
<1>5. ASSUME NEW p \in DreamProc, NEW c \in claims[p],
             Prepares(c) \/ FinishBatch(c) \/ Suspend(c) \/ \E e \in TopicEvent : ReadEvent(c, e)
      PROVE  DreamInv' /\ topics' = topics
  BY <1>5, PrepareKeeps, FinishKeeps, SuspendKeeps, ReadingKeeps DEF Prepares
<1>6. CASE PauseDream \/ TerminateDream \/ DreamLeaseEnds
  BY <1>6, ControlKeeps DEF ChapterStep
<1> QED BY <1>1, <1>2, <1>3, <1>4, <1>5, <1>6 DEF DreamNext, ChapterStep

LEMMA TopicInitFits ==
  ASSUME TopicInit
  PROVE  TopicsInv
<1>1. ver \in Versions
  BY TopicConstants DEF TopicInit, Versions
<1>2. AllTopicsFit(ver, topics)
  BY DEF TopicInit, AllTopicsFit
<1>3. JobFits(ver, LegacyFailure)
  <2>1. JobFits(ver, NewTopicJob(TopicEvent))
    BY <1>1, NewJobFits
  <2>2. /\ AJob(LegacyFailure) /\ LegacyFailure.src = NewTopicJob(TopicEvent).src
        /\ LegacyFailure.srcVer = NewTopicJob(TopicEvent).srcVer /\ LegacyFailure.dep = NewTopicJob(TopicEvent).dep
        /\ LegacyFailure.status = "failed"
    BY <2>1 DEF LegacyFailure, JobFits, AJob
  <2> QED BY <2>1, <2>2, RestingFits
<1> QED BY <1>1, <1>2, <1>3 DEF TopicInit, TopicsInv, AllJobsFit

LEMMA DreamInitFits ==
  ASSUME DreamInit
  PROVE  DreamInv
<1>1. TopicsInv
  BY TopicInitFits DEF DreamInit
<1>2. ADream(NoDream) /\ NoDream.status = "none"
  BY VersionFacts DEF NoDream, ADream
<1> HIDE DEF NoDream
<1>3. dream = NoDream
  BY DEF DreamInit, TopicInit
<1>4. claims \in [DreamProc -> SUBSET AClaim]
  BY DEF DreamInit
<1> QED BY <1>1, <1>2, <1>3, <1>4 DEF DreamInv, Granted

\* Only an answer writes prose; anything else the projection does synchronizes the chapters.
LEMMA OthersOnlySynchronize ==
  ASSUME TopicsInv, TopicNext
  PROVE  \/ UNCHANGED <<ver, topics>>
         \/ \E w \in TopicWorker : CompleteTopic(w)
         \/ \E v \in Versions : \E js, pr, rb : SyncTo(v, topics, js, pr, rb)
<1> DEFINE Syncs == \E v \in Versions : \E js, pr, rb : SyncTo(v, topics, js, pr, rb)
<1>0. ver \in Versions
  BY DEF TopicsInv
<1>1. ASSUME NEW w, NEW mode, Claim(w, mode) PROVE UNCHANGED <<ver, topics>> \/ Syncs
  <2>1. \/ UNCHANGED <<ver, topics>> \/ SyncTo(ver, topics, Recovered(topicJobs), projected, rebuild)
        \/ \E js, j, cand : Start(w, js, j, cand)
    BY <1>1 DEF Claim
  <2>2. ASSUME NEW js, NEW j, NEW cand, Start(w, js, j, cand) PROVE Syncs
    BY <1>0, <2>2, Zenon DEF Start
  <2> QED BY <1>0, <2>1, <2>2
<1>2. ASSUME NEW w, FailTopic(w) PROVE Syncs
  <2>1. \E js : SyncTo(ver, topics, js, projected, rebuild)
    BY <1>2, Zenon DEF FailTopic
  <2> QED BY <1>0, <2>1
<1>3. ASSUME OpenTopics \/ RetryTopic PROVE Syncs
  <2>1. \E js : SyncTo(ver, topics, js, projected, rebuild)
    BY <1>3, Zenon DEF OpenTopics, RetryTopic
  <2> QED BY <1>0, <2>1
<1>4. ASSUME NEW e \in TopicEvent, EditEvent(e) PROVE Syncs
  <2>1. PICK n \in 0..MaxVersion : SyncTo([ver EXCEPT ![e] = n], topics, topicJobs, projected, rebuild)
    BY <1>4 DEF EditEvent
  <2>2. [ver EXCEPT ![e] = n] \in Versions
    BY <1>0 DEF Versions
  <2> QED BY <2>1, <2>2
<1>5. ASSUME NEW w, Reserve(w) \/ Abandon(w) PROVE UNCHANGED <<ver, topics>>
  BY <1>5 DEF Reserve, Abandon
<1>6. ASSUME TopicLeaseEnds \/ TopicBackoffEnds \/ WindowEnds PROVE UNCHANGED <<ver, topics>>
  BY <1>6 DEF TopicLeaseEnds, TopicBackoffEnds, WindowEnds, Later
<1> HIDE DEF Syncs
<1>7. ASSUME NEW w \in TopicWorker, TopicPass(w) \/ FailTopic(w) \/ Abandon(w)
      PROVE  UNCHANGED <<ver, topics>> \/ Syncs
  BY <1>1, <1>2, <1>5, <1>7 DEF TopicPass, ClaimIncremental, ClaimBootstrap
<1>8. UNCHANGED <<ver, topics>> \/ (\E w \in TopicWorker : CompleteTopic(w)) \/ Syncs
  BY <1>3, <1>4, <1>6, <1>7 DEF TopicNext, TopicAnswer
<1> QED BY <1>8 DEF Syncs

LEMMA ProjectionKeepsBacked ==
  ASSUME BackedInv, [TopicNext]_topicVars
  PROVE  BackedInv'
<1>1. TopicsInv /\ ver \in Versions /\ AllTopicsFit(ver, topics) /\ AllBacked(ver, topics)
  BY DEF BackedInv, TopicsInv
<1>2. TopicsInv'
  BY <1>1, TopicStepKeeps DEF topicVars, TopicsInv
<1>3. CASE UNCHANGED <<ver, topics>>
  BY <1>1, <1>2, <1>3 DEF BackedInv
<1>4. ASSUME NEW w \in TopicWorker, CompleteTopic(w) PROVE BackedInv'
  BY <1>1, <1>2, <1>4, CompleteTopicKeeps DEF BackedInv
<1>5. ASSUME NEW v \in Versions, NEW js, NEW pr, NEW rb, SyncTo(v, topics, js, pr, rb) PROVE BackedInv'
  BY <1>1, <1>2, <1>5, SyncKeepsBacked DEF BackedInv
<1>6. CASE TopicNext
  BY <1>1, <1>3, <1>4, <1>5, <1>6, OthersOnlySynchronize
<1> QED BY <1>3, <1>6 DEF topicVars

\* As long as only the projection writes, nothing a chapter says rests on an Event that has
\* changed or gone, for any Events, batches, attempts, splits and passes, and however chapters
\* inherit each other's prose.
THEOREM ChaptersAreCurrent == TopicSpec => []ProseIsCurrent
<1>1. TopicInit => BackedInv
  BY TopicInitFits DEF TopicInit, BackedInv, AllBacked
<1>2. BackedInv /\ [TopicNext]_topicVars => BackedInv'
  BY ProjectionKeepsBacked
<1>3. BackedInv => ProseIsCurrent
  BY DEF BackedInv, AllBacked, Backed, ProseIsCurrent
<1> QED BY <1>1, <1>2, <1>3, PTL DEF TopicSpec

\* While Dreaming has the directory, a chapter changes by an edit under the claim a user granted
\* last, or with its Events: no late answer and no Agent of an older claim gets in between.
THEOREM TheDirectoryIsReserved == DreamSpec => DirectoryIsReserved
<1>1. DreamInit => DreamInv
  BY DreamInitFits
<1>2. DreamInv /\ [DreamNext]_allVars => DreamInv'
  BY DreamStepKeeps
<1>3. DreamInv /\ [DreamNext]_allVars => [ChapterStep]_allVars
  BY DreamStepKeeps
<1>4. DreamSpec => [][ChapterStep]_allVars
  BY <1>1, <1>2, <1>3, PTL DEF DreamSpec
<1> QED BY <1>4 DEF DirectoryIsReserved, ChapterStep

-----------------------------------------------------------------------------
LEMMA Ranks ==
  ASSUME NEW S, IsFiniteSet(S), S \subseteq Nat
  PROVE  /\ \A x \in S : Rank(S, x) \in 1..Cardinality(S)
         /\ \A x, y \in S : x < y => Rank(S, x) < Rank(S, y)
<1> DEFINE below(x) == {y \in S : y <= x}
<1>1. Cardinality(S) \in Nat
  BY FS_CardinalityType
<1>2. ASSUME NEW x \in S PROVE IsFiniteSet(below(x)) /\ Cardinality(below(x)) \in 1..Cardinality(S)
  <2>1. below(x) \in SUBSET S /\ x \in below(x)
    OBVIOUS
  <2>2. IsFiniteSet(below(x)) /\ Cardinality(below(x)) <= Cardinality(S)
    BY <2>1, FS_Subset
  <2>3. Cardinality(below(x)) \in Nat /\ Cardinality(below(x)) # 0
    <3> DEFINE T == below(x)
    <3>1. IsFiniteSet(T) /\ T # {}
      BY <2>1, <2>2
    <3> HIDE DEF T
    <3>2. Cardinality(T) \in Nat /\ Cardinality(T) # 0
      BY <3>1, FS_CardinalityType, FS_EmptySet
    <3> QED BY <3>2 DEF T
  <2> QED BY <1>1, <2>2, <2>3
<1>3. ASSUME NEW x \in S, NEW y \in S, x < y PROVE Cardinality(below(x)) < Cardinality(below(y))
  <2> DEFINE T == below(x)
             U == below(y)
  <2>1. T \in SUBSET U /\ y \in U /\ y \notin T
    <3>1. x \in Nat /\ y \in Nat /\ \A z \in S : z \in Nat
      BY <1>3
    <3>2. \A z \in S : z <= x => z <= y
      BY <1>3, <3>1
    <3>3. y <= y /\ ~(y <= x)
      BY <1>3, <3>1
    <3> QED BY <1>3, <3>2, <3>3
  <2>2. IsFiniteSet(U) /\ Cardinality(U) \in Nat /\ Cardinality(T) \in Nat
    BY <1>2
  <2> HIDE DEF T, U
  <2>3. Cardinality(T) <= Cardinality(U) /\ (Cardinality(U) = Cardinality(T) => U = T)
    BY <2>1, <2>2, FS_Subset
  <2>4. Cardinality(T) < Cardinality(U)
    BY <2>1, <2>2, <2>3
  <2> QED BY <2>4 DEF T, U
<1> QED BY <1>2, <1>3 DEF Rank

\* A set is laid out once and whole.
LEMMA Orders ==
  ASSUME NEW S, IsFiniteSet(S), S \subseteq Nat
  PROVE  /\ Cardinality(S) \in Nat
         /\ \A k \in 1..Cardinality(S) : InOrder(S)[k] \in S
         /\ \A k, l \in 1..Cardinality(S) : InOrder(S)[k] = InOrder(S)[l] => k = l
<1> DEFINE n == Cardinality(S)
           rank == [x \in S |-> Rank(S, x)]
<1>1. n \in Nat /\ IsFiniteSet(1..n) /\ Cardinality(1..n) = n
  BY FS_CardinalityType, FS_Interval
<1>2. rank \in [S -> 1..n] /\ \A x, y \in S : x # y => rank[x] # rank[y]
  <2>1. \A x, y \in S : x < y \/ y < x \/ x = y
    OBVIOUS
  <2>2. \A x \in S : Rank(S, x) \in 1..n
    BY Ranks
  <2>3. \A x, y \in S : x < y => Rank(S, x) < Rank(S, y)
    BY Ranks
  <2>4. \A x, y \in S : x # y => Rank(S, x) # Rank(S, y)
    BY <1>1, <2>1, <2>2, <2>3
  <2> QED BY <2>2, <2>4
<1>3. rank \in Surjection(S, 1..n)
  <2> DEFINE T == 1..n
  <2>1. rank \in Injection(S, T)
    BY <1>2 DEF Injection, IsInjective
  <2>2. IsFiniteSet(T) /\ Cardinality(S) = Cardinality(T)
    BY <1>1
  <2> HIDE DEF T, rank, n
  <2>3. rank \in Surjection(S, T)
    BY <2>1, <2>2, FS_Injection
  <2> QED BY <2>3 DEF T
<1>4. \A k \in 1..n : \E x \in S : Rank(S, x) = k
  BY <1>3 DEF Surjection
<1>5. \A k \in 1..n : InOrder(S)[k] \in S /\ Rank(S, InOrder(S)[k]) = k
  BY <1>4 DEF InOrder
<1> QED BY <1>1, <1>5

LEMMA Quotients ==
  ASSUME NEW b \in Nat \ {0}, NEW c \in Nat, NEW r \in 1..c
  PROVE  /\ (r - 1) \div b \in Nat
         /\ (r - 1) \div b + 1 \in 1..((c + b - 1) \div b)
<1> DEFINE q == (r - 1) \div b
           n == (c + b - 1) \div b
<1>1. q \in Nat /\ n \in Nat
  OBVIOUS
<1>2. q * b <= r - 1 /\ r - 1 < (q + 1) * b
  OBVIOUS
<1>3. n * b <= c + b - 1 /\ c + b - 1 < (n + 1) * b
  OBVIOUS
<1> HIDE DEF q, n
<1>4. q + 1 <= n
  <2>1. SUFFICES ASSUME n < q + 1 PROVE FALSE
    BY <1>1
  <2>2. n <= q
    BY <1>1, <2>1
  <2>3. n * b <= q * b
    BY <1>1, <2>2
  <2>4. (n + 1) * b = n * b + b
    BY <1>1
  <2>5. n * b \in Int /\ q * b \in Int
    BY <1>1
  <2> QED BY <1>2, <1>3, <2>3, <2>4, <2>5
<1> QED BY <1>1, <1>4 DEF q, n

\* The slices share nothing and leave nothing out.
LEMMA SlicesFit ==
  ASSUME NEW ids, IsFiniteSet(ids), ids \subseteq Nat
  PROVE  /\ Slices(ids) \in Seq(SUBSET ids)
         /\ \A k, l \in DOMAIN Slices(ids) : k # l => Slices(ids)[k] \cap Slices(ids)[l] = {}
         /\ \A x \in ids : \E k \in DOMAIN Slices(ids) : x \in Slices(ids)[k]
<1> DEFINE c == Cardinality(ids)
           n == (c + GraphBatch - 1) \div GraphBatch
           of(x) == (Rank(ids, x) - 1) \div GraphBatch
           s == [k \in 1..n |-> {x \in ids : of(x) = k - 1}]
<1>1. c \in Nat /\ GraphBatch \in Nat \ {0}
  BY FS_CardinalityType, GraphConstants
<1>2. n \in Nat
  BY <1>1
<1>3. ASSUME NEW x \in ids PROVE of(x) \in Nat /\ of(x) + 1 \in 1..n
  <2> DEFINE r == Rank(ids, x)
             b == GraphBatch
  <2>1. r \in 1..c /\ b \in Nat \ {0}
    BY <1>1, Ranks
  <2> HIDE DEF r, c, b
  <2>2. (r - 1) \div b \in Nat /\ (r - 1) \div b + 1 \in 1..((c + b - 1) \div b)
    BY <1>1, <2>1, Quotients
  <2> QED BY <2>2 DEF r, b
<1> HIDE DEF n, of
<1>4. s \in Seq(SUBSET ids) /\ DOMAIN s = 1..n
  BY <1>2
<1>5. \A k, l \in 1..n : k # l => s[k] \cap s[l] = {}
  BY <1>2
<1>6. \A x \in ids : x \in s[of(x) + 1]
  <2> SUFFICES ASSUME NEW x \in ids PROVE x \in s[of(x) + 1]
    OBVIOUS
  <2>1. of(x) \in Nat /\ of(x) + 1 \in 1..n /\ of(x) = (of(x) + 1) - 1
    BY <1>3
  <2> QED BY <2>1
<1>7. Slices(ids) = s
  BY DEF Slices, n, of, c
<1> HIDE DEF s
<1>8. \A x \in ids : \E k \in DOMAIN s : x \in s[k]
  BY <1>3, <1>4, <1>6
<1> QED BY <1>4, <1>5, <1>7, <1>8

-----------------------------------------------------------------------------
(* The jobs, and what an Event has been asked about *)

\* The job may call the model again.
Going(j) ==
  /\ j.attempts < GraphAttempts
  /\ j.status \in {"pending", "running"} \/ (j.status = "failed" /\ j.due # "never")

\* What gave up with attempts left was revoked, and was claimed in an epoch that is over.
BatchFits(j, epoch) ==
  /\ j \in GraphJob
  /\ j.claimEpoch = NoEpoch \/ j.claimEpoch <= epoch
  /\ j.attempts < GraphAttempts /\ j.status = "failed" /\ j.due = "never" =>
       j.err = "revoked" /\ j.claimEpoch # NoEpoch /\ j.claimEpoch < epoch

Apart(js) ==
  \A i, k \in DOMAIN js : i # k /\ Going(js[i]) /\ Going(js[k]) => js[i].src \cap js[k].src = {}
Counted(js, pd) == \A i \in DOMAIN js : Going(js[i]) => \A e \in js[i].src : pd[e] <= js[i].attempts
Accounted(js, pd) ==
  \A e \in GraphEvent : pd[e] <= GraphAttempts /\ (pd[e] # 0 => \E i \in DOMAIN js : e \in js[i].src)

\* The jobs that may go on share no Event, have counted every call about theirs, and an Event
\* the model was asked about has a job.
BatchesFit(js, epoch, pd) ==
  /\ js \in Seq(GraphJob) /\ \A i \in DOMAIN js : BatchFits(js[i], epoch)
  /\ Apart(js) /\ Counted(js, pd) /\ Accounted(js, pd)

Paid == [GraphEvent -> Nat]

LEMMA JobParts ==
  ASSUME NEW j \in GraphJob
  PROVE  /\ j.src \subseteq GraphEvent /\ j.attempts \in Nat /\ j.attempts <= GraphAttempts
         /\ j.status \in {"pending", "running", "completed", "failed"}
         /\ j.due \in {"never", "waiting", "ripe"} /\ j.lease \in {"none", "live", "expired"}
         /\ j.claimEpoch \in Epoch \cup {NoEpoch} /\ j.createdEpoch \in Epoch \cup {NoEpoch}
         /\ j.err \in {"none", "revoked", "schema", "other"} /\ j.recovered \in BOOLEAN
BY GraphConstants DEF GraphJob

\* Each job that may go on continues one of its own.
Continues(js, new, from) ==
  \A x \in DOMAIN new : Going(new[x]) =>
    from[x] \in DOMAIN js /\ Going(js[from[x]]) /\ new[x].src \subseteq js[from[x]].src

LEMMA ContinuedFit ==
  ASSUME NEW js, NEW epoch, NEW pd \in Paid, BatchesFit(js, epoch, pd),
         NEW new \in Seq(GraphJob), NEW epoch2, \A x \in DOMAIN new : BatchFits(new[x], epoch2),
         NEW from, Continues(js, new, from),
         \A x, y \in DOMAIN new : x # y /\ Going(new[x]) /\ Going(new[y]) /\ from[x] = from[y] =>
           new[x].src \cap new[y].src = {},
         NEW pd2 \in Paid, Counted(new, pd2), Accounted(new, pd2)
  PROVE  BatchesFit(new, epoch2, pd2)
<1>1. Apart(new)
  <2> SUFFICES ASSUME NEW x \in DOMAIN new, NEW y \in DOMAIN new, x # y, Going(new[x]), Going(new[y])
               PROVE new[x].src \cap new[y].src = {}
    BY DEF Apart
  <2>1. CASE from[x] = from[y]
    BY <2>1
  <2>2. CASE from[x] # from[y]
    BY <2>2 DEF Continues, BatchesFit, Apart
  <2> QED BY <2>1, <2>2
<1> QED BY <1>1 DEF BatchesFit

\* Jobs that only change how they rest.
LEMMA EditedFit ==
  ASSUME NEW js, NEW epoch, NEW pd \in Paid, BatchesFit(js, epoch, pd),
         NEW new \in Seq(GraphJob), DOMAIN new = DOMAIN js, NEW epoch2,
         \A x \in DOMAIN new : /\ BatchFits(new[x], epoch2) /\ new[x].src = js[x].src
                               /\ new[x].attempts = js[x].attempts /\ (Going(new[x]) => Going(js[x]))
  PROVE  BatchesFit(new, epoch2, pd)
<1>1. Apart(new) /\ Counted(new, pd)
  BY DEF BatchesFit, Apart, Counted
<1>2. Accounted(new, pd)
  BY DEF BatchesFit, Accounted
<1> QED BY <1>1, <1>2 DEF BatchesFit

LEMMA AreJobs ==
  ASSUME NEW n \in Nat, NEW f, f = [k \in 1..n |-> f[k]], \A k \in 1..n : f[k] \in GraphJob
  PROVE  f \in Seq(GraphJob)
<1> HIDE DEF GraphJob
<1> QED OBVIOUS

LEMMA JoinedJobs ==
  ASSUME NEW s \in Seq(GraphJob), NEW m \in Seq(GraphJob)
  PROVE  /\ s \o m \in Seq(GraphJob)
         /\ DOMAIN s \subseteq DOMAIN (s \o m) /\ \A i \in DOMAIN s : (s \o m)[i] = s[i]
         /\ \A i \in DOMAIN (s \o m) : i \notin DOMAIN s => i - Len(s) \in DOMAIN m /\ (s \o m)[i] = m[i - Len(s)]
         /\ \A i \in DOMAIN m : Len(s) + i \in DOMAIN (s \o m) /\ Len(s) + i \notin DOMAIN s /\ (s \o m)[Len(s) + i] = m[i]
         /\ DOMAIN s = 1..Len(s) /\ Len(s) \in Nat
<1>1. s \o m \in Seq(GraphJob) /\ Len(s \o m) = Len(s) + Len(m)
  BY ConcatProperties
<1>2. \A i \in 1..Len(s) + Len(m) : (s \o m)[i] = IF i <= Len(s) THEN s[i] ELSE m[i - Len(s)]
  BY ConcatProperties
<1>3. /\ Len(s) \in Nat /\ Len(m) \in Nat /\ DOMAIN s = 1..Len(s) /\ DOMAIN m = 1..Len(m)
      /\ DOMAIN (s \o m) = 1..Len(s) + Len(m)
  BY <1>1
<1> HIDE DEF GraphJob
<1> QED BY <1>1, <1>2, <1>3

-----------------------------------------------------------------------------
LEMMA NewBatchFits ==
  ASSUME NEW src \in SUBSET GraphEvent, NEW at \in Epoch \cup {NoEpoch}, NEW epoch
  PROVE  BatchFits(NewJob(src, at), epoch) /\ NewJob(src, at).src = src /\ NewJob(src, at).attempts = 0
         /\ NewJob(src, at).recovered
BY GraphConstants DEF NewJob, BatchFits, GraphJob

\* What is queued has no job yet, so nobody has asked about it.
LEMMA QueueFits ==
  ASSUME NEW js, NEW epoch, NEW pd \in Paid, BatchesFit(js, epoch, pd),
         NEW ids \in SUBSET GraphEvent, NEW at \in Epoch \cup {NoEpoch}
  PROVE  /\ BatchesFit(Queue(js, ids, at), epoch, pd)
         /\ DOMAIN js \subseteq DOMAIN Queue(js, ids, at)
         /\ \A i \in DOMAIN Queue(js, ids, at) :
              IF i \in DOMAIN js THEN Queue(js, ids, at)[i] = js[i] ELSE Queue(js, ids, at)[i].recovered
<1> DEFINE rest == ids \ UNION {js[i].src : i \in DOMAIN js}
           slices == Slices(rest)
           m == [k \in DOMAIN slices |-> NewJob(slices[k], at)]
           new == js \o m
<1>0. Queue(js, ids, at) = new
  BY DEF Queue
<1>1. IsFiniteSet(rest) /\ rest \subseteq Nat /\ rest \subseteq GraphEvent
  BY GraphConstants, FS_Subset
<1>2. \A i \in DOMAIN js : js[i].src \cap rest = {}
  OBVIOUS
<1>3. \A e \in rest : e \in GraphEvent /\ pd[e] = 0
  <2> SUFFICES ASSUME NEW e \in rest PROVE pd[e] = 0
    BY <1>1
  <2>1. ~ \E i \in DOMAIN js : e \in js[i].src
    BY <1>2
  <2> HIDE DEF rest
  <2> QED BY <1>1, <2>1 DEF BatchesFit, Accounted
<1> HIDE DEF rest
<1>4. /\ slices \in Seq(SUBSET rest)
      /\ \A k, l \in DOMAIN slices : k # l => slices[k] \cap slices[l] = {}
  BY <1>1, SlicesFit
<1> HIDE DEF slices
<1>5. DOMAIN m = DOMAIN slices /\ \A k \in DOMAIN m : /\ slices[k] \subseteq rest
                                                      /\ BatchFits(m[k], epoch) /\ m[k].src = slices[k]
                                                      /\ m[k].attempts = 0 /\ m[k].recovered
  <2>1. \A k \in DOMAIN slices : slices[k] \subseteq rest
    BY <1>4
  <2> SUFFICES ASSUME NEW k \in DOMAIN slices
               PROVE  /\ BatchFits(m[k], epoch) /\ m[k].src = slices[k]
                      /\ m[k].attempts = 0 /\ m[k].recovered
    BY <2>1
  <2>2. m[k] = NewJob(slices[k], at) /\ slices[k] \in SUBSET GraphEvent
    BY <1>1, <2>1
  <2> QED BY <2>2, NewBatchFits
<1>6. m \in Seq(GraphJob) /\ js \in Seq(GraphJob)
  <2>1. \A k \in DOMAIN m : m[k] \in GraphJob
    BY <1>5 DEF BatchFits
  <2>2. DOMAIN m = 1..Len(slices) /\ Len(slices) \in Nat /\ m = [k \in DOMAIN m |-> m[k]]
    BY <1>4, <1>5
  <2> HIDE DEF m
  <2>3. m \in Seq(GraphJob)
    BY <2>1, <2>2
  <2> QED BY <2>3 DEF BatchesFit
<1> HIDE DEF m
<1>7. /\ new \in Seq(GraphJob)
      /\ DOMAIN js \subseteq DOMAIN new /\ \A i \in DOMAIN js : new[i] = js[i]
      /\ \A i \in DOMAIN new : i \notin DOMAIN js => i - Len(js) \in DOMAIN m /\ new[i] = m[i - Len(js)]
      /\ DOMAIN js = 1..Len(js) /\ Len(js) \in Nat
  BY <1>6, JoinedJobs
<1>71. \A i \in DOMAIN new : i \in Nat
  BY <1>7
<1> HIDE DEF new
<1>8. \A i \in DOMAIN new : BatchFits(new[i], epoch)
  BY <1>5, <1>7 DEF BatchesFit
<1>9. Apart(new)
  <2> SUFFICES ASSUME NEW x \in DOMAIN new, NEW y \in DOMAIN new, x # y, Going(new[x]), Going(new[y])
               PROVE new[x].src \cap new[y].src = {}
    BY DEF Apart
  <2>1. CASE x \in DOMAIN js /\ y \in DOMAIN js
    BY <1>7, <2>1 DEF BatchesFit, Apart
  <2>2. CASE x \notin DOMAIN js /\ y \notin DOMAIN js
    <3> DEFINE k == x - Len(js)
               l == y - Len(js)
    <3>1. k \in DOMAIN m /\ l \in DOMAIN m /\ k # l /\ new[x] = m[k] /\ new[y] = m[l]
      BY <1>7, <1>71, <2>2
    <3> HIDE DEF k, l
    <3> QED BY <1>4, <1>5, <3>1
  <2>3. CASE x \in DOMAIN js /\ y \notin DOMAIN js
    BY <1>2, <1>5, <1>7, <2>3
  <2>4. CASE x \notin DOMAIN js /\ y \in DOMAIN js
    BY <1>2, <1>5, <1>7, <2>4
  <2> QED BY <2>1, <2>2, <2>3, <2>4
<1>10. Counted(new, pd)
  <2> SUFFICES ASSUME NEW x \in DOMAIN new, Going(new[x]), NEW e \in new[x].src
               PROVE pd[e] <= new[x].attempts
    BY DEF Counted
  <2>1. CASE x \in DOMAIN js
    BY <1>7, <2>1 DEF BatchesFit, Counted
  <2>2. CASE x \notin DOMAIN js
    <3>1. e \in rest /\ new[x].attempts = 0
      BY <1>5, <1>7, <2>2
    <3> QED BY <1>3, <3>1
  <2> QED BY <2>1, <2>2
<1>11. Accounted(new, pd)
  BY <1>7 DEF BatchesFit, Accounted
<1>12. BatchesFit(new, epoch, pd)
  BY <1>7, <1>8, <1>9, <1>10, <1>11 DEF BatchesFit
<1>13. \A i \in DOMAIN new : IF i \in DOMAIN js THEN new[i] = js[i] ELSE new[i].recovered
  BY <1>5, <1>7
<1> QED BY <1>0, <1>7, <1>12, <1>13

\* What a process finds revoked and not used up may still go on.
LEMMA RevokedGoes ==
  ASSUME NEW j, policy.epoch \in Epoch, BatchFits(j, policy.epoch), Revoked(j), j.attempts < GraphAttempts
  PROVE  Going(j) /\ j.claimEpoch # NoEpoch /\ j.claimEpoch < policy.epoch /\ SourceIds(j) # {}
<1>1. /\ j.claimEpoch \notin {NoEpoch, policy.epoch} /\ j.status # "completed" /\ j.err # "revoked"
      /\ SourceIds(j) # {} /\ j.attempts \in Nat /\ j.status \in {"pending", "running", "completed", "failed"}
  BY JobParts, GraphConstants DEF Revoked, BatchFits
<1>2. Going(j)
  BY <1>1 DEF Going, BatchFits
<1>3. j.claimEpoch < policy.epoch
  <2>1. j.claimEpoch \in Epoch /\ j.claimEpoch <= policy.epoch
    BY <1>1, JobParts DEF BatchFits
  <2> QED BY <1>1, <2>1, GraphConstants DEF Epoch
<1> QED BY <1>1, <1>2, <1>3

LEMMA RetiredFits ==
  ASSUME NEW j, NEW epoch, BatchFits(j, epoch), j.attempts >= GraphAttempts
  PROVE  BatchFits(Retired(j), epoch) /\ Retired(j).src = j.src /\ ~Going(Retired(j)) /\ Retired(j).recovered = j.recovered
<1>1. j \in GraphJob /\ Retired(j) \in GraphJob /\ Retired(j).attempts = j.attempts /\ Retired(j).src = j.src
      /\ Retired(j).claimEpoch = j.claimEpoch /\ Retired(j).recovered = j.recovered
  BY DEF Retired, BatchFits, GraphJob
<1>2. ~(j.attempts < GraphAttempts)
  BY <1>1, JobParts, GraphConstants
<1> QED BY <1>1, <1>2 DEF BatchFits, Going

LEMMA RevocationFits ==
  ASSUME NEW j, NEW epoch, BatchFits(j, epoch), j.claimEpoch # NoEpoch, j.claimEpoch < epoch
  PROVE  BatchFits(Revocation(j), epoch) /\ Revocation(j).src = j.src /\ ~Going(Revocation(j))
         /\ Revocation(j).recovered = j.recovered
<1>1. /\ j \in GraphJob /\ Revocation(j) \in GraphJob /\ Revocation(j).src = j.src /\ Revocation(j).status = "failed"
      /\ Revocation(j).claimEpoch = j.claimEpoch /\ Revocation(j).recovered = j.recovered
      /\ Revocation(j).due = "never" /\ Revocation(j).err = "revoked"
  BY DEF Revocation, BatchFits, GraphJob
<1> QED BY <1>1 DEF BatchFits, Going

LEMMA ReplacementFits ==
  ASSUME NEW j, NEW epoch, BatchFits(j, epoch)
  PROVE  BatchFits(Replacement(j), epoch) /\ Replacement(j).src = j.src /\ Replacement(j).attempts = j.attempts
         /\ Replacement(j).recovered = j.recovered
<1>1. /\ j \in GraphJob /\ Replacement(j) \in GraphJob /\ Replacement(j).src = j.src /\ Replacement(j).attempts = j.attempts
      /\ Replacement(j).claimEpoch = NoEpoch /\ Replacement(j).recovered = j.recovered /\ Replacement(j).due = j.due
      /\ Replacement(j).status = (IF j.due = "never" THEN "pending" ELSE "failed")
  BY DEF Replacement, BatchFits, GraphJob
<1> QED BY <1>1 DEF BatchFits

-----------------------------------------------------------------------------
\* Revoked jobs are replaced one by one, and their budgets go on.
LEMMA RevokeFits ==
  ASSUME paid \in Paid, policy.epoch \in Epoch, BatchesFit(jobs, policy.epoch, paid),
         NEW a, a.detached = FALSE, a.ids \subseteq DOMAIN jobs, \A i \in a.ids : Revoked(jobs[i])
  PROVE  /\ BatchesFit(RevokeJobs(a), policy.epoch, paid)
         /\ DOMAIN jobs \subseteq DOMAIN RevokeJobs(a)
         /\ \A i \in DOMAIN jobs : RevokeJobs(a)[i].recovered = jobs[i].recovered
         /\ (\A i \in DOMAIN jobs : jobs[i].recovered) => \A i \in DOMAIN RevokeJobs(a) : RevokeJobs(a)[i].recovered
<1> DEFINE replaced == {i \in a.ids : jobs[i].attempts < GraphAttempts /\ SourceIds(jobs[i]) # {}}
           kept == [i \in DOMAIN jobs |->
                      IF i \notin a.ids THEN jobs[i]
                      ELSE IF jobs[i].attempts >= GraphAttempts THEN Retired(jobs[i])
                      ELSE IF i \in replaced THEN Revocation(jobs[i]) ELSE jobs[i]]
           order == InOrder(replaced)
           m == [k \in DOMAIN order |-> Replacement(jobs[order[k]])]
           new == kept \o m
<1>0. RevokeJobs(a) = new
  BY DEF RevokeJobs
<1>1. jobs \in Seq(GraphJob) /\ DOMAIN jobs = 1..Len(jobs) /\ Len(jobs) \in Nat
      /\ \A i \in DOMAIN jobs : BatchFits(jobs[i], policy.epoch) /\ jobs[i].attempts \in Nat
  BY JobParts DEF BatchesFit, BatchFits
<1>2. \A i \in replaced : i \in DOMAIN jobs /\ Going(jobs[i]) /\ jobs[i].claimEpoch # NoEpoch
                          /\ jobs[i].claimEpoch < policy.epoch
  BY <1>1, RevokedGoes
<1>3. \A i \in a.ids : jobs[i].attempts >= GraphAttempts \/ i \in replaced
  BY <1>1, RevokedGoes, GraphConstants
<1>4. IsFiniteSet(replaced) /\ replaced \subseteq Nat
  <2> DEFINE ids == 1..Len(jobs)
  <2>1. IsFiniteSet(ids)
    BY <1>1, FS_Interval
  <2>2. replaced \in SUBSET ids /\ ids \subseteq Nat
    BY <1>1
  <2> HIDE DEF ids, replaced
  <2>3. IsFiniteSet(replaced)
    BY <2>1, <2>2, FS_Subset
  <2> QED BY <2>2, <2>3
<1> HIDE DEF replaced
<1>5. /\ DOMAIN order = 1..Cardinality(replaced) /\ Cardinality(replaced) \in Nat
      /\ \A k \in DOMAIN order : order[k] \in replaced
      /\ \A k, l \in DOMAIN order : order[k] = order[l] => k = l
  <2>1. DOMAIN order = 1..Cardinality(replaced)
    BY DEF InOrder
  <2> HIDE DEF order
  <2>2. /\ Cardinality(replaced) \in Nat /\ \A k \in 1..Cardinality(replaced) : order[k] \in replaced
        /\ \A k, l \in 1..Cardinality(replaced) : order[k] = order[l] => k = l
    BY <1>4, Orders DEF order
  <2> QED BY <2>1, <2>2
<1> HIDE DEF order
<1>6. \A i \in DOMAIN jobs : /\ BatchFits(kept[i], policy.epoch) /\ kept[i].src = jobs[i].src
                             /\ kept[i].recovered = jobs[i].recovered
                             /\ (Going(kept[i]) => i \notin replaced /\ kept[i] = jobs[i])
  <2> SUFFICES ASSUME NEW i \in DOMAIN jobs
               PROVE  /\ BatchFits(kept[i], policy.epoch) /\ kept[i].src = jobs[i].src
                      /\ kept[i].recovered = jobs[i].recovered
                      /\ (Going(kept[i]) => i \notin replaced /\ kept[i] = jobs[i])
    OBVIOUS
  <2>1. CASE i \notin a.ids
    <3>1. i \notin replaced /\ kept[i] = jobs[i]
      BY <2>1 DEF replaced
    <3> QED BY <1>1, <3>1
  <2>2. CASE i \in a.ids /\ jobs[i].attempts >= GraphAttempts
    <3>1. kept[i] = Retired(jobs[i])
      BY <2>2
    <3> HIDE DEF kept
    <3> QED BY <1>1, <2>2, <3>1, RetiredFits
  <2>3. CASE i \in a.ids /\ ~(jobs[i].attempts >= GraphAttempts)
    <3>1. i \in replaced /\ kept[i] = Revocation(jobs[i])
      BY <1>3, <2>3
    <3> HIDE DEF kept
    <3> QED BY <1>1, <1>2, <3>1, RevocationFits
  <2> QED BY <2>1, <2>2, <2>3
<1>7. DOMAIN kept = DOMAIN jobs
  OBVIOUS
<1> HIDE DEF kept
<1>8. \A k \in DOMAIN order : /\ order[k] \in DOMAIN jobs /\ BatchFits(m[k], policy.epoch) /\ m[k].src = jobs[order[k]].src
                              /\ m[k].attempts = jobs[order[k]].attempts /\ m[k].recovered = jobs[order[k]].recovered
  <2> SUFFICES ASSUME NEW k \in DOMAIN order
               PROVE  /\ order[k] \in DOMAIN jobs /\ BatchFits(m[k], policy.epoch) /\ m[k].src = jobs[order[k]].src
                      /\ m[k].attempts = jobs[order[k]].attempts /\ m[k].recovered = jobs[order[k]].recovered
    OBVIOUS
  <2>1. order[k] \in DOMAIN jobs /\ m[k] = Replacement(jobs[order[k]]) /\ BatchFits(jobs[order[k]], policy.epoch)
    BY <1>1, <1>2, <1>5
  <2> HIDE DEF m
  <2> QED BY <2>1, ReplacementFits
<1>9. DOMAIN m = DOMAIN order
  OBVIOUS
<1> HIDE DEF m
<1>10. kept \in Seq(GraphJob) /\ m \in Seq(GraphJob)
  <2>1. (\A i \in 1..Len(jobs) : kept[i] \in GraphJob) /\ \A k \in 1..Cardinality(replaced) : m[k] \in GraphJob
    BY <1>1, <1>5, <1>6, <1>8 DEF BatchFits
  <2>2. kept = [i \in 1..Len(jobs) |-> kept[i]] /\ m = [k \in 1..Cardinality(replaced) |-> m[k]]
    BY <1>1, <1>5, <1>7, <1>9 DEF kept, m
  <2>3. Len(jobs) \in Nat /\ Cardinality(replaced) \in Nat
    BY <1>1, <1>5
  <2> HIDE DEF replaced
  <2>4. kept \in Seq(GraphJob)
    <3> DEFINE n == Len(jobs)
    <3>1. n \in Nat /\ kept = [i \in 1..n |-> kept[i]] /\ \A i \in 1..n : kept[i] \in GraphJob
      BY <2>1, <2>2, <2>3
    <3> HIDE DEF n
    <3> QED BY <3>1, AreJobs
  <2>5. m \in Seq(GraphJob)
    <3> DEFINE n == Cardinality(replaced)
    <3>1. n \in Nat /\ m = [k \in 1..n |-> m[k]] /\ \A k \in 1..n : m[k] \in GraphJob
      BY <2>1, <2>2, <2>3
    <3> HIDE DEF n
    <3> QED BY <3>1, AreJobs
  <2> QED BY <2>4, <2>5
<1>11. /\ new \in Seq(GraphJob)
       /\ DOMAIN kept \subseteq DOMAIN new /\ \A i \in DOMAIN kept : new[i] = kept[i]
       /\ \A i \in DOMAIN new : i \notin DOMAIN kept => i - Len(kept) \in DOMAIN m /\ new[i] = m[i - Len(kept)]
       /\ DOMAIN kept = 1..Len(kept) /\ Len(kept) \in Nat
  BY <1>10, JoinedJobs
<1> HIDE DEF new
<1>12. DOMAIN new \subseteq Nat
  BY <1>11
<1> DEFINE from == [x \in DOMAIN new |-> IF x \in DOMAIN kept THEN x ELSE order[x - Len(kept)]]
<1>13. \A x \in DOMAIN new :
         IF x \in DOMAIN kept
         THEN from[x] = x /\ new[x] = kept[x] /\ x \in DOMAIN jobs
         ELSE /\ x - Len(kept) \in DOMAIN order /\ from[x] = order[x - Len(kept)]
              /\ new[x] = m[x - Len(kept)] /\ from[x] \in replaced /\ from[x] \in DOMAIN jobs
  BY <1>2, <1>5, <1>7, <1>9, <1>11
<1>131. \A x \in DOMAIN new : /\ from[x] \in DOMAIN jobs /\ BatchFits(new[x], policy.epoch) /\ new[x].src = jobs[from[x]].src
                              /\ new[x].recovered = jobs[from[x]].recovered
                              /\ (Going(new[x]) => Going(jobs[from[x]]) /\ new[x].attempts = jobs[from[x]].attempts)
  <2> HIDE DEF from
  <2> SUFFICES ASSUME NEW x \in DOMAIN new
               PROVE  /\ from[x] \in DOMAIN jobs /\ BatchFits(new[x], policy.epoch) /\ new[x].src = jobs[from[x]].src
                      /\ new[x].recovered = jobs[from[x]].recovered
                      /\ (Going(new[x]) => Going(jobs[from[x]]) /\ new[x].attempts = jobs[from[x]].attempts)
    OBVIOUS
  <2>1. CASE x \in DOMAIN kept
    BY <1>6, <1>13, <2>1
  <2>2. CASE x \notin DOMAIN kept
    <3> DEFINE k == x - Len(kept)
    <3>1. k \in DOMAIN order /\ from[x] = order[k] /\ new[x] = m[k] /\ from[x] \in replaced
      BY <1>13, <2>2
    <3> HIDE DEF k
    <3> QED BY <1>2, <1>8, <3>1
  <2> QED BY <2>1, <2>2
<1>14. \A x, y \in DOMAIN new : x # y /\ Going(new[x]) /\ Going(new[y]) => from[x] # from[y]
  <2> HIDE DEF from
  <2> SUFFICES ASSUME NEW x \in DOMAIN new, NEW y \in DOMAIN new, x # y, Going(new[x]), Going(new[y]), from[x] = from[y]
               PROVE FALSE
    OBVIOUS
  <2>1. CASE x \in DOMAIN kept /\ y \in DOMAIN kept
    BY <1>13, <2>1
  <2>2. CASE x \notin DOMAIN kept /\ y \notin DOMAIN kept
    <3> DEFINE k == x - Len(kept)
               l == y - Len(kept)
    <3>1. k \in DOMAIN order /\ l \in DOMAIN order /\ order[k] = order[l] /\ k # l
      BY <1>11, <1>12, <1>13, <2>2
    <3> HIDE DEF k, l
    <3> QED BY <1>5, <3>1
  <2>3. CASE x \in DOMAIN kept /\ y \notin DOMAIN kept
    BY <1>6, <1>13, <2>3
  <2>4. CASE x \notin DOMAIN kept /\ y \in DOMAIN kept
    BY <1>6, <1>13, <2>4
  <2> QED BY <2>1, <2>2, <2>3, <2>4
<1> HIDE DEF from
<1>15. Continues(jobs, new, from) /\ Counted(new, paid)
  BY <1>131 DEF Continues, BatchesFit, Counted
<1>16. Accounted(new, paid)
  <2>1. \A i \in DOMAIN jobs : i \in DOMAIN new /\ new[i].src = jobs[i].src
    BY <1>6, <1>7, <1>11
  <2> QED BY <2>1 DEF BatchesFit, Accounted
<1>17. BatchesFit(new, policy.epoch, paid)
  BY <1>11, <1>131, <1>14, <1>15, <1>16, ContinuedFit
<1>18. DOMAIN jobs \subseteq DOMAIN new /\ \A i \in DOMAIN jobs : new[i].recovered = jobs[i].recovered
  BY <1>6, <1>7, <1>11
<1>19. (\A i \in DOMAIN jobs : jobs[i].recovered) => \A i \in DOMAIN new : new[i].recovered
  BY <1>131
<1> QED BY <1>0, <1>17, <1>18, <1>19

-----------------------------------------------------------------------------
\* The jobs a claim splits off, beside the slice it takes.
Siblings(j) ==
  LET deferred == j.src \ SourceIds(j)
  IN (IF deferred = {} THEN <<>> ELSE <<deferred>>) \o Tail(Slices(SourceIds(j)))

LEMMA SiblingsFit ==
  ASSUME NEW j \in GraphJob, SourceIds(j) # {}
  PROVE  LET first == Slices(SourceIds(j))[1] IN
         /\ first \subseteq SourceIds(j) /\ SourceIds(j) \subseteq j.src
         /\ Siblings(j) \in Seq(SUBSET j.src)
         /\ \A k \in DOMAIN Siblings(j) : Siblings(j)[k] \cap first = {}
         /\ \A k, l \in DOMAIN Siblings(j) : k # l => Siblings(j)[k] \cap Siblings(j)[l] = {}
         /\ \A e \in j.src : e \in first \/ \E k \in DOMAIN Siblings(j) : e \in Siblings(j)[k]
<1> DEFINE ids == SourceIds(j)
           slices == Slices(ids)
           deferred == j.src \ ids
           front == IF deferred = {} THEN <<>> ELSE <<deferred>>
           back == Tail(slices)
           s == front \o back
<1>0. Siblings(j) = s
  BY DEF Siblings
<1>1. ids \subseteq j.src /\ j.src \subseteq GraphEvent /\ ids # {}
  BY JobParts DEF SourceIds
<1>2. IsFiniteSet(ids) /\ ids \subseteq Nat
  BY <1>1, GraphConstants, FS_Subset
<1> HIDE DEF ids
<1>3. /\ slices \in Seq(SUBSET ids)
      /\ \A k, l \in DOMAIN slices : k # l => slices[k] \cap slices[l] = {}
      /\ \A x \in ids : \E k \in DOMAIN slices : x \in slices[k]
  BY <1>2, SlicesFit
<1> HIDE DEF slices
<1>4. Len(slices) \in Nat /\ DOMAIN slices = 1..Len(slices) /\ 1 \in DOMAIN slices
  BY <1>1, <1>3
<1>5. /\ back \in Seq(SUBSET ids) /\ DOMAIN back = 1..(Len(slices) - 1)
      /\ \A k \in DOMAIN back : k + 1 \in DOMAIN slices /\ back[k] = slices[k + 1] /\ k + 1 # 1
  <2>1. slices # <<>>
    BY <1>4
  <2>2. back \in Seq(SUBSET ids) /\ Len(back) = Len(slices) - 1
    BY <1>3, <2>1, HeadTailProperties
  <2>3. \A k \in 1..Len(back) : back[k] = slices[k + 1]
    BY <1>3, <2>1, HeadTailProperties
  <2> HIDE DEF back
  <2> QED BY <1>4, <2>2, <2>3
<1> DEFINE S == SUBSET j.src
<1>6. front \in Seq(S) /\ back \in Seq(S)
  <2>1. deferred \in S /\ SUBSET ids \subseteq S
    BY <1>1
  <2>3. \A i \in DOMAIN back : back[i] \in S
    BY <1>5, <2>1
  <2> HIDE DEF S, back, deferred
  <2>2. <<>> \in Seq(S) /\ \A x \in S : <<x>> \in Seq(S)
    OBVIOUS
  <2>4. back \in Seq(S)
    BY <1>5, <2>1, <2>3
  <2> QED BY <2>1, <2>2, <2>4
<1>7. \A k \in DOMAIN front : k = 1 /\ front[k] = deferred
  OBVIOUS
<1>8. deferred # {} => 1 \in DOMAIN front /\ front[1] = deferred
  OBVIOUS
<1> HIDE DEF back, front, S
<1>9. s \in Seq(S) /\ Len(s) = Len(front) + Len(back)
  BY <1>6, ConcatProperties
<1>10. \A i \in 1..(Len(front) + Len(back)) : s[i] = IF i <= Len(front) THEN front[i] ELSE back[i - Len(front)]
  BY <1>6, ConcatProperties
<1>11. Len(front) \in Nat /\ Len(back) \in Nat /\ DOMAIN front = 1..Len(front) /\ DOMAIN back = 1..Len(back)
  BY <1>6
<1> HIDE DEF s
<1>12. DOMAIN s = 1..(Len(front) + Len(back))
  BY <1>9, <1>11
<1>13. \A i \in DOMAIN s : i \in Nat /\ IF i \in DOMAIN front THEN s[i] = front[i]
                                     ELSE i - Len(front) \in DOMAIN back /\ s[i] = back[i - Len(front)]
  BY <1>10, <1>11, <1>12
<1>14. /\ \A i \in DOMAIN front : i \in DOMAIN s /\ s[i] = front[i]
       /\ \A i \in DOMAIN back : Len(front) + i \in DOMAIN s /\ s[Len(front) + i] = back[i]
  BY <1>10, <1>11, <1>12
<1>15. \A k \in DOMAIN s : s[k] \cap slices[1] = {}
  <2> SUFFICES ASSUME NEW k \in DOMAIN s PROVE s[k] \cap slices[1] = {}
    OBVIOUS
  <2>1. CASE k \in DOMAIN front
    BY <1>3, <1>4, <1>7, <1>13, <2>1
  <2>2. CASE k \notin DOMAIN front
    BY <1>3, <1>4, <1>5, <1>13, <2>2
  <2> QED BY <2>1, <2>2
<1>16. \A k \in DOMAIN back : back[k] \subseteq ids
  BY <1>5
<1>17. \A k, l \in DOMAIN back : k # l => back[k] \cap back[l] = {}
  <2> SUFFICES ASSUME NEW k \in DOMAIN back, NEW l \in DOMAIN back, k # l PROVE back[k] \cap back[l] = {}
    OBVIOUS
  <2>1. k + 1 # l + 1
    BY <1>11
  <2> QED BY <1>3, <1>5, <2>1
<1>18. \A k, l \in DOMAIN s : k # l => s[k] \cap s[l] = {}
  <2> SUFFICES ASSUME NEW k \in DOMAIN s, NEW l \in DOMAIN s, k # l PROVE s[k] \cap s[l] = {}
    OBVIOUS
  <2>1. CASE k \in DOMAIN front /\ l \in DOMAIN front
    BY <1>7, <2>1
  <2>2. CASE k \notin DOMAIN front /\ l \notin DOMAIN front
    <3> DEFINE x == k - Len(front)
               y == l - Len(front)
    <3>1. x \in DOMAIN back /\ y \in DOMAIN back /\ x # y /\ s[k] = back[x] /\ s[l] = back[y]
      BY <1>11, <1>13, <2>2
    <3> HIDE DEF x, y
    <3> QED BY <1>17, <3>1
  <2>3. CASE k \in DOMAIN front /\ l \notin DOMAIN front
    <3>1. s[k] = deferred /\ s[l] \subseteq ids
      BY <1>7, <1>13, <1>16, <2>3
    <3> QED BY <3>1
  <2>4. CASE k \notin DOMAIN front /\ l \in DOMAIN front
    <3>1. s[l] = deferred /\ s[k] \subseteq ids
      BY <1>7, <1>13, <1>16, <2>4
    <3> QED BY <3>1
  <2> QED BY <2>1, <2>2, <2>3, <2>4
<1>19. \A e \in j.src : e \in slices[1] \/ \E k \in DOMAIN s : e \in s[k]
  <2> SUFFICES ASSUME NEW e \in j.src, e \notin slices[1] PROVE \E k \in DOMAIN s : e \in s[k]
    OBVIOUS
  <2>1. CASE e \notin ids
    BY <1>8, <1>14, <2>1
  <2>2. CASE e \in ids
    <3>1. PICK k \in DOMAIN slices : e \in slices[k]
      BY <1>3, <2>2
    <3> DEFINE i == k - 1
    <3>2. i \in DOMAIN back /\ i + 1 = k
      BY <1>4, <1>5, <3>1
    <3> HIDE DEF i
    <3>3. e \in back[i]
      BY <1>5, <3>1, <3>2
    <3> QED BY <1>14, <3>2, <3>3
  <2> QED BY <2>1, <2>2
<1>20. slices[1] \subseteq ids
  BY <1>3, <1>4
<1> QED BY <1>0, <1>1, <1>9, <1>15, <1>18, <1>19, <1>20 DEF ids, slices, S

-----------------------------------------------------------------------------
LEMMA ClaimableGoes ==
  ASSUME NEW j, NEW epoch, BatchFits(j, epoch), Claimable(j)
  PROVE  Going(j) /\ SourceIds(j) # {}
BY JobParts, GraphConstants DEF BatchFits, Claimable, Going

Taken(j, src) == [Leased(j) EXCEPT !.src = src]

LEMMA TakenFits ==
  ASSUME NEW j, policy.epoch \in Epoch, BatchFits(j, policy.epoch), j.attempts < GraphAttempts,
         NEW src \in SUBSET GraphEvent
  PROVE  /\ BatchFits(Taken(j, src), policy.epoch) /\ Taken(j, src).src = src
         /\ Taken(j, src).attempts = j.attempts + 1 /\ Taken(j, src).recovered
<1>1. j \in GraphJob /\ j.attempts + 1 \in 0..GraphAttempts
  BY JobParts, GraphConstants DEF BatchFits
<1>2. /\ Taken(j, src) \in GraphJob /\ Taken(j, src).src = src /\ Taken(j, src).attempts = j.attempts + 1
      /\ Taken(j, src).recovered = TRUE /\ Taken(j, src).claimEpoch = policy.epoch /\ Taken(j, src).status = "running"
  BY <1>1 DEF Taken, Leased, GraphJob
<1>3. policy.epoch <= policy.epoch
  BY GraphConstants DEF Epoch
<1> QED BY <1>2, <1>3 DEF BatchFits

LEMMA SplitFits ==
  ASSUME NEW j, NEW epoch, BatchFits(j, epoch), NEW src \in SUBSET GraphEvent
  PROVE  /\ BatchFits(SplitOff(j, src), epoch) /\ SplitOff(j, src).src = src
         /\ SplitOff(j, src).attempts = j.attempts /\ SplitOff(j, src).recovered = j.recovered
<1>1. /\ SplitOff(j, src) \in GraphJob /\ SplitOff(j, src).src = src /\ SplitOff(j, src).attempts = j.attempts
      /\ SplitOff(j, src).recovered = j.recovered /\ SplitOff(j, src).claimEpoch = j.claimEpoch
      /\ SplitOff(j, src).status = j.status /\ SplitOff(j, src).due = j.due /\ SplitOff(j, src).err = j.err
  BY DEF SplitOff, BatchFits, GraphJob
<1> QED BY <1>1 DEF BatchFits

\* Job i of js was claimed for the Events first; what it had besides is in jobs of its own.
Cut(js, i, first, x, j, epoch) ==
  /\ BatchFits(j, epoch)
  /\ \/ x \in DOMAIN js /\ x # i /\ j = js[x]
     \/ x = i /\ j.src = first /\ j.attempts = js[i].attempts + 1
     \/ x \notin DOMAIN js /\ j.src \subseteq js[i].src \ first /\ j.attempts = js[i].attempts

CutUp(js, i, first, new, epoch) ==
  /\ first \subseteq js[i].src /\ new \in Seq(GraphJob) /\ DOMAIN js \subseteq DOMAIN new
  /\ \A x \in DOMAIN new : Cut(js, i, first, x, new[x], epoch)
  /\ \A x, y \in DOMAIN new \ DOMAIN js : x # y => new[x].src \cap new[y].src = {}
  /\ \A e \in js[i].src : \E x \in DOMAIN new : e \in new[x].src
PaidFor(pd, pd2, first) == \A e \in GraphEvent : pd2[e] = IF e \in first THEN pd[e] + 1 ELSE pd[e]

LEMMA CutsFit ==
  ASSUME NEW js, NEW epoch, NEW pd \in Paid, BatchesFit(js, epoch, pd),
         NEW i \in DOMAIN js, Going(js[i]), NEW first, NEW new, CutUp(js, i, first, new, epoch),
         NEW pd2 \in Paid, PaidFor(pd, pd2, first)
  PROVE  BatchesFit(new, epoch, pd2)
<1>0. /\ first \subseteq js[i].src /\ new \in Seq(GraphJob) /\ DOMAIN js \subseteq DOMAIN new
      /\ \A x \in DOMAIN new : Cut(js, i, first, x, new[x], epoch)
      /\ \A x, y \in DOMAIN new \ DOMAIN js : x # y => new[x].src \cap new[y].src = {}
      /\ \A e \in js[i].src : \E x \in DOMAIN new : e \in new[x].src
      /\ \A e \in GraphEvent : pd2[e] = IF e \in first THEN pd[e] + 1 ELSE pd[e]
  BY DEF CutUp, PaidFor
<1> USE <1>0
<1>1. /\ js[i].src \subseteq GraphEvent /\ js[i].attempts \in Nat /\ js[i].attempts < GraphAttempts
      /\ \A x \in DOMAIN js : js[x].src \subseteq GraphEvent
  BY JobParts DEF BatchesFit, BatchFits, Going
<1>2. \A x \in DOMAIN js : x # i /\ Going(js[x]) => js[x].src \cap js[i].src = {}
  BY DEF BatchesFit, Apart
<1>3. \A e \in js[i].src : e \in GraphEvent /\ pd[e] \in Nat /\ pd[e] <= js[i].attempts
  BY <1>1 DEF BatchesFit, Counted, Paid
<1>4. Apart(new)
  <2> SUFFICES ASSUME NEW x \in DOMAIN new, NEW y \in DOMAIN new, x # y, Going(new[x]), Going(new[y])
               PROVE new[x].src \cap new[y].src = {}
    BY DEF Apart
  <2>1. Cut(js, i, first, x, new[x], epoch) /\ Cut(js, i, first, y, new[y], epoch)
    OBVIOUS
  <2>2. CASE x \notin DOMAIN js /\ y \notin DOMAIN js
    BY <2>2
  <2>3. CASE x \in DOMAIN js /\ x # i /\ y \in DOMAIN js /\ y # i
    <3>1. new[x] = js[x] /\ new[y] = js[y]
      BY <2>1, <2>3 DEF Cut
    <3> QED BY <2>3, <3>1 DEF BatchesFit, Apart
  <2>4. CASE x \in DOMAIN js /\ x # i /\ (y = i \/ y \notin DOMAIN js)
    <3>1. new[x] = js[x] /\ new[y].src \subseteq js[i].src
      BY <2>1, <2>4 DEF Cut
    <3> QED BY <1>2, <2>4, <3>1
  <2>5. CASE y \in DOMAIN js /\ y # i /\ (x = i \/ x \notin DOMAIN js)
    <3>1. new[y] = js[y] /\ new[x].src \subseteq js[i].src
      BY <2>1, <2>5 DEF Cut
    <3> QED BY <1>2, <2>5, <3>1
  <2>6. CASE x = i /\ y \notin DOMAIN js
    BY <2>1, <2>6 DEF Cut
  <2>7. CASE y = i /\ x \notin DOMAIN js
    BY <2>1, <2>7 DEF Cut
  <2> QED BY <2>2, <2>3, <2>4, <2>5, <2>6, <2>7
<1>5. Counted(new, pd2)
  <2> SUFFICES ASSUME NEW x \in DOMAIN new, Going(new[x]), NEW e \in new[x].src
               PROVE pd2[e] <= new[x].attempts
    BY DEF Counted
  <2>1. Cut(js, i, first, x, new[x], epoch)
    OBVIOUS
  <2>2. CASE x = i
    BY <1>1, <1>3, <2>1, <2>2 DEF Cut
  <2>3. CASE x \in DOMAIN js /\ x # i
    <3>1. new[x] = js[x]
      BY <2>1, <2>3 DEF Cut
    <3>2. e \notin js[i].src /\ pd[e] <= js[x].attempts /\ e \in GraphEvent
      BY <1>1, <1>2, <2>3, <3>1 DEF BatchesFit, Counted
    <3> QED BY <3>1, <3>2
  <2>4. CASE x \notin DOMAIN js
    <3>1. e \in js[i].src /\ e \notin first /\ new[x].attempts = js[i].attempts
      BY <2>1, <2>4 DEF Cut
    <3> QED BY <1>3, <3>1
  <2> QED BY <2>2, <2>3, <2>4
<1>6. Accounted(new, pd2)
  <2> SUFFICES ASSUME NEW e \in GraphEvent
               PROVE pd2[e] <= GraphAttempts /\ (pd2[e] # 0 => \E x \in DOMAIN new : e \in new[x].src)
    BY DEF Accounted
  <2>1. CASE e \in js[i].src
    <3>1. pd2[e] <= GraphAttempts
      BY <1>1, <1>3, <2>1, GraphConstants
    <3> QED BY <2>1, <3>1
  <2>2. CASE e \notin js[i].src
    <3>1. pd2[e] = pd[e]
      BY <2>2
    <3>2. ASSUME NEW x \in DOMAIN js, e \in js[x].src PROVE x \in DOMAIN new /\ e \in new[x].src
      <4>1. x # i /\ x \in DOMAIN new /\ Cut(js, i, first, x, new[x], epoch)
        BY <2>2, <3>2
      <4> QED BY <3>2, <4>1 DEF Cut
    <3> QED BY <3>1, <3>2 DEF BatchesFit, Accounted
  <2> QED BY <2>1, <2>2
<1>7. \A x \in DOMAIN new : BatchFits(new[x], epoch)
  BY DEF Cut
<1> QED BY <1>4, <1>5, <1>6, <1>7 DEF BatchesFit

ClaimOf(i, first, sib, new, pd) ==
  /\ first = Slices(SourceIds(jobs[i]))[1] /\ sib = Siblings(jobs[i])
  /\ new = [jobs EXCEPT ![i] = Taken(jobs[i], first)] \o [k \in DOMAIN sib |-> SplitOff(jobs[i], sib[k])]
  /\ pd = [e \in GraphEvent |-> IF e \in first THEN paid[e] + 1 ELSE paid[e]]

\* A claim pays for the slice it takes; what it splits off has counted what was paid before.
LEMMA ClaimFits ==
  ASSUME paid \in Paid, policy.epoch \in Epoch, BatchesFit(jobs, policy.epoch, paid),
         NEW i \in DOMAIN jobs, Claimable(jobs[i]),
         NEW first, NEW sib, NEW new, NEW pd, ClaimOf(i, first, sib, new, pd)
  PROVE  /\ pd \in Paid /\ BatchesFit(new, policy.epoch, pd)
         /\ DOMAIN jobs \subseteq DOMAIN new /\ new[i].recovered
         /\ \A x \in DOMAIN jobs : jobs[x].recovered => new[x].recovered
         /\ (\A x \in DOMAIN jobs : jobs[x].recovered) => \A x \in DOMAIN new : new[x].recovered
<1> DEFINE j == jobs[i]
           kept == [jobs EXCEPT ![i] = Taken(j, first)]
           m == [k \in DOMAIN sib |-> SplitOff(j, sib[k])]
<1>1. jobs \in Seq(GraphJob) /\ DOMAIN jobs = 1..Len(jobs) /\ Len(jobs) \in Nat
      /\ \A x \in DOMAIN jobs : BatchFits(jobs[x], policy.epoch)
  BY DEF BatchesFit
<1>2. BatchFits(j, policy.epoch) /\ Going(j) /\ SourceIds(j) # {} /\ j \in GraphJob
  BY <1>1, ClaimableGoes DEF BatchFits
<1>3. j.src \subseteq GraphEvent /\ j.attempts \in Nat /\ j.attempts < GraphAttempts
  BY <1>2, JobParts DEF Going
<1>0. first = Slices(SourceIds(j))[1] /\ sib = Siblings(j)
  BY DEF ClaimOf
<1>4. /\ first \subseteq j.src /\ sib \in Seq(SUBSET j.src)
      /\ \A k \in DOMAIN sib : sib[k] \cap first = {}
      /\ \A k, l \in DOMAIN sib : k # l => sib[k] \cap sib[l] = {}
      /\ \A e \in j.src : e \in first \/ \E k \in DOMAIN sib : e \in sib[k]
  <2>1. first \subseteq SourceIds(j) /\ SourceIds(j) \subseteq j.src
    BY <1>0, <1>2, SiblingsFit
  <2>2. sib \in Seq(SUBSET j.src)
    BY <1>0, <1>2, SiblingsFit
  <2>3. \A k \in DOMAIN sib : sib[k] \cap first = {}
    BY <1>0, <1>2, SiblingsFit
  <2>4. \A k, l \in DOMAIN sib : k # l => sib[k] \cap sib[l] = {}
    BY <1>0, <1>2, SiblingsFit
  <2>5. \A e \in j.src : e \in first \/ \E k \in DOMAIN sib : e \in sib[k]
    BY <1>0, <1>2, SiblingsFit
  <2> HIDE DEF j
  <2> QED BY <2>1, <2>2, <2>3, <2>4, <2>5
<1>5. \A x \in DOMAIN jobs : /\ BatchFits(kept[x], policy.epoch)
                             /\ IF x = i THEN kept[x].src = first /\ kept[x].attempts = j.attempts + 1 /\ kept[x].recovered
                                ELSE kept[x] = jobs[x]
  <2> SUFFICES ASSUME NEW x \in DOMAIN jobs
               PROVE  /\ BatchFits(kept[x], policy.epoch)
                      /\ IF x = i THEN kept[x].src = first /\ kept[x].attempts = j.attempts + 1 /\ kept[x].recovered
                         ELSE kept[x] = jobs[x]
    OBVIOUS
  <2>1. CASE x = i
    <3>1. kept[x] = Taken(j, first) /\ first \in SUBSET GraphEvent
      BY <1>1, <1>3, <1>4, <2>1
    <3> HIDE DEF kept, j
    <3> QED BY <1>2, <1>3, <2>1, <3>1, TakenFits
  <2>2. CASE x # i
    <3>1. kept[x] = jobs[x]
      BY <1>1, <2>2
    <3> HIDE DEF kept, j
    <3> QED BY <1>1, <2>2, <3>1
  <2> QED BY <2>1, <2>2
<1>6. DOMAIN kept = DOMAIN jobs
  OBVIOUS
<1> HIDE DEF kept
<1>7. \A k \in DOMAIN sib : /\ sib[k] \subseteq j.src /\ BatchFits(m[k], policy.epoch) /\ m[k].src = sib[k]
                            /\ m[k].attempts = j.attempts /\ m[k].recovered = j.recovered
  <2> HIDE DEF j
  <2> SUFFICES ASSUME NEW k \in DOMAIN sib
               PROVE  /\ sib[k] \subseteq j.src /\ BatchFits(m[k], policy.epoch) /\ m[k].src = sib[k]
                      /\ m[k].attempts = j.attempts /\ m[k].recovered = j.recovered
    OBVIOUS
  <2>1. sib[k] \subseteq j.src /\ m[k] = SplitOff(j, sib[k])
    BY <1>4
  <2> HIDE DEF m
  <2>2. sib[k] \in SUBSET GraphEvent
    BY <1>3, <2>1
  <2> QED BY <1>2, <2>1, <2>2, SplitFits
<1>8. DOMAIN m = DOMAIN sib
  OBVIOUS
<1> HIDE DEF m
<1>9. kept \in Seq(GraphJob) /\ m \in Seq(GraphJob)
  <2>1. kept = [x \in DOMAIN kept |-> kept[x]] /\ m = [k \in DOMAIN m |-> m[k]]
    BY DEF kept, m
  <2> HIDE DEF j
  <2>2. \A x \in DOMAIN kept : kept[x] \in GraphJob
    BY <1>5, <1>6 DEF BatchFits
  <2>3. \A k \in DOMAIN m : m[k] \in GraphJob
    BY <1>7, <1>8 DEF BatchFits
  <2>4. DOMAIN kept = 1..Len(jobs) /\ Len(jobs) \in Nat
    BY <1>1, <1>6
  <2>5. DOMAIN m = 1..Len(sib) /\ Len(sib) \in Nat
    BY <1>4, <1>8
  <2>6. kept \in Seq(GraphJob)
    BY <2>1, <2>2, <2>4
  <2>7. m \in Seq(GraphJob)
    <3> DEFINE n == Len(sib)
    <3>1. n \in Nat /\ m = [k \in 1..n |-> m[k]] /\ \A k \in 1..n : m[k] \in GraphJob
      BY <2>1, <2>3, <2>5
    <3> HIDE DEF n
    <3> QED BY <3>1, AreJobs
  <2> QED BY <2>6, <2>7
<1>10. new = kept \o m
  BY Zenon DEF ClaimOf, kept, m
<1>11. /\ new \in Seq(GraphJob)
       /\ DOMAIN kept \subseteq DOMAIN new /\ \A x \in DOMAIN kept : new[x] = kept[x]
       /\ \A x \in DOMAIN new : x \notin DOMAIN kept => x - Len(kept) \in DOMAIN m /\ new[x] = m[x - Len(kept)]
       /\ \A k \in DOMAIN m : Len(kept) + k \in DOMAIN new /\ Len(kept) + k \notin DOMAIN kept /\ new[Len(kept) + k] = m[k]
       /\ DOMAIN kept = 1..Len(kept) /\ Len(kept) \in Nat
  <2> HIDE DEF j
  <2> DEFINE z == kept \o m
  <2>1. /\ z \in Seq(GraphJob)
        /\ DOMAIN kept \subseteq DOMAIN z /\ \A x \in DOMAIN kept : z[x] = kept[x]
        /\ \A x \in DOMAIN z : x \notin DOMAIN kept => x - Len(kept) \in DOMAIN m /\ z[x] = m[x - Len(kept)]
        /\ \A k \in DOMAIN m : Len(kept) + k \in DOMAIN z /\ Len(kept) + k \notin DOMAIN kept /\ z[Len(kept) + k] = m[k]
        /\ DOMAIN kept = 1..Len(kept) /\ Len(kept) \in Nat
    BY <1>9, JoinedJobs
  <2>2. new = z
    BY <1>10
  <2> HIDE DEF z
  <2> QED BY <2>1, <2>2
<1>12. DOMAIN new \subseteq Nat
  BY <1>11
<1>13. pd \in Paid /\ \A e \in GraphEvent : pd[e] = IF e \in first THEN paid[e] + 1 ELSE paid[e]
  <2>1. pd = [e \in GraphEvent |-> IF e \in first THEN paid[e] + 1 ELSE paid[e]]
    BY DEF ClaimOf
  <2> QED BY <2>1 DEF Paid
<1>14. \A x \in DOMAIN new : IF x \in DOMAIN kept THEN x \in DOMAIN jobs /\ new[x] = kept[x]
                             ELSE x - Len(kept) \in DOMAIN sib /\ new[x] = m[x - Len(kept)]
  BY <1>6, <1>8, <1>11
<1>16. \A x \in DOMAIN new : Cut(jobs, i, first, x, new[x], policy.epoch)
  <2> SUFFICES ASSUME NEW x \in DOMAIN new PROVE Cut(jobs, i, first, x, new[x], policy.epoch)
    OBVIOUS
  <2>1. CASE x \in DOMAIN kept
    <3>1. x \in DOMAIN jobs /\ new[x] = kept[x]
      BY <1>14, <2>1
    <3>2. BatchFits(kept[x], policy.epoch)
      BY <1>5, <3>1
    <3>3. IF x = i THEN kept[x].src = first /\ kept[x].attempts = j.attempts + 1 ELSE kept[x] = jobs[x]
      BY <1>5, <3>1
    <3> QED BY <3>1, <3>2, <3>3, Zenon DEF Cut
  <2>2. CASE x \notin DOMAIN kept
    <3> DEFINE k == x - Len(kept)
    <3>1. k \in DOMAIN sib /\ new[x] = m[k] /\ x \notin DOMAIN jobs
      BY <1>6, <1>14, <2>2
    <3> HIDE DEF k
    <3>2. BatchFits(m[k], policy.epoch) /\ m[k].src = sib[k] /\ m[k].attempts = j.attempts
      BY <1>7, <3>1
    <3>3. sib[k] \subseteq j.src \ first
      BY <1>4, <1>7, <3>1
    <3>4. new[x].src \subseteq j.src \ first
      BY <3>1, <3>2, <3>3
    <3> QED BY <3>1, <3>2, <3>4, Zenon DEF Cut
  <2> QED BY <2>1, <2>2
<1>17. \A x, y \in DOMAIN new \ DOMAIN jobs : x # y => new[x].src \cap new[y].src = {}
  <2> SUFFICES ASSUME NEW x \in DOMAIN new, x \notin DOMAIN jobs, NEW y \in DOMAIN new, y \notin DOMAIN jobs, x # y
               PROVE new[x].src \cap new[y].src = {}
    BY Zenon
  <2> DEFINE k == x - Len(kept)
             l == y - Len(kept)
  <2>1. k \in DOMAIN sib /\ l \in DOMAIN sib /\ new[x] = m[k] /\ new[y] = m[l]
    BY <1>6, <1>14
  <2>2. x \in Nat /\ y \in Nat /\ Len(kept) \in Nat
    BY <1>11, <1>12
  <2>3. k # l
    BY <2>2
  <2> HIDE DEF k, l
  <2>4. new[x].src = sib[k] /\ new[y].src = sib[l]
    BY <1>7, <2>1
  <2>5. sib[k] \cap sib[l] = {}
    BY <1>4, <2>1, <2>3
  <2> QED BY <2>4, <2>5, Zenon
<1>18. \A e \in j.src : \E x \in DOMAIN new : e \in new[x].src
  <2> SUFFICES ASSUME NEW e \in j.src PROVE \E x \in DOMAIN new : e \in new[x].src
    OBVIOUS
  <2>1. CASE e \in first
    <3>1. i \in DOMAIN kept /\ i \in DOMAIN new /\ new[i] = kept[i]
      BY <1>6, <1>11
    <3>2. kept[i].src = first
      BY <1>5
    <3> QED BY <2>1, <3>1, <3>2
  <2>2. CASE e \notin first
    <3>1. PICK k \in DOMAIN sib : e \in sib[k]
      BY <1>4, <2>2
    <3>2. Len(kept) + k \in DOMAIN new /\ new[Len(kept) + k] = m[k]
      BY <1>8, <1>11
    <3> QED BY <1>7, <3>1, <3>2
  <2> QED BY <2>1, <2>2
<1>22. BatchesFit(new, policy.epoch, pd)
  <2>1. CutUp(jobs, i, first, new, policy.epoch)
    BY <1>4, <1>6, <1>11, <1>16, <1>17, <1>18, Zenon DEF CutUp
  <2>2. PaidFor(paid, pd, first) /\ pd \in Paid
    BY <1>13 DEF PaidFor
  <2>3. Going(jobs[i])
    BY <1>2
  <2> QED BY <2>1, <2>2, <2>3, CutsFit
<1>23. DOMAIN jobs \subseteq DOMAIN new /\ new[i].recovered /\ \A x \in DOMAIN jobs : jobs[x].recovered => new[x].recovered
  BY <1>5, <1>6, <1>11
<1>24. (\A x \in DOMAIN jobs : jobs[x].recovered) => \A x \in DOMAIN new : new[x].recovered
  <2> SUFFICES ASSUME \A x \in DOMAIN jobs : jobs[x].recovered, NEW x \in DOMAIN new PROVE new[x].recovered
    OBVIOUS
  <2>1. CASE x \in DOMAIN kept
    BY <1>6, <1>23, <2>1
  <2>2. CASE x \notin DOMAIN kept
    <3> DEFINE k == x - Len(kept)
    <3>1. k \in DOMAIN sib /\ new[x] = m[k]
      BY <1>14, <2>2
    <3> HIDE DEF k
    <3> QED BY <1>7, <3>1
  <2> QED BY <2>1, <2>2
<1> QED BY <1>13, <1>22, <1>23, <1>24

-----------------------------------------------------------------------------
\* The job of before the name provenance rule rests as it was found, with nothing under way, or
\* every job is one that the recovery leaves alone.
Untouched ==
  /\ jobs = <<LegacyJob>> /\ \A e \in GraphEvent : paid[e] = 0 /\ card[e] # "absent"
  /\ \A p \in GraphProc, w \in GraphWorker : act[p][w].pc = "idle"
Recoverable == Untouched \/ \A i \in DOMAIN jobs : jobs[i].recovered

\* What an activation found revoked is so as long as its commit would be taken.
ActFits(p, w) ==
  LET a == act[p][w] IN
  /\ a.pc = "adding" => a.ids \subseteq GraphEvent
  /\ a.pc = "calling" => \E i \in DOMAIN jobs : a.ids = {i} /\ jobs[i].recovered
  /\ a.pc = "revoking" => /\ a.detached = FALSE /\ a.epoch \in Nat /\ a.epoch <= policy.epoch
                          /\ current[p] /\ a.epoch = policy.epoch =>
                               a.ids \subseteq DOMAIN jobs /\ \A i \in a.ids : Revoked(jobs[i])
  /\ open[p] # "yes" => a.pc = "idle"

OneRevokes(p) == \A v, w \in GraphWorker : act[p][v].pc = "revoking" /\ act[p][w].pc = "revoking" => v = w

ActsFit == \A p \in GraphProc : OneRevokes(p) /\ \A w \in GraphWorker : ActFits(p, w)

BudgetInv == GraphTypeOK /\ BatchesFit(jobs, policy.epoch, paid) /\ Recoverable /\ ActsFit

(* What a step leaves to the activations *)

\* No job goes away, and none becomes recoverable again.
Kept == DOMAIN jobs \subseteq DOMAIN jobs' /\ \A i \in DOMAIN jobs : jobs[i].recovered => jobs'[i].recovered
Unmoved == jobs' = jobs /\ card' = card /\ policy' = policy
Acts == [GraphProc -> [GraphWorker -> Activity]]

\* Activation w of p takes a step in which either nothing durable changes or only p's copy stays good.
Stepped(p, w) ==
  /\ \A q \in GraphProc, v \in GraphWorker : ~(q = p /\ v = w) => act'[q][v] = act[q][v]
  /\ policy' = policy /\ open' = open /\ Kept
  /\ (Unmoved /\ current' = current) \/ \A q \in GraphProc : q # p => current'[q] = FALSE

ActsTo(p, w, x) == act' = [act EXCEPT ![p][w] = x]

LEMMA OneActs ==
  ASSUME act \in Acts, NEW p \in GraphProc, NEW w \in GraphWorker, NEW x \in Activity, ActsTo(p, w, x)
  PROVE  /\ act' \in Acts /\ act'[p][w] = x
         /\ \A q \in GraphProc, v \in GraphWorker : ~(q = p /\ v = w) => act'[q][v] = act[q][v]
<1> HIDE DEF Activity
<1> QED BY DEF Acts, ActsTo

LEMMA RestingTyped == Resting \in Activity /\ Resting.pc = "idle" /\ Resting.detached = FALSE
BY GraphConstants DEF Resting, Activity

LEMMA RestsFits ==
  ASSUME act \in Acts, NEW p \in GraphProc, NEW w \in GraphWorker, Rest(p, w)
  PROVE  /\ act' \in Acts /\ act'[p][w].pc = "idle"
         /\ \A q \in GraphProc, v \in GraphWorker : ~(q = p /\ v = w) => act'[q][v] = act[q][v]
<1>1. ActsTo(p, w, Resting)
  BY DEF Rest, ActsTo
<1> QED BY <1>1, RestingTyped, OneActs

LEMMA HoldsFits ==
  ASSUME act \in Acts, NEW p \in GraphProc, NEW w \in GraphWorker, policy.epoch \in Epoch,
         NEW pc \in {"prepared", "calling"}, NEW ids \in SUBSET Nat, NEW n \in 0..GraphAttempts,
         Hold(p, w, pc, ids, n)
  PROVE  /\ act' \in Acts /\ act'[p][w].pc = pc /\ act'[p][w].ids = ids
         /\ \A q \in GraphProc, v \in GraphWorker : ~(q = p /\ v = w) => act'[q][v] = act[q][v]
<1> DEFINE x == [Resting EXCEPT !.pc = pc, !.epoch = policy.epoch, !.ids = ids, !.attempt = n]
<1>1. x \in Activity /\ x.pc = pc /\ x.ids = ids
  BY RestingTyped DEF Activity
<1>2. ActsTo(p, w, x)
  BY DEF Hold, ActsTo
<1> HIDE DEF x
<1> QED BY <1>1, <1>2, OneActs

\* The activations of a step of one of them.
LEMMA SteppedFit ==
  ASSUME ActsFit, NEW p \in GraphProc, NEW w \in GraphWorker, Stepped(p, w),
         \A v \in GraphWorker : v # w => act[p][v].pc # "revoking",
         ActFits(p, w)'
  PROVE  ActsFit'
<1> SUFFICES ASSUME NEW q \in GraphProc PROVE OneRevokes(q)' /\ \A v \in GraphWorker : ActFits(q, v)'
  BY DEF ActsFit
<1>1. OneRevokes(q)'
  <2>1. CASE q = p
    BY <2>1 DEF OneRevokes, Stepped
  <2>2. CASE q # p
    BY <2>2 DEF OneRevokes, Stepped, ActsFit
  <2> QED BY <2>1, <2>2
<1>2. ASSUME NEW v \in GraphWorker PROVE ActFits(q, v)'
  <2>1. CASE q = p /\ v = w
    BY <2>1
  <2>2. CASE ~(q = p /\ v = w)
    <3>1. act'[q][v] = act[q][v] /\ open' = open /\ policy' = policy /\ Kept
      BY <2>2 DEF Stepped
    <3>2. ActFits(q, v)
      BY DEF ActsFit
    <3>3. act[q][v].pc = "revoking" => current'[q] = FALSE \/ (Unmoved /\ current' = current)
      BY <2>2 DEF Stepped
    <3>4. CASE act[q][v].pc # "revoking"
      BY <3>1, <3>2, <3>4 DEF ActFits, Kept
    <3>5. CASE act[q][v].pc = "revoking" /\ current'[q] = FALSE
      BY <3>1, <3>2, <3>5 DEF ActFits
    <3>6. CASE act[q][v].pc = "revoking" /\ Unmoved /\ current' = current
      BY <3>1, <3>2, <3>6 DEF ActFits, Unmoved, Revoked, SourceIds, Exposed
    <3> QED BY <3>3, <3>4, <3>5, <3>6
  <2> QED BY <2>1, <2>2
<1> QED BY <1>1, <1>2

\* Whoever is free finds none of its own activations in between.
LEMMA FreeAlone ==
  ASSUME Overlap = FALSE, NEW p \in GraphProc, Free(p)
  PROVE  open[p] = "yes" /\ \A v \in GraphWorker : act[p][v].pc # "revoking"
BY DEF Free

LEMMA WroteTyped ==
  ASSUME NEW p \in GraphProc, Wrote(p)
  PROVE  current' \in [GraphProc -> BOOLEAN] /\ \A q \in GraphProc : q # p => current'[q] = FALSE
BY DEF Wrote

-----------------------------------------------------------------------------
LEMMA BudgetParts ==
  ASSUME BudgetInv
  PROVE  /\ policy.epoch \in Epoch /\ policy.epoch \in Nat /\ policy.approved \subseteq GraphEvent
         /\ act \in Acts /\ paid \in Paid
         /\ jobs \in Seq(GraphJob) /\ DOMAIN jobs = 1..Len(jobs) /\ Len(jobs) \in Nat /\ DOMAIN jobs \subseteq Nat
         /\ \A i \in DOMAIN jobs : BatchFits(jobs[i], policy.epoch) /\ jobs[i] \in GraphJob
         /\ BatchesFit(jobs, policy.epoch, paid) /\ Recoverable /\ ActsFit /\ GraphTypeOK
<1>1. BatchesFit(jobs, policy.epoch, paid) /\ Recoverable /\ ActsFit /\ GraphTypeOK
  BY DEF BudgetInv
<1>2. policy.epoch \in Epoch /\ policy.approved \subseteq GraphEvent /\ act \in Acts /\ paid \in Paid
  BY <1>1 DEF GraphTypeOK, Acts, Paid
<1>3. policy.epoch \in Nat
  BY <1>2, GraphConstants DEF Epoch
<1>4. jobs \in Seq(GraphJob) /\ \A i \in DOMAIN jobs : BatchFits(jobs[i], policy.epoch) /\ jobs[i] \in GraphJob
  BY <1>1 DEF BatchesFit, BatchFits
<1>5. DOMAIN jobs = 1..Len(jobs) /\ Len(jobs) \in Nat
  BY <1>4
<1>6. DOMAIN jobs \subseteq Nat
  BY <1>5
<1> QED BY <1>1, <1>2, <1>3, <1>4, <1>5, <1>6

\* What a finished budget of before the rule lets nobody do.
LEMMA UntouchedRests ==
  ASSUME BudgetInv, Untouched
  PROVE  /\ DOMAIN jobs = {1} /\ jobs[1] = LegacyJob
         /\ ~Revoked(jobs[1]) /\ ~Claimable(jobs[1]) /\ RevokedIds = {} /\ Missing = {}
         /\ Covered = GraphEvent
<1>1. DOMAIN jobs = {1} /\ jobs[1] = LegacyJob
  BY DEF Untouched
<1>2. /\ LegacyJob.src = GraphEvent /\ LegacyJob.status = "failed" /\ LegacyJob.attempts = GraphAttempts
      /\ LegacyJob.claimEpoch = NoEpoch
  BY DEF LegacyJob
<1> HIDE DEF LegacyJob
<1>3. ~(GraphAttempts < GraphAttempts)
  BY GraphConstants
<1>4. ~Revoked(jobs[1]) /\ ~Claimable(jobs[1])
  BY <1>1, <1>2, <1>3 DEF Revoked, Claimable
<1>5. RevokedIds = {}
  BY <1>1, <1>4 DEF RevokedIds
<1>6. Covered = GraphEvent
  BY <1>1, <1>2 DEF Covered
<1>7. Missing = {}
  BY <1>6, BudgetParts DEF Missing
<1> QED BY <1>1, <1>4, <1>5, <1>6, <1>7

LEMMA PrepareGraphKeeps ==
  ASSUME Overlap = FALSE, BudgetInv, NEW p \in GraphProc, NEW w \in GraphWorker, Prepare(p, w)
  PROVE  BudgetInv'
<1> USE BudgetParts
<1>1. Free(p) /\ UNCHANGED <<policy, preview, card, jobs, current, open, paid, granted, crashes>>
  BY DEF Prepare
<1>2. ~Untouched
  <2> SUFFICES ASSUME Untouched PROVE FALSE
    OBVIOUS
  <2>1. ~Claimable(jobs[1]) /\ DOMAIN jobs = {1} /\ RevokedIds = {} /\ Missing = {}
    BY UntouchedRests
  <2> QED BY <2>1 DEF Prepare
<1>3. /\ act' \in Acts /\ ActFits(p, w)'
      /\ \A q \in GraphProc, v \in GraphWorker : ~(q = p /\ v = w) => act'[q][v] = act[q][v]
  <2>0. open'[p] = "yes"
    BY <1>1 DEF Free
  <2>1. CASE Hold(p, w, "prepared", {}, 0)
    <3>1. /\ act' \in Acts /\ act'[p][w].pc = "prepared"
          /\ \A q \in GraphProc, v \in GraphWorker : ~(q = p /\ v = w) => act'[q][v] = act[q][v]
      <4>1. {} \in SUBSET Nat /\ 0 \in 0..GraphAttempts
        BY GraphConstants
      <4> QED BY <2>1, <4>1, HoldsFits
    <3> QED BY <2>0, <3>1 DEF ActFits
  <2>2. CASE act' = [act EXCEPT ![p][w] = [Resting EXCEPT !.pc = "revoking", !.seen = jobs,
                                             !.epoch = policy.epoch, !.ids = RevokedIds]]
    <3> DEFINE x == [Resting EXCEPT !.pc = "revoking", !.seen = jobs, !.epoch = policy.epoch, !.ids = RevokedIds]
    <3>1. RevokedIds \subseteq DOMAIN jobs /\ RevokedIds \subseteq Nat /\ \A i \in RevokedIds : Revoked(jobs[i])
      BY DEF RevokedIds
    <3>2. x \in Activity /\ x.pc = "revoking" /\ x.ids = RevokedIds /\ x.epoch = policy.epoch /\ x.detached = FALSE
      BY <3>1, RestingTyped DEF Activity
    <3>3. ActsTo(p, w, x)
      BY <2>2 DEF ActsTo
    <3> HIDE DEF x
    <3>4. /\ act' \in Acts /\ act'[p][w] = x
          /\ \A q \in GraphProc, v \in GraphWorker : ~(q = p /\ v = w) => act'[q][v] = act[q][v]
      BY <3>2, <3>3, OneActs
    <3>5. \A i \in RevokedIds : Revoked(jobs[i])'
      BY <1>1, <3>1 DEF Revoked, SourceIds, Exposed
    <3> QED BY <1>1, <2>0, <3>1, <3>2, <3>4, <3>5 DEF ActFits
  <2> QED BY <2>1, <2>2 DEF Prepare
<1>4. Stepped(p, w)
  BY <1>1, <1>3 DEF Stepped, Kept, Unmoved
<1>5. ActsFit'
  BY <1>1, <1>3, <1>4, FreeAlone, SteppedFit
<1>6. GraphTypeOK'
  BY <1>1, <1>3 DEF GraphTypeOK, Acts
<1>7. Recoverable'
  BY <1>1, <1>2 DEF Recoverable
<1> QED BY <1>1, <1>5, <1>6, <1>7 DEF BudgetInv

\* A commit of p: what it must show of the jobs it leaves.
Saved(p, w) ==
  /\ policy' = policy /\ preview' = preview /\ card' \in [GraphEvent -> Status] /\ open' = open /\ granted' = granted
  /\ Wrote(p) /\ act' \in Acts /\ paid' \in Paid
  /\ \A q \in GraphProc, v \in GraphWorker : ~(q = p /\ v = w) => act'[q][v] = act[q][v]
  /\ BatchesFit(jobs', policy.epoch, paid') /\ Kept /\ ActFits(p, w)'
  /\ \A v \in GraphWorker : v # w => act[p][v].pc # "revoking"
  /\ ~Untouched /\ ((\A i \in DOMAIN jobs : jobs[i].recovered) => \A i \in DOMAIN jobs' : jobs'[i].recovered)

LEMMA SavedKeeps ==
  ASSUME BudgetInv, NEW p \in GraphProc, NEW w \in GraphWorker, Saved(p, w)
  PROVE  BudgetInv'
<1> USE BudgetParts
<1>1. current' \in [GraphProc -> BOOLEAN] /\ \A q \in GraphProc : q # p => current'[q] = FALSE
  BY WroteTyped DEF Saved
<1>2. Stepped(p, w)
  BY <1>1 DEF Stepped, Saved
<1>3. ActsFit'
  BY <1>2, SteppedFit DEF Saved
<1>4. jobs' \in Seq(GraphJob)
  BY DEF Saved, BatchesFit
<1>5. GraphTypeOK'
  BY <1>1, <1>4 DEF GraphTypeOK, Acts, Paid, Saved
<1>6. Recoverable'
  BY DEF Recoverable, Saved
<1>7. BatchesFit(jobs, policy.epoch, paid)'
  BY DEF Saved
<1> QED BY <1>3, <1>5, <1>6, <1>7 DEF BudgetInv

\* A step that only lets an activation go to rest.
LEMMA RestedKeeps ==
  ASSUME BudgetInv, NEW p \in GraphProc, NEW w \in GraphWorker, Rest(p, w), act[p][w].pc # "idle",
         UNCHANGED <<policy, preview, card, jobs, current, open, paid, granted>>,
         \A v \in GraphWorker : v # w => act[p][v].pc # "revoking"
  PROVE  BudgetInv'
<1> USE BudgetParts
<1>1. /\ act' \in Acts /\ act'[p][w].pc = "idle"
      /\ \A q \in GraphProc, v \in GraphWorker : ~(q = p /\ v = w) => act'[q][v] = act[q][v]
  BY RestsFits
<1>2. Stepped(p, w) /\ ActFits(p, w)'
  BY <1>1 DEF Stepped, Kept, Unmoved, ActFits
<1>3. ActsFit'
  BY <1>2, SteppedFit
<1>4. GraphTypeOK'
  BY <1>1 DEF GraphTypeOK, Acts
<1>5. ~Untouched
  BY DEF Untouched
<1>6. Recoverable'
  BY <1>5 DEF Recoverable
<1> QED BY <1>3, <1>4, <1>6 DEF BudgetInv

-----------------------------------------------------------------------------
LEMMA CommitPrepareKeeps ==
  ASSUME BudgetInv, NEW p \in GraphProc, NEW w \in GraphWorker, CommitPrepare(p, w)
  PROVE  BudgetInv'
<1> USE BudgetParts
<1> DEFINE a == act[p][w]
<1>1. a.pc = "revoking" /\ UNCHANGED <<policy, preview, card, open, paid, granted, crashes>>
  BY DEF CommitPrepare
<1>2. ActFits(p, w) /\ \A v \in GraphWorker : v # w => act[p][v].pc # "revoking"
  BY <1>1 DEF ActsFit, OneRevokes
<1>3. ~Untouched
  BY <1>1 DEF Untouched
<1>4. CASE ~EpochHolds(p, a.epoch)
  <2>1. Rest(p, w) /\ UNCHANGED <<jobs, current>>
    BY <1>4 DEF CommitPrepare
  <2> QED BY <1>1, <1>2, <2>1, RestedKeeps
<1>5. CASE EpochHolds(p, a.epoch)
  <2>1. jobs' = QueueMissing(RevokeJobs(a)) /\ Wrote(p) /\ Hold(p, w, "prepared", {}, 0)
    BY <1>5 DEF CommitPrepare
  <2>2. a.detached = FALSE /\ a.ids \subseteq DOMAIN jobs /\ \A i \in a.ids : Revoked(jobs[i])
    BY <1>1, <1>2, <1>5 DEF ActFits, EpochHolds
  <2>3. /\ act' \in Acts /\ act'[p][w].pc = "prepared"
        /\ \A q \in GraphProc, v \in GraphWorker : ~(q = p /\ v = w) => act'[q][v] = act[q][v]
    <3>1. {} \in SUBSET Nat /\ 0 \in 0..GraphAttempts
      BY GraphConstants
    <3> QED BY <2>1, <3>1, HoldsFits
  <2>4. ActFits(p, w)'
    BY <1>1, <1>2, <2>3 DEF ActFits
  <2> HIDE DEF a
  <2> DEFINE js == RevokeJobs(a)
             ids == {e \in policy.approved : Exposed(e)}
  <2>5. /\ BatchesFit(js, policy.epoch, paid) /\ DOMAIN jobs \subseteq DOMAIN js
        /\ \A i \in DOMAIN jobs : js[i].recovered = jobs[i].recovered
        /\ (\A i \in DOMAIN jobs : jobs[i].recovered) => \A i \in DOMAIN js : js[i].recovered
    BY <2>2, RevokeFits
  <2>6. jobs' = Queue(js, ids, policy.epoch) /\ ids \in SUBSET GraphEvent
    BY <2>1 DEF QueueMissing
  <2> HIDE DEF js, ids
  <2>7. /\ BatchesFit(jobs', policy.epoch, paid) /\ DOMAIN js \subseteq DOMAIN jobs'
        /\ \A i \in DOMAIN jobs' : IF i \in DOMAIN js THEN jobs'[i] = js[i] ELSE jobs'[i].recovered
    <3> DEFINE new == Queue(js, ids, policy.epoch)
    <3>1. /\ BatchesFit(new, policy.epoch, paid) /\ DOMAIN js \subseteq DOMAIN new
          /\ \A i \in DOMAIN new : IF i \in DOMAIN js THEN new[i] = js[i] ELSE new[i].recovered
      BY <2>5, <2>6, QueueFits
    <3>2. jobs' = new
      BY <2>6
    <3> HIDE DEF new
    <3> QED BY <3>1, <3>2
  <2>8. Kept /\ ((\A i \in DOMAIN jobs : jobs[i].recovered) => \A i \in DOMAIN jobs' : jobs'[i].recovered)
    BY <2>5, <2>7 DEF Kept
  <2>9. Saved(p, w)
    <3>1. card' \in [GraphEvent -> Status] /\ paid' \in Paid
      BY <1>1 DEF GraphTypeOK
    <3> QED BY <1>1, <1>2, <1>3, <2>1, <2>3, <2>4, <2>7, <2>8, <3>1 DEF Saved
  <2> QED BY <2>9, SavedKeeps
<1> QED BY <1>4, <1>5

LEMMA ClaimJobSaves ==
  ASSUME Overlap = FALSE, BudgetInv, NEW p \in GraphProc, NEW w \in GraphWorker, Free(p), act[p][w].pc = "prepared",
         UNCHANGED <<policy, preview, card, open, granted, crashes>>,
         NEW i \in DOMAIN jobs, Claimable(jobs[i]), ClaimJob(p, w, i)
  PROVE  Saved(p, w)
<1> USE BudgetParts
<1> DEFINE j == jobs[i]
           first == Slices(SourceIds(j))[1]
           sib == Siblings(j)
           new == [jobs EXCEPT ![i] = Taken(j, first)] \o [k \in DOMAIN sib |-> SplitOff(j, sib[k])]
           pd == [e \in GraphEvent |-> IF e \in first THEN paid[e] + 1 ELSE paid[e]]
<1>1. jobs' = new
  BY Zenon DEF ClaimJob, Siblings, Taken
<1>2. paid' = pd /\ Wrote(p) /\ Hold(p, w, "calling", {i}, j.attempts + 1)
  BY Zenon DEF ClaimJob
<1>3. i \in Nat /\ {i} \in SUBSET Nat /\ j.attempts + 1 \in 0..GraphAttempts
  <2>1. Going(j) /\ j \in GraphJob
    BY ClaimableGoes
  <2> HIDE DEF j
  <2>2. j.attempts \in Nat /\ j.attempts < GraphAttempts
    BY <2>1, JobParts DEF Going
  <2> QED BY <2>2, GraphConstants
<1>4. /\ act' \in Acts /\ act'[p][w].pc = "calling" /\ act'[p][w].ids = {i}
      /\ \A q \in GraphProc, v \in GraphWorker : ~(q = p /\ v = w) => act'[q][v] = act[q][v]
  <2> HIDE DEF j
  <2> QED BY <1>2, <1>3, HoldsFits
<1>5. /\ pd \in Paid /\ BatchesFit(new, policy.epoch, pd)
      /\ DOMAIN jobs \subseteq DOMAIN new /\ new[i].recovered
      /\ \A x \in DOMAIN jobs : jobs[x].recovered => new[x].recovered
      /\ (\A x \in DOMAIN jobs : jobs[x].recovered) => \A x \in DOMAIN new : new[x].recovered
  <2>1. ClaimOf(i, first, sib, new, pd)
    BY Zenon DEF ClaimOf
  <2> HIDE DEF first, sib, new, pd
  <2> QED BY <2>1, ClaimFits, Zenon
<1> HIDE DEF new, pd
<1>6. /\ paid' \in Paid /\ BatchesFit(jobs', policy.epoch, paid') /\ Kept /\ jobs'[i].recovered /\ i \in DOMAIN jobs'
      /\ (\A x \in DOMAIN jobs : jobs[x].recovered) => \A x \in DOMAIN jobs' : jobs'[x].recovered
  BY <1>1, <1>2, <1>5 DEF Kept
<1>7. open[p] = "yes" /\ \A v \in GraphWorker : act[p][v].pc # "revoking"
  BY FreeAlone
<1>8. ActFits(p, w)'
  BY <1>4, <1>6, <1>7 DEF ActFits
<1>9. ~Untouched
  BY DEF Untouched
<1>10. card' \in [GraphEvent -> Status]
  BY DEF GraphTypeOK
<1> QED BY <1>2, <1>4, <1>6, <1>7, <1>8, <1>9, <1>10 DEF Saved

LEMMA ClaimGraphKeeps ==
  ASSUME Overlap = FALSE, BudgetInv, NEW p \in GraphProc, NEW w \in GraphWorker, ClaimGraph(p, w)
  PROVE  BudgetInv'
<1>1. act[p][w].pc = "prepared" /\ Free(p) /\ UNCHANGED <<policy, preview, card, open, granted, crashes>>
  BY DEF ClaimGraph
<1>2. CASE \E i \in DOMAIN jobs : Claimable(jobs[i]) /\ ClaimJob(p, w, i)
  BY <1>1, <1>2, ClaimJobSaves, SavedKeeps
<1>3. CASE Rest(p, w) /\ UNCHANGED <<jobs, paid, current>>
  BY <1>1, <1>3, FreeAlone, RestedKeeps
<1> QED BY <1>2, <1>3 DEF ClaimGraph

\* A commit of p that changes jobs only in how they rest.
LEMMA EditsSave ==
  ASSUME Overlap = FALSE, BudgetInv, NEW p \in GraphProc, NEW w \in GraphWorker, Free(p), act[p][w].pc = "calling",
         UNCHANGED <<policy, preview, card, open, paid, granted, crashes>>, Wrote(p), Rest(p, w),
         jobs' \in Seq(GraphJob), DOMAIN jobs' = DOMAIN jobs,
         \A x \in DOMAIN jobs : /\ BatchFits(jobs'[x], policy.epoch) /\ jobs'[x].src = jobs[x].src
                                /\ jobs'[x].attempts = jobs[x].attempts /\ (Going(jobs'[x]) => Going(jobs[x]))
                                /\ jobs'[x].recovered = jobs[x].recovered
  PROVE  BudgetInv'
<1> USE BudgetParts
<1>1. /\ act' \in Acts /\ act'[p][w].pc = "idle"
      /\ \A q \in GraphProc, v \in GraphWorker : ~(q = p /\ v = w) => act'[q][v] = act[q][v]
  BY RestsFits
<1>2. BatchesFit(jobs', policy.epoch, paid)
  BY EditedFit
<1>3. Kept /\ ((\A x \in DOMAIN jobs : jobs[x].recovered) => \A x \in DOMAIN jobs' : jobs'[x].recovered)
  BY DEF Kept
<1>4. ActFits(p, w)' /\ \A v \in GraphWorker : act[p][v].pc # "revoking"
  BY <1>1, FreeAlone DEF ActFits
<1>5. card' \in [GraphEvent -> Status] /\ paid' \in Paid /\ ~Untouched
  BY DEF GraphTypeOK, Untouched
<1>6. Saved(p, w)
  BY <1>1, <1>2, <1>3, <1>4, <1>5 DEF Saved
<1> QED BY <1>6, SavedKeeps

\* One job edited.
LEMMA EditedSeq ==
  ASSUME BudgetInv, NEW i \in DOMAIN jobs, NEW j \in GraphJob, NEW new, new = [jobs EXCEPT ![i] = j]
  PROVE  new \in Seq(GraphJob) /\ DOMAIN new = DOMAIN jobs /\ new[i] = j /\ \A x \in DOMAIN jobs : x # i => new[x] = jobs[x]
<1> HIDE DEF GraphJob
<1> QED BY BudgetParts

LEMMA FailingFits ==
  ASSUME NEW j, policy.epoch \in Epoch, BatchFits(j, policy.epoch), j.status # "completed",
         j.claimEpoch = policy.epoch \/ j.status = "running"
  PROVE  /\ Failing(j) \in GraphJob /\ BatchFits(Failing(j), policy.epoch) /\ Failing(j).src = j.src
         /\ Failing(j).attempts = j.attempts /\ Failing(j).recovered = j.recovered /\ (Going(Failing(j)) => Going(j))
<1>1. j \in GraphJob /\ policy.epoch \in Nat
  BY GraphConstants DEF BatchFits, Epoch
<1>2. /\ Failing(j) \in GraphJob /\ Failing(j).src = j.src /\ Failing(j).status = "failed"
      /\ Failing(j).attempts = j.attempts /\ Failing(j).recovered = j.recovered
      /\ Failing(j).claimEpoch = j.claimEpoch /\ Failing(j).due = RetryDue(j.attempts)
  BY <1>1 DEF Failing, GraphJob, RetryDue
<1>3. j.attempts \in Nat /\ j.status \in {"pending", "running", "completed", "failed"}
  BY <1>1, JobParts
<1>4. j.attempts < GraphAttempts => RetryDue(j.attempts) = "waiting"
  BY <1>3, GraphConstants DEF RetryDue
<1>5. BatchFits(Failing(j), policy.epoch)
  BY <1>2, <1>4 DEF BatchFits
<1>6. Going(Failing(j)) => Going(j)
  BY <1>1, <1>2, <1>3 DEF BatchFits, Going
<1> QED BY <1>2, <1>5, <1>6

-----------------------------------------------------------------------------
LEMMA CompleteGraphKeeps ==
  ASSUME Overlap = FALSE, BudgetInv, NEW p \in GraphProc, NEW w \in GraphWorker, CompleteGraph(p, w)
  PROVE  BudgetInv'
<1> USE BudgetParts
<1>1. act[p][w].pc = "calling" /\ Free(p) /\ Wrote(p) /\ Rest(p, w)
      /\ UNCHANGED <<policy, preview, card, open, paid, granted, crashes>>
  BY DEF CompleteGraph
<1>2. PICK i \in DOMAIN jobs : act[p][w].ids = {i}
  BY <1>1 DEF ActsFit, ActFits
<1>3. (CHOOSE x \in act[p][w].ids : TRUE) = i
  BY <1>2
<1> DEFINE j == [jobs[i] EXCEPT !.status = "completed", !.err = "none", !.due = "never"]
           new == [jobs EXCEPT ![i].status = "completed", ![i].err = "none", ![i].due = "never"]
<1>4. jobs' = new
  <2> DEFINE k == CHOOSE x \in act[p][w].ids : TRUE
  <2>1. jobs' = [jobs EXCEPT ![k].status = "completed", ![k].err = "none", ![k].due = "never"]
    BY Zenon DEF CompleteGraph
  <2>2. k = i
    BY <1>3
  <2> QED BY <2>1, <2>2, Zenon
<1>7. DOMAIN new = DOMAIN jobs /\ new[i] = j /\ \A x \in DOMAIN jobs : x # i => new[x] = jobs[x]
  OBVIOUS
<1>5. /\ j \in GraphJob /\ j.src = jobs[i].src /\ j.attempts = jobs[i].attempts /\ j.recovered = jobs[i].recovered
      /\ j.status = "completed" /\ j.claimEpoch = jobs[i].claimEpoch
  BY DEF GraphJob
<1> HIDE DEF j
<1>6. BatchFits(j, policy.epoch) /\ ~Going(j)
  BY <1>5 DEF BatchFits, Going
<1>8. new \in Seq(GraphJob)
  <2>1. \A x \in DOMAIN new : new[x] \in GraphJob
    BY <1>5, <1>7
  <2>2. new = [x \in DOMAIN new |-> new[x]] /\ DOMAIN new = 1..Len(jobs)
    BY <1>7
  <2> HIDE DEF new
  <2> QED BY <2>1, <2>2
<1> HIDE DEF new
<1> QED BY <1>1, <1>4, <1>5, <1>6, <1>7, <1>8, EditsSave

LEMMA FailCallKeeps ==
  ASSUME Overlap = FALSE, BudgetInv, NEW p \in GraphProc, NEW w \in GraphWorker, FailCall(p, w)
  PROVE  BudgetInv'
<1> USE BudgetParts
<1>1. act[p][w].pc = "calling" /\ Free(p) /\ Rest(p, w)
      /\ UNCHANGED <<policy, preview, card, open, paid, granted, crashes>>
  BY DEF FailCall
<1>2. PICK i \in DOMAIN jobs : act[p][w].ids = {i}
  BY <1>1 DEF ActsFit, ActFits
<1>3. FailGraph(p, w, i)
  BY <1>2 DEF FailCall
<1>4. CASE ~EpochHolds(p, jobs[i].claimEpoch)
  <2>1. UNCHANGED <<jobs, current>>
    BY <1>3, <1>4 DEF FailGraph
  <2> QED BY <1>1, <2>1, FreeAlone, RestedKeeps
<1>5. CASE EpochHolds(p, jobs[i].claimEpoch) /\ Holds(p, w, i) /\ jobs[i].status # "completed"
  <2> DEFINE j == Failing(jobs[i])
             new == [jobs EXCEPT ![i] = j]
  <2>1. Wrote(p) /\ jobs' = new /\ jobs[i].claimEpoch = policy.epoch
    BY <1>3, <1>5 DEF FailGraph, EpochHolds
  <2>2. /\ j \in GraphJob /\ BatchFits(j, policy.epoch) /\ j.src = jobs[i].src /\ j.attempts = jobs[i].attempts
        /\ j.recovered = jobs[i].recovered /\ (Going(j) => Going(jobs[i]))
    BY <1>5, <2>1, FailingFits
  <2> HIDE DEF j
  <2>3. new \in Seq(GraphJob) /\ DOMAIN new = DOMAIN jobs /\ new[i] = j /\ \A x \in DOMAIN jobs : x # i => new[x] = jobs[x]
    BY <2>2, EditedSeq
  <2> HIDE DEF new
  <2> QED BY <1>1, <2>1, <2>2, <2>3, EditsSave
<1>6. CASE EpochHolds(p, jobs[i].claimEpoch) /\ ~(Holds(p, w, i) /\ jobs[i].status # "completed")
  <2>1. Wrote(p) /\ jobs' = jobs
    BY <1>3, <1>6 DEF FailGraph
  <2> QED BY <1>1, <2>1, EditsSave
<1> QED BY <1>4, <1>5, <1>6

LEMMA StartAddKeeps ==
  ASSUME Overlap = FALSE, BudgetInv, NEW p \in GraphProc, NEW w \in GraphWorker, NEW e \in GraphEvent, StartAdd(p, w, e)
  PROVE  BudgetInv'
<1> USE BudgetParts
<1> DEFINE n == IF CanProcess THEN policy.epoch ELSE NoEpoch
           x == [Resting EXCEPT !.pc = "adding", !.ids = {e}, !.epoch = n]
<1>1. Free(p) /\ card[e] = "absent" /\ UNCHANGED <<policy, preview, card, jobs, current, open, paid, granted, crashes>>
  BY DEF StartAdd
<1>2. ActsTo(p, w, x)
  BY DEF StartAdd, ActsTo
<1>3. n \in Epoch \cup {NoEpoch} /\ {e} \in SUBSET Nat
  BY GraphConstants
<1> HIDE DEF n
<1>4. x \in Activity /\ x.pc = "adding" /\ x.ids = {e}
  BY <1>3, RestingTyped DEF Activity
<1> HIDE DEF x
<1>5. /\ act' \in Acts /\ act'[p][w] = x
      /\ \A q \in GraphProc, v \in GraphWorker : ~(q = p /\ v = w) => act'[q][v] = act[q][v]
  BY <1>2, <1>4, OneActs
<1>6. open[p] = "yes" /\ \A v \in GraphWorker : act[p][v].pc # "revoking"
  BY <1>1, FreeAlone
<1>7. Stepped(p, w) /\ ActFits(p, w)'
  BY <1>1, <1>4, <1>5, <1>6 DEF Stepped, Kept, Unmoved, ActFits
<1>8. ActsFit'
  BY <1>6, <1>7, SteppedFit
<1>9. GraphTypeOK'
  BY <1>1, <1>5 DEF GraphTypeOK, Acts
<1>10. Recoverable'
  BY <1>1 DEF Recoverable, Untouched
<1> QED BY <1>1, <1>8, <1>9, <1>10 DEF BudgetInv

LEMMA CommitAddKeeps ==
  ASSUME Overlap = FALSE, BudgetInv, NEW p \in GraphProc, NEW w \in GraphWorker, CommitAdd(p, w)
  PROVE  BudgetInv'
<1> USE BudgetParts
<1> DEFINE a == act[p][w]
           taken == current[p] /\ \A e \in a.ids : card[e] = "absent"
<1>1. a.pc = "adding" /\ Free(p) /\ Rest(p, w) /\ UNCHANGED <<policy, preview, open, paid, granted, crashes>>
  BY DEF CommitAdd
<1>2. open[p] = "yes" /\ \A v \in GraphWorker : act[p][v].pc # "revoking"
  BY <1>1, FreeAlone
<1>3. CASE ~taken
  <2>1. UNCHANGED <<card, jobs, current>>
    BY <1>3 DEF CommitAdd
  <2> QED BY <1>1, <1>2, <2>1, RestedKeeps
<1>4. CASE taken
  <2>1. /\ card' = [e \in GraphEvent |-> IF e \in a.ids THEN "active" ELSE card[e]] /\ Wrote(p)
        /\ jobs' = IF a.epoch # NoEpoch /\ CanProcess THEN Queue(jobs, a.ids, a.epoch) ELSE jobs
    BY <1>4 DEF CommitAdd
  <2>2. a.ids \in SUBSET GraphEvent
    BY <1>1 DEF ActsFit, ActFits
  <2>3. a.epoch \in Epoch \cup {NoEpoch}
    <3>1. a \in Activity
      BY DEF Acts
    <3> QED BY <3>1 DEF Activity
  <2>4. /\ act' \in Acts /\ act'[p][w].pc = "idle"
        /\ \A q \in GraphProc, v \in GraphWorker : ~(q = p /\ v = w) => act'[q][v] = act[q][v]
    BY <1>1, RestsFits
  <2>5. card' \in [GraphEvent -> Status] /\ paid' \in Paid
    BY <1>1, <2>1 DEF GraphTypeOK, Status
  <2>6. ~Untouched /\ ActFits(p, w)'
    BY <1>1, <2>4 DEF Untouched, ActFits
  <2>7. /\ BatchesFit(jobs', policy.epoch, paid) /\ DOMAIN jobs \subseteq DOMAIN jobs'
        /\ \A i \in DOMAIN jobs' : IF i \in DOMAIN jobs THEN jobs'[i] = jobs[i] ELSE jobs'[i].recovered
    <3>1. CASE jobs' = jobs
      BY <3>1
    <3>2. CASE jobs' = Queue(jobs, a.ids, a.epoch)
      <4> DEFINE ids == a.ids
                 n == a.epoch
                 new == Queue(jobs, ids, n)
      <4>0. ids \in SUBSET GraphEvent /\ n \in Epoch \cup {NoEpoch} /\ jobs' = new
        BY <2>2, <2>3, <3>2
      <4> HIDE DEF a, ids, n
      <4>1. /\ BatchesFit(new, policy.epoch, paid) /\ DOMAIN jobs \subseteq DOMAIN new
            /\ \A i \in DOMAIN new : IF i \in DOMAIN jobs THEN new[i] = jobs[i] ELSE new[i].recovered
        BY <4>0, QueueFits
      <4> HIDE DEF new
      <4> QED BY <4>0, <4>1
    <3> QED BY <2>1, <3>1, <3>2
  <2>8. Kept /\ ((\A i \in DOMAIN jobs : jobs[i].recovered) => \A i \in DOMAIN jobs' : jobs'[i].recovered)
    BY <2>7 DEF Kept
  <2>9. Saved(p, w)
    BY <1>1, <1>2, <2>1, <2>4, <2>5, <2>6, <2>7, <2>8 DEF Saved
  <2> QED BY <2>9, SavedKeeps
<1> QED BY <1>3, <1>4

(* What happens beside the activations *)

\* What an activation found revoked has not come back, if its commit would still be taken.
StaysRevoked(q) ==
  \A v \in GraphWorker : act[q][v].pc = "revoking" =>
    \/ current'[q] = FALSE \/ policy'.epoch > policy.epoch
    \/ /\ current'[q] = current[q] /\ policy'.epoch = policy.epoch
       /\ \A i \in DOMAIN jobs : Revoked(jobs[i]) => Revoked(jobs[i])' 

LEMMA OthersFit ==
  ASSUME BudgetInv, Kept, policy'.epoch \in Nat, policy'.epoch >= policy.epoch,
         \A q \in GraphProc, v \in GraphWorker : act'[q][v] = act[q][v] \/ act'[q][v].pc = "idle",
         \A q \in GraphProc, v \in GraphWorker : open'[q] # "yes" => act'[q][v].pc = "idle",
         \A q \in GraphProc : StaysRevoked(q)
  PROVE  ActsFit'
<1> USE BudgetParts
<1> SUFFICES ASSUME NEW q \in GraphProc PROVE OneRevokes(q)' /\ \A v \in GraphWorker : ActFits(q, v)'
  BY DEF ActsFit
<1>1. OneRevokes(q)'
  <2> SUFFICES ASSUME NEW v \in GraphWorker, NEW w \in GraphWorker, act'[q][v].pc = "revoking", act'[q][w].pc = "revoking"
               PROVE v = w
    BY DEF OneRevokes
  <2>1. act'[q][v] = act[q][v] /\ act'[q][w] = act[q][w]
    OBVIOUS
  <2> QED BY <2>1 DEF OneRevokes, ActsFit
<1>2. ASSUME NEW v \in GraphWorker PROVE ActFits(q, v)'
  <2>1. CASE act'[q][v].pc = "idle"
    BY <2>1 DEF ActFits
  <2>2. CASE act'[q][v] = act[q][v] /\ act'[q][v].pc # "idle"
    <3>1. ActFits(q, v) /\ open'[q] = "yes"
      BY <2>2 DEF ActsFit
    <3>2. CASE act[q][v].pc # "revoking"
      BY <2>2, <3>1, <3>2 DEF ActFits, Kept
    <3>3. CASE act[q][v].pc = "revoking"
      <4>1. act[q][v].detached = FALSE /\ act[q][v].epoch \in Nat /\ act[q][v].epoch <= policy.epoch
        BY <3>1, <3>3 DEF ActFits
      <4>2. CASE current'[q] = FALSE
        BY <2>2, <3>1, <3>3, <4>1, <4>2 DEF ActFits
      <4>3. CASE policy'.epoch > policy.epoch
        BY <2>2, <3>1, <3>3, <4>1, <4>3 DEF ActFits
      <4>4. CASE /\ current'[q] = current[q] /\ policy'.epoch = policy.epoch
                 /\ \A i \in DOMAIN jobs : Revoked(jobs[i]) => Revoked(jobs[i])'
        <5>1. current'[q] /\ act[q][v].epoch = policy'.epoch =>
                act[q][v].ids \subseteq DOMAIN jobs /\ \A i \in act[q][v].ids : Revoked(jobs[i])
          BY <3>1, <3>3, <4>4 DEF ActFits
        <5>2. current'[q] /\ act[q][v].epoch = policy'.epoch =>
                act[q][v].ids \subseteq DOMAIN jobs' /\ \A i \in act[q][v].ids : Revoked(jobs[i])'
          BY <4>4, <5>1 DEF Kept
        <5> QED BY <2>2, <3>1, <3>3, <4>1, <5>2 DEF ActFits
      <4> QED BY <3>3, <4>2, <4>3, <4>4 DEF StaysRevoked
    <3> QED BY <3>2, <3>3
  <2> QED BY <2>1, <2>2
<1> QED BY <1>1, <1>2

-----------------------------------------------------------------------------
LEMMA ClosedRests ==
  ASSUME BudgetInv, NEW q \in GraphProc, NEW v \in GraphWorker, open[q] # "yes"
  PROVE  act[q][v].pc = "idle"
BY BudgetParts DEF ActsFit, ActFits

LEMMA UnmovedStays ==
  ASSUME Unmoved, NEW q, current'[q] = current[q]
  PROVE  StaysRevoked(q)
BY DEF Unmoved, StaysRevoked, Revoked, SourceIds, Exposed

LEMMA WrittenStays ==
  ASSUME Overlap = FALSE, NEW p \in GraphProc, Wrote(p), \A v \in GraphWorker : act[p][v].pc # "revoking"
  PROVE  \A q \in GraphProc : StaysRevoked(q)
BY WroteTyped DEF StaysRevoked

LEMMA RestedActs ==
  ASSUME BudgetInv, act' = act, \A q \in GraphProc : open'[q] = "yes" \/ open'[q] = open[q]
  PROVE  /\ \A q \in GraphProc, v \in GraphWorker : act'[q][v] = act[q][v] \/ act'[q][v].pc = "idle"
         /\ \A q \in GraphProc, v \in GraphWorker : open'[q] # "yes" => act'[q][v].pc = "idle"
BY BudgetParts DEF ActsFit, ActFits

LEMMA RecoverGraphKeeps ==
  ASSUME Overlap = FALSE, BudgetInv, NEW p \in GraphProc, RecoverGraph(p)
  PROVE  BudgetInv'
<1> USE BudgetParts
<1> DEFINE dead == {i \in DOMAIN jobs : jobs[i].status = "running" /\ jobs[i].lease # "live"}
           new == [i \in DOMAIN jobs |-> IF i \in dead THEN Failing(jobs[i]) ELSE jobs[i]]
<1>1. /\ Free(p) /\ Wrote(p) /\ dead # {} /\ jobs' = new
      /\ UNCHANGED <<policy, preview, card, act, open, paid, granted, crashes>>
  BY DEF RecoverGraph
<1>2. \A x \in DOMAIN jobs : /\ BatchFits(new[x], policy.epoch) /\ new[x].src = jobs[x].src /\ new[x] \in GraphJob
                             /\ new[x].attempts = jobs[x].attempts /\ (Going(new[x]) => Going(jobs[x]))
                             /\ new[x].recovered = jobs[x].recovered
  <2> SUFFICES ASSUME NEW x \in DOMAIN jobs
               PROVE  /\ BatchFits(new[x], policy.epoch) /\ new[x].src = jobs[x].src /\ new[x] \in GraphJob
                      /\ new[x].attempts = jobs[x].attempts /\ (Going(new[x]) => Going(jobs[x]))
                      /\ new[x].recovered = jobs[x].recovered
    OBVIOUS
  <2>1. CASE x \in dead
    <3>1. new[x] = Failing(jobs[x]) /\ jobs[x].status = "running"
      BY <2>1
    <3> HIDE DEF new
    <3> QED BY <3>1, FailingFits
  <2>2. CASE x \notin dead
    <3>1. new[x] = jobs[x]
      BY <2>2
    <3> HIDE DEF new
    <3> QED BY <3>1
  <2> QED BY <2>1, <2>2
<1>3. DOMAIN new = DOMAIN jobs /\ new \in Seq(GraphJob)
  <2>1. \A x \in DOMAIN new : new[x] \in GraphJob
    BY <1>2
  <2>2. new = [x \in DOMAIN new |-> new[x]] /\ DOMAIN new = 1..Len(jobs) /\ DOMAIN new = DOMAIN jobs
    OBVIOUS
  <2> HIDE DEF new
  <2> QED BY <2>1, <2>2
<1>4. ~Untouched
  <2> SUFFICES ASSUME Untouched PROVE FALSE
    OBVIOUS
  <2>1. DOMAIN jobs = {1} /\ jobs[1] = LegacyJob /\ LegacyJob.status = "failed"
    BY UntouchedRests DEF LegacyJob
  <2> QED BY <1>1, <2>1
<1> HIDE DEF new, dead
<1>5. BatchesFit(jobs', policy.epoch, paid)
  BY <1>1, <1>2, <1>3, EditedFit
<1>6. Kept /\ Recoverable'
  BY <1>1, <1>2, <1>3, <1>4 DEF Kept, Recoverable
<1>7. \A q \in GraphProc : StaysRevoked(q)
  BY <1>1, FreeAlone, WrittenStays
<1>8. ActsFit'
  <2>1. /\ \A q \in GraphProc, v \in GraphWorker : act'[q][v] = act[q][v] \/ act'[q][v].pc = "idle"
        /\ \A q \in GraphProc, v \in GraphWorker : open'[q] # "yes" => act'[q][v].pc = "idle"
    BY <1>1, RestedActs
  <2> QED BY <1>1, <1>6, <1>7, <2>1, OthersFit
<1>9. GraphTypeOK'
  BY <1>1, <1>3, WroteTyped DEF GraphTypeOK
<1> QED BY <1>1, <1>5, <1>6, <1>8, <1>9 DEF BudgetInv

LEMMA ForgetEventKeeps ==
  ASSUME Overlap = FALSE, BudgetInv, NEW p \in GraphProc, NEW e \in GraphEvent, ForgetEvent(p, e)
  PROVE  BudgetInv'
<1> USE BudgetParts
<1>1. /\ Free(p) /\ Wrote(p) /\ card' = [card EXCEPT ![e] = "forgotten"]
      /\ UNCHANGED <<policy, preview, jobs, act, open, paid, granted, crashes>>
  BY DEF ForgetEvent
<1>2. Kept /\ \A q \in GraphProc : StaysRevoked(q)
  BY <1>1, FreeAlone, WrittenStays DEF Kept
<1>3. ActsFit'
  <2>1. /\ \A q \in GraphProc, v \in GraphWorker : act'[q][v] = act[q][v] \/ act'[q][v].pc = "idle"
        /\ \A q \in GraphProc, v \in GraphWorker : open'[q] # "yes" => act'[q][v].pc = "idle"
    BY <1>1, RestedActs
  <2> QED BY <1>1, <1>2, <2>1, OthersFit
<1>4. card' \in [GraphEvent -> Status] /\ \A f \in GraphEvent : card'[f] = "absent" => card[f] = "absent"
  BY <1>1 DEF GraphTypeOK, Status
<1>5. GraphTypeOK'
  BY <1>1, <1>4, WroteTyped DEF GraphTypeOK
<1>6. Recoverable'
  BY <1>1, <1>4 DEF Recoverable, Untouched
<1> QED BY <1>1, <1>3, <1>5, <1>6 DEF BudgetInv

LEMMA ReloadGraphKeeps ==
  ASSUME Overlap = FALSE, BudgetInv, NEW p \in GraphProc, ReloadGraph(p)
  PROVE  BudgetInv'
<1> USE BudgetParts
<1>1. /\ Free(p) /\ current' = [current EXCEPT ![p] = TRUE]
      /\ act' = [act EXCEPT ![p] = [w \in GraphWorker |->
                    IF act[p][w].pc = "revoking" THEN [act[p][w] EXCEPT !.detached = TRUE] ELSE act[p][w]]]
      /\ UNCHANGED <<policy, preview, card, jobs, open, paid, granted, crashes>>
  BY DEF ReloadGraph
<1>2. open[p] = "yes" /\ \A v \in GraphWorker : act[p][v].pc # "revoking"
  BY <1>1, FreeAlone
<1>3. \A q \in GraphProc, v \in GraphWorker : act'[q][v] = act[q][v]
  BY <1>1, <1>2 DEF Acts
<1>4. act' \in Acts
  BY <1>1, <1>2 DEF Acts
<1>5. current' \in [GraphProc -> BOOLEAN] /\ \A q \in GraphProc : q # p => current'[q] = current[q]
  BY <1>1 DEF GraphTypeOK
<1>6. \A q \in GraphProc : StaysRevoked(q)
  <2> SUFFICES ASSUME NEW q \in GraphProc PROVE StaysRevoked(q)
    OBVIOUS
  <2>1. CASE q = p
    BY <1>2, <2>1 DEF StaysRevoked
  <2>2. CASE q # p
    BY <1>1, <1>5, <2>2, UnmovedStays DEF Unmoved
  <2> QED BY <2>1, <2>2
<1>7. ActsFit'
  <2>1. Kept
    BY <1>1 DEF Kept
  <2>2. \A q \in GraphProc, v \in GraphWorker : open'[q] # "yes" => act'[q][v].pc = "idle"
    BY <1>1, <1>3, ClosedRests
  <2> QED BY <1>1, <1>3, <1>6, <2>1, <2>2, OthersFit
<1>8. GraphTypeOK'
  BY <1>1, <1>4, <1>5 DEF GraphTypeOK, Acts
<1>9. Recoverable'
  BY <1>1, <1>3 DEF Recoverable, Untouched
<1> QED BY <1>1, <1>7, <1>8, <1>9 DEF BudgetInv

LEMMA CrashGraphKeeps ==
  ASSUME BudgetInv, NEW p \in GraphProc, CrashGraph(p)
  PROVE  BudgetInv'
<1> USE BudgetParts
<1>1. /\ open' = [open EXCEPT ![p] = "no"] /\ current' = [current EXCEPT ![p] = FALSE]
      /\ act' = [act EXCEPT ![p] = [w \in GraphWorker |-> Resting]]
      /\ UNCHANGED <<policy, preview, card, jobs, paid, granted>>
  BY DEF CrashGraph
<1>2. act' \in Acts /\ \A v \in GraphWorker : act'[p][v].pc = "idle"
      /\ \A q \in GraphProc : q # p => act'[q] = act[q]
  <2>1. Resting \in Activity /\ Resting.pc = "idle"
    BY RestingTyped
  <2> HIDE DEF Resting, Activity
  <2> QED BY <1>1, <2>1 DEF Acts
<1>3. current' \in [GraphProc -> BOOLEAN] /\ current'[p] = FALSE /\ \A q \in GraphProc : q # p => current'[q] = current[q]
  BY <1>1 DEF GraphTypeOK
<1>4. open' \in [GraphProc -> {"unused", "no", "yes"}] /\ \A q \in GraphProc : q # p => open'[q] = open[q]
  BY <1>1 DEF GraphTypeOK
<1>5. \A q \in GraphProc : StaysRevoked(q)
  <2> SUFFICES ASSUME NEW q \in GraphProc PROVE StaysRevoked(q)
    OBVIOUS
  <2>1. CASE q = p
    BY <1>3, <2>1 DEF StaysRevoked
  <2>2. CASE q # p
    BY <1>1, <1>3, <2>2, UnmovedStays DEF Unmoved
  <2> QED BY <2>1, <2>2
<1>6. ActsFit'
  <2>1. Kept
    BY <1>1 DEF Kept
  <2>2. ASSUME NEW q \in GraphProc, NEW v \in GraphWorker
        PROVE  /\ act'[q][v] = act[q][v] \/ act'[q][v].pc = "idle"
               /\ open'[q] # "yes" => act'[q][v].pc = "idle"
    <3>1. CASE q = p
      BY <1>2, <3>1
    <3>2. CASE q # p
      <4>1. act'[q] = act[q] /\ open'[q] = open[q]
        BY <1>2, <1>4, <3>2
      <4> QED BY <4>1, ClosedRests
    <3> QED BY <3>1, <3>2
  <2> QED BY <1>1, <1>5, <2>1, <2>2, OthersFit
<1>7. GraphTypeOK'
  BY <1>1, <1>2, <1>3, <1>4 DEF GraphTypeOK, Acts
<1>8. Recoverable'
  <2>1. Untouched => \A q \in GraphProc, v \in GraphWorker : act'[q][v].pc = "idle"
    BY <1>2 DEF Untouched
  <2> QED BY <1>1, <2>1 DEF Recoverable, Untouched
<1> QED BY <1>1, <1>6, <1>7, <1>8 DEF BudgetInv

-----------------------------------------------------------------------------
Restarted(j) == [j EXCEPT !.recovered = TRUE, !.status = "pending", !.attempts = 0, !.err = "none", !.due = "never"]

LEMMA RestartedFits ==
  ASSUME NEW epoch
  PROVE  /\ BatchFits(Restarted(LegacyJob), epoch) /\ Restarted(LegacyJob).src = GraphEvent
         /\ Restarted(LegacyJob).attempts = 0 /\ Restarted(LegacyJob).recovered = TRUE
<1>1. 0 \in 0..GraphAttempts /\ GraphAttempts \in 0..GraphAttempts
  BY GraphConstants
<1>2. LegacyJob \in GraphJob
  BY <1>1 DEF LegacyJob, GraphJob
<1>3. LegacyJob.src = GraphEvent /\ LegacyJob.claimEpoch = NoEpoch
  BY DEF LegacyJob
<1> HIDE DEF LegacyJob
<1> DEFINE j == Restarted(LegacyJob)
<1>4. /\ j.src = GraphEvent /\ j.attempts = 0 /\ j.recovered = TRUE /\ j.status = "pending" /\ j.claimEpoch = NoEpoch
      /\ j \in GraphJob
  BY <1>1, <1>2, <1>3 DEF Restarted, GraphJob
<1> HIDE DEF j
<1>5. BatchFits(j, epoch)
  BY <1>4 DEF BatchFits
<1> QED BY <1>4, <1>5 DEF j

\* The job of before the rule starts over: nobody has asked about its Events.
LEMMA RecoveringFits ==
  ASSUME BudgetInv, NEW js, js = [i \in DOMAIN jobs |-> Recovering(jobs[i])]
  PROVE  /\ BatchesFit(js, policy.epoch, paid) /\ DOMAIN js = DOMAIN jobs
         /\ \A i \in DOMAIN jobs : jobs[i].recovered => js[i].recovered
         /\ js = jobs \/ \A i \in DOMAIN js : js[i].recovered
<1> USE BudgetParts
<1>1. CASE js = jobs
  <2> QED BY <1>1
<1>2. CASE js # jobs
  <2>1. \A i \in DOMAIN jobs : jobs[i].recovered => js[i] = jobs[i]
    BY DEF Recovering, NeedsRecovery
  <2>2. jobs = [i \in DOMAIN jobs |-> jobs[i]]
    <3> HIDE DEF GraphJob
    <3> QED OBVIOUS
  <2>3. Untouched
    <3> SUFFICES ASSUME \A i \in DOMAIN jobs : jobs[i].recovered PROVE FALSE
      BY DEF Recoverable
    <3>1. \A i \in DOMAIN jobs : js[i] = jobs[i]
      BY <2>1
    <3>2. js = jobs
      BY <2>2, <3>1
    <3> QED BY <1>2, <3>2
  <2>4. DOMAIN jobs = {1} /\ jobs[1] = LegacyJob
    BY <2>3, UntouchedRests
  <2>5. js[1] = Recovering(jobs[1]) /\ DOMAIN js = {1}
    BY <2>4
  <2>6. Recovering(jobs[1]) # jobs[1]
    <3> SUFFICES ASSUME Recovering(jobs[1]) = jobs[1] PROVE FALSE
      OBVIOUS
    <3>1. \A i \in DOMAIN jobs : js[i] = jobs[i]
      BY <2>4, <2>5
    <3>2. js = jobs
      BY <2>2, <3>1
    <3> QED BY <1>2, <3>2
  <2> DEFINE j == js[1]
  <2>7. j = Restarted(LegacyJob)
    BY <2>4, <2>5, <2>6, Zenon DEF Recovering, Restarted
  <2> HIDE DEF j
  <2>8. BatchFits(j, policy.epoch) /\ j.src = GraphEvent /\ j.attempts = 0 /\ j.recovered = TRUE
    BY <2>7, RestartedFits
  <2>9. j \in GraphJob
    BY <2>8 DEF BatchFits
  <2>10. \A e \in GraphEvent : paid[e] = 0
    BY <2>3 DEF Untouched
  <2>11. js \in Seq(GraphJob)
    <3>1. js = [x \in 1..Len(jobs) |-> js[x]] /\ Len(jobs) \in Nat
      BY <2>2
    <3>2. \A x \in 1..Len(jobs) : js[x] \in GraphJob
      <4>1. 1..Len(jobs) = {1} /\ js[1] \in GraphJob
        BY <2>4, <2>9 DEF j
      <4> QED BY <4>1
    <3> HIDE DEF GraphJob
    <3> QED BY <3>1, <3>2
  <2>12. \A i \in DOMAIN js : js[i] = j
    BY <2>5 DEF j
  <2>14. Apart(js)
    BY <2>5 DEF Apart
  <2>15. Counted(js, paid)
    BY <2>8, <2>10, <2>12 DEF Counted
  <2>16. Accounted(js, paid)
    BY <2>10, GraphConstants DEF Accounted
  <2>17. BatchesFit(js, policy.epoch, paid)
    BY <2>11, <2>8, <2>12, <2>14, <2>15, <2>16 DEF BatchesFit
  <2> QED BY <2>4, <2>5, <2>8, <2>12, <2>17
<1> QED BY <1>1, <1>2

LEMMA OpenGraphKeeps ==
  ASSUME Overlap = FALSE, BudgetInv, NEW p \in GraphProc, OpenGraph(p)
  PROVE  BudgetInv'
<1> USE BudgetParts
<1> DEFINE recovered == {i \in DOMAIN jobs : Recovering(jobs[i]) # jobs[i]}
           js == [i \in DOMAIN jobs |-> Recovering(jobs[i])]
           ids == {e \in policy.approved : Exposed(e)}
           due == CanProcess /\ (recovered # {} \/ policy.approved \ Covered # {})
<1>1. /\ open[p] = "no" /\ open' = [open EXCEPT ![p] = "yes"]
      /\ UNCHANGED <<policy, preview, card, act, paid, crashes>>
  BY DEF OpenGraph
<1>2. open' \in [GraphProc -> {"unused", "no", "yes"}] /\ \A q \in GraphProc : open'[q] = "yes" \/ open'[q] = open[q]
  BY <1>1 DEF GraphTypeOK
<1>3. /\ \A q \in GraphProc, v \in GraphWorker : act'[q][v] = act[q][v] \/ act'[q][v].pc = "idle"
      /\ \A q \in GraphProc, v \in GraphWorker : open'[q] # "yes" => act'[q][v].pc = "idle"
  BY <1>1, <1>2, RestedActs
<1>4. \A v \in GraphWorker : act[p][v].pc # "revoking"
  BY <1>1, ClosedRests
<1>5. CASE ~due
  <2>1. current' = [current EXCEPT ![p] = TRUE] /\ UNCHANGED <<jobs, granted>>
    BY <1>5 DEF OpenGraph
  <2>2. current' \in [GraphProc -> BOOLEAN] /\ \A q \in GraphProc : q # p => current'[q] = current[q]
    BY <2>1 DEF GraphTypeOK
  <2>3. \A q \in GraphProc : StaysRevoked(q)
    <3> SUFFICES ASSUME NEW q \in GraphProc PROVE StaysRevoked(q)
      OBVIOUS
    <3>1. CASE q = p
      BY <1>4, <3>1 DEF StaysRevoked
    <3>2. CASE q # p
      BY <1>1, <2>1, <2>2, <3>2, UnmovedStays DEF Unmoved
    <3> QED BY <3>1, <3>2
  <2>4. Kept
    BY <2>1 DEF Kept
  <2>5. ActsFit'
    BY <1>1, <1>3, <2>3, <2>4, OthersFit
  <2>6. GraphTypeOK'
    BY <1>1, <1>2, <2>1, <2>2 DEF GraphTypeOK
  <2>7. Recoverable'
    BY <1>1, <2>1 DEF Recoverable, Untouched
  <2> QED BY <1>1, <2>1, <2>5, <2>6, <2>7 DEF BudgetInv
<1>6. CASE due
  <2>1. /\ jobs' = Queue(js, ids, policy.epoch) /\ Wrote(p)
        /\ granted' = [e \in GraphEvent |-> granted[e] + Cardinality({i \in recovered : e \in jobs[i].src})]
    BY <1>6 DEF OpenGraph, QueueMissing
  <2>2. granted' \in [GraphEvent -> Nat]
    <3>1. ASSUME NEW e \in GraphEvent PROVE Cardinality({i \in recovered : e \in jobs[i].src}) \in Nat
      <4>1. {i \in recovered : e \in jobs[i].src} \subseteq 1..Len(jobs) /\ Len(jobs) \in Nat
        OBVIOUS
      <4>2. IsFiniteSet(1..Len(jobs))
        BY <4>1, FS_Interval
      <4> HIDE DEF recovered
      <4> QED BY <4>1, <4>2, FS_Subset, FS_CardinalityType
    <3> DEFINE n(e) == Cardinality({i \in recovered : e \in jobs[i].src})
    <3>2. granted' = [e \in GraphEvent |-> granted[e] + n(e)] /\ \A e \in GraphEvent : n(e) \in Nat
      BY <2>1, <3>1
    <3>3. granted \in [GraphEvent -> Nat]
      BY DEF GraphTypeOK
    <3> HIDE DEF n
    <3> QED BY <3>2, <3>3
  <2>3. ids \in SUBSET GraphEvent
    OBVIOUS
  <2>4. /\ BatchesFit(js, policy.epoch, paid) /\ DOMAIN js = DOMAIN jobs
        /\ \A i \in DOMAIN jobs : jobs[i].recovered => js[i].recovered
        /\ js = jobs \/ \A i \in DOMAIN js : js[i].recovered
    BY RecoveringFits
  <2>5. \A i \in recovered : js # jobs
    OBVIOUS
  <2> DEFINE new == Queue(js, ids, policy.epoch)
  <2> HIDE DEF js, ids
  <2>6. /\ BatchesFit(new, policy.epoch, paid) /\ DOMAIN js \subseteq DOMAIN new
        /\ \A i \in DOMAIN new : IF i \in DOMAIN js THEN new[i] = js[i] ELSE new[i].recovered
    BY <2>3, <2>4, QueueFits
  <2>7. jobs' = new
    BY <2>1
  <2> HIDE DEF new
  <2>8. Kept
    BY <2>4, <2>6, <2>7 DEF Kept
  <2>9. \A i \in DOMAIN jobs' : jobs'[i].recovered
    <3>1. \A i \in DOMAIN js : js[i].recovered
      <4>1. CASE js # jobs
        BY <2>4, <4>1
      <4>2. CASE js = jobs
        <5>1. policy.approved \ Covered # {}
          BY <1>6, <2>5, <4>2
        <5>2. ~Untouched
          BY <5>1, UntouchedRests
        <5> QED BY <4>2, <5>2 DEF Recoverable
      <4> QED BY <4>1, <4>2
    <3> QED BY <2>6, <2>7, <3>1
  <2>10. \A q \in GraphProc : StaysRevoked(q)
    BY <1>4, <2>1, WrittenStays
  <2>11. ActsFit'
    BY <1>1, <1>3, <2>8, <2>10, OthersFit
  <2>12. jobs' \in Seq(GraphJob)
    BY <2>6, <2>7 DEF BatchesFit
  <2>13. GraphTypeOK'
    BY <1>1, <1>2, <2>1, <2>2, <2>12, WroteTyped DEF GraphTypeOK
  <2>14. Recoverable'
    BY <2>9 DEF Recoverable
  <2>15. BatchesFit(jobs, policy.epoch, paid)'
    BY <1>1, <2>6, <2>7
  <2> QED BY <2>11, <2>13, <2>14, <2>15 DEF BudgetInv
<1> QED BY <1>5, <1>6

-----------------------------------------------------------------------------
\* A step outside the processes: only the policy, the preview or how the jobs rest change.
LEMMA AsideKeeps ==
  ASSUME BudgetInv, UNCHANGED <<card, current, act, open, paid, granted, crashes>>,
         policy' \in [enabled: BOOLEAN, paused: BOOLEAN, epoch: Epoch, approved: SUBSET GraphEvent],
         preview' \in [epoch: Epoch \cup {NoEpoch}, approved: SUBSET GraphEvent],
         policy'.epoch \in Nat, policy'.epoch >= policy.epoch,
         BatchesFit(jobs', policy'.epoch, paid), Kept, Recoverable',
         \A q \in GraphProc : StaysRevoked(q)
  PROVE  BudgetInv'
<1> USE BudgetParts
<1>1. /\ \A q \in GraphProc, v \in GraphWorker : act'[q][v] = act[q][v] \/ act'[q][v].pc = "idle"
      /\ \A q \in GraphProc, v \in GraphWorker : open'[q] # "yes" => act'[q][v].pc = "idle"
  BY RestedActs
<1>2. ActsFit'
  BY <1>1, OthersFit
<1>3. jobs' \in Seq(GraphJob)
  BY DEF BatchesFit
<1>4. GraphTypeOK'
  BY <1>3 DEF GraphTypeOK
<1>5. BatchesFit(jobs, policy.epoch, paid)'
  OBVIOUS
<1> QED BY <1>2, <1>4, <1>5 DEF BudgetInv

\* The epochs of the jobs stay behind a later epoch of the policy.
LEMMA LaterFits ==
  ASSUME BudgetInv
  PROVE  BatchesFit(jobs, policy.epoch + 1, paid)
<1> USE BudgetParts
<1>1. \A x \in DOMAIN jobs : BatchFits(jobs[x], policy.epoch + 1)
  <2> SUFFICES ASSUME NEW x \in DOMAIN jobs PROVE BatchFits(jobs[x], policy.epoch + 1)
    OBVIOUS
  <2> DEFINE j == jobs[x]
  <2>1. BatchFits(j, policy.epoch) /\ j \in GraphJob
    OBVIOUS
  <2> HIDE DEF j
  <2>2. j.claimEpoch \in Nat \cup {NoEpoch}
    BY <2>1, JobParts, GraphConstants DEF Epoch
  <2>3. BatchFits(j, policy.epoch + 1)
    BY <2>1, <2>2 DEF BatchFits
  <2> QED BY <2>3 DEF j
<1>2. policy.epoch + 1 \in Nat
  OBVIOUS
<1> QED BY <1>1, <1>2, EditedFit

LEMMA PolicyKeeps ==
  ASSUME BudgetInv, Preview \/ EnableGraph \/ DisableGraph
  PROVE  BudgetInv'
<1> USE BudgetParts
<1>0. policy \in [enabled: BOOLEAN, paused: BOOLEAN, epoch: Epoch, approved: SUBSET GraphEvent]
      /\ preview \in [epoch: Epoch \cup {NoEpoch}, approved: SUBSET GraphEvent]
  BY DEF GraphTypeOK
<1>1. CASE Preview
  <2>1. policy' = policy /\ UNCHANGED <<card, jobs, current, act, open, paid, granted, crashes>>
    BY <1>1 DEF Preview
  <2>2. preview' \in [epoch: Epoch \cup {NoEpoch}, approved: SUBSET GraphEvent]
    BY <1>1 DEF Preview
  <2>3. Kept /\ Recoverable' /\ \A q \in GraphProc : StaysRevoked(q)
    BY <2>1, UnmovedStays DEF Kept, Recoverable, Untouched, Unmoved
  <2> QED BY <1>0, <2>1, <2>2, <2>3, AsideKeeps
<1>2. CASE EnableGraph \/ DisableGraph
  <2>1. UNCHANGED <<card, jobs, current, act, open, paid, granted, crashes>> /\ policy.epoch < MaxEpoch
    BY <1>2 DEF EnableGraph, DisableGraph
  <2>2. policy.epoch + 1 \in Epoch
    BY <2>1, GraphConstants DEF Epoch
  <2>3. /\ policy' \in [enabled: BOOLEAN, paused: BOOLEAN, epoch: Epoch, approved: SUBSET GraphEvent]
        /\ policy'.epoch = policy.epoch + 1
    <3>1. CASE EnableGraph
      <4>1. policy' = [enabled |-> TRUE, paused |-> FALSE, epoch |-> policy.epoch + 1, approved |-> preview.approved]
        BY <3>1 DEF EnableGraph
      <4> QED BY <1>0, <2>2, <4>1
    <3>2. CASE DisableGraph
      <4>1. PICK pause \in BOOLEAN :
              policy' = [policy EXCEPT !.enabled = pause /\ @, !.paused = pause, !.epoch = @ + 1]
        BY <3>2 DEF DisableGraph
      <4>2. (pause /\ policy.enabled) \in BOOLEAN
        BY <1>0
      <4> QED BY <1>0, <2>2, <4>1, <4>2
    <3> QED BY <1>2, <3>1, <3>2
  <2>4. preview' \in [epoch: Epoch \cup {NoEpoch}, approved: SUBSET GraphEvent]
    <3>1. CASE EnableGraph
      BY <3>1 DEF EnableGraph
    <3>2. CASE DisableGraph
      BY <1>0, <3>2 DEF DisableGraph
    <3> QED BY <1>2, <3>1, <3>2
  <2>5. Kept /\ Recoverable'
    BY <2>1 DEF Kept, Recoverable, Untouched
  <2>6. policy'.epoch \in Nat /\ policy'.epoch > policy.epoch /\ policy'.epoch >= policy.epoch
    BY <2>3
  <2>7. \A q \in GraphProc : StaysRevoked(q)
    BY <2>6 DEF StaysRevoked
  <2>8. BatchesFit(jobs', policy'.epoch, paid)
    BY <2>1, <2>3, LaterFits
  <2> QED BY <2>1, <2>3, <2>4, <2>5, <2>6, <2>7, <2>8, AsideKeeps
<1> QED BY <1>1, <1>2

LEMMA ElapseKeeps ==
  ASSUME BudgetInv, Elapse
  PROVE  BudgetInv'
<1> USE BudgetParts
<1>1. PICK i \in DOMAIN jobs : LeaseEnds(i) \/ BackoffEnds(i)
  BY DEF Elapse
<1>2. UNCHANGED <<policy, preview, card, current, act, open, paid, granted, crashes>>
  BY <1>1 DEF LeaseEnds, BackoffEnds
<1> DEFINE j == jobs'[i]
<1>3. /\ jobs' \in Seq(GraphJob) /\ DOMAIN jobs' = DOMAIN jobs /\ \A x \in DOMAIN jobs : x # i => jobs'[x] = jobs[x]
      /\ j \in GraphJob /\ j.src = jobs[i].src /\ j.attempts = jobs[i].attempts /\ j.recovered = jobs[i].recovered
      /\ j.status = jobs[i].status /\ j.err = jobs[i].err /\ j.claimEpoch = jobs[i].claimEpoch
      /\ j.createdEpoch = jobs[i].createdEpoch
      /\ \/ jobs[i].status = "running" /\ jobs[i].lease # "none" /\ j.lease # "none" /\ j.due = jobs[i].due
         \/ jobs[i].status = "failed" /\ jobs[i].due # "never" /\ j.due # "never" /\ j.lease = jobs[i].lease
  <2>1. CASE LeaseEnds(i)
    <3> DEFINE k == [jobs[i] EXCEPT !.lease = "expired"]
    <3>1. jobs' = [jobs EXCEPT ![i] = k] /\ jobs[i].status = "running" /\ jobs[i].lease = "live"
      BY <2>1 DEF LeaseEnds
    <3>2. /\ k \in GraphJob /\ k.src = jobs[i].src /\ k.attempts = jobs[i].attempts /\ k.recovered = jobs[i].recovered
          /\ k.status = jobs[i].status /\ k.err = jobs[i].err /\ k.claimEpoch = jobs[i].claimEpoch
          /\ k.createdEpoch = jobs[i].createdEpoch /\ k.lease = "expired" /\ k.due = jobs[i].due
      BY DEF GraphJob
    <3> HIDE DEF k
    <3> DEFINE new == [jobs EXCEPT ![i] = k]
    <3>3. new \in Seq(GraphJob) /\ DOMAIN new = DOMAIN jobs /\ new[i] = k /\ \A x \in DOMAIN jobs : x # i => new[x] = jobs[x]
      BY <3>2, EditedSeq
    <3>4. jobs' = new
      BY <3>1
    <3> HIDE DEF new
    <3> QED BY <3>1, <3>2, <3>3, <3>4
  <2>2. CASE BackoffEnds(i)
    <3> DEFINE k == [jobs[i] EXCEPT !.due = "ripe"]
    <3>1. jobs' = [jobs EXCEPT ![i] = k] /\ jobs[i].status = "failed" /\ jobs[i].due = "waiting"
      BY <2>2 DEF BackoffEnds
    <3>2. /\ k \in GraphJob /\ k.src = jobs[i].src /\ k.attempts = jobs[i].attempts /\ k.recovered = jobs[i].recovered
          /\ k.status = jobs[i].status /\ k.err = jobs[i].err /\ k.claimEpoch = jobs[i].claimEpoch
          /\ k.createdEpoch = jobs[i].createdEpoch /\ k.due = "ripe" /\ k.lease = jobs[i].lease
      BY DEF GraphJob
    <3> HIDE DEF k
    <3> DEFINE new == [jobs EXCEPT ![i] = k]
    <3>3. new \in Seq(GraphJob) /\ DOMAIN new = DOMAIN jobs /\ new[i] = k /\ \A x \in DOMAIN jobs : x # i => new[x] = jobs[x]
      BY <3>2, EditedSeq
    <3>4. jobs' = new
      BY <3>1
    <3> HIDE DEF new
    <3> QED BY <3>1, <3>2, <3>3, <3>4
  <2> QED BY <1>1, <2>1, <2>2
<1> HIDE DEF j
<1>4. BatchFits(j, policy.epoch) /\ (Going(j) => Going(jobs[i]))
  BY <1>3 DEF BatchFits, Going
<1>5. \A x \in DOMAIN jobs : /\ BatchFits(jobs'[x], policy.epoch) /\ jobs'[x].src = jobs[x].src
                             /\ jobs'[x].attempts = jobs[x].attempts /\ (Going(jobs'[x]) => Going(jobs[x]))
                             /\ jobs'[x].recovered = jobs[x].recovered
  BY <1>3, <1>4 DEF j
<1>6. BatchesFit(jobs', policy'.epoch, paid)
  BY <1>2, <1>3, <1>5, EditedFit
<1>7. Kept
  BY <1>3, <1>5 DEF Kept
<1>8. Recoverable'
  <2>1. ~Untouched
    <3> SUFFICES ASSUME Untouched PROVE FALSE
      OBVIOUS
    <3>1. i = 1 /\ jobs[1] = LegacyJob /\ LegacyJob.status = "failed" /\ LegacyJob.due = "never"
      BY UntouchedRests DEF LegacyJob
    <3> QED BY <1>3, <3>1
  <2> QED BY <1>3, <1>5, <2>1 DEF Recoverable
<1>9. \A x \in DOMAIN jobs : Revoked(jobs[x]) => Revoked(jobs[x])'
  <2> SUFFICES ASSUME NEW x \in DOMAIN jobs, Revoked(jobs[x]) PROVE Revoked(jobs[x])'
    OBVIOUS
  <2>1. CASE x # i
    <3>1. jobs'[x] = jobs[x]
      BY <1>3, <2>1
    <3> QED BY <1>2, <3>1 DEF Revoked, SourceIds, Exposed
  <2>2. CASE x = i
    <3>1. SourceIds(jobs[x])' = SourceIds(jobs[x])
      BY <1>2, <1>3, <2>2 DEF SourceIds, Exposed, j
    <3> QED BY <1>2, <1>3, <2>2, <3>1 DEF Revoked, j
  <2> QED BY <2>1, <2>2
<1>10. \A q \in GraphProc : StaysRevoked(q)
  BY <1>2, <1>9 DEF StaysRevoked
<1>11. policy' \in [enabled: BOOLEAN, paused: BOOLEAN, epoch: Epoch, approved: SUBSET GraphEvent]
       /\ preview' \in [epoch: Epoch \cup {NoEpoch}, approved: SUBSET GraphEvent]
       /\ policy'.epoch \in Nat /\ policy'.epoch >= policy.epoch
  BY <1>2 DEF GraphTypeOK
<1> QED BY <1>2, <1>6, <1>7, <1>8, <1>10, <1>11, AsideKeeps

-----------------------------------------------------------------------------
LEMMA BudgetStarts == GraphInit => BudgetInv
<1> SUFFICES ASSUME GraphInit PROVE BudgetInv
  OBVIOUS
<1>1. /\ policy = [enabled |-> FALSE, paused |-> FALSE, epoch |-> 0, approved |-> {}]
      /\ preview = [epoch |-> NoEpoch, approved |-> {}]
      /\ card \in [GraphEvent -> {"unused", "absent", "active"}]
      /\ jobs = <<>> \/ (jobs = <<LegacyJob>> /\ \A e \in GraphEvent : card[e] = "active")
      /\ current = [p \in GraphProc |-> FALSE] /\ open \in [GraphProc -> {"unused", "no"}]
      /\ act = [p \in GraphProc |-> [w \in GraphWorker |-> Resting]]
      /\ paid = [e \in GraphEvent |-> 0] /\ granted = [e \in GraphEvent |-> 0]
  BY DEF GraphInit
<1>2. 0 \in Epoch /\ 0 \in Nat
  BY GraphConstants DEF Epoch
<1>3. act \in Acts /\ \A p \in GraphProc, w \in GraphWorker : act[p][w].pc = "idle"
  <2>1. Resting \in Activity /\ Resting.pc = "idle"
    BY RestingTyped
  <2> HIDE DEF Resting, Activity
  <2> QED BY <1>1, <2>1 DEF Acts
<1>4. /\ LegacyJob \in GraphJob /\ LegacyJob.status = "failed" /\ LegacyJob.claimEpoch = NoEpoch
      /\ LegacyJob.attempts = GraphAttempts
  <2>1. GraphAttempts \in 0..GraphAttempts
    BY GraphConstants
  <2> QED BY <2>1 DEF LegacyJob, GraphJob
<1> HIDE DEF LegacyJob, Resting
<1>5. jobs \in Seq(GraphJob) /\ \A i \in DOMAIN jobs : i = 1 /\ jobs[i] = LegacyJob
  <2> HIDE DEF GraphJob
  <2>1. CASE jobs = <<>>
    BY <2>1
  <2>2. CASE jobs = <<LegacyJob>>
    BY <1>4, <2>2
  <2> QED BY <1>1, <2>1, <2>2
<1>6. ~(GraphAttempts < GraphAttempts)
  BY GraphConstants
<1>7. BatchesFit(jobs, 0, paid)
  <2>1. \A i \in DOMAIN jobs : BatchFits(jobs[i], 0) /\ ~Going(jobs[i])
    BY <1>4, <1>5, <1>6 DEF BatchFits, Going
  <2>2. Apart(jobs) /\ Counted(jobs, paid)
    BY <2>1 DEF Apart, Counted
  <2>3. Accounted(jobs, paid)
    BY <1>1, GraphConstants DEF Accounted
  <2> QED BY <1>5, <2>1, <2>2, <2>3 DEF BatchesFit
<1>8. policy.epoch = 0
  BY <1>1
<1>9. Recoverable
  <2>1. CASE jobs = <<>>
    BY <2>1 DEF Recoverable
  <2>2. CASE jobs = <<LegacyJob>> /\ \A e \in GraphEvent : card[e] = "active"
    BY <1>1, <1>3, <2>2 DEF Recoverable, Untouched
  <2> QED BY <1>1, <2>1, <2>2
<1>10. ActsFit
  BY <1>3 DEF ActsFit, OneRevokes, ActFits
<1>11. GraphTypeOK
  <2>1. policy \in [enabled: BOOLEAN, paused: BOOLEAN, epoch: Epoch, approved: SUBSET GraphEvent]
        /\ preview \in [epoch: Epoch \cup {NoEpoch}, approved: SUBSET GraphEvent]
    BY <1>1, <1>2
  <2>2. card \in [GraphEvent -> Status] /\ open \in [GraphProc -> {"unused", "no", "yes"}]
    BY <1>1 DEF Status
  <2>3. current \in [GraphProc -> BOOLEAN] /\ paid \in [GraphEvent -> Nat] /\ granted \in [GraphEvent -> Nat]
    BY <1>1
  <2> QED BY <1>3, <1>5, <2>1, <2>2, <2>3 DEF GraphTypeOK, Acts
<1> QED BY <1>7, <1>8, <1>9, <1>10, <1>11 DEF BudgetInv

LEMMA BudgetSteps ==
  ASSUME Overlap = FALSE, MaxGraphRetry = 0, BudgetInv, GraphNext
  PROVE  BudgetInv'
<1>1. ASSUME NEW p \in GraphProc, NEW w \in GraphWorker, Pass(p, w) PROVE BudgetInv'
  BY <1>1, PrepareGraphKeeps, CommitPrepareKeeps, ClaimGraphKeeps DEF Pass
<1>2. ASSUME NEW p \in GraphProc, NEW w \in GraphWorker, Call(p, w) PROVE BudgetInv'
  BY <1>2, CompleteGraphKeeps, FailCallKeeps DEF Call
<1>3. ASSUME NEW p \in GraphProc, NEW w \in GraphWorker, CommitAdd(p, w) PROVE BudgetInv'
  BY <1>3, CommitAddKeeps
<1>4. ASSUME NEW p \in GraphProc, NEW w \in GraphWorker, NEW i \in DOMAIN jobs, RetryGraph(p, w, i) PROVE FALSE
  <2>1. \A e \in GraphEvent : granted[e] < 0 /\ granted[e] \in Nat
    BY <1>4, BudgetParts DEF RetryGraph, GraphTypeOK
  <2>2. GraphEvent = {}
    BY <2>1
  <2>3. jobs[i].src \subseteq GraphEvent
    BY BudgetParts, JobParts
  <2> QED BY <1>4, <2>2, <2>3 DEF RetryGraph
<1>5. ASSUME NEW p \in GraphProc, NEW w \in GraphWorker, NEW e \in GraphEvent, StartAdd(p, w, e) PROVE BudgetInv'
  BY <1>5, StartAddKeeps
<1>6. ASSUME NEW p \in GraphProc, RecoverGraph(p) \/ ReloadGraph(p) \/ OpenGraph(p) \/ CrashGraph(p) PROVE BudgetInv'
  BY <1>6, RecoverGraphKeeps, ReloadGraphKeeps, OpenGraphKeeps, CrashGraphKeeps
<1>7. ASSUME NEW p \in GraphProc, NEW e \in GraphEvent, ForgetEvent(p, e) PROVE BudgetInv'
  BY <1>7, ForgetEventKeeps
<1>8. CASE Preview \/ EnableGraph \/ DisableGraph
  BY <1>8, PolicyKeeps
<1>9. CASE Elapse
  BY <1>9, ElapseKeeps
<1> QED BY <1>1, <1>2, <1>3, <1>4, <1>5, <1>6, <1>7, <1>8, <1>9 DEF GraphNext

LEMMA BudgetStutters ==
  ASSUME BudgetInv, UNCHANGED graphVars
  PROVE  BudgetInv'
BY DEF graphVars, BudgetInv, GraphTypeOK, BatchesFit, BatchFits, Going, Apart, Counted, Accounted, Recoverable, Untouched,
       ActsFit, OneRevokes, ActFits, Revoked, SourceIds, Exposed

LEMMA BudgetPays == BudgetInv => CallsWithinBudget
<1> SUFFICES ASSUME BudgetInv, NEW e \in GraphEvent PROVE paid[e] <= GraphAttempts * (1 + granted[e])
  BY DEF CallsWithinBudget
<1>1. paid[e] \in Nat /\ granted[e] \in Nat /\ paid[e] <= GraphAttempts /\ GraphAttempts \in Nat
  BY GraphConstants DEF BudgetInv, GraphTypeOK, BatchesFit, Accounted
<1>2. GraphAttempts * (1 + granted[e]) = GraphAttempts + GraphAttempts * granted[e] /\ GraphAttempts * granted[e] \in Nat
  BY <1>1
<1> QED BY <1>1, <1>2

\* However an Event moves between jobs -- revoked with the epoch, deferred, split off a batch,
\* interrupted, recovered -- the model is asked about it at most DERIVATION_MAX_ATTEMPTS times:
\* for every number of processes and Events, batch size and policy history, in a process whose
\* other work does not get in between prepareGraphWork and its commit, and as long as nobody
\* retries by hand.  Without either hypothesis the code asks more often.
THEOREM CallsStayWithinBudget ==
  ASSUME Overlap = FALSE, MaxGraphRetry = 0
  PROVE  GraphSpec => []CallsWithinBudget
<1>1. BudgetInv /\ [GraphNext]_graphVars => BudgetInv'
  BY BudgetSteps, BudgetStutters
<1> QED BY <1>1, BudgetStarts, BudgetPays, PTL DEF GraphSpec
=============================================================================
