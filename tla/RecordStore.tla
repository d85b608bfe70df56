------------------------------ MODULE RecordStore ------------------------------
(***************************************************************************)
(* How the memory of a namespace, kept as arrays and maps, becomes rows and *)
(* is read back (packages/core/src/sqlite.ts, storage-write-set.ts, and the *)
(* mutations of store.ts that move, cite and remove what the rows refer     *)
(* to). A save compares the memory with the last committed one, runs its    *)
(* statements in a fixed order under immediate foreign keys, and is rolled  *)
(* back whole when SQLite refuses one; a few operations patch single rows   *)
(* instead. One process; concurrent ones are in MemoryUse.                  *)
(***************************************************************************)
EXTENDS Integers, FiniteSets, SequencesExt

CONSTANTS
  Thread,     \* conversations
  Receipt,    \* ids of usage receipts
  Dropped,    \* levels lost per Block of age: the decay table for one lambda
  MaxIds,     \* bound: ids ever handed out
  MaxOps,     \* bound: operations of a behaviour
  MaxExtras   \* bound: pins, uses, lifts and surface writes of a behaviour

ASSUME StoreAssumption == MaxIds \in Nat /\ MaxOps \in Nat /\ MaxExtras \in Nat

VARIABLES
  mem,      \* the memory the process works on
  base,     \* committedMetadata: the memory as last committed
  rows,     \* the tables
  next,     \* the next id
  inverse,  \* the inverse of a merge: the records before and after it
  refused,  \* history: operations whose save SQLite refused
  ops, extras

recordVars == <<mem, base, rows, next, inverse, refused, ops, extras>>

Pool == {"events", "agentEvents"}
Own == "own"          \* the thread of a synthetic Block
OpenTail == 0             \* where an unsealed message is, and the source Block of a card without one

Empty == [tail |-> <<>>, blocks |-> <<>>, cards |-> [p \in Pool |-> <<>>], elements |-> <<>>,
          receipts |-> {}]
NoRows == [blocks |-> {}, messages |-> {}, cards |-> [p \in Pool |-> {}],
           links |-> [p \in Pool |-> {}], elements |-> {}, elementLinks |-> {}, receipts |-> {}]

Ids(R) == {r.id : r \in R}
Put(old, new) == {r \in old : r.id \notin Ids(new)} \cup new

-----------------------------------------------------------------------------
(* The rows of a memory: a record's place in its array is a column of its row *)

Places(s) == [i \in DOMAIN s |-> [id |-> s[i].id, pos |-> i, record |-> s[i]]]
MessageRows(s, block) ==
  {[id |-> s[i].id, block |-> block, pos |-> i, th |-> s[i].th] : i \in DOMAIN s}
BlockRow(b) == [id |-> b.id, th |-> b.th, seq |-> b.seq, import |-> b.import, ready |-> b.ready,
                pointer |-> b.pointer, surface |-> b.surface, lift |-> b.lift]
LinksOf(cards) == UNION {{[event |-> c.id, msg |-> m] : m \in c.record.src} : c \in cards}
ElementLinksOf(elements) ==
  UNION {{[element |-> e.id, event |-> v] : v \in e.record.src} : e \in elements}

RecordsOf(s) ==
  [blocks |-> {BlockRow(b) : b \in ToSet(s.blocks)},
   messages |-> MessageRows(s.tail, OpenTail)
                \cup UNION {MessageRows(b.raw, b.id) : b \in ToSet(s.blocks)},
   cards |-> [p \in Pool |-> ToSet(Places(s.cards[p]))],
   elements |-> ToSet(Places(s.elements)),
   receipts |-> s.receipts]

Changes(before, after) ==
  LET old == RecordsOf(before)
      new == RecordsOf(after)
  IN [blocks |-> new.blocks \ old.blocks, messages |-> new.messages \ old.messages,
      cards |-> [p \in Pool |-> new.cards[p] \ old.cards[p]],
      elements |-> new.elements \ old.elements, receipts |-> new.receipts \ old.receipts,
      gone |-> [blocks |-> Ids(old.blocks) \ Ids(new.blocks),
                messages |-> Ids(old.messages) \ Ids(new.messages),
                cards |-> [p \in Pool |-> Ids(old.cards[p]) \ Ids(new.cards[p])],
                elements |-> Ids(old.elements) \ Ids(new.elements),
                receipts |-> Ids(old.receipts) \ Ids(new.receipts)]]

-----------------------------------------------------------------------------
(* Statements. Deleting a row deletes its cascades with it. *)

UpsertBlocks(r, c) == [r EXCEPT !.blocks = Put(@, c.blocks)]
UpsertMessages(r, c) == [r EXCEPT !.messages = Put(@, c.messages)]

\* Faulty variant: links of a card that is no longer made of a merged one stay.
UpsertEventsKeepingLinks(r, c) ==
  [r EXCEPT !.cards.events = Put(@, c.cards.events),
            !.links.events = @ \cup LinksOf(c.cards.events)]

UpsertEvents(r, c) ==
  LET written == c.cards.events
      stale == {l \in r.links.events : l.event \in Ids(written) /\ l \notin LinksOf(written)}
  IN [r EXCEPT !.cards.events = Put(@, written),
               !.links.events = (@ \ stale) \cup LinksOf(written)]
\* The agent's pool is deleted and inserted again.
DeleteAgentEvents(r, c) ==
  LET ids == Ids(c.cards.agentEvents) \cup c.gone.cards.agentEvents
  IN [r EXCEPT !.cards.agentEvents = {x \in @ : x.id \notin ids},
               !.links.agentEvents = {l \in @ : l.event \notin ids}]
InsertAgentEvents(r, c) ==
  [r EXCEPT !.cards.agentEvents = @ \cup c.cards.agentEvents,
            !.links.agentEvents = @ \cup LinksOf(c.cards.agentEvents)]
WriteElements(r, c) ==
  [r EXCEPT !.elements = Put(@, c.elements),
            !.elementLinks = {l \in @ : l.element \notin Ids(c.elements)} \cup ElementLinksOf(c.elements)]
InsertReceipts(r, c) ==    \* ON CONFLICT DO NOTHING
  [r EXCEPT !.receipts = @ \cup {x \in c.receipts : x.id \notin Ids(@)}]
DeleteElements(r, c) ==
  [r EXCEPT !.elements = {x \in @ : x.id \notin c.gone.elements},
            !.elementLinks = {l \in @ : l.element \notin c.gone.elements}]
DeleteEvents(r, c) ==
  [r EXCEPT !.cards.events = {x \in @ : x.id \notin c.gone.cards.events},
            !.links.events = {l \in @ : l.event \notin c.gone.cards.events}]
DeleteReceipts(r, c) == [r EXCEPT !.receipts = {x \in @ : x.id \notin c.gone.receipts}]
DeleteBlocks(r, c) ==
  [r EXCEPT !.blocks = {x \in @ : x.id \notin c.gone.blocks},
            !.messages = {m \in @ : m.block \notin c.gone.blocks}]
DeleteMessages(r, c) == [r EXCEPT !.messages = {m \in @ : m.id \notin c.gone.messages}]

Upserts(r, c) ==
  LET r1 == UpsertBlocks(r, c)
      r2 == UpsertMessages(r1, c)
      r3 == UpsertEvents(r2, c)
      r4 == DeleteAgentEvents(r3, c)
      r5 == InsertAgentEvents(r4, c)
      r6 == WriteElements(r5, c)
      r7 == InsertReceipts(r6, c)
  IN <<r1, r2, r3, r4, r5, r6, r7>>

\* Faulty variant: Blocks go before the cards that cite them.
RemovalsBlocksFirst(r, c) ==
  LET r1 == DeleteBlocks(r, c)
      r2 == DeleteElements(r1, c)
      r3 == DeleteEvents(r2, c)
      r4 == DeleteReceipts(r3, c)
  IN <<r1, r2, r3, r4, DeleteMessages(r4, c)>>

Removals(r, c) ==
  LET r1 == DeleteElements(r, c)
      r2 == DeleteEvents(r1, c)
      r3 == DeleteReceipts(r2, c)
      r4 == DeleteBlocks(r3, c)
  IN <<r1, r2, r3, r4, DeleteMessages(r4, c)>>

Statements(r, c) == LET first == Upserts(r, c) IN first \o Removals(Last(first), c)

\* What SQLite checks as each statement ends: one Block per number; every message in a Block
\* that exists, every card of a Block that exists, every link between records that exist.
Sound(r) ==
  /\ \A a, b \in r.blocks : a.seq = b.seq => a = b
  /\ \A m \in r.messages : m.block \in Ids(r.blocks) \cup {OpenTail}
  /\ \A p \in Pool :
       /\ \A x \in r.cards[p] : x.record.block \in Ids(r.blocks) \cup {OpenTail}
       /\ \A l \in r.links[p] : l.event \in Ids(r.cards[p]) /\ l.msg \in Ids(r.messages)
  /\ \A l \in r.elementLinks : l.element \in Ids(r.elements)

-----------------------------------------------------------------------------
(* Reading the rows back *)

InOrder(R, Key(_)) ==    \* ORDER BY a column; ties by id
  [i \in 1..Cardinality(R) |->
     CHOOSE r \in R : i = Cardinality({q \in R : Key(q) < Key(r) \/ (Key(q) = Key(r) /\ q.id <= r.id)})]
ByPlace(R) == LET Key(r) == r.pos IN InOrder(R, Key)
BySequence(R) == LET Key(b) == b.seq IN InOrder(R, Key)

Container(r, block) ==
  LET found == ByPlace({m \in r.messages : m.block = block})
  IN [i \in DOMAIN found |-> [id |-> found[i].id, th |-> found[i].th]]
BlockOf(r, b) ==
  [id |-> b.id, th |-> b.th, seq |-> b.seq, import |-> b.import, ready |-> b.ready,
   pointer |-> b.pointer, surface |-> b.surface, lift |-> b.lift, raw |-> Container(r, b.id)]
CardsOf(r, p) ==
  LET found == ByPlace(r.cards[p])
  IN [i \in DOMAIN found |->
        [found[i].record EXCEPT !.src = {l.msg : l \in {k \in r.links[p] : k.event = found[i].id}}]]
ElementsOf(r) ==
  LET found == ByPlace(r.elements)
  IN [i \in DOMAIN found |->
        [id |-> found[i].id,
         src |-> {l.event : l \in {k \in r.elementLinks : k.element = found[i].id}}]]
ReadState(r) ==
  LET found == BySequence(r.blocks)
  IN [tail |-> Container(r, OpenTail), blocks |-> [i \in DOMAIN found |-> BlockOf(r, found[i])],
      cards |-> [p \in Pool |-> CardsOf(r, p)], elements |-> ElementsOf(r), receipts |-> r.receipts]

AllCards(s) == ToSet(s.cards["events"]) \cup ToSet(s.cards["agentEvents"])
CardOf(s, e) == CHOOSE c \in AllCards(s) : c.id = e
Messages(s) == Ids(ToSet(s.tail)) \cup UNION {Ids(ToSet(b.raw)) : b \in ToSet(s.blocks)}

\* What opening a namespace demands of what it read.
ValidReferences(s) ==
  LET events == Ids(AllCards(s))
      originals(c) == {CardOf(s, e) : e \in c.merged \cap events}
      own(c) == UNION {Ids(ToSet(b.raw)) : b \in {x \in ToSet(s.blocks) : x.id = c.block}}
  IN /\ Cardinality(AllCards(s)) = Len(s.cards["events"]) + Len(s.cards["agentEvents"])
     /\ \A c \in AllCards(s) :
          IF c.block = OpenTail THEN c.src \subseteq Messages(s)
          ELSE /\ c.block \in Ids(ToSet(s.blocks))
               /\ c.merged \subseteq events \ {c.id} /\ \A o \in originals(c) : o.status = "archived"
               /\ c.src \subseteq own(c) \cup (UNION {o.src : o \in originals(c)} \cap Messages(s))
     /\ \A e \in ToSet(s.elements) : e.src \subseteq events

-----------------------------------------------------------------------------
(* Operations *)

Spend == ops < MaxOps /\ ops' = ops + 1
SpendExtra == extras < MaxExtras /\ extras' = extras + 1 /\ UNCHANGED ops
Fresh(n) == next + n <= MaxIds + 1 /\ next' = next + n

\* The unit of work: all the statements, or none and the memory as it was.
ApplyMutation(op, after) ==
  LET steps == Statements(rows, Changes(base, after))
  IN IF \A i \in DOMAIN steps : Sound(steps[i])
     THEN mem' = after /\ base' = after /\ rows' = Last(steps) /\ UNCHANGED refused
     ELSE refused' = refused \cup {op} /\ UNCHANGED <<mem, base, rows>>

Pending == Changes(base, mem) # Changes(mem, mem)

\* One operation's own statement, applied to the memory and to its committed copy; with other
\* changes pending it takes the unit of work instead.
Patch(op, s, committed, r) ==
  IF Pending THEN ApplyMutation(op, s)
  ELSE mem' = s /\ base' = committed /\ rows' = r /\ UNCHANGED refused

NewBlock(id, th, seq, raw, import, ready) ==
  [id |-> id, th |-> th, seq |-> seq, raw |-> raw, import |-> import, ready |-> ready,
   pointer |-> 5, surface |-> 5, lift |-> "none"]
NewCard(id, block, src) ==
  [id |-> id, block |-> block, src |-> src, merged |-> {}, status |-> "active", used |-> 0,
   pinned |-> FALSE]
WithCard(s, p, c) == [s EXCEPT !.cards[p] = Append(@, c)]
Highest(s) == IF s.blocks = <<>> THEN 0 ELSE Max({b.seq : b \in ToSet(s.blocks)})

AppendTurn(th) ==
  /\ Spend /\ Fresh(1)
  /\ LET added(s) == [s EXCEPT !.tail = Append(@, [id |-> next, th |-> th])]
         last == {m.pos : m \in {x \in rows.messages : x.block = OpenTail}} \cup {0}
     IN Patch("append", added(mem), added(base),
              [rows EXCEPT !.messages = @ \cup {[id |-> next, block |-> OpenTail, pos |-> Max(last) + 1,
                                                 th |-> th]}])
  /\ UNCHANGED <<inverse, extras>>

\* A sealed Block is numbered by how many there are; it takes the oldest turn of its thread.
SealOpenTail(th) ==
  /\ Spend /\ Fresh(1)
  /\ \E i \in DOMAIN mem.tail :
       /\ mem.tail[i].th = th /\ \A j \in 1..(i - 1) : mem.tail[j].th # th
       /\ ApplyMutation("seal",
            [mem EXCEPT !.tail = RemoveAt(@, i),
                        !.blocks = Append(@, NewBlock(next, th, Len(@) + 1, <<mem.tail[i]>>, FALSE, FALSE))])
  /\ UNCHANGED <<inverse, extras>>

\* A Block is summarized and its Event extracted.
CompleteDerivation(i) ==
  /\ Spend /\ Fresh(1) /\ i \in DOMAIN mem.blocks /\ ~mem.blocks[i].ready
  /\ ApplyMutation("derive",
       WithCard([mem EXCEPT !.blocks[i].ready = TRUE], "events",
                NewCard(next, mem.blocks[i].id, Ids(ToSet(mem.blocks[i].raw)))))
  /\ UNCHANGED <<inverse, extras>>

\* Synthetic Blocks are numbered above the highest.
SyntheticBlock(id, import) ==
  NewBlock(id, Own, Highest(mem) + 1, <<[id |-> id + 1, th |-> Own]>>, import, TRUE)

\* An agent's fact cites its conversation: the latest unsealed turn, else the latest Block, else
\* a Block made for it.
WriteAgentEvent(th) ==
  LET turns == SelectSeq(mem.tail, LAMBDA m : m.th = th)
      sealed == SelectSeq(mem.blocks, LAMBDA b : b.th = th)
      stored(card) == ApplyMutation("record", WithCard(mem, "agentEvents", card))
  IN /\ Spend /\ UNCHANGED <<inverse, extras>>
     /\ \/ turns # <<>> /\ Fresh(1) /\ stored(NewCard(next, OpenTail, {Last(turns).id}))
        \/ /\ turns = <<>> /\ sealed # <<>> /\ Fresh(1)
           /\ stored(NewCard(next, Last(sealed).id, Ids(ToSet(Last(sealed).raw))))
        \/ /\ turns = <<>> /\ sealed = <<>> /\ Fresh(3)
           /\ ApplyMutation("record",
                WithCard([mem EXCEPT !.blocks = Append(@, SyntheticBlock(next, FALSE))], "agentEvents",
                         NewCard(next + 2, next, {next + 1})))

CommitImport ==
  /\ Spend /\ Fresh(3) /\ UNCHANGED <<inverse, extras>>
  /\ ApplyMutation("import",
       WithCard([mem EXCEPT !.blocks = Append(@, SyntheticBlock(next, TRUE))], "events",
                NewCard(next + 2, next, {next + 1})))

\* An import and everything that speaks of its cards.
WithoutImport(i) ==
  LET b == mem.blocks[i]
      gone == {c.id : c \in {x \in ToSet(mem.cards["events"]) : x.block = b.id}}
      elements == [k \in DOMAIN mem.elements |-> [mem.elements[k] EXCEPT !.src = @ \ gone]]
      receipts == {[r EXCEPT !.events = @ \ gone] : r \in mem.receipts}
  IN [mem EXCEPT !.blocks = RemoveAt(@, i),
                 !.cards["events"] = SelectSeq(@, LAMBDA c : c.block # b.id),
                 !.elements = SelectSeq(elements, LAMBDA e : e.src # {}),
                 !.receipts = {r \in receipts : r.events # {}}]

UndoExternalMemoryImport(i) ==
  /\ Spend /\ i \in DOMAIN mem.blocks /\ mem.blocks[i].import
  /\ \A c \in AllCards(mem) : c.merged # {} =>
       c.block # mem.blocks[i].id /\ c.src \cap Ids(ToSet(mem.blocks[i].raw)) = {}
  /\ ApplyMutation("undo import", WithoutImport(i))
  /\ UNCHANGED <<next, inverse, extras>>

\* A projection adds a card to an element, an old one or a new one.
CompleteElementProjection(e) ==
  /\ Spend /\ e \in Ids(AllCards(mem)) /\ UNCHANGED <<inverse, extras>>
  /\ \/ \E k \in DOMAIN mem.elements :
          /\ e \notin mem.elements[k].src /\ UNCHANGED next
          /\ ApplyMutation("project", [mem EXCEPT !.elements[k].src = @ \cup {e}])
     \/ /\ mem.elements = <<>> /\ Fresh(1)
        /\ ApplyMutation("project", [mem EXCEPT !.elements = Append(@, [id |-> next, src |-> {e}])])

\* Card d is archived, its evidence joined to card k's; the inverse is kept.
HeldCards == AllCards(mem) \cup AllCards(base) \cup UNION {{x.record : x \in rows.cards[p]} : p \in Pool}
Edited(s, edit) == [s EXCEPT !.cards = [p \in Pool |-> [i \in DOMAIN s.cards[p] |-> edit[s.cards[p][i]]]]]
MergeDuplicateEvents(k, d) ==
  /\ Spend /\ inverse.before = {} /\ UNCHANGED <<next, extras>>
  /\ \E kept, dup \in AllCards(mem) :
       /\ kept.id = k /\ dup.id = d /\ k # d
       /\ kept.status = "active" /\ dup.status = "active" /\ ~dup.pinned
       /\ LET joined == [kept EXCEPT !.src = @ \cup dup.src, !.merged = @ \cup {d} \cup dup.merged]
              archived == [dup EXCEPT !.status = "archived"]
              edit == [c \in HeldCards |-> IF c = kept THEN joined ELSE IF c = dup THEN archived ELSE c]
          IN /\ ApplyMutation("merge", Edited(mem, edit))
             /\ inverse' = [before |-> {kept, dup}, after |-> {joined, archived},
                            elements |-> mem.elements]

\* Only while the cards and what is derived from them are as the review left them.
UndoDuplicateReview ==
  /\ Spend /\ inverse.before # {} /\ inverse.after \subseteq AllCards(mem)
  /\ inverse.elements = mem.elements
  /\ LET edit == [c \in HeldCards |-> IF c \in inverse.after THEN CHOOSE b \in inverse.before : b.id = c.id ELSE c]
     IN ApplyMutation("undo merge", Edited(mem, edit))
  /\ inverse' = [before |-> {}, after |-> {}, elements |-> <<>>] /\ UNCHANGED <<next, extras>>

-----------------------------------------------------------------------------
(* Single rows: pins, uses, pointers *)

Live(c) == c.status \notin {"archived", "forgotten"}
EditRows(edit) ==
  [rows EXCEPT !.cards = [p \in Pool |-> {[x EXCEPT !.record = edit[@]] : x \in rows.cards[p]}]]

PinEvent(e) ==
  /\ SpendExtra /\ e \in Ids(AllCards(mem)) /\ UNCHANGED <<next, inverse>>
  /\ LET edit == [c \in HeldCards |-> IF c.id = e THEN [c EXCEPT !.pinned = ~@] ELSE c]
     IN Patch("pin", Edited(mem, edit), Edited(base, edit), EditRows(edit))

RecordMemoryUse(id, E) ==
  /\ SpendExtra /\ id \notin Ids(mem.receipts) /\ E # {} /\ UNCHANGED <<next, inverse>>
  /\ LET receipt == [id |-> id, events |-> E]
         edit == [c \in HeldCards |-> IF c.id \in E /\ Live(c) THEN [c EXCEPT !.used = @ + 1] ELSE c]
         used(s) == [Edited(s, edit) EXCEPT !.receipts = @ \cup {receipt}]
     IN Patch("use", used(mem), used(base), [EditRows(edit) EXCEPT !.receipts = @ \cup {receipt}])

\* Reading a Block's context moves its pointer, in memory only.
Age(b) == Cardinality({x \in ToSet(mem.blocks) : x.th = b.th /\ x.seq > b.seq})
Decayed(b) == Max({0, 5 - Dropped[Age(b)]})
GetBlockContext ==
  /\ \E b \in ToSet(mem.blocks) : b.ready /\ b.lift = "none" /\ b.pointer # Decayed(b)
  /\ mem' = [mem EXCEPT !.blocks =
               [i \in DOMAIN @ |-> IF @[i].ready /\ @[i].lift = "none"
                                   THEN [@[i] EXCEPT !.pointer = Decayed(mem.blocks[i])] ELSE @[i]]]
  /\ UNCHANGED <<base, rows, next, inverse, refused, ops, extras>>

\* A surface write takes the pending pointers along, in one statement per Block.
SetBlockSurfaceLevels(b, level) ==
  /\ SpendExtra /\ UNCHANGED <<next, inverse, refused>>
  /\ \E x \in ToSet(mem.blocks) : x.id = b /\ x.ready /\ x.surface # level
  /\ mem' = [mem EXCEPT !.blocks =
               [i \in DOMAIN @ |-> IF @[i].id = b THEN [@[i] EXCEPT !.surface = level] ELSE @[i]]]
  /\ base' = [base EXCEPT !.blocks =
                [i \in DOMAIN @ |-> [@[i] EXCEPT !.pointer = mem.blocks[i].pointer,
                                                 !.surface = IF base.blocks[i].id = b THEN level ELSE @]]]
  /\ rows' = [rows EXCEPT !.blocks =
                {LET live == CHOOSE y \in ToSet(mem.blocks) : y.id = x.id
                 IN [x EXCEPT !.pointer = live.pointer, !.surface = IF x.id = b THEN level ELSE @] :
                   x \in rows.blocks}]

\* The process ends; another one opens the namespace.
Reopen ==
  /\ LET read == ReadState(rows)
     IN ValidReferences(read) /\ mem # read /\ mem' = read /\ base' = read
  /\ UNCHANGED <<rows, next, inverse, refused, ops, extras>>

-----------------------------------------------------------------------------

StoreInit ==
  /\ mem = Empty /\ base = Empty /\ rows = NoRows /\ next = 1 /\ refused = {} /\ ops = 0 /\ extras = 0
  /\ inverse = [before |-> {}, after |-> {}, elements |-> <<>>]

StoreNext ==
  \/ \E th \in Thread : AppendTurn(th) \/ SealOpenTail(th) \/ WriteAgentEvent(th)
  \/ \E i \in DOMAIN mem.blocks : CompleteDerivation(i) \/ UndoExternalMemoryImport(i)
  \/ CommitImport
  \/ \E e \in Ids(AllCards(mem)) : CompleteElementProjection(e) \/ PinEvent(e)
  \/ \E k, d \in Ids(AllCards(mem)) : MergeDuplicateEvents(k, d)
  \/ UndoDuplicateReview
  \/ \E r \in Receipt, E \in SUBSET Ids(AllCards(mem)) : RecordMemoryUse(r, E)
  \/ GetBlockContext
  \/ \E b \in Ids(ToSet(mem.blocks)) : SetBlockSurfaceLevels(b, 4)
  \/ Reopen

StoreSpec == StoreInit /\ [][StoreNext]_recordVars

StoreTypeOK ==
  /\ next \in 1..(MaxIds + 1) /\ ops \in 0..MaxOps /\ extras \in 0..MaxExtras
  /\ \A s \in {mem, base} :
       /\ Messages(s) \cup Ids(ToSet(s.blocks)) \cup Ids(AllCards(s)) \subseteq 1..MaxIds
       /\ \A b \in ToSet(s.blocks) : b.seq \in 1..MaxIds /\ b.pointer \in 0..5 /\ b.surface \in 0..5

\* What another process would read is the memory this one last committed, and the memory it
\* works on differs from it by pointers alone: no save leaves a row behind, keeps a stale link
\* or lets two records share a place ("load(...) equals the snapshot", storage-deletion.test.ts;
\* the receipts are excepted, an undone import edits them in memory only).
InNumberOrder(s) ==
  [s EXCEPT !.receipts = {}, !.blocks = BySequence(ToSet(@))]
Unpointed(s) ==
  [s EXCEPT !.blocks = [i \in DOMAIN @ |-> [@[i] EXCEPT !.pointer = 5]]]
ReloadIsSnapshot ==
  /\ ValidReferences(ReadState(rows))
  /\ InNumberOrder(ReadState(rows)) = InNumberOrder(base)
  /\ Unpointed(mem) = Unpointed(base)

\* SQLite refuses no save of a legal operation, whatever was merged, cited and undone before:
\* each statement finds the records it refers to, and none is removed while it is cited
\* (persistSnapshot, the removal order). A Block's number is another matter, see SealsGoThrough.
SavesGoThrough == refused \subseteq {"seal"}

\* Every complete turn can be sealed: "every complete Block is sealed atomically"
\* (docs/ARCHITECTURE.md). Numbers follow the count of Blocks, which an undone import lowers.
SealsGoThrough == "seal" \notin refused
=============================================================================
