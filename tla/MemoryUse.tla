------------------------------- MODULE MemoryUse -------------------------------
(***************************************************************************)
(* Requests on memories and Blocks that several StrataGate instances of one *)
(* namespace serve at once (packages/core/src/store.ts: recordMemoryUse,    *)
(* expandBlock, setBlockSurfaceLevels, withMutationQueue, applyMutation;    *)
(* the host's own instance and the one an admin request opens). An instance *)
(* works on its own copy of the memory, runs its mutations one at a time    *)
(* and commits against the revision it last saw. One Block, one pointer.    *)
(***************************************************************************)
EXTENDS Integers, FiniteSets, Sequences

CONSTANTS
  Instance, Call,
  Memory,     \* what a use may name
  UseReceipt,
  MaxFaults   \* bound: commits the storage fails

ASSUME UseAssumption == MaxFaults \in Nat

VARIABLES
  db,       \* the stored revision and records
  view,     \* instance -> its copy of them
  moved,    \* instances whose pointer moved since their last commit
  calls,    \* call -> what it asks, of whom, and how far it is
  line,     \* instance -> calls waiting for its mutation queue; the head holds it
  faults

useVars == <<db, view, moved, calls, line, faults>>

Levels == 0..5
Use(receipt, refs) == [kind |-> "use", receipt |-> receipt, refs |-> refs, by |-> "none", level |-> 0]
Lift(by, level) == [kind |-> "lift", receipt |-> "none", refs |-> {}, by |-> by, level |-> level]
Surface(level) == [kind |-> "surface", receipt |-> "none", refs |-> {}, by |-> "none", level |-> level]
Asked ==
  {Use(r, S) : r \in UseReceipt, S \in SUBSET Memory \ {{}}}
  \cup {Lift(by, level) : by \in {"user", "agent"}, level \in {2, 5}} \cup {Surface(4)}

At(c) == calls[c].at
Ask(c) == calls[c].ask
Heads(i) == line[i] # <<>> /\ calls[Head(line[i])].phase = "waiting"
Holder(i) == Head(line[i])

Named(s, receipt) == {r \in s.receipts : r.id = receipt}
Recorded(s, a) == Named(s, a.receipt) # {}
SameContent(s, a) == \A r \in Named(s, a.receipt) : r.refs = a.refs
Phase(c, phase) == calls' = [calls EXCEPT ![c].phase = phase]

\* What the operations do to a copy of the records.
Counted(s, a) ==
  [s EXCEPT !.used = [m \in Memory |-> @[m] + (IF m \in a.refs THEN 1 ELSE 0)],
            !.receipts = @ \cup {[id |-> a.receipt, refs |-> a.refs]}]
Lifted(s, a) == [s EXCEPT !.level = a.level, !.by = a.by]
Done(s, a) ==
  IF a.kind = "use" THEN Counted(s, a)
  ELSE IF a.kind = "lift" THEN Lifted(s, a) ELSE [s EXCEPT !.surface = a.level]

-----------------------------------------------------------------------------

\* A request arrives. A use whose receipt is known already answers at once.
Arrive(c, i, a) ==
  /\ calls[c].phase = "none" /\ UNCHANGED <<db, view, moved, faults>>
  /\ LET known == a.kind = "use" /\ Recorded(view[i], a)
         phase == IF ~known THEN "waiting" ELSE IF SameContent(view[i], a) THEN "answered" ELSE "failed"
     IN /\ calls' = [calls EXCEPT ![c] = [at |-> i, ask |-> a, phase |-> phase]]
        /\ line' = IF known THEN line ELSE [line EXCEPT ![i] = Append(@, c)]

Leave(i, c, phase) ==
  /\ calls' = [calls EXCEPT ![c].phase = phase]
  /\ line' = [line EXCEPT ![i] = Tail(@)]

\* Faulty variant: what was known when the request arrived is not looked at again.
ReceiptsUnseen(i, a) ==
  \/ a.kind = "lift" /\ a.by = "agent" /\ view[i].by = "user"
  \/ a.kind = "surface" /\ view[i].surface = a.level

\* In the queue: an earlier request may have recorded the receipt, or a user chosen a level the
\* agent's reading must not replace; a surface level that is there already is not written.
Settled(i, a) ==
  \/ a.kind = "use" /\ Recorded(view[i], a)
  \/ a.kind = "lift" /\ a.by = "agent" /\ view[i].by = "user"
  \/ a.kind = "surface" /\ view[i].surface = a.level

Skip(i) ==
  /\ Heads(i) /\ Settled(i, Ask(Holder(i))) /\ UNCHANGED <<db, view, moved, faults>>
  /\ Leave(i, Holder(i),
           IF Ask(Holder(i)).kind = "use" /\ ~SameContent(view[i], Ask(Holder(i))) THEN "failed" ELSE "answered")

\* Faulty variant: a commit does not look at the revision.
AnyRevision(i) == TRUE
UpToDate(i) == view[i].rev = db.rev

\* The change as the storage sees it: the record's own row, or, with pointers pending, every
\* record of the instance's copy.
Written(i, a) ==
  LET single == IF a.kind = "use" /\ Recorded(db, a) THEN db ELSE Done(db, a)
      whole == Done(view[i], a)
  IN [IF i \in moved /\ a.kind # "surface" THEN whole
      ELSE IF a.kind = "surface" THEN [single EXCEPT !.level = view[i].level] ELSE single
      EXCEPT !.rev = view[i].rev + 1]

Commit(i) ==
  /\ Heads(i) /\ ~Settled(i, Ask(Holder(i))) /\ UpToDate(i)
  /\ db' = Written(i, Ask(Holder(i)))
  /\ Phase(Holder(i), IF i \in moved THEN "swept" ELSE "committed") /\ UNCHANGED <<view, moved, line, faults>>

\* The copy follows when the storage's promise settles; the next request may go ahead.
Followed(i) == [Done(view[i], Ask(Holder(i))) EXCEPT !.rev = view[i].rev + 1]

Resume(i) ==
  /\ line[i] # <<>> /\ calls[Holder(i)].phase \in {"committed", "swept"}
  /\ view' = [view EXCEPT ![i] = Followed(i)]
  /\ moved' = IF calls[Holder(i)].phase = "swept" \/ Ask(Holder(i)).kind = "lift" THEN moved \ {i} ELSE moved
  /\ Leave(i, Holder(i), "answered") /\ UNCHANGED <<db, faults>>

\* Another instance's commit, or the disk, refuses it: the copy stays as it was.
Refuse(i) ==
  /\ Heads(i) /\ ~Settled(i, Ask(Holder(i)))
  /\ \/ ~UpToDate(i) /\ UNCHANGED faults
     \/ faults < MaxFaults /\ faults' = faults + 1
  /\ Leave(i, Holder(i), "failed") /\ UNCHANGED <<db, view, moved>>

\* Reading the context of a Block moves its pointer in the copy, whoever holds the queue.
GetContext(i) ==
  /\ i \notin moved /\ view[i].level > 0
  /\ view' = [view EXCEPT ![i].level = @ - 1] /\ moved' = moved \cup {i}
  /\ UNCHANGED <<db, calls, line, faults>>

\* The host reads the durable head after a conflict, in its place in the queue.
ReloadFromStorage(i) ==
  /\ line[i] = <<>> /\ ~UpToDate(i)
  /\ view' = [view EXCEPT ![i] = db] /\ moved' = moved \ {i}
  /\ UNCHANGED <<db, calls, line, faults>>

-----------------------------------------------------------------------------

Fresh0 == [rev |-> 1, used |-> [m \in Memory |-> 0], receipts |-> {}, level |-> 5, by |-> "none", surface |-> 5]
UseInit ==
  /\ db = Fresh0 /\ view = [i \in Instance |-> Fresh0] /\ moved = {} /\ faults = 0
  /\ calls = [c \in Call |-> [at |-> "nowhere", ask |-> Surface(4), phase |-> "none"]]
  /\ line = [i \in Instance |-> <<>>]

UseNext ==
  \/ \E c \in Call, i \in Instance, a \in Asked : Arrive(c, i, a)
  \/ \E i \in Instance :
       Skip(i) \/ Commit(i) \/ Resume(i) \/ Refuse(i) \/ GetContext(i) \/ ReloadFromStorage(i)

UseSpec == UseInit /\ [][UseNext]_useVars

RecordsOK(s) ==
  /\ s.rev \in 1..(Cardinality(Call) + 1) /\ s.used \in [Memory -> 0..Cardinality(Call)]
  /\ \A r \in s.receipts : r.id \in UseReceipt /\ r.refs \subseteq Memory
  /\ s.level \in Levels /\ s.surface \in Levels /\ s.by \in {"none", "user", "agent"}
UseTypeOK ==
  /\ RecordsOK(db) /\ \A i \in Instance : RecordsOK(view[i])
  /\ moved \subseteq Instance /\ faults \in 0..MaxFaults

\* A memory has been used as often as receipts name it: repeating a request, at once, after a
\* failure or through another instance, reinforces nothing twice ("Only the first one may
\* reinforce the memories", recordMemoryUse).
ReceiptCountsOnce ==
  \A m \in Memory : db.used[m] = Cardinality({r \in db.receipts : m \in r.refs})

\* An instance that is at the stored revision has the stored memory, the pointers its reads
\* moved excepted: patching single rows leaves the copy what a reload would make it.
SameRevisionSameMemory ==
  \A i \in Instance : view[i].rev = db.rev => [view[i] EXCEPT !.level = 0] = [db EXCEPT !.level = 0]
=============================================================================
