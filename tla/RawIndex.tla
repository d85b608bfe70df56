------------------------------- MODULE RawIndex -------------------------------
(***************************************************************************)
(* The full-text index of raw messages (sqlite.ts), in one namespace. An   *)
(* FTS table holds words, a meta table remembers which row is a message's, *)
(* triggers mark messages that changed, and a save with a working FTS      *)
(* module brings the index up to date itself. Every other writer leaves    *)
(* the mark, and the next search repairs what is marked. A message has one *)
(* word, or none; the sets of rows leave the row numbers out.              *)
(***************************************************************************)
EXTENDS Integers, FiniteSets

CONSTANTS Message, Word, Blank,   \* Blank: content without a word to search for
          RawProc,
          MaxWrites               \* bounds the writes

ASSUME RawIndexAssumption == Blank \notin Word /\ MaxWrites \in Nat

VARIABLES message,    \* the table: where a message is and what it says
          fts, meta,  \* the words of its index rows; the row that is known to be its own
          dirty,      \* raw_message_fts_dirty
          tracked,    \* the dirty table and its triggers exist
          complete,   \* backfill_complete of the namespace, "none" without a row; "new" before
                      \* the namespace is saved at all
          fast,       \* rawSearchFtsAvailable of each process, "closed" before it opens
          answer, writes
rawVars == <<message, fts, meta, dirty, tracked, complete, fast, answer, writes>>

Content == Word \cup {Blank}
Absent == [where |-> "absent", content |-> Blank]
Rows == {Absent} \cup [where : {"tail", "block"}, content : Content]
NotAsked == [sealed |-> {}, found |-> {}]

Sealed == {m \in Message : message[m].where = "block"}
Index == [fts |-> fts, meta |-> meta, dirty |-> dirty]

-----------------------------------------------------------------------------
(* The index.                                                              *)

\* syncRawSearchIndex of messages that are there: nothing to do where the known row
\* has the words already.
SyncUpsert(index, upsert, table) ==
  [fts |-> [m \in Message |->
              IF m \notin upsert THEN index.fts[m]
              ELSE (index.fts[m] \ {index.meta[m]}) \cup ({table[m].content} \cap Word)],
   meta |-> [m \in Message |-> IF m \in upsert THEN table[m].content ELSE index.meta[m]],
   dirty |-> index.dirty \ upsert]

\* Of messages that are gone: without a known row, all rows of that id.
SyncDelete(index, gone) ==
  [fts |-> [m \in Message |->
              IF m \notin gone THEN index.fts[m]
              ELSE IF index.meta[m] = Blank THEN {} ELSE index.fts[m] \ {index.meta[m]}],
   meta |-> [m \in Message |-> IF m \in gone THEN Blank ELSE index.meta[m]],
   dirty |-> index.dirty \ gone]

Sync(p, index, upsert, gone, table) ==
  IF fast[p] # "on" THEN index ELSE SyncUpsert(SyncDelete(index, gone), upsert, table)

TriggersIgnoringBlocks(index, new) ==
  [index EXCEPT !.dirty = @ \cup {m \in Message : tracked /\ new[m].content # message[m].content}]

\* The triggers of insert, update and delete on messages.
Triggers(index, new) ==
  [index EXCEPT !.dirty = @ \cup {m \in Message : tracked /\ new[m] # message[m]}]

\* A deleted message takes its meta row along, where foreign keys are on.
Cascade(index, new) ==
  [index EXCEPT !.meta = [m \in Message |-> IF new[m] = Absent THEN Blank ELSE @[m]]]

Rebuilt ==
  LET empty == [fts |-> [m \in Message |-> {}], meta |-> [m \in Message |-> Blank], dirty |-> {}]
  IN SyncUpsert(empty, Sealed, message)

\* ensureRawSearchIndex: everything again, or what is marked.
Ensured(p) ==
  IF complete # "yes" THEN Rebuilt
  ELSE Sync(p, Index, dirty \cap Sealed, dirty \ Sealed, message)

Becomes(index) == fts' = index.fts /\ meta' = index.meta /\ dirty' = index.dirty

-----------------------------------------------------------------------------
(* Writers.                                                                *)

\* enableRawSearchFts: a file that had no marks may have been written without them.
EnableRawSearchFts(p) ==
  /\ fast[p] = "closed"
  /\ \/ /\ fast' = [fast EXCEPT ![p] = "on"]
        /\ tracked' = TRUE
        /\ complete' = IF ~tracked /\ complete = "yes" THEN "no" ELSE complete
     \/ fast' = [fast EXCEPT ![p] = "off"] /\ UNCHANGED <<tracked, complete>>
  /\ UNCHANGED <<message, fts, meta, dirty, answer, writes>>

\* The first save of a namespace says that its index is complete, if there is one.
Write(new, indexed) ==
  /\ writes < MaxWrites /\ writes' = writes + 1
  /\ new # message /\ message' = new
  /\ complete' = IF complete # "new" THEN complete ELSE IF indexed THEN "yes" ELSE "none"
  /\ UNCHANGED <<tracked, fast, answer>>

\* appendUnit: messages of a turn enter the tail, and the index at once.
AppendUnit(p) ==
  /\ fast[p] # "closed" /\ complete # "new"
  /\ \E m \in Message, c \in Content :
       LET new == [message EXCEPT ![m] = [where |-> "tail", content |-> c]] IN
       /\ message[m] = Absent /\ Write(new, FALSE)
       /\ Becomes(Sync(p, Triggers(Index, new), {m}, {}, new))

\* saveChanges: what differs is written and indexed; the deletes come last, and
\* their trigger marks what the index has dropped already.
SaveChanges(p) ==
  /\ fast[p] # "closed"
  /\ \E new \in [Message -> Rows] :
       LET changed == {m \in Message : new[m] # message[m]}
           gone == {m \in changed : new[m] = Absent}
           kept == [m \in Message |-> IF m \in gone THEN message[m] ELSE new[m]]
           synced == Sync(p, Triggers(Index, kept), changed \ gone, gone, new) IN
       /\ Write(new, fast[p] = "on")
       /\ Becomes(Cascade([synced EXCEPT !.dirty = @ \cup {m \in gone : tracked}], new))

\* save without a write set: no row is deleted, every sealed message is indexed.
SaveWhole(p) ==
  /\ fast[p] # "closed"
  /\ \E new \in [Message -> Rows] :
       /\ \A m \in Message : new[m] = Absent => message[m] = Absent
       /\ Write(new, fast[p] = "on")
       /\ Becomes(Sync(p, Triggers(Index, new), {m \in Message : new[m].where = "block"}, {}, new))

\* An older client, or plain SQL with or without foreign keys.
ForeignWrite ==
  \E new \in [Message -> Rows] :
    /\ Write(new, FALSE)
    /\ \/ Becomes(Triggers(Index, new))
       \/ Becomes(Cascade(Triggers(Index, new), new))

-----------------------------------------------------------------------------
(* Searches. Only sealed messages that have the word are ranked.           *)

Answered(w, ids) ==
  answer' = [sealed |-> {m \in Sealed : message[m].content = w},
             found |-> {m \in ids \cap Sealed : message[m].content = w}]

SearchRawMemory(p, w) ==
  /\ fast[p] = "on" /\ complete # "new"
  /\ Becomes(Ensured(p))
  /\ complete' = "yes"
  /\ Answered(w, {m \in Message : w \in fts'[m]})
  /\ UNCHANGED <<message, tracked, fast, writes>>

\* A damaged index is never asked again; every sealed message is ranked instead.
SearchWithoutIndex(p, w) ==
  /\ fast[p] # "closed" /\ fast' = [fast EXCEPT ![p] = "off"]
  /\ Answered(w, Message)
  /\ UNCHANGED <<message, fts, meta, dirty, tracked, complete, writes>>

RebuildRawSearchIndex(p) ==
  /\ fast[p] = "on" /\ complete # "new"
  /\ Becomes(Rebuilt)
  /\ complete' = "yes"
  /\ UNCHANGED <<message, tracked, fast, answer, writes>>

CloseRaw(p) ==
  /\ fast[p] # "closed" /\ fast' = [fast EXCEPT ![p] = "closed"]
  /\ UNCHANGED <<message, fts, meta, dirty, tracked, complete, answer, writes>>

\* An older version may have indexed some of it, in a file without marks.
RawInit ==
  /\ message \in [Message -> Rows]
  /\ meta \in [Message -> Content] /\ fts = [m \in Message |-> {meta[m]} \cap Word]
  /\ \/ complete \in {"none", "no", "yes"}
     \/ complete = "new" /\ \A m \in Message : message[m] = Absent /\ meta[m] = Blank
  /\ dirty = {} /\ tracked = FALSE
  /\ fast = [p \in RawProc |-> "closed"] /\ answer = NotAsked /\ writes = 0

RawNext ==
  \/ ForeignWrite
  \/ \E p \in RawProc :
       \/ EnableRawSearchFts(p) \/ AppendUnit(p) \/ SaveChanges(p) \/ SaveWhole(p)
       \/ RebuildRawSearchIndex(p) \/ CloseRaw(p)
       \/ \E w \in Word : SearchRawMemory(p, w) \/ SearchWithoutIndex(p, w)

RawSpec == RawInit /\ [][RawNext]_rawVars

-----------------------------------------------------------------------------
(* Properties.                                                             *)

\* The index answers like a scan: a search misses no sealed message with its word,
\* whoever wrote it and whatever that writer knew of the index.
SearchMissesNothing == answer.sealed \subseteq answer.found

===============================================================================
