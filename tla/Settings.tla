------------------------------- MODULE Settings -------------------------------
(***************************************************************************)
(* The turns of a Block as a setting of the installation (runtime.ts,      *)
(* store.ts). It is kept in a metadata table, in the host's memory, in the *)
(* record of every namespace and in every open instance of one. A change   *)
(* goes through them one after the other, with other namespaces opening    *)
(* and saving meanwhile; changes queue behind each other. A save is        *)
(* accepted at the record's revision only.                                 *)
(***************************************************************************)
EXTENDS Naturals, Sequences, FiniteSets

CONSTANTS Namespace, Size, DefaultSize,
          Retries,      \* TRUE: a change that succeeds makes good one that failed before
          MaxSets, MaxSaves   \* bound the changes, and the saves, deaths and failures

ASSUME SettingsAssumption ==
  /\ DefaultSize \in Size /\ Retries \in BOOLEAN
  /\ MaxSets \in Nat /\ MaxSaves \in Nat

VARIABLES setting, live,   \* the metadata row; this.blockTurnSize
          row,             \* per namespace: size and revision
          space,           \* the sessions' instances, by namespace
          admin,           \* an admin's own instance of a namespace that had none
          settingsTail,    \* changes that wait
          apply,           \* the change that runs
          accepted,        \* the last change reported success
          up, sets, saves
settingVars == <<setting, live, row, space, admin, settingsTail, apply, accepted, up, sets, saves>>

Closed == [stage |-> "closed", size |-> DefaultSize, revision |-> 0, saves |-> FALSE]
NoAdmin == [namespace |-> "none", memory |-> Closed]
NoApply == [stage |-> "idle", size |-> DefaultSize, done |-> {}, read |-> {}]

Others == <<setting, live, settingsTail, apply, accepted, up, sets>>
UpToDate(n, i) == i.revision = row[n].revision
Bumped(n, size) == [row EXCEPT ![n] = [size |-> size, revision |-> @.revision + 1]]
Happens == saves < MaxSaves /\ saves' = saves + 1

-----------------------------------------------------------------------------
(* Instances of a namespace.                                               *)

\* StrataGate.open asks for the size the host has at the time, and reads the record.
Opening(n) == [stage |-> "opening", size |-> live, revision |-> row[n].revision, saves |-> row[n].size # live]

\* A record of another size is saved with the one asked for, or another save came first.
Opened(n, i) ==
  IF ~i.saves THEN [i EXCEPT !.stage = "open"]
  ELSE IF UpToDate(n, i) THEN [i EXCEPT !.stage = "open", !.saves = FALSE, !.revision = @ + 1]
  ELSE Closed

RowOpened(n, i) == IF i.saves /\ UpToDate(n, i) THEN Bumped(n, i.size) ELSE row

OpenSpace(n) ==
  /\ up /\ space[n].stage = "closed"
  /\ space' = [space EXCEPT ![n] = Opening(n)]
  /\ UNCHANGED <<row, admin, saves>> /\ UNCHANGED Others

\* An instance that failed to open is forgotten; a change that waited for it fails.
SpaceOpened(n) ==
  /\ space[n].stage = "opening"
  /\ space' = [space EXCEPT ![n] = Opened(n, space[n])]
  /\ row' = RowOpened(n, space[n])
  /\ IF space'[n] = Closed /\ apply.stage = "spaces" /\ n \notin apply.done
     THEN /\ accepted' \in {accepted, FALSE}
          /\ apply' = IF accepted' THEN apply ELSE NoApply
     ELSE UNCHANGED <<apply, accepted>>
  /\ UNCHANGED <<setting, live, admin, settingsTail, up, sets, saves>>

\* A save of memory: the record gets the instance's size, too. After a conflict the
\* record is read again, and refused if its size is another.
Saved(n, i) == IF UpToDate(n, i) THEN [i EXCEPT !.revision = @ + 1] ELSE i
Reread(n, i) == IF row[n].size = i.size THEN [i EXCEPT !.revision = row[n].revision] ELSE i
RowSaved(n, i) == IF UpToDate(n, i) THEN Bumped(n, i.size) ELSE row

SpaceSaves(n) ==
  /\ space[n].stage = "open" /\ UpToDate(n, space[n]) /\ Happens
  /\ row' = RowSaved(n, space[n]) /\ space' = [space EXCEPT ![n] = Saved(n, @)]
  /\ UNCHANGED admin /\ UNCHANGED Others

SpaceRereads(n) ==
  /\ space[n].stage = "open" /\ ~UpToDate(n, space[n])
  /\ space' = [space EXCEPT ![n] = Reread(n, @)]
  /\ UNCHANGED <<row, admin, saves>> /\ UNCHANGED Others

\* openAdminMemory uses the sessions' instance, or opens one of its own.
OpenAdminMemory(n) ==
  /\ up /\ admin = NoAdmin /\ space[n].stage = "closed"
  /\ admin' = [namespace |-> n, memory |-> Opening(n)]
  /\ UNCHANGED <<row, space, saves>> /\ UNCHANGED Others

AdminOpened ==
  LET n == admin.namespace IN
  /\ admin.memory.stage = "opening"
  /\ admin' = IF Opened(n, admin.memory) = Closed THEN NoAdmin ELSE [admin EXCEPT !.memory = Opened(n, @)]
  /\ row' = RowOpened(n, admin.memory)
  /\ UNCHANGED <<space, saves>> /\ UNCHANGED Others

AdminSaves ==
  LET n == admin.namespace IN
  /\ admin.memory.stage = "open" /\ Happens
  /\ row' = RowSaved(n, admin.memory) /\ admin' = [admin EXCEPT !.memory = Reread(n, Saved(n, @))]
  /\ UNCHANGED space /\ UNCHANGED Others

CloseAdminMemory ==
  /\ admin.memory.stage = "open" /\ admin' = NoAdmin
  /\ UNCHANGED <<row, space, saves>> /\ UNCHANGED Others

-----------------------------------------------------------------------------
(* A change.                                                               *)

AdminSetBlockTurnSize(v) ==
  /\ up /\ sets < MaxSets /\ sets' = sets + 1
  /\ settingsTail' = Append(settingsTail, v)
  /\ UNCHANGED <<setting, live, row, space, admin, apply, accepted, up, saves>>

StartApply ==
  /\ apply.stage = "idle" /\ settingsTail # <<>>
  /\ apply' = [NoApply EXCEPT !.stage = "flush", !.size = Head(settingsTail)]
  /\ settingsTail' = Tail(settingsTail)
  /\ UNCHANGED <<setting, live, row, space, admin, accepted, up, sets, saves>>

\* After the flush the host and the metadata have the new size in one step.
ApplyBlockTurnSize ==
  /\ apply.stage = "flush"
  /\ live' = apply.size /\ setting' = {apply.size}
  /\ apply' = [apply EXCEPT !.stage = "spaces"]
  /\ UNCHANGED <<row, space, admin, settingsTail, accepted, up, sets, saves>>

\* The flush, or a write of metadata, may fail.
ApplyFails ==
  /\ apply.stage = "flush" /\ Happens
  /\ live' \in {live, apply.size}
  /\ apply' = NoApply /\ accepted' = FALSE
  /\ UNCHANGED <<setting, row, space, admin, settingsTail, up, sets>>

SpacesOpenOnly == {n \in Namespace : space[n].stage = "open"} \ apply.done

\* The loop visits instances that are opening as well, and waits for them.
SpacesToVisit == {n \in Namespace : space[n].stage # "closed"} \ apply.done

\* setBlockTurnSize. What a conflict leaves behind has the new size: restoreSnapshot
\* refuses the former one.
SetSpace(n) ==
  LET i == space[n] IN
  /\ apply.stage = "spaces" /\ n \in SpacesToVisit /\ i.stage = "open"
  /\ \/ /\ i.size = apply.size
        /\ apply' = [apply EXCEPT !.done = @ \cup {n}]
        /\ UNCHANGED <<row, space, accepted>>
     \/ /\ i.size # apply.size /\ UpToDate(n, i)
        /\ row' = Bumped(n, apply.size)
        /\ space' = [space EXCEPT ![n].size = apply.size, ![n].revision = @ + 1]
        /\ apply' = [apply EXCEPT !.done = @ \cup {n}]
        /\ UNCHANGED accepted
     \/ /\ i.size # apply.size /\ ~UpToDate(n, i)
        /\ space' = [space EXCEPT ![n].size = apply.size]
        /\ apply' = NoApply /\ accepted' = FALSE
        /\ UNCHANGED row
  /\ UNCHANGED <<setting, live, admin, settingsTail, up, sets, saves>>

SpacesSet ==
  /\ apply.stage = "spaces" /\ SpacesToVisit = {}
  /\ apply' = [apply EXCEPT !.stage = "rows"]
  /\ UNCHANGED <<setting, live, row, space, admin, settingsTail, accepted, up, sets, saves>>

\* The other namespaces: a record is loaded, and saved if its size is another.
LoadRow(n) ==
  /\ apply.stage = "rows" /\ apply.read = {} /\ n \notin apply.done
  /\ apply' = IF row[n].size = apply.size THEN [apply EXCEPT !.done = @ \cup {n}]
              ELSE [apply EXCEPT !.read = {[namespace |-> n, revision |-> row[n].revision]}]
  /\ UNCHANGED <<setting, live, row, space, admin, settingsTail, accepted, up, sets, saves>>

SaveRow(r) ==
  /\ apply.stage = "rows" /\ r \in apply.read
  /\ IF r.revision = row[r.namespace].revision
     THEN /\ row' = Bumped(r.namespace, apply.size)
          /\ apply' = [apply EXCEPT !.done = @ \cup {r.namespace}, !.read = {}]
          /\ UNCHANGED accepted
     ELSE apply' = NoApply /\ accepted' = FALSE /\ UNCHANGED row
  /\ UNCHANGED <<setting, live, space, admin, settingsTail, up, sets, saves>>

Applied ==
  /\ apply.stage = "rows" /\ apply.done = Namespace
  /\ apply' = NoApply /\ accepted' = (accepted \/ Retries)
  /\ UNCHANGED <<setting, live, row, space, admin, settingsTail, up, sets, saves>>

\* syncConfiguredSettings, before the host serves anyone: the metadata wins over the
\* configuration, and every record gets it.
SyncConfiguredSettings ==
  /\ ~up /\ up' = TRUE
  /\ live' = IF setting = {} THEN DefaultSize ELSE CHOOSE v \in setting : TRUE
  /\ row' = [n \in Namespace |-> IF row[n].size = live' THEN row[n] ELSE [size |-> live', revision |-> row[n].revision + 1]]
  /\ accepted' = TRUE
  /\ UNCHANGED <<setting, space, admin, settingsTail, apply, sets, saves>>

HostDies ==
  /\ up /\ up' = FALSE /\ Happens
  /\ space' = [n \in Namespace |-> Closed] /\ admin' = NoAdmin
  /\ settingsTail' = <<>> /\ apply' = NoApply
  /\ UNCHANGED <<setting, live, row, accepted, sets>>

SettingsInit ==
  /\ setting \in {{}} \cup {{v} : v \in Size}
  /\ live = DefaultSize /\ up = FALSE /\ accepted = FALSE
  /\ row \in [Namespace -> [size : Size, revision : {1}]]
  /\ space = [n \in Namespace |-> Closed] /\ admin = NoAdmin
  /\ settingsTail = <<>> /\ apply = NoApply
  /\ sets = 0 /\ saves = 0

SettingsNext ==
  \/ \E n \in Namespace :
       \/ OpenSpace(n) \/ SpaceOpened(n) \/ SpaceSaves(n) \/ SpaceRereads(n) \/ OpenAdminMemory(n)
       \/ SetSpace(n) \/ LoadRow(n)
  \/ AdminOpened \/ AdminSaves \/ CloseAdminMemory
  \/ \E v \in Size : AdminSetBlockTurnSize(v)
  \/ StartApply \/ ApplyBlockTurnSize \/ ApplyFails \/ SpacesSet \/ Applied
  \/ \E r \in apply.read : SaveRow(r)
  \/ SyncConfiguredSettings \/ HostDies
SettingsSpec == SettingsInit /\ [][SettingsNext]_settingVars

-----------------------------------------------------------------------------
(* Properties.                                                             *)

\* A size that was accepted is everywhere: in the metadata, in every record, in every
\* instance of a session, whatever was opening or saving while it was applied. Once a
\* change has failed, this is promised again after the next start only.
SettingsReachEverySpace ==
  up /\ accepted /\ apply.stage = "idle" /\ settingsTail = <<>> =>
    /\ setting \subseteq {live}
    /\ \A n \in Namespace : row[n].size = live
    /\ \A n \in Namespace : space[n].stage # "closed" => space[n].size = live

===============================================================================
