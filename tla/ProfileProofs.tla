---------------------------- MODULE ProfileProofs ----------------------------
(***************************************************************************)
(* Proofs about what a user keeps beside the memory, for any fields, texts, *)
(* hosts, spaces and files: the persistent profile (what the tables promise *)
(* their writers, and what the page promises its user), the daily notes     *)
(* (DailyNotes), and the turns of a Block as a setting (Settings).          *)
(***************************************************************************)
EXTENDS Profile, Settings, DailyNotes, SequenceTheorems, FiniteSetTheorems, TLAPS

Highest(S, i) == i \in S /\ \A j \in S : j <= i

TableTypes == profile \in [Field -> Text] /\ changes \in Seq(Change)

\* The last change of a field holds its text.
LastIsCurrent ==
  \A f \in Field : ChangesOf(f) = {} \/ \E i : Highest(ChangesOf(f), i) /\ changes[i].text = profile[f]

\* The last edit of a field says what its text says.
LastEditSpeaks ==
  \A f \in Field : \/ Edits(f) = {} /\ profile[f].says = "nothing"
                   \/ \E i : Highest(Edits(f), i) /\ changes[i].text.says = profile[f].says

TablesInv == TableTypes /\ LastIsCurrent /\ LastEditSpeaks

\* A profile as it was read: each revision is a change of its field, with the text read.
Stored(s) ==
  \A f \in Field : s.rev[f] = 0 \/ (s.rev[f] \in ChangesOf(f) /\ changes[s.rev[f]].text = s.text[f])
Newer(s) == shown # Nothing => \A f \in Field : shown.rev[f] <= s.rev[f]
Seen(e) == shown # Nothing /\ e.rev <= shown.rev[e.field]

\* One request at a time, and each draft and each result under its field.
PageShape ==
  /\ mode = "closed" => saving = Nothing
  /\ mode = "closed" \/ saving # Nothing => gets = {}
  /\ saving # Nothing => editing = saving.of
  /\ \A g \in gets : gets = {g}
  /\ editing # Nothing => drafts[editing.field] = editing
  /\ \A f \in Field : /\ drafts[f] # Nothing => drafts[f].field = f
                      /\ result[f] # Nothing => result[f].of.field = f

\* Whatever is to be shown next was stored, and is not older than what is shown.
AnswersAreStored ==
  /\ shown # Nothing => Stored(shown)
  /\ \A g \in gets : g.snap # Nothing => Stored(g.snap) /\ Newer(g.snap)
  /\ saving # Nothing => (saving.reply = "ok" => /\ saving.snap \in Snap /\ Stored(saving.snap) /\ Newer(saving.snap)
                                                /\ StoredSince(saving.of))

\* Nobody edits what was not shown.
EditsAreSeen ==
  /\ editing # Nothing => Seen(editing)
  /\ \A f \in Field : drafts[f] # Nothing => Seen(drafts[f])
  /\ \A s \in strays : Seen(s)

\* A check asks for the save of which nothing is known, and the draft is still based as it was.
ChecksAreAsked ==
  /\ \A g \in gets : g.use = "check" => g.of \in Edit /\ result[g.of.field] = ResultOf("unknown", g.of)
  /\ \A f \in Field : Unknown(f) /\ drafts[f] # Nothing => drafts[f].rev = result[f].of.rev

PageInv == PageShape /\ AnswersAreStored /\ EditsAreSeen /\ ChecksAreAsked

ProfileInv == ProfileTypeOK /\ TablesInv /\ PageInv

\* What was written stays written.
Grows ==
  /\ Len(changes) <= Len(changes')
  /\ \A i \in 1..Len(changes) : changes'[i] = changes[i]

-----------------------------------------------------------------------------
(* The tables *)

LEMMA MaxIsHighest ==
  ASSUME NEW S \in SUBSET Nat, NEW i, Highest(S, i)
  PROVE  Max(S) = i
<1>1. \A x \in S : (\A y \in S : x >= y) => x = i
  BY DEF Highest
<1>2. i \in S /\ \A y \in S : i >= y
  BY DEF Highest
<1> QED BY <1>1, <1>2 DEF Max

\* The revision of a field is its last change, or zero.
LEMMA RevisionIsLast ==
  ASSUME TableTypes, LastIsCurrent, NEW f \in Field
  PROVE  /\ Revision(f) \in Nat
         /\ \A i \in ChangesOf(f) : i <= Revision(f)
         /\ ChangesOf(f) = {} => Revision(f) = 0
         /\ Revision(f) # 0 => Revision(f) \in ChangesOf(f) /\ changes[Revision(f)].text = profile[f]
<1>1. ChangesOf(f) \subseteq 1..Len(changes) /\ Len(changes) \in Nat
  BY DEF ChangesOf, TableTypes
<1>2. CASE ChangesOf(f) = {}
  <2>1. Highest(ChangesOf(f) \cup {0}, 0)
    BY <1>2 DEF Highest
  <2> QED BY <2>1, <1>1, <1>2, MaxIsHighest DEF Revision
<1>3. CASE ChangesOf(f) # {}
  <2>1. PICK i : Highest(ChangesOf(f), i) /\ changes[i].text = profile[f]
    BY <1>3 DEF LastIsCurrent
  <2>2. Highest(ChangesOf(f) \cup {0}, i)
    BY <1>1, <2>1 DEF Highest
  <2>3. ChangesOf(f) \cup {0} \in SUBSET Nat
    BY <1>1
  <2>4. Revision(f) = i
    BY <2>2, <2>3, MaxIsHighest DEF Revision
  <2> QED BY <2>1, <2>4, <1>1, <1>3 DEF Highest
<1> QED BY <1>2, <1>3

\* An edit becomes the last change and the last edit of its field, and of no other.
LEMMA EditsKeepTables ==
  ASSUME TablesInv, NEW f \in Field, NEW t \in Text, NEW by \in {"page", "tool"}, UpdateProfileField(f, t, by)
  PROVE  /\ TablesInv' /\ Grows
         /\ Len(changes') = Len(changes) + 1 /\ changes'[Len(changes')] = ChangeOf(f, t, by)
<1> DEFINE c == ChangeOf(f, t, by)
           n == Len(changes) + 1
<1>1. c \in Change /\ c.field = f /\ c.text = t /\ c.by = by
  BY DEF Change, ChangeOf
<1>2. profile' = [profile EXCEPT ![f] = t] /\ changes' = Append(changes, c)
  BY DEF UpdateProfileField
<1>3. changes \in Seq(Change) /\ profile \in [Field -> Text] /\ Len(changes) \in Nat
  BY DEF TablesInv, TableTypes
<1> HIDE DEF c
<1>4. /\ changes' \in Seq(Change) /\ Len(changes') = n /\ changes'[n] = c
      /\ \A i \in 1..Len(changes) : changes'[i] = changes[i]
  BY <1>1, <1>2, <1>3, AppendProperties
<1>5. DOMAIN changes = 1..Len(changes) /\ DOMAIN changes' = 1..n
  BY <1>3, <1>4
<1>6. TableTypes' /\ Grows
  BY <1>2, <1>3, <1>4 DEF TableTypes, Grows
<1>7. /\ ChangesOf(f)' = ChangesOf(f) \cup {n} /\ Edits(f)' = Edits(f) \cup {n}
      /\ \A g \in Field \ {f} : ChangesOf(g)' = ChangesOf(g) /\ Edits(g)' = Edits(g)
  <2>1. \A g \in Field : ChangesOf(g)' = ChangesOf(g) \cup (IF g = f THEN {n} ELSE {})
    BY <1>1, <1>3, <1>4, <1>5 DEF ChangesOf
  <2>2. \A g \in Field : Edits(g)' = Edits(g) \cup (IF g = f THEN {n} ELSE {})
    BY <2>1, <1>1, <1>3, <1>4, <1>5 DEF Edits, ChangesOf
  <2> QED BY <2>1, <2>2
<1>8. \A g \in Field : ChangesOf(g) \subseteq 1..Len(changes) /\ Edits(g) \subseteq 1..Len(changes)
  BY <1>5 DEF ChangesOf, Edits
<1>9. LastIsCurrent'
  <2> SUFFICES ASSUME NEW g \in Field
               PROVE  ChangesOf(g)' = {} \/ \E i : Highest(ChangesOf(g)', i) /\ changes'[i].text = profile'[g]
    BY DEF LastIsCurrent
  <2>1. CASE g = f
    <3>1. Highest(ChangesOf(g)', n)
      BY <2>1, <1>7, <1>8, <1>3 DEF Highest
    <3> QED BY <3>1, <2>1, <1>1, <1>2, <1>3, <1>4
  <2>2. CASE g # f
    BY <2>2, <1>2, <1>3, <1>4, <1>7, <1>8 DEF TablesInv, LastIsCurrent, Highest
  <2> QED BY <2>1, <2>2
<1>10. LastEditSpeaks'
  <2> SUFFICES ASSUME NEW g \in Field
               PROVE  \/ Edits(g)' = {} /\ profile'[g].says = "nothing"
                      \/ \E i : Highest(Edits(g)', i) /\ changes'[i].text.says = profile'[g].says
    BY DEF LastEditSpeaks
  <2>1. CASE g = f
    <3>1. Highest(Edits(g)', n)
      BY <2>1, <1>7, <1>8, <1>3 DEF Highest
    <3> QED BY <3>1, <2>1, <1>1, <1>2, <1>3, <1>4
  <2>2. CASE g # f
    BY <2>2, <1>2, <1>3, <1>4, <1>7, <1>8 DEF TablesInv, LastEditSpeaks, Highest
  <2> QED BY <2>1, <2>2
<1> QED BY <1>4, <1>6, <1>9, <1>10 DEF TablesInv, c

LEMMA EditsComeLast ==
  ASSUME TablesInv, NEW f \in Field, NEW t \in Text, NEW by \in {"page", "tool"}, UpdateProfileField(f, t, by)
  PROVE  changes'[Len(changes')].field = f /\ changes'[Len(changes')].by = by
<1>1. changes'[Len(changes')] = ChangeOf(f, t, by)
  BY EditsKeepTables
<1> QED BY <1>1 DEF ChangeOf

\* Maintenance writes each field that it changed once, after everything else; it edits nothing.
LEMMA MaintenanceKeepsTables ==
  ASSUME TablesInv, NEW h, SameInput(h), NEW q \in Tidied(run[h]), NEW o \in Orders(Rewritten(q)),
         profile' = q, changes' = changes \o [i \in DOMAIN o |-> ChangeOf(o[i], q[o[i]], "maintenance")]
  PROVE  /\ TablesInv' /\ Grows
         /\ \A i \in 1..Len(changes') : i > Len(changes) => changes'[i].by = "maintenance"
<1> DEFINE n == Cardinality(Rewritten(q))
           e == [i \in 1..n |-> ChangeOf(o[i], q[o[i]], "maintenance")]
           m == Len(changes)
<1>1. changes \in Seq(Change) /\ profile \in [Field -> Text] /\ m \in Nat /\ DOMAIN changes = 1..m
  BY DEF TablesInv, TableTypes
<1>2. q \in [Field -> Text] /\ \A g \in Field : q[g].says = profile[g].says
  BY DEF Tidied, SameInput
<1>3. Rewritten(q) \subseteq Field /\ n \in Nat
  BY ProfileAssumption, FS_Subset, FS_CardinalityType DEF Rewritten
<1>4. o \in [1..n -> Rewritten(q)] /\ DOMAIN o = 1..n
  BY DEF Orders
<1>5. e \in Seq(Change) /\ Len(e) = n /\ changes' = changes \o e
  <2>1. \A i \in 1..n : ChangeOf(o[i], q[o[i]], "maintenance") \in Change
    BY <1>2, <1>3, <1>4 DEF ChangeOf, Change
  <2> QED BY <2>1, <1>3, <1>4
<1>6. \A i \in 1..n : /\ o[i] \in Field
                      /\ e[i].field = o[i] /\ e[i].text = q[o[i]] /\ e[i].by = "maintenance"
  BY <1>3, <1>4 DEF ChangeOf
<1> HIDE DEF e
<1>7. /\ changes' \in Seq(Change) /\ Len(changes') = m + n
      /\ \A i \in 1..m : changes'[i] = changes[i]
      /\ \A i \in 1..n : changes'[m + i] = e[i]
  <2>1. \A i \in 1..(m + n) : changes'[i] = IF i <= m THEN changes[i] ELSE e[i - m]
    <3>1. \A i \in 1..(Len(changes) + Len(e)) :
             (changes \o e)[i] = IF i <= Len(changes) THEN changes[i] ELSE e[i - Len(changes)]
      BY <1>1, <1>5, ConcatProperties
    <3> QED BY <3>1, <1>5
  <2>2. changes' \in Seq(Change) /\ Len(changes') = m + n
    BY <1>1, <1>5, ConcatProperties
  <2> QED BY SMTT(30), <2>1, <2>2, <1>1, <1>3
<1>8. DOMAIN changes' = 1..(m + n)
  BY <1>7
<1>9. \A i \in (m + 1)..(m + n) : i - m \in 1..n /\ changes'[i] = e[i - m]
  <2> TAKE i \in (m + 1)..(m + n)
  <2>1. i - m \in 1..n /\ m + (i - m) = i
    BY <1>1, <1>3
  <2> QED BY <2>1, <1>7
<1>10. TableTypes' /\ Grows
  BY <1>1, <1>2, <1>3, <1>7 DEF TableTypes, Grows
<1>11. \A i \in 1..Len(changes') : i > m => changes'[i].by = "maintenance"
  BY SMTT(30), <1>1, <1>3, <1>6, <1>7, <1>9
<1>12. \A g \in Field : Edits(g)' = Edits(g)
  <2> TAKE g \in Field
  <2>1. Edits(g)' = {i \in 1..(m + n) : changes'[i].field = g /\ changes'[i].by # "maintenance"}
    BY <1>8 DEF Edits, ChangesOf
  <2>2. Edits(g) = {i \in 1..m : changes[i].field = g /\ changes[i].by # "maintenance"}
    BY <1>1 DEF Edits, ChangesOf
  <2>3. \A i \in 1..(m + n) : i \in 1..m \/ i > m
    BY <1>1, <1>3
  <2>4. \A i \in 1..m : i \in 1..(m + n)
    BY <1>1, <1>3
  <2>5. Edits(g)' \subseteq Edits(g)
    BY <2>1, <2>2, <2>3, <1>7, <1>11
  <2>6. Edits(g) \subseteq Edits(g)'
    BY <2>1, <2>2, <2>4, <1>7
  <2> QED BY <2>5, <2>6
<1>13. LastEditSpeaks'
  <2>1. \A g \in Field : Edits(g) \subseteq 1..m
    BY <1>1 DEF Edits, ChangesOf
  <2> QED BY ZenonT(60), <2>1, <1>2, <1>7, <1>12 DEF TablesInv, LastEditSpeaks, Highest
<1>14. LastIsCurrent'
  <2> SUFFICES ASSUME NEW g \in Field
               PROVE  ChangesOf(g)' = {} \/ \E i : Highest(ChangesOf(g)', i) /\ changes'[i].text = profile'[g]
    BY DEF LastIsCurrent
  <2>1. ChangesOf(g) \subseteq 1..m
    BY <1>1 DEF ChangesOf
  <2>2. CASE g \in Rewritten(q)
    <3>1. PICK k \in 1..n : \A j \in 1..n : o[j] = g <=> j = k
      BY <2>2 DEF Orders
    <3>2. m + k \in ChangesOf(g)'
      <4>1. m + k \in 1..(m + n)
        BY <1>1, <1>3
      <4>2. changes'[m + k].field = g
        BY ZenonT(60), <3>1, <1>6, <1>7
      <4> QED BY <4>1, <4>2, <1>8 DEF ChangesOf
    <3>3. ASSUME NEW i \in ChangesOf(g)' PROVE i <= m + k
      <4>1. i \in 1..(m + n) /\ changes'[i].field = g
        BY <1>8 DEF ChangesOf
      <4>2. CASE i > m
        <5>1. i \in (m + 1)..(m + n)
          BY <4>1, <4>2, <1>1, <1>3
        <5>2. i - m \in 1..n /\ o[i - m] = g
          BY <5>1, <4>1, <1>6, <1>9
        <5>3. i - m = k
          BY <5>2, <3>1
        <5> QED BY <5>1, <5>3, <1>1, <1>3
      <4> QED BY <4>1, <4>2, <1>1, <1>3
    <3>4. changes'[m + k].text = profile'[g]
      BY <3>1, <1>6, <1>7
    <3> QED BY <3>2, <3>3, <3>4 DEF Highest
  <2>3. CASE g \notin Rewritten(q)
    <3>1. ChangesOf(g)' = ChangesOf(g)
      <4>1. \A i \in (m + 1)..(m + n) : changes'[i].field # g
        BY ZenonT(60), <2>3, <1>4, <1>6, <1>9
      <4> QED BY <4>1, <1>1, <1>3, <1>7, <1>8 DEF ChangesOf
    <3>2. profile'[g] = profile[g]
      BY <2>3, <1>2 DEF Rewritten
    <3> QED BY <3>1, <3>2, <2>1, <1>7 DEF TablesInv, LastIsCurrent, Highest
  <2> QED BY <2>2, <2>3
<1> QED BY <1>10, <1>11, <1>13, <1>14 DEF TablesInv

\* Every step leaves the tables alone, is an edit, or is a maintenance that nobody came before.
LEMMA StepsKeepTables ==
  ASSUME TablesInv, [ProfileNext]_profileVars,
         editing \in Edit \cup {Nothing}, saving \in Saving \cup {Nothing}, strays \subseteq Edit
  PROVE  TablesInv' /\ Grows
<1>1. CASE UNCHANGED <<profile, changes>>
  <2>1. \A g \in Field : ChangesOf(g)' = ChangesOf(g) /\ Edits(g)' = Edits(g)
    BY <1>1 DEF ChangesOf, Edits
  <2>2. Len(changes) \in Nat
    BY DEF TablesInv, TableTypes
  <2> QED BY <1>1, <2>1, <2>2 DEF TablesInv, TableTypes, LastIsCurrent, LastEditSpeaks, Grows
<1>2. ASSUME NEW f \in Field, NEW t \in Text, NEW by \in {"page", "tool"}, UpdateProfileField(f, t, by)
      PROVE  TablesInv' /\ Grows
  BY <1>2, EditsKeepTables
<1>3. ASSUME NEW f \in Field, NEW t \in Written, ToolUpdates(f, t) PROVE TablesInv' /\ Grows
  BY <1>2, <1>3 DEF ToolUpdates, Written
<1>4. ASSUME NEW h \in ProfileHost, ApplyMaintenance(h) PROVE TablesInv' /\ Grows
  <2>1. CASE UNCHANGED tableVars
    BY <2>1, <1>1 DEF tableVars
  <2>2. CASE SameInput(h)
    <3>1. PICK q \in Tidied(run[h]) :
             /\ profile' = q
             /\ \E o \in Orders(Rewritten(q)) :
                  changes' = changes \o [i \in DOMAIN o |-> ChangeOf(o[i], q[o[i]], "maintenance")]
      BY <1>4, <2>2 DEF ApplyMaintenance
    <3> QED BY <2>2, <3>1, MaintenanceKeepsTables
  <2> QED BY <2>1, <2>2, <1>4 DEF ApplyMaintenance
<1>5. ASSUME ServerSaves PROVE TablesInv' /\ Grows
  <2>1. saving.of.field \in Field /\ saving.of.draft \in Text
    BY <1>5 DEF ServerSaves, Busy, Saving, Edit
  <2>2. CASE UpdateProfileField(saving.of.field, saving.of.draft, "page")
    BY <2>1, <2>2, <1>2
  <2> QED BY <2>2, <1>1, <1>5 DEF ServerSaves, tableVars
<1>6. ASSUME NEW s \in strays, StrayArrives(s) PROVE TablesInv' /\ Grows
  <2>1. s.field \in Field /\ s.draft \in Text
    BY DEF Edit
  <2>2. CASE UpdateProfileField(s.field, s.draft, "page")
    BY <2>1, <2>2, <1>2
  <2> QED BY <2>2, <1>1, <1>6 DEF StrayArrives, tableVars
<1> QED
  BY <1>1, <1>3, <1>4, <1>5, <1>6
  DEF ProfileNext, StartMaintenance, MaintenanceFails, HostStops, PauseEnds, OpenPage, ClosePage, HidePage, ShowPage, Poll,
      ServerReads, ReadFails, ReadArrives, BeginEdit, Type, CancelEdit, ReloadField, CheckSave, SaveEdit, SaveAnswered, SaveIsLost,
      profileVars, tableVars
-----------------------------------------------------------------------------
(* Types *)

LEMMA DraftsKeepType ==
  ASSUME ProfileTypeOK, NEW e \in Edit \cup {Nothing}, SetEditing(e)
  PROVE  editing' \in Edit \cup {Nothing} /\ drafts' \in [Field -> Edit \cup {Nothing}]
BY NothingIsApart DEF ProfileTypeOK, SetEditing, Edit

\* The revisions of a snapshot are the last changes of their fields.
LEMMA SnapshotsAreSnaps ==
  TablesInv => /\ Snapshot \in Snap /\ Stored(Snapshot)
               /\ \A f \in Field : \A i \in ChangesOf(f) : i <= Snapshot.rev[f]
<1> SUFFICES ASSUME TablesInv
             PROVE  /\ Snapshot \in Snap /\ Stored(Snapshot)
                    /\ \A f \in Field : \A i \in ChangesOf(f) : i <= Snapshot.rev[f]
  OBVIOUS
<1>1. \A f \in Field : /\ Revision(f) \in Nat /\ \A i \in ChangesOf(f) : i <= Revision(f)
                       /\ Revision(f) # 0 => Revision(f) \in ChangesOf(f) /\ changes[Revision(f)].text = profile[f]
  BY RevisionIsLast DEF TablesInv
<1>2. profile \in [Field -> Text]
  BY DEF TablesInv, TableTypes
<1> QED BY <1>1, <1>2 DEF Snapshot, Snap, Stored

LEMMA SnapshotsThen ==
  ASSUME TablesInv'
  PROVE  /\ Snapshot' \in Snap /\ Stored(Snapshot)'
         /\ \A f \in Field : \A i \in ChangesOf(f)' : i <= Snapshot'.rev[f]
<1>1. (TablesInv => /\ Snapshot \in Snap /\ Stored(Snapshot)
                    /\ \A f \in Field : \A i \in ChangesOf(f) : i <= Snapshot.rev[f])'
  BY SnapshotsAreSnaps, PTL
<1> QED BY <1>1

LEMMA EditsOfSnaps ==
  ASSUME NEW s \in Snap, NEW f \in Field
  PROVE  EditOf(f, s) \in Edit /\ EditOf(f, s).field = f /\ EditOf(f, s).rev = s.rev[f]
BY DEF EditOf, Snap, Edit

LEMMA ReadsAreTyped ==
  ASSUME NEW use \in {"poll", "reload", "check"}, NEW e \in Edit \cup {Nothing}, StartRead(use, e)
  PROVE  gets' \subseteq Get /\ gets' = {Read(use, e)}
BY DEF StartRead, ReadsLeft, Read, Get

\* The steps of the tables and of the hosts.
LEMMA TableTypesKept ==
  ASSUME ProfileTypeOK, TablesInv, TablesInv',
         \/ \E f \in Field, t \in Written : ToolUpdates(f, t)
         \/ \E h \in ProfileHost : StartMaintenance(h) \/ ApplyMaintenance(h) \/ MaintenanceFails(h) \/ HostStops(h)
         \/ PauseEnds
         \/ \E s \in strays : StrayArrives(s)
  PROVE  ProfileTypeOK'
<1> USE DEF TablesInv, TableTypes
<1>1. profile' \in [Field -> Text] /\ changes' \in Seq(Change)
  OBVIOUS
<1>2. ASSUME NEW f, NEW t, NEW by, UpdateProfileField(f, t, by)
      PROVE  basis' \in BOOLEAN /\ maintained' \in [Field -> Text] \cup {Nothing}
  BY <1>2 DEF UpdateProfileField, ProfileTypeOK
<1>3. ASSUME NEW f \in Field, NEW t \in Written, ToolUpdates(f, t) PROVE ProfileTypeOK'
  BY <1>1, <1>2, <1>3 DEF ToolUpdates, ProfileTypeOK, pageVars
<1>4. ASSUME NEW h \in ProfileHost, StartMaintenance(h) PROVE ProfileTypeOK'
  BY <1>4 DEF StartMaintenance, ProfileTypeOK, tableVars, pageVars
<1>5. ASSUME NEW h \in ProfileHost, ApplyMaintenance(h) PROVE ProfileTypeOK'
  <2>1. basis' \in BOOLEAN /\ maintained' \in [Field -> Text] \cup {Nothing}
    BY <1>5 DEF ApplyMaintenance, ProfileTypeOK, tableVars, Tidied
  <2> QED BY <1>1, <1>5, <2>1 DEF ApplyMaintenance, ProfileTypeOK, pageVars
<1>6. ASSUME NEW h \in ProfileHost, MaintenanceFails(h) \/ HostStops(h) PROVE ProfileTypeOK'
  BY <1>6 DEF MaintenanceFails, HostStops, ProfileTypeOK, tableVars, pageVars
<1>7. ASSUME PauseEnds PROVE ProfileTypeOK'
  BY <1>7 DEF PauseEnds, ProfileTypeOK, pageVars
<1>8. ASSUME NEW s \in strays, StrayArrives(s) PROVE ProfileTypeOK'
  <2>1. basis' \in BOOLEAN /\ maintained' \in [Field -> Text] \cup {Nothing}
    BY <1>8, <1>2 DEF StrayArrives, ProfileTypeOK, tableVars
  <2> QED BY <1>1, <1>8, <2>1 DEF StrayArrives, ProfileTypeOK
<1> QED BY <1>3, <1>4, <1>5, <1>6, <1>7, <1>8

\* Opening, leaving, and the steps of a read until its answer arrives.
LEMMA ReadTypesKept ==
  ASSUME ProfileTypeOK, TablesInv, PageShape,
         \/ OpenPage \/ ClosePage \/ HidePage \/ ShowPage \/ Poll
         \/ \E g \in gets : ServerReads(g) \/ ReadFails(g)
  PROVE  ProfileTypeOK'
<1> USE DEF ProfileTypeOK, tableVars, ReadsLeft
<1>1. CASE OpenPage
  BY <1>1, ReadsAreTyped DEF OpenPage
<1>2. CASE ClosePage
  <2>1. Busy => saving.of \in Edit /\ saving.of.field \in Field
    BY DEF Busy, Saving, Edit
  <2>2. strays' \subseteq Edit
    BY <1>2, <2>1 DEF ClosePage, Abandoned
  <2>3. result' \in [Field -> Result \cup {Nothing}]
    BY <1>2, <2>1 DEF ClosePage, ResultOf, Result
  <2> QED BY <1>2, <2>2, <2>3 DEF ClosePage
<1>3. CASE HidePage
  BY <1>3 DEF HidePage
<1>4. CASE ShowPage
  BY <1>4, ReadsAreTyped DEF ShowPage
<1>5. CASE Poll
  BY <1>5, ReadsAreTyped DEF Poll
<1>6. ASSUME NEW g \in gets, ServerReads(g) PROVE ProfileTypeOK'
  <2>1. [g EXCEPT !.snap = Snapshot] \in Get
    BY SnapshotsAreSnaps DEF Get
  <2> QED BY <1>6, <2>1 DEF ServerReads
<1>7. ASSUME NEW g \in gets, ReadFails(g) PROVE ProfileTypeOK'
  BY <1>7 DEF ReadFails
<1> QED BY <1>1, <1>2, <1>3, <1>4, <1>5, <1>6, <1>7

\* What the user does with the editor.
LEMMA EditorTypesKept ==
  ASSUME ProfileTypeOK,
         \/ \E f \in Field : BeginEdit(f)
         \/ \E t \in Written : Type(t)
         \/ CancelEdit \/ ReloadField \/ CheckSave
  PROVE  ProfileTypeOK'
<1> USE DEF ProfileTypeOK, tableVars
<1>1. ASSUME NEW f \in Field, BeginEdit(f) PROVE ProfileTypeOK'
  <2>1. gets' \subseteq Get
    BY <1>1, ReadsAreTyped DEF BeginEdit
  <2>2. shown \in Snap
    BY <1>1 DEF BeginEdit
  <2>3. editing' \in Edit \cup {Nothing} /\ drafts' \in [Field -> Edit \cup {Nothing}]
    BY <1>1, <2>2, DraftsKeepType, EditsOfSnaps DEF BeginEdit
  <2>4. conflict' \in [Field -> BOOLEAN] /\ result' \in [Field -> Result \cup {Nothing}]
    BY <1>1 DEF BeginEdit
  <2> QED BY <1>1, <2>1, <2>3, <2>4 DEF BeginEdit
<1>2. ASSUME NEW t \in Written, Type(t) PROVE ProfileTypeOK'
  <2>1. [editing EXCEPT !.draft = t] \in Edit
    BY <1>2 DEF Type, Edit, Written
  <2>2. editing' \in Edit \cup {Nothing} /\ drafts' \in [Field -> Edit \cup {Nothing}]
    BY <1>2, <2>1, DraftsKeepType DEF Type
  <2> QED BY <1>2, <2>2 DEF Type
<1>3. CASE CancelEdit
  <2>1. gets' \subseteq Get
    BY <1>3, ReadsAreTyped DEF CancelEdit
  <2>2. editing' \in Edit \cup {Nothing} /\ drafts' \in [Field -> Edit \cup {Nothing}]
    BY <1>3, DraftsKeepType DEF CancelEdit
  <2>3. conflict' \in [Field -> BOOLEAN] /\ result' \in [Field -> Result \cup {Nothing}]
    BY <1>3 DEF CancelEdit
  <2> QED BY <1>3, <2>1, <2>2, <2>3 DEF CancelEdit
<1>4. CASE ReloadField
  BY <1>4, ReadsAreTyped DEF ReloadField
<1>5. CASE CheckSave
  <2>1. result[editing.field].of \in Edit
    BY <1>5 DEF CheckSave, Unknown, Edit, Result
  <2> QED BY <1>5, <2>1, ReadsAreTyped DEF CheckSave
<1> QED BY <1>1, <1>2, <1>3, <1>4, <1>5

\* A read that arrives, and what follows a save.
LEMMA AnswerTypesKept ==
  ASSUME ProfileTypeOK, TablesInv, TablesInv', PageInv,
         \/ \E g \in gets : ReadArrives(g)
         \/ SaveEdit \/ ServerSaves \/ SaveAnswered \/ SaveIsLost
  PROVE  ProfileTypeOK'
<1> USE DEF ProfileTypeOK
<1>1. ASSUME NEW g \in gets, ReadArrives(g) PROVE ProfileTypeOK'
  <2>1. g.snap \in Snap /\ shown' \in Snap
    BY <1>1 DEF ReadArrives, Get
  <2>2. /\ editing' \in Edit \cup {Nothing} /\ drafts' \in [Field -> Edit \cup {Nothing}]
        /\ conflict' \in [Field -> BOOLEAN] /\ result' \in [Field -> Result \cup {Nothing}]
    <3>1. CASE g.use = "poll" /\ UNCHANGED <<result, editing, drafts, conflict>>
      BY <3>1
    <3>2. CASE g.use = "reload" /\ Reloaded(g.snap)
      <4>1. EditOf(editing.field, g.snap) \in Edit
        BY <2>1, <3>2, EditsOfSnaps DEF Reloaded, Edit
      <4>2. SetEditing(EditOf(editing.field, g.snap))
        BY <3>2 DEF Reloaded
      <4> QED BY <3>2, <4>1, <4>2, DraftsKeepType DEF Reloaded
    <3>3. CASE g.use = "check" /\ Checked(g.of, g.snap)
      <4>1. g.of \in Edit /\ g.of.field \in Field
        BY <3>3 DEF PageInv, ChecksAreAsked, Edit
      <4>2. CASE Confirms(g.of, g.snap)
        <5>1. AfterCheck(g.of, g.snap) \in Edit \cup {Nothing}
          BY <2>1, <4>1 DEF AfterCheck, Edit, Snap
        <5>2. SetEditing(AfterCheck(g.of, g.snap))
          BY <3>3, <4>2 DEF Checked
        <5>3. conflict' \in [Field -> BOOLEAN] /\ result' \in [Field -> Result \cup {Nothing}]
          <6>1. ResultOf("saved", g.of) \in Result
            BY <4>1 DEF ResultOf, Result
          <6> QED BY <3>3, <4>1, <4>2, <6>1 DEF Checked
        <5> QED BY <5>1, <5>2, <5>3, DraftsKeepType
      <4>3. CASE ~Confirms(g.of, g.snap)
        BY <3>3, <4>3 DEF Checked
      <4> QED BY <4>2, <4>3
    <3> QED BY <1>1, <3>1, <3>2, <3>3 DEF ReadArrives
  <2>3. gets' \subseteq Get
    BY <1>1 DEF ReadArrives
  <2> QED BY <1>1, <2>1, <2>2, <2>3 DEF ReadArrives, tableVars
<1>2. CASE SaveEdit
  <2>1. saving' \in Saving
    BY <1>2 DEF SaveEdit, Saving
  <2>2. result' \in [Field -> Result \cup {Nothing}]
    BY <1>2 DEF SaveEdit
  <2> QED BY <1>2, <2>1, <2>2 DEF SaveEdit, ReadsLeft, tableVars
<1>3. CASE ServerSaves
  <2>1. saving \in Saving
    BY <1>3 DEF ServerSaves, Busy
  <2>2. profile' \in [Field -> Text] /\ changes' \in Seq(Change)
    BY DEF TablesInv, TableTypes
  <2>3. Snapshot' \in Snap
    BY SnapshotsThen
  <2>4. saving' \in Saving
    BY ZenonT(60), <1>3, <2>1, <2>3 DEF ServerSaves, Saving, Refusal
  <2>5. basis' \in BOOLEAN /\ maintained' \in [Field -> Text] \cup {Nothing}
    BY <1>3 DEF ServerSaves, UpdateProfileField, tableVars
  <2> QED BY <1>3, <2>2, <2>4, <2>5 DEF ServerSaves
<1>4. ReadsAgain => gets' \subseteq Get
  BY ReadsAreTyped DEF ReadsAgain
<1>5. Busy => saving \in Saving /\ saving.of \in Edit /\ saving.of.field \in Field
  BY DEF Busy, Saving, Edit
<1>6. CASE SaveAnswered
  <2>1. saving.reply = "ok" => saving.snap \in Snap
    BY <1>6 DEF SaveAnswered, Busy, PageInv, AnswersAreStored
  <2>2. shown' \in Snap \cup {Nothing}
    BY <1>6, <2>1 DEF SaveAnswered
  <2>3. editing' \in Edit \cup {Nothing} /\ drafts' \in [Field -> Edit \cup {Nothing}]
    BY <1>6, DraftsKeepType DEF SaveAnswered
  <2>4. conflict' \in [Field -> BOOLEAN] /\ result' \in [Field -> Result \cup {Nothing}]
    <3>1. \A k \in {"saved", "invalid", "failed"} : ResultOf(k, saving.of) \in Result
      BY <1>5, <1>6 DEF SaveAnswered, ResultOf, Result
    <3>2. conflict' \in [Field -> BOOLEAN]
      BY <1>5, <1>6 DEF SaveAnswered
    <3>3. result' \in [Field -> Result \cup {Nothing}]
      BY <1>5, <1>6, <3>1 DEF SaveAnswered
    <3> QED BY <3>2, <3>3
  <2> QED BY <1>4, <1>6, <2>2, <2>3, <2>4 DEF SaveAnswered, tableVars
<1>7. CASE SaveIsLost
  <2>1. result' \in [Field -> Result \cup {Nothing}]
    BY <1>5, <1>7 DEF SaveIsLost, ResultOf, Result
  <2>2. strays' \subseteq Edit
    BY <1>5, <1>7 DEF SaveIsLost, Abandoned
  <2> QED BY <1>4, <1>7, <2>1, <2>2 DEF SaveIsLost, tableVars
<1> QED BY <1>1, <1>2, <1>3, <1>6, <1>7
-----------------------------------------------------------------------------
(* The page *)

\* What was stored once stays stored.
LEMMA StoredStays ==
  ASSUME ProfileTypeOK, Grows
  PROVE  /\ \A s \in Snap : Stored(s) => Stored(s)'
         /\ \A e \in Edit : StoredSince(e) => StoredSince(e)'
<1>1. Len(changes) \in Nat /\ DOMAIN changes = 1..Len(changes)
  BY DEF ProfileTypeOK
<1>2. \A f : \A i \in ChangesOf(f) : i \in ChangesOf(f)' /\ changes'[i] = changes[i]
  <2>1. DOMAIN changes \subseteq DOMAIN changes'
    BY <1>1 DEF Grows
  <2> QED BY <1>1, <2>1 DEF Grows, ChangesOf
<1> QED BY <1>2 DEF Stored, StoredSince

\* What the server answers now is not older than what the page shows.
LEMMA SnapshotsAreNew ==
  ASSUME ProfileTypeOK, TablesInv, AnswersAreStored
  PROVE  Newer(Snapshot)
<1> SUFFICES ASSUME shown # Nothing, NEW f \in Field PROVE shown.rev[f] <= Revision(f)
  BY DEF Newer, Snapshot
<1>1. shown.rev[f] = 0 \/ shown.rev[f] \in ChangesOf(f)
  BY DEF AnswersAreStored, Stored
<1>2. Revision(f) \in Nat /\ \A i \in ChangesOf(f) : i <= Revision(f)
  BY RevisionIsLast DEF TablesInv
<1> QED BY <1>1, <1>2

\* Steps that leave the page alone, but for a save that arrives late.
LEMMA TablesKeepPage ==
  ASSUME ProfileTypeOK, PageInv, Grows, strays' \subseteq strays,
         UNCHANGED <<mode, shown, editing, drafts, conflict, result, gets, saving>>
  PROVE  PageInv'
<1> USE DEF ProfileTypeOK
<1>1. PageShape'
  BY DEF PageInv, PageShape
<1>2. AnswersAreStored'
  <2>1. shown # Nothing => shown \in Snap
    OBVIOUS
  <2>2. \A g \in gets : g.snap # Nothing => g.snap \in Snap
    BY DEF Get
  <2>3. saving # Nothing => saving.of \in Edit
    BY DEF Saving
  <2>4. (shown # Nothing => Stored(shown))'
    BY <2>1, StoredStays DEF PageInv, AnswersAreStored
  <2>5. (\A g \in gets : g.snap # Nothing => Stored(g.snap) /\ Newer(g.snap))'
    BY <2>2, StoredStays DEF PageInv, AnswersAreStored, Newer
  <2>6. (saving # Nothing => (saving.reply = "ok" => /\ saving.snap \in Snap /\ Stored(saving.snap) /\ Newer(saving.snap)
                                                    /\ StoredSince(saving.of)))'
    BY <2>3, StoredStays DEF PageInv, AnswersAreStored, Newer
  <2> QED BY <2>4, <2>5, <2>6 DEF AnswersAreStored
<1>3. EditsAreSeen'
  BY DEF PageInv, EditsAreSeen, Seen
<1>4. ChecksAreAsked'
  BY DEF PageInv, ChecksAreAsked, Unknown
<1> QED BY <1>1, <1>2, <1>3, <1>4 DEF PageInv

\* The page itself writes no table.
LEMMA PageReadsStored ==
  ASSUME UNCHANGED changes
  PROVE  \A s : (Stored(s)' <=> Stored(s)) /\ (StoredSince(s)' <=> StoredSince(s))
BY DEF Stored, StoredSince, ChangesOf

\* Opening, leaving, and the steps of a read until its answer arrives.
LEMMA ReadsKeepPage ==
  ASSUME ProfileTypeOK, TablesInv, PageInv,
         \/ OpenPage \/ ClosePage \/ HidePage \/ ShowPage \/ Poll
         \/ \E g \in gets : ServerReads(g) \/ ReadFails(g)
  PROVE  PageInv'
<1> USE DEF ProfileTypeOK, tableVars, ReadsLeft
<1>1. UNCHANGED changes
  BY DEF OpenPage, ClosePage, HidePage, ShowPage, Poll, ServerReads, ReadFails
<1>2. \A s : (Stored(s)' <=> Stored(s)) /\ (StoredSince(s)' <=> StoredSince(s))
  BY <1>1, PageReadsStored
<1>3. CASE OpenPage \/ HidePage \/ ShowPage \/ Poll \/ \E g \in gets : ServerReads(g) \/ ReadFails(g)
  <2>1. UNCHANGED <<shown, editing, drafts, result, saving, strays>>
    BY <1>3 DEF OpenPage, HidePage, ShowPage, Poll, ServerReads, ReadFails
  <2>2. \/ gets' = gets
        \/ gets' = {}
        \/ saving = Nothing /\ gets' = {Read("poll", Nothing)}
        \/ saving = Nothing /\ \E g \in gets : gets = {g} /\ gets' = {[g EXCEPT !.snap = Snapshot]}
    BY <1>3 DEF PageInv, PageShape, OpenPage, HidePage, ShowPage, Poll, ServerReads, ReadFails, StartRead, Busy
  <2>3. PageShape'
    <3>1. (mode = "closed" => saving = Nothing)' /\ (mode = "closed" \/ saving # Nothing => gets = {})'
      BY <1>3 DEF PageInv, PageShape, OpenPage, HidePage, ShowPage, Poll, ServerReads, ReadFails, StartRead, Busy, Visible
    <3>2. (\A g \in gets : gets = {g})'
      BY <2>2 DEF PageInv, PageShape
    <3> QED BY <2>1, <3>1, <3>2 DEF PageInv, PageShape
  <2>4. AnswersAreStored'
    <3>1. \A g \in gets' : g.snap # Nothing => g \in gets \/ g.snap = Snapshot
      BY <2>2 DEF Read, Get
    <3>2. Stored(Snapshot) /\ Newer(Snapshot)
      BY SnapshotsAreSnaps, SnapshotsAreNew DEF PageInv
    <3>3. (\A g \in gets : g.snap # Nothing => Stored(g.snap) /\ Newer(g.snap))'
      BY <1>2, <2>1, <3>1, <3>2 DEF PageInv, AnswersAreStored, Newer
    <3> QED BY <1>2, <2>1, <3>3 DEF PageInv, AnswersAreStored, Newer
  <2>5. EditsAreSeen'
    BY <2>1 DEF PageInv, EditsAreSeen, Seen
  <2>6. ChecksAreAsked'
    <3>1. \A g \in gets' : g.use = "check" => \E h \in gets : h.use = "check" /\ h.of = g.of
      BY <2>2 DEF Read, Get
    <3> QED BY <2>1, <3>1 DEF PageInv, ChecksAreAsked, Unknown
  <2> QED BY <2>3, <2>4, <2>5, <2>6 DEF PageInv
<1>4. CASE ClosePage
  <2>1. Busy => saving.of = editing /\ editing \in Edit /\ editing.field \in Field /\ drafts[editing.field] = editing
    BY NothingIsApart DEF Busy, PageInv, PageShape, Saving, Edit
  <2>2. PageShape'
    BY <1>4, <2>1 DEF PageInv, PageShape, ClosePage, ResultOf
  <2>3. AnswersAreStored'
    BY <1>2, <1>4 DEF PageInv, AnswersAreStored, ClosePage, Newer
  <2>4. EditsAreSeen'
    BY <1>4, <2>1, NothingIsApart DEF PageInv, EditsAreSeen, ClosePage, Abandoned, Seen
  <2>5. ChecksAreAsked'
    BY <1>4, <2>1 DEF PageInv, ChecksAreAsked, ClosePage, Unknown, ResultOf
  <2> QED BY <2>2, <2>3, <2>4, <2>5 DEF PageInv
<1> QED BY <1>3, <1>4

\* What the user does with the editor.
LEMMA EditorKeepsPage ==
  ASSUME ProfileTypeOK, PageInv,
         \/ \E f \in Field : BeginEdit(f)
         \/ \E t \in Written : Type(t)
         \/ CancelEdit \/ ReloadField \/ CheckSave \/ SaveEdit
  PROVE  PageInv'
<1> USE DEF ProfileTypeOK, tableVars, ReadsLeft
<1>1. UNCHANGED <<changes, mode, shown, strays>>
  BY DEF BeginEdit, Type, CancelEdit, ReloadField, CheckSave, SaveEdit
<1>2. \A s : (Stored(s)' <=> Stored(s)) /\ (StoredSince(s)' <=> StoredSince(s))
  BY <1>1, PageReadsStored
<1>3. Visible /\ saving = Nothing
  BY DEF BeginEdit, Type, CancelEdit, ReloadField, CheckSave, SaveEdit, Busy
<1>4. ASSUME NEW f \in Field, BeginEdit(f) PROVE PageInv'
  <2>1. gets' = {Read("poll", Nothing)} /\ saving' = saving /\ shown \in Snap
    BY <1>4 DEF BeginEdit, StartRead
  <2>2. \E e \in Edit : /\ e.field = f /\ e.rev <= shown.rev[f]
                        /\ editing' = e /\ drafts' = [drafts EXCEPT ![f] = e]
                        /\ \/ drafts[f] # Nothing /\ e = drafts[f] /\ result' = result
                           \/ drafts[f] = Nothing /\ result' = [result EXCEPT ![f] = Nothing]
    <3>1. CASE drafts[f] # Nothing
      BY <1>4, <3>1 DEF BeginEdit, SetEditing, PageInv, PageShape, EditsAreSeen, Seen
    <3>2. CASE drafts[f] = Nothing
      <4>1. EditOf(f, shown) \in Edit /\ EditOf(f, shown).field = f /\ EditOf(f, shown).rev <= shown.rev[f]
        <5>1. shown.rev[f] \in Nat
          BY <2>1 DEF Snap
        <5> QED BY <2>1, <5>1, EditsOfSnaps
      <4> QED BY <1>4, <3>2, <4>1, NothingIsApart DEF BeginEdit, SetEditing
    <3> QED BY <3>1, <3>2
  <2>3. PageShape'
    BY <1>1, <1>3, <2>1, <2>2 DEF PageInv, PageShape, Visible
  <2>4. AnswersAreStored'
    BY <1>1, <1>2, <1>3, <2>1 DEF PageInv, AnswersAreStored, Newer, Read
  <2>5. EditsAreSeen'
    BY <1>1, <2>1, <2>2, NothingIsApart DEF PageInv, EditsAreSeen, Seen
  <2>6. ChecksAreAsked'
    BY <2>1, <2>2, NothingIsApart DEF PageInv, ChecksAreAsked, Unknown, Read
  <2> QED BY <2>3, <2>4, <2>5, <2>6 DEF PageInv
<1>5. ASSUME NEW t \in Written, Type(t) PROVE PageInv'
  <2>1. PICK e \in Edit : /\ e.field = editing.field /\ e.rev = editing.rev
                          /\ editing' = e /\ drafts' = [drafts EXCEPT ![e.field] = e]
    <3> DEFINE e == [editing EXCEPT !.draft = t]
    <3>1. e \in Edit /\ e.field = editing.field /\ e.rev = editing.rev
      BY <1>5 DEF Type, Edit, Written
    <3>2. SetEditing(e) /\ e # Nothing
      BY <1>5, <3>1, NothingIsApart DEF Type
    <3> HIDE DEF e
    <3> QED BY <3>1, <3>2 DEF SetEditing
  <2>2. editing # Nothing /\ editing \in Edit /\ editing.field \in Field /\ drafts[editing.field] = editing
    BY <1>5 DEF Type, Edit, PageInv, PageShape
  <2>3. gets' = gets /\ saving' = saving /\ result' = result
    BY <1>5 DEF Type
  <2>4. PageShape'
    BY <1>1, <1>3, <2>1, <2>2, <2>3 DEF PageInv, PageShape
  <2>5. AnswersAreStored'
    BY <1>1, <1>2, <1>3, <2>3 DEF PageInv, AnswersAreStored, Newer
  <2>6. EditsAreSeen'
    BY <1>1, <2>1, <2>2, NothingIsApart DEF PageInv, EditsAreSeen, Seen
  <2>7. ChecksAreAsked'
    BY <2>1, <2>2, <2>3 DEF PageInv, ChecksAreAsked, Unknown
  <2> QED BY <2>4, <2>5, <2>6, <2>7 DEF PageInv
<1>6. CASE CancelEdit
  <2>1. /\ gets' = {Read("poll", Nothing)} /\ saving' = saving
        /\ editing' = Nothing /\ drafts' = [drafts EXCEPT ![editing.field] = Nothing]
        /\ result' = [result EXCEPT ![editing.field] = Nothing]
    BY <1>6 DEF CancelEdit, SetEditing, StartRead
  <2>2. PageShape'
    BY <1>1, <1>3, <2>1 DEF PageInv, PageShape, Visible
  <2>3. AnswersAreStored'
    BY <1>1, <1>2, <1>3, <2>1 DEF PageInv, AnswersAreStored, Newer, Read
  <2>4. EditsAreSeen'
    BY <1>1, <2>1 DEF PageInv, EditsAreSeen, Seen
  <2>5. ChecksAreAsked'
    BY <2>1 DEF PageInv, ChecksAreAsked, Unknown, Read
  <2> QED BY <2>2, <2>3, <2>4, <2>5 DEF PageInv
<1>7. CASE ReloadField \/ CheckSave
  <2>1. /\ UNCHANGED <<editing, drafts, result, saving>>
        /\ \/ gets' = {Read("reload", Nothing)}
           \/ Unknown(editing.field) /\ editing \in Edit /\ gets' = {Read("check", result[editing.field].of)}
    BY <1>7 DEF ReloadField, CheckSave, StartRead
  <2>2. PageShape'
    BY <1>1, <1>3, <2>1 DEF PageInv, PageShape, Visible
  <2>3. AnswersAreStored'
    BY <1>1, <1>2, <1>3, <2>1 DEF PageInv, AnswersAreStored, Newer, Read
  <2>4. EditsAreSeen'
    BY <1>1, <2>1 DEF PageInv, EditsAreSeen, Seen
  <2>5. ChecksAreAsked'
    <3>1. ASSUME NEW g \in gets', g.use = "check"
          PROVE  g.of \in Edit /\ result[g.of.field] = ResultOf("unknown", g.of)
      <4>1. /\ Unknown(editing.field) /\ editing.field \in Field
            /\ g.of = result[editing.field].of
        BY <2>1, <3>1 DEF Read, Edit
      <4>2. result[editing.field] \in Result /\ result[editing.field].of.field = editing.field
        BY <4>1 DEF Unknown, PageInv, PageShape
      <4>3. result[editing.field] = ResultOf("unknown", result[editing.field].of)
        BY <4>1, <4>2 DEF Unknown, Result, ResultOf
      <4> QED BY <4>1, <4>2, <4>3 DEF Result
    <3> QED BY <2>1, <3>1 DEF PageInv, ChecksAreAsked, Unknown
  <2> QED BY <2>2, <2>3, <2>4, <2>5 DEF PageInv
<1>8. CASE SaveEdit
  <2>1. /\ UNCHANGED <<editing, drafts>>
        /\ editing # Nothing /\ editing \in Edit
        /\ saving' = [of |-> editing, reply |-> "none", snap |-> Nothing]
        /\ result' = [result EXCEPT ![editing.field] = Nothing] /\ gets' = {}
    BY <1>8 DEF SaveEdit
  <2>2. PageShape'
    BY <1>1, <1>3, <2>1 DEF PageInv, PageShape, Visible
  <2>3. AnswersAreStored'
    BY <1>1, <1>2, <2>1 DEF PageInv, AnswersAreStored
  <2>4. EditsAreSeen'
    BY <1>1, <2>1 DEF PageInv, EditsAreSeen, Seen
  <2>5. ChecksAreAsked'
    BY <2>1 DEF PageInv, ChecksAreAsked, Unknown
  <2> QED BY <2>2, <2>3, <2>4, <2>5 DEF PageInv
<1> QED BY <1>4, <1>5, <1>6, <1>7, <1>8

\* The newest thing the page is shown becomes the floor of what it may be shown.
LEMMA FloorRises ==
  ASSUME ProfileTypeOK, PageInv, UNCHANGED changes, NEW s \in Snap, Stored(s), Newer(s), shown' = s,
         gets' \subseteq {Read("poll", Nothing)}, saving' = Nothing,
         strays' = strays
  PROVE  /\ AnswersAreStored'
         /\ \A e \in Edit : Seen(e) => Seen(e)'
         /\ \A st \in strays' : Seen(st)'
         /\ \A f \in Field : EditOf(f, s) \in Edit /\ Seen(EditOf(f, s))'
<1> USE DEF ProfileTypeOK
<1>1. \A f \in Field : s.rev[f] \in Nat /\ (shown # Nothing => shown.rev[f] <= s.rev[f] /\ shown.rev[f] \in Nat)
  BY DEF Newer, Snap
<1>2. shown' # Nothing
  BY NothingIsApart
<1>3. AnswersAreStored'
  BY PageReadsStored DEF AnswersAreStored, Read
<1>4. \A e \in Edit : Seen(e) => Seen(e)'
  BY <1>1, <1>2 DEF Seen, Edit
<1>5. \A f \in Field : EditOf(f, s) \in Edit /\ Seen(EditOf(f, s))'
  BY <1>1, <1>2, EditsOfSnaps DEF Seen
<1> QED BY <1>3, <1>4, <1>5 DEF PageInv, EditsAreSeen

\* A read that arrives.
LEMMA ArrivalsKeepPage ==
  ASSUME ProfileTypeOK, PageInv, NEW g \in gets, ReadArrives(g)
  PROVE  PageInv'
<1> USE DEF ProfileTypeOK, tableVars
<1>1. gets' = {} /\ saving = Nothing /\ UNCHANGED <<changes, mode, saving, strays>>
  BY DEF ReadArrives, PageInv, PageShape
<1>2. g.snap \in Snap /\ Stored(g.snap) /\ Newer(g.snap) /\ shown' = g.snap
  BY DEF ReadArrives, Get, PageInv, AnswersAreStored
<1>3. /\ AnswersAreStored'
      /\ \A e \in Edit : Seen(e) => Seen(e)'
      /\ \A st \in strays' : Seen(st)'
      /\ \A f \in Field : EditOf(f, g.snap) \in Edit /\ Seen(EditOf(f, g.snap))'
  BY <1>1, <1>2, FloorRises
<1>4. CASE UNCHANGED <<result, editing, drafts>>
  <2>1. PageShape'
    BY <1>1, <1>4 DEF PageInv, PageShape
  <2>2. EditsAreSeen'
    BY <1>3, <1>4 DEF PageInv, EditsAreSeen
  <2>3. ChecksAreAsked'
    BY <1>1, <1>4 DEF PageInv, ChecksAreAsked, Unknown
  <2> QED BY <1>3, <2>1, <2>2, <2>3 DEF PageInv
<1>5. CASE g.use = "reload" /\ Reloaded(g.snap)
  <2>1. editing # Nothing /\ editing.field \in Field
    BY <1>5 DEF Reloaded, Edit
  <2>2. PICK e \in Edit : /\ e.field = editing.field /\ Seen(e)'
                          /\ editing' = e /\ drafts' = [drafts EXCEPT ![e.field] = e]
                          /\ result' = [result EXCEPT ![e.field] = Nothing]
    <3>1. EditOf(editing.field, g.snap) # Nothing /\ EditOf(editing.field, g.snap).field = editing.field
      BY <1>3, <2>1, NothingIsApart DEF EditOf
    <3> QED BY <1>3, <1>5, <2>1, <3>1 DEF Reloaded, SetEditing
  <2>3. PageShape'
    BY <1>1, <2>1, <2>2 DEF PageInv, PageShape
  <2>4. EditsAreSeen'
    BY <1>3, <2>1, <2>2 DEF PageInv, EditsAreSeen
  <2>5. ChecksAreAsked'
    BY <1>1, <2>1, <2>2 DEF PageInv, ChecksAreAsked, Unknown
  <2> QED BY <1>3, <2>3, <2>4, <2>5 DEF PageInv
<1>6. CASE g.use = "check" /\ Checked(g.of, g.snap) /\ Confirms(g.of, g.snap)
  <2> DEFINE s == g.of
  <2>1. s \in Edit /\ s.field \in Field
    BY <1>6 DEF PageInv, ChecksAreAsked, Edit
  <2>2. /\ result' = [result EXCEPT ![s.field] = ResultOf("saved", s)]
        /\ SetEditing(AfterCheck(s, g.snap))
    BY <1>6 DEF Checked
  <2> HIDE DEF s
  <2>3. editing # Nothing => editing.field \in Field /\ drafts[editing.field] = editing
    BY DEF Edit, PageInv, PageShape
  <2>4. \/ UNCHANGED <<editing, drafts>>
        \/ /\ editing # Nothing /\ editing.field = s.field
           /\ editing' = Nothing /\ drafts' = [drafts EXCEPT ![s.field] = Nothing]
        \/ \E e \in Edit : /\ e.field = s.field /\ Seen(e)'
                           /\ editing' = e /\ drafts' = [drafts EXCEPT ![s.field] = e]
    <3>1. CASE editing = Nothing \/ editing.field # s.field
      BY <2>2, <2>3, <3>1 DEF SetEditing, AfterCheck
    <3>2. CASE editing # Nothing /\ editing.field = s.field /\ editing.draft = s.draft
      BY <2>2, <2>3, <3>2 DEF SetEditing, AfterCheck
    <3>3. CASE editing # Nothing /\ editing.field = s.field /\ editing.draft # s.draft
      <4>1. PICK e \in Edit : /\ e = [editing EXCEPT !.base = g.snap.text[s.field], !.rev = g.snap.rev[s.field]]
                              /\ e.field = s.field /\ e.rev = g.snap.rev[s.field]
        <5> DEFINE d == [editing EXCEPT !.base = g.snap.text[s.field], !.rev = g.snap.rev[s.field]]
        <5>1. g.snap.text[s.field] \in Text /\ g.snap.rev[s.field] \in Nat /\ editing \in Edit
          BY <1>2, <2>1, <3>3 DEF Snap
        <5>2. d \in Edit /\ d.field = editing.field /\ d.rev = g.snap.rev[s.field]
          BY <5>1 DEF Edit
        <5> QED BY <5>2, <3>3
      <4>2. editing' = e /\ drafts' = [drafts EXCEPT ![s.field] = e]
        BY <2>2, <3>3, <4>1, NothingIsApart DEF AfterCheck, SetEditing
      <4>3. Seen(e)'
        BY <1>2, <4>1, <2>1, NothingIsApart DEF Seen, Snap
      <4> QED BY <4>1, <4>2, <4>3
    <3> QED BY <3>1, <3>2, <3>3
  <2>5. PageShape'
    BY <1>1, <2>1, <2>2, <2>4 DEF PageInv, PageShape, ResultOf
  <2>6. EditsAreSeen'
    BY <1>3, <2>1, <2>4 DEF PageInv, EditsAreSeen
  <2>7. ChecksAreAsked'
    BY <1>1, <2>1, <2>2, <2>4 DEF PageInv, ChecksAreAsked, Unknown, ResultOf
  <2> QED BY <1>3, <2>5, <2>6, <2>7 DEF PageInv
<1> QED BY <1>4, <1>5, <1>6 DEF ReadArrives, Checked

\* The server answers a save, the answer arrives, or it does not.
LEMMA SavesKeepPage ==
  ASSUME ProfileTypeOK, TablesInv, TablesInv', Grows, PageInv, ServerSaves \/ SaveAnswered \/ SaveIsLost
  PROVE  PageInv'
<1> USE DEF ProfileTypeOK, tableVars, ReadsLeft
<1>1. /\ saving # Nothing /\ saving \in Saving /\ gets = {} /\ mode # "closed"
      /\ editing = saving.of /\ editing \in Edit /\ editing # Nothing
      /\ editing.field \in Field /\ drafts[editing.field] = editing
  BY NothingIsApart DEF ServerSaves, SaveAnswered, SaveIsLost, Busy, PageInv, PageShape, Saving, Edit
<1>2. CASE ServerSaves
  <2>1. UNCHANGED <<mode, shown, editing, drafts, result, gets, strays>>
    BY <1>2 DEF ServerSaves
  <2>2. /\ saving' # Nothing /\ saving'.of = saving.of
        /\ saving'.reply = "ok" => /\ saving'.snap = Snapshot'
                                   /\ ~IsStale(saving.of)
                                   /\ UpdateProfileField(saving.of.field, saving.of.draft, "page")
    <3>1. CASE ~IsStale(saving.of) /\ UpdateProfileField(saving.of.field, saving.of.draft, "page")
                 /\ saving' = [saving EXCEPT !.reply = "ok", !.snap = Snapshot']
      <4>1. saving' \in Saving /\ saving'.of = saving.of /\ saving'.snap = Snapshot'
        BY <1>1, <3>1, SnapshotsThen DEF Saving
      <4> QED BY <4>1, <3>1, NothingIsApart
    <3>2. CASE \E r \in Refusal(saving.of) : saving' = [saving EXCEPT !.reply = r]
      <4>1. saving' \in Saving /\ saving'.of = saving.of /\ saving'.reply # "ok"
        BY <1>1, <3>2 DEF Saving, Refusal
      <4> QED BY <4>1, NothingIsApart
    <3>3. \/ /\ ~IsStale(saving.of) /\ UpdateProfileField(saving.of.field, saving.of.draft, "page")
             /\ saving' = [saving EXCEPT !.reply = "ok", !.snap = Snapshot']
          \/ \E r \in Refusal(saving.of) : saving' = [saving EXCEPT !.reply = r]
      BY <1>2 DEF ServerSaves
    <3> QED BY <3>1, <3>2, <3>3
  <2>3. PageShape'
    BY <1>1, <2>1, <2>2 DEF PageInv, PageShape
  <2>4. AnswersAreStored'
    <3>1. shown # Nothing => shown \in Snap /\ Stored(shown)'
      BY <2>1, StoredStays DEF PageInv, AnswersAreStored
    <3>2. Newer(Snapshot)'
      BY <2>1, <3>1, SnapshotsThen DEF Newer, Stored, Snap
    <3>3. saving'.reply = "ok" => StoredSince(saving.of)'
      <4> SUFFICES ASSUME saving'.reply = "ok" PROVE StoredSince(saving.of)'
        OBVIOUS
      <4> DEFINE f == saving.of.field
                 n == Len(changes')
      <4>1. Len(changes) \in Nat /\ ChangesOf(f) \subseteq 1..Len(changes)
        BY DEF ChangesOf
      <4>2. saving.of.rev <= Len(changes) /\ f \in Field /\ saving.of.draft \in Text
        BY <1>1, <2>2, <4>1, RevisionIsLast DEF IsStale, TablesInv, Edit
      <4>3. n = Len(changes) + 1 /\ changes'[n] = ChangeOf(f, saving.of.draft, "page")
        BY <2>2, <4>2, EditsKeepTables
      <4>4. n \in ChangesOf(f)' /\ n > saving.of.rev /\ changes'[n].text = saving.of.draft
        <5>1. saving.of.rev \in Nat
          BY <1>1 DEF Edit
        <5>2. DOMAIN changes' = 1..n /\ n \in Nat
          BY <4>1, <4>3 DEF TablesInv, TableTypes
        <5>3. changes'[n].field = f /\ changes'[n].text = saving.of.draft
          BY <4>3 DEF ChangeOf
        <5>4. n \in DOMAIN changes' /\ n > saving.of.rev
          BY <4>1, <4>2, <4>3, <5>1, <5>2
        <5> QED BY <2>2, <5>3, <5>4 DEF ChangesOf
      <4> QED BY <2>2, <4>4 DEF StoredSince
    <3> QED BY <1>1, <2>1, <2>2, <3>1, <3>2, <3>3, SnapshotsThen DEF AnswersAreStored
  <2>5. EditsAreSeen'
    BY <2>1 DEF PageInv, EditsAreSeen, Seen
  <2>6. ChecksAreAsked'
    BY <2>1 DEF PageInv, ChecksAreAsked, Unknown
  <2> QED BY <2>3, <2>4, <2>5, <2>6 DEF PageInv
<1>3. CASE SaveAnswered /\ saving.reply = "ok"
  <2>1. saving.snap \in Snap /\ Stored(saving.snap) /\ Newer(saving.snap)
    BY <1>1, <1>3 DEF PageInv, AnswersAreStored
  <2>2. /\ saving' = Nothing /\ UNCHANGED <<changes, mode, strays>> /\ gets' \subseteq {Read("poll", Nothing)}
        /\ mode = "closed" => gets' = {}
        /\ shown' = saving.snap /\ editing' = Nothing
        /\ drafts' = [drafts EXCEPT ![editing.field] = Nothing]
        /\ result' = [result EXCEPT ![editing.field] = ResultOf("saved", editing)]
    BY <1>1, <1>3 DEF SaveAnswered, SetEditing, ReadsAgain, StartRead
  <2>3. /\ AnswersAreStored'
        /\ \A e \in Edit : Seen(e) => Seen(e)'
        /\ \A st \in strays' : Seen(st)'
    BY <2>1, <2>2, FloorRises
  <2>4. PageShape'
    BY <1>1, <2>2 DEF PageInv, PageShape, ResultOf
  <2>5. EditsAreSeen'
    BY <1>1, <2>2, <2>3 DEF PageInv, EditsAreSeen
  <2>6. ChecksAreAsked'
    BY <1>1, <2>2 DEF PageInv, ChecksAreAsked, Unknown, Read, ResultOf
  <2> QED BY <2>3, <2>4, <2>5, <2>6 DEF PageInv
<1>4. CASE (SaveAnswered /\ saving.reply # "ok") \/ SaveIsLost
  <2>1. /\ saving' = Nothing /\ UNCHANGED <<changes, mode, shown, editing, drafts>>
        /\ gets' \subseteq {Read("poll", Nothing)} /\ strays' \subseteq strays \cup {editing}
        /\ \/ result' = result
           \/ \E k \in {"invalid", "failed", "unknown"} :
                 result' = [result EXCEPT ![editing.field] = ResultOf(k, editing)]
    BY <1>1, <1>4 DEF SaveAnswered, SaveIsLost, ReadsAgain, StartRead, Abandoned
  <2>2. PageShape'
    BY <1>1, <2>1 DEF PageInv, PageShape, ResultOf
  <2>3. AnswersAreStored'
    BY <2>1, PageReadsStored DEF PageInv, AnswersAreStored, Newer, Read
  <2>4. EditsAreSeen'
    BY <1>1, <2>1 DEF PageInv, EditsAreSeen, Seen
  <2>5. ChecksAreAsked'
    BY <1>1, <2>1 DEF PageInv, ChecksAreAsked, Unknown, Read, ResultOf
  <2> QED BY <2>2, <2>3, <2>4, <2>5 DEF PageInv
<1> QED BY <1>2, <1>3, <1>4

-----------------------------------------------------------------------------
(* The invariant and what it shows *)

LEMMA ProfileStarts == ProfileInit => ProfileInv
<1> SUFFICES ASSUME ProfileInit PROVE ProfileInv
  OBVIOUS
<1> USE DEF ProfileInit
<1>1. EmptyProfile \in [Field -> Text]
  BY DEF EmptyProfile, Text
<1>2. changes \in Seq(Change) /\ DOMAIN changes = {}
  OBVIOUS
<1>3. ProfileTypeOK
  BY <1>1, <1>2 DEF ProfileTypeOK
<1>4. TablesInv
  BY <1>1, <1>2 DEF TablesInv, TableTypes, LastIsCurrent, LastEditSpeaks, ChangesOf, Edits, EmptyProfile, Empty
<1>5. PageInv
  BY DEF PageInv, PageShape, AnswersAreStored, EditsAreSeen, ChecksAreAsked, Unknown
<1> QED BY <1>3, <1>4, <1>5 DEF ProfileInv

LEMMA ProfileSteps == ProfileInv /\ [ProfileNext]_profileVars => ProfileInv' /\ Grows
<1> SUFFICES ASSUME ProfileInv, [ProfileNext]_profileVars PROVE ProfileInv' /\ Grows
  OBVIOUS
<1> USE DEF ProfileInv
<1>1. TablesInv' /\ Grows
  BY StepsKeepTables DEF ProfileTypeOK
<1>2. CASE UNCHANGED profileVars
  <2>1. ProfileTypeOK'
    BY <1>2 DEF ProfileTypeOK, profileVars, tableVars, pageVars
  <2>2. PageInv'
    BY <1>1, <1>2, TablesKeepPage DEF profileVars, pageVars
  <2> QED BY <1>1, <2>1, <2>2
<1>3. CASE \/ \E f \in Field, t \in Written : ToolUpdates(f, t)
           \/ \E h \in ProfileHost : StartMaintenance(h) \/ ApplyMaintenance(h) \/ MaintenanceFails(h) \/ HostStops(h)
           \/ PauseEnds
           \/ \E s \in strays : StrayArrives(s)
  <2>1. UNCHANGED <<mode, shown, editing, drafts, conflict, result, gets, saving>> /\ strays' \subseteq strays
    BY <1>3 DEF ToolUpdates, StartMaintenance, ApplyMaintenance, MaintenanceFails, HostStops, PauseEnds, StrayArrives, pageVars
  <2> QED BY <1>1, <1>3, <2>1, TableTypesKept, TablesKeepPage
<1>4. CASE \/ OpenPage \/ ClosePage \/ HidePage \/ ShowPage \/ Poll
           \/ \E g \in gets : ServerReads(g) \/ ReadFails(g)
  BY <1>1, <1>4, ReadTypesKept, ReadsKeepPage DEF PageInv
<1>5. CASE \/ \E f \in Field : BeginEdit(f)
           \/ \E t \in Written : Type(t)
           \/ CancelEdit \/ ReloadField \/ CheckSave
  BY <1>1, <1>5, EditorTypesKept, EditorKeepsPage
<1>6. CASE \/ \E g \in gets : ReadArrives(g)
           \/ SaveEdit \/ ServerSaves \/ SaveAnswered \/ SaveIsLost
  BY <1>1, <1>6, AnswerTypesKept, ArrivalsKeepPage, EditorKeepsPage, SavesKeepPage
<1> QED BY <1>2, <1>3, <1>4, <1>5, <1>6 DEF ProfileNext

LEMMA ProfileIsInvariant == ProfileSpec => []ProfileInv
<1>1. ProfileInv /\ [ProfileNext]_profileVars => ProfileInv'
  BY ProfileSteps
<1> QED BY <1>1, ProfileStarts, PTL DEF ProfileSpec

\* Every variable keeps its type.
THEOREM ProfileTypes == ProfileSpec => []ProfileTypeOK
<1>1. ProfileInv => ProfileTypeOK
  BY DEF ProfileInv
<1> QED BY <1>1, ProfileIsInvariant, PTL

\* Maintenance never takes an edit back, whatever hosts, models and pauses do.
THEOREM EditsSurvive == ProfileSpec => []EditsOutlastMaintenance
<1>1. ProfileInv => EditsOutlastMaintenance
  <2> SUFFICES ASSUME TablesInv, NEW f \in Field
               PROVE  profile[f].says = IF Edits(f) = {} THEN "nothing" ELSE changes[Max(Edits(f))].text.says
    BY DEF ProfileInv, EditsOutlastMaintenance
  <2>1. Edits(f) \in SUBSET Nat
    BY DEF Edits, ChangesOf, TablesInv, TableTypes
  <2>2. ASSUME NEW i, Highest(Edits(f), i) PROVE Max(Edits(f)) = i /\ Edits(f) # {}
    BY <2>1, <2>2, MaxIsHighest DEF Highest
  <2> QED BY <2>2 DEF TablesInv, LastEditSpeaks
<1> QED BY <1>1, ProfileIsInvariant, PTL

\* An answer is shown only when it is newer than what the page shows.
LEMMA AnswersMoveOn ==
  ASSUME ProfileInv, [ProfileNext]_profileVars
  PROVE  MovesOn
<1>1. ASSUME shown # Nothing, NEW f \in Field
      PROVE  shown'.rev[f] >= shown.rev[f]
  <2> USE <1>1 DEF ProfileInv, ProfileTypeOK
  <2>1. shown.rev[f] \in Nat
    BY DEF Snap
  <2>2. CASE UNCHANGED shown
    BY <2>1, <2>2
  <2>3. ASSUME NEW g \in gets, ReadArrives(g) PROVE shown'.rev[f] >= shown.rev[f]
    <3>1. g.snap \in Snap /\ Newer(g.snap) /\ shown' = g.snap
      BY <2>3 DEF ReadArrives, Get, PageInv, AnswersAreStored
    <3>2. shown'.rev[f] \in Nat
      BY <3>1 DEF Snap
    <3> QED BY <2>1, <3>1, <3>2 DEF Newer
  <2>4. CASE SaveAnswered /\ saving.reply = "ok"
    <3>1. saving.snap \in Snap /\ Newer(saving.snap) /\ shown' = saving.snap
      BY <2>4 DEF SaveAnswered, Busy, PageInv, AnswersAreStored
    <3>2. shown'.rev[f] \in Nat
      BY <3>1 DEF Snap
    <3> QED BY <2>1, <3>1, <3>2 DEF Newer
  <2>5. CASE SaveAnswered /\ saving.reply # "ok"
    BY <2>2, <2>5 DEF SaveAnswered
  <2> QED
    BY <2>2, <2>3, <2>4, <2>5
    DEF ProfileNext, ToolUpdates, StartMaintenance, ApplyMaintenance, MaintenanceFails, HostStops, PauseEnds, OpenPage,
        ClosePage, HidePage, ShowPage, Poll, ServerReads, ReadFails, BeginEdit, Type, CancelEdit, ReloadField, CheckSave,
        SaveEdit, ServerSaves, SaveIsLost, StrayArrives, profileVars, pageVars
<1> QED BY <1>1 DEF MovesOn

\* A save replaces only a version that the page has shown, be it answered, lost or given up.
LEMMA OverwritesAreSeen ==
  ASSUME ProfileInv, [ProfileNext]_profileVars
  PROVE  PageReplaces => SawReplaced
<1> USE DEF SawReplaced
<1>1. ASSUME PageReplaces PROVE SawReplaced
  <2> USE <1>1 DEF ProfileInv, ProfileTypeOK
  <2>1. ASSUME NEW e \in Edit, Seen(e), ~IsStale(e), UpdateProfileField(e.field, e.draft, "page") PROVE SawReplaced
    <3>1. e.field \in Field /\ e.draft \in Text /\ shown.rev[e.field] \in Nat
      BY <2>1 DEF Edit, Seen, Snap
    <3>2. changes'[Len(changes')].field = e.field
      BY <2>1, <3>1, EditsComeLast
    <3>3. Revision(e.field) = e.rev /\ e.rev \in Nat
      BY <2>1 DEF IsStale, Edit
    <3> QED BY <2>1, <3>1, <3>2, <3>3 DEF Seen
  <2>2. CASE UNCHANGED changes
    BY <2>2 DEF PageReplaces
  <2>3. ASSUME NEW f \in Field, NEW t \in Written, ToolUpdates(f, t) PROVE FALSE
    <3>1. changes'[Len(changes')].by = "tool"
      BY <2>3, EditsComeLast DEF ToolUpdates, Written
    <3> QED BY <3>1 DEF PageReplaces
  <2>4. ASSUME NEW h \in ProfileHost, ApplyMaintenance(h) PROVE SawReplaced
    <3>1. CASE UNCHANGED tableVars
      BY <2>2, <3>1 DEF tableVars
    <3>2. CASE SameInput(h)
      <4>1. PICK q \in Tidied(run[h]) :
               /\ profile' = q
               /\ \E o \in Orders(Rewritten(q)) :
                    changes' = changes \o [i \in DOMAIN o |-> ChangeOf(o[i], q[o[i]], "maintenance")]
        BY <2>4, <3>2 DEF ApplyMaintenance
      <4>2. \A i \in 1..Len(changes') : i > Len(changes) => changes'[i].by = "maintenance"
        BY <3>2, <4>1, MaintenanceKeepsTables
      <4>3. Len(changes') \in 1..Len(changes') /\ Len(changes') > Len(changes)
        BY ProfileSteps DEF PageReplaces
      <4> QED BY <4>2, <4>3 DEF PageReplaces
    <3> QED BY <2>4, <3>1, <3>2 DEF ApplyMaintenance
  <2>5. CASE ServerSaves
    <3>1. saving.of \in Edit /\ Seen(saving.of)
      BY <2>5, NothingIsApart DEF ServerSaves, Busy, Saving, PageInv, PageShape, EditsAreSeen
    <3> QED BY <2>1, <2>2, <2>5, <3>1 DEF ServerSaves, tableVars
  <2>6. ASSUME NEW s \in strays, StrayArrives(s) PROVE SawReplaced
    <3>1. s \in Edit /\ Seen(s)
      BY DEF PageInv, EditsAreSeen
    <3> QED BY <2>1, <2>2, <2>6, <3>1 DEF StrayArrives, tableVars
  <2> QED
    BY <2>2, <2>3, <2>4, <2>5, <2>6
    DEF ProfileNext, StartMaintenance, MaintenanceFails, HostStops, PauseEnds, OpenPage, ClosePage, HidePage, ShowPage, Poll,
        ServerReads, ReadFails, ReadArrives, BeginEdit, Type, CancelEdit, ReloadField, CheckSave, SaveEdit, SaveAnswered,
        SaveIsLost, profileVars, tableVars
<1> QED BY <1>1

\* The page shows the profile in order and replaces only what it has shown, for any order of its
\* reads, saves and checks and any delay of a save.
THEOREM PageIsUpToDate == ProfileSpec => PageKeepsUp
<1>1. ProfileInv /\ [ProfileNext]_profileVars => [MovesOn /\ (PageReplaces => SawReplaced)]_profileVars
  BY AnswersMoveOn, OverwritesAreSeen
<1> QED BY <1>1, ProfileIsInvariant, PTL DEF ProfileSpec, PageKeepsUp

\* A draft leaves by the user's hand or into the table, and "saved" means that it is there.
THEOREM DraftsStay == ProfileSpec => DraftsAreKept
<1> DEFINE Kept(f) == /\ DraftLeaves(f) => StoredSince(drafts[f]) \/ Rejected(f)
                      /\ SaidSaved(f) => StoredSince(result'[f].of)
<1>1. ASSUME ProfileInv, [ProfileNext]_profileVars, NEW f \in Field PROVE Kept(f)
  <2> USE <1>1 DEF ProfileInv, ProfileTypeOK
  <2>1. CASE UNCHANGED <<drafts, result>>
    BY <2>1 DEF DraftLeaves, SaidSaved
  <2>2. editing # Nothing => editing.field \in Field /\ drafts[editing.field] = editing
    BY DEF PageInv, PageShape, Edit
  <2>3. CASE ClosePage \/ SaveIsLost \/ SaveEdit
    <3>1. drafts' = drafts
      BY <2>3 DEF ClosePage, SaveIsLost, SaveEdit
    <3>2. \/ result' = result
          \/ \E h \in Field : result' = [result EXCEPT ![h] = Nothing]
          \/ \E h \in Field : result' = [result EXCEPT ![h] = ResultOf("unknown", saving.of)]
      BY <2>3 DEF ClosePage, SaveIsLost, SaveEdit, Busy, Saving, Edit
    <3> QED BY <3>1, <3>2 DEF DraftLeaves, SaidSaved, ResultOf
  <2>4. ASSUME NEW h \in Field, BeginEdit(h) PROVE Kept(f)
    <3>1. CASE drafts[h] # Nothing
      <4>1. drafts' = drafts /\ result' = result
        BY <2>4, <3>1 DEF BeginEdit, SetEditing, PageInv, PageShape
      <4> QED BY <2>1, <4>1
    <3>2. CASE drafts[h] = Nothing
      <4>1. EditOf(h, shown).field = h /\ EditOf(h, shown) \in Edit
        BY <2>4, EditsOfSnaps DEF BeginEdit
      <4>2. drafts' = [drafts EXCEPT ![h] = EditOf(h, shown)] /\ result' = [result EXCEPT ![h] = Nothing]
        BY <2>4, <3>2, <4>1, NothingIsApart DEF BeginEdit, SetEditing
      <4> QED BY <3>2, <4>2 DEF DraftLeaves, SaidSaved
    <3> QED BY <3>1, <3>2
  <2>5. ASSUME CancelEdit \/ \E t \in Written : Type(t) PROVE Kept(f)
    <3>1. Rejected(f)
      BY <2>5 DEF Rejected
    <3>2. result' = result \/ \E h \in Field : result' = [result EXCEPT ![h] = Nothing]
      BY <2>2, <2>5 DEF CancelEdit, Type
    <3> QED BY <3>1, <3>2 DEF SaidSaved
  <2>6. ASSUME NEW g \in gets, ReadArrives(g) PROVE Kept(f)
    <3>1. g.snap \in Snap /\ Stored(g.snap)
      BY <2>6 DEF ReadArrives, Get, PageInv, AnswersAreStored
    <3>2. CASE g.use = "reload" /\ Reloaded(g.snap)
      <4>1. editing # Nothing /\ EditOf(editing.field, g.snap) # Nothing
        BY <2>2, <3>1, <3>2, EditsOfSnaps, NothingIsApart DEF Reloaded
      <4>2. /\ drafts' = [drafts EXCEPT ![editing.field] = EditOf(editing.field, g.snap)]
            /\ result' = [result EXCEPT ![editing.field] = Nothing]
        BY <3>2, <4>1 DEF Reloaded, SetEditing, EditOf
      <4>3. f = editing.field => Rejected(f)
        <5>1. f = editing.field => \E h \in gets : h.use = "reload" /\ editing.field = f /\ ReadArrives(h)
          BY <2>6, <3>2, Zenon
        <5> QED BY <5>1, Zenon DEF Rejected
      <4>4. ~SaidSaved(f) /\ (f # editing.field => ~DraftLeaves(f))
        BY <2>2, <4>1, <4>2 DEF DraftLeaves, SaidSaved
      <4> QED BY <4>3, <4>4
    <3>3. CASE g.use = "check" /\ Checked(g.of, g.snap) /\ Confirms(g.of, g.snap)
      <4> DEFINE s == g.of
      <4>1. s \in Edit /\ s.field \in Field /\ s.rev \in Nat /\ result[s.field] = ResultOf("unknown", s)
        BY <3>3 DEF PageInv, ChecksAreAsked, Edit
      <4>2. /\ g.snap.text[s.field] = s.draft /\ g.snap.rev[s.field] > s.rev /\ g.snap.rev[s.field] \in Nat
            /\ result' = [result EXCEPT ![s.field] = ResultOf("saved", s)]
            /\ SetEditing(AfterCheck(s, g.snap))
        BY <3>1, <3>3, <4>1 DEF Checked, Confirms, Snap
      <4> HIDE DEF s
      <4>3. /\ g.snap.rev[s.field] \in ChangesOf(s.field)
            /\ changes[g.snap.rev[s.field]].text = s.draft
        BY <3>1, <4>1, <4>2 DEF Stored
      <4>4. StoredSince(s)
        BY <4>2, <4>3 DEF StoredSince
      <4>5. SaidSaved(f) => StoredSince(result'[f].of)
        BY <4>1, <4>2, <4>4 DEF SaidSaved, ResultOf
      <4>6. DraftLeaves(f) => /\ editing # Nothing /\ editing.field = s.field /\ editing.draft = s.draft
                              /\ f = s.field
        <5> SUFFICES ASSUME ~(editing # Nothing /\ editing.field = s.field /\ editing.draft = s.draft /\ f = s.field)
                     PROVE  ~DraftLeaves(f)
          OBVIOUS
        <5>1. CASE editing = Nothing \/ editing.field # s.field
          <6>1. drafts' = drafts
            BY <2>2, <4>2, <5>1 DEF AfterCheck, SetEditing
          <6> QED BY <6>1 DEF DraftLeaves
        <5>2. CASE editing # Nothing /\ editing.field = s.field /\ editing.draft = s.draft
          <6>1. drafts' = [drafts EXCEPT ![s.field] = Nothing]
            BY <4>2, <5>2 DEF AfterCheck, SetEditing
          <6> QED BY <5>2, <6>1 DEF DraftLeaves
        <5>3. CASE editing # Nothing /\ editing.field = s.field /\ editing.draft # s.draft
          <6> DEFINE d == [editing EXCEPT !.base = g.snap.text[s.field], !.rev = g.snap.rev[s.field]]
          <6>1. g.snap.text[s.field] \in Text /\ editing \in Edit
            BY <3>1, <4>1, <5>3 DEF Snap
          <6>2. d \in Edit /\ d.draft = editing.draft /\ d.field = s.field
            BY <4>2, <5>3, <6>1 DEF Edit
          <6>3. SetEditing(d)
            BY <4>2, <5>3 DEF AfterCheck
          <6> HIDE DEF d
          <6>4. drafts' = [drafts EXCEPT ![s.field] = d]
            BY <6>2, <6>3, NothingIsApart DEF SetEditing
          <6> QED BY <2>2, <4>1, <5>3, <6>2, <6>4, NothingIsApart DEF DraftLeaves
        <5> QED BY <5>1, <5>2, <5>3
      <4>7. DraftLeaves(f) => StoredSince(drafts[f])
        <5> SUFFICES ASSUME DraftLeaves(f) PROVE StoredSince(drafts[f])
          OBVIOUS
        <5>1. drafts[f].field = s.field /\ drafts[f].draft = s.draft /\ drafts[f] # Nothing /\ f = s.field
          BY <2>2, <4>6
        <5>2. drafts[f].rev = s.rev
          BY <4>1, <5>1, NothingIsApart DEF PageInv, ChecksAreAsked, Unknown, ResultOf, Result
        <5> QED BY <4>2, <4>3, <5>1, <5>2 DEF StoredSince
      <4> QED BY <4>5, <4>7
    <3>4. CASE UNCHANGED <<drafts, result>>
      BY <2>1, <3>4
    <3> QED BY <2>6, <3>2, <3>3, <3>4 DEF ReadArrives, Checked
  <2>7. CASE SaveAnswered
    <3>1. /\ saving.of = editing /\ editing # Nothing /\ editing \in Edit
          /\ saving.reply = "ok" => StoredSince(editing)
      BY <2>7, NothingIsApart DEF SaveAnswered, Busy, PageInv, PageShape, AnswersAreStored, Saving
    <3>2. CASE saving.reply = "ok"
      <4>1. /\ drafts' = [drafts EXCEPT ![editing.field] = Nothing]
            /\ result' = [result EXCEPT ![editing.field] = ResultOf("saved", editing)]
        BY <2>7, <3>1, <3>2 DEF SaveAnswered, SetEditing
      <4> QED BY <2>2, <3>1, <3>2, <4>1 DEF DraftLeaves, SaidSaved, ResultOf
    <3>3. CASE saving.reply # "ok"
      <4>1. /\ drafts' = drafts
            /\ result' = result \/ \E k \in {"invalid", "failed"} :
                                      result' = [result EXCEPT ![editing.field] = ResultOf(k, editing)]
        BY <2>7, <3>1, <3>3 DEF SaveAnswered
      <4> QED BY <2>2, <3>1, <4>1 DEF DraftLeaves, SaidSaved, ResultOf
    <3> QED BY <3>2, <3>3
  <2> QED
    BY <2>1, <2>3, <2>4, <2>5, <2>6, <2>7
    DEF ProfileNext, ToolUpdates, StartMaintenance, ApplyMaintenance, MaintenanceFails, HostStops, PauseEnds, OpenPage,
        HidePage, ShowPage, Poll, ServerReads, ReadFails, ReloadField, CheckSave, ServerSaves, StrayArrives,
        profileVars, pageVars
<1>2. ProfileInv /\ [ProfileNext]_profileVars => [\A f \in Field : Kept(f)]_profileVars
  BY <1>1
<1> QED BY <1>2, ProfileIsInvariant, PTL DEF ProfileSpec, DraftsAreKept

-----------------------------------------------------------------------------
(* DailyNotes *)

\* Where the write at the head of the process's queue is, the file is what it has read, and
\* the backup is that, too, once it has been put aside.
HeadHasRead(q) ==
  line[q] # << >> =>
    /\ Head1(q).at \in {"loaded", "backed"} => Head1(q).before = file /\ Accepts(file, Head1(q).write)
    /\ Head1(q).at = "backed" /\ file # NoFile => backup = file

\* Writes wait behind it; the queues of the runtimes are never used.
OthersWait(q) == \A i \in 1..Len(line[q]) : i > 1 => line[q][i].at = "waits"

NoteJob == [write : NoteWrites, at : {"waits", "loaded", "backed"}, before : NoteTexts]

NotesInv ==
  /\ NotesTypeOK
  /\ HeadHasRead("process") /\ OthersWait("process")
  /\ \A q \in Queues : q # "process" => line[q] = << >>

LEMMA NotesStart == NotesInit => NotesInv
<1> SUFFICES ASSUME NotesInit PROVE NotesInv
  OBVIOUS
<1>1. NotesTypeOK
  BY EmptySeq DEF NotesInit, NotesTypeOK, NoteTexts
<1> QED BY <1>1 DEF NotesInit, NotesInv, HeadHasRead, OthersWait, Queues

\* Operations on the queue of the process leave the others alone.
LEMMA LineChanges ==
  ASSUME NotesInv, NEW jobs \in Seq(NoteJob), line' = [line EXCEPT !["process"] = jobs],
         file' \in NoteTexts, backup' \in NoteTexts
  PROVE  /\ NotesTypeOK' /\ line'["process"] = jobs
         /\ \A q \in Queues : q # "process" => line'[q] = << >>
<1> DEFINE Jobs == Seq(NoteJob)
<1>1. line \in [Queues -> Jobs] /\ jobs \in Jobs
  BY DEF NotesInv, NotesTypeOK, NoteJob
<1> HIDE DEF Jobs
<1>2. "process" \in Queues
  BY DEF Queues
<1>3. line' \in [Queues -> Jobs]
  BY <1>1, <1>2
<1>4. NotesTypeOK'
  BY <1>3 DEF NotesTypeOK, NoteJob, Jobs
<1>5. /\ line'["process"] = jobs
      /\ \A q \in Queues : q # "process" => line'[q] = line[q]
  BY <1>1, <1>2
<1> QED BY <1>4, <1>5 DEF NotesInv

LEMMA LineIsTyped ==
  ASSUME NotesInv
  PROVE  /\ line["process"] \in Seq(NoteJob) /\ file \in NoteTexts /\ backup \in NoteTexts
         /\ DOMAIN line = Queues /\ "process" \in Queues
BY DEF NotesInv, NotesTypeOK, Queues, NoteJob

\* The first write of a queue has ended, one way or the other.
LEMMA LeavingKeeps ==
  ASSUME NotesInv, line["process"] # << >>, Leaves("process"), file' \in NoteTexts, backup' \in NoteTexts
  PROVE  NotesInv'
<1> DEFINE jobs == line["process"]
<1>1. jobs \in Seq(NoteJob) /\ jobs # << >> /\ "process" \in DOMAIN line
  BY LineIsTyped
<1>2. line' = [line EXCEPT !["process"] = Tail(jobs)]
  BY DEF Leaves
<1>3. OthersWait("process")
  BY DEF NotesInv
<1> DEFINE rest == Tail(jobs)
<1>4. rest \in Seq(NoteJob) /\ Len(rest) = Len(jobs) - 1 /\ \A i \in 1..Len(rest) : rest[i] = jobs[i + 1]
  BY <1>1, HeadTailProperties
<1>5. Len(jobs) \in Nat
  BY <1>1
<1> HIDE DEF rest, jobs
<1>6. NotesTypeOK' /\ line'["process"] = rest /\ \A q \in Queues : q # "process" => line'[q] = << >>
  BY <1>2, <1>4, LineChanges DEF rest
<1>7. \A i \in 1..Len(rest) : rest[i].at = "waits"
  BY <1>3, <1>4, <1>5 DEF OthersWait, jobs
<1>8. rest # << >> => 1 \in 1..Len(rest)
  BY <1>4
<1> QED BY <1>6, <1>7, <1>8 DEF NotesInv, HeadHasRead, OthersWait, Head1

LEMMA WriteNoteKeeps ==
  ASSUME NotesInv, NEW r, NEW w \in NoteWrites, WriteNote(r, w)
  PROVE  NotesInv'
<1> DEFINE jobs == line["process"]  more == Append(jobs, Waiting(w))
<1>1. jobs \in Seq(NoteJob) /\ file \in NoteTexts /\ backup \in NoteTexts
  BY LineIsTyped
<1>2. Waiting(w) \in NoteJob
  BY DEF Waiting, NoteJob, NoteTexts
<1>3. more \in Seq(NoteJob) /\ Len(more) = Len(jobs) + 1 /\ Len(jobs) \in Nat
      /\ \A i \in 1..Len(more) : more[i] = IF i = Len(jobs) + 1 THEN Waiting(w) ELSE jobs[i]
  BY <1>1, <1>2
<1>4. line' = [line EXCEPT !["process"] = more] /\ UNCHANGED <<file, backup>>
  BY DEF WriteNote, QueueOf
<1> HIDE DEF more, jobs
<1>5. NotesTypeOK' /\ line'["process"] = more /\ \A q \in Queues : q # "process" => line'[q] = << >>
  BY <1>1, <1>3, <1>4, LineChanges
<1>6. HeadHasRead("process") /\ OthersWait("process")
  BY DEF NotesInv
<1>7. OthersWait("process")'
  BY <1>3, <1>5, <1>6 DEF OthersWait, Waiting, jobs
<1>8. HeadHasRead("process")'
  <2>1. CASE jobs = << >>
    BY <1>3, <1>5, <2>1 DEF HeadHasRead, Head1, Waiting
  <2>2. CASE jobs # << >>
    <3>1. Len(jobs) > 0
      BY <1>1, <2>2, EmptySeq
    <3>2. more[1] = jobs[1]
      BY <1>3, <3>1
    <3> QED BY <1>4, <1>5, <1>6, <2>2, <3>2 DEF HeadHasRead, Head1, jobs, Accepts, Items, Holding
  <2> QED BY <2>1, <2>2
<1> QED BY <1>5, <1>7, <1>8 DEF NotesInv

\* The write at the head takes a step.
LEMMA HeadMoves ==
  ASSUME NotesInv, line["process"] # << >>, NEW job \in NoteJob,
         line' = [line EXCEPT !["process"] = [@ EXCEPT ![1] = job]],
         file' \in NoteTexts, backup' \in NoteTexts,
         job.at \in {"loaded", "backed"} => job.before = file' /\ Accepts(file', job.write),
         job.at = "backed" /\ file' # NoFile => backup' = file'
  PROVE  NotesInv'
<1> DEFINE jobs == line["process"]  moved == [jobs EXCEPT ![1] = job]
<1>1. jobs \in Seq(NoteJob) /\ "process" \in DOMAIN line /\ jobs # << >>
  BY LineIsTyped
<1>2. Len(jobs) \in Nat /\ Len(jobs) > 0
  BY <1>1, EmptySeq
<1>3. moved \in Seq(NoteJob) /\ Len(moved) = Len(jobs) /\ moved[1] = job
      /\ \A i \in 1..Len(moved) : i > 1 => moved[i] = jobs[i]
  BY <1>1, <1>2
<1>4. line' = [line EXCEPT !["process"] = moved]
  BY <1>1
<1>5. OthersWait("process")
  BY DEF NotesInv
<1>6. \A i \in 1..Len(jobs) : i > 1 => jobs[i].at = "waits"
  BY <1>5 DEF OthersWait
<1> HIDE DEF moved, jobs
<1>7. NotesTypeOK' /\ line'["process"] = moved /\ \A q \in Queues : q # "process" => line'[q] = << >>
  BY <1>3, <1>4, LineChanges
<1>8. OthersWait("process")'
  BY <1>3, <1>6, <1>7 DEF OthersWait
<1>9. HeadHasRead("process")'
  BY <1>3, <1>7 DEF HeadHasRead, Head1
<1> QED BY <1>7, <1>8, <1>9 DEF NotesInv

LEMMA UpdatedIsText ==
  ASSUME NEW text \in NoteTexts, NEW w \in NoteWrites
  PROVE  Updated(text, w) \in NoteTexts
<1> DEFINE items == Items(text)
<1>1. DOMAIN items \subseteq Title /\ items \in [DOMAIN items -> Note]
  BY DEF NoteTexts, Items
<1>2. CASE w.old = NoFile
  <2> DEFINE D == DOMAIN items \cup {w.title}
  <2>1. w.title \in Title /\ w.note \in Note
    BY <1>2, NotesAssumption DEF NoteWrites, NewItem, ChangedItem
  <2>2. Updated(text, w) = [t \in D |-> IF t = w.title THEN w.note ELSE items[t]]
    BY <1>2 DEF Updated
  <2> HIDE DEF items
  <2>3. D \in SUBSET Title /\ Updated(text, w) \in [D -> Note]
    BY <1>1, <2>1, <2>2
  <2> QED BY <2>3 DEF NoteTexts
<1>3. CASE w.old # NoFile
  <2>1. w.note \in Note
    BY DEF NoteWrites, NewItem, ChangedItem
  <2>2. Updated(text, w) = [t \in DOMAIN items |-> IF items[t] = w.old THEN w.note ELSE items[t]]
    BY <1>3 DEF Updated
  <2> HIDE DEF items
  <2>3. Updated(text, w) \in [DOMAIN items -> Note]
    BY <1>1, <2>1, <2>2
  <2> QED BY <1>1, <2>3 DEF NoteTexts
<1> QED BY <1>2, <1>3

\* A queue that goes on is the process's.
LEMMA GoesIsProcess ==
  ASSUME NotesInv, NEW q \in Queues, line[q] # << >>
  PROVE  q = "process" /\ Head1(q) \in NoteJob
<1>1. q = "process"
  BY DEF NotesInv
<1>2. line[q] \in Seq(NoteJob)
  BY <1>1, LineIsTyped
<1>3. 1 \in 1..Len(line[q])
  BY <1>2, EmptySeq
<1> QED BY <1>1, <1>2, <1>3 DEF Head1

LEMMA LoadKeeps ==
  ASSUME NotesInv, NEW q \in Queues, Load(q)
  PROVE  NotesInv'
<1>1. q = "process" /\ line[q] # << >> /\ Head1(q) \in NoteJob /\ UNCHANGED <<file, backup>>
  BY GoesIsProcess DEF Load, Goes
<1>2. file \in NoteTexts /\ backup \in NoteTexts
  BY LineIsTyped
<1>3. CASE Accepts(file, Head1(q).write)
  <2> DEFINE job == [Head1(q) EXCEPT !.at = "loaded", !.before = file]
  <2>1. job \in NoteJob /\ job.before = file /\ job.write = Head1(q).write /\ job.at = "loaded"
    BY <1>1, <1>2 DEF NoteJob
  <2>2. line' = [line EXCEPT ![q] = [@ EXCEPT ![1] = job]]
    BY <1>3, LineIsTyped, <1>1 DEF Load, Head1
  <2> HIDE DEF job
  <2>3. Accepts(file', job.write)
    BY <1>1, <1>3, <2>1
  <2> QED BY <1>1, <1>2, <2>1, <2>2, <2>3, HeadMoves
<1>4. CASE ~Accepts(file, Head1(q).write)
  BY <1>1, <1>2, <1>4, LeavingKeeps DEF Load
<1> QED BY <1>3, <1>4

LEMMA KeepBackupKeeps ==
  ASSUME NotesInv, NEW q \in Queues, KeepBackup(q)
  PROVE  NotesInv'
<1>1. /\ q = "process" /\ line[q] # << >> /\ Head1(q) \in NoteJob
      /\ Head1(q).at = "loaded" /\ UNCHANGED file
  BY GoesIsProcess DEF KeepBackup, Goes
<1>2. file \in NoteTexts /\ backup \in NoteTexts
  BY LineIsTyped
<1>3. Head1(q).before = file /\ Accepts(file, Head1(q).write)
  BY <1>1 DEF NotesInv, HeadHasRead
<1>4. backup' \in NoteTexts /\ (file # NoFile => backup' = file)
  BY <1>1, <1>2, <1>3 DEF KeepBackup
<1> DEFINE job == [Head1(q) EXCEPT !.at = "backed"]
<1>5. job \in NoteJob /\ job.before = file /\ job.write = Head1(q).write
  BY <1>1, <1>3 DEF NoteJob
<1>6. line' = [line EXCEPT ![q] = [@ EXCEPT ![1] = job]]
  BY LineIsTyped, <1>1 DEF KeepBackup, Head1
<1> HIDE DEF job
<1>7. Accepts(file', job.write)
  BY <1>1, <1>3, <1>5
<1> QED BY <1>1, <1>2, <1>4, <1>5, <1>6, <1>7, HeadMoves

LEMMA RenameKeeps ==
  ASSUME NotesInv, NEW q \in Queues, Rename(q)
  PROVE  /\ NotesInv'
         /\ line[q] # << >> /\ Accepts(file, Head1(q).write) /\ file' = Updated(file, Head1(q).write)
         /\ file # NoFile => backup = file
<1>1. /\ q = "process" /\ line[q] # << >> /\ Head1(q) \in NoteJob
      /\ Head1(q).at = "backed" /\ UNCHANGED backup /\ Leaves(q)
  BY GoesIsProcess DEF Rename, Goes
<1>2. file \in NoteTexts /\ backup \in NoteTexts
  BY LineIsTyped
<1>3. Head1(q).before = file /\ Accepts(file, Head1(q).write) /\ (file # NoFile => backup = file)
  BY <1>1 DEF NotesInv, HeadHasRead
<1>4. file' = Updated(file, Head1(q).write)
  BY <1>3 DEF Rename
<1>5. file' \in NoteTexts
  BY <1>1, <1>2, <1>4, UpdatedIsText DEF NoteJob
<1> QED BY <1>1, <1>2, <1>3, <1>4, <1>5, LeavingKeeps

LEMMA WriteFailsKeeps ==
  ASSUME NotesInv, NEW q \in Queues, WriteFails(q)
  PROVE  NotesInv'
BY GoesIsProcess, LineIsTyped, LeavingKeeps DEF WriteFails

LEMMA ProcessDiesKeeps ==
  ASSUME NotesInv, ProcessDies
  PROVE  NotesInv'
<1>1. NotesTypeOK'
  BY EmptySeq DEF ProcessDies, NotesInv, NotesTypeOK
<1> QED BY <1>1 DEF ProcessDies, NotesInv, HeadHasRead, OthersWait, Queues

LEMMA NotesStep ==
  ASSUME NotesInv, NotesNext
  PROVE  NotesInv'
<1>1. ASSUME NEW r \in Runtime, NEW w \in NoteWrites, WriteNote(r, w) PROVE NotesInv'
  BY <1>1, WriteNoteKeeps
<1>2. ASSUME NEW q \in Queues, Load(q) \/ KeepBackup(q) \/ Rename(q) \/ WriteFails(q) PROVE NotesInv'
  BY <1>2, LoadKeeps, KeepBackupKeeps, RenameKeeps, WriteFailsKeeps
<1>3. CASE ProcessDies
  BY <1>3, ProcessDiesKeeps
<1> QED BY <1>1, <1>2, <1>3 DEF NotesNext

\* The step that changes the file is a rename, and it puts one whole write in place.
LEMMA ChangeIsWhole ==
  ASSUME NotesInv, NotesNext, file' # file
  PROVE  /\ \E q \in Queues :
              /\ line[q] # << >>
              /\ Accepts(file, Head1(q).write) /\ file' = Updated(file, Head1(q).write)
         /\ file # NoFile => backup = file
<1>1. PICK q \in Queues : Rename(q)
  BY DEF NotesNext, WriteNote, Load, KeepBackup, WriteFails, ProcessDies
<1> QED BY <1>1, RenameKeeps

\* WritesAreWhole, whatever runtimes, titles and notes there are.
THEOREM NotesAreWhole == NotesSpec => WritesAreWhole
<1>1. NotesInit => NotesInv
  BY NotesStart
<1>2. NotesInv /\ [NotesNext]_noteVars => NotesInv'
  <2>1. ASSUME NotesInv, UNCHANGED noteVars PROVE NotesInv'
    <3>1. NotesTypeOK'
      BY <2>1 DEF NotesInv, NotesTypeOK, noteVars
    <3> QED BY <2>1, <3>1 DEF NotesInv, noteVars, HeadHasRead, OthersWait, Head1, Accepts, Items, Holding
  <2> QED BY <2>1, NotesStep
<1>3. NotesInv /\ [NotesNext]_noteVars =>
        [file' # file =>
           /\ \E q \in Queues :
                /\ line[q] # << >>
                /\ Accepts(file, Head1(q).write) /\ file' = Updated(file, Head1(q).write)
           /\ file # NoFile => backup = file]_noteVars
  BY ChangeIsWhole DEF noteVars
<1> QED BY <1>1, <1>2, <1>3, PTL DEF NotesSpec, WritesAreWhole

-----------------------------------------------------------------------------
(* Settings *)

Row == [size : Size, revision : Nat]
MemoryInstance == [stage : {"closed", "opening", "open"}, size : Size, revision : Nat, saves : BOOLEAN]
ApplyType == [stage : {"idle", "flush", "spaces", "rows"}, size : Size, done : SUBSET Namespace,
           read : SUBSET [namespace : Namespace, revision : Nat]]

SettingsTypeOK ==
  /\ setting = {} \/ (\E v \in Size : setting = {v})
  /\ live \in Size /\ row \in [Namespace -> Row] /\ space \in [Namespace -> MemoryInstance]
  /\ admin = NoAdmin \/ admin \in [namespace : Namespace, memory : MemoryInstance]
  /\ settingsTail \in Seq(Size) /\ apply \in ApplyType
  /\ accepted \in BOOLEAN /\ up \in BOOLEAN

\* An instance that is about to save the size it was opened with.
Unsaved(i) == i.stage = "opening" /\ i.saves

\* What an instance i knows of its record r, when v is the size of the host: it is never ahead of
\* it; at its revision it has its size, or will save the host's.
Known(r, i) == i.revision <= r.revision
Honest(r, v, i) ==
  i.stage # "closed" /\ i.revision = r.revision =>
    IF Unsaved(i) THEN i.size = v /\ r.size # v ELSE i.size = r.size

\* A session's instance that has the host's size came to it with its record.
Backed(r, v, i) == i.stage # "closed" /\ ~Unsaved(i) /\ i.size = v => r.size = v

InstancesKnown ==
  /\ \A n \in Namespace : Known(row[n], space[n])
  /\ admin # NoAdmin => Known(row[admin.namespace], admin.memory)

AtRest == apply.stage \in {"idle", "flush"}
Visited(n) == apply.stage # "spaces" \/ n \in apply.done

RowsHonest ==
  /\ \A n \in Namespace : Honest(row[n], live, space[n]) /\ Backed(row[n], live, space[n])
  /\ admin # NoAdmin => Honest(row[admin.namespace], live, admin.memory)

\* Where the change is that runs: what it has visited has the size it applies.
ChangeGoesOn ==
  /\ setting \subseteq {live}
  /\ IF AtRest THEN apply.done = {} ELSE apply.size = live
  /\ \A n \in Namespace : AtRest \/ n \in apply.done => row[n].size = live
  /\ \A n \in Namespace : Visited(n) /\ space[n].stage # "closed" => space[n].size = live

\* A host that is down has nothing open.
DownIsEmpty ==
  ~up => space = [n \in Namespace |-> Closed] /\ admin = NoAdmin /\ settingsTail = << >> /\ apply = NoApply

SettingsInv ==
  /\ SettingsTypeOK /\ InstancesKnown /\ DownIsEmpty
  /\ up /\ accepted => RowsHonest /\ ChangeGoesOn

-----------------------------------------------------------------------------

LEMMA ClosedIsInstance == Closed \in MemoryInstance /\ NoApply \in ApplyType
BY SettingsAssumption DEF Closed, MemoryInstance, NoApply, ApplyType

LEMMA SettingsStart == SettingsInit => SettingsInv
<1> SUFFICES ASSUME SettingsInit PROVE SettingsInv
  OBVIOUS
<1>1. row \in [Namespace -> Row]
  BY DEF SettingsInit, Row
<1>2. SettingsTypeOK
  BY <1>1, ClosedIsInstance, SettingsAssumption, EmptySeq DEF SettingsInit, SettingsTypeOK
<1>3. \A n \in Namespace : row[n].revision = 1
  BY DEF SettingsInit
<1>4. InstancesKnown
  BY <1>3 DEF SettingsInit, InstancesKnown, Known, Closed
<1> QED BY <1>2, <1>4 DEF SettingsInit, SettingsInv, DownIsEmpty

\* What a save does to those who know of the former record.
LEMMA BumpedRecord ==
  ASSUME NEW n \in Namespace, NEW s \in Size, row \in [Namespace -> Row], row' = Bumped(n, s)
  PROVE  /\ row' \in [Namespace -> Row] /\ row'[n].size = s /\ row'[n].revision = row[n].revision + 1
         /\ \A m \in Namespace : m # n => row'[m] = row[m]
<1> DEFINE saved == [size |-> s, revision |-> row[n].revision + 1]
<1>1. row[n] \in Row
  OBVIOUS
<1>2. saved \in Row
  BY <1>1 DEF Row
<1>3. row' = [row EXCEPT ![n] = saved]
  BY DEF Bumped
<1>4. saved.size = s /\ saved.revision = row[n].revision + 1
  OBVIOUS
<1> HIDE DEF saved
<1> QED BY <1>2, <1>3, <1>4

LEMMA BumpedIsStale ==
  ASSUME NEW r \in Row, NEW s \in Row, NEW i \in MemoryInstance, NEW v, s.revision = r.revision + 1, Known(r, i)
  PROVE  Known(s, i) /\ Honest(s, v, i)
BY DEF Row, MemoryInstance, Known, Honest

LEMMA OpeningIsHonest ==
  ASSUME NEW n \in Namespace, row[n] \in Row, live \in Size
  PROVE  /\ Opening(n) \in MemoryInstance /\ Known(row[n], Opening(n)) /\ Opening(n).stage = "opening"
         /\ Honest(row[n], live, Opening(n)) /\ Backed(row[n], live, Opening(n)) /\ Opening(n).size = live
<1> DEFINE differs == row[n].size # live  i == Opening(n)
<1>1. differs \in BOOLEAN /\ row[n].revision \in Nat
  BY DEF Row
<1>2. i = [stage |-> "opening", size |-> live, revision |-> row[n].revision, saves |-> differs]
  BY DEF Opening
<1>3. differs <=> row[n].size # live
  OBVIOUS
<1> HIDE DEF differs, i
<1>4. i \in MemoryInstance
  BY <1>1, <1>2 DEF MemoryInstance
<1>5. i.stage = "opening" /\ i.size = live /\ i.revision = row[n].revision /\ i.saves = differs
  BY <1>2
<1>6. Known(row[n], i)
  BY <1>1, <1>5 DEF Known
<1>7. Honest(row[n], live, i) /\ Backed(row[n], live, i)
  BY <1>1, <1>3, <1>5 DEF Honest, Backed, Unsaved
<1> QED BY <1>4, <1>5, <1>6, <1>7 DEF i

\* An instance that has opened, and its record: r is the record, s the record afterwards.
LEMMA OpenedIsHonest ==
  ASSUME NEW n \in Namespace, NEW i \in MemoryInstance, i.stage = "opening", row \in [Namespace -> Row],
         live \in Size, Known(row[n], i), row' = RowOpened(n, i)
  PROVE  /\ Opened(n, i) \in MemoryInstance /\ row' \in [Namespace -> Row]
         /\ Known(row'[n], Opened(n, i))
         /\ \A m \in Namespace : m # n => row'[m] = row[m]
         /\ row'[n] = row[n] \/ (row'[n].revision = row[n].revision + 1 /\ Unsaved(i) /\ UpToDate(n, i) /\ row'[n].size = i.size)
         /\ ~Unsaved(Opened(n, i))
         /\ Opened(n, i) # Closed => Opened(n, i).stage = "open" /\ Opened(n, i).size = i.size
         /\ Honest(row[n], live, i) => Honest(row'[n], live, Opened(n, i))
         /\ Backed(row[n], live, i) => Backed(row'[n], live, Opened(n, i))
<1>1. row[n] \in Row
  OBVIOUS
<1>2. CASE ~i.saves
  <2>1. row' = row /\ Opened(n, i) = [i EXCEPT !.stage = "open"]
    BY <1>2 DEF RowOpened, Opened
  <2>2. /\ [i EXCEPT !.stage = "open"] \in MemoryInstance /\ [i EXCEPT !.stage = "open"].stage = "open"
        /\ [i EXCEPT !.stage = "open"].size = i.size /\ [i EXCEPT !.stage = "open"].revision = i.revision
    BY DEF MemoryInstance
  <2> QED BY <1>2, <2>1, <2>2 DEF Known, Honest, Backed, Unsaved
<1>3. CASE i.saves /\ UpToDate(n, i)
  <2> DEFINE next == i.revision + 1
             j == [i EXCEPT !.stage = "open", !.saves = FALSE, !.revision = next]
  <2>1. row' = Bumped(n, i.size) /\ Opened(n, i) = j
    BY <1>3 DEF RowOpened, Opened
  <2>2. next \in Nat /\ i.size \in Size
    BY DEF MemoryInstance
  <2>3. next = row[n].revision + 1
    BY <1>3 DEF UpToDate
  <2> HIDE DEF next
  <2>4. j \in MemoryInstance /\ j.stage = "open" /\ j.size = i.size /\ j.revision = next
    BY <2>2 DEF MemoryInstance
  <2> HIDE DEF j
  <2>5. /\ row' \in [Namespace -> Row] /\ row'[n].size = i.size /\ row'[n].revision = row[n].revision + 1
        /\ \A m \in Namespace : m # n => row'[m] = row[m]
    BY <2>1, <2>2, BumpedRecord
  <2>6. Known(row'[n], j)
    BY <2>2, <2>3, <2>4, <2>5 DEF Known
  <2> QED BY <1>3, <2>1, <2>4, <2>5, <2>6 DEF Honest, Backed, Unsaved
<1>4. CASE i.saves /\ ~UpToDate(n, i)
  <2>1. row' = row /\ Opened(n, i) = Closed
    BY <1>4 DEF RowOpened, Opened
  <2>2. Known(row[n], Closed)
    BY <1>1 DEF Known, Closed, Row
  <2> QED BY <2>1, <2>2, ClosedIsInstance DEF Honest, Backed, Unsaved, Closed
<1> QED BY <1>2, <1>3, <1>4

\* The record of n may get a save, of its own size or of another.
RowStep(n) ==
  /\ row' \in [Namespace -> Row]
  /\ \A m \in Namespace : m # n => row'[m] = row[m]
  /\ row'[n] = row[n] \/ row'[n].revision = row[n].revision + 1
KeepsSize(n) == row'[n].size = row[n].size \/ row'[n].size = live

\* The instance j of n, after such a step.
FitsRecord(n, j) ==
  /\ j \in MemoryInstance /\ Known(row'[n], j)
  /\ up /\ accepted => Honest(row'[n], live, j)
FitsSession(n, j) ==
  /\ FitsRecord(n, j)
  /\ up /\ accepted => /\ Backed(row'[n], live, j)
                       /\ Visited(n) /\ j.stage # "closed" => j.size = live

Running == up /\ accepted /\ RowsHonest /\ ChangeGoesOn

\* An instance that takes no part keeps what it knows.
LEMMA OthersKeep ==
  ASSUME SettingsTypeOK, NEW n \in Namespace, RowStep(n), NEW m \in Namespace, NEW i \in MemoryInstance, Known(row[m], i)
  PROVE  /\ Known(row'[m], i)
         /\ Honest(row[m], live, i) => Honest(row'[m], live, i)
         /\ KeepsSize(n) /\ Backed(row[m], live, i) => Backed(row'[m], live, i)
<1>1. row[n] \in Row /\ row'[n] \in Row
  BY DEF SettingsTypeOK, RowStep
<1>2. CASE row'[m] = row[m]
  BY <1>2
<1>3. CASE m = n /\ row'[n].revision = row[n].revision + 1
  BY <1>1, <1>3, BumpedIsStale DEF KeepsSize, Backed
<1> QED BY <1>2, <1>3 DEF RowStep

\* Sessions' instances and the admin's take a step at n; the host and the change do not.
SessionsFit(n) ==
  /\ space' \in [Namespace -> MemoryInstance]
  /\ \A m \in Namespace : space'[m] = space[m] \/ (m = n /\ FitsSession(n, space'[n]))
AdminFits(n) ==
  \/ admin' = NoAdmin \/ admin' = admin
  \/ admin' \in [namespace : {n}, memory : MemoryInstance] /\ FitsRecord(n, admin'.memory)

LEMMA InstancesMove ==
  ASSUME SettingsInv, NEW n \in Namespace, RowStep(n), SessionsFit(n), AdminFits(n),
         Running => KeepsSize(n), UNCHANGED <<live, setting, apply>>
  PROVE  /\ row' \in [Namespace -> Row] /\ space' \in [Namespace -> MemoryInstance]
         /\ admin' = NoAdmin \/ admin' \in [namespace : Namespace, memory : MemoryInstance]
         /\ InstancesKnown'
         /\ up /\ accepted => RowsHonest' /\ ChangeGoesOn'
<1>1. SettingsTypeOK /\ InstancesKnown
  BY DEF SettingsInv
<1>2. admin # NoAdmin => admin.namespace \in Namespace /\ admin.memory \in MemoryInstance
  BY <1>1 DEF SettingsTypeOK
<1>3. \A m \in Namespace : space[m] \in MemoryInstance /\ Known(row[m], space[m])
  BY <1>1 DEF SettingsTypeOK, InstancesKnown
<1>4. \A m \in Namespace : Known(row'[m], space'[m])
  BY <1>1, <1>3, OthersKeep DEF SessionsFit, FitsSession, FitsRecord
<1>5. admin' # NoAdmin => admin'.namespace \in Namespace /\ admin'.memory \in MemoryInstance
                          /\ Known(row'[admin'.namespace], admin'.memory)
  <2>1. CASE admin' = admin
    BY <1>1, <1>2, <2>1, OthersKeep DEF InstancesKnown
  <2>2. CASE admin' \in [namespace : {n}, memory : MemoryInstance] /\ FitsRecord(n, admin'.memory)
    BY <2>2 DEF FitsRecord
  <2> QED BY <2>1, <2>2 DEF AdminFits
<1>6. ASSUME up, accepted PROVE RowsHonest' /\ ChangeGoesOn'
  <2>1. RowsHonest /\ ChangeGoesOn /\ KeepsSize(n)
    BY <1>6 DEF SettingsInv, Running
  <2>2. ASSUME NEW m \in Namespace
        PROVE  Honest(row'[m], live', space'[m]) /\ Backed(row'[m], live', space'[m])
    <3>1. CASE space'[m] = space[m]
      BY <1>1, <1>3, <2>1, <3>1, OthersKeep DEF RowsHonest
    <3>2. CASE m = n /\ FitsSession(n, space'[n])
      BY <1>6, <3>2 DEF FitsSession, FitsRecord
    <3> QED BY <3>1, <3>2 DEF SessionsFit
  <2>3. admin' # NoAdmin => Honest(row'[admin'.namespace], live', admin'.memory)
    <3>1. CASE admin' = admin
      BY <1>1, <1>2, <2>1, <3>1, OthersKeep DEF RowsHonest, InstancesKnown
    <3>2. CASE admin' \in [namespace : {n}, memory : MemoryInstance] /\ FitsRecord(n, admin'.memory)
      BY <1>6, <3>2 DEF FitsRecord
    <3> QED BY <3>1, <3>2 DEF AdminFits
  <2>4. \A m \in Namespace : row[m].size = live => row'[m].size = live'
    BY <2>1 DEF RowStep, KeepsSize
  <2>5. \A m \in Namespace : Visited(m) /\ space'[m].stage # "closed" => space'[m].size = live'
    BY <1>6, <2>1 DEF SessionsFit, FitsSession, ChangeGoesOn
  <2>6. ChangeGoesOn'
    BY <2>1, <2>4, <2>5 DEF ChangeGoesOn, AtRest, Visited
  <2> QED BY <2>2, <2>3, <2>6 DEF RowsHonest
<1>7. admin' = NoAdmin \/ admin' \in [namespace : Namespace, memory : MemoryInstance]
  BY <1>1 DEF AdminFits, SettingsTypeOK
<1>8. InstancesKnown'
  BY <1>4, <1>5 DEF InstancesKnown
<1> QED BY <1>6, <1>7, <1>8 DEF RowStep, SessionsFit

\* The rest of the invariant, where the change does not move.
LEMMA InstanceStep ==
  ASSUME SettingsInv, NEW n \in Namespace, RowStep(n), SessionsFit(n), AdminFits(n),
         Running => KeepsSize(n), UNCHANGED <<live, setting, apply, settingsTail, accepted, up>>, up
  PROVE  SettingsInv'
<1>1. SettingsTypeOK'
  BY InstancesMove DEF SettingsInv, SettingsTypeOK
<1> QED BY <1>1, InstancesMove DEF SettingsInv, DownIsEmpty

LEMMA StaysAt ==
  ASSUME SettingsInv
  PROVE  /\ \A n \in Namespace : UNCHANGED row => RowStep(n) /\ KeepsSize(n)
         /\ \A n \in Namespace : UNCHANGED space => SessionsFit(n)
         /\ \A n \in Namespace : UNCHANGED admin => AdminFits(n)
BY DEF SettingsInv, SettingsTypeOK, RowStep, KeepsSize, SessionsFit, AdminFits

LEMMA InstanceIsTyped ==
  ASSUME SettingsInv, NEW n \in Namespace
  PROVE  /\ row \in [Namespace -> Row] /\ row[n] \in Row /\ space[n] \in MemoryInstance /\ live \in Size
         /\ Known(row[n], space[n])
         /\ space[n].stage # "closed" => up
         /\ up /\ accepted => /\ Honest(row[n], live, space[n]) /\ Backed(row[n], live, space[n])
                              /\ Visited(n) /\ space[n].stage # "closed" => space[n].size = live
BY DEF SettingsInv, SettingsTypeOK, InstancesKnown, RowsHonest, ChangeGoesOn, DownIsEmpty, Closed

LEMMA AdminIsTyped ==
  ASSUME SettingsInv, admin # NoAdmin
  PROVE  /\ admin \in [namespace : Namespace, memory : MemoryInstance] /\ up
         /\ Known(row[admin.namespace], admin.memory)
         /\ up /\ accepted => Honest(row[admin.namespace], live, admin.memory)
BY DEF SettingsInv, SettingsTypeOK, InstancesKnown, RowsHonest, DownIsEmpty

LEMMA OpenSpaceKeeps ==
  ASSUME SettingsInv, NEW n \in Namespace, OpenSpace(n)
  PROVE  SettingsInv'
<1> DEFINE j == Opening(n)
<1>1. /\ j \in MemoryInstance /\ Known(row[n], j) /\ Honest(row[n], live, j) /\ Backed(row[n], live, j)
      /\ j.size = live
  BY InstanceIsTyped, OpeningIsHonest
<1>2. space' = [space EXCEPT ![n] = j] /\ UNCHANGED <<row, admin, saves>> /\ UNCHANGED Others /\ up
  BY DEF OpenSpace
<1> HIDE DEF j
<1>3. FitsSession(n, j)
  BY <1>1, <1>2 DEF FitsSession, FitsRecord
<1>4. SessionsFit(n)
  BY <1>1, <1>2, <1>3 DEF SessionsFit, SettingsInv, SettingsTypeOK
<1> QED BY <1>2, <1>4, StaysAt, InstanceStep DEF Others

LEMMA SpaceSavesKeeps ==
  ASSUME SettingsInv, NEW n \in Namespace, SpaceSaves(n)
  PROVE  SettingsInv'
<1> DEFINE i == space[n]  next == i.revision + 1  j == [i EXCEPT !.revision = next]
<1>1. /\ row' = Bumped(n, i.size) /\ space' = [space EXCEPT ![n] = j] /\ UNCHANGED admin /\ UNCHANGED Others
      /\ i.stage = "open" /\ i.revision = row[n].revision
  BY DEF SpaceSaves, RowSaved, Saved, UpToDate
<1>2. i \in MemoryInstance /\ i.size \in Size /\ next \in Nat /\ up /\ row \in [Namespace -> Row]
  BY <1>1, InstanceIsTyped DEF MemoryInstance
<1>3. row' \in [Namespace -> Row] /\ row'[n].size = i.size /\ row'[n].revision = next
      /\ \A m \in Namespace : m # n => row'[m] = row[m]
  BY <1>1, <1>2, BumpedRecord
<1>4. next = row[n].revision + 1
  BY <1>1
<1> HIDE DEF next
<1>5. j \in MemoryInstance /\ j.stage = "open" /\ j.size = i.size /\ j.revision = next
  BY <1>1, <1>2 DEF MemoryInstance
<1> HIDE DEF j
<1>6. up /\ accepted => i.size = row[n].size /\ (Visited(n) => i.size = live)
  BY <1>1, InstanceIsTyped DEF Honest, Unsaved
<1>7. FitsSession(n, j)
  BY <1>2, <1>3, <1>5, <1>6 DEF FitsSession, FitsRecord, Known, Honest, Backed, Unsaved
<1>8. SessionsFit(n)
  BY <1>1, <1>5, <1>7 DEF SessionsFit, SettingsInv, SettingsTypeOK
<1>9. RowStep(n) /\ (Running => KeepsSize(n))
  BY <1>3, <1>4, <1>6 DEF RowStep, KeepsSize, Running
<1> QED BY <1>1, <1>2, <1>8, <1>9, StaysAt, InstanceStep DEF Others

\* Reading the record again, when it has the size of the instance.
LEMMA RereadIsHonest ==
  ASSUME NEW n \in Namespace, NEW i \in MemoryInstance, row[n] \in Row, i.stage = "open", Known(row[n], i)
  PROVE  /\ Reread(n, i) \in MemoryInstance /\ Known(row[n], Reread(n, i))
         /\ Reread(n, i).stage = "open" /\ Reread(n, i).size = i.size
         /\ Honest(row[n], live, i) => Honest(row[n], live, Reread(n, i))
<1> DEFINE new == row[n].revision  j == [i EXCEPT !.revision = new]
<1>1. new \in Nat
  BY DEF Row
<1>2. Reread(n, i) = IF row[n].size = i.size THEN j ELSE i
  BY DEF Reread
<1>3. j \in MemoryInstance /\ j.stage = "open" /\ j.size = i.size /\ j.revision = new
  BY <1>1 DEF MemoryInstance
<1> HIDE DEF j
<1> QED BY <1>1, <1>2, <1>3 DEF Known, Honest, Unsaved

LEMMA SpaceRereadsKeeps ==
  ASSUME SettingsInv, NEW n \in Namespace, SpaceRereads(n)
  PROVE  SettingsInv'
<1> DEFINE i == space[n]  j == Reread(n, i)
<1>1. space' = [space EXCEPT ![n] = j] /\ UNCHANGED <<row, admin, saves>> /\ UNCHANGED Others /\ i.stage = "open"
  BY DEF SpaceRereads
<1>2. /\ i \in MemoryInstance /\ up /\ row[n] \in Row /\ Known(row[n], i)
      /\ up /\ accepted => /\ Honest(row[n], live, i) /\ Backed(row[n], live, i)
                           /\ Visited(n) => i.size = live
  BY <1>1, InstanceIsTyped
<1>3. /\ j \in MemoryInstance /\ Known(row[n], j) /\ j.stage = "open" /\ j.size = i.size
      /\ Honest(row[n], live, i) => Honest(row[n], live, j)
  BY <1>1, <1>2, RereadIsHonest
<1> HIDE DEF j
<1>4. FitsSession(n, j)
  BY <1>1, <1>2, <1>3 DEF FitsSession, FitsRecord, Backed, Unsaved
<1>5. SessionsFit(n)
  BY <1>1, <1>3, <1>4 DEF SessionsFit, SettingsInv, SettingsTypeOK
<1> QED BY <1>1, <1>2, <1>5, StaysAt, InstanceStep DEF Others

LEMMA OpenAdminKeeps ==
  ASSUME SettingsInv, NEW n \in Namespace, OpenAdminMemory(n)
  PROVE  SettingsInv'
<1> DEFINE j == Opening(n)
<1>1. j \in MemoryInstance /\ Known(row[n], j) /\ Honest(row[n], live, j)
  BY InstanceIsTyped, OpeningIsHonest
<1>2. admin' = [namespace |-> n, memory |-> j] /\ UNCHANGED <<row, space, saves>> /\ UNCHANGED Others /\ up
  BY DEF OpenAdminMemory
<1> HIDE DEF j
<1>3. AdminFits(n)
  BY <1>1, <1>2 DEF AdminFits, FitsRecord
<1> QED BY <1>2, <1>3, StaysAt, InstanceStep DEF Others

\* The admin's own instance takes a step, its record with it.
LEMMA AdminMoves ==
  ASSUME SettingsInv, NEW n \in Namespace, admin.namespace = n, admin # NoAdmin, NEW j \in MemoryInstance,
         admin' = [admin EXCEPT !.memory = j], FitsRecord(n, j), RowStep(n), Running => KeepsSize(n),
         UNCHANGED <<space, live, setting, apply, settingsTail, accepted, up>>
  PROVE  SettingsInv'
<1>1. admin \in [namespace : Namespace, memory : MemoryInstance] /\ up
  BY AdminIsTyped
<1>2. admin' = [namespace |-> n, memory |-> j]
  BY <1>1
<1>3. AdminFits(n)
  BY <1>2 DEF AdminFits
<1> QED BY <1>1, <1>3, StaysAt, InstanceStep

LEMMA AdminOpenedKeeps ==
  ASSUME SettingsInv, AdminOpened
  PROVE  SettingsInv'
<1> DEFINE n == admin.namespace  i == admin.memory  j == Opened(n, i)
<1>1. admin # NoAdmin /\ i.stage = "opening"
  BY DEF AdminOpened, NoAdmin, Closed
<1>2. /\ n \in Namespace /\ i \in MemoryInstance /\ up /\ Known(row[n], i)
      /\ up /\ accepted => Honest(row[n], live, i)
  BY <1>1, AdminIsTyped
<1>3. row \in [Namespace -> Row] /\ live \in Size
  BY <1>2, InstanceIsTyped
<1>4. /\ row' = RowOpened(n, i) /\ UNCHANGED <<space, saves>> /\ UNCHANGED Others
      /\ admin' = IF j = Closed THEN NoAdmin ELSE [admin EXCEPT !.memory = j]
  BY DEF AdminOpened
<1> HIDE DEF n, i
<1>5. /\ j \in MemoryInstance /\ row' \in [Namespace -> Row] /\ Known(row'[n], j)
      /\ \A m \in Namespace : m # n => row'[m] = row[m]
      /\ row'[n] = row[n] \/ (row'[n].revision = row[n].revision + 1 /\ Unsaved(i) /\ UpToDate(n, i) /\ row'[n].size = i.size)
      /\ Honest(row[n], live, i) => Honest(row'[n], live, j)
  BY <1>1, <1>2, <1>3, <1>4, OpenedIsHonest
<1> HIDE DEF j
<1>6. RowStep(n)
  BY <1>5 DEF RowStep
<1>7. Running => KeepsSize(n)
  BY <1>1, <1>2, <1>5 DEF Running, KeepsSize, Honest, UpToDate, Unsaved
<1>8. FitsRecord(n, j)
  BY <1>2, <1>5 DEF FitsRecord
<1>9. CASE j = Closed
  <2>1. AdminFits(n)
    BY <1>4, <1>9 DEF AdminFits
  <2> QED BY <1>2, <1>4, <1>6, <1>7, <2>1, StaysAt, InstanceStep DEF Others
<1>10. CASE j # Closed
  BY <1>1, <1>2, <1>4, <1>5, <1>6, <1>7, <1>8, <1>10, AdminMoves DEF Others, n
<1> QED BY <1>9, <1>10

LEMMA AdminSavesKeeps ==
  ASSUME SettingsInv, AdminSaves
  PROVE  SettingsInv'
<1> DEFINE n == admin.namespace  i == admin.memory  j == Reread(n, Saved(n, i))
<1>1. admin # NoAdmin /\ i.stage = "open"
  BY DEF AdminSaves, NoAdmin, Closed
<1>2. /\ n \in Namespace /\ i \in MemoryInstance /\ up /\ Known(row[n], i)
      /\ up /\ accepted => Honest(row[n], live, i)
  BY <1>1, AdminIsTyped
<1>3. row \in [Namespace -> Row] /\ row[n] \in Row /\ live \in Size
  BY <1>2, InstanceIsTyped
<1>4. row' = RowSaved(n, i) /\ admin' = [admin EXCEPT !.memory = j] /\ UNCHANGED space /\ UNCHANGED Others
  BY DEF AdminSaves
<1>5. n = admin.namespace
  OBVIOUS
<1> HIDE DEF n, i
<1>6. CASE UpToDate(n, i)
  <2> DEFINE next == i.revision + 1  saved == [i EXCEPT !.revision = next]  again == row[n].revision
             back == [saved EXCEPT !.revision = again]
  <2>1. next \in Nat /\ i.size \in Size /\ next = row[n].revision + 1 /\ again \in Nat /\ again = i.revision
    BY <1>2, <1>3, <1>6 DEF MemoryInstance, UpToDate, Row
  <2>2. row' = Bumped(n, i.size) /\ Saved(n, i) = saved
    BY <1>4, <1>6 DEF RowSaved, Saved
  <2> HIDE DEF next
  <2>3. saved \in MemoryInstance /\ saved.stage = "open" /\ saved.size = i.size /\ saved.revision = next
    BY <1>1, <1>2, <2>1 DEF MemoryInstance
  <2> HIDE DEF saved, again
  <2>4. back \in MemoryInstance /\ back.stage = "open" /\ back.size = i.size /\ back.revision = again
    BY <2>1, <2>3 DEF MemoryInstance
  <2>5. j = IF row[n].size = i.size THEN back ELSE saved
    BY <2>2, <2>3 DEF Reread, again
  <2> HIDE DEF back
  <2>6. /\ row' \in [Namespace -> Row] /\ row'[n].size = i.size /\ row'[n].revision = next
        /\ \A m \in Namespace : m # n => row'[m] = row[m]
    BY <1>2, <1>3, <2>1, <2>2, BumpedRecord
  <2>7. up /\ accepted => row[n].size = i.size
    BY <1>1, <1>2, <1>6 DEF Honest, Unsaved, UpToDate
  <2>8. RowStep(n) /\ (Running => KeepsSize(n))
    BY <2>1, <2>6, <2>7 DEF RowStep, KeepsSize, Running
  <2>9. again <= next
    BY <2>1 DEF next
  <2>10. FitsRecord(n, j)
    BY <2>1, <2>3, <2>4, <2>5, <2>6, <2>9 DEF FitsRecord, Known, Honest, Unsaved
  <2> QED BY <1>1, <1>2, <1>4, <1>5, <2>8, <2>10, AdminMoves DEF Others, FitsRecord
<1>7. CASE ~UpToDate(n, i)
  <2>1. row' = row /\ Saved(n, i) = i
    BY <1>4, <1>7 DEF RowSaved, Saved
  <2>2. j \in MemoryInstance /\ FitsRecord(n, j)
    BY <1>1, <1>2, <1>3, <2>1, RereadIsHonest DEF FitsRecord
  <2> QED BY <1>1, <1>2, <1>4, <1>5, <2>1, <2>2, StaysAt, AdminMoves DEF Others
<1> QED BY <1>6, <1>7

LEMMA CloseAdminKeeps ==
  ASSUME SettingsInv, CloseAdminMemory
  PROVE  SettingsInv'
<1>1. admin # NoAdmin
  BY DEF CloseAdminMemory, NoAdmin, Closed
<1>2. admin.namespace \in Namespace /\ up
  BY <1>1, AdminIsTyped
<1>3. AdminFits(admin.namespace) /\ UNCHANGED <<row, space>> /\ UNCHANGED Others
  BY DEF CloseAdminMemory, AdminFits
<1> QED BY <1>2, <1>3, StaysAt, InstanceStep DEF Others

\* After a failure nothing is promised but that everyone knows what is recorded.
LEMMA FailureKeeps ==
  ASSUME SettingsInv, up, UNCHANGED <<row, admin, settingsTail, up>>, accepted' = FALSE, apply' = NoApply,
         live' \in Size, setting' = setting, space' \in [Namespace -> MemoryInstance],
         \A n \in Namespace : Known(row[n], space'[n])
  PROVE  SettingsInv'
<1>1. SettingsTypeOK'
  BY ClosedIsInstance DEF SettingsInv, SettingsTypeOK
<1>2. InstancesKnown'
  BY DEF SettingsInv, InstancesKnown
<1> QED BY <1>1, <1>2 DEF SettingsInv, DownIsEmpty

LEMMA SpaceOpenedKeeps ==
  ASSUME SettingsInv, NEW n \in Namespace, SpaceOpened(n)
  PROVE  SettingsInv'
<1> DEFINE i == space[n]  j == Opened(n, i)
<1>1. /\ i.stage = "opening" /\ i \in MemoryInstance /\ up /\ Known(row[n], i) /\ row \in [Namespace -> Row] /\ live \in Size
      /\ up /\ accepted => /\ Honest(row[n], live, i) /\ Backed(row[n], live, i)
                           /\ Visited(n) => i.size = live
  BY InstanceIsTyped DEF SpaceOpened
<1>2. space' = [space EXCEPT ![n] = j] /\ row' = RowOpened(n, i) /\ UNCHANGED <<setting, live, admin, settingsTail, up>>
  BY DEF SpaceOpened
<1>3. /\ j \in MemoryInstance /\ row' \in [Namespace -> Row] /\ Known(row'[n], j)
      /\ \A m \in Namespace : m # n => row'[m] = row[m]
      /\ row'[n] = row[n] \/ (row'[n].revision = row[n].revision + 1 /\ Unsaved(i) /\ UpToDate(n, i) /\ row'[n].size = i.size)
      /\ ~Unsaved(j)
      /\ j # Closed => j.stage = "open" /\ j.size = i.size
      /\ Honest(row[n], live, i) => Honest(row'[n], live, j)
      /\ Backed(row[n], live, i) => Backed(row'[n], live, j)
  BY <1>1, <1>2, OpenedIsHonest
<1>4. j = Closed => row' = row
  BY <1>2 DEF Opened, RowOpened, Closed
<1> HIDE DEF j, i
<1>5. space' \in [Namespace -> MemoryInstance] /\ space'[n] = j /\ \A m \in Namespace : m # n => space'[m] = space[m]
  BY <1>2, <1>3 DEF SettingsInv, SettingsTypeOK
<1>6. CASE UNCHANGED <<apply, accepted>>
  <2>1. RowStep(n) /\ (Running => KeepsSize(n))
    BY <1>1, <1>3 DEF RowStep, Running, KeepsSize, Honest, UpToDate, Unsaved
  <2>2. FitsSession(n, j)
    BY <1>1, <1>3 DEF FitsSession, FitsRecord, Closed
  <2>3. SessionsFit(n)
    BY <1>5, <2>2 DEF SessionsFit
  <2> QED BY <1>1, <1>2, <1>6, <2>1, <2>3, StaysAt, InstanceStep
<1>7. CASE j = Closed /\ apply' = NoApply /\ accepted' = FALSE
  <2>1. \A m \in Namespace : Known(row[m], space'[m])
    BY <1>3, <1>4, <1>5, <1>7 DEF SettingsInv, InstancesKnown
  <2> QED BY <1>1, <1>2, <1>4, <1>5, <1>7, <2>1, FailureKeeps
<1>8. UNCHANGED <<apply, accepted>> \/ (j = Closed /\ apply' = NoApply /\ accepted' = FALSE)
  BY <1>5 DEF SpaceOpened, SettingsInv, SettingsTypeOK
<1> QED BY <1>6, <1>7, <1>8

-----------------------------------------------------------------------------
(* The change itself. *)

\* The records and the instances stay as they are.
LEMMA NothingMoves ==
  ASSUME SettingsInv, UNCHANGED <<row, space, admin>>
  PROVE  /\ row' \in [Namespace -> Row] /\ space' \in [Namespace -> MemoryInstance]
         /\ admin' = NoAdmin \/ admin' \in [namespace : Namespace, memory : MemoryInstance]
         /\ InstancesKnown'
         /\ RowsHonest /\ UNCHANGED live => RowsHonest'
<1>1. InstancesKnown'
  BY DEF SettingsInv, InstancesKnown
<1>2. RowsHonest /\ UNCHANGED live => RowsHonest'
  BY DEF RowsHonest
<1> QED BY <1>1, <1>2 DEF SettingsInv, SettingsTypeOK

LEMMA ApplyIsTyped ==
  ASSUME SettingsInv
  PROVE  /\ apply \in ApplyType /\ apply.size \in Size /\ settingsTail \in Seq(Size) /\ live \in Size
         /\ apply.stage # "idle" => up
BY DEF SettingsInv, SettingsTypeOK, ApplyType, DownIsEmpty, NoApply

LEMMA AdminSetKeeps ==
  ASSUME SettingsInv, NEW v \in Size, AdminSetBlockTurnSize(v)
  PROVE  SettingsInv'
<1>1. settingsTail' \in Seq(Size)
  BY ApplyIsTyped DEF AdminSetBlockTurnSize
<1>2. SettingsTypeOK'
  BY <1>1, NothingMoves DEF AdminSetBlockTurnSize, SettingsInv, SettingsTypeOK
<1>3. ChangeGoesOn => ChangeGoesOn'
  BY DEF AdminSetBlockTurnSize, ChangeGoesOn, AtRest, Visited
<1> QED BY <1>2, <1>3, NothingMoves DEF AdminSetBlockTurnSize, SettingsInv, DownIsEmpty

LEMMA StartApplyKeeps ==
  ASSUME SettingsInv, StartApply
  PROVE  SettingsInv'
<1> DEFINE size == Head(settingsTail)
<1>1. size \in Size /\ settingsTail' \in Seq(Size) /\ up
  BY ApplyIsTyped, HeadTailProperties DEF StartApply, SettingsInv, DownIsEmpty
<1>2. apply' = [stage |-> "flush", size |-> size, done |-> {}, read |-> {}]
  BY DEF StartApply, NoApply
<1> HIDE DEF size
<1>3. apply' \in ApplyType /\ apply'.stage = "flush" /\ apply.stage = "idle"
  BY <1>1, <1>2 DEF ApplyType, StartApply
<1>4. SettingsTypeOK'
  BY <1>1, <1>3, NothingMoves DEF StartApply, SettingsInv, SettingsTypeOK
<1>5. ChangeGoesOn => ChangeGoesOn'
  <2>1. UNCHANGED <<setting, live, row, space>>
    BY DEF StartApply
  <2>2. apply'.done = {}
    BY <1>2
  <2> QED BY <1>3, <2>1, <2>2 DEF ChangeGoesOn, AtRest, Visited
<1> QED BY <1>1, <1>4, <1>5, NothingMoves DEF StartApply, SettingsInv, DownIsEmpty

LEMMA ApplyBlockKeeps ==
  ASSUME SettingsInv, ApplyBlockTurnSize
  PROVE  SettingsInv'
<1>1. /\ apply.size \in Size /\ up /\ apply \in ApplyType /\ apply.stage = "flush" /\ live' = apply.size
      /\ setting' = {apply.size} /\ UNCHANGED <<row, space, admin, settingsTail, accepted, up>>
  BY ApplyIsTyped DEF ApplyBlockTurnSize
<1>2. /\ apply' \in ApplyType /\ apply'.stage = "spaces" /\ apply'.done = apply.done /\ apply'.size = apply.size
  BY <1>1 DEF ApplyBlockTurnSize, ApplyType
<1>3. SettingsTypeOK'
  BY <1>1, <1>2, NothingMoves DEF SettingsInv, SettingsTypeOK
<1>4. InstancesKnown'
  BY <1>1, NothingMoves
<1>5. ASSUME accepted, RowsHonest, ChangeGoesOn PROVE RowsHonest' /\ ChangeGoesOn'
  <2>1. \A n \in Namespace : row[n].size = live /\ (space[n].stage # "closed" => space[n].size = live)
    BY <1>1, <1>5 DEF ChangeGoesOn, AtRest, Visited
  <2>2. \A n \in Namespace : \A i : Honest(row[n], live, i) => Honest(row[n], live', i)
    BY <2>1 DEF Honest
  <2>3. \A n \in Namespace : Backed(row[n], live', space[n])
    BY <2>1 DEF Backed
  <2>4. admin # NoAdmin => admin.namespace \in Namespace
    BY AdminIsTyped
  <2>5. RowsHonest'
    BY <1>1, <1>5, <2>2, <2>3, <2>4 DEF RowsHonest
  <2>6. apply'.done = {}
    BY <1>1, <1>2, <1>5 DEF ChangeGoesOn, AtRest
  <2>7. ChangeGoesOn'
    BY <1>1, <1>2, <2>6 DEF ChangeGoesOn, AtRest, Visited
  <2> QED BY <2>5, <2>7
<1> QED BY <1>1, <1>3, <1>4, <1>5 DEF SettingsInv, DownIsEmpty

LEMMA ApplyFailsKeeps ==
  ASSUME SettingsInv, ApplyFails
  PROVE  SettingsInv'
<1>1. up /\ live' \in Size
  BY ApplyIsTyped DEF ApplyFails
<1> QED BY <1>1, InstanceIsTyped, FailureKeeps DEF ApplyFails, SettingsInv, SettingsTypeOK

\* The change visits an instance, or reads a record, and writes no record or n's.
LEMMA ChangeVisits ==
  ASSUME SettingsInv, NEW n \in Namespace, RowStep(n), UNCHANGED <<live, setting, admin, settingsTail, accepted, up>>,
         up, apply' \in ApplyType, apply'.stage = apply.stage, ~AtRest, apply'.size = apply.size,
         apply'.done \in {apply.done, apply.done \cup {n}},
         Running => (apply'.done = apply.done \/ row'[n].size = live),
         SessionsFit(n), Running => KeepsSize(n),
         Running /\ apply'.done # apply.done => space'[n].stage = "closed" \/ space'[n].size = live
  PROVE  SettingsInv'
<1>1. SettingsTypeOK /\ InstancesKnown
  BY DEF SettingsInv
<1>2. row' \in [Namespace -> Row] /\ space' \in [Namespace -> MemoryInstance]
  BY DEF RowStep, SessionsFit
<1>3. SettingsTypeOK'
  BY <1>1, <1>2 DEF SettingsTypeOK
<1>4. \A m \in Namespace : row[m] \in Row /\ space[m] \in MemoryInstance /\ Known(row[m], space[m])
  BY <1>1 DEF SettingsTypeOK, InstancesKnown
<1>5. admin # NoAdmin => /\ admin.namespace \in Namespace /\ admin.memory \in MemoryInstance
                         /\ Known(row[admin.namespace], admin.memory)
  BY AdminIsTyped
<1>6. InstancesKnown'
  BY <1>1, <1>4, <1>5, OthersKeep DEF InstancesKnown, SessionsFit, FitsSession, FitsRecord
<1>7. ASSUME accepted PROVE RowsHonest' /\ ChangeGoesOn'
  <2>1. RowsHonest /\ ChangeGoesOn /\ KeepsSize(n) /\ (apply'.done = apply.done \/ row'[n].size = live)
        /\ (apply'.done # apply.done => space'[n].stage = "closed" \/ space'[n].size = live)
    BY <1>7 DEF SettingsInv, Running
  <2>2. ASSUME NEW m \in Namespace
        PROVE  Honest(row'[m], live', space'[m]) /\ Backed(row'[m], live', space'[m])
    <3>1. CASE space'[m] = space[m]
      BY <1>1, <1>4, <2>1, <3>1, OthersKeep DEF RowsHonest
    <3>2. CASE m = n /\ FitsSession(n, space'[n])
      BY <1>7, <3>2 DEF FitsSession, FitsRecord
    <3> QED BY <3>1, <3>2 DEF SessionsFit
  <2>3. admin # NoAdmin => Honest(row'[admin.namespace], live', admin.memory)
    BY <1>1, <1>5, <2>1, OthersKeep DEF RowsHonest
  <2>4. \A m \in Namespace : row[m].size = live => row'[m].size = live'
    BY <2>1 DEF RowStep, KeepsSize
  <2>5. \A m \in Namespace : m \in apply'.done => row'[m].size = live'
    BY <2>1, <2>4 DEF ChangeGoesOn
  <2>6. ASSUME NEW m \in Namespace, apply'.stage # "spaces" \/ m \in apply'.done, space'[m].stage # "closed"
        PROVE  space'[m].size = live'
    <3>1. CASE m \in apply'.done /\ m \notin apply.done
      BY <2>1, <2>6, <3>1
    <3>2. CASE ~(m \in apply'.done /\ m \notin apply.done)
      BY <1>7, <2>1, <2>6, <3>2 DEF ChangeGoesOn, Visited, SessionsFit, FitsSession
    <3> QED BY <3>1, <3>2
  <2>7. ChangeGoesOn'
    BY <2>1, <2>5, <2>6 DEF ChangeGoesOn, AtRest, Visited
  <2> QED BY <2>2, <2>3, <2>7 DEF RowsHonest
<1> QED BY <1>3, <1>6, <1>7 DEF SettingsInv, DownIsEmpty

LEMMA ChangeMoves ==
  ASSUME SettingsInv, ~AtRest, NEW done \in SUBSET Namespace, NEW read \in SUBSET [namespace : Namespace, revision : Nat]
  PROVE  /\ [apply EXCEPT !.done = done, !.read = read] \in ApplyType
         /\ [apply EXCEPT !.done = done] \in ApplyType
         /\ [apply EXCEPT !.read = read] \in ApplyType
BY ApplyIsTyped DEF ApplyType

LEMMA SetSpaceKeeps ==
  ASSUME SettingsInv, NEW n \in Namespace, SetSpace(n)
  PROVE  SettingsInv'
<1> DEFINE i == space[n]  more == [apply EXCEPT !.done = @ \cup {n}]
<1>1. apply.stage = "spaces" /\ i.stage = "open" /\ UNCHANGED <<setting, live, admin, settingsTail, up, sets, saves>>
  BY DEF SetSpace
<1>2. /\ up /\ apply \in ApplyType /\ apply.size \in Size /\ row \in [Namespace -> Row] /\ row[n] \in Row
      /\ i \in MemoryInstance /\ Known(row[n], i) /\ live \in Size
  BY <1>1, ApplyIsTyped, InstanceIsTyped
<1>3. /\ more \in ApplyType /\ more.stage = apply.stage /\ more.size = apply.size /\ more.done = apply.done \cup {n}
  BY <1>2 DEF ApplyType
<1> HIDE DEF more
<1>4. Running => /\ apply.size = live /\ Honest(row[n], live, i) /\ Backed(row[n], live, i)
  BY <1>1, InstanceIsTyped DEF Running, ChangeGoesOn, AtRest
<1>5. CASE i.size = apply.size /\ apply' = more /\ UNCHANGED <<row, space, accepted>>
  <2>1. Running => row[n].size = live /\ i.size = live
    BY <1>1, <1>4, <1>5 DEF Backed, Unsaved
  <2>2. Running => row'[n].size = live /\ space'[n].size = live
    BY <1>5, <2>1
  <2>3. RowStep(n) /\ SessionsFit(n) /\ KeepsSize(n)
    BY <1>5, StaysAt
  <2>4. ~AtRest
    BY <1>1 DEF AtRest
  <2>5. /\ apply' \in ApplyType /\ apply'.stage = apply.stage /\ apply'.size = apply.size
        /\ apply'.done = apply.done \cup {n}
    BY <1>3, <1>5
  <2>6. UNCHANGED <<live, setting, admin, settingsTail, accepted, up>> /\ space' = space
    BY <1>1, <1>5
  <2> QED BY <1>2, <2>2, <2>3, <2>4, <2>5, <2>6, ChangeVisits
<1>6. CASE /\ UpToDate(n, i) /\ row' = Bumped(n, apply.size) /\ apply' = more /\ UNCHANGED accepted
           /\ space' = [space EXCEPT ![n].size = apply.size, ![n].revision = @ + 1]
  <2> DEFINE size == apply.size  next == i.revision + 1  j == [i EXCEPT !.size = size, !.revision = next]
  <2>1. size \in Size /\ next \in Nat /\ next = row[n].revision + 1
    BY <1>2, <1>6 DEF MemoryInstance, UpToDate
  <2>2. space' = [space EXCEPT ![n] = j]
    BY <1>2, <1>6 DEF SettingsInv, SettingsTypeOK, MemoryInstance
  <2>3. row' = Bumped(n, size)
    BY <1>6
  <2>9. size = apply.size
    OBVIOUS
  <2> HIDE DEF size, next
  <2>4. j \in MemoryInstance /\ j.stage = "open" /\ j.size = size /\ j.revision = next
    BY <1>1, <1>2, <2>1 DEF MemoryInstance
  <2> HIDE DEF j
  <2>5. /\ row' \in [Namespace -> Row] /\ row'[n].size = size /\ row'[n].revision = next
        /\ \A m \in Namespace : m # n => row'[m] = row[m]
    BY <1>2, <2>1, <2>3, BumpedRecord
  <2>6. space' \in [Namespace -> MemoryInstance] /\ space'[n] = j /\ \A m \in Namespace : m # n => space'[m] = space[m]
    BY <2>2, <2>4 DEF SettingsInv, SettingsTypeOK
  <2>7. up /\ accepted => size = live
    BY <1>4, <2>9 DEF SettingsInv, Running
  <2>8. FitsSession(n, j)
    BY <2>1, <2>4, <2>5, <2>7 DEF FitsSession, FitsRecord, Known, Honest, Backed, Unsaved
  <2>10. SessionsFit(n) /\ RowStep(n) /\ (Running => KeepsSize(n))
    BY <2>1, <2>5, <2>6, <2>7, <2>8 DEF SessionsFit, RowStep, KeepsSize, Running
  <2>11. Running => row'[n].size = live /\ space'[n].size = live
    BY <2>4, <2>5, <2>6, <2>7 DEF Running
  <2>12. ~AtRest
    BY <1>1 DEF AtRest
  <2>13. /\ apply' \in ApplyType /\ apply'.stage = apply.stage /\ apply'.size = apply.size
         /\ apply'.done = apply.done \cup {n}
    BY <1>3, <1>6
  <2>14. UNCHANGED <<live, setting, admin, settingsTail, accepted, up>>
    BY <1>1, <1>6
  <2> QED BY <1>2, <2>10, <2>11, <2>12, <2>13, <2>14, ChangeVisits
<1>7. CASE /\ space' = [space EXCEPT ![n].size = apply.size] /\ apply' = NoApply /\ accepted' = FALSE
           /\ UNCHANGED row
  <2>1. space' \in [Namespace -> MemoryInstance] /\ \A m \in Namespace : space'[m].revision = space[m].revision
    BY <1>2, <1>7 DEF SettingsInv, SettingsTypeOK, MemoryInstance
  <2>2. \A m \in Namespace : Known(row[m], space'[m])
    BY <2>1, InstanceIsTyped DEF Known
  <2> QED BY <1>1, <1>2, <1>7, <2>1, <2>2, FailureKeeps
<1> QED BY <1>5, <1>6, <1>7 DEF SetSpace, more

LEMMA LoadRowKeeps ==
  ASSUME SettingsInv, NEW n \in Namespace, LoadRow(n)
  PROVE  SettingsInv'
<1>1. /\ apply.stage = "rows" /\ apply \in ApplyType /\ row[n] \in Row /\ up
      /\ UNCHANGED <<setting, live, row, space, admin, settingsTail, accepted, up, sets, saves>>
  BY ApplyIsTyped, InstanceIsTyped DEF LoadRow
<1> DEFINE more == [apply EXCEPT !.done = @ \cup {n}]
           entry == [namespace |-> n, revision |-> row[n].revision]
           reading == [apply EXCEPT !.read = {entry}]
<1>2. more \in ApplyType /\ more.stage = apply.stage /\ more.size = apply.size /\ more.done = apply.done \cup {n}
  BY <1>1 DEF ApplyType
<1>3. entry \in [namespace : Namespace, revision : Nat]
  BY <1>1 DEF Row
<1> HIDE DEF entry
<1>4. /\ reading \in ApplyType /\ reading.stage = apply.stage /\ reading.size = apply.size /\ reading.done = apply.done
  BY <1>1, <1>3 DEF ApplyType
<1>5. apply' = IF row[n].size = apply.size THEN more ELSE reading
  BY DEF LoadRow, entry
<1> HIDE DEF more, reading
<1>6. /\ apply' \in ApplyType /\ apply'.stage = apply.stage /\ apply'.size = apply.size
      /\ apply'.done \in {apply.done, apply.done \cup {n}}
      /\ apply'.done = apply.done \/ row[n].size = apply.size
  BY <1>2, <1>4, <1>5
<1>7. Running => apply.size = live /\ (space[n].stage = "closed" \/ space[n].size = live)
  BY <1>1 DEF Running, ChangeGoesOn, AtRest, Visited
<1>8. Running => apply'.done = apply.done \/ row'[n].size = live
  BY <1>1, <1>6, <1>7
<1>9. Running => space'[n].stage = "closed" \/ space'[n].size = live
  BY <1>1, <1>7
<1>10. RowStep(n) /\ SessionsFit(n) /\ KeepsSize(n) /\ ~AtRest
  BY <1>1, StaysAt DEF AtRest
<1> QED BY <1>1, <1>6, <1>8, <1>9, <1>10, ChangeVisits

LEMMA SaveRowKeeps ==
  ASSUME SettingsInv, NEW r \in apply.read, SaveRow(r)
  PROVE  SettingsInv'
<1> DEFINE n == r.namespace  size == apply.size  more == [apply EXCEPT !.done = @ \cup {n}, !.read = {}]
<1>1. /\ apply.stage = "rows" /\ apply \in ApplyType /\ size \in Size /\ n \in Namespace /\ r.revision \in Nat /\ up
      /\ UNCHANGED <<setting, live, space, admin, settingsTail, up, sets, saves>>
  BY ApplyIsTyped DEF SaveRow, ApplyType
<1>2. more \in ApplyType /\ more.stage = apply.stage /\ more.size = apply.size /\ more.done = apply.done \cup {n}
  BY <1>1 DEF ApplyType
<1>3. row \in [Namespace -> Row] /\ row[n] \in Row /\ space \in [Namespace -> MemoryInstance]
  BY <1>1, InstanceIsTyped DEF SettingsInv, SettingsTypeOK
<1>4. CASE row' = Bumped(n, size) /\ apply' = more /\ UNCHANGED accepted
  <2> HIDE DEF n, size, more
  <2>1. /\ row' \in [Namespace -> Row] /\ row'[n].size = size /\ row'[n].revision = row[n].revision + 1
        /\ \A m \in Namespace : m # n => row'[m] = row[m]
    BY <1>1, <1>3, <1>4, BumpedRecord
  <2>2. Running => size = live /\ (space[n].stage = "closed" \/ space[n].size = live)
    BY <1>1 DEF Running, ChangeGoesOn, AtRest, Visited, size
  <2>3. RowStep(n) /\ (Running => KeepsSize(n)) /\ SessionsFit(n) /\ ~AtRest
    BY <1>1, <2>1, <2>2, StaysAt DEF RowStep, KeepsSize, AtRest
  <2>4. Running => row'[n].size = live /\ (space'[n].stage = "closed" \/ space'[n].size = live)
    BY <1>1, <2>1, <2>2
  <2>5. UNCHANGED <<live, setting, admin, settingsTail, accepted, up>>
    BY <1>1, <1>4
  <2> QED BY <1>1, <1>2, <1>4, <2>3, <2>4, <2>5, ChangeVisits
<1>5. CASE apply' = NoApply /\ accepted' = FALSE /\ UNCHANGED row
  BY <1>1, <1>3, <1>5, InstanceIsTyped, FailureKeeps DEF SettingsInv, SettingsTypeOK
<1> QED BY <1>4, <1>5 DEF SaveRow

LEMMA SpacesSetKeeps ==
  ASSUME SettingsInv, SpacesSet
  PROVE  SettingsInv'
<1>1. /\ apply \in ApplyType /\ apply.stage = "spaces" /\ up /\ apply' = [apply EXCEPT !.stage = "rows"]
      /\ UNCHANGED <<setting, live, row, space, admin, settingsTail, accepted, up, sets, saves>>
      /\ \A n \in Namespace : space[n].stage = "closed" \/ n \in apply.done
  BY ApplyIsTyped DEF SpacesSet, SpacesToVisit
<1>2. apply' \in ApplyType /\ apply'.stage = "rows" /\ apply'.size = apply.size /\ apply'.done = apply.done
  BY <1>1 DEF ApplyType
<1>3. SettingsTypeOK'
  BY <1>1, <1>2, NothingMoves DEF SettingsInv, SettingsTypeOK
<1>4. ChangeGoesOn => ChangeGoesOn'
  BY <1>1, <1>2 DEF ChangeGoesOn, AtRest, Visited
<1> QED BY <1>1, <1>3, <1>4, NothingMoves DEF SettingsInv, DownIsEmpty

LEMMA AppliedKeeps ==
  ASSUME SettingsInv, Applied, Retries = FALSE
  PROVE  SettingsInv'
<1>1. /\ apply.stage = "rows" /\ apply.done = Namespace /\ apply' = NoApply /\ up /\ accepted' = accepted
      /\ UNCHANGED <<setting, live, row, space, admin, settingsTail, up, sets, saves>>
  BY ApplyIsTyped DEF Applied, SettingsInv, SettingsTypeOK
<1>2. NoApply.stage = "idle" /\ NoApply.done = {}
  BY DEF NoApply
<1>3. SettingsTypeOK'
  BY <1>1, NothingMoves, ClosedIsInstance DEF SettingsInv, SettingsTypeOK
<1>4. ChangeGoesOn => ChangeGoesOn'
  BY <1>1, <1>2 DEF ChangeGoesOn, AtRest, Visited
<1> QED BY <1>1, <1>3, <1>4, NothingMoves DEF SettingsInv, DownIsEmpty

LEMMA SyncKeeps ==
  ASSUME SettingsInv, SyncConfiguredSettings
  PROVE  SettingsInv'
<1> DEFINE saved(n) == [size |-> live', revision |-> row[n].revision + 1]
<1>1. /\ ~up /\ up' /\ accepted' /\ UNCHANGED <<setting, space, admin, settingsTail, apply, sets, saves>>
      /\ live' = IF setting = {} THEN DefaultSize ELSE CHOOSE v \in setting : TRUE
      /\ row' = [n \in Namespace |-> IF row[n].size = live' THEN row[n] ELSE saved(n)]
  BY DEF SyncConfiguredSettings
<1>2. /\ space = [n \in Namespace |-> Closed] /\ admin = NoAdmin /\ settingsTail = << >> /\ apply = NoApply
      /\ row \in [Namespace -> Row]
  BY <1>1 DEF SettingsInv, DownIsEmpty, SettingsTypeOK
<1>3. live' \in Size /\ setting \subseteq {live'}
  BY <1>1, SettingsAssumption DEF SettingsInv, SettingsTypeOK
<1>4. \A n \in Namespace : saved(n) \in Row /\ saved(n).size = live' /\ saved(n).revision \in Nat
  BY <1>2, <1>3 DEF Row
<1> HIDE DEF saved
<1>5. row' \in [Namespace -> Row] /\ \A n \in Namespace : row'[n].size = live' /\ row'[n].revision \in Nat
  BY <1>1, <1>2, <1>4 DEF Row
<1>6. SettingsTypeOK'
  BY <1>1, <1>2, <1>3, <1>5 DEF SettingsInv, SettingsTypeOK
<1>7. \A n \in Namespace : space'[n].stage = "closed" /\ space'[n].revision = 0
  BY <1>1, <1>2 DEF Closed
<1>8. InstancesKnown'
  <2>1. admin' = NoAdmin
    BY <1>1, <1>2
  <2> QED BY <1>5, <1>7, <2>1 DEF InstancesKnown, Known
<1>9. RowsHonest'
  BY <1>1, <1>2, <1>7 DEF RowsHonest, Honest, Backed
<1>10. ChangeGoesOn'
  BY <1>1, <1>2, <1>3, <1>5, <1>7 DEF ChangeGoesOn, AtRest, Visited, NoApply
<1> QED BY <1>1, <1>6, <1>8, <1>9, <1>10 DEF SettingsInv, DownIsEmpty

LEMMA HostDiesKeeps ==
  ASSUME SettingsInv, HostDies
  PROVE  SettingsInv'
<1>1. SettingsTypeOK'
  BY ClosedIsInstance, EmptySeq DEF HostDies, SettingsInv, SettingsTypeOK
<1>2. \A n \in Namespace : row[n].revision \in Nat
  BY DEF SettingsInv, SettingsTypeOK, Row
<1>3. row' = row /\ admin' = NoAdmin /\ \A n \in Namespace : space'[n].revision = 0
  BY DEF HostDies, Closed
<1>4. InstancesKnown'
  BY <1>2, <1>3 DEF InstancesKnown, Known
<1> QED BY <1>1, <1>4 DEF HostDies, SettingsInv, DownIsEmpty

LEMMA SettingsStep ==
  ASSUME SettingsInv, SettingsNext, Retries = FALSE
  PROVE  SettingsInv'
<1>1. ASSUME NEW n \in Namespace,
             \/ OpenSpace(n) \/ SpaceOpened(n) \/ SpaceSaves(n) \/ SpaceRereads(n) \/ OpenAdminMemory(n)
             \/ SetSpace(n) \/ LoadRow(n)
      PROVE  SettingsInv'
  BY <1>1, OpenSpaceKeeps, SpaceOpenedKeeps, SpaceSavesKeeps, SpaceRereadsKeeps, OpenAdminKeeps, SetSpaceKeeps, LoadRowKeeps
<1>2. CASE AdminOpened \/ AdminSaves \/ CloseAdminMemory
  BY <1>2, AdminOpenedKeeps, AdminSavesKeeps, CloseAdminKeeps
<1>3. ASSUME NEW v \in Size, AdminSetBlockTurnSize(v) PROVE SettingsInv'
  BY <1>3, AdminSetKeeps
<1>4. CASE StartApply \/ ApplyBlockTurnSize \/ ApplyFails \/ SpacesSet \/ Applied
  BY <1>4, StartApplyKeeps, ApplyBlockKeeps, ApplyFailsKeeps, SpacesSetKeeps, AppliedKeeps
<1>5. ASSUME NEW r \in apply.read, SaveRow(r) PROVE SettingsInv'
  BY <1>5, SaveRowKeeps
<1>6. CASE SyncConfiguredSettings \/ HostDies
  BY <1>6, SyncKeeps, HostDiesKeeps
<1> QED BY <1>1, <1>2, <1>3, <1>4, <1>5, <1>6 DEF SettingsNext

\* SettingsReachEverySpace, for any namespaces, sizes, changes and saves. A change that has failed
\* is not made good before the next start.
THEOREM SettingsReach ==
  ASSUME Retries = FALSE
  PROVE  SettingsSpec => []SettingsReachEverySpace
<1>1. SettingsInit => SettingsInv
  BY SettingsStart
<1>2. SettingsInv /\ [SettingsNext]_settingVars => SettingsInv'
  <2>1. ASSUME SettingsInv, UNCHANGED settingVars PROVE SettingsInv'
    <3>1. SettingsTypeOK' /\ InstancesKnown' /\ DownIsEmpty'
      BY <2>1 DEF settingVars, SettingsInv, SettingsTypeOK, InstancesKnown, DownIsEmpty
    <3>2. UNCHANGED <<up, accepted>> /\ (RowsHonest => RowsHonest') /\ (ChangeGoesOn => ChangeGoesOn')
      BY <2>1 DEF settingVars, RowsHonest, ChangeGoesOn, AtRest, Visited
    <3> QED BY <2>1, <3>1, <3>2 DEF SettingsInv
  <2> QED BY <2>1, SettingsStep
<1>3. SettingsInv => SettingsReachEverySpace
  BY DEF SettingsInv, SettingsReachEverySpace, ChangeGoesOn, AtRest, Visited
<1> QED BY <1>1, <1>2, <1>3, PTL DEF SettingsSpec
=============================================================================
