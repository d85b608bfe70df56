-------------------------------- MODULE Profile --------------------------------
(* The persistent profile (sqlite.ts, profile.ts, runtime.ts) and the page on which a user    *)
(* edits it (client.js). Four kinds of writers meet in one small table: the page, whose       *)
(* requests may be answered late or never; the agent's tool; and the maintenance of each      *)
(* host, which sends the profile to a model and writes back what the model made of it.        *)
EXTENDS Integers, Sequences, FiniteSets, FiniteSetsExt

CONSTANTS
  Field,          \* PROFILE_FIELDS
  Maintainable,   \* PROFILE_MAINTAINABLE_FIELDS
  Saying,         \* what a text may say
  ProfileHost,    \* processes that maintain the profile
  MaxTotal,       \* PROFILE_TOTAL_MAX_LENGTH
  Threshold,      \* PROFILE_MAINTENANCE_TOTAL_THRESHOLD
  MaxChanges,     \* bound: changes of the profile
  MaxStrays,      \* bound: saves given up that the server has still to receive
  Nothing         \* a model value: null

ASSUME ProfileAssumption ==
  /\ IsFiniteSet(Field) /\ Maintainable \subseteq Field
  /\ MaxTotal \in Nat /\ Threshold \in Nat /\ MaxChanges \in Nat /\ MaxStrays \in Nat

VARIABLES
  profile,      \* persistent_profile
  changes,      \* persistent_profile_changes; an id is a position
  basis,        \* persistent_profile_maintenance_baseline has its row
  maintained,   \* persistent_profile_maintenance: the last result, or Nothing
  failed,       \* persistent_profile_maintenance_failures: what failed and whether its pause lasts
  run,          \* host -> the profile it has sent to the model
  mode,         \* the page: "closed", "visible", "hidden"
  shown,        \* the profile the page shows, with its revisions
  editing,      \* the draft in the editor
  drafts,       \* profileFieldDrafts
  conflict,     \* fields marked as changed elsewhere
  result,       \* saveResults: what became of the last save of a field
  gets,         \* reads of the page under way
  saving,       \* the save under way, with the server's reply once there is one
  strays        \* saves the page has given up and the server has not received yet

tableVars == <<profile, changes, basis, maintained, failed>>
pageVars == <<mode, shown, editing, drafts, conflict, result, gets, saving, strays>>
profileVars == <<tableVars, run, pageVars>>

----------------------------------------------------------------------------
(* The tables. A text says something at some length; a tidied text says the same in less.     *)
Empty == [says |-> "nothing", size |-> 0]
Text == {Empty} \cup [says : Saying, size : 1..2]
Written == {t \in Text : t.size # 1}          \* what users and tools write: at full length
Change == [field : Field, text : Text, by : {"page", "tool", "maintenance"}]
EmptyProfile == [f \in Field |-> Empty]
Length(p) == MapThenSumSet(LAMBDA f : p[f].size, Field)

ChangesOf(f) == {i \in DOMAIN changes : changes[i].field = f}
Revision(f) == Max(ChangesOf(f) \cup {0})
Snapshot == [text |-> profile, rev |-> [f \in Field |-> Revision(f)]]

\* validateProfile: a proposal or an update that is too long is refused.
Fits(p) == Length(p) <= MaxTotal

ChangeOf(f, t, by) == [field |-> f, text |-> t, by |-> by]
Room(n) == Len(changes) + n <= MaxChanges

\* updateProfileField, in one immediate transaction: the first text of an empty profile starts
\* the clock of its maintenance, the last one that goes stops it.
UpdateProfileField(f, t, by) ==
  /\ t # profile[f] /\ Fits([profile EXCEPT ![f] = t]) /\ Room(1)
  /\ profile' = [profile EXCEPT ![f] = t]
  /\ changes' = Append(changes, ChangeOf(f, t, by))
  /\ IF profile = EmptyProfile
       THEN basis' = TRUE /\ maintained' = Nothing /\ failed' = Nothing
       ELSE /\ basis' = (basis /\ profile' # EmptyProfile)
            /\ UNCHANGED <<maintained, failed>>

\* A mistake that PageKeepsUp finds: a save looks at the text and not at the revision.
IsStaleByText(s) == profile[s.field] # s.base

\* What a save of the page expects must still be so: the text and the revision.
IsStale(s) == Revision(s.field) # s.rev \/ profile[s.field] # s.base

\* memory_profile_update writes without expectations.
ToolUpdates(f, t) == UpdateProfileField(f, t, "tool") /\ UNCHANGED <<run, pageVars>>

----------------------------------------------------------------------------
(* Maintenance. The model is asked to say the same in fewer words; its proposal may also be   *)
(* unfit, or never come.                                                                      *)
\* profileMaintenanceDue: a pause after a failure counts for the very profile that failed, and
\* what was maintained is left alone until a field that can be maintained is edited.
MaintenanceDue(late) ==
  /\ ~(failed # Nothing /\ failed.input = profile /\ failed.pauses)
  /\ \E f \in Maintainable : profile[f] # Empty
  /\ (late /\ (maintained # Nothing \/ basis)) \/ Length(profile) >= Threshold
  /\ maintained # Nothing => \E f \in Maintainable : maintained[f] # profile[f]

StartMaintenance(h) ==
  /\ run[h] = Nothing
  /\ \E late \in BOOLEAN : MaintenanceDue(late)
  /\ run' = [run EXCEPT ![h] = profile]
  /\ UNCHANGED <<tableVars, pageVars>>

Tidied(p) == {q \in [Field -> Text] : \A f \in Field : q[f].says = p[f].says /\ q[f].size <= p[f].size}

\* A mistake that EditsOutlastMaintenance finds: the profile is only looked at for not being empty.
StillNonempty(h) == profile # EmptyProfile \/ run[h] = EmptyProfile

\* applyProfileMaintenance compares the whole input with the profile of now.
SameInput(h) == run[h] = profile
Rewritten(q) == {f \in Field : q[f] # profile[f]}
Orders(S) == {o \in [1..Cardinality(S) -> S] :
                \A f \in S : \E i \in 1..Cardinality(S) : \A j \in 1..Cardinality(S) : o[j] = f <=> j = i}

ApplyMaintenance(h) ==
  /\ run[h] # Nothing
  /\ run' = [run EXCEPT ![h] = Nothing]
  /\ IF SameInput(h)
       THEN \E q \in Tidied(run[h]) :
              /\ Room(Cardinality(Rewritten(q)))
              /\ profile' = q
              /\ \E o \in Orders(Rewritten(q)) :
                   changes' = changes \o [i \in DOMAIN o |-> ChangeOf(o[i], q[o[i]], "maintenance")]
              /\ maintained' = q /\ failed' = Nothing
              /\ UNCHANGED basis
       ELSE UNCHANGED tableVars
  /\ UNCHANGED pageVars

\* recordProfileMaintenanceFailure: a pause of minutes, after three failures of a day.
MaintenanceFails(h) ==
  /\ run[h] # Nothing
  /\ run' = [run EXCEPT ![h] = Nothing]
  /\ failed' = [input |-> run[h], pauses |-> TRUE]
  /\ UNCHANGED <<profile, changes, basis, maintained, pageVars>>

PauseEnds ==
  /\ failed # Nothing /\ failed.pauses
  /\ failed' = [failed EXCEPT !.pauses = FALSE]
  /\ UNCHANGED <<profile, changes, basis, maintained, run, pageVars>>

\* A host dies, or closes while its model call runs.
HostStops(h) ==
  /\ run[h] # Nothing
  /\ run' = [run EXCEPT ![h] = Nothing]
  /\ UNCHANGED <<tableVars, pageVars>>

----------------------------------------------------------------------------
(* The page. A read or a save is a request: the server answers it, and the answer arrives     *)
(* while the page still wants it.                                                             *)
Snap == [text : [Field -> Text], rev : [Field -> Nat]]
Edit == [field : Field, draft : Text, base : Text, rev : Nat]
Result == [kind : {"saved", "unknown", "invalid", "failed"}, of : Edit]
Get == [use : {"poll", "reload", "check"}, of : Edit \cup {Nothing}, snap : Snap \cup {Nothing}]
Saving == [of : Edit, reply : {"none", "ok", "conflict", "invalid", "failed"}, snap : Snap \cup {Nothing}]

\* null is none of the objects.
ASSUME NothingIsApart ==
  Nothing \notin Snap /\ Nothing \notin Edit /\ Nothing \notin Result /\ Nothing \notin Saving

Visible == mode = "visible"
Reading == \E g \in gets : g.use # "poll"
Busy == saving # Nothing

\* A mistake that PageKeepsUp finds: an older read is left to arrive.
ReadsAnswered == {g \in gets : g.snap # Nothing}

\* check: the newest read supersedes the one before; other events abort it (requestVersion).
ReadsLeft == {}
Read(use, s) == [use |-> use, of |-> s, snap |-> Nothing]
StartRead(use, s) == gets' = ReadsLeft \cup {Read(use, s)}

\* setEditing keeps the draft of a field apart from the editor; null gives it up.
SetEditing(e) ==
  /\ editing' = e
  /\ drafts' = IF e # Nothing THEN [drafts EXCEPT ![e.field] = e]
               ELSE IF editing # Nothing THEN [drafts EXCEPT ![editing.field] = Nothing]
               ELSE drafts

ResultOf(kind, s) == [kind |-> kind, of |-> s]
Unknown(f) == result[f] # Nothing /\ result[f].kind = "unknown"
ChangedElsewhere == shown.text[editing.field] # editing.base \/ shown.rev[editing.field] # editing.rev

OpenPage ==
  /\ mode = "closed" /\ mode' = "visible"
  /\ StartRead("poll", Nothing)
  /\ UNCHANGED <<tableVars, run, shown, editing, drafts, conflict, result, saving, strays>>

\* The request of a save is aborted, and may have reached the server or reach it yet.
Abandoned == IF Busy /\ saving.reply = "none" THEN strays \cup {saving.of} ELSE strays

\* The page is left. What it remembers is kept for the next time, and a save under way is unknown.
ClosePage ==
  /\ mode # "closed" /\ mode' = "closed"
  /\ result' = IF Busy /\ result[saving.of.field] = Nothing
               THEN [result EXCEPT ![saving.of.field] = ResultOf("unknown", saving.of)] ELSE result
  /\ gets' = ReadsLeft /\ saving' = Nothing /\ strays' = Abandoned
  /\ UNCHANGED <<tableVars, run, shown, editing, drafts, conflict>>

HidePage ==
  /\ Visible /\ mode' = "hidden"
  /\ gets' = ReadsLeft
  /\ UNCHANGED <<tableVars, run, shown, editing, drafts, conflict, result, saving, strays>>

ShowPage ==
  /\ mode = "hidden" /\ mode' = "visible"
  /\ IF Busy THEN gets' = gets ELSE StartRead("poll", Nothing)
  /\ UNCHANGED <<tableVars, run, shown, editing, drafts, conflict, result, saving, strays>>

\* The timer of five seconds, which waits while a save is under way.
Poll ==
  /\ Visible /\ ~Busy /\ gets = {}
  /\ StartRead("poll", Nothing)
  /\ UNCHANGED <<tableVars, run, mode, shown, editing, drafts, conflict, result, saving, strays>>

ServerReads(g) ==
  /\ g \in gets /\ g.snap = Nothing
  /\ gets' = (gets \ {g}) \cup {[g EXCEPT !.snap = Snapshot]}
  /\ UNCHANGED <<tableVars, run, mode, shown, editing, drafts, conflict, result, saving, strays>>

ReadFails(g) ==
  /\ g \in gets
  /\ gets' = gets \ {g}
  /\ UNCHANGED <<tableVars, run, mode, shown, editing, drafts, conflict, result, saving, strays>>

EditOf(f, snap) == [field |-> f, draft |-> snap.text[f], base |-> snap.text[f], rev |-> snap.rev[f]]

\* reloadField has been asked for: what is stored takes the place of the draft.
Reloaded(snap) ==
  /\ editing # Nothing
  /\ SetEditing(EditOf(editing.field, snap))
  /\ conflict' = [conflict EXCEPT ![editing.field] = FALSE]
  /\ result' = [result EXCEPT ![editing.field] = Nothing]

\* checkSave has been asked for: the save is confirmed when its text is stored at a later
\* revision. A newer draft stays, and is based on what is stored.
Confirms(s, snap) == snap.text[s.field] = s.draft /\ snap.rev[s.field] > s.rev
AfterCheckForgets(s, snap) ==    \* a mistake that DraftsAreKept finds
  IF editing = Nothing \/ editing.field # s.field THEN editing ELSE Nothing
AfterCheck(s, snap) ==
  IF editing = Nothing \/ editing.field # s.field THEN editing
  ELSE IF editing.draft = s.draft THEN Nothing
  ELSE [editing EXCEPT !.base = snap.text[s.field], !.rev = snap.rev[s.field]]

Checked(s, snap) ==
  IF Confirms(s, snap)
    THEN /\ result' = [result EXCEPT ![s.field] = ResultOf("saved", s)]
         /\ SetEditing(AfterCheck(s, snap))
         /\ conflict' = [conflict EXCEPT ![s.field] = FALSE]
    ELSE UNCHANGED <<result, editing, drafts, conflict>>

ReadArrives(g) ==
  /\ g \in gets /\ g.snap # Nothing
  /\ gets' = gets \ {g}
  /\ shown' = g.snap
  /\ \/ g.use = "poll" /\ UNCHANGED <<result, editing, drafts, conflict>>
     \/ g.use = "reload" /\ Reloaded(g.snap)
     \/ g.use = "check" /\ Checked(g.of, g.snap)
  /\ UNCHANGED <<tableVars, run, mode, saving, strays>>

\* beginEdit: a draft that was left is taken up again, another field starts from what is shown.
BeginEdit(f) ==
  /\ Visible /\ ~Busy /\ shown # Nothing
  /\ StartRead("poll", Nothing)
  /\ IF drafts[f] # Nothing
       THEN SetEditing(drafts[f]) /\ UNCHANGED <<conflict, result>>
       ELSE /\ SetEditing(EditOf(f, shown))
            /\ conflict' = [conflict EXCEPT ![f] = FALSE]
            /\ result' = [result EXCEPT ![f] = Nothing]
  /\ UNCHANGED <<tableVars, run, mode, shown, saving, strays>>

Type(t) ==
  /\ Visible /\ ~Busy /\ editing # Nothing /\ editing.draft # t
  /\ SetEditing([editing EXCEPT !.draft = t])
  /\ UNCHANGED <<tableVars, run, mode, shown, conflict, result, gets, saving, strays>>

CancelEdit ==
  /\ Visible /\ ~Busy /\ editing # Nothing
  /\ StartRead("poll", Nothing)
  /\ SetEditing(Nothing)
  /\ conflict' = [conflict EXCEPT ![editing.field] = FALSE]
  /\ result' = [result EXCEPT ![editing.field] = Nothing]
  /\ UNCHANGED <<tableVars, run, mode, shown, saving, strays>>

ReloadField ==
  /\ Visible /\ ~Busy /\ ~Reading /\ editing # Nothing
  /\ ChangedElsewhere \/ conflict[editing.field]
  /\ StartRead("reload", Nothing)
  /\ UNCHANGED <<tableVars, run, mode, shown, editing, drafts, conflict, result, saving, strays>>

CheckSave ==
  /\ Visible /\ ~Busy /\ ~Reading /\ editing # Nothing /\ Unknown(editing.field)
  /\ StartRead("check", result[editing.field].of)
  /\ UNCHANGED <<tableVars, run, mode, shown, editing, drafts, conflict, result, saving, strays>>

SaveEdit ==
  /\ Cardinality(strays) < MaxStrays
  /\ Visible /\ ~Busy /\ ~Reading /\ editing # Nothing /\ ~Unknown(editing.field)
  /\ ~ChangedElsewhere /\ ~conflict[editing.field]
  /\ editing.draft # editing.base
  /\ Fits([shown.text EXCEPT ![editing.field] = editing.draft])
  /\ saving' = [of |-> editing, reply |-> "none", snap |-> Nothing]
  /\ result' = [result EXCEPT ![editing.field] = Nothing]
  /\ gets' = ReadsLeft
  /\ UNCHANGED <<tableVars, run, mode, shown, editing, drafts, conflict, strays>>

\* The route of web.ts: a conflict is 409, a text that does not fit 400, a busy database 500.
Refusal(s) ==
  {"failed"} \cup IF IsStale(s) THEN {"conflict"}
                  ELSE IF ~Fits([profile EXCEPT ![s.field] = s.draft]) THEN {"invalid"} ELSE {}

ServerSaves ==
  /\ Busy /\ saving.reply = "none"
  /\ \/ /\ ~IsStale(saving.of)
        /\ UpdateProfileField(saving.of.field, saving.of.draft, "page")
        /\ saving' = [saving EXCEPT !.reply = "ok", !.snap = Snapshot']
     \/ /\ \E r \in Refusal(saving.of) : saving' = [saving EXCEPT !.reply = r]
        /\ UNCHANGED tableVars
  /\ UNCHANGED <<run, mode, shown, editing, drafts, conflict, result, gets, strays>>

\* A save that the page has given up is written all the same, when it still can be.
StrayArrives(s) ==
  /\ s \in strays /\ strays' = strays \ {s}
  /\ \/ ~IsStale(s) /\ UpdateProfileField(s.field, s.draft, "page")
     \/ UNCHANGED tableVars          \* refused; nobody hears of it
  /\ UNCHANGED <<run, mode, shown, editing, drafts, conflict, result, gets, saving>>

\* After a save has ended, however it did, the page reads again.
ReadsAgain == IF Visible THEN StartRead("poll", Nothing) ELSE UNCHANGED gets

SaveAnswered ==
  /\ Busy /\ saving.reply # "none"
  /\ saving' = Nothing /\ ReadsAgain
  /\ \E s \in {saving.of} :
       \/ /\ saving.reply = "ok"
          /\ shown' = saving.snap /\ SetEditing(Nothing)
          /\ conflict' = [conflict EXCEPT ![s.field] = FALSE]
          /\ result' = [result EXCEPT ![s.field] = ResultOf("saved", s)]
       \/ /\ saving.reply = "conflict"
          /\ conflict' = [conflict EXCEPT ![s.field] = TRUE]
          /\ UNCHANGED <<shown, editing, drafts, result>>
       \/ /\ saving.reply \in {"invalid", "failed"}
          /\ result' = [result EXCEPT ![s.field] = ResultOf(saving.reply, s)]
          /\ UNCHANGED <<shown, editing, drafts, conflict>>
  /\ UNCHANGED <<tableVars, run, mode, strays>>

\* Fifteen seconds are over, or the answer is lost on its way.
SaveIsLost ==
  /\ Busy
  /\ saving' = Nothing /\ strays' = Abandoned /\ ReadsAgain
  /\ result' = [result EXCEPT ![saving.of.field] = ResultOf("unknown", saving.of)]
  /\ UNCHANGED <<tableVars, run, mode, shown, editing, drafts, conflict>>

----------------------------------------------------------------------------
ProfileInit ==
  /\ profile = EmptyProfile /\ changes = <<>> /\ basis = FALSE
  /\ maintained = Nothing /\ failed = Nothing
  /\ run = [h \in ProfileHost |-> Nothing]
  /\ mode = "closed" /\ shown = Nothing /\ editing = Nothing
  /\ drafts = [f \in Field |-> Nothing] /\ result = [f \in Field |-> Nothing]
  /\ conflict = [f \in Field |-> FALSE]
  /\ gets = {} /\ saving = Nothing /\ strays = {}

ProfileNext ==
  \/ \E f \in Field, t \in Written : ToolUpdates(f, t)
  \/ \E h \in ProfileHost : StartMaintenance(h) \/ ApplyMaintenance(h) \/ MaintenanceFails(h) \/ HostStops(h)
  \/ PauseEnds
  \/ OpenPage \/ ClosePage \/ HidePage \/ ShowPage \/ Poll
  \/ \E g \in gets : ServerReads(g) \/ ReadFails(g) \/ ReadArrives(g)
  \/ \E f \in Field : BeginEdit(f)
  \/ \E t \in Written : Type(t)
  \/ CancelEdit \/ ReloadField \/ CheckSave \/ SaveEdit
  \/ ServerSaves \/ SaveAnswered \/ SaveIsLost
  \/ \E s \in strays : StrayArrives(s)

ProfileSpec == ProfileInit /\ [][ProfileNext]_profileVars

----------------------------------------------------------------------------
ProfileTypeOK ==
  /\ profile \in [Field -> Text] /\ changes \in Seq(Change) /\ basis \in BOOLEAN
  /\ maintained \in [Field -> Text] \cup {Nothing}
  /\ run \in [ProfileHost -> [Field -> Text] \cup {Nothing}]
  /\ mode \in {"closed", "visible", "hidden"} /\ shown \in Snap \cup {Nothing}
  /\ editing \in Edit \cup {Nothing} /\ drafts \in [Field -> Edit \cup {Nothing}]
  /\ conflict \in [Field -> BOOLEAN] /\ result \in [Field -> Result \cup {Nothing}]
  /\ gets \subseteq Get /\ saving \in Saving \cup {Nothing} /\ strays \subseteq Edit

Edits(f) == {i \in ChangesOf(f) : changes[i].by # "maintenance"}

\* Maintenance never takes an edit back: what a field says is what its last edit by the user or
\* the agent said, also when the edit was made while the model worked on the profile before it
\* ("Compare the complete input snapshot before writing a model result", sqlite.ts:1427).
EditsOutlastMaintenance ==
  \A f \in Field :
    profile[f].says = IF Edits(f) = {} THEN "nothing" ELSE changes[Max(Edits(f))].text.says

\* The page keeps up with the profile. It never shows an older version of a field after a newer
\* one, whatever the order in which reads, saves, checks and the timer are answered, nor after it
\* was left and opened again. And a save of it replaces no version that the page has not shown, not
\* even one with the same text, and not when it arrives long after the page gave it up
\* (docs/DSH.md:244: the page "prevents a stale same-field save from overwriting a concurrent change").
MovesOn == shown # Nothing => \A f \in Field : shown'.rev[f] >= shown.rev[f]
PageReplaces == Len(changes') > Len(changes) /\ changes'[Len(changes')].by = "page"
SawReplaced == \E f \in Field : /\ f = changes'[Len(changes')].field
                                /\ shown # Nothing /\ shown.rev[f] >= Revision(f)
PageKeepsUp == [][MovesOn /\ (PageReplaces => SawReplaced)]_profileVars

\* What a user typed leaves the page only by the user's hand, or when the very text has been
\* stored after the version it was based on; and "saved" is said of such a text only. So a
\* refresh, a lost answer, a conflict or the check of an earlier save costs nobody a draft.
StoredSince(d) == \E i \in ChangesOf(d.field) : i > d.rev /\ changes[i].text = d.draft
Rejected(f) == \/ CancelEdit
               \/ \E t \in Written : Type(t)
               \/ \E g \in gets : g.use = "reload" /\ editing.field = f /\ ReadArrives(g)
DraftLeaves(f) == drafts[f] # Nothing /\ (drafts'[f] = Nothing \/ drafts'[f].draft # drafts[f].draft)
SaidSaved(f) == result'[f] # result[f] /\ result'[f] # Nothing /\ result'[f].kind = "saved"
DraftsAreKept ==
  [][\A f \in Field : /\ DraftLeaves(f) => StoredSince(drafts[f]) \/ Rejected(f)
                      /\ SaidSaved(f) => StoredSince(result'[f].of)]_profileVars

============================================================================
