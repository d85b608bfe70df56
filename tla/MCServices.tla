------------------------------ MODULE MCServices ------------------------------
(* Instances of what serves a namespace from outside its memory, side by side: the calls of   *)
(* the models, the search for due work, the index of raw messages, the settings, the profile  *)
(* and the daily notes. A behaviour belongs to one of them, the others rest. One about the    *)
(* profile is about its page and the tool, or about the maintenance of two hosts and the      *)
(* tool: to the page a change by the maintenance is one more change by somebody else.         *)
EXTENDS ModelCalls, WorkIndex, RawIndex, Settings, Profile, DailyNotes

CONSTANTS a, b, m1, m2, x, r1
CONSTANT PageChanges   \* bound: changes of the profile in a behaviour about the page, the last one its own

VARIABLE part   \* the component a behaviour is about

hostVars == <<bridgeVars, indexVars, rawVars, settingVars>>
writerVars == <<profileVars, noteVars>>
serviceVars == <<part, hostVars, writerVars>>

MCOwner == <<m1, m2, m2>>
MCSession == [c \in Callers |-> r1]
MCCites == {{m1}, {m1, m2}, {m1, x}}
MCKinds == (a :> {"extractor"}) @@ (b :> {"graphProjector", "topicProjector"})
MCTexts == {<<>>, <<"object", "object">>, <<"object", "prose", "object">>}

IndexRests ==
  /\ record = [n \in Space |-> [jobs |-> "never", uncovered |-> FALSE]]
  /\ generation = 0
RawRests == message = [m \in Message |-> Absent] /\ meta = [m \in Message |-> Blank] /\ complete = "new"
SettingsRest == setting = {} /\ \A n \in Namespace : row[n].size = DefaultSize

ServicesInit ==
  /\ part \in {"calls", "work", "raw", "settings", "page", "maintenance", "notes"}
  /\ BridgeInit /\ ProfileInit /\ NotesInit
  /\ IndexInit /\ (part # "work" => IndexRests)
  /\ RawInit /\ (part # "raw" => RawRests)
  /\ SettingsInit /\ (part # "settings" => SettingsRest)

HostNext ==
  \/ part = "calls" /\ BridgeNext /\ UNCHANGED <<indexVars, rawVars, settingVars>>
  \/ part = "work" /\ IndexNext /\ UNCHANGED <<bridgeVars, rawVars, settingVars>>
  \/ part = "raw" /\ RawNext /\ UNCHANGED <<bridgeVars, indexVars, settingVars>>
  \/ part = "settings" /\ SettingsNext /\ UNCHANGED <<bridgeVars, indexVars, rawVars>>
PageIsShort ==
  /\ Len(changes) <= PageChanges
  /\ Len(changes) = PageChanges => changes[PageChanges].by = "page"
WriterNext ==
  \/ part = "page" /\ UNCHANGED <<run, noteVars>> /\ ProfileNext /\ PageIsShort'
  \/ part = "maintenance" /\ UNCHANGED <<pageVars, noteVars>> /\ ProfileNext
  \/ part = "notes" /\ NotesNext /\ UNCHANGED profileVars

ServicesNext ==
  /\ UNCHANGED part
  /\ \/ HostNext /\ UNCHANGED writerVars
     \/ WriterNext /\ UNCHANGED hostVars

ServicesSpec == ServicesInit /\ [][ServicesNext]_serviceVars
===============================================================================
