-------------------------------- MODULE MCHost --------------------------------
(* Instances of what hosts do around the memory of a namespace, side by side: a behaviour *)
(* belongs to one component, the others rest.                                             *)
EXTENDS MCDirectory, DuplicateReview, ExternalImport, SurfaceSync, WorkBuddy, EvidenceGate

CONSTANT f

VARIABLE part   \* the component a behaviour is about

poolAndReview == <<poolVars, reviewVars>>
servingVars == <<surfaceVars, buddyVars, evidenceVars>>
hostVars == <<part, allVars, poolAndReview, importVars, servingVars>>

\* A level takes a place more than the one below it; the capacities are the context windows.
MCSize == [l \in 0..Top |-> l + 1]
MCLimit == [c \in Capacity |-> c + 1]
MCRoom == [c \in Capacity |-> c + 3]

DreamRests == DreamSleeps /\ DirectoryIdle /\ ver = Nothing /\ topics = {} /\ projected = Nothing /\ edits = 0
PoolRests ==
  /\ cards = <<>> /\ born = 0 /\ deciding = {} /\ undoable = {} /\ turns = 0 /\ revived = {}
  /\ seen = {} /\ strays = NoStrays
ReviewRests ==
  /\ journal = NoJournal /\ lease = "free" /\ work = [a \in Actor |-> Rest] /\ died = 0 /\ scans = 0

OthersRest == DreamRests /\ PoolRests /\ ReviewRests /\ ImportInit
ServingRests == SurfaceInit /\ BuddyInit /\ EvidenceInit

\* A fact is ambiguous only while no current card says the same, so the pool by itself has two, the
\* first cards' and another, up to the last operation but one and the answer that is then out; where
\* cards are reviewed, and for the last operation, one has to do.
Said == {cards[c].fact : c \in DOMAIN cards} \cup {d.fact : d \in deciding}
OneFact == Cardinality(Said) <= 1
StartsAlike == \A c \in DOMAIN cards : cards[c].fact = f
InBounds == OneFact \/ turns < MaxTurns
MayGoOn == OneFact \/ turns < MaxTurns - 1 \/ deciding # {}

HostInit ==
  \/ part = "dream" /\ Chaptered /\ edits = 0 /\ DreamSleeps /\ PoolRests /\ ReviewRests /\ ImportInit /\ ServingRests
  \/ part = "pool" /\ PoolInit /\ StartsAlike /\ ReviewRests /\ DreamRests /\ ImportInit /\ ServingRests
  \/ part = "review" /\ ReviewInit /\ StartsAlike /\ OneFact /\ DreamRests /\ ImportInit /\ ServingRests
  \/ part \in {"import", "surface", "buddy", "evidence"} /\ OthersRest /\ ServingRests

HostNext ==
  /\ UNCHANGED part
  /\ \/ part = "dream" /\ DreamNext /\ UNCHANGED <<poolAndReview, importVars, servingVars>>
     \/ /\ part = "pool" /\ MayGoOn /\ PoolNext /\ InBounds'
        /\ UNCHANGED <<allVars, reviewVars, importVars, servingVars>>
     \/ part = "review" /\ ReviewNext /\ OneFact' /\ UNCHANGED <<allVars, importVars, servingVars>>
     \/ part = "import" /\ ImportNext /\ UNCHANGED <<allVars, poolAndReview, servingVars>>
     \/ /\ UNCHANGED <<allVars, poolAndReview, importVars>>
        /\ \/ part = "surface" /\ SurfaceNext /\ UNCHANGED <<buddyVars, evidenceVars>>
           \/ part = "buddy" /\ BuddyNext /\ UNCHANGED <<surfaceVars, evidenceVars>>
           \/ part = "evidence" /\ EvidenceNext /\ UNCHANGED <<surfaceVars, buddyVars>>

HostSpec == HostInit /\ [][HostNext]_hostVars
===============================================================================
