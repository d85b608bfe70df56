------------------------------- MODULE SurfaceSync -------------------------------
(***************************************************************************)
(* The Blocks of one conversation as the model sees them (src/runtime.ts):  *)
(* each ready Block replaces its raw turns in the host's native session by  *)
(* a checkpoint at some level, which follows the Block's decay pointer, the *)
(* user's choices and the capacity of the model. The native session, the    *)
(* durable levels and what was saved of each change at different times, by  *)
(* the background run, the request that assembles a prompt and the user.    *)
(***************************************************************************)
EXTENDS Integers, Sequences, FiniteSets, FiniteSetsExt, SequencesExt

CONSTANTS
  Blocks,        \* Blocks of the conversation: 1..Blocks, by sequence
  Top,           \* the most detailed level
  Size,          \* level -> size of a checkpoint
  RawSize,       \* size of the turns a Block stands for
  Capacity,      \* what a model may offer
  Limit,         \* capacity -> the most one checkpoint may take automatically
  SessionRoom,          \* capacity -> the most the whole session may take
  MaxAttempts,   \* failures after which upkeep waits for another input
  RepairsFail,   \* whether the commit of a repair on the request's path may fail
  MaxEvents      \* bound: turns, choices, failures, compactions, crashes and changes of model

Block == 1..Blocks
Level == 0..Top
Raw == -1     \* the turns themselves
Gone == -2    \* compacted by the host

ASSUME SurfaceAssumption ==
  /\ Blocks \in Nat /\ Top \in Nat /\ Size \in [Level -> Nat] /\ RawSize \in Nat
  /\ Limit \in [Capacity -> Nat] /\ SessionRoom \in [Capacity -> Nat]
  /\ MaxAttempts \in Nat \ {0} /\ RepairsFail \in BOOLEAN

VARIABLES
  kept,     \* the memory: [ready, level, lift, surface] of each Block
  native,   \* the live session: a level, Raw or Gone
  saved,    \* the session as it was last saved
  unsaved,  \* whether replacements wait for a save
  requested,    \* requests to synchronize: [no, why, blocked, applied]
  upkeep,   \* the background run's state: [dirty, failures, blocked], and what it was blocked at
  task,     \* run, ask, pick: [at, levels, done, image, block, level, stale]
  queue,    \* commits of the memory that wait, in order
  saves,    \* saves of the session under way, in the order they began
  host,     \* [turn, compacting, capacity]
  told,     \* Blocks whose choice this process answers for
  spent     \* how much of the bounds is used, and the number of the next request

surfaceVars == <<kept, native, saved, unsaved, requested, upkeep, task, queue, saves, host, told, spent>>

Task == {"run", "ask", "pick"}
NotAsked == [no |-> 0, why |-> "none", blocked |-> "no", applied |-> FALSE]
Resting == [at |-> "idle", levels |-> <<>>, done |-> {}, image |-> <<>>, grown |-> FALSE, block |-> 0, level |-> 0, stale |-> FALSE]
Happens == spent.events < MaxEvents /\ spent' = [spent EXCEPT !.events = @ + 1]
Checkpoint(s, b) == s.native[b] >= 0

-----------------------------------------------------------------------------
(* What a pass does to the session: s is [native, requested, levels, next, done] *)

Current == [native |-> native, requested |-> requested, levels |-> <<>>, next |-> spent.next, done |-> {}]
Setting(f, b, l) == [x \in DOMAIN f \cup {b} |-> IF x = b THEN l ELSE f[x]]

\* A sealing retry does not downgrade what the user asked for.
QueueSurfaceSync(s, b, why) ==
  IF s.requested[b].why # "none" /\ (why = "seal" \/ s.requested[b].why = why) THEN s
  ELSE [s EXCEPT !.requested[b] = [NotAsked EXCEPT !.no = s.next, !.why = why], !.next = @ + 1]

Fits(l) == Size[l] <= Limit[host.capacity]

\* The level a Block is first shown at: its own, or the next that fits; its own top level always.
SealedLevel(level) ==
  LET lower == {l \in 0..(level - 1) : Fits(l)}
      best == IF Fits(level) THEN {level} ELSE IF lower = {} THEN {} ELSE {Max(lower)}
  IN {l \in best : (l = Top /\ l = level) \/ Size[l] <= RawSize}

\* The level an existing checkpoint is reduced to, if it does not grow.
ReducedLevel(before, highest) ==
  LET fine == {l \in 0..highest : Fits(l) /\ Size[l] <= before /\ Size[l] <= RawSize}
  IN IF Fits(highest) THEN fine \cap {highest} ELSE IF fine = {} THEN {} ELSE {Max(fine)}

\* The level that another Block gives way to, to make room for what is needed.
ReliefLevel(level, needed) ==
  LET less == {l \in 0..(level - 1) : Size[l] < Size[level]}
      enough == {l \in less : Size[level] - Size[l] >= needed}
      most == {l \in less : \A k \in less : Size[l] <= Size[k]}
  IN IF enough # {} THEN {Max(enough)} ELSE IF less = {} THEN {} ELSE {Max(most)}

SizeOf(x) == IF x = Raw THEN RawSize ELSE IF x = Gone THEN 0 ELSE Size[x]
Total(n) == MapThenSumSet(LAMBDA b : SizeOf(n[b]), Block)

\* Other automatic checkpoints give way, oldest first; what is still needed is what is left.
Relieved(s, b, needed) ==
  LET Give(acc, c) ==
        IF acc.needed <= 0 \/ c = b \/ acc.native[c] <= 0 \/ ~kept[c].ready \/ kept[c].lift THEN acc
        ELSE LET lower == ReliefLevel(acc.native[c], acc.needed)
             IN IF lower = {} THEN acc
                ELSE LET l == CHOOSE x \in lower : TRUE
                     IN [native |-> [acc.native EXCEPT ![c] = l],
                         needed |-> acc.needed - (Size[acc.native[c]] - Size[l])]
  IN FoldLeft(Give, [native |-> s.native, needed |-> needed], [i \in Block |-> i])

\* Whether the session can show a Block at a level, and the session then.
ExpandedSurfacePlan(s, b, level) ==
  LET after == [s.native EXCEPT ![b] = level]
      grown == s.native[b] # level /\ Size[level] > SizeOf(s.native[b])
      over == IF grown THEN Total(after) - SessionRoom[host.capacity] ELSE 0
      relieved == Relieved([s EXCEPT !.native = after], b, over)
  IN CASE host.compacting -> [status |-> "pending", native |-> s.native]
       [] ~host.compacting /\ s.native[b] = Gone -> [status |-> "source", native |-> s.native]
       [] ~host.compacting /\ s.native[b] # Gone /\ relieved.needed > 0 ->
            [status |-> "capacity", native |-> s.native]
       [] OTHER -> [status |-> "ready", native |-> relieved.native]

\* The levels of all checkpoints are saved with it.
ApplyExpandedSurface(s, b) ==
  LET plan == ExpandedSurfacePlan(s, b, kept[b].level)
  IN IF s.requested[b].blocked # "no" \/ plan.status = "pending" THEN s
     ELSE IF plan.status # "ready" THEN [s EXCEPT !.requested[b].blocked = plan.status]
     ELSE [s EXCEPT !.native = plan.native, !.requested[b].applied = TRUE,
             !.levels = [c \in {x \in Block : kept[x].ready /\ plan.native[x] >= 0} |-> plan.native[c]],
             !.done = @ \cup {<<b, s.requested[b].no>>}]

\* One outstanding request: the user's, a Block to seal, or one whose checkpoint is there already.
ApplyRequest(s, b) ==
  IF ~kept[b].ready THEN s
  ELSE IF s.requested[b].why = "user" THEN ApplyExpandedSurface(s, b)
  ELSE LET level == IF Checkpoint(s, b) THEN {s.native[b]} ELSE SealedLevel(kept[b].level)
       IN IF s.native[b] = Gone THEN [s EXCEPT !.requested[b] = NotAsked]
          ELSE IF level = {} THEN s
          ELSE LET l == CHOOSE x \in level : TRUE
               IN [s EXCEPT !.native[b] = l, !.levels = Setting(@, b, l), !.done = @ \cup {<<b, s.requested[b].no>>}]

\* In the order they were asked for.
ApplyPendingRetrySurface(s, userOnly) ==
  LET pending == {b \in Block : /\ s.requested[b].why # "none" /\ s.requested[b].blocked = "no"
                                /\ (userOnly => s.requested[b].why = "user")}
  IN IF host.compacting THEN s
     ELSE FoldLeft(ApplyRequest, s, SetToSortSeq(pending, LAMBDA x, y : s.requested[x].no < s.requested[y].no))

\* A choice is applied up or down; otherwise a checkpoint only loses detail.
DecayOne(s, b) ==
  IF ~Checkpoint(s, b) \/ ~kept[b].ready THEN s
  ELSE LET current == s.native[b]
           known == [s EXCEPT !.levels = Setting(@, b, current)]
           lower == ReducedLevel(Size[current], Min({kept[b].level, current}))
       IN IF kept[b].lift
          THEN IF kept[b].level = current THEN known
               ELSE ApplyExpandedSurface(QueueSurfaceSync(known, b, "user"), b)
          ELSE IF (kept[b].level >= current /\ Fits(current)) \/ lower = {} THEN known
          ELSE LET l == CHOOSE x \in lower : TRUE
               IN [s EXCEPT !.native[b] = l, !.levels = Setting(@, b, l)]

ApplyDecayedBlockSurface(s, some) ==
  IF host.compacting THEN s ELSE FoldLeft(DecayOne, s, SetToSortSeq(some, <))

\* Requests that are applied but not yet saved are finished by whoever saves.
Applied(s) == s.done \cup {<<b, s.requested[b].no>> : b \in {x \in Block : s.requested[x].applied}}

\* A request a crash lost is made again while the turns, or the user's choice, are there.
MissingAsked(s) ==
  LET Ask(acc, b) ==
        IF ~kept[b].ready \/ Checkpoint(s, b) THEN acc
        ELSE IF kept[b].lift THEN QueueSurfaceSync(acc, b, "user")
        ELSE IF s.native[b] = Raw THEN QueueSurfaceSync(acc, b, "seal") ELSE acc
  IN FoldLeft(Ask, s, [i \in Block |-> i])

MaintenancePass ==
  LET s == ApplyPendingRetrySurface(MissingAsked(Current), FALSE)
  IN ApplyDecayedBlockSurface(s, {b \in Block : Checkpoint(s, b)})

-----------------------------------------------------------------------------
(* The three that change the session: apply, commit the levels, save, complete *)

SurfaceMaintenanceInput == <<kept, native, host.capacity>>
RetryBlocked == upkeep.blocked /\ upkeep.input = SurfaceMaintenanceInput

\* A save under way does not cover what is appended to the session now.
Grown(n) == [p \in Task |-> [task[p] EXCEPT !.grown = @ \/ (n # native /\ task[p].at = "saving")]]

\* What was applied at once; nothing to commit goes on to the save.
ApplyPass(p, s, done, block) ==
  /\ native' = s.native /\ requested' = s.requested /\ spent' = [spent EXCEPT !.next = s.next]
  /\ unsaved' = (unsaved \/ s.native # native)
  /\ task' = [Grown(s.native) EXCEPT ![p] = [Resting EXCEPT !.at = IF s.levels = <<>> THEN "flush" ELSE "commit",
                                    !.levels = s.levels, !.done = done, !.block = block]]
  /\ queue' = IF s.levels = <<>> THEN queue ELSE Append(queue, p)

RunSurfaceMaintenance ==
  /\ task["run"].at = "idle" /\ task["ask"].at = "idle"
  /\ upkeep.dirty /\ ~upkeep.blocked /\ ~host.turn /\ ~host.compacting
  /\ \E s \in {MaintenancePass} : ApplyPass("run", s, Applied(s), 0)
  /\ UNCHANGED <<kept, saved, upkeep, saves, host, told>>

\* The request asks for the choices the session does not show, then repairs what is too large.
SyncRequestSurface ==
  /\ host.turn /\ task["ask"].at = "idle" /\ ~host.compacting /\ ~RetryBlocked
  /\ LET Ask(acc, b) == IF kept[b].ready /\ kept[b].lift /\ kept[b].level # native[b]
                        THEN QueueSurfaceSync(acc, b, "user") ELSE acc
     IN \E s \in {ApplyPendingRetrySurface(FoldLeft(Ask, Current, [i \in Block |-> i]), TRUE)} :
        IF s.done # {} THEN ApplyPass("ask", s, s.done, 0)
        ELSE /\ task' = [task EXCEPT !["ask"] = [Resting EXCEPT !.at = "repair"]]
             /\ requested' = s.requested /\ spent' = [spent EXCEPT !.next = s.next]
             /\ UNCHANGED <<native, unsaved, queue>>
  /\ upkeep' = [upkeep EXCEPT !.blocked = FALSE, !.failures = IF upkeep.blocked THEN 0 ELSE @]
  /\ UNCHANGED <<kept, saved, saves, host, told>>

RepairRequestSurface ==
  /\ task["ask"].at = "repair"
  /\ LET large == {b \in Block : kept[b].ready /\ native[b] >= 0 /\ ~kept[b].lift /\ ~Fits(native[b])}
     IN \E s \in {ApplyDecayedBlockSurface(Current, large)} :
        IF large = {} THEN task' = [task EXCEPT !["ask"] = Resting] /\ UNCHANGED <<native, requested, unsaved, queue, spent>>
        ELSE ApplyPass("ask", s, Applied(s), Blocks + 1)
  /\ UNCHANGED <<kept, saved, upkeep, saves, host, told>>

\* The user chooses a level; a choice that cannot be shown is refused before it is stored.
AdminExpandBlock(b, l) ==
  /\ task["pick"].at = "idle" /\ kept[b].ready /\ Happens
  /\ ExpandedSurfacePlan(Current, b, l).status \in {"ready", "pending"}
  /\ task' = [task EXCEPT !["pick"] = [Resting EXCEPT !.at = "choose", !.block = b, !.level = l]]
  /\ queue' = Append(queue, "pick")
  /\ UNCHANGED <<kept, native, saved, unsaved, requested, upkeep, saves, host, told>>

StoreChoice ==
  /\ queue # <<>> /\ Head(queue) = "pick" /\ task["pick"].at = "choose" /\ queue' = Tail(queue)
  /\ kept' = [kept EXCEPT ![task["pick"].block] = [@ EXCEPT !.level = task["pick"].level, !.lift = TRUE]]
  /\ task' = [task EXCEPT !["pick"].at = "chosen"]
  /\ UNCHANGED <<native, saved, unsaved, requested, upkeep, saves, host, told, spent>>

SyncChoice ==
  /\ task["pick"].at = "chosen"
  /\ LET b == task["pick"].block
     IN /\ told' = told \cup {b}
        /\ \E s \in {ApplyPendingRetrySurface(QueueSurfaceSync([Current EXCEPT !.requested[b] = NotAsked], b, "user"), FALSE)} :
           IF s.done # {} THEN ApplyPass("pick", s, s.done, b)
           ELSE /\ task' = [task EXCEPT !["pick"] = Resting]
                /\ requested' = s.requested /\ spent' = [spent EXCEPT !.next = s.next] /\ UNCHANGED <<native, unsaved, queue>>
  /\ upkeep' = [upkeep EXCEPT !.blocked = FALSE, !.failures = 0]
  /\ UNCHANGED <<kept, saved, saves, host>>

-----------------------------------------------------------------------------

CommitSurfaceLevels(p) ==
  /\ queue # <<>> /\ Head(queue) = p /\ task[p].at = "commit" /\ queue' = Tail(queue)
  /\ kept' = [b \in Block |-> IF b \in DOMAIN task[p].levels THEN [kept[b] EXCEPT !.surface = task[p].levels[b]] ELSE kept[b]]
  /\ task' = [task EXCEPT ![p].at = "flush"]
  /\ UNCHANGED <<native, saved, unsaved, requested, upkeep, saves, host, told, spent>>

\* Faulty variant: a finished request is recognized by its Block.
FinishedByBlock(p) == {b \in Block : \E d \in task[p].done : d[1] = b}

\* Faulty variant: the end of a run clears what was marked while it ran.
CleanAlways(p) == p = "run"

\* Only the very request that was applied, not a later one for the Block.
Finished(p) == {b \in Block : <<b, requested[b].no>> \in task[p].done}
Clean(p) == p = "run" /\ ~task[p].stale

\* The session is saved as it is; replacements made meanwhile still wait for a save.
FlushSurface(p) ==
  /\ task[p].at = "flush" /\ unsaved
  /\ task' = [task EXCEPT ![p].at = "saving", ![p].image = native] /\ saves' = Append(saves, p)
  /\ UNCHANGED <<kept, native, saved, unsaved, requested, upkeep, queue, host, told, spent>>

\* The request's second part follows its first.
Completed(p, tasks) ==
  /\ requested' = [b \in Block |-> IF b \in Finished(p) THEN NotAsked ELSE requested[b]]
  /\ upkeep' = [upkeep EXCEPT !.dirty = IF Clean(p) THEN FALSE ELSE @, !.failures = IF p = "run" THEN 0 ELSE @]
  /\ task' = [tasks EXCEPT ![p] = IF p = "ask" /\ task[p].block = 0 THEN [Resting EXCEPT !.at = "repair"] ELSE Resting]

Without(seq, p) == SelectSeq(seq, LAMBDA q : q # p)
Place(p) == CHOOSE i \in DOMAIN saves : saves[i] = p

NothingToFlush(p) ==
  /\ task[p].at = "flush" /\ ~unsaved /\ Completed(p, task)
  /\ UNCHANGED <<kept, native, saved, unsaved, queue, saves, host, told, spent>>

\* The session only grows: a save that began earlier and ends later saves nothing older.
Flushed(p) ==
  /\ task[p].at = "saving" /\ saved' = task[p].image /\ saves' = Without(saves, p)
  /\ unsaved' = (unsaved /\ task[p].grown)
  /\ LET earlier == {q \in Task : task[q].at = "saving" /\ Place(q) < Place(p)}
     IN Completed(p, [q \in Task |-> IF q \in earlier THEN [task[q] EXCEPT !.image = task[p].image] ELSE task[q]])
  /\ UNCHANGED <<kept, native, queue, host, told, spent>>

\* A commit or a save fails. The run and a retry of requests remember it; a repair does not.
Fail(p) ==
  /\ \/ queue # <<>> /\ Head(queue) = p /\ task[p].at \in {"commit", "choose"} /\ queue' = Tail(queue) /\ UNCHANGED saves
     \/ task[p].at = "saving" /\ saves' = Without(saves, p) /\ UNCHANGED queue
  /\ Happens
  /\ LET remembered == task[p].at # "choose" /\ ~(p = "ask" /\ task[p].block # 0)
         failures == IF p = "run" /\ task[p].stale THEN 0 ELSE upkeep.failures + 1
     IN /\ remembered \/ RepairsFail \/ task[p].at = "choose"
        /\ upkeep' = IF ~remembered THEN upkeep
                     ELSE [dirty |-> TRUE, failures |-> failures, blocked |-> failures >= MaxAttempts,
                           input |-> IF failures >= MaxAttempts THEN SurfaceMaintenanceInput ELSE upkeep.input]
  /\ task' = [task EXCEPT ![p] = Resting]
  /\ UNCHANGED <<kept, native, saved, unsaved, requested, host, told>>

-----------------------------------------------------------------------------
(* What happens around them *)

\* Marking upkeep dirty overtakes a run, and wakes one that waits for another input.
Marked(k, n, h) ==
  LET woken == upkeep.blocked /\ upkeep.input # <<k, n, h.capacity>>
  IN /\ upkeep' = [upkeep EXCEPT !.dirty = TRUE, !.blocked = @ /\ ~woken, !.failures = IF woken THEN 0 ELSE @]
     /\ task' = [Grown(n) EXCEPT !["run"].stale = task["run"].at # "idle"]

\* A Block's layers and Events are there; older Blocks lose detail with it, or not yet.
BlockReady(b, drop) ==
  /\ ~kept[b].ready /\ \A a \in Block : a < b => kept[a].ready
  /\ kept' = [a \in Block |->
       IF a = b THEN [ready |-> TRUE, level |-> Top, lift |-> FALSE, surface |-> Raw]
       ELSE IF a < b /\ drop > 0
            THEN [kept[a] EXCEPT !.level = Max({0, @ - drop}), !.lift = @ /\ kept[a].level = 0] ELSE kept[a]]
  /\ LET s == QueueSurfaceSync(Current, b, "seal") IN requested' = s.requested /\ spent' = [spent EXCEPT !.next = s.next]
  /\ Marked(kept', native, host)
  /\ UNCHANGED <<native, saved, unsaved, queue, saves, host, told>>

TurnStarts ==
  /\ ~host.turn /\ Happens /\ host' = [host EXCEPT !.turn = TRUE]
  /\ task' = [task EXCEPT !["run"].stale = task["run"].at # "idle"]
  /\ UNCHANGED <<kept, native, saved, unsaved, requested, upkeep, queue, saves, told>>
TurnEnds ==
  /\ host.turn /\ host' = [host EXCEPT !.turn = FALSE]
  /\ UNCHANGED <<kept, native, saved, unsaved, requested, upkeep, task, queue, saves, told, spent>>

CompactionStarts ==
  /\ ~host.compacting /\ Happens /\ host' = [host EXCEPT !.compacting = TRUE]
  /\ Marked(kept, native, host)
  /\ UNCHANGED <<kept, native, saved, unsaved, requested, queue, saves, told>>

Unblocked == [b \in Block |-> IF requested[b].blocked = "capacity" THEN [requested[b] EXCEPT !.blocked = "no"] ELSE requested[b]]

\* The host may have put a summary in the place of the oldest Blocks, or none.
CompactionEnds(oldest) ==
  /\ host.compacting /\ host' = [host EXCEPT !.compacting = FALSE]
  /\ native' = [b \in Block |-> IF b <= oldest THEN Gone ELSE native[b]]
  /\ requested' = Unblocked /\ Marked(kept, native', host)
  /\ UNCHANGED <<kept, saved, unsaved, queue, saves, told, spent>>

CapacityChanges(c) ==
  /\ c # host.capacity /\ Happens /\ host' = [host EXCEPT !.capacity = c]
  /\ requested' = Unblocked /\ Marked(kept, native, host')
  /\ UNCHANGED <<kept, native, saved, unsaved, queue, saves, told>>

\* A restart keeps the memory and what was saved of the session.
Crash ==
  /\ Happens /\ native' = saved /\ unsaved' = FALSE /\ requested' = [b \in Block |-> NotAsked]
  /\ upkeep' = [dirty |-> TRUE, failures |-> 0, blocked |-> FALSE, input |-> <<>>]
  /\ task' = [p \in Task |-> Resting] /\ queue' = <<>> /\ saves' = <<>>
  /\ host' = [host EXCEPT !.turn = FALSE, !.compacting = FALSE] /\ told' = {}
  /\ UNCHANGED <<kept, saved>>

-----------------------------------------------------------------------------

SurfaceInit ==
  /\ kept = [b \in Block |-> [ready |-> FALSE, level |-> Top, lift |-> FALSE, surface |-> Raw]]
  /\ native = [b \in Block |-> Raw] /\ saved = native /\ unsaved = FALSE
  /\ requested = [b \in Block |-> NotAsked]
  /\ upkeep = [dirty |-> TRUE, failures |-> 0, blocked |-> FALSE, input |-> <<>>]
  /\ task = [p \in Task |-> Resting] /\ queue = <<>> /\ saves = <<>>
  /\ host = [turn |-> FALSE, compacting |-> FALSE, capacity |-> Max(Capacity)] /\ told = {}
  /\ spent = [events |-> 0, next |-> 1]

SurfaceNext ==
  \/ RunSurfaceMaintenance \/ SyncRequestSurface \/ RepairRequestSurface
  \/ \E b \in Block, l \in Level : AdminExpandBlock(b, l)
  \/ StoreChoice \/ SyncChoice
  \/ \E p \in Task : CommitSurfaceLevels(p) \/ FlushSurface(p) \/ NothingToFlush(p) \/ Flushed(p) \/ Fail(p)
  \/ \E b \in Block, drop \in {0, 1} : BlockReady(b, drop)
  \/ TurnStarts \/ TurnEnds \/ CompactionStarts \/ Crash
  \/ \E oldest \in 0..Blocks : CompactionEnds(oldest)
  \/ \E c \in Capacity : CapacityChanges(c)

SurfaceSpec == SurfaceInit /\ [][SurfaceNext]_surfaceVars

SurfaceTypeOK ==
  /\ native \in [Block -> Level \cup {Raw, Gone}] /\ saved \in [Block -> Level \cup {Raw, Gone}]
  /\ \A b \in Block : kept[b].level \in Level /\ kept[b].surface \in Level \cup {Raw} /\ requested[b].no < spent.next
  /\ upkeep.failures \in 0..MaxAttempts /\ Len(queue) <= Cardinality(Task)

\* A choice whose request is gone is what the session shows, what was saved of it and, unless
\* upkeep is still due, what the memory says it shows ("removed only after its target surface is applied and the session is
\* saved", docs/DSH.md), whatever decay, other choices, failed saves and requests did meanwhile.
ChoicesAreKept ==
  \A b \in told :
    kept[b].lift /\ requested[b].why # "user" /\ native[b] >= 0 /\ task["pick"].at = "idle"
    => native[b] = kept[b].level /\ saved[b] = native[b] /\ (kept[b].surface = native[b] \/ upkeep.dirty)

\* When upkeep rests and nothing is asked for, no pass would change anything: the levels the memory
\* reports are those the session shows, and every checkpoint is as small as decay and capacity ask
\* for, although the run, the request and the user write the session and the memory separately.
Rests ==
  /\ ~upkeep.dirty /\ queue = <<>> /\ ~host.compacting /\ \A p \in Task : task[p].at = "idle"
  /\ \A b \in Block : requested[b].why = "none" \/ requested[b].blocked # "no"
SurfaceIsSettled ==
  Rests => \A s \in {MaintenancePass} :
             s.native = native /\ \A b \in DOMAIN s.levels : kept[b].surface = s.levels[b]
=============================================================================
