---------------------------- MODULE ExternalImport ----------------------------
(***************************************************************************)
(* One import of memories from another assistant: the job in storage        *)
(* (store.ts), the analysis a host process runs for it outside any          *)
(* transaction, and the page that polls and commits (runtime.ts, client.js).*)
(* A job is one record of a namespace: an update is one storage transaction *)
(* on the newest revision, tried again when another process was first.      *)
(***************************************************************************)
EXTENDS Integers, Sequences

CONSTANTS
  Host,           \* host processes with an administration page each
  MaxCandidates,  \* bound: candidates an export has
  MaxClicks,      \* bound: retries, commits, undos and abandonments
  MaxDeaths,      \* bound: host processes that die
  PersistErrors   \* whether recording a paid answer may fail for good

ASSUME ImportAssumption ==
  /\ MaxCandidates \in Nat /\ MaxClicks \in Nat /\ MaxDeaths \in Nat /\ PersistErrors \in BOOLEAN

VARIABLES
  job,      \* the job in storage
  applied,  \* source Blocks of this import there are in memory
  run,      \* process -> where its analysis of the job is
  admin,    \* process -> a commit or an undo between its two transactions
  stale,    \* processes whose unfinished request another process has overtaken
  page,     \* process -> the status its page shows
  clicks, deaths

importVars == <<job, applied, run, admin, stale, page, clicks, deaths>>

InAnalysis == {"extracting", "processing"}
Committable == {"ready", "awaiting_confirmation"}
JobStatus == {"none", "failed", "committed", "undone", "abandoned"} \cup InAnalysis \cup Committable

\* list: the candidates now are the list-th ones; answers: [list, at] of each decision recorded
NoImport == [status |-> "none", bad |-> FALSE, total |-> 0, list |-> 0, answers |-> <<>>,
             recovered |-> FALSE, source |-> 0]
Processed(j) == Len(j.answers)

Idle == [pc |-> "idle", list |-> 0, at |-> 0]
At(pc) == [Idle EXCEPT !.pc = pc]

\* A run for the job is started unless this process still has one.
Scheduled(p) == [run EXCEPT ![p] = IF @.pc = "idle" THEN At("look") ELSE @]
Overtakes(p) == stale' = stale \cup (Host \ {p})

-----------------------------------------------------------------------------
(* The job *)

CreateJob(p) ==
  /\ job.status = "none"
  /\ \E bad \in BOOLEAN, n \in 0..MaxCandidates :
       job' = [NoImport EXCEPT !.bad = bad, !.total = IF bad THEN 0 ELSE n, !.list = 1,
                 !.status = IF bad THEN "extracting" ELSE IF n > 0 THEN "processing" ELSE "ready"]
  /\ run' = Scheduled(p) /\ page' = [page EXCEPT ![p] = job'.status] /\ Overtakes(p)
  /\ UNCHANGED <<applied, admin, clicks, deaths>>

\* What a run reads: the next candidate, the text to recover, or that it is over.
Look(p) ==
  /\ run[p].pc = "look"
  /\ run' = [run EXCEPT ![p] =
       IF job.status = "extracting" THEN At("extract")
       ELSE IF job.status = "processing" /\ Processed(job) < job.total
            THEN [pc |-> "decide", list |-> job.list, at |-> Processed(job)]
            ELSE At("end")]
  /\ UNCHANGED <<job, applied, admin, stale, page, clicks, deaths>>

\* Faulty variant: a recovery is taken whenever it comes.
FallbackAnyway(n) ==
  [job EXCEPT !.total = n, !.list = @ + 1, !.answers = <<>>, !.recovered = TRUE,
              !.status = IF n > 0 THEN "processing" ELSE "failed"]

\* The model recovers candidates from a text that is no JSON; a late answer changes nothing.
Fallback(n) ==
  IF job.status # "extracting" THEN job
  ELSE [job EXCEPT !.total = n, !.list = @ + 1, !.answers = <<>>, !.recovered = TRUE,
                   !.status = IF n > 0 THEN "processing" ELSE "failed"]

\* The answer about candidate `at` is recorded if that one is next; an answer already recorded
\* is acknowledged, anything else is an error.
IsNext(r) == job.status = "processing" /\ Processed(job) = r.at
Known(r) == Processed(job) > r.at
Answered(r, unsure) ==
  LET j == [job EXCEPT !.answers = Append(@, [list |-> r.list, at |-> r.at, unsure |-> unsure \/ job.recovered])]
  IN IF Processed(j) < job.total THEN j
     ELSE [j EXCEPT !.status = IF \E i \in 1..Len(j.answers) : j.answers[i].unsure
                               THEN "awaiting_confirmation" ELSE "ready"]
JobFailed(j) == [j EXCEPT !.status = "failed"]

\* After its write the run goes on to record the paid answer, which may fail in turn.
Proceed(p, j) ==
  \/ job' = j /\ run' = [run EXCEPT ![p] = At("look")]
  \/ PersistErrors /\ job' = JobFailed(j) /\ run' = [run EXCEPT ![p] = At("end")]

ModelRecovers(p) ==
  /\ run[p].pc = "extract"
  /\ \E n \in 0..MaxCandidates : Proceed(p, Fallback(n))
  /\ Overtakes(p) /\ UNCHANGED <<applied, admin, page, clicks, deaths>>

ModelDecides(p) ==
  /\ run[p].pc = "decide"
  /\ \/ Known(run[p]) /\ Proceed(p, job)
     \/ ~Known(run[p]) /\ IsNext(run[p]) /\ \E unsure \in BOOLEAN : Proceed(p, Answered(run[p], unsure))
     \/ /\ ~Known(run[p]) /\ ~IsNext(run[p])
        /\ job' = JobFailed(job) /\ run' = [run EXCEPT ![p] = At("end")]
  /\ Overtakes(p) /\ UNCHANGED <<applied, admin, page, clicks, deaths>>

\* The call fails: so does the job, whatever its status is by now.
ModelFails(p) ==
  /\ run[p].pc \in {"extract", "decide"}
  /\ job' = JobFailed(job) /\ run' = [run EXCEPT ![p] = At("end")]
  /\ Overtakes(p) /\ UNCHANGED <<applied, admin, page, clicks, deaths>>

\* Overtaken by other processes in every attempt, the run stops without a word.
GivesUp(p) ==
  /\ run[p].pc \in {"extract", "decide"} /\ Host # {p}
  /\ run' = [run EXCEPT ![p] = At("end")]
  /\ UNCHANGED <<job, applied, admin, stale, page, clicks, deaths>>

\* Until then a new run cannot be scheduled here.
RunEnds(p) ==
  /\ run[p].pc = "end" /\ run' = [run EXCEPT ![p] = Idle]
  /\ UNCHANGED <<job, applied, admin, stale, page, clicks, deaths>>

-----------------------------------------------------------------------------
(* The page and its requests *)

\* Faulty variant: a poll reads the status and starts nothing.
PollOnly(p) ==
  /\ job.status # "none" /\ page[p] \in {"none"} \cup InAnalysis
  /\ page' = [page EXCEPT ![p] = job.status]
  /\ UNCHANGED <<job, run, applied, admin, stale, clicks, deaths>>

\* Opening the page, and every poll of a page that shows a running job.
Poll(p) ==
  /\ job.status # "none" /\ page[p] \in {"none"} \cup InAnalysis
  /\ page' = [page EXCEPT ![p] = job.status]
  /\ run' = IF job.status \in InAnalysis THEN Scheduled(p) ELSE run
  /\ UNCHANGED <<job, applied, admin, stale, clicks, deaths>>

\* One request of a page at a time, for the status it shows.
Request(p, shown) ==
  /\ page[p] \in shown /\ admin[p].pc = "none" /\ clicks < MaxClicks /\ clicks' = clicks + 1
  /\ UNCHANGED deaths

RetryJob(p) ==
  /\ Request(p, {"failed"})
  /\ job' = IF job.status # "failed" THEN job
            ELSE [job EXCEPT !.status = IF job.total = 0 /\ job.bad THEN "extracting" ELSE "processing"]
  /\ run' = Scheduled(p) /\ page' = [page EXCEPT ![p] = job'.status] /\ Overtakes(p)
  /\ UNCHANGED <<applied, admin>>

AbandonJob(p) ==
  /\ Request(p, {"failed"} \cup Committable)
  /\ job.status \in {"failed", "abandoned"} \cup Committable
  /\ job' = [job EXCEPT !.status = "abandoned"] /\ page' = [page EXCEPT ![p] = "abandoned"]
  /\ Overtakes(p) /\ UNCHANGED <<applied, run, admin>>

\* A commit is two transactions: the memories, then the job.
Apply(p) ==
  /\ Request(p, Committable) /\ job.status \in Committable
  /\ LET s == clicks + 1
     IN applied' = applied \cup {s} /\ admin' = [admin EXCEPT ![p] = [pc |-> "commit", source |-> s]]
  /\ stale' = (stale \cup Host) \ {p} /\ UNCHANGED <<job, run, page>>

Complete(p) ==
  /\ admin[p].pc = "commit" /\ admin' = [admin EXCEPT ![p].pc = "none"]
  /\ IF p \in stale THEN UNCHANGED <<job, page, stale>>    \* the request fails
     ELSE /\ job' = [job EXCEPT !.status = "committed", !.source = admin[p].source]
          /\ page' = [page EXCEPT ![p] = "committed"] /\ Overtakes(p)
  /\ UNCHANGED <<applied, run, clicks, deaths>>

\* So is an undo.
RemoveImported(p) ==
  /\ Request(p, {"committed"}) /\ job.source \in applied
  /\ applied' = applied \ {job.source} /\ admin' = [admin EXCEPT ![p] = [pc |-> "undo", source |-> job.source]]
  /\ stale' = (stale \cup Host) \ {p} /\ UNCHANGED <<job, run, page>>

MarkUndone(p) ==
  /\ admin[p].pc = "undo" /\ admin' = [admin EXCEPT ![p].pc = "none"]
  /\ IF p \in stale THEN UNCHANGED <<job, page, stale>>
     ELSE /\ job' = [job EXCEPT !.status = "undone"]
          /\ page' = [page EXCEPT ![p] = "undone"] /\ Overtakes(p)
  /\ UNCHANGED <<applied, run, clicks, deaths>>

\* The process dies; its page stays open and finds the next one at the same address.
HostDies(p) ==
  /\ deaths < MaxDeaths /\ deaths' = deaths + 1
  /\ run' = [run EXCEPT ![p] = Idle] /\ admin' = [admin EXCEPT ![p] = [pc |-> "none", source |-> 0]]
  /\ UNCHANGED <<job, applied, stale, page, clicks>>

-----------------------------------------------------------------------------

ImportInit ==
  /\ job = NoImport /\ applied = {} /\ run = [p \in Host |-> Idle]
  /\ admin = [p \in Host |-> [pc |-> "none", source |-> 0]] /\ stale = {}
  /\ page = [p \in Host |-> "none"] /\ clicks = 0 /\ deaths = 0

RunStep(p) == Look(p) \/ ModelRecovers(p) \/ ModelDecides(p) \/ ModelFails(p) \/ RunEnds(p)

ImportNext ==
  \E p \in Host :
    \/ CreateJob(p) \/ RunStep(p) \/ GivesUp(p) \/ Poll(p) \/ RetryJob(p) \/ AbandonJob(p)
    \/ Apply(p) \/ Complete(p) \/ RemoveImported(p) \/ MarkUndone(p) \/ HostDies(p)

\* A process goes on with its run and its request; a page that shows a running job polls.
ImportFairness ==
  \A p \in Host : /\ WF_importVars(RunStep(p)) /\ WF_importVars(Complete(p) \/ MarkUndone(p))
                  /\ WF_importVars(Poll(p))

ImportTypeOK ==
  /\ job.status \in JobStatus /\ job.total \in 0..MaxCandidates /\ job.source \in 0..MaxClicks
  /\ Processed(job) <= job.total /\ applied \subseteq 1..MaxClicks
  /\ \A p \in Host : /\ run[p].pc \in {"idle", "look", "extract", "decide", "end"}
                     /\ admin[p].pc \in {"none", "commit", "undo"} /\ page[p] \in JobStatus
  /\ stale \subseteq Host

\* Each candidate has the one decision the model gave about it, in the order of the list,
\* though two processes may analyse the job, repeat each other's calls and fail and retry it
\* (completeNextExternalMemoryImport, completeExternalMemoryFallback).
AnswersFitCandidates ==
  \A i \in 1..Processed(job) : job.answers[i].list = job.list /\ job.answers[i].at = i - 1

\* "Commit imports atomically": what is in memory is there once.
ImportedOnce == \A s, t \in applied : s = t

\* An analysis ends, whatever dies on the way, as long as a page shows it.
ImportSettles == job.status \in InAnalysis ~> job.status \notin InAnalysis

ImportSpec == ImportInit /\ [][ImportNext]_importVars
FairImportSpec == ImportSpec /\ ImportFairness
=============================================================================
