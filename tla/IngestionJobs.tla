--------------------------- MODULE IngestionJobs ---------------------------
(***************************************************************************)
(* Background ingestion jobs: JobManager                                   *)
(* (src/contextsynapse/ingestion/job_manager.py) and the dashboard's job   *)
(* endpoints (src/contextsynapse/api/dashboard_router.py).                 *)
(*                                                                         *)
(* Each job runs in a thread of its own; the watchdog is another thread    *)
(* and the endpoints run on the event loop.  All of them assign job.status *)
(* without a lock the others take.  _save_to_redis takes a copy of the job *)
(* and stores it in a second step; nothing removes a job from Redis.  When *)
(* the server restarts, the jobs are read back from Redis.                 *)
(*                                                                         *)
(* Left out: _active_count, which nothing reads; logs and progress; the    *)
(* decisions on single sub-jobs, which choose what a commit writes but not *)
(* whether it may.                                                         *)
(***************************************************************************)
EXTENDS Naturals

CONSTANTS
    Jobs,            \* ids of jobs that may be submitted
    MaxRestarts,     \* bound: restarts of the server
    MaxSaveFailures  \* bound: saves that fail

ASSUME BoundsAssumption == MaxRestarts \in Nat /\ MaxSaveFailures \in Nat

VARIABLES
    tracked,    \* JobManager._jobs
    status,     \* job.status
    thread,     \* where the thread of each job is
    copy,       \* the status in the copy _save_to_redis took
    staged,     \* jobs with sub-jobs and a staging result to commit
    saved,      \* status in the Redis hash contextcore:jobs
    doomed,     \* jobs the watchdog and an endpoint are about to end
    commits,    \* history: times each job's staging result was committed
    contested,  \* history: jobs that were ended while their thread was alive
    unsaved,    \* history: jobs a save of which failed
    restarts,
    failures

history == <<commits, contested, unsaved>>
bounds == <<restarts, failures>>
vars == <<tracked, status, thread, copy, staged, saved, doomed, history, bounds>>

Active == {"queued", "running"}
Ended == {"completed", "failed"}
Statuses == Active \cup Ended \cup {"review_pending"}

\* The thread of a job:
\*   starting     submitted, not running yet
\*   function     inside the ingestion function
\*   stage_write  on_stage has a copy of the job to store
\*   sub_jobs     the result is to be reviewed, sub-jobs are being created
\*   end_read     the outcome is set and is to be saved
\*   end_write    ... and copied
ThreadSteps == {"none", "starting", "function", "stage_write", "sub_jobs",
                "end_read", "end_write", "done"}

\* Who ends jobs from outside, and where it looks for them.
Enders == {"watchdog", "watchdog redis", "delete", "clear", "clear redis"}
Dooms == [job : Jobs, by : Enders]
OnWatchdog(by) == by \in {"watchdog", "watchdog redis"}
OnSaved(by) == by \in {"watchdog redis", "clear redis"}

At(j, step) == thread[j] = step
Alive(j) == thread[j] \notin {"none", "done"}

TypeOK ==
    /\ tracked \in SUBSET Jobs
    /\ status \in [Jobs -> Statuses \cup {"none"}]
    /\ \A j \in tracked : status[j] # "none"
    /\ thread \in [Jobs -> ThreadSteps]
    /\ \A j \in Jobs : Alive(j) => status[j] # "none"
    /\ copy \in [Jobs -> Statuses \cup {"none"}]
    /\ \A j \in Jobs : thread[j] \in {"stage_write", "end_write"} => copy[j] # "none"
    /\ staged \in SUBSET Jobs
    /\ saved \in [Jobs -> Statuses \cup {"none"}]
    /\ doomed \in SUBSET Dooms
    /\ commits \in [Jobs -> Nat]
    /\ contested \in SUBSET Jobs
    /\ unsaved \in SUBSET Jobs
    /\ restarts \in 0..MaxRestarts
    /\ failures \in 0..MaxSaveFailures

Init ==
    /\ tracked = {}
    /\ status = [j \in Jobs |-> "none"]
    /\ thread = [j \in Jobs |-> "none"]
    /\ copy = [j \in Jobs |-> "none"]
    /\ staged = {}
    /\ saved = [j \in Jobs |-> "none"]
    /\ doomed = {}
    /\ commits = [j \in Jobs |-> 0]
    /\ contested = {}
    /\ unsaved = {}
    /\ restarts = 0
    /\ failures = 0

----------------------------------------------------------------------------
SetStatus(j, s) == status' = [status EXCEPT ![j] = s]

Goto(j, step) == thread' = [thread EXCEPT ![j] = step]

\* _save_to_redis stores s for job j, or fails silently.
Save(j, s) ==
    \/ /\ saved' = [saved EXCEPT ![j] = s]
       /\ UNCHANGED <<unsaved, failures>>
    \/ /\ failures < MaxSaveFailures
       /\ failures' = failures + 1
       /\ unsaved' = unsaved \cup {j}
       /\ UNCHANGED saved

----------------------------------------------------------------------------
(* submit and _run_job.                                                    *)

\* submit does not save the job.
Submit(j) ==
    /\ At(j, "none")
    /\ status[j] = "none"
    /\ tracked' = tracked \cup {j}
    /\ SetStatus(j, "queued")
    /\ Goto(j, "starting")
    /\ UNCHANGED <<copy, staged, saved, doomed, history, bounds>>

StartJob(j) ==
    /\ At(j, "starting")
    /\ SetStatus(j, "running")
    /\ Goto(j, "function")
    /\ UNCHANGED <<tracked, copy, staged, saved, doomed, history, bounds>>

StageRead(j) ==
    /\ At(j, "function")
    /\ copy' = [copy EXCEPT ![j] = status[j]]
    /\ Goto(j, "stage_write")
    /\ UNCHANGED <<tracked, status, staged, saved, doomed, history, bounds>>

StageWrite(j) ==
    /\ At(j, "stage_write")
    /\ Save(j, copy[j])
    /\ Goto(j, "function")
    /\ UNCHANGED <<tracked, status, copy, staged, doomed, commits, contested, restarts>>

\* The function returned or raised.  Whatever the status has become
\* meanwhile, the outcome is assigned.
FunctionEnds(j, outcome) ==
    /\ At(j, "function")
    /\ outcome \in Ended
    /\ SetStatus(j, outcome)
    /\ Goto(j, "end_read")
    /\ UNCHANGED <<tracked, copy, staged, saved, doomed, history, bounds>>

\* Review mode: review_pending is assigned first, then the sub-jobs appear.
FunctionStages(j) ==
    /\ At(j, "function")
    /\ SetStatus(j, "review_pending")
    /\ Goto(j, "sub_jobs")
    /\ UNCHANGED <<tracked, copy, staged, saved, doomed, history, bounds>>

CreateSubJobs(j) ==
    /\ At(j, "sub_jobs")
    /\ staged' = staged \cup {j}
    /\ Goto(j, "end_read")
    /\ UNCHANGED <<tracked, status, copy, saved, doomed, history, bounds>>

\* Wrong variant: the outcome is not saved.
EndReadUnsaved(j) ==
    /\ At(j, "end_read")
    /\ Goto(j, "done")
    /\ UNCHANGED <<tracked, status, copy, staged, saved, doomed, history, bounds>>

EndRead(j) ==
    /\ At(j, "end_read")
    /\ copy' = [copy EXCEPT ![j] = status[j]]
    /\ Goto(j, "end_write")
    /\ UNCHANGED <<tracked, status, staged, saved, doomed, history, bounds>>

EndWrite(j) ==
    /\ At(j, "end_write")
    /\ Save(j, copy[j])
    /\ Goto(j, "done")
    /\ UNCHANGED <<tracked, status, copy, staged, doomed, commits, contested, restarts>>

----------------------------------------------------------------------------
(* Ending jobs from outside: the watchdog (_cleanup_stuck_jobs, every 30   *)
(* seconds) and the endpoints.  Each looks at a job and ends it in a       *)
(* second step; the job's thread may do anything in between.               *)

\* The jobs each of them ends: in memory, and those Redis has as active.  The
\* watchdog takes what has been running for JOB_TIMEOUT_S.
Doomable(j, by) ==
    CASE by = "watchdog" -> j \in tracked /\ status[j] = "running"
      [] by = "watchdog redis" -> j \notin tracked /\ saved[j] = "running"
      [] by \in {"delete", "clear"} -> j \in tracked /\ status[j] \in Active
      [] by = "clear redis" -> saved[j] \in Active

\* Wrong variant: looks only for jobs whose thread is alive.
FindAlive(j, by) ==
    /\ \A d \in doomed : OnWatchdog(d.by) # OnWatchdog(by)
    /\ Doomable(j, by)
    /\ Alive(j)
    /\ doomed' = doomed \cup {[job |-> j, by |-> by]}
    /\ contested' = contested \cup {j}
    /\ UNCHANGED <<tracked, status, thread, copy, staged, saved, commits, unsaved, bounds>>

\* The watchdog's thread and the event loop work on one job at a time each.
Find(j, by) ==
    /\ \A d \in doomed : OnWatchdog(d.by) # OnWatchdog(by)
    /\ Doomable(j, by)
    /\ doomed' = doomed \cup {[job |-> j, by |-> by]}
    /\ contested' = IF Alive(j) THEN contested \cup {j} ELSE contested
    /\ UNCHANGED <<tracked, status, thread, copy, staged, saved, commits, unsaved, bounds>>

\* Wrong variant: the job is failed in memory only.
EndTrackedUnsaved(d) ==
    /\ d \in doomed
    /\ ~OnSaved(d.by)
    /\ SetStatus(d.job, "failed")
    /\ tracked' = IF d.by = "delete" THEN tracked \ {d.job} ELSE tracked
    /\ doomed' = doomed \ {d}
    /\ UNCHANGED <<thread, copy, staged, saved, history, bounds>>

\* The job fails, whatever it has become; with delete?force=true it is not
\* tracked any more, and its thread goes on.
EndTracked(d) ==
    /\ d \in doomed
    /\ ~OnSaved(d.by)
    /\ SetStatus(d.job, "failed")
    /\ Save(d.job, "failed")
    /\ tracked' = IF d.by = "delete" THEN tracked \ {d.job} ELSE tracked
    /\ doomed' = doomed \ {d}
    /\ UNCHANGED <<thread, copy, staged, commits, contested, restarts>>

\* The entry in Redis alone fails.
EndSaved(d) ==
    /\ d \in doomed
    /\ OnSaved(d.by)
    /\ saved' = [saved EXCEPT ![d.job] = "failed"]
    /\ doomed' = doomed \ {d}
    /\ UNCHANGED <<tracked, status, thread, copy, staged, history, bounds>>

\* delete_ingest_job of a job that is not active.
DeleteJob(j) ==
    /\ j \in tracked
    /\ status[j] \notin Active
    /\ tracked' = tracked \ {j}
    /\ UNCHANGED <<status, thread, copy, staged, saved, doomed, history, bounds>>

\* clear_finished_jobs.
ClearFinished ==
    /\ \E j \in tracked : status[j] \in Ended
    /\ tracked' = {j \in tracked : status[j] \notin Ended}
    /\ UNCHANGED <<status, thread, copy, staged, saved, doomed, history, bounds>>

\* Wrong variant: the status is not asked for.
CommitReviewedAgain(j, outcome) ==
    /\ j \in tracked
    /\ j \in staged
    /\ outcome \in Ended
    /\ SetStatus(j, outcome)
    /\ commits' = [commits EXCEPT ![j] = @ + 1]
    /\ UNCHANGED <<tracked, thread, copy, staged, saved, doomed, contested, unsaved, bounds>>

\* commit_reviewed writes the staging result to the graph and completes the
\* job, or fails it when the writing raises.  It does not save the job.
CommitReviewed(j, outcome) ==
    /\ j \in tracked
    /\ status[j] = "review_pending"
    /\ j \in staged
    /\ outcome \in Ended
    /\ SetStatus(j, outcome)
    /\ commits' = [commits EXCEPT ![j] = @ + 1]
    /\ UNCHANGED <<tracked, thread, copy, staged, saved, doomed, contested, unsaved, bounds>>

\* Wrong variant: the status is not read back.
RestartBlank ==
    /\ restarts < MaxRestarts
    /\ restarts' = restarts + 1
    /\ tracked' = {j \in Jobs : saved[j] # "none"}
    /\ status' = [j \in Jobs |-> "none"]
    /\ thread' = [j \in Jobs |-> IF Alive(j) THEN "done" ELSE thread[j]]
    /\ staged' = {}
    /\ doomed' = {}
    /\ UNCHANGED <<copy, saved, history, failures>>

\* The server stops, all threads with it, and starts: _load_from_redis reads
\* status and log of each job, not its sub-jobs and not its staging result.
Restart ==
    /\ restarts < MaxRestarts
    /\ restarts' = restarts + 1
    /\ tracked' = {j \in Jobs : saved[j] # "none"}
    /\ status' = saved
    /\ thread' = [j \in Jobs |-> IF Alive(j) THEN "done" ELSE thread[j]]
    /\ staged' = {}
    /\ doomed' = {}
    /\ UNCHANGED <<copy, saved, history, failures>>

----------------------------------------------------------------------------
\* What the thread of a job does besides the function.
Run(j) ==
    \/ StartJob(j)
    \/ StageWrite(j)
    \/ CreateSubJobs(j)
    \/ EndRead(j)
    \/ EndWrite(j)

Function(j) ==
    \/ StageRead(j)
    \/ FunctionStages(j)
    \/ \E outcome \in Ended : FunctionEnds(j, outcome)

EndJob(d) == EndTracked(d) \/ EndSaved(d)

Outside(j) ==
    \/ \E by \in Enders : Find(j, by)
    \/ DeleteJob(j)
    \/ \E outcome \in Ended : CommitReviewed(j, outcome)

Next ==
    \/ \E j \in Jobs : Submit(j) \/ Run(j) \/ Function(j) \/ Outside(j)
    \/ \E d \in Dooms : EndJob(d)
    \/ ClearFinished
    \/ Restart

\* Threads are scheduled and the watchdog comes round; the ingestion function
\* may hang.
Fairness ==
    /\ \A j \in Jobs :
        /\ WF_vars(Run(j))
        /\ SF_vars(Find(j, "watchdog"))
        /\ SF_vars(Find(j, "watchdog redis"))
    /\ \A d \in Dooms : WF_vars(EndJob(d))

Spec == Init /\ [][Next]_vars /\ Fairness

----------------------------------------------------------------------------
(* Properties.                                                             *)

\* A reviewed document enters the graph at most once, whatever deletions,
\* restarts and second commits do.
CommittedOnce == \A j \in Jobs : commits[j] <= 1

\* What a user saw as the end of a job stays, restarts included, unless the
\* job was ended or its server stopped while its thread was alive, a save
\* failed, or it was a review (its commit is not saved).
EndedStays ==
    [][\A j \in Jobs :
         /\ status[j] \in Ended
         /\ At(j, "done")
         /\ commits[j] = 0
         /\ j \notin contested \cup unsaved
         => status'[j] = status[j]]_vars

\* No job is shown as running for ever, even if its function hangs
\* ("Periodically check for stuck jobs and auto-fail them").
EventuallyEnded ==
    \A j \in Jobs :
        (j \in tracked /\ status[j] \in Active)
          ~> (j \notin tracked \/ status[j] \notin Active)

\* Nor does Redis keep a job as running for ever, unless a save failed or the
\* job was ended while its thread was alive.
SavedEventuallyEnded ==
    \A j \in Jobs :
        saved[j] = "running"
          ~> (saved[j] # "running" \/ j \in contested \cup unsaved)

\* "review_pending (has sub-jobs)": the sub-jobs of a job under review can be
\* decided and committed.
ReviewHasSubJobs ==
    \A j \in tracked :
        status[j] = "review_pending" => j \in staged \/ At(j, "sub_jobs")
=============================================================================
