------------------------- MODULE IngestionJobsProofs -------------------------
(***************************************************************************)
(* Proofs about IngestionJobs, for any jobs, restarts and failed saves: a  *)
(* review is committed once, and an outcome that nobody contested stays.   *)
(***************************************************************************)
EXTENDS IngestionJobs, TLAPS

----------------------------------------------------------------------------
(* Types.                                                                  *)

\* No job exists at first.
LEMMA TypeInit == Init => TypeOK
BY BoundsAssumption DEF Init, TypeOK, Alive, Statuses, Active, Ended, ThreadSteps, Dooms

\* Every action keeps the types.  A job whose thread is alive has a status,
\* and a thread that is about to store a copy has taken one.
LEMMA TypeStep == TypeOK /\ [Next]_vars => TypeOK'
<1> SUFFICES ASSUME TypeOK, [Next]_vars
             PROVE  TypeOK'
    OBVIOUS
<1> USE BoundsAssumption DEF Statuses, Active, Ended, ThreadSteps, Dooms, history, bounds
<1>1. ASSUME NEW j \in Jobs, Submit(j) PROVE TypeOK'
    BY <1>1 DEF TypeOK, Submit, SetStatus, Goto, At, Alive
<1>2. ASSUME NEW j \in Jobs, StartJob(j) PROVE TypeOK'
    BY <1>2 DEF TypeOK, StartJob, SetStatus, Goto, At, Alive
<1>3. ASSUME NEW j \in Jobs, StageRead(j) PROVE TypeOK'
    BY <1>3 DEF TypeOK, StageRead, Goto, At, Alive
<1>4. ASSUME NEW j \in Jobs, StageWrite(j) PROVE TypeOK'
    BY <1>4 DEF TypeOK, StageWrite, Save, Goto, At, Alive
<1>5. ASSUME NEW j \in Jobs, NEW outcome \in Ended, FunctionEnds(j, outcome) PROVE TypeOK'
    BY <1>5 DEF TypeOK, FunctionEnds, SetStatus, Goto, At, Alive
<1>6. ASSUME NEW j \in Jobs, FunctionStages(j) PROVE TypeOK'
    BY <1>6 DEF TypeOK, FunctionStages, SetStatus, Goto, At, Alive
<1>7. ASSUME NEW j \in Jobs, CreateSubJobs(j) PROVE TypeOK'
    BY <1>7 DEF TypeOK, CreateSubJobs, Goto, At, Alive
<1>8. ASSUME NEW j \in Jobs, EndRead(j) PROVE TypeOK'
    BY <1>8 DEF TypeOK, EndRead, Goto, At, Alive
<1>9. ASSUME NEW j \in Jobs, EndWrite(j) PROVE TypeOK'
    BY <1>9 DEF TypeOK, EndWrite, Save, Goto, At, Alive
<1>10. ASSUME NEW j \in Jobs, NEW by \in Enders, Find(j, by) PROVE TypeOK'
    BY <1>10 DEF TypeOK, Find, Alive
<1>11. ASSUME NEW d \in Dooms, EndTracked(d) PROVE TypeOK'
    BY <1>11 DEF TypeOK, EndTracked, SetStatus, Save, Alive
<1>12. ASSUME NEW d \in Dooms, EndSaved(d) PROVE TypeOK'
    BY <1>12 DEF TypeOK, EndSaved, Alive
<1>13. ASSUME NEW j \in Jobs, DeleteJob(j) PROVE TypeOK'
    BY <1>13 DEF TypeOK, DeleteJob, Alive
<1>14. CASE ClearFinished
    BY <1>14 DEF TypeOK, ClearFinished, Alive
<1>15. ASSUME NEW j \in Jobs, NEW outcome \in Ended, CommitReviewed(j, outcome) PROVE TypeOK'
    BY <1>15 DEF TypeOK, CommitReviewed, SetStatus, Alive
<1>16. CASE Restart
    BY <1>16 DEF TypeOK, Restart, Alive
<1>17. CASE UNCHANGED vars
    BY <1>17 DEF TypeOK, vars, Alive
<1> QED
    BY <1>1, <1>2, <1>3, <1>4, <1>5, <1>6, <1>7, <1>8, <1>9, <1>10, <1>11, <1>12,
       <1>13, <1>14, <1>15, <1>16, <1>17
       DEF Next, Run, Function, EndJob, Outside

\* For any jobs: the variables have their types, a thread that is alive has a job
\* with a status, and a copy about to be stored was taken.
THEOREM TypeCorrect == Spec => []TypeOK
BY TypeInit, TypeStep, PTL DEF Spec

----------------------------------------------------------------------------
(* A review is committed once.                                             *)

PastStaging == {"end_read", "end_write", "done"}

\* The staging result appears after the function has ended, and a commit leaves
\* nothing to commit: either the job is not under review any more or, after a
\* restart, the staging result is gone.  Its thread will not stage it again.
CommitsSpent ==
    \A j \in Jobs :
        /\ j \in staged => thread[j] \in PastStaging
        /\ commits[j] <= 1
        /\ commits[j] = 1 => /\ thread[j] \in PastStaging
                             /\ ~(j \in staged /\ status[j] = "review_pending")

\* Every action keeps CommitsSpent.
LEMMA CommitsSpentStep == TypeOK /\ CommitsSpent /\ [Next]_vars => CommitsSpent'
<1> SUFFICES ASSUME TypeOK, CommitsSpent, [Next]_vars
             PROVE  CommitsSpent'
    OBVIOUS
<1> USE DEF CommitsSpent, PastStaging, TypeOK, Ended, history, bounds
<1>1. ASSUME NEW j \in Jobs, Submit(j) PROVE CommitsSpent'
    BY <1>1 DEF Submit, SetStatus, Goto, At
<1>2. ASSUME NEW j \in Jobs, Run(j) PROVE CommitsSpent'
    BY <1>2 DEF Run, StartJob, StageWrite, CreateSubJobs, EndRead, EndWrite, SetStatus, Goto, At
<1>3. ASSUME NEW j \in Jobs, Function(j) PROVE CommitsSpent'
    BY <1>3 DEF Function, StageRead, FunctionStages, FunctionEnds, SetStatus, Goto, At
<1>4. ASSUME NEW j \in Jobs, NEW by \in Enders, Find(j, by) PROVE CommitsSpent'
    BY <1>4 DEF Find
<1>5. ASSUME NEW d \in Dooms, EndJob(d) PROVE CommitsSpent'
    BY <1>5 DEF EndJob, EndTracked, EndSaved, SetStatus, Dooms
<1>6. ASSUME NEW j \in Jobs, DeleteJob(j) PROVE CommitsSpent'
    BY <1>6 DEF DeleteJob
<1>7. CASE ClearFinished
    BY <1>7 DEF ClearFinished
<1>8. ASSUME NEW j \in Jobs, NEW outcome \in Ended, CommitReviewed(j, outcome)
      PROVE  CommitsSpent'
    BY <1>8 DEF CommitReviewed, SetStatus
<1>9. CASE Restart
    BY <1>9 DEF Restart, Alive
<1>10. CASE UNCHANGED vars
    BY <1>10 DEF vars
<1> QED
    BY <1>1, <1>2, <1>3, <1>4, <1>5, <1>6, <1>7, <1>8, <1>9, <1>10 DEF Next, Outside

\* For any jobs, whatever deletions, restarts and second commits do: a reviewed
\* document enters the graph at most once (JobManager.commit_reviewed).
THEOREM ReviewsCommittedOnce == Spec => []CommittedOnce
<1>1. ASSUME Init PROVE CommitsSpent
  <2> SUFFICES ASSUME NEW j \in Jobs
               PROVE  /\ j \in staged => thread[j] \in PastStaging
                      /\ commits[j] <= 1
                      /\ commits[j] = 1 => /\ thread[j] \in PastStaging
                                           /\ ~(j \in staged /\ status[j] = "review_pending")
    BY DEF CommitsSpent
  <2>1. j \notin staged
    BY <1>1 DEF Init
  <2>2. commits[j] = 0
    BY <1>1 DEF Init
  <2> QED
    BY <2>1, <2>2
<1>2. CommitsSpent => CommittedOnce
    BY DEF CommitsSpent, CommittedOnce
<1> QED
    BY <1>1, <1>2, TypeCorrect, CommitsSpentStep, PTL DEF Spec

----------------------------------------------------------------------------
(* Ends stay.                                                              *)

\* Neither a review, nor ended while its thread was alive, nor a save failed.
Clean(j) == commits[j] = 0 /\ j \notin contested \cup unsaved

\* A job that was not submitted has no status anywhere.
FreshBlank == \A j \in Jobs : At(j, "none") => status[j] = "none" /\ saved[j] = "none"

\* Whoever is about to end a clean job looked at it after its thread had died
\* with the server: it was shown as active, and has not been ended but by others.
DoomsSound ==
    \A d \in doomed :
        /\ ~At(d.job, "none")
        /\ d.job \notin contested =>
            /\ At(d.job, "done")
            /\ Clean(d.job) => status[d.job] \in Active \cup {"failed"}

\* What a clean job's thread saves is its outcome, and after that memory and
\* Redis agree, unless Redis alone was told that the job failed.
SavedSound ==
    \A j \in Jobs :
        Clean(j) =>
            /\ At(j, "end_write") => copy[j] = status[j]
            /\ At(j, "done") => \/ saved[j] = status[j]
                                \/ saved[j] = "failed" /\ status[j] \in Active

EndInv == FreshBlank /\ DoomsSound /\ SavedSound

\* Every action keeps EndInv.
LEMMA EndInvStep == TypeOK /\ EndInv /\ [Next]_vars => EndInv'
<1> SUFFICES ASSUME TypeOK, EndInv, [Next]_vars
             PROVE  EndInv'
    OBVIOUS
<1> USE DEF EndInv, FreshBlank, DoomsSound, SavedSound, Clean, At, TypeOK, Dooms, Ended, Active,
            history, bounds
<1>1. ASSUME NEW j \in Jobs, Submit(j) PROVE EndInv'
    BY <1>1 DEF Submit, SetStatus, Goto
<1>2. ASSUME NEW j \in Jobs, StartJob(j) \/ CreateSubJobs(j) \/ EndRead(j) PROVE EndInv'
    BY <1>2 DEF StartJob, CreateSubJobs, EndRead, SetStatus, Goto
<1>3. ASSUME NEW j \in Jobs, StageWrite(j) PROVE EndInv'
    BY <1>3 DEF StageWrite, Save, Goto
<1>4. ASSUME NEW j \in Jobs, EndWrite(j) PROVE EndInv'
    BY <1>4 DEF EndWrite, Save, Goto
<1>5. ASSUME NEW j \in Jobs, Function(j) PROVE EndInv'
    BY <1>5 DEF Function, StageRead, FunctionStages, FunctionEnds, SetStatus, Goto
<1>6. ASSUME NEW j \in Jobs, NEW by \in Enders, Find(j, by) PROVE EndInv'
  <2>1. status[j] \in Active \/ saved[j] \in Active
    BY <1>6 DEF Find, Doomable, Enders
  <2>2. At(j, "done") \/ Alive(j)
    BY <2>1 DEF Alive
  <2>3. /\ doomed' = doomed \cup {[job |-> j, by |-> by]}
        /\ contested' = IF Alive(j) THEN contested \cup {j} ELSE contested
        /\ UNCHANGED <<status, thread, copy, saved, commits, unsaved>>
    BY <1>6 DEF Find
  <2>4. FreshBlank' /\ SavedSound'
    BY <2>3
  <2>5. \A d \in doomed' : ~At(d.job, "none")'
    BY <2>2, <2>3 DEF Alive
  <2>6. ASSUME NEW d \in doomed', d.job \notin contested'
        PROVE  /\ At(d.job, "done")'
               /\ Clean(d.job)' => status'[d.job] \in Active \cup {"failed"}
    <3>1. CASE d \in doomed
        BY <2>3, <2>6, <3>1
    <3>2. CASE d = [job |-> j, by |-> by]
      <4>1. d.job = j
        BY <3>2
      <4>2. At(j, "done") /\ j \notin contested
        BY <2>2, <2>3, <2>6, <4>1
      <4> QED
        BY <2>1, <2>3, <4>1, <4>2
    <3> QED
        BY <2>3, <2>6, <3>1, <3>2
  <2> QED
    BY <2>4, <2>5, <2>6
<1>7. ASSUME NEW d \in Dooms, EndTracked(d) PROVE EndInv'
  <2> DEFINE k == d.job
  <2>1. /\ k \in Jobs
        /\ k \in contested \/ At(k, "done")
    BY <1>7 DEF EndTracked
  <2>2. /\ status' = [status EXCEPT ![k] = "failed"]
        /\ doomed' \subseteq doomed
        /\ UNCHANGED <<thread, copy, commits, contested>>
        /\ \/ saved' = [saved EXCEPT ![k] = "failed"] /\ UNCHANGED unsaved
           \/ unsaved' = unsaved \cup {k} /\ UNCHANGED saved
    BY <1>7 DEF EndTracked, SetStatus, Save
  <2>3. ~At(k, "none")
    BY <1>7 DEF EndTracked
  <2> HIDE DEF k
  <2>4. FreshBlank'
    BY <2>1, <2>2, <2>3
  <2>5. DoomsSound'
    BY <2>1, <2>2
  <2>6. SavedSound'
    BY <2>1, <2>2
  <2> QED
    BY <2>4, <2>5, <2>6
<1>8. ASSUME NEW d \in Dooms, EndSaved(d) PROVE EndInv'
  <2> DEFINE k == d.job
  <2>1. /\ k \in Jobs
        /\ k \notin contested => At(k, "done") /\ (Clean(k) => status[k] \in {"queued", "running", "failed"})
    BY <1>8 DEF EndSaved
  <2>2. /\ saved' = [saved EXCEPT ![k] = "failed"]
        /\ doomed' \subseteq doomed
        /\ UNCHANGED <<status, thread, copy, commits, contested, unsaved>>
    BY <1>8 DEF EndSaved
  <2>3. ~At(k, "none")
    BY <1>8 DEF EndSaved
  <2> HIDE DEF k
  <2>4. FreshBlank'
    BY <2>1, <2>2, <2>3
  <2>5. DoomsSound'
    BY <2>1, <2>2
  <2>6. SavedSound'
    BY <2>1, <2>2
  <2> QED
    BY <2>4, <2>5, <2>6
<1>9. ASSUME NEW j \in Jobs, DeleteJob(j) PROVE EndInv'
    BY <1>9 DEF DeleteJob
<1>10. CASE ClearFinished
    BY <1>10 DEF ClearFinished
<1>11. ASSUME NEW j \in Jobs, NEW outcome \in Ended, CommitReviewed(j, outcome) PROVE EndInv'
    BY <1>11 DEF CommitReviewed, SetStatus
<1>12. CASE Restart
    BY <1>12 DEF Restart, Alive
<1>13. CASE UNCHANGED vars
    BY <1>13 DEF vars
<1> QED
    BY <1>1, <1>2, <1>3, <1>4, <1>5, <1>6, <1>7, <1>8, <1>9, <1>10, <1>11, <1>12, <1>13
       DEF Next, Run, EndJob, Outside

\* An outcome that is clean and whose thread is done is not changed by any step.
LEMMA EndKept ==
    ASSUME TypeOK, EndInv, [Next]_vars, NEW j \in Jobs,
           status[j] \in Ended, At(j, "done"), Clean(j)
    PROVE  status'[j] = status[j]
<1> USE DEF TypeOK, At, Ended, Active, Dooms
<1>1. ASSUME NEW i \in Jobs, Submit(i) PROVE status'[j] = status[j]
    BY <1>1 DEF Submit, SetStatus
<1>2. ASSUME NEW i \in Jobs, Run(i) \/ Function(i) PROVE status'[j] = status[j]
    BY <1>2 DEF Run, StartJob, StageWrite, CreateSubJobs, EndRead, EndWrite,
                Function, StageRead, FunctionStages, FunctionEnds, SetStatus
<1>3. ASSUME NEW i \in Jobs, Outside(i) PROVE status'[j] = status[j]
    BY <1>3 DEF Outside, Find, DeleteJob, CommitReviewed, SetStatus
<1>4. ASSUME NEW d \in Dooms, EndTracked(d) PROVE status'[j] = status[j]
    BY <1>4 DEF EndTracked, SetStatus, EndInv, DoomsSound, Clean
<1>5. ASSUME NEW d \in Dooms, EndSaved(d) PROVE status'[j] = status[j]
    BY <1>5 DEF EndSaved
<1>6. CASE ClearFinished
    BY <1>6 DEF ClearFinished
<1>7. CASE Restart
    BY <1>7 DEF Restart, EndInv, SavedSound
<1>8. CASE UNCHANGED vars
    BY <1>8 DEF vars
<1> QED
    BY <1>1, <1>2, <1>3, <1>4, <1>5, <1>6, <1>7, <1>8 DEF Next, EndJob

\* For any jobs: what a user saw as the end of a job stays, restarts included,
\* unless the job was ended while its thread was alive, a save failed, or it was a
\* review (JobManager._run_job, _cleanup_stuck_jobs and _load_from_redis).
THEOREM OutcomesStay == Spec => EndedStays
<1>1. Init => EndInv
    BY DEF Init, EndInv, FreshBlank, DoomsSound, SavedSound, At
<1>2. Spec => []EndInv
    BY <1>1, TypeCorrect, EndInvStep, PTL DEF Spec
<1>3. TypeOK /\ EndInv /\ [Next]_vars =>
        [\A j \in Jobs :
           /\ status[j] \in Ended
           /\ At(j, "done")
           /\ commits[j] = 0
           /\ j \notin contested \cup unsaved
           => status'[j] = status[j]]_vars
    BY EndKept DEF Clean
<1> QED
    BY <1>2, <1>3, TypeCorrect, PTL DEF Spec, EndedStays

----------------------------------------------------------------------------
(* What memory and Redis say of a job.                                     *)

\* Once the thread of a clean job is done, Redis has the status memory has; it
\* differs only where the watchdog or clear failed the entry of a job that the
\* server, restarted, still shows as active.
SavedAgrees ==
    \A j \in Jobs :
        At(j, "done") /\ Clean(j) =>
            \/ saved[j] = status[j]
            \/ saved[j] = "failed" /\ status[j] \in Active

\* For any jobs: what is so of a job that ended, and of its copy in Redis, holds always.
LEMMA EndInvariant == Spec => []EndInv
<1>1. Init => EndInv
    BY DEF Init, EndInv, FreshBlank, DoomsSound, SavedSound, At
<1> QED
    BY <1>1, TypeCorrect, EndInvStep, PTL DEF Spec

\* For any jobs: the copies _save_to_redis stores in a second step never leave Redis
\* behind memory for good, unless the job was ended while its thread was alive, a
\* save failed or it was a review; what memory shows as active may be failed in Redis
\* (JobManager._save_to_redis).
THEOREM MemoryAndRedisAgree == Spec => []SavedAgrees
<1>1. EndInv => SavedAgrees
    BY DEF EndInv, SavedSound, SavedAgrees
<1> QED
    BY <1>1, EndInvariant, PTL

----------------------------------------------------------------------------
(* Before the first restart.                                               *)

\* A job under review has its sub-jobs, or its thread is creating them; one whose
\* thread is past the function is not active, so that only a live thread's job can
\* be found to be ended, by the watchdog or by an endpoint.
FirstRun ==
    /\ ReviewHasSubJobs
    /\ \A j \in Jobs : status[j] \in Active => Alive(j)
    /\ \A d \in doomed : d.by # "clear redis" /\ d.by # "watchdog redis"
                           => d.job \in contested

\* What makes FirstRun inductive: the same of jobs that were deleted while their
\* threads went on, and nothing is active past the function.
FirstRunInv ==
    restarts = 0 =>
        /\ \A j \in Jobs :
              /\ status[j] = "review_pending" => j \in staged \/ At(j, "sub_jobs")
              /\ status[j] \in Active => thread[j] \in {"starting", "function", "stage_write"}
        /\ \A d \in doomed : ~OnSaved(d.by) => d.job \in contested

\* Every action keeps FirstRunInv, and a restart leaves its premise.
LEMMA FirstRunStep == TypeOK /\ FirstRunInv /\ [Next]_vars => FirstRunInv'
<1> SUFFICES ASSUME TypeOK, FirstRunInv, [Next]_vars
             PROVE  FirstRunInv'
    OBVIOUS
<1> USE DEF FirstRunInv, TypeOK, At, Active, Ended, history, bounds
<1>1. ASSUME NEW j \in Jobs, Submit(j) PROVE FirstRunInv'
    BY <1>1 DEF Submit, SetStatus, Goto
<1>2. ASSUME NEW j \in Jobs, StartJob(j) \/ EndRead(j) PROVE FirstRunInv'
    BY <1>2 DEF StartJob, EndRead, SetStatus, Goto
<1>3. ASSUME NEW j \in Jobs, StageWrite(j) \/ EndWrite(j) PROVE FirstRunInv'
    BY <1>3 DEF StageWrite, EndWrite, Save, Goto
<1>4. ASSUME NEW j \in Jobs, CreateSubJobs(j) PROVE FirstRunInv'
    BY <1>4 DEF CreateSubJobs, Goto
<1>5. ASSUME NEW j \in Jobs, Function(j) PROVE FirstRunInv'
    BY <1>5 DEF Function, StageRead, FunctionStages, FunctionEnds, SetStatus, Goto
<1>6. ASSUME NEW j \in Jobs, NEW by \in Enders, Find(j, by) PROVE FirstRunInv'
  <2>1. ~OnSaved(by) => status[j] \in Active
    BY <1>6 DEF Find, Doomable, Enders, OnSaved
  <2>2. restarts = 0 /\ ~OnSaved(by) => Alive(j)
    BY <2>1 DEF Alive
  <2>3. /\ doomed' = doomed \cup {[job |-> j, by |-> by]}
        /\ contested' = IF Alive(j) THEN contested \cup {j} ELSE contested
        /\ UNCHANGED <<status, thread, staged, restarts>>
    BY <1>6 DEF Find
  <2> QED
    BY <2>2, <2>3
<1>7. ASSUME NEW d \in Dooms, EndJob(d) PROVE FirstRunInv'
  <2>1. d.job \in Jobs
    BY DEF Dooms
  <2>2. /\ \/ status' = [status EXCEPT ![d.job] = "failed"]
           \/ status' = status
        /\ doomed' \subseteq doomed
        /\ UNCHANGED <<thread, staged, contested, restarts>>
    BY <1>7 DEF EndJob, EndTracked, EndSaved, SetStatus
  <2> QED
    BY <2>1, <2>2
<1>8. ASSUME NEW j \in Jobs, DeleteJob(j) PROVE FirstRunInv'
    BY <1>8 DEF DeleteJob
<1>9. CASE ClearFinished
    BY <1>9 DEF ClearFinished
<1>10. ASSUME NEW j \in Jobs, NEW outcome \in Ended, CommitReviewed(j, outcome)
       PROVE  FirstRunInv'
    BY <1>10 DEF CommitReviewed, SetStatus
<1>11. CASE Restart
    BY <1>11 DEF Restart
<1>12. CASE UNCHANGED vars
    BY <1>12 DEF vars
<1> QED
    BY <1>1, <1>2, <1>3, <1>4, <1>5, <1>6, <1>7, <1>8, <1>9, <1>10, <1>11, <1>12
       DEF Next, Run, Outside

\* For any jobs, until the server is restarted for the first time: every review has
\* its sub-jobs ("review_pending (has sub-jobs)", job_manager.py), and what the
\* watchdog, delete and clear end in memory has a thread that goes on.
THEOREM SoundUntilRestart == Spec => [](restarts = 0 => FirstRun)
<1>1. Init => FirstRunInv
    BY DEF Init, FirstRunInv, Active
<1>2. TypeOK /\ FirstRunInv => (restarts = 0 => FirstRun)
    BY DEF TypeOK, FirstRunInv, FirstRun, ReviewHasSubJobs, Alive, OnSaved
<1> QED
    BY <1>1, <1>2, TypeCorrect, FirstRunStep, PTL DEF Spec

----------------------------------------------------------------------------
(* After a restart.                                                        *)

\* The thread is gone and there is nothing to commit.
Lost(j) == At(j, "done") /\ j \notin staged

\* No step brings a staging result back: only the thread creates one.
LEMMA LostStays == ASSUME TypeOK, NEW j \in Jobs, Lost(j), [Next]_vars
                   PROVE  Lost(j)' /\ commits'[j] = commits[j]
<1> USE DEF TypeOK, Lost, At, history, bounds
<1>1. ASSUME NEW i \in Jobs, Submit(i) PROVE Lost(j)' /\ commits'[j] = commits[j]
    BY <1>1 DEF Submit, Goto
<1>2. ASSUME NEW i \in Jobs, Run(i) \/ Function(i)
      PROVE  Lost(j)' /\ commits'[j] = commits[j]
    BY <1>2 DEF Run, StartJob, StageWrite, CreateSubJobs, EndRead, EndWrite,
                Function, StageRead, FunctionStages, FunctionEnds, Goto
<1>3. ASSUME NEW i \in Jobs, Outside(i) PROVE Lost(j)' /\ commits'[j] = commits[j]
    BY <1>3 DEF Outside, Find, DeleteJob, CommitReviewed
<1>4. ASSUME NEW d \in Dooms, EndJob(d) PROVE Lost(j)' /\ commits'[j] = commits[j]
    BY <1>4 DEF EndJob, EndTracked, EndSaved
<1>5. CASE ClearFinished
    BY <1>5 DEF ClearFinished
<1>6. CASE Restart
    BY <1>6 DEF Restart, Alive
<1>7. CASE UNCHANGED vars
    BY <1>7 DEF vars
<1> QED
    BY <1>1, <1>2, <1>3, <1>4, <1>5, <1>6, <1>7 DEF Next

\* A restart leaves every job that was submitted without its staging result.
LEMMA RestartLoses ==
    ASSUME TypeOK, NEW j \in Jobs, ~At(j, "none"), [Next]_vars, restarts' # restarts
    PROVE  Lost(j)'
<1> USE DEF history, bounds
<1>1. ASSUME NEW i \in Jobs, Submit(i) \/ Run(i) \/ Function(i) \/ Outside(i) PROVE FALSE
    BY <1>1 DEF Submit, Run, StartJob, StageWrite, CreateSubJobs, EndRead, EndWrite,
                Function, StageRead, FunctionStages, FunctionEnds,
                Outside, Find, DeleteJob, CommitReviewed, Save
<1>2. ASSUME NEW d \in Dooms, EndJob(d) PROVE FALSE
    BY <1>2 DEF EndJob, EndTracked, EndSaved, Save
<1>3. Restart
    BY <1>1, <1>2 DEF Next, ClearFinished, vars
<1> QED
    BY <1>3 DEF Restart, Lost, At, Alive, TypeOK, ThreadSteps

\* For any jobs: after a restart no review that was open can ever be committed, by
\* no sequence of requests (_load_from_redis reads no sub-jobs and no staging result).
THEOREM RestartEndsReviews ==
    ASSUME NEW j \in Jobs
    PROVE  Spec => /\ [][restarts' # restarts /\ ~At(j, "none") => Lost(j)']_vars
                   /\ [](Lost(j) => []Lost(j))
                   /\ [][Lost(j) => commits'[j] = commits[j]]_vars
<1>1. TypeOK /\ [Next]_vars => [restarts' # restarts /\ ~At(j, "none") => Lost(j)']_vars
    BY RestartLoses
<1>2. TypeOK /\ Lost(j) /\ [Next]_vars => Lost(j)'
    BY LostStays
<1>3. TypeOK /\ [Next]_vars => [Lost(j) => commits'[j] = commits[j]]_vars
    BY LostStays
<1> QED
    BY <1>1, <1>2, <1>3, TypeCorrect, PTL DEF Spec
=============================================================================
