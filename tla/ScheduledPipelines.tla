-------------------------- MODULE ScheduledPipelines --------------------------
(***************************************************************************)
(* Scheduled ingestion pipelines: PipelineScheduler (src/contextsynapse/   *)
(* pipelines/scheduler.py), execute_pipeline (pipelines/executor.py),      *)
(* PipelineStore (pipelines/models.py) and the endpoints of /pipelines     *)
(* (api/dashboard_router.py).                                              *)
(*                                                                         *)
(* Every API process has a scheduler with a pool of threads; all of them   *)
(* share the store in Redis.  A pipeline is a JSON record under a key of   *)
(* its own and an id in the set pipeline:ids; whoever changes it reads the *)
(* record, changes the copy and stores all of it.  A run holds its copy    *)
(* for as long as it crawls.                                               *)
(*                                                                         *)
(* An action is one Redis command, or the crawl.  Left out: what a crawl   *)
(* does to the graph, last_error, last_run_at, total_documents, events and *)
(* the limit of 100 runs in the history; the settings of a pipeline are    *)
(* the number of the update they come from, next_run_at is unset, later or *)
(* due.                                                                    *)
(***************************************************************************)
EXTENDS Naturals, Sequences, FiniteSets

CONSTANTS
    Processes,      \* API processes
    Schedulers,     \* those whose scheduler was started
    NoProcess,      \* of what is done
    Pipelines,      \* pipeline ids (uuid4: created once)
    Triggers,       \* trigger types in use
    Absent,         \* no record
    PoolSize,       \* threads of a scheduler (max_workers)
    MaxActivities,  \* bound: runs and requests in total
    MaxFaults       \* bound: commands that raise and processes that die

ASSUME TriggersAssumption ==
    "one_time" \in Triggers /\ Triggers \subseteq {"scheduled", "one_time", "webhook"}

ASSUME ProcessesAssumption ==
    Schedulers \subseteq Processes /\ NoProcess \notin Processes

ASSUME BoundsAssumption ==
    PoolSize \in Nat \ {0} /\ MaxActivities \in Nat /\ MaxFaults \in Nat

VARIABLES
    record,     \* pipeline:<id>
    ids,        \* pipeline:ids
    history,    \* pipeline:<id>:runs, runs by their number
    tick,       \* what each scheduler has listed: still to read, due
    activity,   \* runs and requests in the order they came
    raced,      \* history: pipelines stored from a copy that was not current,
                \* or whose id was stored when the record was gone
    held,       \* history: pipelines paused while nothing was under way
                \* about them, and not resumed since
    wanted,     \* history: the update whose settings were stored last
    ran,        \* history: runs whose outcome was stored
    succeeded,  \* history: those that ended well
    deleted,    \* history: pipelines that were deleted
    broken,     \* history: activities a command of which raised, or whose
                \* process died
    faults      \* faults so far

store == <<record, ids, history>>
ghosts == <<raced, held, wanted, ran, succeeded, deleted, broken>>
vars == <<store, tick, activity, ghosts, faults>>

Activities == 1..MaxActivities
Statuses == {"draft", "active", "paused", "completed"}
NextRuns == {"unset", "later", "due"}

Records == [status : Statuses, trigger : Triggers, next : NextRuns,
            settings : 0..MaxActivities, runs : Nat]

ASSUME AbsentAssumption == Absent \notin Records

Blank == [status |-> "draft", trigger |-> "one_time", next |-> "unset",
          settings |-> 0, runs |-> 0]

ScheduledRun == "scheduled_run"     \* in the pool of a scheduler
RequestedRun == "requested_run"     \* a background task of a request
Runs == {ScheduledRun, RequestedRun}
Kinds == Runs \cup {"create", "update", "pause", "resume", "delete"}
Steps == {"queued", "crawl", "save", "save_id", "history", "fail_save",
          "fail_id", "drop", "drop_id", "done"}

\* copy is the Pipeline object; late: the record was stored or deleted since
\* the copy was read.
ActivityRecords == [kind : Kinds, pipeline : Pipelines,
                    process : Processes \cup {NoProcess}, step : Steps, copy : Records, late : BOOLEAN]

TypeOK ==
    /\ record \in [Pipelines -> Records \cup {Absent}]
    /\ ids \in SUBSET Pipelines
    /\ history \in [Pipelines -> SUBSET Activities]
    /\ tick \in [Schedulers -> [todo : SUBSET Pipelines, due : SUBSET Pipelines]]
    /\ activity \in Seq(ActivityRecords)
    /\ Len(activity) <= MaxActivities
    /\ raced \in SUBSET Pipelines
    /\ held \in SUBSET Pipelines
    /\ wanted \in [Pipelines -> 0..MaxActivities]
    /\ ran \in [Pipelines -> SUBSET Activities]
    /\ succeeded \in SUBSET Activities
    /\ deleted \in SUBSET Pipelines
    /\ broken \in SUBSET Activities
    /\ faults \in 0..MaxFaults

Init ==
    /\ record = [p \in Pipelines |-> Absent]
    /\ ids = {}
    /\ history = [p \in Pipelines |-> {}]
    /\ tick = [s \in Schedulers |-> [todo |-> {}, due |-> {}]]
    /\ activity = << >>
    /\ raced = {} /\ held = {} /\ deleted = {} /\ broken = {} /\ succeeded = {}
    /\ wanted = [p \in Pipelines |-> 0]
    /\ ran = [p \in Pipelines |-> {}]
    /\ faults = 0

----------------------------------------------------------------------------
Started == DOMAIN activity
At(j, step) == activity[j].step = step
Under(j) == activity[j].step # "done"
About(j, p) == activity[j].pipeline = p
Exists(p) == record[p] # Absent
Full == Len(activity) = MaxActivities

Start(kind, p, s, step, copy) ==
    /\ ~Full
    /\ activity' = Append(activity,
            [kind |-> kind, pipeline |-> p, process |-> s, step |-> step,
             copy |-> copy, late |-> FALSE])

\* What an activity leaves when it is done.
To(a, step) == IF step = "done"
               THEN [a EXCEPT !.step = "done", !.process = NoProcess,
                                   !.copy = Blank, !.late = FALSE]
               ELSE [a EXCEPT !.step = step]

Goto(j, step) == activity' = [activity EXCEPT ![j] = To(@, step)]

----------------------------------------------------------------------------
(* The scheduler: _tick_once                                               *)

\* list_all: SMEMBERS.
TickList(s) ==
    /\ tick[s].todo = {} /\ tick[s].due = {}
    /\ tick' = [tick EXCEPT ![s].todo = ids]
    /\ UNCHANGED <<store, activity, ghosts, faults>>

Due(p) ==
    /\ Exists(p)
    /\ record[p].trigger = "scheduled"
    /\ record[p].status = "active"
    /\ record[p].next # "later"

\* A wrong variant: only pipelines that never ran are due.
TickReadFirst(s, p) ==
    /\ p \in tick[s].todo
    /\ tick' = [tick EXCEPT ![s].todo = @ \ {p},
                            ![s].due = IF Due(p) /\ record[p].next = "unset"
                                       THEN @ \cup {p} ELSE @]
    /\ UNCHANGED <<store, activity, ghosts, faults>>

\* list_all: GET of the next id; _get_due_pipelines keeps what is due.
TickRead(s, p) ==
    /\ p \in tick[s].todo
    /\ tick' = [tick EXCEPT ![s].todo = @ \ {p},
                            ![s].due = IF Due(p) THEN @ \cup {p} ELSE @]
    /\ UNCHANGED <<store, activity, ghosts, faults>>

\* The pool gets the id.  Whether the pipeline waits or runs already is not
\* looked at.
TickSubmit(s, p) ==
    /\ tick[s].todo = {}
    /\ p \in tick[s].due
    /\ tick' = [tick EXCEPT ![s].due = @ \ {p}]
    /\ Start(ScheduledRun, p, s, "queued", Blank)
    /\ UNCHANGED <<store, ghosts, faults>>

----------------------------------------------------------------------------
(* execute_pipeline                                                        *)

Waits(j, s) ==
    activity[j].kind = ScheduledRun /\ activity[j].process = s /\ At(j, "queued")

Occupies(j, s) ==
    /\ activity[j].kind = ScheduledRun /\ activity[j].process = s
    /\ activity[j].step \notin {"queued", "done"}

\* A run starts: the pool takes its queue in order, a background task has a
\* thread of its own.
MayStart(j) ==
    /\ At(j, "queued")
    /\ activity[j].kind = ScheduledRun =>
        LET s == activity[j].process IN
        /\ \A i \in 1..(j - 1) : ~Waits(i, s)
        /\ Cardinality({i \in Started : Occupies(i, s)}) < PoolSize

\* A wrong variant: the run does not ask whether the pipeline is still there.
RunLoadUnasked(j) ==
    /\ MayStart(j)
    /\ activity' = [activity EXCEPT ![j].step = "crawl",
                                    ![j].copy = record[activity[j].pipeline]]
    /\ UNCHANGED <<store, tick, ghosts, faults>>

\* A wrong variant: the run works on a new object with the id.
RunLoadAnew(j) ==
    /\ MayStart(j)
    /\ LET p == activity[j].pipeline IN
        activity' = IF Exists(p)
                    THEN [activity EXCEPT ![j].step = "crawl",
                              ![j].copy = [record[p] EXCEPT !.settings = 0]]
                    ELSE [activity EXCEPT ![j] = To(@, "done")]
    /\ UNCHANGED <<store, tick, ghosts, faults>>

\* GET.  Neither the status nor next_run_at is looked at again.
RunLoad(j) ==
    /\ MayStart(j)
    /\ LET p == activity[j].pipeline IN
        activity' = IF Exists(p)
                    THEN [activity EXCEPT ![j].step = "crawl", ![j].copy = record[p]]
                    ELSE [activity EXCEPT ![j] = To(@, "done")]
    /\ UNCHANGED <<store, tick, ghosts, faults>>

\* The crawl returns: statistics, lifecycle and next_run_at of the copy.
CrawlOk(j) ==
    /\ At(j, "crawl")
    /\ LET scheduled == activity[j].copy.trigger = "scheduled"
           once == activity[j].copy.trigger = "one_time" IN
        activity' = [activity EXCEPT
            ![j].step = "save",
            ![j].copy.runs = @ + 1,
            ![j].copy.status = IF once THEN "completed"
                               ELSE IF scheduled THEN "active" ELSE @,
            ![j].copy.next = IF scheduled THEN "later" ELSE @]
    /\ UNCHANGED <<store, tick, ghosts, faults>>

\* A wrong variant: a run that failed is not counted.
CrawlFailUncounted(j) ==
    /\ At(j, "crawl")
    /\ Goto(j, "fail_save")
    /\ UNCHANGED <<store, tick, ghosts, faults>>

\* The crawl raises.  The time of the next run stays what it was.
CrawlFail(j) ==
    /\ At(j, "crawl")
    /\ activity' = [activity EXCEPT ![j].step = "fail_save",
                                    ![j].copy.runs = @ + 1]
    /\ UNCHANGED <<store, tick, ghosts, faults>>

\* save_run.
RunHistory(j) ==
    /\ At(j, "history")
    /\ history' = [history EXCEPT ![activity[j].pipeline] = @ \cup {j}]
    /\ Goto(j, "done")
    /\ UNCHANGED <<record, ids, tick, ghosts, faults>>

----------------------------------------------------------------------------
(* PipelineStore.save and delete                                           *)

\* Others that may still store a copy are late from now on; a run may do so
\* again until its history is written.
Outdated(j, p) ==
    {i \in Started \ {j} : About(i, p) /\
        activity[i].step \in {"crawl", "save", "save_id", "history", "fail_save"}}

Wrote(j, p, step) ==
    activity' = [i \in Started |->
                    IF i = j THEN To(activity[i], step)
                    ELSE IF i \in Outdated(j, p) THEN [activity[i] EXCEPT !.late = TRUE]
                    ELSE activity[i]]

\* Nothing but j is under way about p, and no scheduler found it due.
Quiet(j, p) ==
    /\ \A i \in Started \ {j} : About(i, p) => ~Under(i)
    /\ \A s \in Schedulers : p \notin tick[s].due

\* SET.
Save(j) ==
    /\ activity[j].step \in {"save", "fail_save"}
    /\ LET c == activity[j]
           p == c.pipeline IN
        /\ record' = [record EXCEPT ![p] = c.copy]
        /\ Wrote(j, p, IF c.step = "save" THEN "save_id" ELSE "fail_id")
        /\ raced' = IF c.late THEN raced \cup {p} ELSE raced
        /\ held' = IF c.kind = "pause" /\ Quiet(j, p) THEN held \cup {p}
                   ELSE IF c.kind = "resume" THEN held \ {p} ELSE held
        /\ wanted' = IF c.kind = "update" THEN [wanted EXCEPT ![p] = j] ELSE wanted
        /\ ran' = IF c.kind \in Runs THEN [ran EXCEPT ![p] = @ \cup {j}] ELSE ran
        /\ succeeded' = IF c.kind \in Runs /\ c.step = "save"
                        THEN succeeded \cup {j} ELSE succeeded
    /\ UNCHANGED <<ids, history, tick, deleted, broken, faults>>

\* A wrong variant: the run ends with the record.
SaveIdEnd(j) ==
    /\ activity[j].step \in {"save_id", "fail_id"}
    /\ LET p == activity[j].pipeline IN
        /\ ids' = ids \cup {p}
        /\ raced' = IF Exists(p) THEN raced ELSE raced \cup {p}
    /\ Goto(j, "done")
    /\ UNCHANGED <<record, history, tick, held, wanted, ran, succeeded, deleted,
                   broken, faults>>

\* SADD.  The record may be gone by now.
SaveId(j) ==
    /\ activity[j].step \in {"save_id", "fail_id"}
    /\ LET p == activity[j].pipeline IN
        /\ ids' = ids \cup {p}
        /\ raced' = IF Exists(p) THEN raced ELSE raced \cup {p}
    /\ Goto(j, IF At(j, "save_id") /\ activity[j].kind \in Runs
               THEN "history" ELSE "done")
    /\ UNCHANGED <<record, history, tick, held, wanted, ran, succeeded, deleted,
                   broken, faults>>

\* A wrong variant: the id stays.
DropKeyOnly(j) ==
    /\ At(j, "drop")
    /\ LET p == activity[j].pipeline IN
        /\ record' = [record EXCEPT ![p] = Absent]
        /\ deleted' = deleted \cup {p}
        /\ Wrote(j, p, "done")
    /\ UNCHANGED <<ids, history, tick, raced, held, wanted, ran, succeeded,
                   broken, faults>>

\* DEL.  The history stays.
Drop(j) ==
    /\ At(j, "drop")
    /\ LET p == activity[j].pipeline IN
        /\ record' = [record EXCEPT ![p] = Absent]
        /\ deleted' = deleted \cup {p}
        /\ Wrote(j, p, "drop_id")
    /\ UNCHANGED <<ids, history, tick, raced, held, wanted, ran, succeeded,
                   broken, faults>>

\* SREM.
DropId(j) ==
    /\ At(j, "drop_id")
    /\ ids' = ids \ {activity[j].pipeline}
    /\ Goto(j, "done")
    /\ UNCHANGED <<record, history, tick, ghosts, faults>>

----------------------------------------------------------------------------
(* The endpoints                                                           *)

\* The handlers are coroutines that never wait: a process serves one at a time.
Free(s) == \A j \in Started :
    activity[j].process = s /\ activity[j].kind \notin Runs => ~Under(j)

Reads(p, s) == Exists(p) /\ Free(s)

\* A scheduled pipeline gets a time for its next run if it has none.
Timed(copy) == IF copy.trigger = "scheduled" /\ copy.next = "unset"
               THEN [copy EXCEPT !.next = "later"] ELSE copy

\* What POST /pipelines makes: active if there is a context to fill.
Created(trigger, status) ==
    Timed([Blank EXCEPT !.trigger = trigger, !.status = status])

\* An id is made once.
Create(p, s, trigger, status) ==
    /\ Free(s)
    /\ \A j \in Started : ~About(j, p)
    /\ status \in {"draft", "active"}
    /\ Start("create", p, s, "save", Created(trigger, status))
    /\ UNCHANGED <<store, tick, ghosts, faults>>

\* PUT: the first context makes a draft active.
Update(p, s, trigger, status) ==
    /\ Reads(p, s)
    /\ status = record[p].status \/ (record[p].status = "draft" /\ status = "active")
    /\ Start("update", p, s, "save",
             Timed([record[p] EXCEPT !.trigger = trigger, !.status = status,
                                     !.settings = Len(activity) + 1]))
    /\ UNCHANGED <<store, tick, ghosts, faults>>

Pause(p, s) ==
    /\ Reads(p, s)
    /\ Start("pause", p, s, "save", [record[p] EXCEPT !.status = "paused"])
    /\ UNCHANGED <<store, tick, ghosts, faults>>

\* Whatever the status was.
Resume(p, s) ==
    /\ Reads(p, s)
    /\ Start("resume", p, s, "save", Timed([record[p] EXCEPT !.status = "active"]))
    /\ UNCHANGED <<store, tick, ghosts, faults>>

Delete(p, s) ==
    /\ Reads(p, s)
    /\ Start("delete", p, s, "drop", record[p])
    /\ UNCHANGED <<store, tick, ghosts, faults>>

\* A wrong variant: a paused pipeline may be run.
TriggerRunUnasked(p, s) ==
    /\ Reads(p, s)
    /\ Start(RequestedRun, p, s, "queued", Blank)
    /\ UNCHANGED <<store, tick, ghosts, faults>>

\* POST run, and webhook: the run is a background task.
TriggerRun(p, s) ==
    /\ Reads(p, s)
    /\ record[p].status # "paused"
    /\ Start(RequestedRun, p, s, "queued", Blank)
    /\ UNCHANGED <<store, tick, ghosts, faults>>

----------------------------------------------------------------------------
(* Time and faults                                                         *)

\* next_run_at <= now.
Elapse(p) ==
    /\ Exists(p)
    /\ record[p].next = "later"
    /\ record' = [record EXCEPT ![p].next = "due"]
    /\ UNCHANGED <<ids, history, tick, activity, ghosts, faults>>

\* A command of a request, the load of a run, or a command of its error path
\* raises (before it took effect).
CommandFails(j) ==
    /\ faults < MaxFaults
    /\ \/ MayStart(j)
       \/ activity[j].step \in {"fail_save", "fail_id", "drop", "drop_id"}
       \/ activity[j].step \in {"save", "save_id"} /\ activity[j].kind \notin Runs
    /\ Goto(j, "done")
    /\ broken' = broken \cup {j}
    /\ faults' = faults + 1
    /\ UNCHANGED <<store, tick, raced, held, wanted, ran, succeeded, deleted>>

\* A command after the crawl raises: the error path takes over, with the copy
\* as it is, and counts the run again.
RunCommandFails(j) ==
    /\ faults < MaxFaults
    /\ activity[j].kind \in Runs
    /\ activity[j].step \in {"save", "save_id", "history"}
    /\ \/ history' = history
       \/ /\ At(j, "history")        \* LTRIM, after LPUSH
          /\ history' = [history EXCEPT ![activity[j].pipeline] = @ \cup {j}]
    /\ activity' = [activity EXCEPT ![j].step = "fail_save", ![j].copy.runs = @ + 1]
    /\ broken' = broken \cup {j}
    /\ faults' = faults + 1
    /\ UNCHANGED <<record, ids, tick, raced, held, wanted, ran, succeeded, deleted>>

\* A command of a tick raises: _run goes on with the next tick.
TickFails(s) ==
    /\ faults < MaxFaults
    /\ tick[s].todo # {}
    /\ tick' = [tick EXCEPT ![s] = [todo |-> {}, due |-> {}]]
    /\ faults' = faults + 1
    /\ UNCHANGED <<store, activity, ghosts>>

\* A process dies and starts again: pool and background tasks are lost.
Crash(s) ==
    /\ faults < MaxFaults
    /\ LET lost == {j \in Started : activity[j].process = s /\ Under(j)} IN
        /\ activity' = [j \in Started |-> IF j \in lost
                            THEN To(activity[j], "done") ELSE activity[j]]
        /\ broken' = broken \cup lost
    /\ tick' = [t \in Schedulers |-> IF t = s THEN [todo |-> {}, due |-> {}] ELSE tick[t]]
    /\ faults' = faults + 1
    /\ UNCHANGED <<store, raced, held, wanted, ran, succeeded, deleted>>

----------------------------------------------------------------------------

Schedule == \E s \in Schedulers :
    TickList(s) \/ \E p \in Pipelines : TickRead(s, p) \/ TickSubmit(s, p)

Execute == \E j \in Started :
    \/ RunLoad(j) \/ CrawlOk(j) \/ CrawlFail(j) \/ RunHistory(j)
    \/ Save(j) \/ SaveId(j) \/ Drop(j) \/ DropId(j)

Serve == \E p \in Pipelines, s \in Processes :
    \/ \E trigger \in Triggers, status \in Statuses :
          Create(p, s, trigger, status) \/ Update(p, s, trigger, status)
    \/ Pause(p, s) \/ Resume(p, s) \/ Delete(p, s) \/ TriggerRun(p, s)

Fault == \/ \E j \in Started : CommandFails(j) \/ RunCommandFails(j)
         \/ \E s \in Schedulers : TickFails(s)
         \/ \E s \in Processes : Crash(s)

Next == Schedule \/ Execute \/ Serve \/ Fault \/ \E p \in Pipelines : Elapse(p)

\* The scheduler's thread loops; a run's thread goes on, and a crawl ends (its
\* requests have timeouts).  Nothing makes users ask or time pass.
Fairness ==
    /\ \A s \in Schedulers :
        /\ WF_vars(TickList(s))
        /\ \A p \in Pipelines : WF_vars(TickRead(s, p)) /\ WF_vars(TickSubmit(s, p))
    /\ \A j \in Activities :
        WF_vars(j \in Started /\ (\/ RunLoad(j) \/ CrawlOk(j) \/ CrawlFail(j)
                                  \/ RunHistory(j) \/ Save(j) \/ SaveId(j)))

Spec == Init /\ [][Next]_vars /\ Fairness

----------------------------------------------------------------------------
(* Properties                                                              *)

RunOf(j, p) == About(j, p) /\ activity[j].kind \in Runs
Intact(p) == \A j \in broken : ~About(j, p)

\* Safety: a pipeline paused while nothing was under way about it stays so
\* until it is resumed, through updates, deletions and crashes, and none of its
\* runs waits or works.  A run that was queued before the pause is not stopped,
\* and makes a scheduled pipeline active again (executor.py:108).
PauseHolds ==
    \A p \in held :
        /\ Exists(p) => record[p].status = "paused"
        /\ \A j \in Started : RunOf(j, p) => ~Under(j)

\* Safety: what users set last is what the record has, after any number of runs
\* that stored all of the record, unless a copy was stored that another write
\* had made old.
SettingsKept ==
    \A p \in Pipelines \ raced :
        Exists(p) => record[p].settings = wanted[p]

\* Safety: total_runs counts the runs, failed ones too, whichever process ran
\* them, unless an old copy was stored or something broke.
RunsCounted ==
    \A p \in Pipelines \ raced :
        Exists(p) /\ Intact(p) => record[p].runs = Cardinality(ran[p])

\* Safety: the history lists the runs whose success the record tells, and no
\* others, but for those still at it or cut short.
HistorySound ==
    /\ \A p \in Pipelines : history[p] \subseteq succeeded
    /\ \A j \in succeeded :
        \/ j \in history[activity[j].pipeline]
        \/ activity[j].step \in {"save_id", "history"}
        \/ j \in broken

\* Safety: ids and records are about the same pipelines, between commands too
\* if no request is half done, and what was deleted stays away, unless an old
\* copy was stored or something broke.
StoreConsistent ==
    \A p \in Pipelines \ raced :
        /\ p \in deleted => ~Exists(p)
        /\ Intact(p) => \/ Exists(p) <=> p \in ids
                        \/ \E j \in Started : /\ About(j, p)
                                              /\ activity[j].step \in
                                                    {"save_id", "fail_id", "drop_id"}

\* Liveness: a listed pipeline that is due gets a run that has left the queue,
\* unless it ceases to be due or listed (or the bound on activities is met), though the
\* pool is busy, ticks fail and processes die.
Tried(p) == \E j \in Started : RunOf(j, p) /\ activity[j].step # "queued" /\ j \notin broken
DueIsRun ==
    \A p \in Pipelines : Due(p) /\ p \in ids ~> ~Due(p) \/ p \notin ids \/ Tried(p) \/ Full
==============================================================================
