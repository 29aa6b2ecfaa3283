----------------------------- MODULE TeamTasks -----------------------------
(***************************************************************************)
(* The life of a team task: src/contextsynapse/project/graph.py            *)
(* (ProjectGraph) with src/contextsynapse/project/task_lock.py (TaskLock). *)
(*                                                                         *)
(* Several agents, each served by its own worker process, call add_task,   *)
(* claim_task, complete_task and handoff_task on one project graph kept in *)
(* Redis.  A call is a sequence of separate round trips: a property read   *)
(* is a copy (RedisGraphStorage.get_node decodes JSON), so what a call has *)
(* read may be stale when it writes.  Between any two round trips of one   *)
(* call another agent's call may run.  An agent makes one call at a time.  *)
(*                                                                         *)
(* Left out: titles, priorities, versions (nothing compares them), the     *)
(* event bus, Action nodes, promotion of findings, and the assignee given  *)
(* at creation (claim_task looks at the assignee of in_progress tasks      *)
(* only, and every write of in_progress sets it).                          *)
(***************************************************************************)
EXTENDS Naturals, FiniteSets

CONSTANTS
    Agents,     \* agent ids
    Tasks,      \* task ids that may be created
    NoAgent,    \* no holder, no assignee
    NoTask,     \* no task
    MaxCalls,   \* bound: calls the agents make in total
    MaxAborts   \* bound: calls that end half way

ASSUME NoAgentAssumption == NoAgent \notin Agents
ASSUME NoTaskAssumption == NoTask \notin Tasks
ASSUME BoundsAssumption == MaxCalls \in Nat /\ MaxAborts \in Nat

VARIABLES
    status,     \* property "status" of each Task node, "none" before it exists
    assignee,   \* property "assigned_to"
    lock,       \* holder in the Redis key contextcore:task:lock:<ns>:<task>
    dependsOn,  \* stored DEPENDS_ON edges, <<task, dependency>>
    published,  \* tasks an entry was added to the task stream for
    call,       \* the call each agent has in flight
    working,    \* tasks each agent was granted and has not given back
    revoked,    \* history: tasks whose lock was once taken from its holder
    aborted,    \* history: tasks a call that ended half way was handling
    calls,      \* calls made
    aborts      \* calls that ended half way

graph == <<status, assignee, dependsOn, published>>
history == <<revoked, aborted, aborts>>
vars == <<graph, lock, call, working, history, calls>>

Statuses == {"none", "open", "blocked", "in_progress", "completed"}
Claimable == {"open", "blocked", "in_progress"}

\* The next step of a call, named after the call it belongs to.
AddSteps == {"add_read", "add_edges"}
ClaimSteps == {"claim_acquire", "claim_write"}
UnblockSteps == {"unblock_read", "unblock_write", "unblock_publish"}
CompleteSteps == {"complete_scan"} \cup UnblockSteps
HandoffSteps == {"handoff_release", "handoff_acquire", "handoff_write"}
Steps == AddSteps \cup ClaimSteps \cup CompleteSteps \cup HandoffSteps

\* The local variables of a call:
\*   task      the task it is about
\*   seen      the status it read of that task (add_task: the status to write)
\*   mine      claim_task: the assignee it read is this agent
\*   deps      add_task: depends_on
\*   todo      the tasks its loop has not handled yet
\*   next      the dependent _unblock_dependents is handling
\*   receiver  handoff_task: to_agent
Idle == [step |-> "idle", task |-> NoTask, seen |-> "none", mine |-> FALSE,
         deps |-> {}, todo |-> {}, next |-> NoTask, receiver |-> NoAgent]

Calls == [step : Steps \cup {"idle"}, task : Tasks \cup {NoTask},
          seen : Statuses, mine : BOOLEAN,
          deps : SUBSET Tasks, todo : SUBSET Tasks,
          next : Tasks \cup {NoTask}, receiver : Agents \cup {NoAgent}]

At(a, step) == call[a].step = step

\* The local variables the next step of call c uses are set.
HasLocals(c) ==
    /\ c.step # "idle" => c.task \in Tasks
    /\ c.step \in {"unblock_write", "unblock_publish"} => c.next \in Tasks
    /\ c.step \in HandoffSteps => c.receiver \in Agents

TypeOK ==
    /\ status \in [Tasks -> Statuses]
    /\ assignee \in [Tasks -> Agents \cup {NoAgent}]
    /\ lock \in [Tasks -> Agents \cup {NoAgent}]
    /\ dependsOn \in SUBSET (Tasks \X Tasks)
    /\ published \in SUBSET Tasks
    /\ call \in [Agents -> Calls]
    /\ \A a \in Agents : HasLocals(call[a])
    /\ working \in [Agents -> SUBSET Tasks]
    /\ revoked \in SUBSET Tasks
    /\ aborted \in SUBSET Tasks
    /\ calls \in 0..MaxCalls
    /\ aborts \in 0..MaxAborts

Init ==
    /\ status = [t \in Tasks |-> "none"]
    /\ assignee = [t \in Tasks |-> NoAgent]
    /\ lock = [t \in Tasks |-> NoAgent]
    /\ dependsOn = {}
    /\ published = {}
    /\ call = [a \in Agents |-> Idle]
    /\ working = [a \in Agents |-> {}]
    /\ revoked = {}
    /\ aborted = {}
    /\ calls = 0
    /\ aborts = 0

----------------------------------------------------------------------------
(* How a call begins, moves on and returns.                                *)

Update(a, c) == call' = [call EXCEPT ![a] = c]

Begin(a, c) ==
    /\ At(a, "idle")
    /\ calls < MaxCalls
    /\ calls' = calls + 1
    /\ Update(a, c)

Goto(a, step) == Update(a, [call[a] EXCEPT !.step = step])

Return(a) == Update(a, Idle)

\* acquire_claim succeeds on a free key (SET NX) and, for the holder itself,
\* on its own key (GET, EXPIRE).  SET NX and GET are one step here: a call
\* that finds the key held by SET NX and free by GET fails without effect,
\* just as it does when it runs earlier.
CanAcquire(t, a) == lock[t] \in {NoAgent, a}

\* Wrong variant: DELETE without comparing the holder.
ReleaseUncompared(t, a) == lock' = [lock EXCEPT ![t] = NoAgent]

\* release_claim deletes the key only if the agent holds it (Lua script).
Release(t, a) ==
    lock' = [lock EXCEPT ![t] = IF @ = a THEN NoAgent ELSE @]

----------------------------------------------------------------------------
(* add_task: read the dependencies' statuses, create the node, store the   *)
(* DEPENDS_ON edges, then publish the task if it was created open.         *)

AddTask(a, t, D) ==
    /\ status[t] = "none"
    /\ \A b \in Agents : call[b].task # t
    /\ Begin(a, [Idle EXCEPT !.step = "add_read", !.task = t,
                             !.seen = "open", !.deps = D, !.todo = D])
    /\ UNCHANGED <<graph, lock, working, history>>

\* One dependency is read; the first that is not completed ends the loop.
AddReadDependency(a, d) ==
    /\ At(a, "add_read")
    /\ d \in call[a].todo
    /\ IF status[d] = "completed"
       THEN Update(a, [call[a] EXCEPT !.todo = @ \ {d}])
       ELSE Update(a, [call[a] EXCEPT !.seen = "blocked", !.todo = {}])
    /\ UNCHANGED <<graph, lock, working, history, calls>>

AddCreate(a) ==
    /\ At(a, "add_read")
    /\ call[a].todo = {}
    /\ status' = [status EXCEPT ![call[a].task] = call[a].seen]
    /\ Update(a, [call[a] EXCEPT !.step = "add_edges", !.todo = call[a].deps])
    /\ UNCHANGED <<assignee, dependsOn, published, lock, working, history, calls>>

AddEdge(a, d) ==
    /\ At(a, "add_edges")
    /\ d \in call[a].todo
    /\ dependsOn' = dependsOn \cup {<<call[a].task, d>>}
    /\ Update(a, [call[a] EXCEPT !.todo = @ \ {d}])
    /\ UNCHANGED <<status, assignee, published, lock, working, history, calls>>

AddPublish(a) ==
    /\ At(a, "add_edges")
    /\ call[a].todo = {}
    /\ published' = IF call[a].seen = "open"
                    THEN published \cup {call[a].task} ELSE published
    /\ Return(a)
    /\ UNCHANGED <<status, assignee, dependsOn, lock, working, history, calls>>

----------------------------------------------------------------------------
(* claim_task: read the task, take its lock, write status and assignee.    *)

ClaimTask(a, t) ==
    /\ status[t] \in Claimable
    /\ Begin(a, [Idle EXCEPT !.step = "claim_acquire", !.task = t,
                             !.seen = status[t],
                             !.mine = assignee[t] \in {a, NoAgent}])
    /\ UNCHANGED <<graph, lock, working, history>>

\* The lock is held by another: the call returns an error.
ClaimRefused(a) ==
    /\ At(a, "claim_acquire")
    /\ ~CanAcquire(call[a].task, a)
    /\ Return(a)
    /\ UNCHANGED <<graph, lock, working, history, calls>>

\* What the call read before it took the lock decides whether the task is
\* already this agent's ("continue working on it") or is to be written.
ClaimAcquire(a) ==
    LET t == call[a].task
        already == call[a].mine /\ call[a].seen = "in_progress"
    IN  /\ At(a, "claim_acquire")
        /\ CanAcquire(t, a)
        /\ lock' = [lock EXCEPT ![t] = a]
        /\ IF already
           THEN Return(a) /\ working' = [working EXCEPT ![a] = @ \cup {t}]
           ELSE Goto(a, "claim_write") /\ UNCHANGED working
        /\ UNCHANGED <<graph, history, calls>>

ClaimWrite(a) ==
    LET t == call[a].task
    IN  /\ At(a, "claim_write")
        /\ status' = [status EXCEPT ![t] = "in_progress"]
        /\ assignee' = [assignee EXCEPT ![t] = a]
        /\ working' = [working EXCEPT ![a] = @ \cup {t}]
        /\ Return(a)
        /\ UNCHANGED <<dependsOn, published, lock, history, calls>>

----------------------------------------------------------------------------
(* complete_task: write the status, whatever it was and whoever holds the  *)
(* lock; unblock the dependents; release the caller's lock.                *)

CompleteTask(a, t) ==
    /\ status[t] # "none"
    /\ Begin(a, [Idle EXCEPT !.step = "complete_scan", !.task = t])
    /\ status' = [status EXCEPT ![t] = "completed"]
    /\ UNCHANGED <<assignee, dependsOn, published, lock, working, history>>

\* Wrong variant: follows the edges from the completed task.
UnblockScanReversed(a) ==
    /\ At(a, "complete_scan")
    /\ Update(a, [call[a] EXCEPT
                    !.step = "unblock_read",
                    !.todo = {s \in Tasks : <<call[a].task, s>> \in dependsOn}])
    /\ UNCHANGED <<graph, lock, working, history, calls>>

\* _unblock_dependents lists the edges once, then handles one at a time.
UnblockScan(a) ==
    /\ At(a, "complete_scan")
    /\ Update(a, [call[a] EXCEPT
                    !.step = "unblock_read",
                    !.todo = {s \in Tasks : <<s, call[a].task>> \in dependsOn}])
    /\ UNCHANGED <<graph, lock, working, history, calls>>

\* Wrong variant: the dependent to write is not kept.
UnblockReadForgotten(a, s) ==
    /\ At(a, "unblock_read")
    /\ s \in call[a].todo
    /\ Update(a, [call[a] EXCEPT !.todo = @ \ {s}, !.step = "unblock_write"])
    /\ status[s] = "blocked"
    /\ UNCHANGED <<graph, lock, working, history, calls>>

UnblockRead(a, s) ==
    /\ At(a, "unblock_read")
    /\ s \in call[a].todo
    /\ IF status[s] = "blocked"
       THEN Update(a, [call[a] EXCEPT !.todo = @ \ {s}, !.next = s,
                                      !.step = "unblock_write"])
       ELSE Update(a, [call[a] EXCEPT !.todo = @ \ {s}])
    /\ UNCHANGED <<graph, lock, working, history, calls>>

\* The status is written as read a step ago, whatever happened since, and
\* whatever the dependent's other dependencies are.
UnblockWrite(a) ==
    /\ At(a, "unblock_write")
    /\ status' = [status EXCEPT ![call[a].next] = "open"]
    /\ Goto(a, "unblock_publish")
    /\ UNCHANGED <<assignee, dependsOn, published, lock, working, history, calls>>

\* Wrong variant: opens the dependent and tells nobody.
UnblockSilently(a) ==
    /\ At(a, "unblock_publish")
    /\ Update(a, [call[a] EXCEPT !.step = "unblock_read", !.next = NoTask])
    /\ UNCHANGED <<graph, lock, working, history, calls>>

UnblockPublish(a) ==
    /\ At(a, "unblock_publish")
    /\ published' = published \cup {call[a].next}
    /\ Update(a, [call[a] EXCEPT !.step = "unblock_read", !.next = NoTask])
    /\ UNCHANGED <<status, assignee, dependsOn, lock, working, history, calls>>

\* Wrong variant: completes the task and keeps its lock.
CompleteKeepingLock(a) ==
    LET t == call[a].task
    IN  /\ At(a, "unblock_read")
        /\ call[a].todo = {}
        /\ working' = [working EXCEPT ![a] = @ \ {t}]
        /\ Return(a)
        /\ UNCHANGED <<graph, lock, history, calls>>

CompleteRelease(a) ==
    LET t == call[a].task
    IN  /\ At(a, "unblock_read")
        /\ call[a].todo = {}
        /\ Release(t, a)
        /\ working' = [working EXCEPT ![a] = @ \ {t}]
        /\ Return(a)
        /\ UNCHANGED <<graph, history, calls>>

----------------------------------------------------------------------------
(* handoff_task: release the lock of the agent that hands the task off,    *)
(* acquire it for the receiver, write status and assignee.                 *)

HandoffTask(a, t, b) ==
    /\ status[t] # "none"
    /\ Begin(a, [Idle EXCEPT !.step = "handoff_release", !.task = t,
                             !.receiver = b])
    /\ UNCHANGED <<graph, lock, working, history>>

HandoffRelease(a) ==
    LET t == call[a].task
    IN  /\ At(a, "handoff_release")
        /\ Release(t, a)
        /\ working' = [working EXCEPT ![a] = @ \ {t}]
        /\ Goto(a, "handoff_acquire")
        /\ UNCHANGED <<graph, history, calls>>

\* "Handoff failed - task grabbed by ... during transfer".
HandoffRefused(a) ==
    /\ At(a, "handoff_acquire")
    /\ ~CanAcquire(call[a].task, call[a].receiver)
    /\ Return(a)
    /\ UNCHANGED <<graph, lock, working, history, calls>>

\* The lock is taken in the receiver's name: from here the task is granted.
HandoffAcquire(a) ==
    LET t == call[a].task
        b == call[a].receiver
    IN  /\ At(a, "handoff_acquire")
        /\ CanAcquire(t, b)
        /\ lock' = [lock EXCEPT ![t] = b]
        /\ working' = [working EXCEPT ![b] = @ \cup {t}]
        /\ Goto(a, "handoff_write")
        /\ UNCHANGED <<graph, history, calls>>

HandoffWrite(a) ==
    LET t == call[a].task
    IN  /\ At(a, "handoff_write")
        /\ status' = [status EXCEPT ![t] = "in_progress"]
        /\ assignee' = [assignee EXCEPT ![t] = call[a].receiver]
        /\ Return(a)
        /\ UNCHANGED <<dependsOn, published, lock, working, history, calls>>

----------------------------------------------------------------------------
(* What happens to calls and locks from outside.                           *)

\* The TTL of a lock (300 s, not renewed while the agent works) runs out, or
\* force_release deletes it.
Revoke(t) ==
    /\ lock[t] # NoAgent
    /\ lock' = [lock EXCEPT ![t] = NoAgent]
    /\ revoked' = revoked \cup {t}
    /\ UNCHANGED <<graph, call, working, aborted, aborts, calls>>

\* The connection raises or the worker dies: the rest of the call is lost.
Abort(a) ==
    /\ ~At(a, "idle")
    /\ aborts < MaxAborts
    /\ aborts' = aborts + 1
    /\ aborted' = aborted \cup ({call[a].task, call[a].next} \cap Tasks)
    /\ Return(a)
    /\ UNCHANGED <<graph, lock, working, revoked, calls>>

----------------------------------------------------------------------------
\* A step of a call in flight.
Continue(a) ==
    \/ \E d \in Tasks : AddReadDependency(a, d) \/ AddEdge(a, d)
    \/ AddCreate(a)
    \/ AddPublish(a)
    \/ ClaimRefused(a)
    \/ ClaimAcquire(a)
    \/ ClaimWrite(a)
    \/ UnblockScan(a)
    \/ \E s \in Tasks : UnblockRead(a, s)
    \/ UnblockWrite(a)
    \/ UnblockPublish(a)
    \/ CompleteRelease(a)
    \/ HandoffRelease(a)
    \/ HandoffRefused(a)
    \/ HandoffAcquire(a)
    \/ HandoffWrite(a)

Next ==
    \/ \E a \in Agents, t \in Tasks :
          \/ \E D \in SUBSET {d \in Tasks : status[d] # "none"} : AddTask(a, t, D)
          \/ ClaimTask(a, t)
          \/ CompleteTask(a, t)
          \/ \E b \in Agents : HandoffTask(a, t, b)
    \/ \E a \in Agents : Continue(a)
    \/ \E t \in Tasks : Revoke(t)
    \/ \E a \in Agents : Abort(a)

\* A worker that is serving a call goes on with it.
Fairness == \A a \in Agents : WF_vars(Continue(a))

Spec == Init /\ [][Next]_vars /\ Fairness

----------------------------------------------------------------------------
(* Properties.                                                             *)

\* Agent a acts as t's owner: it was granted the task, or it has passed the
\* lock in claim_task and is about to write.
Holds(a, t) ==
    t \in working[a] \/ (At(a, "claim_write") /\ call[a].task = t)

\* "Agent claims an open task. Atomic via TaskLock" (claim_task): two agents
\* hold one task at a time only if its lock was taken from a holder by the
\* TTL or by force_release, whatever calls are in flight and wherever calls
\* break off.
ClaimExclusive ==
    \A t \in Tasks \ revoked : \A a, b \in Agents :
        Holds(a, t) /\ Holds(b, t) => a = b

\* complete_task and handoff_task give the lock back: a key in Redis names an
\* agent that holds the task, unless a claim broke off after it took the lock.
\* (What remains of a lock nobody holds is the TTL's to clear.)
NoLeakedLock ==
    \A t \in Tasks \ aborted :
        lock[t] # NoAgent => Holds(lock[t], t)

\* Some call is about to publish t.
Announcing(t) ==
    \E a \in Agents :
        \/ At(a, "add_edges") /\ call[a].task = t /\ call[a].seen = "open"
        \/ At(a, "unblock_publish") /\ call[a].next = t

\* add_task and _unblock_dependents publish what they open: workers learn of
\* tasks from the stream, so an open task has an entry there or a call about
\* to add it, unless that call broke off.
OpenAnnounced ==
    \A t \in Tasks \ aborted :
        status[t] = "open" => t \in published \/ Announcing(t)

\* "Check if completing this task unblocks others" (_unblock_dependents): a
\* task whose DEPENDS_ON edge is stored when its dependency's completion
\* lists the edges does not stay blocked, unless the completion broke off.
DependentsFreed ==
    \A s, d \in Tasks :
        (<<s, d>> \in dependsOn
           /\ \E a \in Agents : At(a, "complete_scan") /\ call[a].task = d)
        ~> (status[s] # "blocked" \/ d \in aborted)

\* "Error: Task is {status}, not claimable" (claim_task refuses a task whose
\* status is not open, blocked or in_progress): no claim reopens a completed
\* task.
CompletedNotClaimed ==
    [][\A a \in Agents, t \in Tasks :
         status[t] = "completed" /\ At(a, "claim_write") /\ call[a].task = t
           => status'[t] = "completed"]_vars
=============================================================================
