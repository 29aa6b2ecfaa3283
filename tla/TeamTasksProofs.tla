-------------------------- MODULE TeamTasksProofs --------------------------
(***************************************************************************)
(* Proofs about TeamTasks for every set of agents and tasks and every      *)
(* bound on calls and aborted calls.                                       *)
(***************************************************************************)
EXTENDS TeamTasks, TLAPS

USE NoAgentAssumption, NoTaskAssumption, BoundsAssumption

(***************************************************************************)
(* The values a call's local variables take when the call begins, returns  *)
(* or has one of them assigned.                                            *)
(***************************************************************************)
CallOK(c) == c \in Calls /\ HasLocals(c)

LEMMA IdleOK == CallOK(Idle)
BY DEF CallOK, Idle, Calls, HasLocals, Statuses, HandoffSteps

CallsOK == call \in [Agents -> Calls] /\ \A a \in Agents : HasLocals(call[a])

LEMMA UpdateOK ==
  ASSUME CallsOK, NEW a \in Agents, NEW c, CallOK(c), Update(a, c)
  PROVE  CallsOK'
BY DEF CallsOK, CallOK, Update

LEMMA ReturnOK ==
  ASSUME CallsOK, NEW a \in Agents, Return(a)
  PROVE  CallsOK'
BY IdleOK, UpdateOK DEF Return

LEMMA GotoOK ==
  ASSUME CallsOK, NEW a \in Agents, call[a].task \in Tasks,
         NEW step \in Steps, Goto(a, step),
         step \in {"unblock_write", "unblock_publish"} => call[a].next \in Tasks,
         step \in HandoffSteps => call[a].receiver \in Agents
  PROVE  CallsOK'
<1> DEFINE c == [call[a] EXCEPT !.step = step]
<1>1. CallOK(c)
  BY DEF CallsOK, CallOK, Calls, HasLocals
<1> QED
  BY <1>1, UpdateOK DEF Goto

(***************************************************************************)
(* Every variable keeps its type, and a call in flight has the local       *)
(* variables its next step uses.                                           *)
(***************************************************************************)
THEOREM TypeCorrect == Spec => []TypeOK
<1> USE DEF Statuses, Steps, AddSteps, ClaimSteps, CompleteSteps, UnblockSteps,
            HandoffSteps, At
<1>1. Init => TypeOK
  BY IdleOK DEF Init, TypeOK, CallOK
<1>2. TypeOK /\ [Next]_vars => TypeOK'
  <2> SUFFICES ASSUME TypeOK, [Next]_vars PROVE TypeOK'
    OBVIOUS
  <2>0. CallsOK
    BY DEF TypeOK, CallsOK
  <2>1. ASSUME NEW a \in Agents, NEW t \in Tasks, NEW D \in SUBSET Tasks,
              AddTask(a, t, D)
       PROVE  TypeOK'
    <3> DEFINE c == [Idle EXCEPT !.step = "add_read", !.task = t,
                                 !.seen = "open", !.deps = D, !.todo = D]
    <3>1. CallOK(c)
      BY IdleOK DEF CallOK, Calls, HasLocals, Idle
    <3>2. Update(a, c)
      BY <2>1 DEF AddTask, Begin
    <3>3. CallsOK'
      BY <2>0, <3>1, <3>2, UpdateOK
    <3> QED
      BY <2>1, <3>3 DEF AddTask, TypeOK, CallsOK, Begin, graph, history
  <2>2. ASSUME NEW a \in Agents, NEW t \in Tasks, ClaimTask(a, t)
       PROVE  TypeOK'
    <3> DEFINE m == assignee[t] \in {a, NoAgent}
    <3> DEFINE c == [Idle EXCEPT !.step = "claim_acquire", !.task = t,
                                 !.seen = status[t], !.mine = m]
    <3>0. m \in BOOLEAN /\ status[t] \in Statuses
      BY DEF TypeOK
    <3> HIDE DEF m
    <3>1. CallOK(c)
      BY <3>0, IdleOK DEF CallOK, Calls, HasLocals, Idle
    <3>2. Update(a, c)
      BY <2>2 DEF ClaimTask, Begin, m
    <3>3. CallsOK'
      BY <2>0, <3>1, <3>2, UpdateOK
    <3> QED
      BY <2>2, <3>3 DEF ClaimTask, TypeOK, CallsOK, Begin, graph, history
  <2>3. ASSUME NEW a \in Agents, NEW t \in Tasks, CompleteTask(a, t)
       PROVE  TypeOK'
    <3> DEFINE c == [Idle EXCEPT !.step = "complete_scan", !.task = t]
    <3>1. CallOK(c)
      BY IdleOK DEF CallOK, Calls, HasLocals, Idle
    <3>2. Update(a, c)
      BY <2>3 DEF CompleteTask, Begin
    <3>3. CallsOK'
      BY <2>0, <3>1, <3>2, UpdateOK
    <3> QED
      BY <2>3, <3>3 DEF CompleteTask, TypeOK, CallsOK, Begin, history
  <2>4. ASSUME NEW a \in Agents, NEW t \in Tasks, NEW b \in Agents,
              HandoffTask(a, t, b)
       PROVE  TypeOK'
    <3> DEFINE c == [Idle EXCEPT !.step = "handoff_release",
                                 !.task = t, !.receiver = b]
    <3>1. CallOK(c)
      BY IdleOK DEF CallOK, Calls, HasLocals, Idle
    <3>2. Update(a, c)
      BY <2>4 DEF HandoffTask, Begin
    <3>3. CallsOK'
      BY <2>0, <3>1, <3>2, UpdateOK
    <3> QED
      BY <2>4, <3>3 DEF HandoffTask, TypeOK, CallsOK, Begin, graph, history
  <2>5. ASSUME NEW a \in Agents, AddCreate(a)
       PROVE  TypeOK'
    <3>0. /\ call[a] \in Calls
          /\ call[a].step = "add_read"
          /\ call[a].task \in Tasks
      BY <2>0, <2>5 DEF CallsOK, HasLocals, AddCreate
    <3> DEFINE c == [call[a] EXCEPT !.step = "add_edges",
                                    !.todo = call[a].deps]
    <3>1. CallOK(c)
      BY <3>0 DEF CallOK, Calls, HasLocals
    <3>2. Update(a, c)
      BY <2>5 DEF AddCreate
    <3>3. CallsOK'
      BY <2>0, <3>1, <3>2, UpdateOK
    <3> QED
      BY <2>5, <3>3 DEF AddCreate, TypeOK, CallsOK, Calls, HasLocals, history
  <2>6. ASSUME NEW a \in Agents, NEW d \in Tasks, AddReadDependency(a, d)
       PROVE  TypeOK'
    <3>0. /\ call[a] \in Calls
          /\ call[a].step = "add_read"
          /\ call[a].task \in Tasks
      BY <2>0, <2>6 DEF CallsOK, HasLocals, AddReadDependency
    <3> DEFINE c == [call[a] EXCEPT !.todo = @ \ {d}]
               e == [call[a] EXCEPT !.seen = "blocked", !.todo = {}]
    <3>1. CallOK(c) /\ CallOK(e)
      BY <3>0 DEF CallOK, Calls, HasLocals
    <3>2. Update(a, c) \/ Update(a, e)
      BY <2>6 DEF AddReadDependency
    <3> HIDE DEF c, e
    <3>3. CallsOK'
      BY <2>0, <3>1, <3>2, UpdateOK
    <3> QED
      BY <2>6, <3>3 DEF AddReadDependency, TypeOK, CallsOK, graph, history
  <2>7. ASSUME NEW a \in Agents, NEW d \in Tasks, AddEdge(a, d)
       PROVE  TypeOK'
    <3>0. /\ call[a] \in Calls
          /\ call[a].step = "add_edges"
          /\ call[a].task \in Tasks
      BY <2>0, <2>7 DEF CallsOK, HasLocals, AddEdge
    <3> DEFINE c == [call[a] EXCEPT !.todo = @ \ {d}]
    <3>1. CallOK(c)
      BY <3>0 DEF CallOK, Calls, HasLocals
    <3>2. Update(a, c)
      BY <2>7 DEF AddEdge
    <3>3. CallsOK'
      BY <2>0, <3>1, <3>2, UpdateOK
    <3> QED
      BY <2>7, <3>3 DEF AddEdge, TypeOK, CallsOK, Calls, HasLocals, history
  <2>8. ASSUME NEW a \in Agents, AddPublish(a)
       PROVE  TypeOK'
    <3>3. CallsOK'
      BY <2>0, <2>8, ReturnOK DEF AddPublish
    <3> QED
      BY <2>8, <3>3 DEF AddPublish, TypeOK, CallsOK, Calls, HasLocals, history
  <2>9. ASSUME NEW a \in Agents, ClaimRefused(a)
       PROVE  TypeOK'
    <3>3. CallsOK'
      BY <2>0, <2>9, ReturnOK DEF ClaimRefused
    <3> QED
      BY <2>9, <3>3 DEF ClaimRefused, TypeOK, CallsOK, graph, history
  <2>10. ASSUME NEW a \in Agents, ClaimAcquire(a)
       PROVE  TypeOK'
    <3>0. call[a].task \in Tasks
      BY <2>0, <2>10 DEF CallsOK, HasLocals, ClaimAcquire
    <3>1. ASSUME Return(a) PROVE CallsOK'
      BY <2>0, <3>1, ReturnOK
    <3>2. ASSUME Goto(a, "claim_write") PROVE CallsOK'
      BY <2>0, <3>0, <3>2, GotoOK
    <3>3. CallsOK'
      BY <2>10, <3>1, <3>2 DEF ClaimAcquire
    <3>4. lock' \in [Tasks -> Agents \cup {NoAgent}]
      BY <2>10, <3>0 DEF ClaimAcquire, TypeOK
    <3>5. working' \in [Agents -> SUBSET Tasks]
      BY <2>10, <3>0 DEF ClaimAcquire, TypeOK
    <3> QED
      BY <2>10, <3>3, <3>4, <3>5 DEF ClaimAcquire, TypeOK, CallsOK, graph, history
  <2>11. ASSUME NEW a \in Agents, ClaimWrite(a)
       PROVE  TypeOK'
    <3>3. CallsOK'
      BY <2>0, <2>11, ReturnOK DEF ClaimWrite
    <3> QED
      BY <2>11, <3>3 DEF ClaimWrite, TypeOK, CallsOK, Calls, HasLocals, history
  <2>12. ASSUME NEW a \in Agents, UnblockScan(a)
       PROVE  TypeOK'
    <3>0. /\ call[a] \in Calls
          /\ call[a].step = "complete_scan"
          /\ call[a].task \in Tasks
      BY <2>0, <2>12 DEF CallsOK, HasLocals, UnblockScan
    <3> DEFINE c == [call[a] EXCEPT !.step = "unblock_read",
            !.todo = {s \in Tasks : <<s, call[a].task>> \in dependsOn}]
    <3>1. CallOK(c)
      BY <3>0 DEF CallOK, Calls, HasLocals
    <3>2. Update(a, c)
      BY <2>12 DEF UnblockScan
    <3>3. CallsOK'
      BY <2>0, <3>1, <3>2, UpdateOK
    <3> QED
      BY <2>12, <3>3 DEF UnblockScan, TypeOK, CallsOK, graph, history
  <2>13. ASSUME NEW a \in Agents, NEW s \in Tasks, UnblockRead(a, s)
       PROVE  TypeOK'
    <3>0. /\ call[a] \in Calls
          /\ call[a].step = "unblock_read"
          /\ call[a].task \in Tasks
      BY <2>0, <2>13 DEF CallsOK, HasLocals, UnblockRead
    <3> DEFINE c == [call[a] EXCEPT !.todo = @ \ {s}, !.next = s,
                                    !.step = "unblock_write"]
               e == [call[a] EXCEPT !.todo = @ \ {s}]
    <3>1. CallOK(c) /\ CallOK(e)
      BY <3>0 DEF CallOK, Calls, HasLocals
    <3>2. Update(a, c) \/ Update(a, e)
      BY <2>13 DEF UnblockRead
    <3> HIDE DEF c, e
    <3>3. CallsOK'
      BY <2>0, <3>1, <3>2, UpdateOK
    <3> QED
      BY <2>13, <3>3 DEF UnblockRead, TypeOK, CallsOK, graph, history
  <2>14. ASSUME NEW a \in Agents, UnblockWrite(a)
       PROVE  TypeOK'
    <3>0. call[a].task \in Tasks /\ call[a].next \in Tasks
      BY <2>0, <2>14 DEF CallsOK, HasLocals, UnblockWrite
    <3>3. CallsOK'
      BY <2>0, <2>14, <3>0, GotoOK DEF UnblockWrite
    <3> QED
      BY <2>14, <3>3 DEF UnblockWrite, TypeOK, CallsOK, Calls, HasLocals, history
  <2>15. ASSUME NEW a \in Agents, UnblockPublish(a)
       PROVE  TypeOK'
    <3>0. /\ call[a] \in Calls
          /\ call[a].step = "unblock_publish"
          /\ call[a].task \in Tasks
      BY <2>0, <2>15 DEF CallsOK, HasLocals, UnblockPublish
    <3> DEFINE c == [call[a] EXCEPT !.step = "unblock_read",
                                    !.next = NoTask]
    <3>1. CallOK(c)
      BY <3>0 DEF CallOK, Calls, HasLocals
    <3>2. Update(a, c)
      BY <2>15 DEF UnblockPublish
    <3>3. CallsOK'
      BY <2>0, <3>1, <3>2, UpdateOK
    <3> QED
      BY <2>15, <3>3 DEF UnblockPublish, TypeOK, CallsOK, Calls, HasLocals, history
  <2>16. ASSUME NEW a \in Agents, CompleteRelease(a)
       PROVE  TypeOK'
    <3>3. CallsOK'
      BY <2>0, <2>16, ReturnOK DEF CompleteRelease
    <3> QED
      BY <2>16, <3>3 DEF CompleteRelease, TypeOK, CallsOK, Release, graph, history
  <2>17. ASSUME NEW a \in Agents, HandoffRelease(a)
       PROVE  TypeOK'
    <3>0. call[a].task \in Tasks /\ call[a].receiver \in Agents
      BY <2>0, <2>17 DEF CallsOK, HasLocals, HandoffRelease
    <3>3. CallsOK'
      BY <2>0, <2>17, <3>0, GotoOK DEF HandoffRelease
    <3> QED
      BY <2>17, <3>3 DEF HandoffRelease, TypeOK, CallsOK, Release, graph, history
  <2>18. ASSUME NEW a \in Agents, HandoffRefused(a)
       PROVE  TypeOK'
    <3>3. CallsOK'
      BY <2>0, <2>18, ReturnOK DEF HandoffRefused
    <3> QED
      BY <2>18, <3>3 DEF HandoffRefused, TypeOK, CallsOK, graph, history
  <2>19. ASSUME NEW a \in Agents, HandoffAcquire(a)
       PROVE  TypeOK'
    <3>0. call[a].task \in Tasks /\ call[a].receiver \in Agents
      BY <2>0, <2>19 DEF CallsOK, HasLocals, HandoffAcquire
    <3>3. CallsOK'
      BY <2>0, <2>19, <3>0, GotoOK DEF HandoffAcquire
    <3> QED
      BY <2>19, <3>3 DEF HandoffAcquire, TypeOK, CallsOK, Calls, HasLocals, graph, history
  <2>20. ASSUME NEW a \in Agents, HandoffWrite(a)
       PROVE  TypeOK'
    <3>3. CallsOK'
      BY <2>0, <2>20, ReturnOK DEF HandoffWrite
    <3> QED
      BY <2>20, <3>3 DEF HandoffWrite, TypeOK, CallsOK, Calls, HasLocals, history
  <2>21. ASSUME NEW t \in Tasks, Revoke(t)
       PROVE  TypeOK'
    BY <2>21 DEF Revoke, TypeOK, graph
  <2>22. ASSUME NEW a \in Agents, Abort(a)
       PROVE  TypeOK'
    <3>3. CallsOK'
      BY <2>0, <2>22, ReturnOK DEF Abort
    <3> QED
      BY <2>22, <3>3 DEF Abort, TypeOK, CallsOK, graph
  <2>23. CASE UNCHANGED vars
    BY <2>23 DEF TypeOK, vars, graph, history
  <2> QED
    BY <2>1, <2>2, <2>3, <2>4, <2>5, <2>6, <2>7, <2>8, <2>9, <2>10, <2>11, <2>12,
       <2>13, <2>14, <2>15, <2>16, <2>17, <2>18, <2>19, <2>20, <2>21, <2>22, <2>23
       DEF Next, Continue
<1> QED
  BY <1>1, <1>2, PTL DEF Spec

(***************************************************************************)
(* Why ClaimExclusive holds: as long as nobody takes t's lock away, every  *)
(* agent that holds t is the one named in the lock.  An agent's own calls  *)
(* are the only ones that release its lock, and it makes one call at a     *)
(* time, so it never releases the lock while about to write.               *)
(***************************************************************************)
HolderInLock ==
    \A t \in Tasks \ revoked : \A a \in Agents : Holds(a, t) => lock[t] = a

LEMMA HolderInLockInvariant == Spec => []HolderInLock
<1>1. Init => HolderInLock
  BY DEF Init, HolderInLock, Holds, At, Idle
<1>2. TypeOK /\ HolderInLock /\ [Next]_vars => HolderInLock'
  <2> SUFFICES ASSUME TypeOK, HolderInLock, [Next]_vars PROVE HolderInLock'
    OBVIOUS
  <2> USE DEF HolderInLock, Holds, At, TypeOK, Calls
  <2>1. ASSUME NEW a \in Agents, NEW t \in Tasks, NEW D \in SUBSET Tasks,
              AddTask(a, t, D)
       PROVE  HolderInLock'
    BY <2>1 DEF AddTask, Begin, Update, Idle, graph, history
  <2>2. ASSUME NEW a \in Agents, NEW t \in Tasks, ClaimTask(a, t)
       PROVE  HolderInLock'
    BY <2>2 DEF ClaimTask, Begin, Update, Idle, graph, history
  <2>3. ASSUME NEW a \in Agents, NEW t \in Tasks, CompleteTask(a, t)
       PROVE  HolderInLock'
    BY <2>3 DEF CompleteTask, Begin, Update, Idle, history
  <2>4. ASSUME NEW a \in Agents, NEW t \in Tasks, NEW b \in Agents,
              HandoffTask(a, t, b)
       PROVE  HolderInLock'
    BY <2>4 DEF HandoffTask, Begin, Update, Idle, graph, history
  <2>5. ASSUME NEW a \in Agents, AddCreate(a)
       PROVE  HolderInLock'
    BY <2>5 DEF AddCreate, Update, history
  <2>6. ASSUME NEW a \in Agents, NEW d \in Tasks, AddReadDependency(a, d)
       PROVE  HolderInLock'
    <3>1. \/ Update(a, [call[a] EXCEPT !.todo = @ \ {d}])
          \/ Update(a, [call[a] EXCEPT !.seen = "blocked", !.todo = {}])
      BY <2>6 DEF AddReadDependency
    <3>2. call[a].step = "add_read" /\ call'[a].step = "add_read"
      <4>1. CASE Update(a, [call[a] EXCEPT !.todo = @ \ {d}])
        BY <2>6, <4>1 DEF AddReadDependency, Update
      <4>2. CASE Update(a, [call[a] EXCEPT !.seen = "blocked", !.todo = {}])
        BY <2>6, <4>2 DEF AddReadDependency, Update
      <4> QED
        BY <3>1, <4>1, <4>2
    <3>3. \A x \in Agents \ {a} : call'[x] = call[x]
      BY <3>1 DEF Update
    <3> QED
      BY <2>6, <3>2, <3>3 DEF AddReadDependency, graph, history
  <2>7. ASSUME NEW a \in Agents, NEW d \in Tasks, AddEdge(a, d)
       PROVE  HolderInLock'
    BY <2>7 DEF AddEdge, Update, history
  <2>8. ASSUME NEW a \in Agents, AddPublish(a)
       PROVE  HolderInLock'
    BY <2>8 DEF AddPublish, Return, Update, Idle, history
  <2>9. ASSUME NEW a \in Agents, ClaimRefused(a)
       PROVE  HolderInLock'
    BY <2>9 DEF ClaimRefused, Return, Update, Idle, graph, history
  <2>10. ASSUME NEW a \in Agents, ClaimAcquire(a)
       PROVE  HolderInLock'
    BY <2>10 DEF ClaimAcquire, CanAcquire, Goto, Return, Update, Idle,
        graph, history
  <2>11. ASSUME NEW a \in Agents, ClaimWrite(a)
       PROVE  HolderInLock'
    BY <2>11 DEF ClaimWrite, Return, Update, Idle, history
  <2>12. ASSUME NEW a \in Agents, UnblockScan(a)
       PROVE  HolderInLock'
    BY <2>12 DEF UnblockScan, Update, graph, history
  <2>13. ASSUME NEW a \in Agents, NEW s \in Tasks, UnblockRead(a, s)
       PROVE  HolderInLock'
    <3>1. \/ Update(a, [call[a] EXCEPT !.todo = @ \ {s}])
          \/ Update(a, [call[a] EXCEPT !.todo = @ \ {s}, !.next = s,
                                        !.step = "unblock_write"])
      BY <2>13 DEF UnblockRead
    <3>2. call[a].step # "claim_write" /\ call'[a].step # "claim_write"
      <4>1. CASE Update(a, [call[a] EXCEPT !.todo = @ \ {s}])
        BY <2>13, <4>1 DEF UnblockRead, Update
      <4>2. CASE Update(a, [call[a] EXCEPT !.todo = @ \ {s}, !.next = s,
                                           !.step = "unblock_write"])
        BY <2>13, <4>2 DEF UnblockRead, Update
      <4> QED
        BY <3>1, <4>1, <4>2
    <3>3. \A x \in Agents \ {a} : call'[x] = call[x]
      BY <3>1 DEF Update
    <3> QED
      BY <2>13, <3>2, <3>3 DEF UnblockRead, graph, history
  <2>14. ASSUME NEW a \in Agents, UnblockWrite(a)
       PROVE  HolderInLock'
    BY <2>14 DEF UnblockWrite, Goto, Update, history
  <2>15. ASSUME NEW a \in Agents, UnblockPublish(a)
       PROVE  HolderInLock'
    BY <2>15 DEF UnblockPublish, Update, history
  <2>16. ASSUME NEW a \in Agents, CompleteRelease(a)
       PROVE  HolderInLock'
    BY <2>16 DEF CompleteRelease, Release, Return, Update, Idle, graph,
        history
  <2>17. ASSUME NEW a \in Agents, HandoffRelease(a)
       PROVE  HolderInLock'
    BY <2>17 DEF HandoffRelease, Release, Goto, Update, graph, history
  <2>18. ASSUME NEW a \in Agents, HandoffRefused(a)
       PROVE  HolderInLock'
    BY <2>18 DEF HandoffRefused, Return, Update, Idle, graph, history
  <2>19. ASSUME NEW a \in Agents, HandoffAcquire(a)
       PROVE  HolderInLock'
    BY <2>19 DEF HandoffAcquire, CanAcquire, Goto, Update, graph, history
  <2>20. ASSUME NEW a \in Agents, HandoffWrite(a)
       PROVE  HolderInLock'
    BY <2>20 DEF HandoffWrite, Return, Update, Idle, history
  <2>21. ASSUME NEW t \in Tasks, Revoke(t)
       PROVE  HolderInLock'
    BY <2>21 DEF Revoke, graph
  <2>22. ASSUME NEW a \in Agents, Abort(a)
       PROVE  HolderInLock'
    BY <2>22 DEF Abort, Return, Update, Idle, graph
  <2>23. CASE UNCHANGED vars
    BY <2>23 DEF vars, graph, history
  <2> QED
    BY <2>1, <2>2, <2>3, <2>4, <2>5, <2>6, <2>7, <2>8, <2>9, <2>10, <2>11, <2>12,
       <2>13, <2>14, <2>15, <2>16, <2>17, <2>18, <2>19, <2>20, <2>21, <2>22, <2>23
       DEF Next, Continue
<1> QED
  BY <1>1, <1>2, TypeCorrect, PTL DEF Spec

(***************************************************************************)
(* ClaimExclusive for every number of agents and tasks.                    *)
(***************************************************************************)
THEOREM ExclusiveClaims == Spec => []ClaimExclusive
<1>1. HolderInLock => ClaimExclusive
  BY DEF HolderInLock, ClaimExclusive
<1> QED
  BY <1>1, HolderInLockInvariant, PTL

(***************************************************************************)
(* NoLeakedLock: every call that returns has released the lock or left the *)
(* task with the holder, so only a call that breaks off can leave a key    *)
(* that names an agent which does not hold the task.                       *)
(***************************************************************************)
THEOREM LocksHaveHolders == Spec => []NoLeakedLock
<1>1. Init => NoLeakedLock
  BY DEF Init, NoLeakedLock, Holds
<1>2. TypeOK /\ NoLeakedLock /\ [Next]_vars => NoLeakedLock'
  <2> SUFFICES ASSUME TypeOK, NoLeakedLock, [Next]_vars PROVE NoLeakedLock'
    OBVIOUS
  <2> USE DEF NoLeakedLock, Holds, At, TypeOK, Calls
  <2>1. ASSUME NEW a \in Agents, NEW t \in Tasks, NEW D \in SUBSET Tasks,
              AddTask(a, t, D)
       PROVE  NoLeakedLock'
    BY <2>1 DEF AddTask, Begin, Update, Idle, graph, history
  <2>2. ASSUME NEW a \in Agents, NEW t \in Tasks, ClaimTask(a, t)
       PROVE  NoLeakedLock'
    BY <2>2 DEF ClaimTask, Begin, Update, Idle, graph, history
  <2>3. ASSUME NEW a \in Agents, NEW t \in Tasks, CompleteTask(a, t)
       PROVE  NoLeakedLock'
    BY <2>3 DEF CompleteTask, Begin, Update, Idle, history
  <2>4. ASSUME NEW a \in Agents, NEW t \in Tasks, NEW b \in Agents,
              HandoffTask(a, t, b)
       PROVE  NoLeakedLock'
    BY <2>4 DEF HandoffTask, Begin, Update, Idle, graph, history
  <2>5. ASSUME NEW a \in Agents, AddCreate(a)
       PROVE  NoLeakedLock'
    BY <2>5 DEF AddCreate, Update, history
  <2>6. ASSUME NEW a \in Agents, NEW d \in Tasks, AddReadDependency(a, d)
       PROVE  NoLeakedLock'
    <3>1. \/ Update(a, [call[a] EXCEPT !.todo = @ \ {d}])
          \/ Update(a, [call[a] EXCEPT !.seen = "blocked", !.todo = {}])
      BY <2>6 DEF AddReadDependency
    <3>2. call[a].step = "add_read" /\ call'[a].step = "add_read"
      <4>1. CASE Update(a, [call[a] EXCEPT !.todo = @ \ {d}])
        BY <2>6, <4>1 DEF AddReadDependency, Update
      <4>2. CASE Update(a, [call[a] EXCEPT !.seen = "blocked", !.todo = {}])
        BY <2>6, <4>2 DEF AddReadDependency, Update
      <4> QED
        BY <3>1, <4>1, <4>2
    <3>3. \A x \in Agents \ {a} : call'[x] = call[x]
      BY <3>1 DEF Update
    <3> QED
      BY <2>6, <3>2, <3>3 DEF AddReadDependency, graph, history
  <2>7. ASSUME NEW a \in Agents, NEW d \in Tasks, AddEdge(a, d)
       PROVE  NoLeakedLock'
    BY <2>7 DEF AddEdge, Update, history
  <2>8. ASSUME NEW a \in Agents, AddPublish(a)
       PROVE  NoLeakedLock'
    BY <2>8 DEF AddPublish, Return, Update, Idle, history
  <2>9. ASSUME NEW a \in Agents, ClaimRefused(a)
       PROVE  NoLeakedLock'
    BY <2>9 DEF ClaimRefused, Return, Update, Idle, graph, history
  <2>10. ASSUME NEW a \in Agents, ClaimAcquire(a)
       PROVE  NoLeakedLock'
    BY <2>10 DEF ClaimAcquire, CanAcquire, Goto, Return, Update, Idle,
        graph, history
  <2>11. ASSUME NEW a \in Agents, ClaimWrite(a)
       PROVE  NoLeakedLock'
    BY <2>11 DEF ClaimWrite, Return, Update, Idle, history
  <2>12. ASSUME NEW a \in Agents, UnblockScan(a)
       PROVE  NoLeakedLock'
    BY <2>12 DEF UnblockScan, Update, graph, history
  <2>13. ASSUME NEW a \in Agents, NEW s \in Tasks, UnblockRead(a, s)
       PROVE  NoLeakedLock'
    <3>1. \/ Update(a, [call[a] EXCEPT !.todo = @ \ {s}])
          \/ Update(a, [call[a] EXCEPT !.todo = @ \ {s}, !.next = s,
                                        !.step = "unblock_write"])
      BY <2>13 DEF UnblockRead
    <3>2. call[a].step # "claim_write" /\ call'[a].step # "claim_write"
      <4>1. CASE Update(a, [call[a] EXCEPT !.todo = @ \ {s}])
        BY <2>13, <4>1 DEF UnblockRead, Update
      <4>2. CASE Update(a, [call[a] EXCEPT !.todo = @ \ {s}, !.next = s,
                                           !.step = "unblock_write"])
        BY <2>13, <4>2 DEF UnblockRead, Update
      <4> QED
        BY <3>1, <4>1, <4>2
    <3>3. \A x \in Agents \ {a} : call'[x] = call[x]
      BY <3>1 DEF Update
    <3> QED
      BY <2>13, <3>2, <3>3 DEF UnblockRead, graph, history
  <2>14. ASSUME NEW a \in Agents, UnblockWrite(a)
       PROVE  NoLeakedLock'
    BY <2>14 DEF UnblockWrite, Goto, Update, history
  <2>15. ASSUME NEW a \in Agents, UnblockPublish(a)
       PROVE  NoLeakedLock'
    BY <2>15 DEF UnblockPublish, Update, history
  <2>16. ASSUME NEW a \in Agents, CompleteRelease(a)
       PROVE  NoLeakedLock'
    BY <2>16 DEF CompleteRelease, Release, Return, Update, Idle, graph,
        history
  <2>17. ASSUME NEW a \in Agents, HandoffRelease(a)
       PROVE  NoLeakedLock'
    BY <2>17 DEF HandoffRelease, Release, Goto, Update, graph, history
  <2>18. ASSUME NEW a \in Agents, HandoffRefused(a)
       PROVE  NoLeakedLock'
    BY <2>18 DEF HandoffRefused, Return, Update, Idle, graph, history
  <2>19. ASSUME NEW a \in Agents, HandoffAcquire(a)
       PROVE  NoLeakedLock'
    BY <2>19 DEF HandoffAcquire, CanAcquire, Goto, Update, graph, history
  <2>20. ASSUME NEW a \in Agents, HandoffWrite(a)
       PROVE  NoLeakedLock'
    BY <2>20 DEF HandoffWrite, Return, Update, Idle, history
  <2>21. ASSUME NEW t \in Tasks, Revoke(t)
       PROVE  NoLeakedLock'
    BY <2>21 DEF Revoke, graph
  <2>22. ASSUME NEW a \in Agents, Abort(a)
       PROVE  NoLeakedLock'
    BY <2>22 DEF Abort, Return, Update, Idle, graph
  <2>23. CASE UNCHANGED vars
    BY <2>23 DEF vars, graph, history
  <2> QED
    BY <2>1, <2>2, <2>3, <2>4, <2>5, <2>6, <2>7, <2>8, <2>9, <2>10, <2>11, <2>12,
       <2>13, <2>14, <2>15, <2>16, <2>17, <2>18, <2>19, <2>20, <2>21, <2>22, <2>23
       DEF Next, Continue
<1> QED
  BY <1>1, <1>2, TypeCorrect, PTL DEF Spec

(***************************************************************************)
(* OpenAnnounced: both writes of "open" are followed in the same call by a *)
(* publication, which only a call that breaks off can omit.                *)
(***************************************************************************)
THEOREM OpenTasksAnnounced == Spec => []OpenAnnounced
<1>1. Init => OpenAnnounced
  BY DEF Init, OpenAnnounced, Announcing
<1>2. TypeOK /\ OpenAnnounced /\ [Next]_vars => OpenAnnounced'
  <2> SUFFICES ASSUME TypeOK, OpenAnnounced, [Next]_vars PROVE OpenAnnounced'
    OBVIOUS
  <2> USE DEF OpenAnnounced, Announcing, At, TypeOK, Calls
  <2>1. ASSUME NEW a \in Agents, NEW t \in Tasks, NEW D \in SUBSET Tasks,
              AddTask(a, t, D)
       PROVE  OpenAnnounced'
    BY <2>1 DEF AddTask, Begin, Update, Idle, graph, history
  <2>2. ASSUME NEW a \in Agents, NEW t \in Tasks, ClaimTask(a, t)
       PROVE  OpenAnnounced'
    BY <2>2 DEF ClaimTask, Begin, Update, Idle, graph, history
  <2>3. ASSUME NEW a \in Agents, NEW t \in Tasks, CompleteTask(a, t)
       PROVE  OpenAnnounced'
    BY <2>3 DEF CompleteTask, Begin, Update, Idle, history
  <2>4. ASSUME NEW a \in Agents, NEW t \in Tasks, NEW b \in Agents,
              HandoffTask(a, t, b)
       PROVE  OpenAnnounced'
    BY <2>4 DEF HandoffTask, Begin, Update, Idle, graph, history
  <2>5. ASSUME NEW a \in Agents, AddCreate(a)
       PROVE  OpenAnnounced'
    BY <2>5 DEF AddCreate, Update, history
  <2>6. ASSUME NEW a \in Agents, NEW d \in Tasks, AddReadDependency(a, d)
       PROVE  OpenAnnounced'
    <3>1. \/ Update(a, [call[a] EXCEPT !.todo = @ \ {d}])
          \/ Update(a, [call[a] EXCEPT !.seen = "blocked", !.todo = {}])
      BY <2>6 DEF AddReadDependency
    <3>2. call[a].step = "add_read" /\ call'[a].step = "add_read"
      <4>1. CASE Update(a, [call[a] EXCEPT !.todo = @ \ {d}])
        BY <2>6, <4>1 DEF AddReadDependency, Update
      <4>2. CASE Update(a, [call[a] EXCEPT !.seen = "blocked", !.todo = {}])
        BY <2>6, <4>2 DEF AddReadDependency, Update
      <4> QED
        BY <3>1, <4>1, <4>2
    <3>3. \A x \in Agents \ {a} : call'[x] = call[x]
      BY <3>1 DEF Update
    <3> QED
      BY <2>6, <3>2, <3>3 DEF AddReadDependency, graph, history
  <2>7. ASSUME NEW a \in Agents, NEW d \in Tasks, AddEdge(a, d)
       PROVE  OpenAnnounced'
    BY <2>7 DEF AddEdge, Update, history
  <2>8. ASSUME NEW a \in Agents, AddPublish(a)
       PROVE  OpenAnnounced'
    BY <2>8 DEF AddPublish, Return, Update, Idle, history
  <2>9. ASSUME NEW a \in Agents, ClaimRefused(a)
       PROVE  OpenAnnounced'
    BY <2>9 DEF ClaimRefused, Return, Update, Idle, graph, history
  <2>10. ASSUME NEW a \in Agents, ClaimAcquire(a)
       PROVE  OpenAnnounced'
    <3>1. Goto(a, "claim_write") \/ Return(a)
      BY <2>10 DEF ClaimAcquire
    <3>2. \A x \in Agents \ {a} : call'[x] = call[x]
      BY <3>1 DEF Goto, Return, Update
    <3>3. call[a].step = "claim_acquire"
      BY <2>10 DEF ClaimAcquire
    <3> QED
      BY <2>10, <3>2, <3>3 DEF ClaimAcquire, graph, history
  <2>11. ASSUME NEW a \in Agents, ClaimWrite(a)
       PROVE  OpenAnnounced'
    BY <2>11 DEF ClaimWrite, Return, Update, Idle, history
  <2>12. ASSUME NEW a \in Agents, UnblockScan(a)
       PROVE  OpenAnnounced'
    BY <2>12 DEF UnblockScan, Update, graph, history
  <2>13. ASSUME NEW a \in Agents, NEW s \in Tasks, UnblockRead(a, s)
       PROVE  OpenAnnounced'
    <3>1. \/ Update(a, [call[a] EXCEPT !.todo = @ \ {s}])
          \/ Update(a, [call[a] EXCEPT !.todo = @ \ {s}, !.next = s,
                                        !.step = "unblock_write"])
      BY <2>13 DEF UnblockRead
    <3>2. call[a].step # "claim_write" /\ call'[a].step # "claim_write"
      <4>1. CASE Update(a, [call[a] EXCEPT !.todo = @ \ {s}])
        BY <2>13, <4>1 DEF UnblockRead, Update
      <4>2. CASE Update(a, [call[a] EXCEPT !.todo = @ \ {s}, !.next = s,
                                           !.step = "unblock_write"])
        BY <2>13, <4>2 DEF UnblockRead, Update
      <4> QED
        BY <3>1, <4>1, <4>2
    <3>3. \A x \in Agents \ {a} : call'[x] = call[x]
      BY <3>1 DEF Update
    <3> QED
      BY <2>13, <3>2, <3>3 DEF UnblockRead, graph, history
  <2>14. ASSUME NEW a \in Agents, UnblockWrite(a)
       PROVE  OpenAnnounced'
    BY <2>14 DEF UnblockWrite, Goto, Update, history
  <2>15. ASSUME NEW a \in Agents, UnblockPublish(a)
       PROVE  OpenAnnounced'
    BY <2>15 DEF UnblockPublish, Update, history
  <2>16. ASSUME NEW a \in Agents, CompleteRelease(a)
       PROVE  OpenAnnounced'
    BY <2>16 DEF CompleteRelease, Release, Return, Update, Idle, graph,
        history
  <2>17. ASSUME NEW a \in Agents, HandoffRelease(a)
       PROVE  OpenAnnounced'
    BY <2>17 DEF HandoffRelease, Release, Goto, Update, graph, history
  <2>18. ASSUME NEW a \in Agents, HandoffRefused(a)
       PROVE  OpenAnnounced'
    BY <2>18 DEF HandoffRefused, Return, Update, Idle, graph, history
  <2>19. ASSUME NEW a \in Agents, HandoffAcquire(a)
       PROVE  OpenAnnounced'
    BY <2>19 DEF HandoffAcquire, CanAcquire, Goto, Update, graph, history
  <2>20. ASSUME NEW a \in Agents, HandoffWrite(a)
       PROVE  OpenAnnounced'
    BY <2>20 DEF HandoffWrite, Return, Update, Idle, history
  <2>21. ASSUME NEW t \in Tasks, Revoke(t)
       PROVE  OpenAnnounced'
    BY <2>21 DEF Revoke, graph
  <2>22. ASSUME NEW a \in Agents, Abort(a)
       PROVE  OpenAnnounced'
    BY <2>22 DEF Abort, Return, Update, Idle, graph
  <2>23. CASE UNCHANGED vars
    BY <2>23 DEF vars, graph, history
  <2> QED
    BY <2>1, <2>2, <2>3, <2>4, <2>5, <2>6, <2>7, <2>8, <2>9, <2>10, <2>11, <2>12,
       <2>13, <2>14, <2>15, <2>16, <2>17, <2>18, <2>19, <2>20, <2>21, <2>22, <2>23
       DEF Next, Continue
<1> QED
  BY <1>1, <1>2, TypeCorrect, PTL DEF Spec

(***************************************************************************)
(* The steps of a call, as far as statuses and edges go.  add_task keeps   *)
(* its own actions; every other step begins a call about a task that       *)
(* exists, ends a call, or goes on with one.                               *)
(***************************************************************************)
Begins(a, t) ==
  \E c :
    /\ At(a, "idle")
    /\ Update(a, c)
    /\ c.step \in {"claim_acquire", "complete_scan", "handoff_release"}
    /\ c.task = t
    /\ c.next = NoTask
    /\ status[t] # "none"
    /\ c.step = "claim_acquire" => status[t] \in Claimable
    /\ status' = IF c.step = "complete_scan"
                 THEN [status EXCEPT ![t] = "completed"] ELSE status
    /\ dependsOn' = dependsOn

Ends(a) ==
    /\ Return(a)
    /\ \/ status' = status
       \/ /\ call[a].step \in {"claim_write", "handoff_write"}
          /\ status' = [status EXCEPT ![call[a].task] = "in_progress"]
    /\ dependsOn' = dependsOn

GoesOn(a) ==
  \E c :
    /\ call[a].step \notin AddSteps \cup {"idle"}
    /\ Update(a, c)
    /\ c.task = call[a].task
    /\ c.step \notin AddSteps \cup {"idle"}
    /\ c.next \in {NoTask, call[a].next} \/ status[c.next] = "blocked"
    /\ c.step \in ClaimSteps => call[a].step \in ClaimSteps
    /\ c.step = "unblock_write" => status[c.next] = "blocked"
    /\ \/ status' = status
       \/ /\ call[a].step = "unblock_write"
          /\ c.step = "unblock_publish"
          /\ status' = [status EXCEPT ![call[a].next] = "open"]
    /\ dependsOn' = dependsOn

\* Every step is one of these, one of add_task or none of a call's.
LEMMA Shape ==
  ASSUME TypeOK, [Next]_vars
  PROVE  \/ \E a \in Agents : \E t \in Tasks :
              \/ \E D \in SUBSET {d \in Tasks : status[d] # "none"} : AddTask(a, t, D)
              \/ AddReadDependency(a, t)
              \/ AddEdge(a, t)
              \/ Begins(a, t)
         \/ \E a \in Agents : AddCreate(a) \/ Ends(a) \/ GoesOn(a)
         \/ UNCHANGED <<call, status, dependsOn>>
<1> USE DEF TypeOK, At, AddSteps, ClaimSteps, graph, history
<1>1. ASSUME NEW a \in Agents, NEW t \in Tasks, ClaimTask(a, t)
      PROVE  Begins(a, t)
  <2> DEFINE m == assignee[t] \in {a, NoAgent}
  <2> DEFINE c == [Idle EXCEPT !.step = "claim_acquire", !.task = t,
                               !.seen = status[t], !.mine = m]
  <2>1. c.step = "claim_acquire" /\ c.task = t /\ c.next = NoTask
    BY DEF Idle
  <2>2. At(a, "idle") /\ Update(a, c) /\ status[t] \in Claimable
        /\ UNCHANGED <<status, dependsOn>>
    BY <1>1 DEF ClaimTask, Begin
  <2> HIDE DEF c
  <2> QED
    BY <2>1, <2>2 DEF Begins, Claimable
<1>2. ASSUME NEW a \in Agents, NEW t \in Tasks, CompleteTask(a, t)
      PROVE  Begins(a, t)
  <2> DEFINE c == [Idle EXCEPT !.step = "complete_scan", !.task = t]
  <2>1. c.step = "complete_scan" /\ c.task = t /\ c.next = NoTask
    BY DEF Idle
  <2>2. At(a, "idle") /\ Update(a, c) /\ status[t] # "none" /\ dependsOn' = dependsOn
        /\ status' = [status EXCEPT ![t] = "completed"]
    BY <1>2 DEF CompleteTask, Begin
  <2> HIDE DEF c
  <2> QED
    BY <2>1, <2>2 DEF Begins
<1>3. ASSUME NEW a \in Agents, NEW t \in Tasks, NEW b \in Agents, HandoffTask(a, t, b)
      PROVE  Begins(a, t)
  <2> DEFINE c == [Idle EXCEPT !.step = "handoff_release", !.task = t, !.receiver = b]
  <2>1. c.step = "handoff_release" /\ c.task = t /\ c.next = NoTask
    BY DEF Idle
  <2>2. At(a, "idle") /\ Update(a, c) /\ status[t] # "none"
        /\ UNCHANGED <<status, dependsOn>>
    BY <1>3 DEF HandoffTask, Begin
  <2> HIDE DEF c
  <2> QED
    BY <2>1, <2>2 DEF Begins
<1>4. ASSUME NEW a \in Agents,
             \/ AddPublish(a) \/ ClaimRefused(a) \/ CompleteRelease(a) \/ HandoffRefused(a)
             \/ Abort(a)
      PROVE  Ends(a)
  BY <1>4 DEF AddPublish, ClaimRefused, CompleteRelease, HandoffRefused, Abort, Ends
<1>5. ASSUME NEW a \in Agents, ClaimWrite(a) \/ HandoffWrite(a)
      PROVE  Ends(a)
  BY <1>5 DEF ClaimWrite, HandoffWrite, Ends
<1>6. ASSUME NEW a \in Agents, ClaimAcquire(a)
      PROVE  Ends(a) \/ GoesOn(a)
  <2>1. UNCHANGED <<status, dependsOn>> /\ At(a, "claim_acquire")
    BY <1>6 DEF ClaimAcquire
  <2>2. CASE Return(a)
    BY <2>1, <2>2 DEF Ends
  <2>3. CASE Goto(a, "claim_write")
    <3> DEFINE c == [call[a] EXCEPT !.step = "claim_write"]
    <3>1. c.step = "claim_write" /\ c.task = call[a].task /\ c.next = call[a].next
      BY DEF Calls
    <3>2. Update(a, c)
      BY <2>3 DEF Goto
    <3> HIDE DEF c
    <3> QED
      BY <2>1, <3>1, <3>2 DEF GoesOn
  <2> QED
    BY <1>6, <2>2, <2>3 DEF ClaimAcquire
<1>7. ASSUME NEW a \in Agents, UnblockScan(a)
      PROVE  GoesOn(a)
  <2> DEFINE c == [call[a] EXCEPT !.step = "unblock_read",
                      !.todo = {s \in Tasks : <<s, call[a].task>> \in dependsOn}]
  <2>1. c.step = "unblock_read" /\ c.task = call[a].task /\ c.next = call[a].next
    BY DEF Calls
  <2>2. Update(a, c) /\ At(a, "complete_scan") /\ UNCHANGED <<status, dependsOn>>
    BY <1>7 DEF UnblockScan
  <2> HIDE DEF c
  <2> QED
    BY <2>1, <2>2 DEF GoesOn
<1>8. ASSUME NEW a \in Agents, NEW s \in Tasks, UnblockRead(a, s)
      PROVE  GoesOn(a)
  <2>1. At(a, "unblock_read") /\ UNCHANGED <<status, dependsOn>>
    BY <1>8 DEF UnblockRead
  <2>2. CASE status[s] = "blocked"
    <3> DEFINE c == [call[a] EXCEPT !.todo = @ \ {s}, !.next = s,
                                    !.step = "unblock_write"]
    <3>1. c.step = "unblock_write" /\ c.task = call[a].task /\ c.next = s
      BY DEF Calls
    <3>2. Update(a, c)
      BY <1>8, <2>2 DEF UnblockRead
    <3> HIDE DEF c
    <3> QED
      BY <2>1, <2>2, <3>1, <3>2 DEF GoesOn
  <2>3. CASE status[s] # "blocked"
    <3> DEFINE c == [call[a] EXCEPT !.todo = @ \ {s}]
    <3>1. c.step = call[a].step /\ c.task = call[a].task /\ c.next = call[a].next
      BY DEF Calls
    <3>2. Update(a, c)
      BY <1>8, <2>3 DEF UnblockRead
    <3> HIDE DEF c
    <3> QED
      BY <2>1, <3>1, <3>2 DEF GoesOn
  <2> QED
    BY <2>2, <2>3
<1>9. ASSUME NEW a \in Agents, UnblockWrite(a)
      PROVE  GoesOn(a)
  <2> DEFINE c == [call[a] EXCEPT !.step = "unblock_publish"]
  <2>1. c.step = "unblock_publish" /\ c.task = call[a].task /\ c.next = call[a].next
    BY DEF Calls
  <2>2. Update(a, c) /\ At(a, "unblock_write") /\ dependsOn' = dependsOn
        /\ status' = [status EXCEPT ![call[a].next] = "open"]
    BY <1>9 DEF UnblockWrite, Goto
  <2> HIDE DEF c
  <2> QED
    BY <2>1, <2>2 DEF GoesOn
<1>10. ASSUME NEW a \in Agents, UnblockPublish(a)
       PROVE  GoesOn(a)
  <2> DEFINE c == [call[a] EXCEPT !.step = "unblock_read", !.next = NoTask]
  <2>1. c.step = "unblock_read" /\ c.task = call[a].task /\ c.next = NoTask
    BY DEF Calls
  <2>2. Update(a, c) /\ At(a, "unblock_publish") /\ UNCHANGED <<status, dependsOn>>
    BY <1>10 DEF UnblockPublish
  <2> HIDE DEF c
  <2> QED
    BY <2>1, <2>2 DEF GoesOn
<1>11. ASSUME NEW a \in Agents, NEW step \in {"handoff_acquire", "handoff_write"},
              Goto(a, step), call[a].step \in HandoffSteps, UNCHANGED <<status, dependsOn>>
       PROVE  GoesOn(a)
  <2> DEFINE c == [call[a] EXCEPT !.step = step]
  <2>1. c.step = step /\ c.task = call[a].task /\ c.next = call[a].next
    BY DEF Calls
  <2>2. Update(a, c)
    BY <1>11 DEF Goto
  <2> HIDE DEF c
  <2> QED
    BY <1>11, <2>1, <2>2 DEF GoesOn, HandoffSteps
<1>12. ASSUME NEW a \in Agents, HandoffRelease(a) \/ HandoffAcquire(a)
       PROVE  GoesOn(a)
  BY <1>11, <1>12 DEF HandoffRelease, HandoffAcquire, HandoffSteps
<1>13. ASSUME NEW t \in Tasks, Revoke(t)
       PROVE  UNCHANGED <<call, status, dependsOn>>
  BY <1>13 DEF Revoke
<1>14. CASE UNCHANGED vars
  BY <1>14 DEF vars
<1> QED
  BY <1>1, <1>2, <1>3, <1>4, <1>5, <1>6, <1>7, <1>8, <1>9, <1>10, <1>12, <1>13, <1>14
     DEF Next, Continue

(***************************************************************************)
(* What a call knows of the tasks it names.                                *)
(***************************************************************************)
\* The task of a call exists, and so do the dependent it is opening and the
\* tasks add_task was told to depend on.
Known(c) ==
    /\ c.step \notin {"idle", "add_read"} => status[c.task] # "none"
    /\ c.next # NoTask => status[c.next] # "none"
    /\ c.step \in AddSteps => /\ c.seen \in {"open", "blocked"}
                              /\ c.todo \subseteq c.deps
                              /\ \A d \in c.deps : status[d] # "none"

KnownTasks == \A a \in Agents : Known(call[a])

\* The task add_task is about to create does not exist, and no other call
\* names it.
FreshIds ==
    \A a \in Agents : At(a, "add_read") =>
        /\ status[call[a].task] = "none"
        /\ \A b \in Agents \ {a} : call[b].task # call[a].task

\* Stored edges join tasks that exist.
EdgesKnown == \A s, d \in Tasks : <<s, d>> \in dependsOn => status[s] # "none" /\ status[d] # "none"

GraphInv == KnownTasks /\ FreshIds /\ EdgesKnown

\* A task is never removed.
TasksStay == \A t \in Tasks : status[t] # "none" => status'[t] # "none"

LEMMA StatusWritten ==
  ASSUME TypeOK, NEW t, NEW s \in Statuses \ {"none"}, status' = [status EXCEPT ![t] = s]
  PROVE  TasksStay
BY DEF TypeOK, TasksStay, Statuses

LEMMA KnownUpdate ==
  ASSUME TypeOK, KnownTasks, TasksStay, NEW a \in Agents, NEW c, Update(a, c), Known(c)'
  PROVE  KnownTasks'
<1> SUFFICES ASSUME NEW b \in Agents PROVE Known(call[b])'
  BY DEF KnownTasks
<1>1. CASE b = a
  BY <1>1 DEF Update, TypeOK, Known
<1>2. CASE b # a
  <2>1. call'[b] = call[b] /\ Known(call[b]) /\ call[b] \in Calls /\ HasLocals(call[b])
    BY <1>2 DEF Update, TypeOK, KnownTasks
  <2>2. /\ call[b].step # "idle" => call[b].task \in Tasks
        /\ call[b].next # NoTask => call[b].next \in Tasks
        /\ call[b].deps \subseteq Tasks
    BY <2>1 DEF Calls, HasLocals
  <2> QED
    BY <2>1, <2>2 DEF Known, TasksStay
<1> QED
  BY <1>1, <1>2

\* A call that is not creating a task writes neither its status nor its id.
LEMMA FreshUpdate ==
  ASSUME TypeOK, FreshIds, NEW a \in Agents, NEW c, Update(a, c), c.step # "add_read",
         \A b \in Agents \ {a} : At(b, "add_read") =>
            /\ status'[call[b].task] = status[call[b].task]
            /\ c.task # call[b].task
  PROVE  FreshIds'
<1> SUFFICES ASSUME NEW b \in Agents, At(b, "add_read")'
             PROVE  /\ status'[call'[b].task] = "none"
                    /\ \A x \in Agents \ {b} : call'[x].task # call'[b].task
  BY DEF FreshIds
<1>1. \A x \in Agents : call'[x] = IF x = a THEN c ELSE call[x]
  BY DEF Update, TypeOK
<1>2. b # a /\ call'[b] = call[b] /\ At(b, "add_read")
  BY <1>1 DEF At
<1> QED
  BY <1>1, <1>2 DEF FreshIds

\* Every step keeps GraphInv.
LEMMA GraphStep ==
  ASSUME TypeOK, GraphInv, [Next]_vars
  PROVE  GraphInv'
<1>0. /\ KnownTasks /\ FreshIds /\ EdgesKnown
      /\ status \in [Tasks -> Statuses]
      /\ \A a \in Agents : call[a] \in Calls /\ HasLocals(call[a])
  BY DEF GraphInv, TypeOK
<1>i. /\ Idle.step = "idle" /\ Idle.task = NoTask /\ Idle.next = NoTask
      /\ \A a \in Agents : call[a].step # "idle" => call[a].task \in Tasks
  BY <1>0 DEF Idle, HasLocals
<1>e. ASSUME TasksStay, dependsOn' = dependsOn
      PROVE  EdgesKnown'
  BY <1>0, <1>e DEF EdgesKnown, TasksStay
<1>1. ASSUME NEW a \in Agents, NEW t \in Tasks,
             NEW D \in SUBSET {d \in Tasks : status[d] # "none"}, AddTask(a, t, D)
      PROVE  GraphInv'
  <2> DEFINE c == [Idle EXCEPT !.step = "add_read", !.task = t,
                               !.seen = "open", !.deps = D, !.todo = D]
  <2>1. c.step = "add_read" /\ c.task = t /\ c.seen = "open" /\ c.deps = D /\ c.todo = D
        /\ c.next = NoTask
    BY DEF Idle
  <2>2. Update(a, c) /\ status' = status /\ dependsOn' = dependsOn /\ status[t] = "none"
        /\ \A b \in Agents : call[b].task # t
    BY <1>1 DEF AddTask, Begin, graph
  <2> HIDE DEF c
  <2>3. TasksStay
    BY <2>2 DEF TasksStay
  <2>4. KnownTasks'
    BY <1>0, <2>1, <2>2, <2>3, KnownUpdate DEF Known
  <2>5. \A x \in Agents : call'[x] = IF x = a THEN c ELSE call[x]
    BY <2>2 DEF Update, TypeOK
  <2>6. FreshIds'
    BY <1>0, <2>1, <2>2, <2>5 DEF FreshIds, At
  <2> QED
    BY <1>e, <2>2, <2>3, <2>4, <2>6 DEF GraphInv
<1>2. ASSUME NEW a \in Agents, NEW d \in Tasks, AddReadDependency(a, d)
      PROVE  GraphInv'
  <2>1. PICK c : /\ Update(a, c)
                 /\ \/ c = [call[a] EXCEPT !.todo = @ \ {d}]
                    \/ c = [call[a] EXCEPT !.seen = "blocked", !.todo = {}]
    BY <1>2 DEF AddReadDependency
  <2>2. /\ c.step = "add_read" /\ call[a].step = "add_read" /\ c.task = call[a].task
        /\ c.deps = call[a].deps /\ c.next = call[a].next
        /\ c.todo \subseteq call[a].todo /\ c.seen \in {call[a].seen, "blocked"}
    <3>1. call[a] \in Calls /\ call[a].step = "add_read"
      BY <1>0, <1>2 DEF AddReadDependency, At
    <3>2. CASE c = [call[a] EXCEPT !.todo = @ \ {d}]
      BY <3>1, <3>2 DEF Calls
    <3>3. CASE c = [call[a] EXCEPT !.seen = "blocked", !.todo = {}]
      BY <3>1, <3>3 DEF Calls
    <3> QED
      BY <2>1, <3>2, <3>3
  <2>3. UNCHANGED <<status, dependsOn>> /\ Known(call[a])
    BY <1>0, <1>2 DEF AddReadDependency, graph, KnownTasks
  <2>4. TasksStay
    BY <2>3 DEF TasksStay
  <2>5. KnownTasks'
    BY <1>0, <2>1, <2>2, <2>3, <2>4, KnownUpdate DEF Known, AddSteps
  <2>6. \A x \in Agents : call'[x] = IF x = a THEN c ELSE call[x]
    BY <2>1 DEF Update, TypeOK
  <2>7. FreshIds'
    BY <1>0, <2>2, <2>3, <2>6 DEF FreshIds, At
  <2> QED
    BY <1>e, <2>3, <2>4, <2>5, <2>7 DEF GraphInv
<1>3. ASSUME NEW a \in Agents, NEW d \in Tasks, AddEdge(a, d)
      PROVE  GraphInv'
  <2> DEFINE c == [call[a] EXCEPT !.todo = @ \ {d}]
  <2>1. /\ c.step = "add_edges" /\ call[a].step = "add_edges" /\ c.task = call[a].task
        /\ c.deps = call[a].deps /\ c.next = call[a].next
        /\ c.todo \subseteq call[a].todo /\ c.seen = call[a].seen
    BY <1>0, <1>3 DEF AddEdge, At, Calls
  <2>2. /\ Update(a, c) /\ status' = status /\ d \in call[a].todo
        /\ dependsOn' = dependsOn \cup {<<call[a].task, d>>}
    BY <1>3 DEF AddEdge
  <2> HIDE DEF c
  <2>3. Known(call[a]) /\ TasksStay
    BY <1>0, <2>2 DEF KnownTasks, TasksStay
  <2>4. KnownTasks'
    BY <1>0, <2>1, <2>2, <2>3, KnownUpdate DEF Known, AddSteps
  <2>5. FreshIds'
    BY <1>0, <2>1, <2>2, FreshUpdate DEF FreshIds
  <2>6. status[call[a].task] # "none" /\ status[d] # "none"
    BY <2>1, <2>2, <2>3 DEF Known, AddSteps
  <2>7. EdgesKnown'
    BY <1>0, <2>2, <2>6 DEF EdgesKnown
  <2> QED
    BY <2>4, <2>5, <2>7 DEF GraphInv
<1>4. ASSUME NEW a \in Agents, AddCreate(a)
      PROVE  GraphInv'
  <2>0. PICK c : c = [call[a] EXCEPT !.step = "add_edges", !.todo = call[a].deps]
    OBVIOUS
  <2>1. /\ c.step = "add_edges" /\ call[a].step = "add_read" /\ c.task = call[a].task
        /\ c.deps = call[a].deps /\ c.next = call[a].next
        /\ c.todo = call[a].deps /\ c.seen = call[a].seen
    BY <1>0, <1>4, <2>0 DEF AddCreate, At, Calls
  <2>2. /\ Update(a, c) /\ dependsOn' = dependsOn
        /\ status' = [status EXCEPT ![call[a].task] = call[a].seen]
    BY <1>4, <2>0 DEF AddCreate
  <2>3. Known(call[a]) /\ call[a].seen \in {"open", "blocked"} /\ call[a].task \in Tasks
    BY <1>0, <1>i, <2>1 DEF KnownTasks, Known, AddSteps
  <2>4. TasksStay
    BY <2>2, <2>3, StatusWritten DEF Statuses
  <2>5. status'[call[a].task] = call[a].seen
    BY <1>0, <2>2, <2>3
  <2>6. call[a].deps \subseteq Tasks /\ call[a].next \in Tasks \cup {NoTask}
    BY <1>0 DEF Calls
  <2>7. Known(c)'
    BY <2>1, <2>3, <2>4, <2>5, <2>6 DEF Known, TasksStay, AddSteps
  <2>8. KnownTasks'
    BY <1>0, <2>2, <2>4, <2>7, KnownUpdate
  <2>9. FreshIds'
    BY <1>0, <2>1, <2>2, FreshUpdate DEF FreshIds
  <2> QED
    BY <1>e, <2>2, <2>4, <2>8, <2>9 DEF GraphInv
<1>5. ASSUME NEW a \in Agents, NEW t \in Tasks, Begins(a, t)
      PROVE  GraphInv'
  <2>1. PICK c : /\ Update(a, c)
                 /\ c.step \in {"claim_acquire", "complete_scan", "handoff_release"}
                 /\ c.task = t
                 /\ c.next = NoTask
                 /\ status' = IF c.step = "complete_scan"
                              THEN [status EXCEPT ![t] = "completed"] ELSE status
    BY <1>5 DEF Begins
  <2>2. status[t] # "none" /\ dependsOn' = dependsOn
    BY <1>5 DEF Begins
  <2>3. TasksStay
    BY <2>1, StatusWritten DEF TasksStay, Statuses
  <2>4. KnownTasks'
    BY <1>0, <2>1, <2>2, <2>3, KnownUpdate DEF Known, AddSteps, TasksStay
  <2>5. \A b \in Agents \ {a} : At(b, "add_read") =>
            /\ status'[call[b].task] = status[call[b].task]
            /\ c.task # call[b].task
    BY <1>0, <1>i, <2>1, <2>2 DEF FreshIds, At
  <2>6. FreshIds'
    BY <1>0, <2>1, <2>5, FreshUpdate
  <2> QED
    BY <1>e, <2>2, <2>3, <2>4, <2>6 DEF GraphInv
<1>6. ASSUME NEW a \in Agents, Ends(a)
      PROVE  GraphInv'
  <2>1. Update(a, Idle) /\ dependsOn' = dependsOn
    BY <1>6 DEF Ends, Return
  <2>2. CASE status' = status
    <3>1. TasksStay
      BY <2>2 DEF TasksStay
    <3>2. KnownTasks'
      BY <1>0, <1>i, <2>1, <3>1, KnownUpdate DEF Known, AddSteps
    <3>3. FreshIds'
      BY <1>0, <1>i, <2>1, <2>2, NoTaskAssumption, FreshUpdate DEF At
    <3> QED
      BY <1>e, <2>1, <3>1, <3>2, <3>3 DEF GraphInv
  <2>3. CASE /\ call[a].step \in {"claim_write", "handoff_write"}
             /\ status' = [status EXCEPT ![call[a].task] = "in_progress"]
    <3>1. TasksStay
      BY <2>3, StatusWritten DEF Statuses
    <3>2. KnownTasks'
      BY <1>0, <1>i, <2>1, <3>1, KnownUpdate DEF Known, AddSteps
    <3>3. FreshIds'
      BY <1>0, <1>i, <2>1, <2>3, NoTaskAssumption, FreshUpdate DEF FreshIds, At
    <3> QED
      BY <1>e, <2>1, <3>1, <3>2, <3>3 DEF GraphInv
  <2> QED
    BY <1>6, <2>2, <2>3 DEF Ends
<1>7. ASSUME NEW a \in Agents, GoesOn(a)
      PROVE  GraphInv'
  <2>1. PICK c : /\ call[a].step \notin AddSteps \cup {"idle"}
                 /\ Update(a, c)
                 /\ c.task = call[a].task
                 /\ c.step \notin AddSteps \cup {"idle"}
                 /\ c.next \in {NoTask, call[a].next} \/ status[c.next] = "blocked"
                 /\ \/ status' = status
                    \/ /\ call[a].step = "unblock_write"
                       /\ status' = [status EXCEPT ![call[a].next] = "open"]
                 /\ dependsOn' = dependsOn
    BY <1>7 DEF GoesOn
  <2>2. Known(call[a]) /\ call[a].task \in Tasks /\ call[a].next \in Tasks \cup {NoTask}
    BY <1>0, <1>i, <2>1 DEF KnownTasks, Calls
  <2>3. TasksStay
    BY <2>1, StatusWritten DEF TasksStay, Statuses
  <2>s. c.next = NoTask \/ status'[c.next] # "none"
    <3>1. CASE c.next \in {NoTask, call[a].next}
      BY <2>2, <2>3, <3>1 DEF Known, TasksStay
    <3>2. CASE status[c.next] = "blocked" /\ status' = status
      BY <3>2
    <3>3. CASE status[c.next] = "blocked" /\ status' = [status EXCEPT ![call[a].next] = "open"]
      BY <1>0, <3>3
    <3> QED
      BY <2>1, <3>1, <3>2, <3>3
  <2>4. KnownTasks'
    BY <1>0, <2>1, <2>2, <2>3, <2>s, KnownUpdate DEF Known, AddSteps, TasksStay
  <2>5. \A b \in Agents \ {a} : At(b, "add_read") =>
            /\ status'[call[b].task] = status[call[b].task]
            /\ c.task # call[b].task
    <3> SUFFICES ASSUME NEW b \in Agents \ {a}, At(b, "add_read")
                 PROVE  /\ status'[call[b].task] = status[call[b].task]
                        /\ c.task # call[b].task
      OBVIOUS
    <3>1. status[call[b].task] = "none" /\ call[a].task # call[b].task
          /\ call[b].task \in Tasks
      BY <1>0, <1>i DEF FreshIds, At
    <3>2. call[a].step = "unblock_write" => call[a].next # call[b].task
      BY <1>0, <2>2, <3>1 DEF Known, HasLocals
    <3> QED
      BY <1>0, <2>1, <3>1, <3>2
  <2>6. FreshIds'
    BY <1>0, <2>1, <2>5, FreshUpdate DEF AddSteps
  <2> QED
    BY <1>e, <2>1, <2>3, <2>4, <2>6 DEF GraphInv
<1>8. CASE UNCHANGED <<call, status, dependsOn>>
  BY <1>0, <1>8 DEF GraphInv, KnownTasks, Known, FreshIds, EdgesKnown, At
<1> QED
  BY <1>1, <1>2, <1>3, <1>4, <1>5, <1>6, <1>7, <1>8, Shape

LEMMA GraphInvariant == Spec => []GraphInv
<1>1. Init => GraphInv
  BY DEF Init, GraphInv, KnownTasks, Known, FreshIds, EdgesKnown, Idle, At, AddSteps
<1> QED
  BY <1>1, TypeCorrect, GraphStep, PTL DEF Spec

(***************************************************************************)
(* Dependencies form no cycle.  The edges of a task are stored one by one, *)
(* so other tasks may depend on it before all of its own are there: the    *)
(* argument counts the edges add_task is still to store, which all appear  *)
(* when the call begins and the task, not yet created, has none pointing   *)
(* to it.                                                                  *)
(***************************************************************************)
Depends(s, d) ==
    \/ <<s, d>> \in dependsOn
    \/ \E a \in Agents : call[a].step \in AddSteps /\ call[a].task = s /\ d \in call[a].deps

\* Of any tasks, some one depends on none of the others, nor on itself.
NoCycle ==
    \A S \in SUBSET Tasks : S # {} => \E s \in S : \A d \in S : ~Depends(s, d)

DependenciesAcyclic ==
    \A S \in SUBSET Tasks : S # {} => \E s \in S : \A d \in S : <<s, d>> \notin dependsOn

\* Fewer edges make no cycle.
LEMMA FewerEdges ==
  ASSUME NoCycle, \A s, d \in Tasks : Depends(s, d)' => Depends(s, d)
  PROVE  NoCycle'
<1> SUFFICES ASSUME NEW S \in SUBSET Tasks, S # {}
             PROVE  \E s \in S : \A d \in S : ~Depends(s, d)'
  BY DEF NoCycle
<1>1. PICK s \in S : \A d \in S : ~Depends(s, d)
  BY DEF NoCycle
<1> QED
  BY <1>1

\* Nor do edges from a task that none points to.
LEMMA NewSource ==
  ASSUME NoCycle, NEW t \in Tasks,
         \A s, d \in Tasks : Depends(s, d)' => Depends(s, d) \/ s = t,
         \A s \in Tasks : ~Depends(s, t)'
  PROVE  NoCycle'
<1> SUFFICES ASSUME NEW S \in SUBSET Tasks, S # {}
             PROVE  \E s \in S : \A d \in S : ~Depends(s, d)'
  BY DEF NoCycle
<1>1. CASE S \subseteq {t}
  BY <1>1
<1>2. CASE ~(S \subseteq {t})
  <2>1. S \ {t} \in SUBSET Tasks /\ S \ {t} # {}
    BY <1>2
  <2>2. PICK s \in S \ {t} : \A d \in S \ {t} : ~Depends(s, d)
    BY <2>1 DEF NoCycle
  <2>3. s \in Tasks /\ s # t
    OBVIOUS
  <2>4. \A d \in S : ~Depends(s, d)'
    BY <2>2, <2>3
  <2> QED
    BY <2>4
<1> QED
  BY <1>1, <1>2

\* A step that ends a call, or goes on with one that is past add_task, adds no edge.
LEMMA OtherCall ==
  ASSUME TypeOK, NEW a \in Agents, NEW c, Update(a, c),
         c.step \notin AddSteps, dependsOn' = dependsOn
  PROVE  \A s, d \in Tasks : Depends(s, d)' => Depends(s, d)
<1>1. \A x \in Agents : call'[x] = IF x = a THEN c ELSE call[x]
  BY DEF Update, TypeOK
<1> QED
  BY <1>1 DEF Depends

\* Nor does a step of add_task after its first.
LEMMA SameEdges ==
  ASSUME TypeOK, NEW a \in Agents, NEW c, Update(a, c), call[a].step \in AddSteps,
         c.task = call[a].task, c.deps = call[a].deps,
         dependsOn' \subseteq dependsOn \cup {<<call[a].task, d>> : d \in call[a].deps}
  PROVE  \A s, d \in Tasks : Depends(s, d)' => Depends(s, d)
<1>1. \A x \in Agents : call'[x] = IF x = a THEN c ELSE call[x]
  BY DEF Update, TypeOK
<1>2. SUFFICES ASSUME NEW s \in Tasks, NEW d \in Tasks, Depends(s, d)'
               PROVE  Depends(s, d)
  OBVIOUS
<1>3. CASE <<s, d>> \in dependsOn'
  <2>1. CASE <<s, d>> \in dependsOn
    BY <2>1 DEF Depends
  <2>2. CASE <<s, d>> \in {<<call[a].task, e>> : e \in call[a].deps}
    <3>1. s = call[a].task /\ d \in call[a].deps
      BY <2>2
    <3> QED
      BY <3>1 DEF Depends
  <2> QED
    BY <1>3, <2>1, <2>2
<1>4. ASSUME NEW b \in Agents,
             call'[b].step \in AddSteps /\ call'[b].task = s /\ d \in call'[b].deps
      PROVE  Depends(s, d)
  <2>1. CASE b = a
    BY <1>1, <1>4, <2>1 DEF Depends
  <2>2. CASE b # a
    BY <1>1, <1>4, <2>2 DEF Depends
  <2> QED
    BY <2>1, <2>2
<1> QED
  BY <1>2, <1>3, <1>4 DEF Depends

LEMMA NoCycleStep ==
  ASSUME TypeOK, GraphInv, NoCycle, [Next]_vars
  PROVE  NoCycle'
<1>0. KnownTasks /\ EdgesKnown /\ \A a \in Agents : call[a] \in Calls /\ HasLocals(call[a])
  BY DEF GraphInv, TypeOK
<1>1. ASSUME NEW a \in Agents, NEW t \in Tasks,
             NEW D \in SUBSET {d \in Tasks : status[d] # "none"}, AddTask(a, t, D)
      PROVE  NoCycle'
  <2> DEFINE c == [Idle EXCEPT !.step = "add_read", !.task = t,
                               !.seen = "open", !.deps = D, !.todo = D]
  <2>1. c.step = "add_read" /\ c.task = t /\ c.deps = D
    BY DEF Idle
  <2>2. Update(a, c) /\ dependsOn' = dependsOn /\ status[t] = "none"
    BY <1>1 DEF AddTask, Begin, graph
  <2> HIDE DEF c
  <2>3. \A x \in Agents : call'[x] = IF x = a THEN c ELSE call[x]
    BY <2>2 DEF Update, TypeOK
  <2>4. \A s, d \in Tasks : Depends(s, d)' => Depends(s, d) \/ s = t
    BY <2>1, <2>2, <2>3 DEF Depends
  <2>5. \A s \in Tasks : ~Depends(s, t)
    BY <1>0, <2>2 DEF Depends, KnownTasks, Known, EdgesKnown
  <2>6. t \notin D
    BY <2>2
  <2>7. \A s \in Tasks : ~Depends(s, t)'
    BY <2>1, <2>2, <2>3, <2>5, <2>6 DEF Depends
  <2> QED
    BY <2>4, <2>7, NewSource
<1>2. ASSUME NEW a \in Agents, NEW d \in Tasks, AddReadDependency(a, d)
      PROVE  NoCycle'
  <2>1. PICK c : /\ Update(a, c)
                 /\ \/ c = [call[a] EXCEPT !.todo = @ \ {d}]
                    \/ c = [call[a] EXCEPT !.seen = "blocked", !.todo = {}]
    BY <1>2 DEF AddReadDependency
  <2>2. call[a] \in Calls /\ call[a].step \in AddSteps /\ dependsOn' = dependsOn
    BY <1>0, <1>2 DEF AddReadDependency, At, AddSteps, graph
  <2>3. c.task = call[a].task /\ c.deps = call[a].deps
    <3>1. CASE c = [call[a] EXCEPT !.todo = @ \ {d}]
      BY <2>2, <3>1 DEF Calls
    <3>2. CASE c = [call[a] EXCEPT !.seen = "blocked", !.todo = {}]
      BY <2>2, <3>2 DEF Calls
    <3> QED
      BY <2>1, <3>1, <3>2
  <2> QED
    BY <2>1, <2>2, <2>3, SameEdges, FewerEdges
<1>3. ASSUME NEW a \in Agents, NEW d \in Tasks, AddEdge(a, d)
      PROVE  NoCycle'
  <2> DEFINE c == [call[a] EXCEPT !.todo = @ \ {d}]
  <2>1. call[a] \in Calls /\ call[a].step \in AddSteps /\ Known(call[a])
    BY <1>0, <1>3 DEF AddEdge, At, AddSteps, KnownTasks
  <2>2. Update(a, c) /\ c.task = call[a].task /\ c.deps = call[a].deps
    BY <1>3, <2>1 DEF AddEdge, Calls
  <2>3. dependsOn' \subseteq dependsOn \cup {<<call[a].task, e>> : e \in call[a].deps}
    BY <1>3, <2>1 DEF AddEdge, Known
  <2> HIDE DEF c
  <2> QED
    BY <2>1, <2>2, <2>3, SameEdges, FewerEdges
<1>4. ASSUME NEW a \in Agents, AddCreate(a)
      PROVE  NoCycle'
  <2> DEFINE c == [call[a] EXCEPT !.step = "add_edges", !.todo = call[a].deps]
  <2>1. call[a] \in Calls /\ call[a].step \in AddSteps /\ dependsOn' = dependsOn
    BY <1>0, <1>4 DEF AddCreate, At, AddSteps
  <2>2. Update(a, c) /\ c.task = call[a].task /\ c.deps = call[a].deps
    BY <1>4, <2>1 DEF AddCreate, Calls
  <2> HIDE DEF c
  <2> QED
    BY <2>1, <2>2, SameEdges, FewerEdges
<1>5. ASSUME NEW a \in Agents, NEW t \in Tasks, Begins(a, t)
      PROVE  NoCycle'
  <2>1. PICK c : Update(a, c) /\ c.step \in {"claim_acquire", "complete_scan", "handoff_release"}
    BY <1>5 DEF Begins
  <2>2. c.step \notin AddSteps /\ dependsOn' = dependsOn
    BY <1>5, <2>1 DEF Begins, AddSteps
  <2> QED
    BY <2>1, <2>2, OtherCall, FewerEdges
<1>6. ASSUME NEW a \in Agents, Ends(a)
      PROVE  NoCycle'
  <2>1. Update(a, Idle) /\ Idle.step \notin AddSteps /\ dependsOn' = dependsOn
    BY <1>6 DEF Ends, Return, Idle, AddSteps
  <2> QED
    BY <2>1, OtherCall, FewerEdges
<1>7. ASSUME NEW a \in Agents, GoesOn(a)
      PROVE  NoCycle'
  <2>1. PICK c : Update(a, c) /\ c.step \notin AddSteps /\ dependsOn' = dependsOn
    BY <1>7 DEF GoesOn
  <2> QED
    BY <2>1, OtherCall, FewerEdges
<1>8. CASE UNCHANGED <<call, status, dependsOn>>
  BY <1>8, FewerEdges DEF Depends
<1> QED
  BY <1>1, <1>2, <1>3, <1>4, <1>5, <1>6, <1>7, <1>8, Shape

\* Tasks never wait for one another in a cycle, however many agents add them and
\* wherever their calls break off: every DEPENDS_ON edge joins two tasks that exist,
\* and of any tasks some one depends on none of the others (ProjectGraph.add_task).
THEOREM DependenciesFormNoCycle == Spec => [](EdgesKnown /\ DependenciesAcyclic)
<1>1. Init => NoCycle
  BY DEF Init, NoCycle, Depends, Idle, AddSteps
<1>2. NoCycle => DependenciesAcyclic
  BY DEF NoCycle, Depends, DependenciesAcyclic
<1>3. GraphInv => EdgesKnown
  BY DEF GraphInv
<1> QED
  BY <1>1, <1>2, <1>3, TypeCorrect, GraphInvariant, NoCycleStep, PTL DEF Spec

(***************************************************************************)
(* Calls about a task that do not overlap.  What claim_task and            *)
(* _unblock_dependents read decides what they write a step later, so what  *)
(* the code promises of a completed task holds while at most one call      *)
(* handles it at a time: Alone(t), which a single agent always gives.      *)
(***************************************************************************)
Handles(c, t) == c.step # "idle" /\ (c.task = t \/ c.next = t)

Alone(t) ==
    \A a, b \in Agents : Handles(call[a], t) /\ Handles(call[b], t) => a = b

\* What a call read of t is still so.
ReadHolds(c, t) ==
    /\ c.step \in ClaimSteps /\ c.task = t => status[t] \in Claimable
    /\ c.step = "unblock_write" /\ c.next = t => status[t] = "blocked"

ReadsHold(t) == \A a \in Agents : ReadHolds(call[a], t)

\* A step that leaves t's status alone, or is the one call that handles t.
LEMMA ReadsHoldUpdate ==
  ASSUME TypeOK, NEW t \in Tasks, ReadsHold(t), NEW a \in Agents, NEW c, Update(a, c),
         ReadHolds(c, t)',
         status'[t] = status[t] \/ \A b \in Agents \ {a} : ~Handles(call[b], t)
  PROVE  ReadsHold(t)'
<1> SUFFICES ASSUME NEW b \in Agents PROVE ReadHolds(call[b], t)'
  BY DEF ReadsHold
<1>1. call'[b] = IF b = a THEN c ELSE call[b]
  BY DEF Update, TypeOK
<1>2. CASE b = a
  BY <1>1, <1>2 DEF ReadHolds
<1>3. CASE b # a
  BY <1>1, <1>3 DEF ReadsHold, ReadHolds, Handles, ClaimSteps
<1> QED
  BY <1>2, <1>3

LEMMA ReadsHoldStep ==
  ASSUME TypeOK, NEW t \in Tasks, ReadsHold(t), Alone(t), Alone(t)', [Next]_vars
  PROVE  ReadsHold(t)'
<1>0. /\ status \in [Tasks -> Statuses]
      /\ \A a \in Agents : /\ call[a] \in Calls
                           /\ call[a].step # "idle" => call[a].task \in Tasks
                           /\ call[a].step = "unblock_write" => call[a].next \in Tasks
  BY DEF TypeOK, HasLocals
<1>1. ASSUME NEW a \in Agents, NEW u \in Tasks, NEW D \in SUBSET Tasks, AddTask(a, u, D)
      PROVE  ReadsHold(t)'
  <2>1. PICK c : c = [Idle EXCEPT !.step = "add_read", !.task = u,
                               !.seen = "open", !.deps = D, !.todo = D]
    OBVIOUS
  <2>2. c.step = "add_read" /\ Update(a, c) /\ status' = status
    BY <1>1, <2>1 DEF AddTask, Begin, Idle, graph
  <2> QED
    BY <2>2, ReadsHoldUpdate DEF ReadHolds, ClaimSteps
<1>2. ASSUME NEW a \in Agents, NEW d \in Tasks, AddReadDependency(a, d) \/ AddEdge(a, d)
      PROVE  ReadsHold(t)'
  <2>1. PICK c : /\ Update(a, c)
                 /\ \/ c = [call[a] EXCEPT !.todo = @ \ {d}]
                    \/ c = [call[a] EXCEPT !.seen = "blocked", !.todo = {}]
    BY <1>2 DEF AddReadDependency, AddEdge
  <2>2. call[a] \in Calls /\ call[a].step \in AddSteps /\ status' = status
    BY <1>0, <1>2 DEF AddReadDependency, AddEdge, At, AddSteps, graph
  <2>3. c.step \in AddSteps
    <3>1. CASE c = [call[a] EXCEPT !.todo = @ \ {d}]
      BY <2>2, <3>1 DEF Calls
    <3>2. CASE c = [call[a] EXCEPT !.seen = "blocked", !.todo = {}]
      BY <2>2, <3>2 DEF Calls
    <3> QED
      BY <2>1, <3>1, <3>2
  <2>4. ReadHolds(c, t)'
    BY <2>3 DEF ReadHolds, ClaimSteps, AddSteps
  <2> QED
    BY <2>1, <2>2, <2>4, ReadsHoldUpdate
<1>3. ASSUME NEW a \in Agents, AddCreate(a)
      PROVE  ReadsHold(t)'
  <2>1. PICK c : c = [call[a] EXCEPT !.step = "add_edges", !.todo = call[a].deps]
    OBVIOUS
  <2>2. /\ c.step = "add_edges" /\ call[a].step = "add_read" /\ Update(a, c)
        /\ status' = [status EXCEPT ![call[a].task] = call[a].seen]
    BY <1>0, <1>3, <2>1 DEF AddCreate, At, Calls
  <2>3. ReadHolds(c, t)'
    BY <2>2 DEF ReadHolds, ClaimSteps
  <2>4. status'[t] = status[t] \/ \A b \in Agents \ {a} : ~Handles(call[b], t)
    BY <1>0, <2>2 DEF Alone, Handles
  <2> QED
    BY <2>2, <2>3, <2>4, ReadsHoldUpdate
<1>4. ASSUME NEW a \in Agents, NEW u \in Tasks, Begins(a, u)
      PROVE  ReadsHold(t)'
  <2>1. PICK c : /\ Update(a, c)
                 /\ c.step \in {"claim_acquire", "complete_scan", "handoff_release"}
                 /\ c.task = u
                 /\ c.step = "claim_acquire" => status[u] \in Claimable
                 /\ status' = IF c.step = "complete_scan"
                              THEN [status EXCEPT ![u] = "completed"] ELSE status
    BY <1>4 DEF Begins
  <2>2. \A x \in Agents : call'[x] = IF x = a THEN c ELSE call[x]
    BY <2>1 DEF Update, TypeOK
  <2>3. ReadHolds(c, t)'
    BY <2>1 DEF ReadHolds, ClaimSteps
  <2>4. status'[t] = status[t] \/ \A b \in Agents \ {a} : ~Handles(call[b], t)
    <3>1. CASE u = t
      <4>1. Handles(call[a], t)'
        BY <2>1, <2>2, <3>1 DEF Handles
      <4> QED
        BY <2>2, <4>1 DEF Alone, Handles
    <3>2. CASE u # t
      BY <1>0, <2>1, <3>2
    <3> QED
      BY <3>1, <3>2
  <2> QED
    BY <2>1, <2>3, <2>4, ReadsHoldUpdate
<1>5. ASSUME NEW a \in Agents, Ends(a)
      PROVE  ReadsHold(t)'
  <2>1. Update(a, Idle)
    BY <1>5 DEF Ends, Return
  <2>2. ReadHolds(Idle, t)'
    BY DEF ReadHolds, Idle, ClaimSteps
  <2>3. status'[t] = status[t] \/ \A b \in Agents \ {a} : ~Handles(call[b], t)
    BY <1>0, <1>5 DEF Ends, Alone, Handles
  <2> QED
    BY <2>1, <2>2, <2>3, ReadsHoldUpdate
<1>6. ASSUME NEW a \in Agents, GoesOn(a)
      PROVE  ReadsHold(t)'
  <2>1. PICK c : /\ call[a].step # "idle"
                 /\ Update(a, c)
                 /\ c.task = call[a].task
                 /\ c.step \in ClaimSteps => call[a].step \in ClaimSteps
                 /\ c.step = "unblock_write" => status[c.next] = "blocked"
                 /\ \/ status' = status
                    \/ /\ call[a].step = "unblock_write"
                       /\ c.step = "unblock_publish"
                       /\ status' = [status EXCEPT ![call[a].next] = "open"]
    BY <1>6 DEF GoesOn
  <2>2. ReadHolds(call[a], t)
    BY DEF ReadsHold
  <2>3. ReadHolds(c, t)'
    BY <2>1, <2>2 DEF ReadHolds, ClaimSteps
  <2>4. status'[t] = status[t] \/ \A b \in Agents \ {a} : ~Handles(call[b], t)
    BY <1>0, <2>1 DEF Alone, Handles
  <2> QED
    BY <2>1, <2>3, <2>4, ReadsHoldUpdate
<1>7. CASE UNCHANGED <<call, status, dependsOn>>
  BY <1>7 DEF ReadsHold, ReadHolds
<1> QED
  BY <1>1, <1>2, <1>3, <1>4, <1>5, <1>6, <1>7, Shape

LEMMA ReadsHoldInitially == ASSUME NEW t PROVE Init => ReadsHold(t)
BY DEF Init, ReadsHold, ReadHolds, Idle, ClaimSteps

\* Only a hand-off reopens a task whose reads hold.
Reopened(t) ==
    status[t] = "completed" /\ status'[t] # "completed"
      => \E a \in Agents : At(a, "handoff_write") /\ call[a].task = t

LEMMA ReopenedByHandoff ==
  ASSUME TypeOK, GraphInv, NEW t \in Tasks, ReadsHold(t), [Next]_vars
  PROVE  Reopened(t)
<1>0. /\ status \in [Tasks -> Statuses] /\ FreshIds
      /\ \A a \in Agents : /\ ReadHolds(call[a], t)
                           /\ call[a].step # "idle" => call[a].task \in Tasks
  BY DEF TypeOK, GraphInv, HasLocals, ReadsHold
<1> SUFFICES ASSUME status[t] = "completed", status'[t] # "completed"
             PROVE  \E a \in Agents : At(a, "handoff_write") /\ call[a].task = t
  BY DEF Reopened
<1>1. ASSUME NEW a \in Agents, NEW u \in Tasks,
             \/ \E D \in SUBSET Tasks : AddTask(a, u, D)
             \/ AddReadDependency(a, u)
             \/ AddEdge(a, u)
             \/ Begins(a, u)
      PROVE  FALSE
  BY <1>0, <1>1 DEF AddTask, AddReadDependency, AddEdge, Begins, graph
<1>2. ASSUME NEW a \in Agents, AddCreate(a)
      PROVE  FALSE
  BY <1>0, <1>2 DEF AddCreate, FreshIds, At
<1>3. ASSUME NEW a \in Agents, GoesOn(a)
      PROVE  FALSE
  BY <1>0, <1>3 DEF GoesOn, ReadHolds
<1>4. ASSUME NEW a \in Agents, Ends(a)
      PROVE  At(a, "handoff_write") /\ call[a].task = t
  BY <1>0, <1>4 DEF Ends, ReadHolds, ClaimSteps, Claimable, At
<1> QED
  BY <1>1, <1>2, <1>3, <1>4, Shape

\* "Error: Task is {status}, not claimable" holds to the end of claim_task, and a
\* completed task stays completed unless it is handed off, for a task that one call
\* at a time handles, however many agents there are, wherever calls break off and
\* whenever locks run out (claim_task, _unblock_dependents).
THEOREM AloneStaysCompleted ==
  ASSUME NEW t \in Tasks
  PROVE  Spec /\ []Alone(t) => /\ []ReadsHold(t)
                               /\ [][Reopened(t)]_vars
<1>1. Init => ReadsHold(t)
  BY ReadsHoldInitially
<1>2. TypeOK /\ ReadsHold(t) /\ Alone(t) /\ Alone(t)' /\ [Next]_vars => ReadsHold(t)'
  BY ReadsHoldStep
<1>3. TypeOK /\ GraphInv /\ ReadsHold(t) /\ [Next]_vars => [Reopened(t)]_vars
  BY ReopenedByHandoff
<1> QED
  BY <1>1, <1>2, <1>3, TypeCorrect, GraphInvariant, PTL DEF Spec

\* With a single agent no claim ever reopens a completed task: what the run
\* tasks_stale_claim refutes needs a second one.
THEOREM OneAgentNeverReopens ==
  ASSUME NEW s, Agents = {s}
  PROVE  Spec => CompletedNotClaimed
<1> DEFINE AllHold == \A t \in Tasks : ReadsHold(t)
<1>1. Init => AllHold
  BY ReadsHoldInitially
<1>2. TypeOK /\ AllHold /\ [Next]_vars => AllHold'
  <2> SUFFICES ASSUME TypeOK, AllHold, [Next]_vars, NEW t \in Tasks PROVE ReadsHold(t)'
    OBVIOUS
  <2>1. Alone(t) /\ Alone(t)'
    BY DEF Alone
  <2> QED
    BY <2>1, ReadsHoldStep
<1>3. AllHold /\ [Next]_vars
        => [\A a \in Agents, t \in Tasks :
              status[t] = "completed" /\ At(a, "claim_write") /\ call[a].task = t
                => status'[t] = "completed"]_vars
  BY DEF ReadsHold, ReadHolds, ClaimSteps, Claimable, At
<1> HIDE DEF AllHold
<1> QED
  BY <1>1, <1>2, <1>3, TypeCorrect, PTL DEF Spec, CompletedNotClaimed
=============================================================================
