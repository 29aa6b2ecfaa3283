--------------------------- MODULE A2ATaskProofs ---------------------------
(***************************************************************************)
(* Proofs about A2ATask for every set of server processes and tasks and    *)
(* every bound on crashes and raising statements.                          *)
(***************************************************************************)
EXTENDS A2ATask, TLAPS

USE NoTaskAssumption, BoundsAssumption

(***************************************************************************)
(* The requests: each has its locals in their types, and one in flight is  *)
(* about a task that has a row.                                            *)
(***************************************************************************)
CallsOK ==
    /\ call \in [Servers -> Calls]
    /\ \A p \in Servers : ~At(p, "idle") =>
          call[p].task \in Tasks /\ state[call[p].task] # "none"

\* The row of a task is never removed.
RowsStay == \A t \in Tasks : state[t] # "none" => state'[t] # "none"

LEMMA IdleInCalls == Idle \in Calls
BY DEF Idle, Calls, States, Lifecycle!States

LEMMA UpdateOK ==
  ASSUME CallsOK, RowsStay, NEW p \in Servers, NEW c \in Calls, Update(p, c),
         c.step # "idle" => c.task \in Tasks /\ state'[c.task] # "none"
  PROVE  CallsOK'
BY DEF CallsOK, RowsStay, Update, At

LEMMA ReturnOK ==
  ASSUME CallsOK, RowsStay, NEW p \in Servers, Return(p)
  PROVE  CallsOK'
<1>1. Idle.step = "idle"
  BY DEF Idle
<1> QED
  BY <1>1, IdleInCalls, UpdateOK DEF Return

LEMMA GotoOK ==
  ASSUME CallsOK, RowsStay, NEW p \in Servers, ~At(p, "idle"),
         NEW step \in Steps, Goto(p, step)
  PROVE  CallsOK'
<1> DEFINE c == [call[p] EXCEPT !.step = step]
<1>1. call[p] \in Calls /\ call[p].task \in Tasks /\ state[call[p].task] # "none"
  BY DEF CallsOK
<1>2. c \in Calls /\ c.task = call[p].task
  BY <1>1 DEF Calls
<1>3. Update(p, c)
  BY DEF Goto
<1> QED
  BY <1>1, <1>2, <1>3, UpdateOK DEF RowsStay

LEMMA TransitionOK ==
  ASSUME CallsOK, RowsStay, NEW p \in Servers, ~At(p, "idle"),
         NEW new \in States, Transition(p, new)
  PROVE  CallsOK'
<1> DEFINE c == [call[p] EXCEPT !.step = "read", !.new = new]
<1>1. call[p] \in Calls /\ call[p].task \in Tasks /\ state[call[p].task] # "none"
  BY DEF CallsOK
<1>2. c \in Calls /\ c.task = call[p].task
  BY <1>1 DEF Calls, Steps
<1>3. Update(p, c)
  BY DEF Transition
<1> QED
  BY <1>1, <1>2, <1>3, UpdateOK DEF RowsStay

LEMMA RaisedOK ==
  ASSUME CallsOK, RowsStay, NEW p \in Servers, ~At(p, "idle"), Raised(p)
  PROVE  CallsOK'
<1>1. "failed" \in States
  BY DEF States, Lifecycle!States
<1> QED
  BY <1>1, ReturnOK, TransitionOK DEF Raised

(***************************************************************************)
(* Every variable keeps its type.                                          *)
(***************************************************************************)
LEMMA TypeInductive ==
  ASSUME TypeOK, [Next]_vars
  PROVE  TypeOK'
<1>0. CallsOK
  BY DEF TypeOK, CallsOK
<1>1. ASSUME NEW p \in Servers, NEW t \in Tasks, Send(p, t)
      PROVE  TypeOK'
  <2> DEFINE c == [Idle EXCEPT !.step = "read", !.task = t, !.new = "working"]
  <2>1. c \in Calls /\ c.task = t
    BY IdleInCalls DEF Idle, Calls, Steps, States, Lifecycle!States
  <2>2. state' = [state EXCEPT ![t] = "submitted"] /\ Update(p, c)
    BY <1>1 DEF Send
  <2>3. RowsStay /\ state'[t] # "none"
    BY <2>2 DEF RowsStay, TypeOK
  <2>4. CallsOK'
    BY <1>0, <2>1, <2>2, <2>3, UpdateOK
  <2> QED
    BY <1>1, <2>4 DEF Send, TypeOK, CallsOK, faults, Messages, States,
       Lifecycle!States
<1>2. ASSUME NEW p \in Servers, NEW t \in Tasks, Cancel(p, t)
      PROVE  TypeOK'
  <2> DEFINE c == [Idle EXCEPT !.step = "read", !.task = t, !.new = "canceled"]
  <2>1. c \in Calls /\ c.task = t
    BY IdleInCalls DEF Idle, Calls, Steps, States, Lifecycle!States
  <2>2. UNCHANGED state /\ Update(p, c) /\ state[t] # "none"
    BY <1>2 DEF Cancel, row
  <2>3. CallsOK'
    BY <1>0, <2>1, <2>2, UpdateOK DEF RowsStay
  <2> QED
    BY <1>2, <2>3 DEF Cancel, TypeOK, CallsOK, row, faults
<1>3. ASSUME NEW p \in Servers, TransitionRead(p)
      PROVE  TypeOK'
  <2> DEFINE t == call[p].task
             c == [call[p] EXCEPT !.step = "write", !.seen = state[t],
                                  !.messages = history[t]]
  <2>1. call[p] \in Calls /\ t \in Tasks /\ state[t] # "none" /\ ~At(p, "idle")
    BY <1>0, <1>3 DEF CallsOK, TransitionRead, At
  <2>2. state[t] \in States /\ history[t] \in SUBSET Messages
    BY <2>1 DEF TypeOK
  <2>3. c \in Calls /\ c.task = t
    BY <2>1, <2>2 DEF Calls, Steps
  <2>4. RowsStay /\ state' = state
    BY <1>3 DEF TransitionRead, row, RowsStay
  <2>5. Update(p, c) \/ Raised(p)
    BY <1>3 DEF TransitionRead
  <2>6. CallsOK'
    BY <1>0, <2>1, <2>3, <2>4, <2>5, UpdateOK, RaisedOK
  <2> QED
    BY <1>3, <2>6 DEF TransitionRead, TypeOK, CallsOK, row, faults
<1>4. ASSUME NEW p \in Servers, TransitionWrite(p)
      PROVE  TypeOK'
  <2> DEFINE t == call[p].task
  <2>1. call[p] \in Calls /\ t \in Tasks /\ ~At(p, "idle")
    BY <1>0, <1>4 DEF CallsOK, TransitionWrite, At
  <2>2. call[p].new \in States /\ call[p].messages \in SUBSET Messages
    BY <2>1 DEF Calls
  <2>3. state' = [state EXCEPT ![t] = call[p].new]
    BY <1>4 DEF TransitionWrite
  <2>4. RowsStay
    BY <2>2, <2>3 DEF RowsStay, TypeOK, States, Lifecycle!States
  <2>5. Goto(p, "execute") \/ Return(p)
    BY <1>4 DEF TransitionWrite
  <2>6. CallsOK'
    BY <1>0, <2>1, <2>4, <2>5, GotoOK, ReturnOK DEF Steps
  <2>7. MessageOf(call[p].new) \in SUBSET Messages
    BY DEF MessageOf, Messages
  <2> QED
    BY <1>4, <2>1, <2>2, <2>6, <2>7 DEF TransitionWrite, TypeOK, CallsOK, faults
<1>5. ASSUME NEW p \in Servers, Execute(p)
      PROVE  TypeOK'
  <2>1. ~At(p, "idle") /\ Goto(p, "artifact_read") /\ RowsStay
    BY <1>5 DEF Execute, At, row, RowsStay
  <2>2. CallsOK'
    BY <1>0, <2>1, GotoOK DEF Steps
  <2> QED
    BY <1>5, <2>2 DEF Execute, TypeOK, CallsOK, row, faults
<1>6. ASSUME NEW p \in Servers, ArtifactRead(p)
      PROVE  TypeOK'
  <2> DEFINE t == call[p].task
             c == [call[p] EXCEPT !.step = "artifact_write", !.results = artifacts[t]]
  <2>1. call[p] \in Calls /\ t \in Tasks /\ state[t] # "none"
    BY <1>0, <1>6 DEF CallsOK, ArtifactRead, At
  <2>2. artifacts[t] \in SUBSET Artifacts
    BY <2>1 DEF TypeOK
  <2>3. c \in Calls /\ c.task = t
    BY <2>1, <2>2 DEF Calls, Steps
  <2>4. RowsStay /\ state' = state /\ Update(p, c)
    BY <1>6 DEF ArtifactRead, row, RowsStay
  <2>5. CallsOK'
    BY <1>0, <2>1, <2>3, <2>4, UpdateOK
  <2> QED
    BY <1>6, <2>5 DEF ArtifactRead, TypeOK, CallsOK, row, faults
<1>7. ASSUME NEW p \in Servers, ArtifactWrite(p)
      PROVE  TypeOK'
  <2>1. ~At(p, "idle") /\ Transition(p, "completed") /\ RowsStay
    BY <1>7 DEF ArtifactWrite, At, RowsStay
  <2>2. CallsOK'
    BY <1>0, <2>1, TransitionOK DEF States, Lifecycle!States
  <2>3. call[p].results \cup {"result"} \in SUBSET Artifacts
    BY <1>0 DEF CallsOK, Calls, Artifacts
  <2> QED
    BY <1>7, <2>2, <2>3 DEF ArtifactWrite, TypeOK, CallsOK, faults
<1>8. ASSUME NEW p \in Servers, StatementRaises(p)
      PROVE  TypeOK'
  <2>1. ~At(p, "idle") /\ Raised(p) /\ RowsStay
    BY <1>8 DEF StatementRaises, row, RowsStay
  <2>2. CallsOK'
    BY <1>0, <2>1, RaisedOK
  <2>3. call[p].task \in Tasks
    BY <1>0, <2>1 DEF CallsOK
  <2> QED
    BY <1>8, <2>2, <2>3 DEF StatementRaises, TypeOK, CallsOK, row
<1>9. ASSUME NEW p \in Servers, Crash(p)
      PROVE  TypeOK'
  <2>1. ~At(p, "idle") /\ Return(p) /\ RowsStay
    BY <1>9 DEF Crash, row, RowsStay
  <2>2. CallsOK'
    BY <1>0, <2>1, ReturnOK
  <2>3. call[p].task \in Tasks
    BY <1>0, <2>1 DEF CallsOK
  <2> QED
    BY <1>9, <2>2, <2>3 DEF Crash, TypeOK, CallsOK, row
<1>10. CASE UNCHANGED vars
  BY <1>10 DEF vars, row, TypeOK, At
<1> QED
  BY <1>1, <1>2, <1>3, <1>4, <1>5, <1>6, <1>7, <1>8, <1>9, <1>10 DEF Next, Continue

LEMMA TypeInitially == Init => TypeOK
<1>1. Idle.step = "idle"
  BY DEF Idle
<1> QED
  BY <1>1, IdleInCalls DEF Init, TypeOK, At

\* Type correctness: the columns, the requests and the history variables have
\* their types, and every request in flight is about a task that has a row.
THEOREM TypeCorrect == Spec => []TypeOK
BY TypeInitially, TypeInductive, PTL DEF Spec

(***************************************************************************)
(* What ties a request to its task.  A request that is about to write      *)
(* checked the table against a state the task has been in, and one that is *)
(* to complete the task has stored the result.  Nothing else in the state  *)
(* says so, and without it neither CompletedHasResult nor the refinement   *)
(* can be proved.                                                          *)
(***************************************************************************)
CallSound(c) ==
    /\ c.step = "write" => c.seen \in past[c.task] /\ c.new \in Valid[c.seen]
    /\ c.step \in {"read", "write"} /\ c.new = "completed"
         => artifacts[c.task] = {"result"}

CallsSound == \A p \in Servers : CallSound(call[p])

PastSound ==
    \A t \in Tasks : IF state[t] = "none" THEN past[t] = {} ELSE state[t] \in past[t]

RequestsSound == PastSound /\ CallsSound

IInv == TypeOK /\ RequestsSound /\ CompletedHasResult

\* A task's past and its result only grow.
Grows ==
    \A t \in Tasks :
        /\ past[t] \subseteq past'[t]
        /\ artifacts[t] = {"result"} => artifacts'[t] = {"result"}

LEMMA UpdateSound ==
  ASSUME CallsOK, CallsSound, Grows, NEW p \in Servers, NEW c, Update(p, c),
         c.step = "write" => c.seen \in past'[c.task] /\ c.new \in Valid[c.seen],
         c.step \in {"read", "write"} /\ c.new = "completed"
           => artifacts'[c.task] = {"result"}
  PROVE  CallsSound'
<1> SUFFICES ASSUME NEW q \in Servers PROVE CallSound(call[q])'
  BY DEF CallsSound
<1>1. CASE q = p
  BY <1>1 DEF CallSound, Update, CallsOK
<1>2. CASE q # p
  <2>1. call'[q] = call[q] /\ CallSound(call[q])
    BY <1>2 DEF Update, CallsOK, CallsSound
  <2>2. call[q].step \in {"read", "write"} => call[q].task \in Tasks
    BY DEF CallsOK, At
  <2> QED
    BY <2>1, <2>2 DEF CallSound, Grows
<1> QED
  BY <1>1, <1>2

LEMMA ReturnSound ==
  ASSUME CallsOK, CallsSound, Grows, NEW p \in Servers, Return(p)
  PROVE  CallsSound'
<1>1. Idle.step = "idle"
  BY DEF Idle
<1> QED
  BY <1>1, UpdateSound DEF Return

LEMMA GotoSound ==
  ASSUME CallsOK, CallsSound, Grows, NEW p \in Servers,
         NEW step \in {"execute", "artifact_read"}, Goto(p, step)
  PROVE  CallsSound'
<1> DEFINE c == [call[p] EXCEPT !.step = step]
<1>1. c.step = step
  BY DEF CallsOK, Calls
<1>2. Update(p, c)
  BY DEF Goto
<1> QED
  BY <1>1, <1>2, UpdateSound

LEMMA TransitionSound ==
  ASSUME CallsOK, CallsSound, Grows, NEW p \in Servers, NEW new \in States,
         Transition(p, new),
         new = "completed" => artifacts'[call[p].task] = {"result"}
  PROVE  CallsSound'
<1> DEFINE c == [call[p] EXCEPT !.step = "read", !.new = new]
<1>1. c.step = "read" /\ c.new = new /\ c.task = call[p].task
  BY DEF CallsOK, Calls
<1>2. Update(p, c)
  BY DEF Transition
<1> QED
  BY <1>1, <1>2, UpdateSound

LEMMA RaisedSound ==
  ASSUME CallsOK, CallsSound, Grows, NEW p \in Servers, Raised(p)
  PROVE  CallsSound'
<1>1. "failed" \in States
  BY DEF States, Lifecycle!States
<1> QED
  BY <1>1, ReturnSound, TransitionSound DEF Raised

\* What a request writes is a valid successor of a state its task has been in.
LEMMA WriteFollowsTable ==
  ASSUME IInv, NEW p \in Servers, At(p, "write")
  PROVE  /\ call[p].task \in Tasks
         /\ call[p].seen \in past[call[p].task]
         /\ call[p].new \in Valid[call[p].seen]
         /\ call[p].seen \in States
         /\ call[p].new \in States
         /\ state[call[p].task] # "none"
BY DEF IInv, TypeOK, RequestsSound, CallsSound, CallSound, At, Calls

LEMMA SoundInductive ==
  ASSUME IInv, [Next]_vars
  PROVE  RequestsSound' /\ CompletedHasResult'
<1>0. CallsOK /\ CallsSound /\ PastSound /\ CompletedHasResult
  BY DEF IInv, TypeOK, CallsOK, RequestsSound
<1>a. TypeOK
  BY DEF IInv
<1>1. ASSUME NEW p \in Servers, NEW t \in Tasks, Send(p, t)
      PROVE  RequestsSound' /\ CompletedHasResult'
  <2> DEFINE c == [Idle EXCEPT !.step = "read", !.task = t, !.new = "working"]
  <2>1. c.step = "read" /\ c.new = "working"
    BY DEF Idle
  <2>2. /\ state' = [state EXCEPT ![t] = "submitted"]
        /\ past' = [past EXCEPT ![t] = {"submitted"}]
        /\ artifacts' = artifacts
        /\ Update(p, c)
        /\ past[t] = {}
    BY <1>0, <1>1 DEF Send, PastSound
  <2>3. Grows
    BY <1>a, <2>2 DEF Grows, TypeOK
  <2>4. CallsSound'
    BY <1>0, <2>1, <2>2, <2>3, UpdateSound
  <2>5. PastSound'
    BY <1>0, <1>a, <2>2 DEF PastSound, TypeOK
  <2>6. CompletedHasResult'
    BY <1>0, <1>a, <2>2 DEF CompletedHasResult, TypeOK
  <2> QED
    BY <2>4, <2>5, <2>6 DEF RequestsSound
<1>2. ASSUME NEW p \in Servers, TransitionWrite(p)
      PROVE  RequestsSound' /\ CompletedHasResult'
  <2> DEFINE t == call[p].task
             new == call[p].new
  <2>1. /\ t \in Tasks
        /\ call[p].seen \in past[t]
        /\ new \in Valid[call[p].seen]
        /\ call[p].seen \in States
        /\ new \in States
    BY <1>2, WriteFollowsTable DEF TransitionWrite
  <2>2. /\ state' = [state EXCEPT ![t] = new]
        /\ past' = [past EXCEPT ![t] = @ \cup {new}]
        /\ artifacts' = artifacts
    BY <1>2 DEF TransitionWrite
  <2>3. Grows
    BY <1>a, <2>2 DEF Grows, TypeOK
  <2>4. Goto(p, "execute") \/ Return(p)
    BY <1>2 DEF TransitionWrite
  <2>5. CallsSound'
    BY <1>0, <2>3, <2>4, GotoSound, ReturnSound
  <2>6. new # "none"
    BY <2>1 DEF States, Lifecycle!States
  <2>7. PastSound'
    BY <1>0, <1>a, <2>1, <2>2, <2>6 DEF PastSound, TypeOK
  <2>8. new = "completed" => artifacts[t] = {"result"}
    BY <1>0, <1>2 DEF CallsSound, CallSound, TransitionWrite, At
  <2>9. CompletedHasResult'
    BY <1>0, <1>a, <2>1, <2>2, <2>8 DEF CompletedHasResult, TypeOK
  <2> QED
    BY <2>5, <2>7, <2>9 DEF RequestsSound
<1>3. ASSUME NEW p \in Servers, ArtifactWrite(p)
      PROVE  RequestsSound' /\ CompletedHasResult'
  <2> DEFINE t == call[p].task
  <2>1. t \in Tasks /\ call[p].results \in SUBSET {"result"}
    BY <1>0, <1>3 DEF CallsOK, ArtifactWrite, At, Calls, Artifacts
  <2>2. /\ artifacts' = [artifacts EXCEPT ![t] = {"result"}]
        /\ state' = state
        /\ past' = past
        /\ Transition(p, "completed")
    BY <1>3, <2>1 DEF ArtifactWrite
  <2>3. Grows /\ artifacts'[t] = {"result"}
    BY <1>a, <2>1, <2>2 DEF Grows, TypeOK
  <2>4. CallsSound'
    BY <1>0, <2>2, <2>3, TransitionSound DEF States, Lifecycle!States
  <2> QED
    BY <1>0, <1>a, <2>1, <2>2, <2>4 DEF RequestsSound, PastSound,
       CompletedHasResult, TypeOK
<1>4. ASSUME UNCHANGED <<row, past>>, CallsSound'
      PROVE  RequestsSound' /\ CompletedHasResult'
  BY <1>0, <1>4 DEF row, RequestsSound, PastSound, CompletedHasResult
<1>b. ASSUME UNCHANGED <<row, past>>
      PROVE  Grows
  BY <1>b DEF row, Grows
<1>5. ASSUME NEW p \in Servers, NEW t \in Tasks, Cancel(p, t)
      PROVE  RequestsSound' /\ CompletedHasResult'
  <2> DEFINE c == [Idle EXCEPT !.step = "read", !.task = t, !.new = "canceled"]
  <2>1. c.step = "read" /\ c.new = "canceled"
    BY DEF Idle
  <2>2. UNCHANGED <<row, past>> /\ Update(p, c)
    BY <1>5 DEF Cancel
  <2>3. CallsSound'
    BY <1>0, <1>b, <2>1, <2>2, UpdateSound
  <2> QED
    BY <1>4, <2>2, <2>3
<1>6. ASSUME NEW p \in Servers, TransitionRead(p)
      PROVE  RequestsSound' /\ CompletedHasResult'
  <2> DEFINE t == call[p].task
             c == [call[p] EXCEPT !.step = "write", !.seen = state[t],
                                  !.messages = history[t]]
  <2>1. /\ call[p] \in Calls /\ t \in Tasks
        /\ call[p].step = "read" /\ state[t] # "none"
    BY <1>0, <1>6 DEF CallsOK, TransitionRead, At
  <2>2. UNCHANGED <<row, past>>
    BY <1>6 DEF TransitionRead
  <2>3. \/ call[p].new \in Valid[state[t]] /\ Update(p, c)
        \/ Raised(p)
    BY <1>6 DEF TransitionRead
  <2>4. /\ c.step = "write" /\ c.seen = state[t]
        /\ c.new = call[p].new /\ c.task = t
    BY <2>1 DEF Calls
  <2>5. state[t] \in past'[t]
    BY <1>0, <2>1, <2>2 DEF PastSound
  <2>6. call[p].new = "completed" => artifacts'[t] = {"result"}
    BY <1>0, <2>1, <2>2 DEF CallsSound, CallSound, row
  <2>7. CallsSound'
    BY <1>0, <1>b, <2>2, <2>3, <2>4, <2>5, <2>6, UpdateSound, RaisedSound
  <2> QED
    BY <1>4, <2>2, <2>7
<1>7. ASSUME NEW p \in Servers, Execute(p)
      PROVE  RequestsSound' /\ CompletedHasResult'
  <2>1. UNCHANGED <<row, past>> /\ Goto(p, "artifact_read")
    BY <1>7 DEF Execute
  <2> QED
    BY <1>0, <1>4, <1>b, <2>1, GotoSound
<1>8. ASSUME NEW p \in Servers, ArtifactRead(p)
      PROVE  RequestsSound' /\ CompletedHasResult'
  <2> DEFINE c == [call[p] EXCEPT !.step = "artifact_write",
                                  !.results = artifacts[call[p].task]]
  <2>1. UNCHANGED <<row, past>> /\ Update(p, c)
    BY <1>8 DEF ArtifactRead
  <2>2. c.step = "artifact_write"
    BY <1>0 DEF CallsOK, Calls
  <2> QED
    BY <1>0, <1>4, <1>b, <2>1, <2>2, UpdateSound
<1>9. ASSUME NEW p \in Servers, StatementRaises(p)
      PROVE  RequestsSound' /\ CompletedHasResult'
  <2>1. UNCHANGED <<row, past>> /\ Raised(p)
    BY <1>9 DEF StatementRaises
  <2> QED
    BY <1>0, <1>4, <1>b, <2>1, RaisedSound
<1>10. ASSUME NEW p \in Servers, Crash(p)
       PROVE  RequestsSound' /\ CompletedHasResult'
  <2>1. UNCHANGED <<row, past>> /\ Return(p)
    BY <1>10 DEF Crash
  <2> QED
    BY <1>0, <1>4, <1>b, <2>1, ReturnSound
<1>11. ASSUME UNCHANGED vars
       PROVE  RequestsSound' /\ CompletedHasResult'
  <2>1. UNCHANGED <<row, past>> /\ call' = call
    BY <1>11 DEF vars
  <2>2. CallsSound'
    BY <1>0, <2>1 DEF CallsSound, CallSound, row
  <2> QED
    BY <1>4, <2>1, <2>2
<1> QED
  BY <1>1, <1>2, <1>3, <1>5, <1>6, <1>7, <1>8, <1>9, <1>10, <1>11 DEF Next, Continue

LEMMA Invariant == Spec => []IInv
<1>1. Init => IInv
  <2> SUFFICES ASSUME Init PROVE IInv
    OBVIOUS
  <2>1. TypeOK
    BY TypeInitially
  <2>2. \A p \in Servers : call[p].step = "idle"
    BY DEF Init, Idle
  <2> QED
    BY <2>1, <2>2 DEF Init, IInv, RequestsSound, PastSound, CallsSound, CallSound,
       CompletedHasResult
<1>2. IInv /\ [Next]_vars => IInv'
  BY TypeInductive, SoundInductive DEF IInv
<1> QED
  BY <1>1, <1>2, PTL DEF Spec

\* A completed task has its result, however requests overlap.
THEOREM CompletedHaveResults == Spec => []CompletedHasResult
BY Invariant, PTL DEF IInv

(***************************************************************************)
(* The refinement.                                                         *)
(***************************************************************************)
\* Sending a task is the abstract submission, the UPDATE of a transition a
\* move or, if the row has changed since it was read, an overtaking; nothing
\* else touches the abstract variables.
LEMMA StepSimulated ==
  ASSUME IInv, [Next]_vars
  PROVE  [Lifecycle!Next]_(Lifecycle!vars)
<1>1. ASSUME NEW p \in Servers, NEW t \in Tasks, Send(p, t)
      PROVE  Lifecycle!Next
  <2>1. past[t] = {}
    BY <1>1 DEF Send, IInv, RequestsSound, PastSound
  <2>2. Lifecycle!Submit(t)
    BY <1>1, <2>1 DEF Send, Lifecycle!Submit, Lifecycle!Enter, IInv, TypeOK
  <2> QED
    BY <2>2 DEF Lifecycle!Next
<1>2. ASSUME NEW p \in Servers, TransitionWrite(p)
      PROVE  Lifecycle!Next
  <2> DEFINE t == call[p].task
             new == call[p].new
  <2>1. t \in Tasks /\ call[p].seen \in past[t] /\ new \in Valid[call[p].seen]
    BY <1>2, WriteFollowsTable DEF TransitionWrite
  <2>2. Lifecycle!Enter(t, new)
    BY <1>2 DEF TransitionWrite, Lifecycle!Enter
  <2>3. CASE call[p].seen = state[t] /\ call[p].messages = history[t]
    <3>1. overlapped' = overlapped /\ state[t] # "none"
      BY <1>2, <2>3, WriteFollowsTable DEF TransitionWrite
    <3>2. Lifecycle!Move(t)
      BY <2>1, <2>2, <2>3, <3>1 DEF Lifecycle!Move, Valid
    <3> QED
      BY <2>1, <3>2 DEF Lifecycle!Next
  <2>4. CASE ~(call[p].seen = state[t] /\ call[p].messages = history[t])
    <3>1. overlapped' = overlapped \cup {t}
      BY <1>2, <2>4 DEF TransitionWrite
    <3>2. Lifecycle!Overtake(t)
      BY <2>1, <2>2, <3>1 DEF Lifecycle!Overtake, Valid
    <3> QED
      BY <2>1, <3>2 DEF Lifecycle!Next
  <2> QED
    BY <2>3, <2>4
<1>3. ASSUME NEW p \in Servers, NEW t \in Tasks, Cancel(p, t)
      PROVE  UNCHANGED <<state, past, overlapped>>
  BY <1>3 DEF Cancel, row
<1>4. ASSUME NEW p \in Servers,
             \/ TransitionRead(p) \/ Execute(p) \/ ArtifactRead(p)
             \/ ArtifactWrite(p) \/ StatementRaises(p) \/ Crash(p)
      PROVE  UNCHANGED <<state, past, overlapped>>
  BY <1>4 DEF TransitionRead, Execute, ArtifactRead, ArtifactWrite,
     StatementRaises, Crash, row
<1>5. CASE UNCHANGED vars
  BY <1>5 DEF vars, row, Lifecycle!vars
<1> QED
  BY <1>1, <1>2, <1>3, <1>4, <1>5 DEF Next, Continue, Lifecycle!vars

\* The server implements the lifecycle: whatever requests overlap, crash or
\* raise, every change of a task's state follows VALID_TRANSITIONS from the
\* state the task is in, or from an earlier one if the row changed meanwhile.
THEOREM LifecycleImplemented == Spec => ImplementsLifecycle
<1>1. Init => Lifecycle!Init
  BY DEF Init, Lifecycle!Init
<1>2. IInv /\ [Next]_vars => [Lifecycle!Next]_(Lifecycle!vars)
  BY StepSimulated DEF Lifecycle!vars
<1> QED
  BY <1>1, <1>2, Invariant, PTL DEF Spec, ImplementsLifecycle, Lifecycle!Spec

(***************************************************************************)
(* The history column.                                                     *)
(***************************************************************************)
\* Every action keeps HistoryKept: an UPDATE of a row that is as it was read adds
\* its message to all there are.
LEMMA HistoryInductive ==
  ASSUME TypeOK, HistoryKept, [Next]_vars
  PROVE  HistoryKept'
<1>1. ASSUME NEW p \in Servers, NEW t \in Tasks, Send(p, t)
      PROVE  HistoryKept'
  BY <1>1 DEF Send, HistoryKept, TypeOK
<1>2. ASSUME NEW p \in Servers, TransitionWrite(p)
      PROVE  HistoryKept'
  <2> DEFINE t == call[p].task
             new == MessageOf(call[p].new)
  <2>1. t \in Tasks
    BY <1>2 DEF TransitionWrite, TypeOK, At
  <2>2. /\ history' = [history EXCEPT ![t] = call[p].messages \cup new]
        /\ written' = [written EXCEPT ![t] = @ \cup new]
        /\ overlapped \subseteq overlapped'
        /\ t \notin overlapped' => call[p].messages = history[t]
    BY <1>2 DEF TransitionWrite
  <2> HIDE DEF t, new
  <2>3. ASSUME NEW u \in Tasks \ overlapped'
        PROVE  history'[u] = written'[u]
    <3>1. history[u] = written[u]
      BY <2>2, <2>3 DEF HistoryKept
    <3>2. CASE u = t
      BY <2>1, <2>2, <2>3, <3>1, <3>2 DEF TypeOK
    <3>3. CASE u # t
      BY <2>1, <2>2, <3>1, <3>3 DEF TypeOK
    <3> QED
      BY <3>2, <3>3
  <2> QED
    BY <2>3 DEF HistoryKept
<1>3. ASSUME UNCHANGED <<history, written, overlapped>>
      PROVE  HistoryKept'
  BY <1>3 DEF HistoryKept
<1>4. ASSUME NEW p \in Servers,
             \/ \E t \in Tasks : Cancel(p, t)
             \/ TransitionRead(p) \/ Execute(p) \/ ArtifactRead(p) \/ ArtifactWrite(p)
             \/ StatementRaises(p) \/ Crash(p)
      PROVE  UNCHANGED <<history, written, overlapped>>
  BY <1>4 DEF Cancel, TransitionRead, Execute, ArtifactRead, ArtifactWrite,
              StatementRaises, Crash, row
<1>5. CASE UNCHANGED vars
  BY <1>3, <1>5 DEF vars, row
<1> QED
  BY <1>1, <1>2, <1>3, <1>4, <1>5 DEF Next, Continue

\* No message that a transition stored is lost from the history column, unless two
\* transitions overlapped, for any processes and tasks (A2ATaskManager.transition).
THEOREM HistoryStays == Spec => []HistoryKept
<1>1. Init => HistoryKept
  BY DEF Init, HistoryKept
<1> QED
  BY <1>1, TypeCorrect, HistoryInductive, PTL DEF Spec

(***************************************************************************)
(* Requests about a task that do not overlap.  The table is checked in one *)
(* statement and the row written in a later one, so what the code promises *)
(* of a terminal state holds only while no other request is about the same *)
(* task: Alone(t), which a single process always gives.                    *)
(***************************************************************************)
Alone(t) ==
    \A p, q \in Servers : ~At(p, "idle") /\ ~At(q, "idle")
                          /\ call[p].task = t /\ call[q].task = t => p = q

\* The row is still as the request that will write it read it.
Fresh(t) ==
    /\ t \notin overlapped
    /\ \A p \in Servers : At(p, "write") /\ call[p].task = t
         => call[p].seen = state[t] /\ call[p].messages = history[t]

\* A step of another request, or one that neither reads nor writes the row.
LEMMA FreshKept ==
  ASSUME CallsOK, NEW t \in Tasks, Fresh(t), NEW p \in Servers,
         NEW c, Update(p, c), c.step # "write",
         state'[t] = state[t], history'[t] = history[t], t \notin overlapped'
  PROVE  Fresh(t)'
BY DEF CallsOK, Fresh, Update, At

LEMMA FreshMoved ==
  ASSUME CallsOK, NEW t \in Tasks, Fresh(t), NEW p \in Servers,
         \/ Return(p)
         \/ \E new \in States : Transition(p, new)
         \/ \E step \in {"execute", "artifact_read"} : Goto(p, step)
         \/ Raised(p),
         state'[t] = state[t], history'[t] = history[t], t \notin overlapped'
  PROVE  Fresh(t)'
<1>1. Idle.step = "idle" /\ call[p] \in Calls /\ "failed" \in States
  BY DEF Idle, CallsOK, States, Lifecycle!States
<1>2. CASE Return(p)
  BY <1>1, <1>2, FreshKept DEF Return
<1>3. ASSUME NEW new \in States, Transition(p, new)
      PROVE  Fresh(t)'
  <2> DEFINE c == [call[p] EXCEPT !.step = "read", !.new = new]
  <2>1. Update(p, c) /\ c.step = "read"
    BY <1>1, <1>3 DEF Transition, Calls
  <2> QED
    BY <2>1, FreshKept
<1>4. ASSUME NEW step \in {"execute", "artifact_read"}, Goto(p, step)
      PROVE  Fresh(t)'
  <2> DEFINE c == [call[p] EXCEPT !.step = step]
  <2>1. Update(p, c) /\ c.step # "write"
    BY <1>1, <1>4 DEF Goto, Calls
  <2> QED
    BY <2>1, FreshKept
<1>5. CASE Raised(p)
  BY <1>1, <1>2, <1>3, <1>5 DEF Raised
<1> QED
  BY <1>2, <1>3, <1>4, <1>5

LEMMA FreshStep ==
  ASSUME IInv, NEW t \in Tasks, Alone(t), Fresh(t), [Next]_vars
  PROVE  Fresh(t)'
<1>0. TypeOK /\ CallsOK
  BY DEF IInv, TypeOK, CallsOK
<1>1. ASSUME NEW p \in Servers, NEW u \in Tasks, Send(p, u)
      PROVE  Fresh(t)'
  <2> DEFINE c == [Idle EXCEPT !.step = "read", !.task = u, !.new = "working"]
  <2>1. Update(p, c) /\ c.step = "read" /\ overlapped' = overlapped
    BY <1>1 DEF Send, Idle
  <2>2. CASE u # t
    <3>1. state'[t] = state[t] /\ history'[t] = history[t]
      BY <1>0, <1>1, <2>2 DEF Send, TypeOK
    <3> QED
      BY <1>0, <2>1, <3>1, FreshKept DEF Fresh
  <2>3. CASE u = t
    <3>1. \A q \in Servers : At(q, "write") => call[q].task # t
      BY <1>0, <1>1, <2>3 DEF Send, CallsOK, At
    <3>2. \A q \in Servers : At(q, "write")' => q # p
      BY <1>0, <2>1 DEF CallsOK, Update, At
    <3>3. \A q \in Servers : q # p => call'[q] = call[q]
      BY <1>0, <2>1 DEF CallsOK, Update
    <3> HIDE DEF c
    <3> QED
      BY <2>1, <3>1, <3>2, <3>3 DEF Fresh, At
  <2> QED
    BY <2>2, <2>3
<1>2. ASSUME NEW p \in Servers, NEW u \in Tasks, Cancel(p, u)
      PROVE  Fresh(t)'
  <2> DEFINE c == [Idle EXCEPT !.step = "read", !.task = u, !.new = "canceled"]
  <2>1. Update(p, c) /\ c.step = "read"
    BY <1>2 DEF Cancel, Idle
  <2>2. state'[t] = state[t] /\ history'[t] = history[t] /\ overlapped' = overlapped
    BY <1>2 DEF Cancel, row
  <2> QED
    BY <1>0, <2>1, <2>2, FreshKept DEF Fresh
<1>3. ASSUME NEW p \in Servers, TransitionRead(p)
      PROVE  Fresh(t)'
  <2>1. state' = state /\ history' = history /\ overlapped' = overlapped
    BY <1>3 DEF TransitionRead, row
  <2>2. CASE Raised(p)
    BY <1>0, <2>1, <2>2, FreshMoved DEF Fresh
  <2>3. CASE ~Raised(p)
    <3> DEFINE u == call[p].task
               c == [call[p] EXCEPT !.step = "write", !.seen = state[u],
                                    !.messages = history[u]]
    <3>1. Update(p, c)
      BY <1>3, <2>3 DEF TransitionRead
    <3>2. c.task = u /\ c.seen = state[u] /\ c.messages = history[u]
      BY <1>0 DEF CallsOK, Calls
    <3>3. \A q \in Servers : call'[q] = IF q = p THEN c ELSE call[q]
      BY <1>0, <3>1 DEF CallsOK, Update
    <3> HIDE DEF c
    <3> QED
      BY <2>1, <3>2, <3>3 DEF Fresh, At
  <2> QED
    BY <2>2, <2>3
<1>4. ASSUME NEW p \in Servers, TransitionWrite(p)
      PROVE  Fresh(t)'
  <2> DEFINE u == call[p].task
  <2>1. u \in Tasks /\ At(p, "write")
    BY <1>0, <1>4 DEF TransitionWrite, CallsOK, At
  <2>2. Goto(p, "execute") \/ Return(p)
    BY <1>4 DEF TransitionWrite
  <2>3. CASE u # t
    <3>1. state'[t] = state[t] /\ history'[t] = history[t]
      BY <1>0, <1>4, <2>1, <2>3 DEF TransitionWrite, TypeOK
    <3>2. t \notin overlapped'
      BY <1>4, <2>3 DEF TransitionWrite, Fresh
    <3> QED
      BY <1>0, <2>2, <3>1, <3>2, FreshMoved
  <2>4. CASE u = t
    <3>1. t \notin overlapped'
      BY <1>4, <2>1, <2>4 DEF TransitionWrite, Fresh
    <3>2. \A q \in Servers : At(q, "write") /\ call[q].task = t => q = p
      BY <2>1, <2>4 DEF Alone, At
    <3>3. \A q \in Servers : q # p => call'[q] = call[q]
      BY <1>0, <2>2 DEF CallsOK, Goto, Return, Update
    <3>4. ~At(p, "write")'
      BY <1>0, <2>2 DEF CallsOK, Calls, Goto, Return, Update, Idle, At
    <3> QED
      BY <3>1, <3>2, <3>3, <3>4 DEF Fresh, At
  <2> QED
    BY <2>3, <2>4
<1>5. ASSUME NEW p \in Servers, Execute(p)
      PROVE  Fresh(t)'
  BY <1>0, <1>5, FreshMoved DEF Execute, row, Fresh
<1>6. ASSUME NEW p \in Servers, ArtifactRead(p)
      PROVE  Fresh(t)'
  <2> DEFINE c == [call[p] EXCEPT !.step = "artifact_write",
                                  !.results = artifacts[call[p].task]]
  <2>1. Update(p, c) /\ c.step = "artifact_write"
    BY <1>0, <1>6 DEF ArtifactRead, CallsOK, Calls
  <2>2. state' = state /\ history' = history /\ overlapped' = overlapped
    BY <1>6 DEF ArtifactRead, row
  <2> QED
    BY <1>0, <2>1, <2>2, FreshKept DEF Fresh
<1>7. ASSUME NEW p \in Servers, ArtifactWrite(p)
      PROVE  Fresh(t)'
  <2>1. "completed" \in States
    BY DEF States, Lifecycle!States
  <2> QED
    BY <1>0, <1>7, <2>1, FreshMoved DEF ArtifactWrite, Fresh
<1>8. ASSUME NEW p \in Servers, StatementRaises(p)
      PROVE  Fresh(t)'
  BY <1>0, <1>8, FreshMoved DEF StatementRaises, row, Fresh
<1>9. ASSUME NEW p \in Servers, Crash(p)
      PROVE  Fresh(t)'
  BY <1>0, <1>9, FreshMoved DEF Crash, row, Fresh
<1>10. CASE UNCHANGED vars
  BY <1>10 DEF vars, row, Fresh, At
<1> QED
  BY <1>1, <1>2, <1>3, <1>4, <1>5, <1>6, <1>7, <1>8, <1>9, <1>10 DEF Next, Continue

LEMMA FreshInitially == ASSUME NEW t \in Tasks PROVE Init => Fresh(t)
BY DEF Init, Fresh, At, Idle

\* A transition from a row that is as it was read never starts at a terminal state.
LEMMA TerminalKept ==
  ASSUME IInv, NEW t \in Tasks, Fresh(t), [Next]_vars, state[t] \in Terminal
  PROVE  state'[t] = state[t]
<1>0. TypeOK
  BY DEF IInv
<1>1. Valid[state[t]] = {} /\ state[t] # "none"
  BY DEF Valid, Terminal, Lifecycle!ValidTransitions, Lifecycle!Terminal, Lifecycle!States
<1>2. ASSUME NEW p \in Servers, NEW u \in Tasks, Send(p, u)
      PROVE  state'[t] = state[t]
  BY <1>0, <1>1, <1>2 DEF Send, TypeOK
<1>3. ASSUME NEW p \in Servers, TransitionWrite(p)
      PROVE  state'[t] = state[t]
  <2>1. At(p, "write")
    BY <1>3 DEF TransitionWrite
  <2>2. call[p].task # t
    BY <1>1, <2>1, WriteFollowsTable DEF Fresh
  <2> QED
    BY <1>0, <1>3, <2>2 DEF TransitionWrite, TypeOK
<1>4. ASSUME NEW p \in Servers,
             \/ \E u \in Tasks : Cancel(p, u)
             \/ TransitionRead(p) \/ Execute(p) \/ ArtifactRead(p) \/ ArtifactWrite(p)
             \/ StatementRaises(p) \/ Crash(p)
      PROVE  state' = state
  BY <1>4 DEF Cancel, TransitionRead, Execute, ArtifactRead, ArtifactWrite,
              StatementRaises, Crash, row
<1>5. CASE UNCHANGED vars
  BY <1>5 DEF vars, row
<1> QED
  BY <1>2, <1>3, <1>4, <1>5 DEF Next, Continue

\* "Terminal states - no outbound transitions" (models.py) holds of a task whose
\* requests never overlap, however many processes serve other tasks, crash or raise,
\* and its row is always written as it was read (A2ATaskManager.transition).
THEOREM AloneStaysTerminal ==
  ASSUME NEW t \in Tasks
  PROVE  Spec /\ []Alone(t) =>
           /\ [](t \notin overlapped)
           /\ [][state[t] \in Terminal => state'[t] = state[t]]_vars
<1>1. Init => Fresh(t)
  BY FreshInitially
<1>2. IInv /\ Alone(t) /\ Fresh(t) /\ [Next]_vars => Fresh(t)'
  BY FreshStep
<1>3. IInv /\ Fresh(t) /\ [Next]_vars
        => [state[t] \in Terminal => state'[t] = state[t]]_vars
  BY TerminalKept
<1>4. Fresh(t) => t \notin overlapped
  BY DEF Fresh
<1> QED
  BY <1>1, <1>2, <1>3, <1>4, Invariant, PTL DEF Spec

\* With a single server process, which serves one request at a time, every task
\* stays in its terminal state and keeps every message of its history, whatever
\* crashes or raises: what the run a2a_terminal refutes needs a second process.
THEOREM OneProcessStaysTerminal ==
  ASSUME NEW s, Servers = {s}
  PROVE  Spec => TerminalStays /\ [](\A t \in Tasks : history[t] = written[t])
<1> DEFINE AllFresh == \A t \in Tasks : Fresh(t)
<1>1. Init => AllFresh
  BY FreshInitially
<1>2. IInv /\ AllFresh /\ [Next]_vars => AllFresh'
  <2> SUFFICES ASSUME IInv, AllFresh, [Next]_vars, NEW t \in Tasks PROVE Fresh(t)'
    OBVIOUS
  <2>1. Alone(t)
    BY DEF Alone
  <2> QED
    BY <2>1, FreshStep
<1>3. IInv /\ AllFresh /\ [Next]_vars
        => [\A t \in Tasks : state[t] \in Terminal => state'[t] = state[t]]_vars
  BY TerminalKept
<1>4. AllFresh /\ HistoryKept => \A t \in Tasks : history[t] = written[t]
  BY DEF Fresh, HistoryKept
<1> HIDE DEF AllFresh
<1> QED
  BY <1>1, <1>2, <1>3, <1>4, Invariant, HistoryStays, PTL DEF Spec, TerminalStays

\* Whatever overlaps: a task leaves a terminal state only by the UPDATE of a
\* request that read the row before the task ended.
THEOREM TerminalLeftByOverlap ==
  Spec => [][\A t \in Tasks : state[t] \in Terminal /\ state'[t] # state[t]
               => \E p \in Servers : /\ At(p, "write")
                                     /\ call[p].task = t
                                     /\ call[p].seen \notin Terminal
                                     /\ t \in overlapped']_vars
<1>1. ASSUME IInv, [Next]_vars, NEW t \in Tasks, state[t] \in Terminal, state'[t] # state[t]
      PROVE  \E p \in Servers : /\ At(p, "write")
                                /\ call[p].task = t
                                /\ call[p].seen \notin Terminal
                                /\ t \in overlapped'
  <2>0. TypeOK /\ state[t] # "none"
    BY <1>1 DEF IInv, Terminal, Lifecycle!Terminal
  <2>1. ASSUME NEW p \in Servers, NEW u \in Tasks, Send(p, u)
        PROVE  FALSE
    BY <1>1, <2>0, <2>1 DEF Send, TypeOK
  <2>2. ASSUME NEW p \in Servers,
               \/ \E u \in Tasks : Cancel(p, u)
               \/ TransitionRead(p) \/ Execute(p) \/ ArtifactRead(p) \/ ArtifactWrite(p)
               \/ StatementRaises(p) \/ Crash(p)
        PROVE  FALSE
    BY <1>1, <2>2 DEF Cancel, TransitionRead, Execute, ArtifactRead, ArtifactWrite,
                      StatementRaises, Crash, row
  <2>3. PICK p \in Servers : TransitionWrite(p)
    BY <1>1, <2>1, <2>2 DEF Next, Continue, vars, row
  <2>4. At(p, "write") /\ call[p].task = t
    BY <1>1, <2>0, <2>3 DEF TransitionWrite, TypeOK
  <2>5. call[p].seen \notin Terminal
    BY <1>1, <2>4, WriteFollowsTable
       DEF Valid, Terminal, Lifecycle!ValidTransitions, Lifecycle!Terminal, Lifecycle!States
  <2>6. t \in overlapped'
    BY <1>1, <2>3, <2>4, <2>5 DEF TransitionWrite
  <2> QED
    BY <2>4, <2>5, <2>6
<1>2. IInv /\ [Next]_vars
        => [\A t \in Tasks : state[t] \in Terminal /\ state'[t] # state[t]
               => \E p \in Servers : /\ At(p, "write")
                                     /\ call[p].task = t
                                     /\ call[p].seen \notin Terminal
                                     /\ t \in overlapped']_vars
  BY <1>1
<1> QED
  BY <1>2, Invariant, PTL DEF Spec
=============================================================================
