------------------------------ MODULE A2ATask ------------------------------
(***************************************************************************)
(* The A2A server: tasks/send and tasks/cancel                             *)
(* (src/contextsynapse/a2a/handlers.py, called by api/a2a_router.py) over  *)
(* the table a2a_tasks (src/contextsynapse/a2a/task_manager.py).           *)
(*                                                                         *)
(* A handler runs without yielding, so a server process serves one request *)
(* at a time; processes share the database.  transition and add_artifact   *)
(* read the row in one statement and update some of its columns in a later *)
(* one: between the two another process may update the row.                *)
(*                                                                         *)
(* Left out: sessions, events (api.py passes pubsub=None), the contents of *)
(* messages, and the state input-required, which no handler enters.        *)
(***************************************************************************)
EXTENDS Naturals

CONSTANTS
    Servers,    \* server processes
    Tasks,      \* ids of tasks that may be created
    NoTask,     \* no task
    MaxCrashes, \* bound: processes that die while serving a request
    MaxRaises   \* bound: statements that raise

ASSUME NoTaskAssumption == NoTask \notin Tasks
ASSUME BoundsAssumption == MaxCrashes \in Nat /\ MaxRaises \in Nat

VARIABLES
    state,      \* column state, "none" before the INSERT
    history,    \* column history, a set of messages
    artifacts,  \* column artifacts
    call,       \* the request each process is serving
    past,       \* history: the states each task has been in
    written,    \* history: messages a transition stored for each task
    overlapped, \* history: tasks updated from a row that had changed since
    abandoned,  \* history: tasks whose request died with its process
    crashes,
    raises

row == <<state, history, artifacts>>
vars == <<row, call, past, written, overlapped, abandoned, crashes, raises>>

Lifecycle == INSTANCE A2ALifecycle WITH
    state <- state, past <- past, overlapped <- overlapped

States == Lifecycle!States
Valid == Lifecycle!ValidTransitions
Terminal == Lifecycle!Terminal

Messages == {"request", "answer", "error"}
Artifacts == {"result"}

\* The message complete_task and fail_task store with the state.
MessageOf(new) == IF new = "completed" THEN {"answer"}
                  ELSE IF new = "failed" THEN {"error"} ELSE {}

\* A request: the task, the step it is at, the state it is to move the task
\* to next, and the state, history and artifacts it read.
Idle == [step |-> "idle", task |-> NoTask, new |-> "submitted",
         seen |-> "submitted", messages |-> {}, results |-> {}]

Steps == {"read", "write", "execute", "artifact_read", "artifact_write"}

Calls == [step : Steps \cup {"idle"}, task : Tasks \cup {NoTask}, new : States,
          seen : States, messages : SUBSET Messages, results : SUBSET Artifacts]

At(p, step) == call[p].step = step

TypeOK ==
    /\ state \in [Tasks -> States \cup {"none"}]
    /\ history \in [Tasks -> SUBSET Messages]
    /\ artifacts \in [Tasks -> SUBSET Artifacts]
    /\ call \in [Servers -> Calls]
    /\ \A p \in Servers : ~At(p, "idle") =>
          call[p].task \in Tasks /\ state[call[p].task] # "none"
    /\ past \in [Tasks -> SUBSET States]
    /\ written \in [Tasks -> SUBSET Messages]
    /\ overlapped \in SUBSET Tasks
    /\ abandoned \in SUBSET Tasks
    /\ crashes \in 0..MaxCrashes
    /\ raises \in 0..MaxRaises

Init ==
    /\ state = [t \in Tasks |-> "none"]
    /\ history = [t \in Tasks |-> {}]
    /\ artifacts = [t \in Tasks |-> {}]
    /\ call = [p \in Servers |-> Idle]
    /\ past = [t \in Tasks |-> {}]
    /\ written = [t \in Tasks |-> {}]
    /\ overlapped = {}
    /\ abandoned = {}
    /\ crashes = 0
    /\ raises = 0

faults == <<abandoned, crashes, raises>>

----------------------------------------------------------------------------
Update(p, c) == call' = [call EXCEPT ![p] = c]

Goto(p, step) == Update(p, [call[p] EXCEPT !.step = step])

\* The request goes on to call transition(task, new).
Transition(p, new) == Update(p, [call[p] EXCEPT !.step = "read", !.new = new])

Return(p) == Update(p, Idle)

\* tasks/send: INSERT the task, then transition to working.
Send(p, t) ==
    /\ At(p, "idle")
    /\ state[t] = "none"
    /\ state' = [state EXCEPT ![t] = "submitted"]
    /\ history' = [history EXCEPT ![t] = {"request"}]
    /\ past' = [past EXCEPT ![t] = {"submitted"}]
    /\ written' = [written EXCEPT ![t] = {"request"}]
    /\ Update(p, [Idle EXCEPT !.step = "read", !.task = t, !.new = "working"])
    /\ UNCHANGED <<artifacts, overlapped, faults>>

\* Wrong variant: takes the id of no task for a task.
CancelUnknown(p, t) ==
    /\ At(p, "idle")
    /\ Update(p, [Idle EXCEPT !.step = "read", !.task = t, !.new = "canceled"])
    /\ UNCHANGED <<row, past, written, overlapped, faults>>

\* tasks/cancel.
Cancel(p, t) ==
    /\ At(p, "idle")
    /\ state[t] # "none"
    /\ Update(p, [Idle EXCEPT !.step = "read", !.task = t, !.new = "canceled"])
    /\ UNCHANGED <<row, past, written, overlapped, faults>>

\* What the except branch of handle_task_send makes of an exception: before
\* the try and in fail_task itself the request answers with the error.
Raised(p) ==
    IF At(p, "execute") \/ At(p, "artifact_read") \/ At(p, "artifact_write")
         \/ call[p].new = "completed"
    THEN Transition(p, "failed")
    ELSE Return(p)

\* Wrong variant: the state is not checked.
TransitionReadUnchecked(p) ==
    LET t == call[p].task
    IN  /\ At(p, "read")
        /\ Update(p, [call[p] EXCEPT !.step = "write", !.seen = state[t],
                                     !.messages = history[t]])
        /\ UNCHANGED <<row, past, written, overlapped, faults>>

\* transition: get_task, and the check against VALID_TRANSITIONS.
TransitionRead(p) ==
    LET t == call[p].task
    IN  /\ At(p, "read")
        /\ IF call[p].new \in Valid[state[t]]
           THEN Update(p, [call[p] EXCEPT !.step = "write", !.seen = state[t],
                                          !.messages = history[t]])
           ELSE Raised(p)
        /\ UNCHANGED <<row, past, written, overlapped, faults>>

\* Wrong variant: the UPDATE stores the new message alone.
TransitionWriteReplacing(p) ==
    LET t == call[p].task
        c == call[p]
    IN  /\ At(p, "write")
        /\ state' = [state EXCEPT ![t] = c.new]
        /\ past' = [past EXCEPT ![t] = @ \cup {c.new}]
        /\ history' = [history EXCEPT ![t] = MessageOf(c.new)]
        /\ written' = [written EXCEPT ![t] = @ \cup MessageOf(c.new)]
        /\ IF c.new = "working" THEN Goto(p, "execute") ELSE Return(p)
        /\ UNCHANGED <<artifacts, overlapped, faults>>

\* Wrong variant: the UPDATE stores the whole row as it was read.
TransitionWriteAll(p) ==
    LET t == call[p].task
        c == call[p]
    IN  /\ At(p, "write")
        /\ state' = [state EXCEPT ![t] = c.new]
        /\ past' = [past EXCEPT ![t] = @ \cup {c.new}]
        /\ history' = [history EXCEPT ![t] = c.messages \cup MessageOf(c.new)]
        /\ artifacts' = [artifacts EXCEPT ![t] = c.results]
        /\ written' = [written EXCEPT ![t] = @ \cup MessageOf(c.new)]
        /\ IF c.new = "working" THEN Goto(p, "execute") ELSE Return(p)
        /\ UNCHANGED <<overlapped, faults>>

\* Its UPDATE writes state and history from what was read, whatever the row
\* has become.
TransitionWrite(p) ==
    LET t == call[p].task
        c == call[p]
    IN  /\ At(p, "write")
        /\ state' = [state EXCEPT ![t] = c.new]
        /\ past' = [past EXCEPT ![t] = @ \cup {c.new}]
        /\ history' = [history EXCEPT ![t] = c.messages \cup MessageOf(c.new)]
        /\ written' = [written EXCEPT ![t] = @ \cup MessageOf(c.new)]
        /\ overlapped' = IF c.seen = state[t] /\ c.messages = history[t]
                         THEN overlapped ELSE overlapped \cup {t}
        /\ IF c.new = "working" THEN Goto(p, "execute") ELSE Return(p)
        /\ UNCHANGED <<artifacts, faults>>

\* _execute_message: the tools ran; there is a result, be it an error.
Execute(p) ==
    /\ At(p, "execute")
    /\ Goto(p, "artifact_read")
    /\ UNCHANGED <<row, past, written, overlapped, faults>>

ArtifactRead(p) ==
    /\ At(p, "artifact_read")
    /\ Update(p, [call[p] EXCEPT !.step = "artifact_write",
                                 !.results = artifacts[call[p].task]])
    /\ UNCHANGED <<row, past, written, overlapped, faults>>

\* add_artifact writes the artifacts column alone; then complete_task.
ArtifactWrite(p) ==
    LET t == call[p].task
    IN  /\ At(p, "artifact_write")
        /\ artifacts' = [artifacts EXCEPT ![t] = call[p].results \cup {"result"}]
        /\ Transition(p, "completed")
        /\ UNCHANGED <<state, history, past, written, overlapped, faults>>

\* Wrong variant: an exception in the handler ends the request.
StatementRaisesUncaught(p) ==
    /\ ~At(p, "idle")
    /\ raises < MaxRaises
    /\ raises' = raises + 1
    /\ Return(p)
    /\ UNCHANGED <<row, past, written, overlapped, abandoned, crashes>>

\* A statement or the handler's own code raises, without effect.  An
\* exception in fail_task, or before the try, leaves the task as it is.
StatementRaises(p) ==
    /\ ~At(p, "idle")
    /\ raises < MaxRaises
    /\ raises' = raises + 1
    /\ Raised(p)
    /\ abandoned' = IF call[p].new \in {"working", "failed"}
                       /\ (At(p, "read") \/ At(p, "write"))
                    THEN abandoned \cup {call[p].task} ELSE abandoned
    /\ UNCHANGED <<row, past, written, overlapped, crashes>>

Crash(p) ==
    /\ ~At(p, "idle")
    /\ crashes < MaxCrashes
    /\ crashes' = crashes + 1
    /\ abandoned' = abandoned \cup {call[p].task}
    /\ Return(p)
    /\ UNCHANGED <<row, past, written, overlapped, raises>>

----------------------------------------------------------------------------
Continue(p) ==
    \/ TransitionRead(p)
    \/ TransitionWrite(p)
    \/ Execute(p)
    \/ ArtifactRead(p)
    \/ ArtifactWrite(p)

Next ==
    \E p \in Servers :
        \/ \E t \in Tasks : Send(p, t) \/ Cancel(p, t)
        \/ Continue(p)
        \/ StatementRaises(p)
        \/ Crash(p)

\* A process goes on with the request it is serving.
Fairness == \A p \in Servers : WF_vars(Continue(p))

Spec == Init /\ [][Next]_vars /\ Fairness

----------------------------------------------------------------------------
(* Properties.                                                             *)

\* "Valid transitions enforced by TaskManager" (models.py): every change of a
\* task's state is in the table, from the state it is in, or, where two
\* requests overlap, from one it was in.
ImplementsLifecycle == Lifecycle!Spec

\* handle_task_send stores the result before it completes the task, and no
\* cancellation overwrites it: a completed task has its artifact.
CompletedHasResult ==
    \A t \in Tasks : state[t] = "completed" => artifacts[t] = {"result"}

\* The history column keeps every message a transition stored, unless two
\* transitions overlapped.
HistoryKept ==
    \A t \in Tasks \ overlapped : history[t] = written[t]

\* A task that was sent ends, unless its request broke off: a cancellation
\* that overlaps the work never leaves it in between.
EventuallyTerminal ==
    \A t \in Tasks : state[t] # "none" ~> (state[t] \in Terminal \/ t \in abandoned)

\* "Terminal states - no outbound transitions" (models.py).
TerminalStays ==
    [][\A t \in Tasks : state[t] \in Terminal => state'[t] = state[t]]_vars
=============================================================================
