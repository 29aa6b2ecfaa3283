---------------------------- MODULE A2ALifecycle ---------------------------
(***************************************************************************)
(* What an A2A task promises its readers when several server processes     *)
(* serve it.  The table VALID_TRANSITIONS (a2a/models.py) is followed, from*)
(* the state the task is in or, when two processes work on it at a time,   *)
(* from a state it was in: a process checks the table against the row it   *)
(* read.                                                                   *)
(***************************************************************************)

CONSTANTS Tasks

VARIABLES
    state,      \* state of each task, "none" before it is created
    past,       \* states each task has been in
    overlapped  \* tasks two processes worked on at a time

vars == <<state, past, overlapped>>

States == {"submitted", "working", "input-required", "completed", "failed", "canceled"}

Terminal == {"completed", "failed", "canceled"}

ValidTransitions ==
    [s \in States |->
       CASE s = "submitted" -> {"working", "canceled"}
         [] s = "working" -> {"completed", "failed", "input-required", "canceled"}
         [] s = "input-required" -> {"working", "canceled"}
         [] OTHER -> {}]

Init ==
    /\ state = [t \in Tasks |-> "none"]
    /\ past = [t \in Tasks |-> {}]
    /\ overlapped = {}

Enter(t, s) ==
    /\ state' = [state EXCEPT ![t] = s]
    /\ past' = [past EXCEPT ![t] = @ \cup {s}]

Submit(t) ==
    /\ state[t] = "none"
    /\ Enter(t, "submitted")
    /\ UNCHANGED overlapped

Move(t) ==
    /\ state[t] # "none"
    /\ \E new \in ValidTransitions[state[t]] : Enter(t, new)
    /\ UNCHANGED overlapped

Overtake(t) ==
    /\ \E s \in past[t] : \E new \in ValidTransitions[s] : Enter(t, new)
    /\ overlapped' = overlapped \cup {t}

Next == \E t \in Tasks : Submit(t) \/ Move(t) \/ Overtake(t)

Spec == Init /\ [][Next]_vars
=============================================================================
