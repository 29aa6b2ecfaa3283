---------------------------- MODULE TaskStream ----------------------------
(***************************************************************************)
(* Delivery of tasks to workers over one Redis stream:                     *)
(* src/contextsynapse/project/task_stream.py (TaskStreamPublisher and      *)
(* TaskStreamConsumer with a Redis client).                                *)
(*                                                                         *)
(* The consumers share the group "workers".  Redis remembers the last      *)
(* entry the group was given and, for each entry given and not acknowledged*)
(* yet (pending), the consumer that has it.  A poll first takes over one   *)
(* pending entry that was idle for stale_ms (XAUTOCLAIM), and only if it   *)
(* handled none reads a new one (XREADGROUP ">").  Each Redis command is a *)
(* step, and so is the handler on_task.                                    *)
(*                                                                         *)
(* Left out: the fields of an entry other than task_id, the length of the  *)
(* dead-letter list (the last 100), and the in-memory mode used when no    *)
(* Redis client is configured.                                             *)
(***************************************************************************)
EXTENDS Naturals, FiniteSets

CONSTANTS
    Workers,       \* consumers
    Tasks,         \* task ids
    NoWorker,      \* not pending
    NoTask,        \* no entry yet
    MaxRetries,    \* max_retries
    MaxLen,        \* XADD's maxlen
    ReplyParts,    \* parts of XAUTOCLAIM's reply: 2 in Redis 6.2, 3 in Redis 7
    MaxEntries,    \* bound: entries added
    MaxFaults,     \* bound: consumers that die and are started again, and
                   \* Redis commands that raise
    MaxOvertakes   \* bound: entries claimed while their handler still runs

ASSUME NoWorkerAssumption == NoWorker \notin Workers
ASSUME WorkersAssumption == IsFiniteSet(Workers)
ASSUME NoTaskAssumption == NoTask \notin Tasks
ASSUME RetriesAssumption == MaxRetries \in Nat \ {0} /\ MaxLen \in Nat \ {0}
ASSUME ReplyAssumption == ReplyParts \in {2, 3}
ASSUME BoundsAssumption ==
    /\ MaxEntries \in Nat
    /\ MaxFaults \in Nat
    /\ MaxOvertakes \in Nat

VARIABLES
    taskOf,     \* the task of each entry ever added
    length,     \* entries added
    first,      \* the oldest entry that has not been trimmed
    lastRead,   \* last entry given to the group
    pending,    \* consumer each entry is pending for
    dead,       \* entries in the list tasks:<ns>:dead
    consumer,   \* what each consumer is doing (step, entry, stale)
    retries,    \* _retry_counts of each consumer, 0 for a task not in it
    given,      \* history: entries a consumer gave up (dead_letters)
    successes,  \* history: times on_task returned, per entry
    failures,   \* history: times handling an entry of a task failed
    overtaken,  \* history: entries claimed while their handler still ran
    broken,     \* history: entries a consumer or a command failed on
    faults      \* consumers that died and commands that raised

stream == <<taskOf, length, first, lastRead>>
history == <<given, successes, failures, overtaken, broken>>
vars == <<stream, pending, dead, consumer, retries, history, faults>>

Entries == 1..MaxEntries

\* A consumer between two polls, and the steps of handling one entry:
\*   read       XAUTOCLAIM gave nothing it could handle; XREADGROUP is next
\*   handle     on_task is running
\*   ack        on_task returned, XACK is next
\*   dead_ack   the entry is given up, XACK is next
\*   dead_push  ... and was acknowledged, LPUSH is next
\* stale: the entry came from XAUTOCLAIM.
Polling == [step |-> "poll", entry |-> 0, stale |-> FALSE]
Reading == [step |-> "read", entry |-> 0, stale |-> FALSE]
BusySteps == {"handle", "ack", "dead_ack", "dead_push"}
Consumers == {Polling, Reading} \cup
             [step : BusySteps, entry : Entries, stale : BOOLEAN]

At(w, step) == consumer[w].step = step
Entry(w) == consumer[w].entry

TypeOK ==
    /\ taskOf \in [Entries -> Tasks \cup {NoTask}]
    /\ length \in 0..MaxEntries
    /\ \A e \in 1..length : taskOf[e] \in Tasks
    /\ first \in 1..(length + 1)
    /\ lastRead \in 0..length
    /\ pending \in [Entries -> Workers \cup {NoWorker}]
    /\ dead \in SUBSET Entries
    /\ consumer \in [Workers -> Consumers]
    /\ \A w \in Workers : Entry(w) <= lastRead
    /\ \A e \in Entries : pending[e] # NoWorker => e <= lastRead
    /\ retries \in [Workers -> [Tasks -> Nat]]
    /\ given \in SUBSET Entries
    /\ successes \in [Entries -> Nat]
    /\ failures \in [Tasks -> Nat]
    /\ overtaken \in SUBSET Entries
    /\ broken \in SUBSET Entries
    /\ faults \in 0..MaxFaults

Init ==
    /\ taskOf = [e \in Entries |-> NoTask]
    /\ length = 0
    /\ first = 1
    /\ lastRead = 0
    /\ pending = [e \in Entries |-> NoWorker]
    /\ dead = {}
    /\ consumer = [w \in Workers |-> Polling]
    /\ retries = [w \in Workers |-> [t \in Tasks |-> 0]]
    /\ given = {}
    /\ successes = [e \in Entries |-> 0]
    /\ failures = [t \in Tasks |-> 0]
    /\ overtaken = {}
    /\ broken = {}
    /\ faults = 0

----------------------------------------------------------------------------
(* publish: XADD with an approximate maxlen, which may drop the oldest     *)
(* entries beyond MaxLen, read or not.                                     *)

Publish(t) ==
    /\ length < MaxEntries
    /\ length' = length + 1
    /\ taskOf' = [taskOf EXCEPT ![length + 1] = t]
    /\ first' \in {f \in first..(length + 1) : f = first \/ f + MaxLen <= length + 2}
    /\ UNCHANGED <<lastRead, pending, dead, consumer, retries, history, faults>>

----------------------------------------------------------------------------
(* _poll_redis.                                                            *)

Goto(w, step) == consumer' = [consumer EXCEPT ![w].step = step]

Return(w) == consumer' = [consumer EXCEPT ![w] = Polling]

Handle(w, e, s) ==
    consumer' = [consumer EXCEPT ![w] = [step |-> "handle", entry |-> e, stale |-> s]]

\* Wrong variant: unpacks the reply the wrong way.
HandleableNever(e) == FALSE

\* "_, stale = xautoclaim(...)" raises on a reply of three parts, and a
\* trimmed entry has no fields to decode: "except Exception: pass".
Handleable(e) == ReplyParts = 2 /\ first <= e

BeingHandled(e) == \E v \in Workers : Entry(v) = e

\* Wrong variant: min_idle_time is zero.
ClaimStaleAtOnce(w, e) ==
    /\ At(w, "poll")
    /\ pending[e] # NoWorker
    /\ pending' = [pending EXCEPT ![e] = w]
    /\ Handle(w, e, TRUE)
    /\ UNCHANGED <<stream, dead, retries, history, faults>>

\* XAUTOCLAIM makes a pending entry the consumer's own, whatever becomes of
\* the reply.  The idle time of a failed entry passes stale_ms; that of an
\* entry being handled does when the handler is slow.
ClaimStale(w, e) ==
    /\ At(w, "poll")
    /\ pending[e] # NoWorker
    /\ BeingHandled(e) => Cardinality(overtaken) < MaxOvertakes
    /\ overtaken' = IF BeingHandled(e) THEN overtaken \cup {e} ELSE overtaken
    /\ pending' = [pending EXCEPT ![e] = w]
    /\ IF Handleable(e)
       THEN Handle(w, e, TRUE)
       ELSE consumer' = [consumer EXCEPT ![w] = Reading]
    /\ UNCHANGED <<stream, dead, retries, given, successes, failures, broken,
                   faults>>

\* The oldest entry the group was not given yet.
NextUnread == IF lastRead < first THEN first ELSE lastRead + 1

\* Wrong variant: reads one entry past the end.
ReadNewPastEnd(w) ==
    LET e == NextUnread
    IN  /\ At(w, "poll") \/ At(w, "read")
        /\ e <= length + 1
        /\ e \in Entries
        /\ lastRead' = e
        /\ pending' = [pending EXCEPT ![e] = w]
        /\ Handle(w, e, FALSE)
        /\ UNCHANGED <<taskOf, length, first, dead, retries, history, faults>>

ReadNew(w) ==
    LET e == NextUnread
    IN  /\ At(w, "poll") \/ At(w, "read")
        /\ e <= length
        /\ lastRead' = e
        /\ pending' = [pending EXCEPT ![e] = w]
        /\ Handle(w, e, FALSE)
        /\ UNCHANGED <<taskOf, length, first, dead, retries, history, faults>>

\* block_ms passed and there was none.
ReadNothing(w) ==
    /\ At(w, "read")
    /\ NextUnread > length
    /\ Return(w)
    /\ UNCHANGED <<stream, pending, dead, retries, history, faults>>

----------------------------------------------------------------------------
(* _handle_message.                                                        *)

Forget(w, e) == retries' = [retries EXCEPT ![w][taskOf[e]] = 0]

Unpend(e) == pending' = [pending EXCEPT ![e] = NoWorker]

HandlerReturns(w) ==
    /\ At(w, "handle")
    /\ successes' = [successes EXCEPT ![Entry(w)] = @ + 1]
    /\ Goto(w, "ack")
    /\ UNCHANGED <<stream, pending, dead, retries, given, failures, overtaken, broken,
                   faults>>

\* Wrong variant: gives up one failure early.
FailedEarly(w) ==
    LET e == Entry(w)
        count == retries[w][taskOf[e]] + 1
    IN  /\ retries' = [retries EXCEPT ![w][taskOf[e]] = count]
        /\ failures' = [failures EXCEPT ![taskOf[e]] = @ + 1]
        /\ IF count + 1 >= MaxRetries
           THEN given' = given \cup {e} /\ Goto(w, "dead_ack")
           ELSE Return(w) /\ UNCHANGED given

\* Wrong variant: does not count the failures of a claimed entry.
FailedUncounted(w) ==
    LET e == Entry(w)
        count == retries[w][taskOf[e]] + 1
    IN  /\ retries' = IF consumer[w].stale THEN retries
                      ELSE [retries EXCEPT ![w][taskOf[e]] = count]
        /\ failures' = [failures EXCEPT ![taskOf[e]] = @ + 1]
        /\ IF count >= MaxRetries
           THEN given' = given \cup {e} /\ Goto(w, "dead_ack")
           ELSE Return(w) /\ UNCHANGED given

\* The except branch: this consumer's count for the task grows; the entry
\* stays pending until the count reaches MaxRetries.
Failed(w) ==
    LET e == Entry(w)
        count == retries[w][taskOf[e]] + 1
    IN  /\ retries' = [retries EXCEPT ![w][taskOf[e]] = count]
        /\ failures' = [failures EXCEPT ![taskOf[e]] = @ + 1]
        /\ IF count >= MaxRetries
           THEN given' = given \cup {e} /\ Goto(w, "dead_ack")
           ELSE Return(w) /\ UNCHANGED given

\* Wrong variant: acknowledges the entry before it is known to be handled.
HandlerRaisesAcked(w) ==
    /\ At(w, "handle")
    /\ Failed(w)
    /\ Unpend(Entry(w))
    /\ UNCHANGED <<stream, dead, successes, overtaken, broken, faults>>

HandlerRaises(w) ==
    /\ At(w, "handle")
    /\ Failed(w)
    /\ UNCHANGED <<stream, pending, dead, successes, overtaken, broken, faults>>

\* Wrong variant: leaves the entry pending.
AckMissing(w) ==
    /\ At(w, "ack")
    /\ Forget(w, Entry(w))
    /\ Return(w)
    /\ UNCHANGED <<stream, pending, dead, history, faults>>

\* XACK does not ask who the entry is pending for.
Ack(w) ==
    /\ At(w, "ack")
    /\ Unpend(Entry(w))
    /\ Forget(w, Entry(w))
    /\ Return(w)
    /\ UNCHANGED <<stream, dead, history, faults>>

DeadAck(w) ==
    /\ At(w, "dead_ack")
    /\ Unpend(Entry(w))
    /\ Goto(w, "dead_push")
    /\ UNCHANGED <<stream, dead, retries, history, faults>>

DeadPush(w) ==
    /\ At(w, "dead_push")
    /\ dead' = dead \cup {Entry(w)}
    /\ Forget(w, Entry(w))
    /\ Return(w)
    /\ UNCHANGED <<stream, pending, history, faults>>

----------------------------------------------------------------------------
(* A Redis command raises: the connection broke before or after the server *)
(* carried it out.                                                         *)

RedisError(e) ==
    /\ faults < MaxFaults
    /\ faults' = faults + 1
    /\ broken' = broken \cup {e}

PerhapsUnpend(e) == Unpend(e) \/ UNCHANGED pending

\* The idle entry was made this consumer's, and the reply never came.
ClaimStaleRaises(w, e) ==
    /\ At(w, "poll")
    /\ pending[e] # NoWorker
    /\ ~BeingHandled(e)
    /\ RedisError(e)
    /\ pending' = [pending EXCEPT ![e] = w]
    /\ consumer' = [consumer EXCEPT ![w] = Reading]
    /\ UNCHANGED <<stream, dead, retries, given, successes, failures, overtaken>>

ReadNewRaises(w) ==
    LET e == NextUnread
    IN  /\ At(w, "poll") \/ At(w, "read")
        /\ e <= length
        /\ RedisError(e)
        /\ lastRead' = e
        /\ pending' = [pending EXCEPT ![e] = w]
        /\ Return(w)
        /\ UNCHANGED <<taskOf, length, first, dead, retries, given, successes,
                       failures, overtaken>>

\* XACK is inside the try: handled or not, the entry counts as failed.
AckRaises(w) ==
    /\ At(w, "ack")
    /\ RedisError(Entry(w))
    /\ PerhapsUnpend(Entry(w))
    /\ Failed(w)
    /\ UNCHANGED <<stream, dead, successes, overtaken>>

\* This XACK is not: the exception leaves _handle_message, and in the loop
\* over stale entries _poll_redis swallows it and goes on to XREADGROUP.
DeadAckRaises(w) ==
    /\ At(w, "dead_ack")
    /\ RedisError(Entry(w))
    /\ PerhapsUnpend(Entry(w))
    /\ consumer' = [consumer EXCEPT ![w] =
                      IF consumer[w].stale THEN Reading ELSE Polling]
    /\ UNCHANGED <<stream, dead, retries, given, successes, failures, overtaken>>

DeadPushRaises(w) ==
    /\ At(w, "dead_push")
    /\ RedisError(Entry(w))
    /\ \/ dead' = dead \cup {Entry(w)}
       \/ UNCHANGED dead
    /\ Forget(w, Entry(w))
    /\ Return(w)
    /\ UNCHANGED <<stream, pending, given, successes, failures, overtaken>>

\* The consumer dies, and its counts and its dead_letters with it.
Crash(w) ==
    /\ faults < MaxFaults
    /\ faults' = faults + 1
    /\ consumer' = [consumer EXCEPT ![w] = Polling]
    /\ retries' = [retries EXCEPT ![w] = [t \in Tasks |-> 0]]
    /\ broken' = broken \cup ({Entry(w)} \cap Entries)
    /\ UNCHANGED <<stream, pending, dead, given, successes, failures, overtaken>>

----------------------------------------------------------------------------
\* One step of a poll.
Poll(w) ==
    \/ \E e \in Entries : ClaimStale(w, e)
    \/ ReadNew(w)
    \/ ReadNothing(w)
    \/ HandlerReturns(w)
    \/ HandlerRaises(w)
    \/ Ack(w)
    \/ DeadAck(w)
    \/ DeadPush(w)

Raise(w) ==
    \/ \E e \in Entries : ClaimStaleRaises(w, e)
    \/ ReadNewRaises(w)
    \/ AckRaises(w)
    \/ DeadAckRaises(w)
    \/ DeadPushRaises(w)

Next ==
    \/ \E t \in Tasks : Publish(t)
    \/ \E w \in Workers : Poll(w) \/ Raise(w) \/ Crash(w)

\* Every consumer polls again and again (_stream_loop, start), and its
\* handler ends.  An entry that was just claimed is not idle, so XAUTOCLAIM
\* comes to every pending entry in turn.
Fairness ==
    /\ \A w \in Workers : WF_vars(Poll(w))
    /\ \A e \in Entries : SF_vars(\E w \in Workers : ClaimStale(w, e))

Spec == Init /\ [][Next]_vars /\ Fairness

----------------------------------------------------------------------------
(* Properties.                                                             *)

\* XAUTOCLAIM's min_idle_time keeps consumers apart: two of them are busy
\* with one entry only if it was claimed from a handler slower than stale_ms.
HandlingExclusive ==
    \A e \in Entries \ overtaken : \A v, w \in Workers :
        Entry(v) = e /\ Entry(w) = e => v = w

\* "exactly-once delivery": on_task completes at most once for an entry, and
\* never for one that is given up, unless its handler was overtaken, or an
\* XACK or the consumer failed.
OnceUndisturbed ==
    \A e \in Entries \ (overtaken \cup broken) :
        /\ successes[e] <= 1
        /\ e \in given => successes[e] = 0

\* The entry was given to the group and is not pending any more.
Settled(e) == e <= lastRead /\ first <= e /\ pending[e] = NoWorker

\* An entry leaves the pending list for a reason: it was handled, or it is in
\* the dead-letter list or about to be, unless Redis or the consumer failed.
SettledAccounted ==
    \A e \in Entries \ broken :
        Settled(e) => \/ successes[e] > 0
                      \/ e \in dead
                      \/ \E w \in Workers : At(w, "dead_push") /\ Entry(w) = e

\* max_retries: a consumer gives an entry up only after its task failed that
\* often (the failures of other entries of the same task included).
DeadLetterEarned ==
    \A e \in given : failures[taskOf[e]] >= MaxRetries

\* Every consumer counts for itself, so an entry is tried more often than
\* max_retries, but never more than this, as long as nothing else goes wrong.
AttemptsBounded ==
    \A t \in Tasks :
        /\ faults = 0
        /\ overtaken = {}
        /\ Cardinality({e \in Entries : taskOf[e] = t}) = 1
        => failures[t] <= Cardinality(Workers) * (MaxRetries - 1) + 1

\* Every entry is settled in the end, or trimmed: faults and failing
\* handlers leave no entry pending for ever.
EventuallySettled ==
    \A e \in Entries : e <= length ~> (Settled(e) \/ e < first)
=============================================================================
