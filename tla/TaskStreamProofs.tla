--------------------------- MODULE TaskStreamProofs ---------------------------
(***************************************************************************)
(* Proofs about TaskStream, for any consumers, tasks, entries and faults:  *)
(* consumers are kept apart, no entry vanishes without a reason, none is   *)
(* tried more often than the consumers' counts allow, and one that         *)
(* XAUTOCLAIM's reply hides is never tried again.                          *)
(***************************************************************************)
EXTENDS TaskStream, FiniteSetTheorems, TLAPS

USE NoWorkerAssumption, NoTaskAssumption, RetriesAssumption, ReplyAssumption, BoundsAssumption

----------------------------------------------------------------------------
(* What a consumer is doing.                                               *)

\* A busy consumer has an entry that was given to the group; another has none.
LEMMA BusyEntry ==
    ASSUME TypeOK, NEW w \in Workers
    PROVE  /\ consumer[w].step \in BusySteps \cup {"poll", "read"}
           /\ consumer[w].step \in BusySteps =>
                /\ consumer[w] \in [step : BusySteps, entry : Entries, stale : BOOLEAN]
                /\ Entry(w) \in Entries
                /\ Entry(w) \in 1..length
                /\ Entry(w) <= lastRead
                /\ taskOf[Entry(w)] \in Tasks
           /\ consumer[w].step \notin BusySteps => Entry(w) = 0
<1>1. consumer[w] \in Consumers /\ Entry(w) <= lastRead /\ lastRead \in 0..length
      /\ length \in 0..MaxEntries /\ \A e \in 1..length : taskOf[e] \in Tasks
    BY DEF TypeOK
<1>2. CASE consumer[w] \in {Polling, Reading}
    BY <1>2 DEF Polling, Reading, BusySteps, Entry
<1>3. CASE consumer[w] \in [step : BusySteps, entry : Entries, stale : BOOLEAN]
  <2>1. /\ consumer[w].step \in BusySteps
        /\ Entry(w) \in Entries
    BY <1>3 DEF Entry
  <2>2. Entry(w) \in 1..length
    BY <1>1, <2>1 DEF Entries
  <2> QED
    BY <1>1, <1>3, <2>1, <2>2 DEF BusySteps
<1> QED
    BY <1>1, <1>2, <1>3 DEF Consumers

\* No entry is the number 0.
LEMMA EntriesAreNumbers == Entries \subseteq Nat /\ 0 \notin Entries
BY DEF Entries

\* Goto changes the consumer's step only.
LEMMA GotoEffect ==
    ASSUME TypeOK, NEW w \in Workers, NEW step \in BusySteps,
           consumer[w].step \in BusySteps, Goto(w, step)
    PROVE  /\ consumer' \in [Workers -> Consumers]
           /\ consumer'[w].step = step
           /\ consumer'[w].entry = consumer[w].entry
           /\ \A v \in Workers \ {w} : consumer'[v] = consumer[v]
<1>1. consumer[w] \in [step : BusySteps, entry : Entries, stale : BOOLEAN]
    BY BusyEntry
<1> DEFINE new == [consumer[w] EXCEPT !.step = step]
<1>2. /\ new \in [step : BusySteps, entry : Entries, stale : BOOLEAN]
      /\ new.step = step
      /\ new.entry = consumer[w].entry
    BY <1>1
<1>3. consumer' = [consumer EXCEPT ![w] = new]
    BY DEF Goto
<1> HIDE DEF new
<1>4. consumer \in [Workers -> Consumers]
    BY DEF TypeOK
<1>5. new \in Consumers
    BY <1>2 DEF Consumers
<1> QED
    BY <1>2, <1>3, <1>4, <1>5

\* Return ends the poll.
LEMMA ReturnEffect ==
    ASSUME TypeOK, NEW w \in Workers, Return(w)
    PROVE  /\ consumer' \in [Workers -> Consumers]
           /\ consumer'[w].step = "poll"
           /\ consumer'[w].entry = 0
           /\ \A v \in Workers \ {w} : consumer'[v] = consumer[v]
BY DEF TypeOK, Return, Polling, Consumers

\* Handle takes up an entry.
LEMMA HandleEffect ==
    ASSUME TypeOK, NEW w \in Workers, NEW e \in Entries, NEW s \in BOOLEAN, Handle(w, e, s)
    PROVE  /\ consumer' \in [Workers -> Consumers]
           /\ consumer'[w].step = "handle"
           /\ consumer'[w].entry = e
           /\ \A v \in Workers \ {w} : consumer'[v] = consumer[v]
<1> DEFINE new == [step |-> "handle", entry |-> e, stale |-> s]
<1>1. new \in Consumers /\ new.step = "handle" /\ new.entry = e
    BY DEF Consumers, BusySteps
<1>2. consumer' = [consumer EXCEPT ![w] = new]
    BY DEF Handle
<1> HIDE DEF new
<1> QED
    BY <1>1, <1>2 DEF TypeOK

\* A step of one consumer: what the others do stays, and it goes on to where
\* the step says, with its entry, a new one or none.
Moves(w, steps, e) ==
    /\ consumer' \in [Workers -> Consumers]
    /\ \A v \in Workers \ {w} : consumer'[v] = consumer[v]
    /\ \/ consumer'[w].step \in steps /\ consumer'[w].entry = e
       \/ consumer'[w].step \in {"poll", "read"} /\ consumer'[w].entry = 0

\* A failure counts, and either ends the poll or gives the entry up.
LEMMA FailedEffect ==
    ASSUME TypeOK, NEW w \in Workers, consumer[w].step \in BusySteps, Failed(w)
    PROVE  /\ Moves(w, {"dead_ack"}, Entry(w))
           /\ given' \in {given, given \cup {Entry(w)}}
           /\ consumer'[w].step = "poll" => given' = given
           /\ retries' = [retries EXCEPT ![w][taskOf[Entry(w)]] =
                            retries[w][taskOf[Entry(w)]] + 1]
           /\ failures' = [failures EXCEPT ![taskOf[Entry(w)]] = @ + 1]
           /\ given' # given => retries[w][taskOf[Entry(w)]] + 1 >= MaxRetries
<1> DEFINE count == retries[w][taskOf[Entry(w)]] + 1
<1>1. /\ retries' = [retries EXCEPT ![w][taskOf[Entry(w)]] = count]
      /\ failures' = [failures EXCEPT ![taskOf[Entry(w)]] = @ + 1]
      /\ \/ count >= MaxRetries /\ given' = given \cup {Entry(w)} /\ Goto(w, "dead_ack")
         \/ Return(w) /\ given' = given
    BY DEF Failed
<1>2. CASE count >= MaxRetries /\ given' = given \cup {Entry(w)} /\ Goto(w, "dead_ack")
  <2>1. "dead_ack" \in BusySteps
    BY DEF BusySteps
  <2>2. /\ consumer' \in [Workers -> Consumers]
        /\ consumer'[w].step = "dead_ack"
        /\ consumer'[w].entry = consumer[w].entry
        /\ \A v \in Workers \ {w} : consumer'[v] = consumer[v]
    BY <1>2, <2>1, GotoEffect
  <2> QED
    BY <1>1, <1>2, <2>2 DEF Moves, Entry
<1>3. CASE Return(w) /\ given' = given
    BY <1>1, <1>3, ReturnEffect DEF Moves
<1> QED
    BY <1>1, <1>2, <1>3

\* Where each step of a consumer takes it.
LEMMA PollMoves ==
    ASSUME TypeOK, NEW w \in Workers
    PROVE  /\ \A e \in Entries : ClaimStale(w, e) => Moves(w, {"handle"}, e)
           /\ \A e \in Entries : ClaimStaleRaises(w, e) => Moves(w, {}, 0)
           /\ ReadNew(w) => NextUnread \in Entries /\ Moves(w, {"handle"}, NextUnread)
           /\ ReadNewRaises(w) => NextUnread \in Entries /\ Moves(w, {}, 0)
           /\ ReadNothing(w) => Moves(w, {}, 0)
           /\ HandlerReturns(w) => Moves(w, {"ack"}, Entry(w))
           /\ HandlerRaises(w) => Moves(w, {"dead_ack"}, Entry(w))
           /\ Ack(w) => Moves(w, {}, 0)
           /\ AckRaises(w) => Moves(w, {"dead_ack"}, Entry(w))
           /\ DeadAck(w) => Moves(w, {"dead_push"}, Entry(w))
           /\ DeadAckRaises(w) => Moves(w, {}, 0)
           /\ DeadPush(w) => Moves(w, {}, 0)
           /\ DeadPushRaises(w) => Moves(w, {}, 0)
           /\ Crash(w) => Moves(w, {}, 0)
<1>1. ASSUME NEW e \in Entries, ClaimStale(w, e) PROVE Moves(w, {"handle"}, e)
  <2>1. CASE Handleable(e)
    <3>1. Handle(w, e, TRUE)
      BY <1>1, <2>1 DEF ClaimStale
    <3> QED
      BY <3>1, HandleEffect DEF Moves
  <2>2. CASE ~Handleable(e)
    <3>1. consumer' = [consumer EXCEPT ![w] = Reading]
      BY <1>1, <2>2 DEF ClaimStale
    <3> QED
      BY <3>1 DEF Moves, TypeOK, Reading, Consumers
  <2> QED
    BY <2>1, <2>2
<1>2. ASSUME NEW e \in Entries, ClaimStaleRaises(w, e) PROVE Moves(w, {}, 0)
    BY <1>2 DEF ClaimStaleRaises, Moves, TypeOK, Reading, Consumers
<1>3. NextUnread <= length => NextUnread \in Entries
    BY DEF NextUnread, TypeOK, Entries
<1>4. ASSUME ReadNew(w) PROVE NextUnread \in Entries /\ Moves(w, {"handle"}, NextUnread)
  <2>1. NextUnread \in Entries /\ Handle(w, NextUnread, FALSE)
    BY <1>3, <1>4 DEF ReadNew
  <2> QED
    BY <2>1, HandleEffect DEF Moves
<1>5. ReadNewRaises(w) => NextUnread \in Entries /\ Moves(w, {}, 0)
    BY <1>3, ReturnEffect DEF ReadNewRaises, Moves
<1>6. ReadNothing(w) => Moves(w, {}, 0)
    BY ReturnEffect DEF ReadNothing, Moves
<1>7. HandlerReturns(w) => Moves(w, {"ack"}, Entry(w))
    BY GotoEffect DEF HandlerReturns, At, BusySteps, Moves, Entry
<1>8. HandlerRaises(w) => Moves(w, {"dead_ack"}, Entry(w))
    BY FailedEffect DEF HandlerRaises, At, BusySteps
<1>9. Ack(w) => Moves(w, {}, 0)
    BY ReturnEffect DEF Ack, Moves
<1>10. AckRaises(w) => Moves(w, {"dead_ack"}, Entry(w))
    BY FailedEffect DEF AckRaises, At, BusySteps
<1>11. DeadAck(w) => Moves(w, {"dead_push"}, Entry(w))
    BY GotoEffect DEF DeadAck, At, BusySteps, Moves, Entry
<1>12. DeadAckRaises(w) => Moves(w, {}, 0)
    BY DEF DeadAckRaises, Moves, TypeOK, Reading, Polling, Consumers
<1>13. DeadPush(w) => Moves(w, {}, 0)
    BY ReturnEffect DEF DeadPush, Moves
<1>14. DeadPushRaises(w) => Moves(w, {}, 0)
    BY ReturnEffect DEF DeadPushRaises, Moves
<1>15. Crash(w) => Moves(w, {}, 0)
    BY DEF Crash, Moves, TypeOK, Polling, Consumers
<1> QED
    BY <1>1, <1>2, <1>4, <1>5, <1>6, <1>7, <1>8, <1>9, <1>10, <1>11, <1>12, <1>13,
       <1>14, <1>15

----------------------------------------------------------------------------
(* Types.                                                                  *)

\* Nothing is in the stream at first.
LEMMA TypeInit == Init => TypeOK
BY DEF Init, TypeOK, Entries, Consumers, Polling, Entry

\* Consumers stay within what the group was given.
LEMMA MoveTyped ==
    ASSUME TypeOK, NEW w \in Workers, NEW steps, NEW e, Moves(w, steps, e),
           lastRead \in Nat, lastRead' \in Nat, lastRead <= lastRead', e \in Nat, e <= lastRead'
    PROVE  /\ consumer' \in [Workers -> Consumers]
           /\ \A v \in Workers : Entry(v)' <= lastRead'
<1>1. ASSUME NEW v \in Workers PROVE Entry(v)' <= lastRead'
  <2>1. Entry(v) \in Nat /\ Entry(v) <= lastRead
    BY BusyEntry, EntriesAreNumbers DEF TypeOK
  <2>2. CASE v = w
    BY <2>2 DEF Moves, Entry
  <2>3. CASE v # w
    BY <2>1, <2>3 DEF Moves, Entry
  <2> QED
    BY <2>2, <2>3
<1> QED
    BY <1>1 DEF Moves

\* A handled entry's counters are numbers.
LEMMA CountersTyped ==
    ASSUME TypeOK, NEW w \in Workers
    PROVE  /\ Forget(w, Entry(w)) /\ Entry(w) \in Entries => retries' \in [Workers -> [Tasks -> Nat]]
           /\ consumer[w].step \in BusySteps /\ Failed(w) =>
                /\ retries' \in [Workers -> [Tasks -> Nat]]
                /\ failures' \in [Tasks -> Nat]
                /\ given' \in SUBSET Entries
<1>1. ASSUME Forget(w, Entry(w)) PROVE retries' \in [Workers -> [Tasks -> Nat]]
    BY <1>1 DEF Forget, TypeOK
<1>2. ASSUME consumer[w].step \in BusySteps, Failed(w)
      PROVE  /\ retries' \in [Workers -> [Tasks -> Nat]]
             /\ failures' \in [Tasks -> Nat]
             /\ given' \in SUBSET Entries
  <2> DEFINE t == taskOf[Entry(w)]
             count == retries[w][t] + 1
  <2>1. t \in Tasks /\ Entry(w) \in Entries
    BY <1>2, BusyEntry
  <2>2. /\ retries' = [retries EXCEPT ![w][t] = count]
        /\ failures' = [failures EXCEPT ![t] = @ + 1]
        /\ given' \in {given, given \cup {Entry(w)}}
    BY <1>2, FailedEffect
  <2>3. count \in Nat
    BY <2>1 DEF TypeOK
  <2>4. given' \in SUBSET Entries
    BY <2>1, <2>2 DEF TypeOK
  <2> HIDE DEF t, count
  <2> QED
    BY <2>1, <2>2, <2>3, <2>4 DEF TypeOK
<1> QED
    BY <1>1, <1>2

\* The group was given a number of entries.
LEMMA LastReadTyped == TypeOK => lastRead \in Nat
<1> SUFFICES ASSUME TypeOK PROVE lastRead \in Nat
    OBVIOUS
<1>1. length \in 0..MaxEntries /\ lastRead \in 0..length
    BY DEF TypeOK
<1> QED
    BY <1>1

\* A command that raises is counted.
LEMMA FaultTyped ==
    ASSUME TypeOK, faults < MaxFaults, faults' = faults + 1
    PROVE  faults' \in 0..MaxFaults
<1>1. faults \in 0..MaxFaults
    BY DEF TypeOK
<1> QED
    BY <1>1

\* Every action keeps the types.
LEMMA TypeStep == TypeOK /\ [Next]_vars => TypeOK'
<1> SUFFICES ASSUME TypeOK, [Next]_vars
             PROVE  TypeOK'
    OBVIOUS
<1> USE DEF history, stream
<1>1. ASSUME NEW t \in Tasks, Publish(t) PROVE TypeOK'
    BY <1>1 DEF TypeOK, Publish, Entries, Entry
<1>2. ASSUME NEW w \in Workers, NEW e \in Entries, ClaimStale(w, e) \/ ClaimStaleRaises(w, e)
      PROVE  TypeOK'
  <2>1. e <= lastRead /\ e \in Nat
    BY <1>2, EntriesAreNumbers DEF ClaimStale, ClaimStaleRaises, TypeOK
  <2>2. /\ UNCHANGED <<stream, dead, retries, given, successes, failures>>
        /\ pending' = [pending EXCEPT ![e] = w]
        /\ overtaken' \in SUBSET Entries
        /\ broken' \in SUBSET Entries
    BY <1>2 DEF ClaimStale, ClaimStaleRaises, RedisError, TypeOK
  <2>3. faults' \in 0..MaxFaults
    <3>1. faults' = faults \/ (faults < MaxFaults /\ faults' = faults + 1)
      BY <1>2 DEF ClaimStale, ClaimStaleRaises, RedisError
    <3> QED
      BY <3>1, FaultTyped DEF TypeOK
  <2>4. Moves(w, {"handle"}, e) \/ Moves(w, {}, 0)
    BY <1>2, PollMoves
  <2>5. /\ consumer' \in [Workers -> Consumers]
        /\ \A v \in Workers : Entry(v)' <= lastRead'
    <3>1. lastRead \in Nat /\ lastRead' \in Nat /\ lastRead <= lastRead' /\ e <= lastRead' /\ 0 <= lastRead'
      BY <2>1, <2>2, LastReadTyped
    <3> QED
      BY <2>1, <2>4, <3>1, MoveTyped
  <2> QED
    BY <2>1, <2>2, <2>3, <2>5 DEF TypeOK
<1>3. ASSUME NEW w \in Workers, ReadNew(w) \/ ReadNewRaises(w) PROVE TypeOK'
  <2>1. /\ NextUnread <= length
        /\ lastRead' = NextUnread
        /\ pending' = [pending EXCEPT ![NextUnread] = w]
    BY <1>3 DEF ReadNew, ReadNewRaises
  <2>2. /\ NextUnread \in 1..length
        /\ lastRead <= NextUnread
    BY <2>1 DEF NextUnread, TypeOK
  <2>3. NextUnread \in Entries
    BY <1>3, PollMoves
  <2>4. /\ consumer' \in [Workers -> Consumers]
        /\ \A v \in Workers : Entry(v)' <= lastRead'
    <3>1. \E steps, e : Moves(w, steps, e) /\ e \in {0, NextUnread}
      BY <1>3, PollMoves
    <3> QED
      BY <2>1, <2>2, <3>1, MoveTyped DEF TypeOK
  <2>5. UNCHANGED <<taskOf, length, first, dead, retries, given, successes, failures, overtaken>>
    BY <1>3 DEF ReadNew, ReadNewRaises
  <2>6. broken' \in SUBSET Entries
    BY <1>3, <2>3 DEF ReadNew, ReadNewRaises, RedisError, TypeOK
  <2>7. faults' \in 0..MaxFaults
    <3>1. faults' = faults \/ (faults < MaxFaults /\ faults' = faults + 1)
      BY <1>3 DEF ReadNew, ReadNewRaises, RedisError
    <3> QED
      BY <3>1, FaultTyped DEF TypeOK
  <2> HIDE DEF NextUnread
  <2> QED
    BY <2>1, <2>2, <2>3, <2>4, <2>5, <2>6, <2>7 DEF TypeOK
<1>4. ASSUME NEW w \in Workers, ReadNothing(w) PROVE TypeOK'
    BY <1>4, PollMoves, MoveTyped DEF ReadNothing, TypeOK
<1>5. ASSUME NEW w \in Workers,
             HandlerReturns(w) \/ HandlerRaises(w) \/ AckRaises(w)
      PROVE  TypeOK'
  <2>1. /\ consumer[w].step \in BusySteps
        /\ Entry(w) \in Entries
        /\ Entry(w) \in Nat
        /\ Entry(w) <= lastRead
    BY <1>5, BusyEntry, EntriesAreNumbers DEF HandlerReturns, HandlerRaises, AckRaises, At, BusySteps
  <2>2. UNCHANGED <<taskOf, length, first, lastRead, dead, overtaken>>
    BY <1>5 DEF HandlerReturns, HandlerRaises, AckRaises
  <2>3. /\ consumer' \in [Workers -> Consumers]
        /\ \A v \in Workers : Entry(v)' <= lastRead'
    BY <1>5, <2>1, <2>2, PollMoves, MoveTyped DEF TypeOK
  <2>4. /\ retries' \in [Workers -> [Tasks -> Nat]]
        /\ failures' \in [Tasks -> Nat]
        /\ given' \in SUBSET Entries
    BY <1>5, <2>1, CountersTyped DEF HandlerReturns, HandlerRaises, AckRaises, TypeOK
  <2>5. /\ pending' \in [Entries -> Workers \cup {NoWorker}]
        /\ \A e \in Entries : pending'[e] # NoWorker => e <= lastRead
        /\ successes' \in [Entries -> Nat]
        /\ broken' \in SUBSET Entries
        /\ faults' \in 0..MaxFaults
    BY <1>5, <2>1 DEF HandlerReturns, HandlerRaises, AckRaises, PerhapsUnpend, Unpend, RedisError, TypeOK
  <2> QED
    BY <2>2, <2>3, <2>4, <2>5 DEF TypeOK
<1>6. ASSUME NEW w \in Workers,
             Ack(w) \/ DeadAck(w) \/ DeadAckRaises(w) \/ DeadPush(w) \/ DeadPushRaises(w)
      PROVE  TypeOK'
  <2>1. /\ Entry(w) \in Entries
        /\ Entry(w) \in Nat
        /\ Entry(w) <= lastRead
    BY <1>6, BusyEntry, EntriesAreNumbers
       DEF Ack, DeadAck, DeadAckRaises, DeadPush, DeadPushRaises, At, BusySteps
  <2>2. UNCHANGED <<taskOf, length, first, lastRead, given, successes, failures, overtaken>>
    BY <1>6 DEF Ack, DeadAck, DeadAckRaises, DeadPush, DeadPushRaises
  <2>3. /\ consumer' \in [Workers -> Consumers]
        /\ \A v \in Workers : Entry(v)' <= lastRead'
    BY <1>6, <2>1, <2>2, PollMoves, MoveTyped DEF TypeOK
  <2>4. retries' \in [Workers -> [Tasks -> Nat]]
    BY <1>6, <2>1, CountersTyped DEF Ack, DeadAck, DeadAckRaises, DeadPush, DeadPushRaises, TypeOK
  <2>5. /\ pending' \in [Entries -> Workers \cup {NoWorker}]
        /\ \A e \in Entries : pending'[e] # NoWorker => e <= lastRead
    BY <1>6, <2>1 DEF Ack, DeadAck, DeadAckRaises, DeadPush, DeadPushRaises, PerhapsUnpend, Unpend, TypeOK
  <2>6. /\ dead' \in SUBSET Entries
        /\ broken' \in SUBSET Entries
        /\ faults' \in 0..MaxFaults
    BY <1>6, <2>1 DEF Ack, DeadAck, DeadAckRaises, DeadPush, DeadPushRaises, RedisError, TypeOK
  <2> QED
    BY <2>2, <2>3, <2>4, <2>5, <2>6 DEF TypeOK
<1>7. ASSUME NEW w \in Workers, Crash(w) PROVE TypeOK'
  <2>1. /\ Moves(w, {}, 0)
        /\ lastRead' = lastRead
        /\ lastRead \in Nat
    BY <1>7, PollMoves, LastReadTyped DEF Crash
  <2>2. /\ consumer' \in [Workers -> Consumers]
        /\ \A v \in Workers : Entry(v)' <= lastRead'
    BY <2>1, MoveTyped
  <2> QED
    BY <1>7, <2>2 DEF Crash, TypeOK
<1>8. CASE UNCHANGED vars
    BY <1>8 DEF vars, TypeOK, Entry
<1> QED
    BY <1>1, <1>2, <1>3, <1>4, <1>5, <1>6, <1>7, <1>8 DEF Next, Poll, Raise

\* For any consumers and entries: the variables have their types, nothing is
\* pending or handled that the group was not given, and nothing was given that
\* was not added.
THEOREM TypeCorrect == Spec => []TypeOK
BY TypeInit, TypeStep, PTL DEF Spec

----------------------------------------------------------------------------
(* Exclusive handling.                                                     *)

\* What the steps of a consumer that is at an entry, or at none, do to who is at
\* which entry: nobody takes one up.
LEMMA NobodyTakesUp ==
    ASSUME TypeOK, NEW w \in Workers,
           \/ ReadNothing(w) \/ HandlerReturns(w) \/ HandlerRaises(w)
           \/ Ack(w) \/ AckRaises(w) \/ DeadAck(w) \/ DeadAckRaises(w)
           \/ DeadPush(w) \/ DeadPushRaises(w) \/ Crash(w)
           \/ ReadNewRaises(w)
           \/ \E e \in Entries : ClaimStaleRaises(w, e)
    PROVE  /\ \A v \in Workers : Entry(v)' \in {Entry(v), 0}
           /\ UNCHANGED overtaken
<1>1. UNCHANGED overtaken
    BY DEF ReadNothing, HandlerReturns, HandlerRaises, Ack, AckRaises, DeadAck,
           DeadAckRaises, DeadPush, DeadPushRaises, Crash, ReadNewRaises,
           ClaimStaleRaises, history
<1>2. \E steps, e : Moves(w, steps, e) /\ e \in {Entry(w), 0}
    BY PollMoves
<1> QED
    BY <1>1, <1>2 DEF Moves, Entry

\* Every action keeps HandlingExclusive: an entry is taken up when the group is
\* given it, and then nobody is at it, or when it was idle.
LEMMA ExclusiveStep == TypeOK /\ HandlingExclusive /\ [Next]_vars => HandlingExclusive'
<1> SUFFICES ASSUME TypeOK, HandlingExclusive, [Next]_vars
             PROVE  HandlingExclusive'
    OBVIOUS
<1>1. ASSUME NEW t \in Tasks, Publish(t) PROVE HandlingExclusive'
    BY <1>1 DEF Publish, HandlingExclusive, Entry, history
<1>2. ASSUME NEW w \in Workers, NEW e \in Entries, ClaimStale(w, e) PROVE HandlingExclusive'
  <2>1. \A v \in Workers \ {w} : Entry(v)' = Entry(v)
    BY <1>2, PollMoves DEF Moves, Entry
  <2>2. Entry(w)' \in {0, e}
    BY <1>2, PollMoves DEF Moves, Entry
  <2>3. /\ overtaken \subseteq overtaken'
        /\ e \in overtaken' \/ ~BeingHandled(e)
    BY <1>2 DEF ClaimStale
  <2> QED
    BY <2>1, <2>2, <2>3, EntriesAreNumbers DEF HandlingExclusive, BeingHandled
<1>3. ASSUME NEW w \in Workers, ReadNew(w) PROVE HandlingExclusive'
  <2> DEFINE e == NextUnread
  <2>1. /\ \A v \in Workers \ {w} : Entry(v)' = Entry(v)
        /\ Entry(w)' \in {0, e}
        /\ UNCHANGED overtaken
    BY <1>3, PollMoves DEF Moves, Entry, ReadNew, history
  <2>2. e > lastRead
    BY LastReadTyped DEF NextUnread, TypeOK
  <2>3. e \in Entries /\ lastRead \in Nat
    BY <1>3, PollMoves, LastReadTyped
  <2> HIDE DEF e
  <2>4. \A v \in Workers : Entry(v) # e
    BY <2>2, <2>3, EntriesAreNumbers DEF TypeOK
  <2> QED
    BY <2>1, <2>4, EntriesAreNumbers DEF HandlingExclusive
<1>4. ASSUME NEW w \in Workers,
             \/ ReadNothing(w) \/ HandlerReturns(w) \/ HandlerRaises(w)
             \/ Ack(w) \/ AckRaises(w) \/ DeadAck(w) \/ DeadAckRaises(w)
             \/ DeadPush(w) \/ DeadPushRaises(w) \/ Crash(w)
             \/ ReadNewRaises(w)
             \/ \E e \in Entries : ClaimStaleRaises(w, e)
      PROVE  HandlingExclusive'
    BY <1>4, NobodyTakesUp, EntriesAreNumbers DEF HandlingExclusive
<1>5. CASE UNCHANGED vars
    BY <1>5 DEF vars, history, HandlingExclusive, Entry
<1> QED
    BY <1>1, <1>2, <1>3, <1>4, <1>5 DEF Next, Poll, Raise

\* For any number of consumers: two are busy with one entry only if it was claimed
\* from a handler that was slower than stale_ms (TaskStreamConsumer._poll_redis).
THEOREM ConsumersKeptApart == Spec => []HandlingExclusive
<1>1. Init => HandlingExclusive
    BY EntriesAreNumbers DEF Init, HandlingExclusive, Entry, Polling
<1> QED
    BY <1>1, TypeCorrect, ExclusiveStep, PTL DEF Spec

----------------------------------------------------------------------------
(* Done with an entry.                                                     *)

\* Nothing went wrong, and no handler was slower than stale_ms.
Quiet == faults = 0 /\ overtaken = {}

\* Nobody takes the entry up again: it was given to the group, and who is at it, or
\* has it pending, gives it up.
Finished(e) ==
    /\ e <= lastRead
    /\ \A w \in Workers : Entry(w) = e => consumer[w].step \in {"dead_ack", "dead_push"}
    /\ pending[e] # NoWorker => \E w \in Workers : At(w, "dead_ack") /\ Entry(w) = e

\* A command that raises or a consumer that dies shows on the entry it was at.
LEMMA FaultsShow ==
    ASSUME TypeOK, NEW w \in Workers, Raise(w) \/ Crash(w), NEW e \in Entries
    PROVE  /\ ~Quiet'
           /\ e \in broken' \/ Entry(w) # e
           /\ e \in broken' \/ pending'[e] = pending[e]
           /\ \A v \in Workers \ {w} : consumer'[v] = consumer[v]
           /\ \/ consumer'[w].step = "dead_ack" /\ consumer'[w].entry = Entry(w)
              \/ consumer'[w].entry = 0
           /\ UNCHANGED <<taskOf, length, successes, overtaken>>
           /\ broken \subseteq broken'
           /\ lastRead <= lastRead' /\ lastRead' \in Nat
           /\ given' \in {given, given \cup {Entry(w)}}
<1> USE DEF history, stream
<1>0. pending \in [Entries -> Workers \cup {NoWorker}] /\ faults \in Nat /\ lastRead \in Nat
    BY LastReadTyped DEF TypeOK
<1>1. /\ faults' = faults + 1
      /\ UNCHANGED <<taskOf, length, successes, overtaken>>
      /\ broken \subseteq broken'
    BY DEF Raise, Crash, ClaimStaleRaises, ReadNewRaises, AckRaises, DeadAckRaises,
           DeadPushRaises, RedisError
<1>2. /\ \A v \in Workers \ {w} : consumer'[v] = consumer[v]
      /\ \/ consumer'[w].step = "dead_ack" /\ consumer'[w].entry = Entry(w)
         \/ consumer'[w].entry = 0
    BY PollMoves DEF Moves, Raise
<1>3. CASE \E d \in Entries : ClaimStaleRaises(w, d)
  <2> PICK d \in Entries : ClaimStaleRaises(w, d)
    BY <1>3
  <2>1. /\ At(w, "poll")
        /\ broken' = broken \cup {d}
        /\ pending' = [pending EXCEPT ![d] = w]
        /\ UNCHANGED <<lastRead, given>>
    BY DEF ClaimStaleRaises, RedisError
  <2>2. Entry(w) = 0
    BY <2>1, BusyEntry DEF At, BusySteps
  <2> QED
    BY <1>0, <1>1, <1>2, <2>1, <2>2, EntriesAreNumbers DEF Quiet
<1>4. CASE ReadNewRaises(w)
  <2> PICK n : n = NextUnread
    OBVIOUS
  <2>1. /\ At(w, "poll") \/ At(w, "read")
        /\ broken' = broken \cup {n}
        /\ pending' = [pending EXCEPT ![n] = w]
        /\ lastRead' = n
        /\ UNCHANGED given
    BY <1>4 DEF ReadNewRaises, RedisError
  <2>2. Entry(w) = 0
    BY <2>1, BusyEntry DEF At, BusySteps
  <2>3. n >= lastRead /\ n \in Nat
    BY LastReadTyped DEF NextUnread, TypeOK
  <2> QED
    BY <1>0, <1>1, <1>2, <2>1, <2>2, <2>3, EntriesAreNumbers DEF Quiet
<1>5. CASE AckRaises(w) \/ DeadAckRaises(w) \/ DeadPushRaises(w) \/ Crash(w)
  <2>1. /\ Entry(w) \in Entries => Entry(w) \in broken'
        /\ \A d \in Entries \ {Entry(w)} : pending'[d] = pending[d]
        /\ lastRead' = lastRead
    BY <1>0, <1>5 DEF AckRaises, DeadAckRaises, DeadPushRaises, Crash, RedisError,
                      PerhapsUnpend, Unpend
  <2>2. given' \in {given, given \cup {Entry(w)}}
    BY <1>5, FailedEffect DEF AckRaises, DeadAckRaises, DeadPushRaises, Crash, At, BusySteps
  <2> QED
    BY <1>0, <1>1, <1>2, <2>1, <2>2 DEF Quiet
<1> QED
    BY <1>3, <1>4, <1>5 DEF Raise

\* Finished entries stay finished, unless something went wrong with them.
LEMMA FinishedStays ==
    ASSUME TypeOK, NEW e \in Entries, Finished(e), [Next]_vars,
           e \notin overtaken', e \notin broken' \/ Quiet'
    PROVE  Finished(e)'
<1> USE DEF history, stream
<1>0. /\ Entries \subseteq Nat /\ e # 0 /\ e \in Nat
      /\ lastRead \in Nat
      /\ pending \in [Entries -> Workers \cup {NoWorker}]
    BY EntriesAreNumbers, LastReadTyped DEF TypeOK
<1>1. ASSUME NEW w \in Workers, NEW d \in Entries, ClaimStale(w, d) PROVE Finished(e)'
  <2>1. /\ At(w, "poll")
        /\ pending[d] # NoWorker
        /\ pending' = [pending EXCEPT ![d] = w]
        /\ d \in overtaken' \/ ~BeingHandled(d)
        /\ UNCHANGED lastRead
    BY <1>1 DEF ClaimStale
  <2>2. d # e
    BY <2>1 DEF Finished, BeingHandled
  <2>3. /\ \A v \in Workers \ {w} : consumer'[v] = consumer[v]
        /\ consumer'[w].entry \in {0, d}
    BY <1>1, PollMoves DEF Moves
  <2> QED
    BY <1>0, <2>1, <2>2, <2>3 DEF Finished, Entry, At
<1>2. ASSUME NEW w \in Workers, ReadNew(w) PROVE Finished(e)'
  <2> PICK n : n = NextUnread
    OBVIOUS
  <2>1. /\ pending' = [pending EXCEPT ![n] = w]
        /\ At(w, "poll") \/ At(w, "read")
        /\ lastRead' = n
    BY <1>2 DEF ReadNew
  <2>2. n > lastRead /\ n \in Nat
    BY LastReadTyped DEF NextUnread, TypeOK
  <2>3. n # e /\ e <= n
    BY <1>0, <2>2 DEF Finished
  <2>4. /\ \A v \in Workers \ {w} : consumer'[v] = consumer[v]
        /\ consumer'[w].entry \in {0, n}
    BY <1>2, PollMoves DEF Moves
  <2> QED
    BY <1>0, <2>1, <2>3, <2>4 DEF Finished, Entry, At
<1>3. ASSUME NEW w \in Workers,
             \/ ReadNothing(w) \/ HandlerReturns(w) \/ HandlerRaises(w) \/ Ack(w)
             \/ DeadAck(w) \/ DeadPush(w)
      PROVE  Finished(e)'
  <2>1. /\ \A v \in Workers \ {w} : consumer'[v] = consumer[v]
        /\ lastRead' = lastRead
        /\ \A d \in Entries : pending'[d] \in {pending[d], NoWorker}
    BY <1>0, <1>3, PollMoves
       DEF Moves, ReadNothing, HandlerReturns, HandlerRaises, Ack, DeadAck, DeadPush, Unpend
  <2>2. CASE Entry(w) # e
    <3>1. consumer'[w].entry # e
      BY <1>0, <1>3, <2>2, PollMoves DEF Moves
    <3> QED
      BY <1>0, <2>1, <2>2, <3>1 DEF Finished, Entry, At
  <2>3. CASE Entry(w) = e
    <3>1. DeadAck(w) \/ DeadPush(w)
      BY <1>0, <1>3, <2>3, BusyEntry
         DEF Finished, ReadNothing, HandlerReturns, HandlerRaises, Ack, At, BusySteps
    <3>2. CASE DeadAck(w)
      <4>1. pending'[e] = NoWorker
        BY <1>0, <2>3, <3>2 DEF DeadAck, Unpend
      <4>2. consumer'[w].step = "dead_push" \/ consumer'[w].entry = 0
        BY <3>2, PollMoves DEF Moves
      <4> QED
        BY <1>0, <2>1, <4>1, <4>2 DEF Finished, Entry, At
    <3>3. CASE DeadPush(w)
      <4>1. consumer'[w].entry = 0 /\ At(w, "dead_push") /\ pending' = pending
        BY <3>3, PollMoves DEF Moves, DeadPush
      <4> QED
        BY <1>0, <2>1, <4>1 DEF Finished, Entry, At
    <3> QED
      BY <3>1, <3>2, <3>3
  <2> QED
    BY <2>2, <2>3
<1>4. ASSUME NEW w \in Workers, Raise(w) \/ Crash(w) PROVE Finished(e)'
  <2>1. /\ Entry(w) # e
        /\ pending'[e] = pending[e]
        /\ \A v \in Workers \ {w} : consumer'[v] = consumer[v]
        /\ consumer'[w].entry \in {0, Entry(w)}
        /\ lastRead <= lastRead' /\ lastRead' \in Nat
    BY <1>4, FaultsShow
  <2> QED
    BY <1>0, <2>1 DEF Finished, Entry, At
<1>5. CASE UNCHANGED vars \/ \E t \in Tasks : Publish(t)
    BY <1>5 DEF vars, Publish, Finished, Entry, At
<1> QED
    BY <1>1, <1>2, <1>3, <1>4, <1>5 DEF Next, Poll

----------------------------------------------------------------------------
(* At most once.                                                           *)

\* An entry nothing disturbed is not done while it is handled; done and pending
\* it is only between the handler and XACK; and nobody did it before it was given.
UndisturbedOnce ==
    \A e \in Entries \ (overtaken \cup broken) :
        /\ successes[e] <= 1
        /\ \A w \in Workers : At(w, "handle") /\ Entry(w) = e => successes[e] = 0
        /\ pending[e] # NoWorker =>
              successes[e] = 0 \/ \E w \in Workers : At(w, "ack") /\ Entry(w) = e
        /\ e > lastRead => successes[e] = 0

\* Every action keeps UndisturbedOnce.
LEMMA UndisturbedOnceStep ==
    TypeOK /\ HandlingExclusive /\ UndisturbedOnce /\ [Next]_vars => UndisturbedOnce'
<1> SUFFICES ASSUME TypeOK, HandlingExclusive, UndisturbedOnce, [Next]_vars
             PROVE  UndisturbedOnce'
    OBVIOUS
<1> USE DEF history, stream
<1>0. Entries \subseteq Nat /\ 0 \notin Entries /\ lastRead \in Nat
      /\ successes \in [Entries -> Nat]
      /\ pending \in [Entries -> Workers \cup {NoWorker}]
      /\ consumer \in [Workers -> Consumers]
    BY EntriesAreNumbers, LastReadTyped DEF TypeOK
<1>1. ASSUME NEW t \in Tasks, Publish(t) PROVE UndisturbedOnce'
    BY <1>1 DEF Publish, UndisturbedOnce, Entry, At
<1>2. ASSUME NEW w \in Workers, NEW e \in Entries, ClaimStale(w, e) PROVE UndisturbedOnce'
  <2>1. /\ \A v \in Workers \ {w} : consumer'[v] = consumer[v]
        /\ Entry(w)' \in {0, e}
        /\ At(w, "poll")
    BY <1>2, PollMoves DEF Moves, Entry, ClaimStale
  <2>2. /\ UNCHANGED <<lastRead, successes, broken>>
        /\ overtaken \subseteq overtaken'
        /\ e \in overtaken' \/ ~BeingHandled(e)
        /\ pending[e] # NoWorker
        /\ pending' = [pending EXCEPT ![e] = w]
    BY <1>2 DEF ClaimStale
  <2> QED
    BY <1>0, <2>1, <2>2 DEF UndisturbedOnce, BeingHandled, Entry, At
<1>3. ASSUME NEW w \in Workers, ReadNew(w) PROVE UndisturbedOnce'
  <2> DEFINE n == NextUnread
  <2>1. /\ \A v \in Workers \ {w} : consumer'[v] = consumer[v]
        /\ Entry(w)' \in {0, n}
        /\ At(w, "poll") \/ At(w, "read")
        /\ n \in Entries
    BY <1>3, PollMoves DEF Moves, Entry, ReadNew
  <2>2. /\ UNCHANGED <<successes, broken, overtaken>>
        /\ lastRead' = n
        /\ pending' = [pending EXCEPT ![n] = w]
    BY <1>3 DEF ReadNew
  <2>3. n > lastRead
    BY LastReadTyped DEF NextUnread, TypeOK
  <2> HIDE DEF n
  <2> QED
    BY <1>0, <2>1, <2>2, <2>3 DEF UndisturbedOnce, Entry, At
<1>4. ASSUME NEW w \in Workers, HandlerReturns(w) PROVE UndisturbedOnce'
  <2> DEFINE k == Entry(w)
  <2>1. /\ \A v \in Workers \ {w} : consumer'[v] = consumer[v]
        /\ consumer'[w].step = "ack" /\ consumer'[w].entry = k
    BY <1>4, GotoEffect DEF HandlerReturns, At, BusySteps, Entry
  <2>2. /\ At(w, "handle")
        /\ k \in Entries
        /\ k <= lastRead
    BY <1>4, BusyEntry DEF HandlerReturns, At, BusySteps
  <2>3. /\ UNCHANGED <<lastRead, pending, broken, overtaken>>
        /\ successes' = [successes EXCEPT ![k] = @ + 1]
    BY <1>4 DEF HandlerReturns
  <2>4. \A v \in Workers : k \notin overtaken /\ Entry(v) = k => v = w
    BY <2>2 DEF HandlingExclusive
  <2>5. k = consumer[w].entry
    BY DEF Entry
  <2> HIDE DEF k
  <2> QED
    BY <1>0, <2>1, <2>2, <2>3, <2>4, <2>5 DEF UndisturbedOnce, Entry, At
<1>5. ASSUME NEW w \in Workers,
             HandlerRaises(w) \/ DeadAck(w) \/ DeadPush(w) \/ ReadNothing(w)
      PROVE  UndisturbedOnce'
  <2>1. /\ \A v \in Workers \ {w} : consumer'[v] = consumer[v]
        /\ consumer'[w].step \in {"dead_ack", "dead_push", "poll", "read"}
    BY <1>5, PollMoves DEF Moves
  <2>2. consumer[w].step # "ack"
    BY <1>5 DEF HandlerRaises, DeadAck, DeadPush, ReadNothing, At
  <2>3. /\ UNCHANGED <<lastRead, successes, broken, overtaken>>
        /\ \A e \in Entries : pending'[e] \in {pending[e], NoWorker}
    BY <1>0, <1>5 DEF HandlerRaises, DeadAck, DeadPush, ReadNothing, Unpend
  <2> QED
    BY <1>0, <2>1, <2>2, <2>3 DEF UndisturbedOnce, Entry, At
<1>6. ASSUME NEW w \in Workers, Ack(w) PROVE UndisturbedOnce'
  <2>1. /\ \A v \in Workers \ {w} : consumer'[v] = consumer[v]
        /\ consumer'[w].step \in {"poll", "read"}
    BY <1>6, PollMoves DEF Moves
  <2>2. /\ UNCHANGED <<lastRead, successes, broken, overtaken>>
        /\ pending' = [pending EXCEPT ![Entry(w)] = NoWorker]
    BY <1>6 DEF Ack, Unpend
  <2> QED
    BY <1>0, <2>1, <2>2 DEF UndisturbedOnce, Entry, At
<1>7. ASSUME NEW w \in Workers,
             \/ AckRaises(w) \/ DeadAckRaises(w) \/ DeadPushRaises(w) \/ Crash(w)
      PROVE  UndisturbedOnce'
  <2>1. /\ \A v \in Workers \ {w} : consumer'[v] = consumer[v]
        /\ consumer'[w].step \in {"dead_ack", "poll", "read"}
    BY <1>7, PollMoves DEF Moves
  <2>2. Entry(w) \in Entries => Entry(w) \in broken'
    BY <1>7 DEF AckRaises, DeadAckRaises, DeadPushRaises, Crash, RedisError
  <2>3. /\ UNCHANGED <<lastRead, successes, overtaken>>
        /\ broken \subseteq broken'
        /\ \A e \in Entries : pending'[e] \in {pending[e], NoWorker}
    BY <1>0, <1>7 DEF AckRaises, DeadAckRaises, DeadPushRaises, Crash, RedisError, PerhapsUnpend, Unpend
  <2> QED
    BY <1>0, <2>1, <2>2, <2>3 DEF UndisturbedOnce, Entry, At
<1>8. ASSUME NEW w \in Workers, NEW e \in Entries, ClaimStaleRaises(w, e)
      PROVE  UndisturbedOnce'
  <2>1. /\ \A v \in Workers \ {w} : consumer'[v] = consumer[v]
        /\ consumer'[w].step \in {"poll", "read"}
        /\ At(w, "poll")
    BY <1>8, PollMoves DEF Moves, ClaimStaleRaises
  <2>2. /\ UNCHANGED <<lastRead, successes, overtaken>>
        /\ broken' = broken \cup {e}
        /\ pending' = [pending EXCEPT ![e] = w]
    BY <1>8 DEF ClaimStaleRaises, RedisError
  <2> QED
    BY <1>0, <2>1, <2>2 DEF UndisturbedOnce, Entry, At
<1>9. ASSUME NEW w \in Workers, ReadNewRaises(w) PROVE UndisturbedOnce'
  <2> DEFINE n == NextUnread
  <2>1. /\ \A v \in Workers \ {w} : consumer'[v] = consumer[v]
        /\ consumer'[w].step \in {"poll", "read"}
        /\ At(w, "poll") \/ At(w, "read")
        /\ n \in Entries
    BY <1>9, PollMoves DEF Moves, ReadNewRaises
  <2>2. /\ UNCHANGED <<successes, overtaken>>
        /\ lastRead' = n
        /\ broken' = broken \cup {n}
        /\ pending' = [pending EXCEPT ![n] = w]
    BY <1>9 DEF ReadNewRaises, RedisError
  <2>3. n > lastRead
    BY LastReadTyped DEF NextUnread, TypeOK
  <2> HIDE DEF n
  <2> QED
    BY <1>0, <2>1, <2>2, <2>3 DEF UndisturbedOnce, Entry, At
<1>10. CASE UNCHANGED vars
    BY <1>10 DEF vars, UndisturbedOnce, Entry, At
<1> QED
    BY <1>1, <1>2, <1>3, <1>4, <1>5, <1>6, <1>7, <1>8, <1>9, <1>10 DEF Next, Poll, Raise

\* What went wrong, and what was given up, is remembered.
LEMMA HistoryGrows ==
    ASSUME TypeOK, [Next]_vars
    PROVE  overtaken \subseteq overtaken' /\ broken \subseteq broken' /\ given \subseteq given'
<1> USE DEF history, stream
<1>1. ASSUME NEW w \in Workers, Poll(w)
      PROVE  overtaken \subseteq overtaken' /\ broken \subseteq broken' /\ given \subseteq given'
    BY <1>1 DEF Poll, ClaimStale, ReadNew, ReadNothing, HandlerReturns, HandlerRaises, Failed,
                Ack, DeadAck, DeadPush
<1>2. ASSUME NEW w \in Workers, Raise(w) \/ Crash(w)
      PROVE  overtaken \subseteq overtaken' /\ broken \subseteq broken' /\ given \subseteq given'
    BY <1>2 DEF Raise, Crash, ClaimStaleRaises, ReadNewRaises, AckRaises, DeadAckRaises,
                DeadPushRaises, RedisError, Failed
<1>3. CASE UNCHANGED vars \/ \E t \in Tasks : Publish(t)
    BY <1>3 DEF vars, Publish
<1> QED
    BY <1>1, <1>2, <1>3 DEF Next

\* Who gives an entry up, and what becomes of it then: nobody is at it but the one who
\* gave it up.
GivenUndone ==
    \A e \in Entries \ (overtaken \cup broken) :
        e \in given => successes[e] = 0 /\ Finished(e)

\* Every action keeps GivenUndone.
LEMMA GivenUndoneStep ==
    TypeOK /\ HandlingExclusive /\ UndisturbedOnce /\ GivenUndone /\ [Next]_vars => GivenUndone'
<1> SUFFICES ASSUME TypeOK, HandlingExclusive, UndisturbedOnce, GivenUndone, [Next]_vars,
                    NEW e \in Entries, e \notin overtaken', e \notin broken', e \in given'
             PROVE  successes'[e] = 0 /\ Finished(e)'
    BY DEF GivenUndone
<1> USE DEF history, stream
<1>0. /\ e # 0
      /\ e \notin overtaken /\ e \notin broken
      /\ successes \in [Entries -> Nat]
    BY EntriesAreNumbers, HistoryGrows DEF TypeOK
<1>1. CASE e \in given
  <2>1. Finished(e) /\ successes[e] = 0
    BY <1>0, <1>1 DEF GivenUndone
  <2>2. Finished(e)'
    BY <2>1, FinishedStays
  <2>3. ASSUME NEW w \in Workers, HandlerReturns(w) PROVE successes'[e] = successes[e]
    <3>1. Entry(w) # e /\ successes' = [successes EXCEPT ![Entry(w)] = @ + 1]
      BY <2>1, <2>3 DEF HandlerReturns, Finished, At
    <3> QED
      BY <1>0, <3>1
  <2>4. (\A w \in Workers : ~HandlerReturns(w)) => successes' = successes
    <3>1. ASSUME NEW w \in Workers, Poll(w), ~HandlerReturns(w) PROVE successes' = successes
      BY <3>1 DEF Poll, ClaimStale, ReadNew, ReadNothing, HandlerRaises, Ack, DeadAck, DeadPush
    <3>2. ASSUME NEW w \in Workers, Raise(w) \/ Crash(w) PROVE successes' = successes
      BY <3>2, FaultsShow
    <3> QED
      BY <3>1, <3>2 DEF Next, vars, Publish
  <2> QED
    BY <2>1, <2>2, <2>3, <2>4
<1>2. CASE e \notin given
  <2>1. \/ \E w \in Workers : HandlerRaises(w) \/ AckRaises(w)
        \/ given' = given
    <3>1. ASSUME NEW w \in Workers, Poll(w), ~HandlerRaises(w) PROVE given' = given
      BY <3>1 DEF Poll, ClaimStale, ReadNew, ReadNothing, HandlerReturns, Ack, DeadAck, DeadPush
    <3>2. ASSUME NEW w \in Workers, Raise(w) \/ Crash(w), ~AckRaises(w) PROVE given' = given
      BY <3>2 DEF Raise, Crash, ClaimStaleRaises, ReadNewRaises, DeadAckRaises, DeadPushRaises
    <3> QED
      BY <3>1, <3>2 DEF Next, vars, Publish
  <2>2. PICK w \in Workers : HandlerRaises(w) \/ AckRaises(w)
    BY <1>2, <2>1
  <2>3. /\ consumer[w].step \in BusySteps
        /\ Failed(w)
        /\ AckRaises(w) => Entry(w) \in broken'
        /\ HandlerRaises(w) => At(w, "handle") /\ UNCHANGED <<successes, lastRead>>
    BY <2>2 DEF HandlerRaises, AckRaises, RedisError, At, BusySteps
  <2>4. /\ Entry(w) = e
        /\ given' # given
        /\ Moves(w, {"dead_ack"}, Entry(w))
        /\ consumer'[w].step # "poll"
    BY <1>2, <2>3, FailedEffect
  <2>5. HandlerRaises(w)
    BY <2>2, <2>3, <2>4
  <2>6. consumer'[w].step = "dead_ack" /\ consumer'[w].entry = e
    <3>1. given' = given \cup {e} /\ Goto(w, "dead_ack")
      BY <2>3, <2>4, ReturnEffect DEF Failed
    <3> QED
      BY <2>3, <2>4, <3>1, GotoEffect DEF BusySteps, Entry
  <2>7. /\ successes'[e] = 0
        /\ e <= lastRead'
    BY <1>0, <2>3, <2>4, <2>5, BusyEntry DEF UndisturbedOnce
  <2>8. \A v \in Workers \ {w} : Entry(v) # e /\ consumer'[v] = consumer[v]
    BY <1>0, <2>4 DEF HandlingExclusive, Moves
  <2> QED
    BY <2>6, <2>7, <2>8 DEF Finished, Entry, At
<1> QED
    BY <1>1, <1>2

\* For any number of consumers: on_task completes at most once for an entry, and not
\* at all for one that is given up, unless its handler was overtaken, a command on
\* it raised or its consumer died (TaskStreamConsumer._handle_message).
THEOREM CompletedOnce == Spec => []OnceUndisturbed
<1>1. Init => UndisturbedOnce /\ GivenUndone
    BY DEF Init, UndisturbedOnce, GivenUndone, At, Polling
<1>2. UndisturbedOnce /\ GivenUndone => OnceUndisturbed
    BY DEF UndisturbedOnce, GivenUndone, OnceUndisturbed
<1> QED
    BY <1>1, <1>2, TypeCorrect, ConsumersKeptApart, UndisturbedOnceStep, GivenUndoneStep, PTL
       DEF Spec

----------------------------------------------------------------------------
(* Nothing vanishes.                                                       *)

\* A consumer acknowledges only what was handled.
AcksEarned == \A w \in Workers : At(w, "ack") => successes[Entry(w)] > 0

Accounted == AcksEarned /\ SettledAccounted

\* Every action keeps Accounted.
LEMMA AccountedStep == TypeOK /\ Accounted /\ [Next]_vars => Accounted'
<1> SUFFICES ASSUME TypeOK, Accounted, [Next]_vars
             PROVE  Accounted'
    OBVIOUS
<1> USE DEF history, stream
<1>0. Entries \subseteq Nat /\ 0 \notin Entries
      /\ lastRead \in Nat /\ first \in Nat
      /\ successes \in [Entries -> Nat]
      /\ pending \in [Entries -> Workers \cup {NoWorker}]
      /\ consumer \in [Workers -> Consumers]
    BY EntriesAreNumbers, LastReadTyped DEF TypeOK
<1>1. ASSUME NEW t \in Tasks, Publish(t) PROVE Accounted'
  <2>1. first' \in Nat /\ first <= first'
    BY <1>1 DEF Publish, TypeOK
  <2>2. UNCHANGED <<lastRead, pending, dead, consumer, successes, broken>>
    BY <1>1 DEF Publish
  <2> QED
    BY <1>0, <2>1, <2>2 DEF Accounted, AcksEarned, SettledAccounted, Settled, Entry, At
<1>2. ASSUME NEW w \in Workers, NEW e \in Entries, ClaimStale(w, e) \/ ClaimStaleRaises(w, e)
      PROVE  Accounted'
  <2>1. /\ \A v \in Workers \ {w} : consumer'[v] = consumer[v]
        /\ consumer'[w].step \in {"handle", "poll", "read"}
        /\ At(w, "poll")
    BY <1>2, PollMoves DEF Moves, ClaimStale, ClaimStaleRaises
  <2>2. /\ UNCHANGED <<first, lastRead, dead, successes>>
        /\ broken \subseteq broken'
        /\ pending' = [pending EXCEPT ![e] = w]
    BY <1>2 DEF ClaimStale, ClaimStaleRaises, RedisError
  <2> QED
    BY <1>0, <2>1, <2>2 DEF Accounted, AcksEarned, SettledAccounted, Settled, Entry, At
<1>3. ASSUME NEW w \in Workers, ReadNew(w) \/ ReadNewRaises(w) PROVE Accounted'
  <2> DEFINE n == NextUnread
  <2>1. /\ \A v \in Workers \ {w} : consumer'[v] = consumer[v]
        /\ consumer'[w].step \in {"handle", "poll", "read"}
        /\ At(w, "poll") \/ At(w, "read")
        /\ n \in Entries
    BY <1>3, PollMoves DEF Moves, ReadNew, ReadNewRaises
  <2>2. /\ UNCHANGED <<first, dead, successes>>
        /\ broken \subseteq broken'
        /\ lastRead' = n
        /\ pending' = [pending EXCEPT ![n] = w]
    BY <1>3 DEF ReadNew, ReadNewRaises, RedisError
  <2>3. \A e \in Nat : e <= n => e <= lastRead \/ e < first \/ e = n
    BY <1>0 DEF NextUnread
  <2> HIDE DEF n
  <2> QED
    BY <1>0, <2>1, <2>2, <2>3 DEF Accounted, AcksEarned, SettledAccounted, Settled, Entry, At
<1>4. ASSUME NEW w \in Workers, HandlerReturns(w) PROVE Accounted'
  <2> DEFINE k == Entry(w)
  <2>1. /\ \A v \in Workers \ {w} : consumer'[v] = consumer[v]
        /\ consumer'[w].step = "ack" /\ consumer'[w].entry = k
    BY <1>4, GotoEffect DEF HandlerReturns, At, BusySteps, Entry
  <2>2. /\ At(w, "handle")
        /\ k \in Entries
    BY <1>4, BusyEntry DEF HandlerReturns, At, BusySteps
  <2>3. /\ UNCHANGED <<first, lastRead, pending, dead, broken>>
        /\ successes' = [successes EXCEPT ![k] = @ + 1]
    BY <1>4 DEF HandlerReturns
  <2>4. \A v \in Workers : At(v, "ack") => Entry(v) \in Entries
    BY BusyEntry DEF At, BusySteps
  <2>5. /\ successes' \in [Entries -> Nat]
        /\ successes'[k] > 0
        /\ \A e \in Entries : successes[e] > 0 => successes'[e] > 0
    <3>1. successes[k] \in Nat
      BY <1>0, <2>2
    <3> HIDE DEF k
    <3>2. \A e \in Entries :
            successes'[e] = IF e = k THEN successes[k] + 1 ELSE successes[e]
      BY <1>0, <2>3
    <3>3. successes' \in [Entries -> Nat]
      BY <1>0, <2>2, <2>3, <3>1
    <3> QED
      BY <1>0, <2>2, <3>1, <3>2, <3>3
  <2> HIDE DEF k
  <2>6. AcksEarned'
    BY <1>0, <2>1, <2>4, <2>5 DEF Accounted, AcksEarned, Entry, At
  <2>7. SettledAccounted'
    BY <1>0, <2>1, <2>2, <2>3, <2>5 DEF Accounted, SettledAccounted, Settled, Entry, At
  <2> QED
    BY <2>6, <2>7 DEF Accounted
<1>5. ASSUME NEW w \in Workers, HandlerRaises(w) \/ ReadNothing(w) PROVE Accounted'
  <2>1. /\ \A v \in Workers \ {w} : consumer'[v] = consumer[v]
        /\ consumer'[w].step \in {"dead_ack", "poll", "read"}
        /\ At(w, "handle") \/ At(w, "read")
    BY <1>5, PollMoves DEF Moves, HandlerRaises, ReadNothing
  <2>2. UNCHANGED <<first, lastRead, pending, dead, successes, broken>>
    BY <1>5 DEF HandlerRaises, ReadNothing
  <2> QED
    BY <1>0, <2>1, <2>2 DEF Accounted, AcksEarned, SettledAccounted, Settled, Entry, At
<1>6. ASSUME NEW w \in Workers, Ack(w) PROVE Accounted'
  <2>1. /\ \A v \in Workers \ {w} : consumer'[v] = consumer[v]
        /\ consumer'[w].step \in {"poll", "read"}
        /\ At(w, "ack")
    BY <1>6, PollMoves DEF Moves, Ack
  <2>2. /\ UNCHANGED <<first, lastRead, dead, successes, broken>>
        /\ pending' = [pending EXCEPT ![Entry(w)] = NoWorker]
    BY <1>6 DEF Ack, Unpend
  <2> QED
    BY <1>0, <2>1, <2>2 DEF Accounted, AcksEarned, SettledAccounted, Settled, Entry, At
<1>7. ASSUME NEW w \in Workers, DeadAck(w) PROVE Accounted'
  <2> DEFINE k == Entry(w)
  <2>1. /\ \A v \in Workers \ {w} : consumer'[v] = consumer[v]
        /\ consumer'[w].step = "dead_push" /\ consumer'[w].entry = k
        /\ At(w, "dead_ack")
    BY <1>7, GotoEffect DEF DeadAck, At, BusySteps, Entry
  <2>2. /\ UNCHANGED <<first, lastRead, dead, successes, broken>>
        /\ pending' = [pending EXCEPT ![k] = NoWorker]
    BY <1>7 DEF DeadAck, Unpend
  <2> HIDE DEF k
  <2> QED
    BY <1>0, <2>1, <2>2 DEF Accounted, AcksEarned, SettledAccounted, Settled, Entry, At
<1>8. ASSUME NEW w \in Workers, DeadPush(w) PROVE Accounted'
  <2>1. /\ \A v \in Workers \ {w} : consumer'[v] = consumer[v]
        /\ consumer'[w].step \in {"poll", "read"}
        /\ At(w, "dead_push")
    BY <1>8, PollMoves DEF Moves, DeadPush
  <2>2. /\ UNCHANGED <<first, lastRead, pending, successes, broken>>
        /\ dead' = dead \cup {Entry(w)}
    BY <1>8 DEF DeadPush
  <2> QED
    BY <1>0, <2>1, <2>2 DEF Accounted, AcksEarned, SettledAccounted, Settled, Entry, At
<1>9. ASSUME NEW w \in Workers,
             \/ AckRaises(w) \/ DeadAckRaises(w) \/ DeadPushRaises(w) \/ Crash(w)
      PROVE  Accounted'
  <2>1. /\ \A v \in Workers \ {w} : consumer'[v] = consumer[v]
        /\ consumer'[w].step \in {"dead_ack", "poll", "read"}
    BY <1>9, PollMoves DEF Moves
  <2>2. Entry(w) \in Entries => Entry(w) \in broken'
    BY <1>9 DEF AckRaises, DeadAckRaises, DeadPushRaises, Crash, RedisError
  <2>3. /\ UNCHANGED <<first, lastRead, successes>>
        /\ broken \subseteq broken'
        /\ dead \subseteq dead'
        /\ \A e \in Entries \ {Entry(w)} : pending'[e] = pending[e]
    BY <1>0, <1>9 DEF AckRaises, DeadAckRaises, DeadPushRaises, Crash, RedisError, PerhapsUnpend, Unpend
  <2> QED
    BY <1>0, <2>1, <2>2, <2>3 DEF Accounted, AcksEarned, SettledAccounted, Settled, Entry, At
<1>10. CASE UNCHANGED vars
    BY <1>10 DEF vars, Accounted, AcksEarned, SettledAccounted, Settled, Entry, At
<1> QED
    BY <1>1, <1>2, <1>3, <1>4, <1>5, <1>6, <1>7, <1>8, <1>9, <1>10 DEF Next, Poll, Raise

\* For any number of consumers: what was given and is not pending was handled or is
\* dead-lettered, or is about to be, unless a command on it raised or its consumer
\* died (TaskStreamConsumer._handle_message).
THEOREM NothingVanishes == Spec => []SettledAccounted
<1>1. Init => Accounted
  <2> SUFFICES ASSUME Init PROVE Accounted
    OBVIOUS
  <2>1. \A e \in Entries : ~(e <= lastRead)
    BY EntriesAreNumbers DEF Init, Entries
  <2>2. \A w \in Workers : consumer[w].step = "poll"
    BY DEF Init, Polling
  <2> QED
    BY <2>1, <2>2 DEF Accounted, AcksEarned, SettledAccounted, Settled, At
<1>2. Accounted => SettledAccounted
    BY DEF Accounted
<1> QED
    BY <1>1, <1>2, TypeCorrect, AccountedStep, PTL DEF Spec

----------------------------------------------------------------------------
(* Given up for a reason.                                                  *)

\* What a consumer counts for a task are failures of the task, and only entries
\* that were added are given up.
FailuresCounted ==
    /\ \A w \in Workers, t \in Tasks : retries[w][t] <= failures[t]
    /\ given \subseteq 1..length
    /\ DeadLetterEarned

\* Every action keeps FailuresCounted.
LEMMA FailuresCountedStep == TypeOK /\ FailuresCounted /\ [Next]_vars => FailuresCounted'
<1> SUFFICES ASSUME TypeOK, FailuresCounted, [Next]_vars
             PROVE  FailuresCounted'
    OBVIOUS
<1> USE DEF history, stream
<1>0. /\ retries \in [Workers -> [Tasks -> Nat]]
      /\ failures \in [Tasks -> Nat]
      /\ length \in Nat
      /\ taskOf \in [Entries -> Tasks \cup {NoTask}]
      /\ \A e \in 1..length : taskOf[e] \in Tasks
    BY DEF TypeOK
<1>1. ASSUME NEW t \in Tasks, Publish(t) PROVE FailuresCounted'
  <2>1. /\ UNCHANGED <<retries, failures, given>>
        /\ length' = length + 1
        /\ taskOf' = [taskOf EXCEPT ![length + 1] = t]
    BY <1>1 DEF Publish
  <2>2. \A e \in 1..length : taskOf'[e] = taskOf[e]
    BY <1>0, <2>1 DEF Entries, TypeOK
  <2> QED
    BY <1>0, <2>1, <2>2 DEF FailuresCounted, DeadLetterEarned
<1>2. ASSUME NEW w \in Workers, HandlerRaises(w) \/ AckRaises(w) PROVE FailuresCounted'
  <2> DEFINE k == Entry(w)
             t == taskOf[k]
  <2>1. k \in 1..length /\ t \in Tasks /\ consumer[w].step \in BusySteps
    BY <1>2, BusyEntry DEF HandlerRaises, AckRaises, At, BusySteps
  <2>2. Failed(w) /\ UNCHANGED <<taskOf, length>>
    BY <1>2 DEF HandlerRaises, AckRaises
  <2>3. /\ given' \in {given, given \cup {k}}
        /\ retries' = [retries EXCEPT ![w][t] = retries[w][t] + 1]
        /\ failures' = [failures EXCEPT ![t] = @ + 1]
        /\ given' # given => retries[w][t] + 1 >= MaxRetries
    BY <2>1, <2>2, FailedEffect
  <2> HIDE DEF t, k
  <2>4. /\ failures'[t] = failures[t] + 1
        /\ \A u \in Tasks : failures[u] <= failures'[u] /\ failures'[u] \in Nat
        /\ \A v \in Workers, u \in Tasks : retries'[v][u] <= failures'[u]
    BY <1>0, <2>1, <2>3 DEF FailuresCounted
  <2>5. ASSUME NEW e \in given' PROVE failures'[taskOf[e]] >= MaxRetries
    <3>1. CASE e \in given
      BY <1>0, <2>4, <3>1 DEF FailuresCounted, DeadLetterEarned
    <3>2. CASE e \notin given
      <4>1. e = k /\ retries[w][t] + 1 >= MaxRetries
        BY <2>3, <2>5, <3>2
      <4>2. retries[w][t] <= failures[t] /\ retries[w][t] \in Nat /\ failures[t] \in Nat
        BY <1>0, <2>1 DEF FailuresCounted
      <4> QED
        BY <2>4, <4>1, <4>2 DEF t
    <3> QED
      BY <3>1, <3>2
  <2> QED
    BY <2>1, <2>2, <2>3, <2>4, <2>5 DEF FailuresCounted, DeadLetterEarned
<1>3. ASSUME NEW w \in Workers,
             Ack(w) \/ DeadPush(w) \/ DeadPushRaises(w) \/ Crash(w)
      PROVE  FailuresCounted'
  <2>1. UNCHANGED <<taskOf, length, failures, given>>
    BY <1>3 DEF Ack, DeadPush, DeadPushRaises, Crash
  <2>2. \A v \in Workers, u \in Tasks : retries'[v][u] \in {retries[v][u], 0}
    BY <1>0, <1>3 DEF Ack, DeadPush, DeadPushRaises, Crash, Forget
  <2> QED
    BY <1>0, <2>1, <2>2 DEF FailuresCounted, DeadLetterEarned
<1>4. ASSUME NEW w \in Workers,
             \/ ReadNew(w) \/ ReadNewRaises(w) \/ ReadNothing(w) \/ HandlerReturns(w)
             \/ DeadAck(w) \/ DeadAckRaises(w)
             \/ \E e \in Entries : ClaimStale(w, e) \/ ClaimStaleRaises(w, e)
      PROVE  FailuresCounted'
  <2>1. UNCHANGED <<taskOf, length, failures, given, retries>>
    BY <1>4 DEF ReadNew, ReadNewRaises, ReadNothing, HandlerReturns, DeadAck,
                DeadAckRaises, ClaimStale, ClaimStaleRaises
  <2> QED
    BY <2>1 DEF FailuresCounted, DeadLetterEarned
<1>5. CASE UNCHANGED vars
    BY <1>5 DEF vars, FailuresCounted, DeadLetterEarned
<1> QED
    BY <1>1, <1>2, <1>3, <1>4, <1>5 DEF Next, Poll, Raise

\* For any number of consumers, which alternate, die and forget their counts: an
\* entry is given up only after its task failed max_retries times
\* (TaskStreamConsumer._handle_message).
THEOREM GivenUpEarned == Spec => []DeadLetterEarned
<1>1. Init => FailuresCounted
    BY DEF Init, FailuresCounted, DeadLetterEarned
<1>2. FailuresCounted => DeadLetterEarned
    BY DEF FailuresCounted
<1> QED
    BY <1>1, <1>2, TypeCorrect, FailuresCountedStep, PTL DEF Spec

----------------------------------------------------------------------------
(* How often a task is tried.                                              *)

\* The only entry of its task.
Sole(e) == \A d \in 1..length : taskOf[d] = taskOf[e] => d = e

\* The attempts every consumer may fail before one gives the entry up, and those
\* among them that the consumers have counted for a task.
Attempts == Workers \X (1..(MaxRetries - 1))
Counted(t) == {a \in Attempts : a[2] <= retries[a[1]][t]}

\* No consumer is done with the entry: every failure was counted by someone.
Open(e) ==
    /\ failures[taskOf[e]] <= Cardinality(Counted(taskOf[e]))
    /\ \A w \in Workers : retries[w][taskOf[e]] < MaxRetries
    /\ \A w \in Workers : Entry(w) = e => consumer[w].step \in {"handle", "ack"}

\* One consumer handled the entry or gave it up.
Over(e) ==
    /\ Finished(e)
    /\ failures[taskOf[e]] <= Cardinality(Attempts) + 1

\* A task that was never published has no failures.
Untried ==
    /\ \A e \in Entries : e > length => taskOf[e] = NoTask
    /\ \A t \in Tasks : (\A d \in 1..length : taskOf[d] # t) =>
          failures[t] = 0 /\ \A w \in Workers : retries[w][t] = 0

OpenOrOver == Quiet => \A e \in 1..length : Sole(e) => Open(e) \/ Over(e)

AttemptsCounted == Untried /\ OpenOrOver

\* There are as many attempts as consumers times the failures each may count, and
\* no more of them are counted.
LEMMA CountedBounded ==
    ASSUME NEW t
    PROVE  /\ IsFiniteSet(Attempts)
           /\ Cardinality(Attempts) = Cardinality(Workers) * (MaxRetries - 1)
           /\ Cardinality(Attempts) \in Nat
           /\ IsFiniteSet(Counted(t))
           /\ Cardinality(Counted(t)) \in Nat
           /\ Cardinality(Counted(t)) <= Cardinality(Attempts)
<1> DEFINE N == MaxRetries - 1
<1>1. N \in Nat
    OBVIOUS
<1>2. IsFiniteSet(1..N) /\ Cardinality(1..N) = N
  <2> HIDE DEF N
  <2> QED
    BY <1>1, FS_Interval
<1>3. /\ IsFiniteSet(Attempts)
      /\ Cardinality(Attempts) = Cardinality(Workers) * N
    BY <1>2, WorkersAssumption, FS_Product DEF Attempts
<1>4. Counted(t) \in SUBSET Attempts
    BY DEF Counted
<1> QED
    BY <1>3, <1>4, FS_Subset, FS_CardinalityType

\* A consumer that counts one more failure of a task adds one attempt.
LEMMA OneMoreCounted ==
    ASSUME TypeOK, NEW w \in Workers, NEW t \in Tasks,
           retries[w][t] + 1 < MaxRetries,
           retries' = [retries EXCEPT ![w][t] = retries[w][t] + 1]
    PROVE  Cardinality(Counted(t)') = Cardinality(Counted(t)) + 1
<1> PICK n \in Nat : n = retries[w][t]
    BY DEF TypeOK
<1> DEFINE a == <<w, n + 1>>
<1>1. a \in Attempts /\ a \notin Counted(t)
    BY DEF Attempts, Counted
<1>2. \A v \in Workers : retries'[v][t] = IF v = w THEN n + 1 ELSE retries[v][t]
    BY DEF TypeOK
<1>3. ASSUME NEW b \in Attempts PROVE b \in Counted(t)' <=> b \in Counted(t) \/ b = a
  <2>1. b[1] \in Workers /\ b[2] \in Nat /\ b = <<b[1], b[2]>>
    BY DEF Attempts
  <2>2. b \in Counted(t)' <=> b[2] <= retries'[b[1]][t]
    BY DEF Counted
  <2>3. b \in Counted(t) <=> b[2] <= retries[b[1]][t]
    BY DEF Counted
  <2>4. CASE b[1] = w
    BY <1>2, <2>1, <2>2, <2>3, <2>4
  <2>5. CASE b[1] # w
    BY <1>2, <2>1, <2>2, <2>3, <2>5
  <2> QED
    BY <2>4, <2>5
<1>4. Counted(t)' \subseteq Attempts /\ Counted(t) \subseteq Attempts
    BY DEF Counted
<1> HIDE DEF a
<1>5. Counted(t)' = Counted(t) \cup {a}
    BY <1>1, <1>3, <1>4
<1> QED
    BY <1>1, <1>5, CountedBounded, FS_AddElement

\* The failures of an entry's task that a consumer counts are those of the entry
\* it is at.
LEMMA FailureOf ==
    ASSUME TypeOK, NEW w \in Workers, HandlerRaises(w) \/ AckRaises(w)
    PROVE  /\ Entry(w) \in 1..length
           /\ taskOf[Entry(w)] \in Tasks
           /\ Failed(w)
           /\ retries' = [retries EXCEPT ![w][taskOf[Entry(w)]] =
                            retries[w][taskOf[Entry(w)]] + 1]
           /\ failures' = [failures EXCEPT ![taskOf[Entry(w)]] = @ + 1]
<1>1. consumer[w].step \in BusySteps /\ Failed(w)
    BY DEF HandlerRaises, AckRaises, At, BusySteps
<1> QED
    BY <1>1, BusyEntry, FailedEffect

\* Every action keeps Untried.
LEMMA UntriedStep == TypeOK /\ Untried /\ [Next]_vars => Untried'
<1> SUFFICES ASSUME TypeOK, Untried, [Next]_vars
             PROVE  Untried'
    OBVIOUS
<1> USE DEF history, stream
<1>0. /\ retries \in [Workers -> [Tasks -> Nat]]
      /\ failures \in [Tasks -> Nat]
      /\ length \in Nat
      /\ taskOf \in [Entries -> Tasks \cup {NoTask}]
      /\ Entries \subseteq Nat
    BY EntriesAreNumbers DEF TypeOK
<1>1. ASSUME NEW t \in Tasks, Publish(t) PROVE Untried'
  <2>1. /\ length < MaxEntries
        /\ length' = length + 1
        /\ taskOf' = [taskOf EXCEPT ![length + 1] = t]
        /\ UNCHANGED <<retries, failures>>
    BY <1>1 DEF Publish
  <2>2. length + 1 \in Entries
    BY <1>0, <2>1 DEF Entries
  <2>3. \A e \in Entries : e # length + 1 => taskOf'[e] = taskOf[e]
    BY <1>0, <2>1
  <2>4. \A d \in 1..length : d \in Entries /\ d # length + 1 /\ d \in 1..length'
    BY <1>0, <2>1 DEF Entries
  <2>5. \A e \in Entries : e > length' => taskOf'[e] = NoTask
    BY <1>0, <2>1, <2>3 DEF Untried
  <2>6. \A u \in Tasks : (\A d \in 1..length' : taskOf'[d] # u) =>
            \A d \in 1..length : taskOf[d] # u
    BY <2>3, <2>4
  <2> QED
    BY <2>1, <2>5, <2>6 DEF Untried
<1>2. ASSUME NEW w \in Workers, HandlerRaises(w) \/ AckRaises(w) PROVE Untried'
  <2>1. UNCHANGED <<taskOf, length>>
    BY <1>2 DEF HandlerRaises, AckRaises
  <2>2. \A u \in Tasks : u # taskOf[Entry(w)] =>
            /\ failures'[u] = failures[u]
            /\ \A v \in Workers : retries'[v][u] = retries[v][u]
    BY <1>0, <1>2, FailureOf
  <2>3. Entry(w) \in 1..length
    BY <1>2, FailureOf
  <2> QED
    BY <2>1, <2>2, <2>3 DEF Untried
<1>3. ASSUME NEW w \in Workers,
             Ack(w) \/ DeadPush(w) \/ DeadPushRaises(w) \/ Crash(w)
      PROVE  Untried'
  <2>1. UNCHANGED <<taskOf, length, failures>>
    BY <1>3 DEF Ack, DeadPush, DeadPushRaises, Crash
  <2>2. \A v \in Workers, u \in Tasks : retries'[v][u] \in {retries[v][u], 0}
    BY <1>0, <1>3 DEF Ack, DeadPush, DeadPushRaises, Crash, Forget
  <2> QED
    BY <2>1, <2>2 DEF Untried
<1>4. ASSUME NEW w \in Workers,
             \/ ReadNew(w) \/ ReadNewRaises(w) \/ ReadNothing(w) \/ HandlerReturns(w)
             \/ DeadAck(w) \/ DeadAckRaises(w)
             \/ \E e \in Entries : ClaimStale(w, e) \/ ClaimStaleRaises(w, e)
      PROVE  Untried'
  <2>1. UNCHANGED <<taskOf, length, failures, retries>>
    BY <1>4 DEF ReadNew, ReadNewRaises, ReadNothing, HandlerReturns, DeadAck,
                DeadAckRaises, ClaimStale, ClaimStaleRaises
  <2> QED
    BY <2>1 DEF Untried
<1>5. CASE UNCHANGED vars
    BY <1>5 DEF vars, Untried
<1> QED
    BY <1>1, <1>2, <1>3, <1>4, <1>5 DEF Next, Poll, Raise

\* Publishing: an entry alone in its task is the new one, of a task not tried yet,
\* or was alone before.
LEMMA PublishOpens ==
    ASSUME TypeOK, Untried, NEW t \in Tasks, Publish(t),
           NEW e \in 1..(length + 1), Sole(e)',
           e <= length /\ Sole(e) => Open(e) \/ Over(e)
    PROVE  Open(e)' \/ Over(e)'
<1> USE DEF history, stream
<1>0. /\ length \in Nat
      /\ taskOf \in [Entries -> Tasks \cup {NoTask}]
      /\ Entries \subseteq Nat
      /\ length' = length + 1
      /\ length + 1 \in Entries
      /\ taskOf' = [taskOf EXCEPT ![length + 1] = t]
      /\ UNCHANGED <<lastRead, pending, consumer, retries, failures>>
    BY EntriesAreNumbers DEF TypeOK, Publish, Entries
<1>1. /\ \A d \in 1..length : d \in Entries /\ d # length + 1 /\ d \in 1..length' /\ taskOf'[d] = taskOf[d]
      /\ taskOf'[length + 1] = t
    BY <1>0 DEF Entries
<1>2. CASE e <= length
  <2>1. e \in 1..length /\ taskOf'[e] = taskOf[e]
    BY <1>0, <1>1, <1>2
  <2>2. Sole(e)
    BY <1>1, <2>1 DEF Sole
  <2> QED
    BY <1>0, <1>2, <2>1, <2>2 DEF Open, Over, Finished, Counted, At, Entry
<1>3. CASE ~(e <= length)
  <2>1. e = length + 1 /\ taskOf'[e] = t
    BY <1>0, <1>1, <1>3
  <2>2. \A d \in 1..length : taskOf[d] # t
    BY <1>1, <2>1 DEF Sole
  <2>3. failures[t] = 0 /\ \A w \in Workers : retries[w][t] = 0
    BY <2>2 DEF Untried
  <2>4. Cardinality(Counted(t)) \in Nat /\ Counted(t)' = Counted(t)
    BY <1>0, CountedBounded DEF Counted
  <2>5. \A w \in Workers : Entry(w) # e
    <3>1. lastRead \in Nat /\ lastRead <= length
      BY DEF TypeOK
    <3>2. \A w \in Workers : Entry(w) \in Nat /\ Entry(w) <= lastRead
      BY BusyEntry, EntriesAreNumbers DEF TypeOK
    <3> QED
      BY <1>0, <2>1, <3>1, <3>2
  <2> QED
    BY <1>0, <2>1, <2>3, <2>4, <2>5 DEF Open, Entry
<1> QED
    BY <1>2, <1>3

\* While nothing goes wrong, what is over stays so: its task has no other entry, and
\* nobody handles this one.
LEMMA OverStays ==
    ASSUME TypeOK, NEW e \in 1..length, Sole(e), Over(e), [Next]_vars, Quiet',
           UNCHANGED <<taskOf, length>>
    PROVE  Over(e)'
<1>0. e \in Entries /\ taskOf[e] \in Tasks /\ taskOf'[e] = taskOf[e]
    BY DEF TypeOK, Entries
<1>1. Finished(e)'
    BY <1>0, FinishedStays DEF Over, Quiet
<1>2. \A w \in Workers : ~Raise(w) /\ ~Crash(w)
    BY <1>0, FaultsShow
<1>3. ASSUME NEW w \in Workers, HandlerRaises(w)
      PROVE  failures'[taskOf[e]] = failures[taskOf[e]]
  <2>1. /\ Entry(w) # e
        /\ Entry(w) \in 1..length
        /\ failures' = [failures EXCEPT ![taskOf[Entry(w)]] = @ + 1]
    BY <1>3, FailureOf DEF Over, Finished, HandlerRaises, At
  <2>2. taskOf[Entry(w)] # taskOf[e]
    BY <2>1 DEF Sole
  <2> QED
    BY <1>0, <2>1, <2>2 DEF TypeOK
<1>4. (\A w \in Workers : ~HandlerRaises(w)) => failures' = failures
    BY <1>2 DEF Next, Poll, vars, history, Publish, ClaimStale, ReadNew, ReadNothing,
                HandlerReturns, Ack, DeadAck, DeadPush
<1> QED
    BY <1>0, <1>1, <1>3, <1>4 DEF Over

\* An open entry stays open, or one consumer is done with it.
LEMMA OpenStays ==
    ASSUME TypeOK, HandlingExclusive, Quiet, Quiet',
           NEW e \in 1..length, Sole(e), Open(e), NEW w \in Workers, Poll(w)
    PROVE  Open(e)' \/ Over(e)'
<1> USE DEF history, stream
<1> PICK t \in Tasks : t = taskOf[e]
    BY DEF TypeOK
<1>0. /\ retries \in [Workers -> [Tasks -> Nat]]
      /\ failures \in [Tasks -> Nat]
      /\ pending \in [Entries -> Workers \cup {NoWorker}]
      /\ e \in Entries
      /\ e # 0
      /\ taskOf[e] = t
    BY EntriesAreNumbers DEF TypeOK, Entries
<1>1. /\ UNCHANGED <<taskOf, length>>
      /\ taskOf'[e] = t
      /\ \A v \in Workers \ {w} : consumer'[v] = consumer[v]
  <2>1. UNCHANGED <<taskOf, length>>
    BY DEF Poll, ClaimStale, ReadNew, ReadNothing, HandlerReturns, HandlerRaises, Ack, DeadAck,
           DeadPush
  <2> QED
    BY <1>0, <2>1, PollMoves DEF Poll, Moves
<1>2. \A v \in Workers \ {w} : Entry(w) = e => Entry(v) # e
    BY <1>0 DEF HandlingExclusive, Quiet
<1>3. CASE /\ UNCHANGED failures
           /\ \A v \in Workers : retries'[v][t] = retries[v][t]
           /\ consumer'[w].entry = e => consumer'[w].step \in {"handle", "ack"}
  <2>1. Counted(t)' = Counted(t)
    BY <1>3 DEF Counted, Attempts
  <2> QED
    BY <1>0, <1>1, <1>3, <2>1 DEF Open, Entry
<1>4. CASE (\E d \in Entries : ClaimStale(w, d)) \/ ReadNew(w) \/ ReadNothing(w) \/ HandlerReturns(w)
  <2>1. UNCHANGED <<failures, retries>>
    BY <1>4 DEF ClaimStale, ReadNew, ReadNothing, HandlerReturns
  <2>2. consumer'[w].step \in {"handle", "ack"} \/ consumer'[w].entry = 0
    BY <1>4, PollMoves DEF Moves
  <2> QED
    BY <1>0, <1>3, <2>1, <2>2
<1>5. CASE HandlerRaises(w)
  <2>1. /\ At(w, "handle")
        /\ consumer[w].step \in BusySteps
        /\ UNCHANGED lastRead
    BY <1>5 DEF HandlerRaises, At, BusySteps
  <2>2. /\ Failed(w)
        /\ Entry(w) \in 1..length
        /\ retries' = [retries EXCEPT ![w][taskOf[Entry(w)]] = retries[w][taskOf[Entry(w)]] + 1]
        /\ failures' = [failures EXCEPT ![taskOf[Entry(w)]] = @ + 1]
    BY <1>5, FailureOf
  <2>3. CASE Entry(w) # e
    <3>1. taskOf[Entry(w)] # t
      BY <1>0, <2>2, <2>3 DEF Sole
    <3>2. /\ failures'[t] = failures[t]
          /\ \A v \in Workers : retries'[v][t] = retries[v][t]
      BY <1>0, <2>2, <3>1
    <3>3. Counted(t)' = Counted(t)
      BY <3>2 DEF Counted, Attempts
    <3>4. consumer'[w].entry # e
      BY <1>0, <1>5, <2>3, PollMoves DEF Moves
    <3> QED
      BY <1>0, <1>1, <3>2, <3>3, <3>4 DEF Open, Entry
  <2>4. CASE Entry(w) = e
    <3>1. /\ retries[w][t] < MaxRetries
          /\ retries[w][t] \in Nat
          /\ failures[t] \in Nat
          /\ failures[t] <= Cardinality(Counted(t))
          /\ failures'[t] = failures[t] + 1
          /\ \A v \in Workers : retries[v][t] < MaxRetries
          /\ \A v \in Workers : retries'[v][t] = IF v = w THEN retries[w][t] + 1 ELSE retries[v][t]
      BY <1>0, <2>2, <2>4 DEF Open
    <3>2. /\ Cardinality(Counted(t)) \in Nat
          /\ Cardinality(Attempts) \in Nat
          /\ Cardinality(Counted(t)) <= Cardinality(Attempts)
      BY CountedBounded
    <3>3. CASE retries[w][t] + 1 >= MaxRetries
      <4>1. consumer'[w].step = "dead_ack" /\ consumer'[w].entry = e
        <5>1. Goto(w, "dead_ack") /\ "dead_ack" \in BusySteps
          BY <1>0, <2>2, <2>4, <3>3 DEF Failed, BusySteps
        <5> QED
          BY <2>1, <2>4, <5>1, GotoEffect DEF Entry
      <4>2. e <= lastRead'
        BY <2>1, <2>4 DEF TypeOK
      <4>3. Finished(e)'
        BY <1>1, <1>2, <2>4, <4>1, <4>2 DEF Finished, Entry, At
      <4>4. failures'[t] <= Cardinality(Attempts) + 1
        BY <3>1, <3>2
      <4> QED
        BY <1>1, <4>3, <4>4 DEF Over
    <3>4. CASE ~(retries[w][t] + 1 >= MaxRetries)
      <4>1. consumer'[w].entry = 0
        <5>1. Return(w)
          BY <1>0, <2>2, <2>4, <3>4 DEF Failed
        <5> QED
          BY <5>1, ReturnEffect
      <4>2. Cardinality(Counted(t)') = Cardinality(Counted(t)) + 1
        <5>1. retries' = [retries EXCEPT ![w][t] = retries[w][t] + 1]
          BY <1>0, <2>2, <2>4
        <5>2. retries[w][t] + 1 < MaxRetries
          BY <3>1, <3>4
        <5> QED
          BY <5>1, <5>2, OneMoreCounted
      <4>3. failures'[t] <= Cardinality(Counted(t)')
        BY <3>1, <3>2, <4>2
      <4>4. \A v \in Workers : retries'[v][t] < MaxRetries
        BY <3>1, <3>4
      <4> QED
        BY <1>0, <1>1, <1>2, <2>4, <4>1, <4>3, <4>4 DEF Open, Entry
    <3> QED
      BY <3>3, <3>4
  <2> QED
    BY <2>3, <2>4
<1>6. CASE Ack(w) \/ DeadAck(w) \/ DeadPush(w)
  <2> PICK k : k = Entry(w)
    OBVIOUS
  <2>1. /\ At(w, "ack") \/ At(w, "dead_ack") \/ At(w, "dead_push")
        /\ k \in 1..length
        /\ consumer'[w].entry \in {0, k}
        /\ UNCHANGED <<failures, lastRead>>
    BY <1>6, BusyEntry, PollMoves DEF Moves, Ack, DeadAck, DeadPush, At, BusySteps
  <2>2. \A v \in Workers : retries'[v][t] = retries[v][t] \/ taskOf[k] = t
    BY <1>0, <1>6 DEF Ack, DeadAck, DeadPush, Forget
  <2>3. CASE k # e
    <3>1. taskOf[k] # t
      BY <1>0, <2>1, <2>3 DEF Sole
    <3> QED
      BY <1>0, <1>3, <2>1, <2>2, <2>3, <3>1
  <2>4. CASE k = e
    <3>1. Ack(w)
      BY <1>6, <2>4 DEF Open, DeadAck, DeadPush, At
    <3>2. pending'[e] = NoWorker /\ consumer'[w].entry = 0
      BY <1>0, <2>4, <3>1, PollMoves DEF Ack, Unpend, Moves
    <3>3. Finished(e)'
      <4>1. e <= lastRead'
        BY <2>1, <2>4 DEF TypeOK
      <4> QED
        BY <1>0, <1>1, <1>2, <2>4, <3>2, <4>1 DEF Finished, Entry
    <3>4. failures'[t] <= Cardinality(Attempts) + 1
      <4>1. failures[t] \in Nat /\ Cardinality(Attempts) \in Nat
            /\ Cardinality(Counted(t)) \in Nat /\ Cardinality(Counted(t)) <= Cardinality(Attempts)
        BY <1>0, CountedBounded
      <4> QED
        BY <1>0, <2>1, <4>1 DEF Open
    <3> QED
      BY <1>1, <3>3, <3>4 DEF Over
  <2> QED
    BY <2>3, <2>4
<1> QED
    BY <1>4, <1>5, <1>6 DEF Poll

\* Every action keeps OpenOrOver.
LEMMA OpenOrOverStep ==
    TypeOK /\ HandlingExclusive /\ Untried /\ OpenOrOver /\ [Next]_vars => OpenOrOver'
<1> SUFFICES ASSUME TypeOK, HandlingExclusive, Untried, OpenOrOver, [Next]_vars,
                    Quiet', NEW e \in 1..length', Sole(e)'
             PROVE  Open(e)' \/ Over(e)'
    BY DEF OpenOrOver
<1> USE DEF history, stream
<1>1. e \in Entries
  <2>1. TypeOK'
    BY TypeStep
  <2>2. length' \in 0..MaxEntries
    BY <2>1 DEF TypeOK
  <2> QED
    BY <2>2 DEF Entries
<1>2. \A w \in Workers : ~Raise(w) /\ ~Crash(w)
    BY <1>1, FaultsShow
<1>3. Quiet
  <2>1. faults' = faults
    BY <1>2 DEF Next, vars, Publish, Poll, ClaimStale, ReadNew, ReadNothing, HandlerReturns,
                HandlerRaises, Ack, DeadAck, DeadPush
  <2> QED
    BY <2>1, HistoryGrows DEF Quiet
<1>4. ASSUME NEW t \in Tasks, Publish(t) PROVE Open(e)' \/ Over(e)'
  <2>1. length' = length + 1 /\ length \in Nat
    BY <1>4 DEF Publish, TypeOK
  <2>2. e <= length /\ Sole(e) => Open(e) \/ Over(e)
    BY <1>3, <2>1 DEF OpenOrOver
  <2> QED
    BY <1>4, <2>1, <2>2, PublishOpens
<1>5. CASE UNCHANGED <<taskOf, length>>
  <2>1. e \in 1..length /\ Sole(e)
    BY <1>5 DEF Sole
  <2>2. Open(e) \/ Over(e)
    BY <1>3, <2>1 DEF OpenOrOver
  <2>3. ASSUME NEW w \in Workers, Poll(w), Open(e) PROVE Open(e)' \/ Over(e)'
    BY <1>3, <2>1, <2>3, OpenStays
  <2>4. CASE UNCHANGED vars
    BY <2>2, <2>4 DEF vars, Open, Over, Finished, Counted, Entry, At
  <2>5. ASSUME NEW t \in Tasks, Publish(t) PROVE FALSE
    BY <1>5, <2>5 DEF Publish, TypeOK
  <2> QED
    BY <1>2, <1>5, <2>1, <2>2, <2>3, <2>4, <2>5, OverStays DEF Next
<1>6. (\A t \in Tasks : ~Publish(t)) => UNCHANGED <<taskOf, length>>
    BY <1>2 DEF Next, vars, Poll, ClaimStale, ReadNew, ReadNothing, HandlerReturns,
                HandlerRaises, Ack, DeadAck, DeadPush
<1> QED
    BY <1>4, <1>5, <1>6

\* A task with one entry among all has it among those added.
LEMMA OneEntryIsSole ==
    ASSUME TypeOK, Untried, NEW t \in Tasks,
           Cardinality({e \in Entries : taskOf[e] = t}) = 1
    PROVE  \E e \in 1..length : Sole(e) /\ taskOf[e] = t
<1> DEFINE S == {e \in Entries : taskOf[e] = t}
<1>1. IsFiniteSet(S)
    BY FS_Interval, FS_Subset DEF Entries
<1>2. PICK e : S = {e}
    BY <1>1, FS_Singleton
<1>3. e \in Entries /\ taskOf[e] = t /\ length \in Nat /\ length <= MaxEntries
    BY <1>2 DEF TypeOK
<1>4. e \in 1..length
    BY <1>3, EntriesAreNumbers DEF Untried, Entries
<1>5. Sole(e)
    BY <1>2, <1>3 DEF Sole, Entries
<1> QED
    BY <1>3, <1>4, <1>5

\* For any number of consumers and any max_retries: as long as nothing goes wrong,
\* the only entry of a task fails at most max_retries - 1 times for every consumer
\* and once more, for each consumer counts for itself
\* (TaskStreamConsumer._handle_message, _retry_counts).
THEOREM AttemptsAreBounded == Spec => []AttemptsBounded
<1>1. Init => AttemptsCounted
  <2> SUFFICES ASSUME Init PROVE AttemptsCounted
    OBVIOUS
  <2>1. length = 0 /\ 1..length = {}
    BY DEF Init
  <2>2. Untried
    BY DEF Init, Untried
  <2> QED
    BY <2>1, <2>2 DEF AttemptsCounted, OpenOrOver
<1>2. TypeOK /\ HandlingExclusive /\ AttemptsCounted /\ [Next]_vars => AttemptsCounted'
    BY UntriedStep, OpenOrOverStep DEF AttemptsCounted
<1>3. TypeOK /\ AttemptsCounted => AttemptsBounded
  <2> SUFFICES ASSUME TypeOK, AttemptsCounted, Quiet, NEW t \in Tasks,
                      Cardinality({e \in Entries : taskOf[e] = t}) = 1
               PROVE  failures[t] <= Cardinality(Workers) * (MaxRetries - 1) + 1
    BY DEF AttemptsBounded, Quiet
  <2>1. PICK e \in 1..length : Sole(e) /\ taskOf[e] = t
    BY OneEntryIsSole DEF AttemptsCounted
  <2>2. Open(e) \/ Over(e)
    BY <2>1 DEF AttemptsCounted, OpenOrOver
  <2>3. /\ Cardinality(Attempts) = Cardinality(Workers) * (MaxRetries - 1)
        /\ Cardinality(Attempts) \in Nat
        /\ Cardinality(Counted(t)) \in Nat
        /\ Cardinality(Counted(t)) <= Cardinality(Attempts)
        /\ failures[t] \in Nat
    BY CountedBounded DEF TypeOK
  <2>4. failures[t] <= Cardinality(Attempts) + 1
    BY <2>1, <2>2, <2>3 DEF Open, Over
  <2> QED
    BY <2>3, <2>4
<1> QED
    BY <1>1, <1>2, <1>3, TypeCorrect, ConsumersKeptApart, PTL DEF Spec

----------------------------------------------------------------------------
(* What the group gives out again.                                         *)

\* Failed and not handled by anyone, an entry waits for XAUTOCLAIM.
Stuck(e) == pending[e] # NoWorker /\ ~BeingHandled(e)

\* What each step does to an entry that was given to the group and that nobody is at:
\* only a claim gives it to a handler, and nothing acknowledges it.
LEMMA IdleEntry ==
    ASSUME TypeOK, [Next]_vars, NEW e \in Entries, e <= lastRead, ~BeingHandled(e)
    PROVE  \/ \E w \in Workers : pending[e] # NoWorker /\ pending'[e] = w
                                 /\ (BeingHandled(e)' => Handleable(e))
           \/ pending'[e] = pending[e] /\ ~BeingHandled(e)'
<1> USE DEF history, stream
<1>0. /\ e # 0 /\ e \in Nat
      /\ lastRead \in Nat
      /\ pending \in [Entries -> Workers \cup {NoWorker}]
    BY EntriesAreNumbers, LastReadTyped DEF TypeOK
<1>1. ASSUME NEW w \in Workers, NEW d \in Entries, ClaimStale(w, d) \/ ClaimStaleRaises(w, d)
      PROVE  \/ pending[e] # NoWorker /\ pending'[e] = w /\ (BeingHandled(e)' => Handleable(e))
             \/ pending'[e] = pending[e] /\ ~BeingHandled(e)'
  <2>1. /\ pending[d] # NoWorker
        /\ pending' = [pending EXCEPT ![d] = w]
        /\ \/ consumer'[w].entry = 0
           \/ consumer'[w].entry = d /\ Handleable(d)
    <3>1. CASE ClaimStaleRaises(w, d)
      BY <3>1, PollMoves DEF ClaimStaleRaises, Moves
    <3>2. CASE ClaimStale(w, d) /\ Handleable(d)
      BY <3>2, PollMoves DEF ClaimStale, Moves
    <3>3. CASE ClaimStale(w, d) /\ ~Handleable(d)
      BY <3>3 DEF ClaimStale, TypeOK, Reading
    <3> QED
      BY <1>1, <3>1, <3>2, <3>3
  <2>2. \A v \in Workers \ {w} : consumer'[v] = consumer[v]
    BY <1>1, PollMoves DEF Moves
  <2> QED
    BY <1>0, <2>1, <2>2 DEF BeingHandled, Entry
<1>2. ASSUME NEW w \in Workers, ReadNew(w) \/ ReadNewRaises(w)
      PROVE  pending'[e] = pending[e] /\ ~BeingHandled(e)'
  <2> PICK n : n = NextUnread
    OBVIOUS
  <2>1. /\ pending' = [pending EXCEPT ![n] = w]
        /\ consumer'[w].entry \in {0, n}
        /\ \A v \in Workers \ {w} : consumer'[v] = consumer[v]
    BY <1>2, PollMoves DEF Moves, ReadNew, ReadNewRaises
  <2>2. n > lastRead /\ n \in Nat
    BY LastReadTyped DEF NextUnread, TypeOK
  <2> QED
    BY <1>0, <2>1, <2>2 DEF BeingHandled, Entry
<1>3. ASSUME NEW w \in Workers,
             \/ ReadNothing(w) \/ HandlerReturns(w) \/ HandlerRaises(w) \/ Ack(w)
             \/ DeadAck(w) \/ DeadPush(w)
             \/ AckRaises(w) \/ DeadAckRaises(w) \/ DeadPushRaises(w) \/ Crash(w)
      PROVE  pending'[e] = pending[e] /\ ~BeingHandled(e)'
  <2>1. \A d \in Entries \ {Entry(w)} : pending'[d] = pending[d]
    BY <1>0, <1>3 DEF ReadNothing, HandlerReturns, HandlerRaises, Ack, DeadAck, DeadPush,
                      AckRaises, DeadAckRaises, DeadPushRaises, Crash, PerhapsUnpend, Unpend
  <2>2. /\ consumer'[w].entry \in {0, Entry(w)}
        /\ \A v \in Workers \ {w} : consumer'[v] = consumer[v]
    BY <1>3, PollMoves DEF Moves
  <2> QED
    BY <1>0, <2>1, <2>2 DEF BeingHandled, Entry
<1>4. CASE UNCHANGED vars \/ \E t \in Tasks : Publish(t)
    BY <1>4 DEF vars, Publish, BeingHandled, Entry
<1> QED
    BY <1>1, <1>2, <1>3, <1>4 DEF Next, Poll, Raise

\* With the reply of Redis 7 nothing is handled twice: an entry that failed once, or
\* whose consumer died, is pending for ever, and no consumer comes back to it. This
\* is why EventuallySettled fails there, for any number of consumers and retries
\* ("_, stale = xautoclaim(...)", TaskStreamConsumer._poll_redis).
THEOREM StuckForEver ==
    ASSUME ReplyParts = 3, NEW e \in Entries
    PROVE  Spec => [](Stuck(e) => []Stuck(e))
<1>1. TypeOK /\ Stuck(e) /\ [Next]_vars => Stuck(e)'
  <2> SUFFICES ASSUME TypeOK, Stuck(e), [Next]_vars PROVE Stuck(e)'
    OBVIOUS
  <2>1. e <= lastRead
    BY DEF Stuck, TypeOK
  <2>2. ~Handleable(e)
    BY DEF Handleable
  <2> QED
    BY <2>1, <2>2, IdleEntry DEF Stuck
<1> QED
    BY <1>1, TypeCorrect, PTL DEF Spec

\* Nothing that was given to the group becomes pending but what is pending.
LEMMA StaysAcknowledged ==
    ASSUME TypeOK, [Next]_vars, NEW e \in Entries, e <= lastRead, pending[e] = NoWorker
    PROVE  pending'[e] = NoWorker /\ e <= lastRead'
<1> USE DEF history, stream
<1>0. /\ e \in Nat
      /\ lastRead \in Nat
      /\ pending \in [Entries -> Workers \cup {NoWorker}]
    BY EntriesAreNumbers, LastReadTyped DEF TypeOK
<1>1. ASSUME NEW w \in Workers, NEW d \in Entries, ClaimStale(w, d) \/ ClaimStaleRaises(w, d)
      PROVE  pending'[e] = NoWorker /\ e <= lastRead'
  <2>1. /\ pending[d] # NoWorker
        /\ pending' = [pending EXCEPT ![d] = w]
        /\ lastRead' = lastRead
    BY <1>1 DEF ClaimStale, ClaimStaleRaises
  <2> QED
    BY <1>0, <2>1
<1>2. ASSUME NEW w \in Workers, ReadNew(w) \/ ReadNewRaises(w)
      PROVE  pending'[e] = NoWorker /\ e <= lastRead'
  <2> PICK n : n = NextUnread
    OBVIOUS
  <2>1. pending' = [pending EXCEPT ![n] = w] /\ lastRead' = n
    BY <1>2 DEF ReadNew, ReadNewRaises
  <2>2. n > lastRead /\ n \in Nat
    BY LastReadTyped DEF NextUnread, TypeOK
  <2> QED
    BY <1>0, <2>1, <2>2
<1>3. ASSUME NEW w \in Workers,
             \/ ReadNothing(w) \/ HandlerReturns(w) \/ HandlerRaises(w) \/ Ack(w)
             \/ DeadAck(w) \/ DeadPush(w)
             \/ AckRaises(w) \/ DeadAckRaises(w) \/ DeadPushRaises(w) \/ Crash(w)
      PROVE  pending'[e] = NoWorker /\ e <= lastRead'
    BY <1>0, <1>3 DEF ReadNothing, HandlerReturns, HandlerRaises, Ack, DeadAck, DeadPush,
                      AckRaises, DeadAckRaises, DeadPushRaises, Crash, PerhapsUnpend, Unpend
<1>4. CASE UNCHANGED vars \/ \E t \in Tasks : Publish(t)
    BY <1>4 DEF vars, Publish
<1> QED
    BY <1>1, <1>2, <1>3, <1>4 DEF Next, Poll, Raise

\* An entry that was acknowledged never comes back to the pending list: XREADGROUP
\* gives what is new and XAUTOCLAIM what is pending.
SettledStays ==
    [][\A e \in Entries : Settled(e) => Settled(e)' \/ e < first']_vars

\* For any number of consumers: what was acknowledged is not delivered again.
THEOREM AcknowledgedForGood == Spec => SettledStays
<1> DEFINE A == \A e \in Entries : Settled(e) => Settled(e)' \/ e < first'
<1>1. TypeOK /\ [Next]_vars => A
  <2> SUFFICES ASSUME TypeOK, [Next]_vars, NEW e \in Entries, Settled(e)
               PROVE  Settled(e)' \/ e < first'
    OBVIOUS
  <2>1. pending'[e] = NoWorker /\ e <= lastRead'
    BY StaysAcknowledged DEF Settled
  <2>2. first' \in 1..(length' + 1) /\ length' \in 0..MaxEntries
    BY TypeStep DEF TypeOK
  <2>3. first' \in Nat /\ e \in Nat
    BY <2>2, EntriesAreNumbers
  <2> QED
    BY <2>1, <2>3 DEF Settled
<1> QED
    BY <1>1, TypeCorrect, PTL DEF Spec, SettledStays
=============================================================================
