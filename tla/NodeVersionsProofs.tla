-------------------------- MODULE NodeVersionsProofs --------------------------
(***************************************************************************)
(* Proofs about NodeVersions for every set of processes, threads, nodes    *)
(* and links and every number of calls.                                    *)
(***************************************************************************)
EXTENDS NodeVersions, FiniteSetTheorems, TLAPS

USE LinksAssumption, CreatorAssumption, NodesAssumption, BoundAssumption, GoneAssumption

(***************************************************************************)
(* Versions grow by one with each update, so no version exceeds the number *)
(* of calls by more than one; an update that is about to write has read no *)
(* version higher than its own number.                                     *)
(***************************************************************************)
PropsOK(p, k) == p \in Properties /\ p.version <= k + 1

CallOK(c, k) == /\ c \in Calls
                /\ c.seen.version <= k + 1
                /\ c.id <= k
                /\ c.step = "update_write" => 1 <= c.id /\ c.seen.version <= c.id

StoreOK == /\ stored \in [Nodes -> Properties \cup {Gone}]
           /\ local \in [Processes -> [Nodes -> Properties \cup {Gone}]]
           /\ \A n \in Nodes : stored[n] # Gone => PropsOK(stored[n], calls)
           /\ \A p \in Processes, n \in Nodes :
                local[p][n] # Gone => PropsOK(local[p][n], calls)

CallsOK == /\ call \in [Workers -> Calls]
           /\ \A w \in Workers : CallOK(call[w], calls)

RestOK == /\ links \in SUBSET Links
          /\ recorded \in [Nodes -> SUBSET Updates]
          /\ raced \in SUBSET Nodes
          /\ mismatched \in SUBSET Nodes
          /\ owed \in SUBSET Nodes
          /\ calls \in 0..MaxCalls

TypeInv == StoreOK /\ CallsOK /\ RestOK

\* The process of a worker.
LEMMA WorkerProcess == ASSUME NEW w \in Workers PROVE Process(w) \in Processes
BY DEF Workers, Process

\* Properties that are in order stay so when more calls have been made.
LEMMA Later ==
  ASSUME NEW k \in Nat, NEW p, PropsOK(p, k)
  PROVE  PropsOK(p, k + 1)
BY DEF PropsOK, Properties, Versions

\* The properties of a node without known properties are in order.
LEMMA BlankOK ==
  ASSUME NEW k \in Nat
  PROVE  PropsOK(Blank, k)
BY DEF PropsOK, Blank, Properties, Versions, Updates

\* What get_node returns is in order.
LEMMA ReadOK ==
  ASSUME StoreOK, RestOK, NEW w \in Workers, NEW n \in Nodes
  PROVE  PropsOK(Read(w, n), calls)
<1>1. Process(w) \in Processes /\ calls \in Nat
  BY WorkerProcess DEF RestOK
<1> QED
  BY <1>1, BlankOK DEF Read, StoreOK

\* So is a worker without a call.
LEMMA IdleOK ==
  ASSUME NEW n \in Nodes, NEW k \in Nat
  PROVE  CallOK(Idle(n), k)
<1>1. Blank \in Properties /\ Blank.version = 1
  BY DEF Blank, Properties, Versions, Updates
<1>2. Idle(n) \in Calls
  BY <1>1 DEF Idle, Calls, Steps, NoVersion
<1> QED
  BY <1>1, <1>2 DEF CallOK, Idle

\* A call that begins to update or to confirm a node.
LEMMA UpdateCallOK ==
  ASSUME NEW n \in Nodes, NEW k \in Nat, k < MaxCalls, NEW p, PropsOK(p, k),
         NEW expected \in Versions \cup {NoVersion}
  PROVE  CallOK([Idle(n) EXCEPT !.step = "update_write", !.id = k + 1,
                                !.expected = expected, !.seen = p], k + 1)
<1> DEFINE c == [Idle(n) EXCEPT !.step = "update_write", !.id = k + 1,
                                !.expected = expected, !.seen = p]
<1>1. p \in Properties /\ p.version <= k + 1 /\ p.version \in Nat
  BY DEF PropsOK, Properties, Versions
<1>2. k + 1 \in 0..MaxCalls
  OBVIOUS
<1>3. c \in Calls
  BY <1>1, <1>2 DEF Calls, Steps, Idle
<1>4. c.step = "update_write" /\ c.id = k + 1 /\ c.seen = p
  BY DEF Idle
<1> QED
  BY <1>1, <1>3, <1>4 DEF CallOK

\* A call that begins to confirm a node.
LEMMA ConfirmCallOK ==
  ASSUME NEW n \in Nodes, NEW k \in Nat, k < MaxCalls, NEW p, PropsOK(p, k)
  PROVE  CallOK([Idle(n) EXCEPT !.step = "confirm_write", !.seen = p], k + 1)
<1> DEFINE c == [Idle(n) EXCEPT !.step = "confirm_write", !.seen = p]
<1>1. p \in Properties /\ p.version <= k + 1 /\ p.version \in Nat
  BY DEF PropsOK, Properties, Versions
<1>2. 0 \in 0..MaxCalls
  OBVIOUS
<1>3. c \in Calls
  BY <1>1, <1>2 DEF Calls, Steps, Idle, NoVersion
<1>4. c.step = "confirm_write" /\ c.id = 0 /\ c.seen = p
  BY DEF Idle
<1> QED
  BY <1>1, <1>3, <1>4 DEF CallOK

\* A call that goes on to another step, with other properties in sight.
LEMMA StepCallOK ==
  ASSUME NEW k \in Nat, NEW b, CallOK(b, k), NEW c \in Calls,
         c.step # "update_write", c.id = b.id, c.seen.version <= k + 1
  PROVE  CallOK(c, k)
BY DEF CallOK

\* A call one of whose reads was overtaken by a write.
LEMMA LateCallOK ==
  ASSUME NEW k \in Nat, NEW b, CallOK(b, k)
  PROVE  CallOK([b EXCEPT !.late = TRUE], k)
<1> DEFINE c == [b EXCEPT !.late = TRUE]
<1>1. b \in Calls
  BY DEF CallOK
<1>2. c \in Calls
  BY <1>1 DEF Calls
<1>3. c.seen = b.seen /\ c.id = b.id /\ c.step = b.step
  BY <1>1 DEF Calls
<1> QED
  BY <1>2, <1>3 DEF CallOK

\* A call in order stays so when more calls have been made.
LEMMA LaterCall ==
  ASSUME NEW k \in Nat, NEW c, CallOK(c, k)
  PROVE  CallOK(c, k + 1)
BY DEF CallOK, Calls, Properties, Versions

\* Calls stay in order when one goes on.
LEMMA GotoOK ==
  ASSUME CallsOK, NEW w \in Workers, NEW c, CallOK(c, calls), Goto(w, c),
         UNCHANGED calls
  PROVE  CallsOK'
BY DEF CallsOK, CallOK, Goto

\* ... when one begins.
LEMMA BeginOK ==
  ASSUME CallsOK, RestOK, NEW w \in Workers, NEW c, CallOK(c, calls + 1), Begin(w, c)
  PROVE  CallsOK' /\ calls' \in 0..MaxCalls
<1>1. calls \in Nat /\ calls' = calls + 1 /\ calls' \in 0..MaxCalls
  BY DEF RestOK, Begin
<1>2. \A v \in Workers : CallOK(call[v], calls')
  BY <1>1, LaterCall DEF CallsOK
<1>3. \A v \in Workers : CallOK(call'[v], calls')
  BY <1>1, <1>2 DEF CallsOK, Begin
<1>4. call' \in [Workers -> Calls]
  BY DEF CallsOK, CallOK, Begin
<1> QED
  BY <1>1, <1>3, <1>4 DEF CallsOK

\* ... and when one writes.
LEMMA WroteOK ==
  ASSUME CallsOK, NEW k \in Nat, NEW w \in Workers, NEW n, NEW c, CallOK(c, k),
         \A v \in Workers : CallOK(call[v], k), Wrote(w, n, c), calls' = k
  PROVE  CallsOK'
<1>1. \A v \in Workers : CallOK(call'[v], k)
  BY LateCallOK DEF Wrote
<1>2. call' \in [Workers -> Calls]
  BY <1>1, LateCallOK DEF Wrote, CallOK
<1> QED
  BY <1>1, <1>2 DEF CallsOK

\* A write keeps the nodes in order.
LEMMA AddNodeOK ==
  ASSUME StoreOK, RestOK, NEW w \in Workers, NEW n \in Nodes, NEW p,
         PropsOK(p, calls), AddNode(w, n, p), UNCHANGED calls
  PROVE  /\ StoreOK'
         /\ raced' \in SUBSET Nodes /\ raced \subseteq raced'
         /\ links' \in SUBSET Links
<1>1. Process(w) \in Processes
  BY WorkerProcess
<1>2. p \in Properties
  BY DEF PropsOK
<1>3. /\ stored' \in [Nodes -> Properties \cup {Gone}]
      /\ local' \in [Processes -> [Nodes -> Properties \cup {Gone}]]
  BY <1>1, <1>2 DEF AddNode, StoreOK
<1>4. \A m \in Nodes : stored'[m] # Gone => PropsOK(stored'[m], calls)
  BY DEF AddNode, StoreOK
<1>5. \A q \in Processes, m \in Nodes : local'[q][m] # Gone => PropsOK(local'[q][m], calls)
  BY <1>1 DEF AddNode, StoreOK
<1>6. raced' \in SUBSET Nodes /\ raced \subseteq raced' /\ links' \in SUBSET Links
  BY DEF AddNode, RestOK
<1> QED
  BY <1>3, <1>4, <1>5, <1>6 DEF StoreOK, PropsOK

\* The properties an update writes.
LEMMA MergedOK ==
  ASSUME NEW k \in 0..MaxCalls, NEW c, CallOK(c, k), c.step = "update_write"
  PROVE  PropsOK([c.seen EXCEPT !.merged = @ \cup {c.id}, !.version = @ + 1], k)
<1> DEFINE p == [c.seen EXCEPT !.merged = @ \cup {c.id}, !.version = @ + 1]
<1>1. /\ c.seen \in Properties /\ c.id \in 1..MaxCalls /\ c.id <= k
      /\ c.seen.version <= c.id
  BY DEF CallOK, Calls
<1>2. c.seen.version + 1 \in Versions /\ c.seen.version + 1 <= k + 1
  BY <1>1 DEF Properties, Versions
<1>3. c.seen.merged \cup {c.id} \in SUBSET Updates
  BY <1>1 DEF Properties, Updates
<1>4. p \in Properties /\ p.version = c.seen.version + 1
  BY <1>1, <1>2, <1>3 DEF Properties
<1> QED
  BY <1>2, <1>4 DEF PropsOK

\* The properties that set or clear the flag.
LEMMA FlaggedOK ==
  ASSUME NEW k \in Nat, NEW p, PropsOK(p, k), NEW b \in BOOLEAN
  PROVE  PropsOK([p EXCEPT !.stale = b], k)
BY DEF PropsOK, Properties

\* No step breaks a type or takes a version past its bound.
LEMMA TypeKept ==
  ASSUME TypeInv, [Next]_vars
  PROVE  TypeInv'
<1> USE DEF TypeInv
<1>0. /\ calls \in Nat /\ calls \in 0..MaxCalls
      /\ call \in [Workers -> Calls]
      /\ \A w \in Workers : CallOK(call[w], calls)
  BY DEF RestOK, CallsOK
<1>a. ASSUME UNCHANGED graph, calls' \in {calls, calls + 1}
      PROVE  StoreOK'
  BY <1>0, <1>a, Later DEF StoreOK, graph
<1>1. ASSUME NEW w \in Workers, NEW n \in Nodes, NEW x \in Versions \cup {NoVersion},
             UpdateRead(w, n, x)
      PROVE  TypeInv'
  <2>1. PropsOK(Read(w, n), calls)
    BY ReadOK
  <2>2. calls < MaxCalls /\ calls' = calls + 1
    BY <1>1 DEF UpdateRead, Begin
  <2>3. CallsOK' /\ calls' \in 0..MaxCalls
    BY <1>0, <1>1, <2>1, <2>2, UpdateCallOK, BeginOK DEF UpdateRead
  <2>4. StoreOK'
    BY <1>1, <1>a, <2>2 DEF UpdateRead
  <2>5. recorded' \in [Nodes -> SUBSET Updates]
    <3>1. Read(w, n).merged \in SUBSET Updates
      BY <2>1 DEF PropsOK, Properties
    <3> QED
      BY <1>1, <3>1 DEF UpdateRead, RestOK
  <2> QED
    BY <1>1, <2>3, <2>4, <2>5 DEF UpdateRead, RestOK, graph
<1>2. ASSUME NEW w \in Workers, UpdateWrite(w)
      PROVE  TypeInv'
  <2> DEFINE c == call[w]
             p == [c.seen EXCEPT !.merged = @ \cup {c.id}, !.version = @ + 1]
             d == [c EXCEPT !.step = "update_record", !.seen = p]
  <2>1. c \in Calls /\ CallOK(c, calls) /\ c.step = "update_write"
    BY <1>0, <1>2 DEF UpdateWrite, At
  <2>2. PropsOK(p, calls)
    BY <1>0, <2>1, MergedOK
  <2>3. c.node \in Nodes
    BY <2>1 DEF Calls
  <2>4. CallOK(d, calls)
    <3>1. d \in Calls
      BY <2>1, <2>2 DEF PropsOK, Calls, Steps
    <3>2. d.id = c.id /\ d.seen = p /\ d.step = "update_record"
      BY <2>1 DEF Calls
    <3> QED
      BY <1>0, <2>1, <2>2, <3>1, <3>2, StepCallOK DEF PropsOK
  <2>5. AddNode(w, c.node, p) /\ Wrote(w, c.node, d) /\ calls' = calls
    BY <1>2 DEF UpdateWrite
  <2>6. /\ StoreOK' /\ raced' \in SUBSET Nodes /\ links' \in SUBSET Links
    BY <2>2, <2>3, <2>5, AddNodeOK
  <2>7. CallsOK'
    BY <1>0, <2>4, <2>5, WroteOK
  <2>8. mismatched' \in SUBSET Nodes /\ owed' \in SUBSET Nodes
    BY <1>2, <2>3 DEF UpdateWrite, RestOK, Downstream
  <2> QED
    BY <1>2, <2>5, <2>6, <2>7, <2>8 DEF UpdateWrite, RestOK
<1>3. ASSUME NEW w \in Workers, UpdateRecord(w)
      PROVE  TypeInv'
  <2> DEFINE c == call[w]
             d == [c EXCEPT !.step = "stale_list"]
  <2>1. c \in Calls /\ CallOK(c, calls)
    BY <1>0
  <2>2. CallOK(d, calls)
    <3>1. d \in Calls
      BY <2>1 DEF Calls, Steps
    <3>2. d.id = c.id /\ d.seen = c.seen /\ d.step = "stale_list"
      BY <2>1 DEF Calls
    <3> QED
      BY <1>0, <2>1, <3>1, <3>2, StepCallOK DEF CallOK
  <2>3. CallsOK'
    BY <1>3, <2>2, GotoOK DEF UpdateRecord
  <2>4. StoreOK'
    BY <1>3, <1>a DEF UpdateRecord
  <2>5. recorded' \in [Nodes -> SUBSET Updates]
    <3>1. c.seen.merged \in SUBSET Updates
      BY <2>1 DEF Calls, Properties
    <3> QED
      BY <1>3, <3>1 DEF UpdateRecord, RestOK
  <2> QED
    BY <1>3, <2>3, <2>4, <2>5 DEF UpdateRecord, RestOK, graph
<1>4. ASSUME NEW w \in Workers, StaleList(w)
      PROVE  TypeInv'
  <2> DEFINE c == call[w]
             D == IF Exists(c.node) THEN Downstream(c.node) ELSE {}
             d == [c EXCEPT !.step = "stale_read", !.todo = D]
  <2>1. c \in Calls /\ CallOK(c, calls) /\ D \in SUBSET Nodes
    BY <1>0 DEF Downstream
  <2>2. CallOK(d, calls)
    <3>1. d \in Calls
      BY <2>1 DEF Calls, Steps
    <3>2. d.id = c.id /\ d.seen = c.seen /\ d.step = "stale_read"
      BY <2>1 DEF Calls
    <3> QED
      BY <1>0, <2>1, <3>1, <3>2, StepCallOK DEF CallOK
  <2>3. CallsOK'
    BY <1>4, <2>2, GotoOK DEF StaleList
  <2>4. StoreOK'
    BY <1>4, <1>a DEF StaleList
  <2> QED
    BY <1>4, <2>3, <2>4 DEF StaleList, RestOK, graph
<1>5. ASSUME NEW w \in Workers, NEW m \in Nodes, StaleRead(w, m)
      PROVE  TypeInv'
  <2> DEFINE c == [call[w] EXCEPT !.todo = @ \ {m}]
             d == [c EXCEPT !.step = "stale_write", !.next = m,
                            !.seen = Read(w, m), !.late = FALSE]
  <2>0. call[w] \in Calls /\ CallOK(call[w], calls) /\ call[w].step = "stale_read"
    BY <1>0, <1>5 DEF StaleRead, At
  <2>1. c \in Calls
    BY <2>0 DEF Calls
  <2>2. CallOK(c, calls)
    <3>1. c.id = call[w].id /\ c.seen = call[w].seen /\ c.step = "stale_read"
      BY <2>0 DEF Calls
    <3> QED
      BY <1>0, <2>0, <2>1, <3>1, StepCallOK DEF CallOK
  <2>3. PropsOK(Read(w, m), calls)
    BY ReadOK
  <2>4. CallOK(d, calls)
    <3>1. d \in Calls
      BY <2>1, <2>3 DEF PropsOK, Calls, Steps
    <3>2. d.id = c.id /\ d.seen = Read(w, m) /\ d.step = "stale_write"
      BY <2>1 DEF Calls
    <3> QED
      BY <1>0, <2>2, <2>3, <3>1, <3>2, StepCallOK DEF PropsOK
  <2>5. CallsOK'
    BY <1>5, <2>2, <2>4, GotoOK DEF StaleRead
  <2>6. StoreOK'
    BY <1>5, <1>a DEF StaleRead
  <2> QED
    BY <1>5, <2>5, <2>6 DEF StaleRead, RestOK, graph
<1>6. ASSUME NEW w \in Workers, StaleWrite(w)
      PROVE  TypeInv'
  <2> DEFINE c == call[w]
             p == [c.seen EXCEPT !.stale = TRUE]
             d == [c EXCEPT !.step = "stale_read"]
  <2>1. c \in Calls /\ CallOK(c, calls)
    BY <1>0
  <2>2. PropsOK(p, calls)
    BY <1>0, <2>1, FlaggedOK DEF CallOK, Calls, PropsOK
  <2>3. c.next \in Nodes
    BY <2>1 DEF Calls
  <2>4. CallOK(d, calls)
    <3>1. d \in Calls
      BY <2>1 DEF Calls, Steps
    <3>2. d.id = c.id /\ d.seen = c.seen /\ d.step = "stale_read"
      BY <2>1 DEF Calls
    <3> QED
      BY <1>0, <2>1, <3>1, <3>2, StepCallOK DEF CallOK
  <2>5. AddNode(w, c.next, p) /\ Wrote(w, c.next, d) /\ calls' = calls
    BY <1>6 DEF StaleWrite
  <2>6. /\ StoreOK' /\ raced' \in SUBSET Nodes /\ links' \in SUBSET Links
    BY <2>2, <2>3, <2>5, AddNodeOK
  <2>7. CallsOK'
    BY <1>0, <2>4, <2>5, WroteOK
  <2> QED
    BY <1>6, <2>5, <2>6, <2>7 DEF StaleWrite, RestOK
<1>7. ASSUME NEW w \in Workers, UpdateReturn(w)
      PROVE  TypeInv'
  <2>1. call[w].node \in Nodes
    BY <1>0 DEF Calls
  <2>2. CallOK(Idle(call[w].node), calls)
    BY <1>0, <2>1, IdleOK
  <2>3. CallsOK'
    BY <1>7, <2>2, GotoOK DEF UpdateReturn, Return
  <2>4. StoreOK'
    BY <1>7, <1>a DEF UpdateReturn
  <2> QED
    BY <1>7, <2>3, <2>4 DEF UpdateReturn, RestOK, graph
<1>8. ASSUME NEW w \in Workers, NEW n \in Nodes, ConfirmRead(w, n)
      PROVE  TypeInv'
  <2>1. PropsOK(Read(w, n), calls)
    BY ReadOK
  <2>2. calls < MaxCalls /\ calls' = calls + 1
    BY <1>8 DEF ConfirmRead, Begin
  <2>3. CallsOK' /\ calls' \in 0..MaxCalls
    BY <1>0, <1>8, <2>1, <2>2, ConfirmCallOK, BeginOK DEF ConfirmRead
  <2>4. StoreOK'
    BY <1>8, <1>a, <2>2 DEF ConfirmRead
  <2> QED
    BY <1>8, <2>3, <2>4 DEF ConfirmRead, RestOK, graph
<1>9. ASSUME NEW w \in Workers, ConfirmWrite(w)
      PROVE  TypeInv'
  <2> DEFINE c == call[w]
             p == [c.seen EXCEPT !.stale = FALSE]
  <2>1. c \in Calls /\ CallOK(c, calls)
    BY <1>0
  <2>2. PropsOK(p, calls)
    BY <1>0, <2>1, FlaggedOK DEF CallOK, Calls, PropsOK
  <2>3. c.node \in Nodes
    BY <2>1 DEF Calls
  <2>4. CallOK(Idle(c.node), calls)
    BY <1>0, <2>3, IdleOK
  <2>5. AddNode(w, c.node, p) /\ Wrote(w, c.node, Idle(c.node)) /\ calls' = calls
    BY <1>9 DEF ConfirmWrite
  <2>6. /\ StoreOK' /\ raced' \in SUBSET Nodes /\ links' \in SUBSET Links
    BY <2>2, <2>3, <2>5, AddNodeOK
  <2>7. CallsOK'
    BY <1>0, <2>4, <2>5, WroteOK
  <2> QED
    BY <1>9, <2>5, <2>6, <2>7 DEF ConfirmWrite, RestOK
<1>10. ASSUME NEW w \in Workers, NEW n \in Nodes, RemoveNode(w, n)
       PROVE  TypeInv'
  <2>1. calls < MaxCalls /\ calls' = calls + 1 /\ calls' \in Nat
    BY <1>0, <1>10 DEF RemoveNode
  <2>2. \A v \in Workers : CallOK(call[v], calls + 1)
    BY <1>0, LaterCall
  <2>3. CallsOK'
    BY <1>10, <2>1, <2>2, WroteOK DEF RemoveNode
  <2>4. Process(w) \in Processes
    BY WorkerProcess
  <2>5. /\ stored' \in [Nodes -> Properties \cup {Gone}]
        /\ local' \in [Processes -> [Nodes -> Properties \cup {Gone}]]
    BY <1>10, <2>4 DEF RemoveNode, StoreOK
  <2>6. \A m \in Nodes : stored'[m] # Gone => PropsOK(stored'[m], calls')
    BY <1>0, <1>10, <2>1, Later DEF RemoveNode, StoreOK
  <2>7. \A q \in Processes, m \in Nodes :
          local'[q][m] # Gone => PropsOK(local'[q][m], calls')
    BY <1>0, <1>10, <2>1, <2>4, Later DEF RemoveNode, StoreOK
  <2>8. StoreOK'
    BY <2>5, <2>6, <2>7 DEF StoreOK, PropsOK
  <2> QED
    BY <1>0, <1>10, <2>1, <2>3, <2>8 DEF RemoveNode, RestOK
<1>11. CASE UNCHANGED vars
  BY <1>11 DEF vars, graph, StoreOK, CallsOK, CallOK, RestOK, PropsOK
<1> QED
  BY <1>1, <1>2, <1>3, <1>4, <1>5, <1>6, <1>7, <1>8, <1>9, <1>10, <1>11 DEF Next, Step

\* The initial state has the types.
LEMMA TypeInit == Init => TypeInv
<1> SUFFICES ASSUME Init PROVE TypeInv
  OBVIOUS
<1>1. PropsOK(Blank, 0) /\ Blank \in Properties
  BY BlankOK DEF PropsOK
<1>2. StoreOK
  BY <1>1 DEF Init, StoreOK
<1>3. CallsOK
  <2>1. (CHOOSE n \in Nodes : TRUE) \in Nodes
    OBVIOUS
  <2>2. CallOK(Idle(CHOOSE n \in Nodes : TRUE), 0)
    BY <2>1, IdleOK
  <2> QED
    BY <2>2 DEF Init, CallsOK, CallOK
<1>4. RestOK
  BY DEF Init, RestOK
<1> QED
  BY <1>2, <1>3, <1>4 DEF TypeInv

\* Versions stay within the number of calls.
LEMMA TypeInvariant == Spec => []TypeInv
BY TypeInit, TypeKept, PTL DEF Spec

(***************************************************************************)
(* Every variable keeps its type; in particular no version exceeds the     *)
(* number of calls by more than one, however updates overlap.              *)
(***************************************************************************)
THEOREM TypeCorrect == Spec => []TypeOK
<1>1. TypeInv => TypeOK
  BY DEF TypeInv, TypeOK, StoreOK, CallsOK, RestOK
<1> QED
  BY <1>1, TypeInvariant, PTL

(***************************************************************************)
(* What holds for any number of processes.                                 *)
(***************************************************************************)

\* What a call is about to write is still there, unless the call is late.
ReadsExist ==
    \A w \in Workers, n \in Nodes :
        Writes(call[w], n) /\ ~call[w].late => stored[n] # Gone

\* The record that comes next has the update in it.
MergedSeen ==
    \A w \in Workers : At(w, "update_record") => call[w].id \in call[w].seen.merged

SharedInv == TypeInv /\ ReadsExist /\ MergedSeen /\ UpdatesRecorded

\* Workers that go on their own leave the reads of others as they are.
LEMMA OthersUntouched ==
  ASSUME CallsOK, NEW w \in Workers, NEW c, call' = [call EXCEPT ![w] = c]
  PROVE  call'[w] = c /\ \A v \in Workers \ {w} : call'[v] = call[v]
BY DEF CallsOK

\* A write of n makes late every other call that has read n, and no other.
LEMMA OthersLate ==
  ASSUME CallsOK, NEW w \in Workers, NEW n, NEW c, Wrote(w, n, c)
  PROVE  /\ call'[w] = c
         /\ \A v \in Workers \ {w} :
              /\ \A m : Writes(call'[v], m) <=> Writes(call[v], m)
              /\ Writes(call[v], n) => call'[v].late
              /\ ~Writes(call[v], n) => call'[v] = call[v]
              /\ call'[v].step = call[v].step /\ call'[v].node = call[v].node
              /\ call'[v].id = call[v].id /\ call'[v].expected = call[v].expected
              /\ call'[v].seen = call[v].seen /\ call'[v].todo = call[v].todo
              /\ call'[v].next = call[v].next
<1>1. call'[w] = c
  BY DEF Wrote
<1>2. ASSUME NEW v \in Workers \ {w}
      PROVE  call'[v] = IF Writes(call[v], n) THEN [call[v] EXCEPT !.late = TRUE]
                        ELSE call[v]
  BY DEF Wrote
<1>3. \A v \in Workers : call[v] \in Calls
  BY DEF CallsOK
<1> QED
  BY <1>1, <1>2, <1>3 DEF Writes, Calls

\* The three steps that write a node: which one, what they write, and the
\* call they go on to.
WriteStep(w, n, p, c) ==
    \/ /\ UpdateWrite(w) /\ n = call[w].node
       /\ p = [call[w].seen EXCEPT !.merged = @ \cup {call[w].id}, !.version = @ + 1]
       /\ c = [call[w] EXCEPT !.step = "update_record", !.seen = p]
    \/ /\ StaleWrite(w) /\ n = call[w].next
       /\ p = [call[w].seen EXCEPT !.stale = TRUE]
       /\ c = [call[w] EXCEPT !.step = "stale_read"]
    \/ /\ ConfirmWrite(w) /\ n = call[w].node
       /\ p = [call[w].seen EXCEPT !.stale = FALSE]
       /\ c = Idle(call[w].node)

\* A write step writes what its call has read and leaves it nothing to write.
LEMMA WriteStepDoes ==
  ASSUME TypeInv, NEW w \in Workers, NEW n, NEW p, NEW c, WriteStep(w, n, p, c)
  PROVE  /\ n \in Nodes /\ p \in Properties
         /\ Writes(call[w], n)
         /\ AddNode(w, n, p) /\ Wrote(w, n, c) /\ UNCHANGED <<recorded, calls>>
         /\ \A m : ~Writes(c, m)
<1> USE DEF TypeInv
<1>1. call[w] \in Calls /\ CallOK(call[w], calls) /\ calls \in 0..MaxCalls /\ calls \in Nat
  BY DEF CallsOK, RestOK
<1>2. call[w].node \in Nodes /\ call[w].next \in Nodes /\ PropsOK(call[w].seen, calls)
  BY <1>1 DEF Calls, CallOK, PropsOK
<1>3. CASE UpdateWrite(w) /\ WriteStep(w, n, p, c)
  <2>1. /\ n = call[w].node
        /\ p = [call[w].seen EXCEPT !.merged = @ \cup {call[w].id}, !.version = @ + 1]
        /\ c = [call[w] EXCEPT !.step = "update_record", !.seen = p]
    BY <1>3 DEF WriteStep, UpdateWrite, StaleWrite, ConfirmWrite, At
  <2>2. p \in Properties
    BY <1>1, <1>3, <2>1, MergedOK DEF PropsOK, UpdateWrite, At
  <2>3. c.step = "update_record"
    BY <1>1, <2>1 DEF Calls
  <2> QED
    BY <1>2, <1>3, <2>1, <2>2, <2>3 DEF UpdateWrite, Writes, At
<1>4. CASE StaleWrite(w) /\ WriteStep(w, n, p, c)
  <2>1. /\ n = call[w].next
        /\ p = [call[w].seen EXCEPT !.stale = TRUE]
        /\ c = [call[w] EXCEPT !.step = "stale_read"]
    BY <1>4 DEF WriteStep, UpdateWrite, StaleWrite, ConfirmWrite, At
  <2>2. p \in Properties
    BY <1>1, <1>2, <2>1, FlaggedOK DEF PropsOK
  <2>3. c.step = "stale_read"
    BY <1>1, <2>1 DEF Calls
  <2> QED
    BY <1>2, <1>4, <2>1, <2>2, <2>3 DEF StaleWrite, Writes, At
<1>5. CASE ConfirmWrite(w) /\ WriteStep(w, n, p, c)
  <2>1. /\ n = call[w].node
        /\ p = [call[w].seen EXCEPT !.stale = FALSE]
        /\ c = Idle(call[w].node)
    BY <1>5 DEF WriteStep, UpdateWrite, StaleWrite, ConfirmWrite, At
  <2>2. p \in Properties
    BY <1>1, <1>2, <2>1, FlaggedOK DEF PropsOK
  <2>3. c.step = "idle"
    BY <2>1 DEF Idle
  <2> QED
    BY <1>2, <1>5, <2>1, <2>2, <2>3 DEF ConfirmWrite, Writes, At
<1> QED
  BY <1>3, <1>4, <1>5 DEF WriteStep

\* The steps that read a node go on with what they read, not late.
ReadStep(w, n) ==
    /\ UNCHANGED graph /\ Exists(n)
    /\ call'[w].seen = Read(w, n) /\ ~call'[w].late
    /\ \A m : Writes(call'[w], m) => m = n

\* The other steps write nothing and leave nothing to be written.
QuietStep(w) ==
    /\ UNCHANGED graph
    /\ \A m : ~Writes(call'[w], m)

\* Every step writes, reads, removes, or does neither.
LEMMA StepKinds ==
  ASSUME TypeInv, NEW w \in Workers, Step(w)
  PROVE  \/ \E n, p, c : WriteStep(w, n, p, c)
         \/ /\ call' = [call EXCEPT ![w] = call'[w]]
            /\ QuietStep(w) \/ \E n \in Nodes : ReadStep(w, n)
         \/ \E n \in Nodes : RemoveNode(w, n)
<1> USE DEF TypeInv, CallsOK
<1>0. call \in [Workers -> Calls] /\ call[w] \in Calls
  BY DEF Calls
<1>1. ASSUME NEW n \in Nodes, NEW x \in Versions \cup {NoVersion}, UpdateRead(w, n, x)
      PROVE  call' = [call EXCEPT ![w] = call'[w]] /\ ReadStep(w, n)
  BY <1>0, <1>1 DEF UpdateRead, Begin, ReadStep, Writes, Idle
<1>2. ASSUME NEW n \in Nodes, ConfirmRead(w, n)
      PROVE  call' = [call EXCEPT ![w] = call'[w]] /\ ReadStep(w, n)
  BY <1>0, <1>2 DEF ConfirmRead, Begin, ReadStep, Writes, Idle
<1>3. ASSUME NEW m \in Nodes, StaleRead(w, m)
      PROVE  /\ call' = [call EXCEPT ![w] = call'[w]]
             /\ QuietStep(w) \/ ReadStep(w, m)
  <2> DEFINE c == [call[w] EXCEPT !.todo = @ \ {m}]
  <2>1. c.step = "stale_read"
    BY <1>0, <1>3 DEF StaleRead, At, Calls
  <2>2. CASE Exists(m)
    <3>1. call' = [call EXCEPT ![w] = [c EXCEPT !.step = "stale_write", !.next = m,
                                         !.seen = Read(w, m), !.late = FALSE]]
      BY <1>3, <2>2 DEF StaleRead, Goto
    <3>2. /\ call'[w].step = "stale_write" /\ call'[w].next = m
          /\ call'[w].seen = Read(w, m) /\ call'[w].late = FALSE
      BY <1>0, <3>1 DEF Calls
    <3> QED
      BY <1>0, <1>3, <2>2, <3>1, <3>2 DEF StaleRead, ReadStep, Writes
  <2>3. CASE ~Exists(m)
    <3>1. call' = [call EXCEPT ![w] = c]
      BY <1>3, <2>3 DEF StaleRead, Goto
    <3> QED
      BY <1>0, <1>3, <2>1, <3>1 DEF StaleRead, QuietStep, Writes
  <2> QED
    BY <2>2, <2>3
<1>4. ASSUME UpdateRecord(w) \/ StaleList(w) \/ UpdateReturn(w)
      PROVE  call' = [call EXCEPT ![w] = call'[w]] /\ QuietStep(w)
  <2>1. CASE UpdateRecord(w)
    BY <1>0, <2>1 DEF UpdateRecord, Goto, QuietStep, Writes, Calls
  <2>2. CASE StaleList(w)
    <3> DEFINE D == IF Exists(call[w].node) THEN Downstream(call[w].node) ELSE {}
    <3>1. call' = [call EXCEPT ![w] = [call[w] EXCEPT !.step = "stale_read", !.todo = D]]
      BY <2>2 DEF StaleList, Goto
    <3>2. call'[w].step = "stale_read"
      BY <1>0, <3>1 DEF Calls
    <3> QED
      BY <1>0, <2>2, <3>1, <3>2 DEF StaleList, QuietStep, Writes
  <2>3. CASE UpdateReturn(w)
    BY <1>0, <2>3 DEF UpdateReturn, Return, Goto, QuietStep, Writes, Idle
  <2> QED
    BY <1>4, <2>1, <2>2, <2>3
<1>5. ASSUME UpdateWrite(w) \/ StaleWrite(w) \/ ConfirmWrite(w)
      PROVE  \E n, p, c : WriteStep(w, n, p, c)
  BY <1>5 DEF WriteStep
<1> QED
  BY <1>1, <1>2, <1>3, <1>4, <1>5 DEF Step

\* Every step keeps what the calls have read in place.
LEMMA ReadsExistKept ==
  ASSUME TypeInv, ReadsExist, NEW w \in Workers, Step(w)
  PROVE  ReadsExist'
<1> SUFFICES ASSUME NEW v \in Workers, NEW m \in Nodes,
                    Writes(call'[v], m), ~call'[v].late
             PROVE  stored'[m] # Gone
  BY DEF ReadsExist, Writes
<1> USE DEF TypeInv
<1>1. ASSUME NEW n, NEW p, NEW c, WriteStep(w, n, p, c)
      PROVE  stored'[m] # Gone
  <2>1. /\ n \in Nodes /\ p # Gone /\ AddNode(w, n, p) /\ Wrote(w, n, c)
        /\ \A k : ~Writes(c, k)
    BY <1>1, WriteStepDoes
  <2>2. v # w /\ call'[v] = call[v]
    <3>1. call'[w] = c
      BY <2>1, OthersLate
    <3>2. v # w
      BY <2>1, <3>1
    <3> QED
      BY <2>1, <3>2, OthersLate
  <2> QED
    BY <2>1, <2>2 DEF AddNode, ReadsExist, StoreOK
<1>2. ASSUME call' = [call EXCEPT ![w] = call'[w]], QuietStep(w)
      PROVE  stored'[m] # Gone
  BY <1>2, OthersUntouched DEF QuietStep, ReadsExist, graph
<1>3. ASSUME call' = [call EXCEPT ![w] = call'[w]], NEW n \in Nodes, ReadStep(w, n)
      PROVE  stored'[m] # Gone
  BY <1>3, OthersUntouched DEF ReadStep, ReadsExist, graph, Exists
<1>4. ASSUME NEW n \in Nodes, RemoveNode(w, n)
      PROVE  stored'[m] # Gone
  <2>1. Wrote(w, n, call[w]) /\ At(w, "idle")
    BY <1>4 DEF RemoveNode
  <2>2. v # w
    BY <2>1, OthersLate DEF At, Writes
  <2>3. call'[v] = call[v] /\ ~Writes(call[v], n)
    BY <2>1, <2>2, OthersLate
  <2> QED
    BY <1>4, <2>3 DEF RemoveNode, ReadsExist, StoreOK
<1> QED
  BY <1>1, <1>2, <1>3, <1>4, StepKinds

\* Calls of other workers keep their local variables but late.
LEMMA OthersKeep ==
  ASSUME TypeInv, NEW w \in Workers, Step(w), NEW v \in Workers \ {w}
  PROVE  /\ call'[v].step = call[v].step /\ call'[v].node = call[v].node
         /\ call'[v].id = call[v].id /\ call'[v].expected = call[v].expected
         /\ call'[v].seen = call[v].seen /\ call'[v].todo = call[v].todo
         /\ call'[v].next = call[v].next
<1> USE DEF TypeInv
<1>1. ASSUME NEW n, NEW p, NEW c, WriteStep(w, n, p, c)
      PROVE  Wrote(w, n, c)
  BY <1>1, WriteStepDoes
<1>2. ASSUME NEW n \in Nodes, RemoveNode(w, n)
      PROVE  Wrote(w, n, call[w])
  BY <1>2 DEF RemoveNode
<1>3. ASSUME call' = [call EXCEPT ![w] = call'[w]]
      PROVE  call'[v] = call[v]
  BY <1>3, OthersUntouched
<1> QED
  BY <1>1, <1>2, <1>3, StepKinds, OthersLate

\* The worker's own call after a step.
LEMMA OwnCall ==
  ASSUME TypeInv, NEW w \in Workers
  PROVE  LET c == call[w]
             d == call'[w] IN
         /\ UpdateWrite(w) =>
              /\ d.step = "update_record" /\ d.node = c.node /\ d.id = c.id
              /\ d.seen = [c.seen EXCEPT !.merged = @ \cup {c.id}, !.version = @ + 1]
         /\ UpdateRecord(w) => d.step = "stale_list" /\ d.node = c.node /\ d.id = c.id
         /\ StaleList(w) =>
              /\ d.step = "stale_read" /\ d.node = c.node /\ d.id = c.id
              /\ d.todo = IF Exists(c.node) THEN Downstream(c.node) ELSE {}
         /\ \A m \in Nodes : StaleRead(w, m) =>
              /\ d.node = c.node /\ d.id = c.id /\ d.todo = c.todo \ {m}
              /\ Exists(m) => d.step = "stale_write" /\ d.next = m
              /\ ~Exists(m) => d.step = "stale_read"
         /\ StaleWrite(w) => /\ d.step = "stale_read" /\ d.node = c.node
                             /\ d.id = c.id /\ d.todo = c.todo
         /\ UpdateReturn(w) \/ ConfirmWrite(w) \/ (\E n \in Nodes : RemoveNode(w, n)) =>
              d.step = "idle"
         /\ \A n \in Nodes, x \in Versions \cup {NoVersion} : UpdateRead(w, n, x) =>
              d.step = "update_write" /\ d.expected = x /\ d.seen = Read(w, n)
         /\ \A n \in Nodes : ConfirmRead(w, n) => d.step = "confirm_write"
<1> DEFINE c == call[w]
           d == call'[w]
<1>0. call \in [Workers -> Calls] /\ c \in Calls
  BY DEF TypeInv, CallsOK
<1>1. ASSUME UpdateWrite(w)
      PROVE  /\ d.step = "update_record" /\ d.node = c.node /\ d.id = c.id
             /\ d.seen = [c.seen EXCEPT !.merged = @ \cup {c.id}, !.version = @ + 1]
  <2> DEFINE p == [c.seen EXCEPT !.merged = @ \cup {c.id}, !.version = @ + 1]
  <2>1. d = [c EXCEPT !.step = "update_record", !.seen = p]
    BY <1>1 DEF UpdateWrite, Wrote
  <2> HIDE DEF p
  <2>2. d.step = "update_record" /\ d.node = c.node /\ d.id = c.id /\ d.seen = p
    BY <1>0, <2>1 DEF Calls
  <2> QED
    BY <2>2 DEF p
<1>2. ASSUME UpdateRecord(w)
      PROVE  d.step = "stale_list" /\ d.node = c.node /\ d.id = c.id
  BY <1>0, <1>2 DEF UpdateRecord, Goto, Calls
<1>3. ASSUME StaleList(w)
      PROVE  /\ d.step = "stale_read" /\ d.node = c.node /\ d.id = c.id
             /\ d.todo = IF Exists(c.node) THEN Downstream(c.node) ELSE {}
  <2> DEFINE D == IF Exists(c.node) THEN Downstream(c.node) ELSE {}
  <2>1. d = [c EXCEPT !.step = "stale_read", !.todo = D]
    BY <1>0, <1>3 DEF StaleList, Goto
  <2> HIDE DEF D
  <2>2. d.step = "stale_read" /\ d.node = c.node /\ d.id = c.id /\ d.todo = D
    BY <1>0, <2>1 DEF Calls
  <2> QED
    BY <2>2 DEF D
<1>4. ASSUME NEW m \in Nodes, StaleRead(w, m)
      PROVE  /\ d.node = c.node /\ d.id = c.id /\ d.todo = c.todo \ {m}
             /\ Exists(m) => d.step = "stale_write" /\ d.next = m
             /\ ~Exists(m) => d.step = "stale_read"
  <2> DEFINE b == [c EXCEPT !.todo = @ \ {m}]
             r == Read(w, m)
  <2>0. c.step = "stale_read"
    BY <1>4 DEF StaleRead, At
  <2>1. d = IF Exists(m) THEN [b EXCEPT !.step = "stale_write", !.next = m,
                                        !.seen = r, !.late = FALSE] ELSE b
    BY <1>0, <1>4 DEF StaleRead, Goto
  <2> HIDE DEF r
  <2> QED
    BY <1>0, <2>0, <2>1 DEF Calls
<1>5. ASSUME StaleWrite(w)
      PROVE  /\ d.step = "stale_read" /\ d.node = c.node
             /\ d.id = c.id /\ d.todo = c.todo
  <2>1. d = [c EXCEPT !.step = "stale_read"]
    BY <1>5 DEF StaleWrite, Wrote
  <2> QED
    BY <1>0, <2>1 DEF Calls
<1>6. ASSUME UpdateReturn(w) \/ ConfirmWrite(w)
      PROVE  d.step = "idle"
  BY <1>0, <1>6 DEF UpdateReturn, ConfirmWrite, Return, Goto, Wrote, Idle
<1>7. ASSUME NEW n \in Nodes, RemoveNode(w, n)
      PROVE  d.step = "idle"
  BY <1>0, <1>7 DEF RemoveNode, Wrote, At
<1>8. ASSUME NEW n \in Nodes, NEW x \in Versions \cup {NoVersion}, UpdateRead(w, n, x)
      PROVE  d.step = "update_write" /\ d.expected = x /\ d.seen = Read(w, n)
  BY <1>0, <1>8 DEF UpdateRead, Begin, Idle
<1>9. ASSUME NEW n \in Nodes, ConfirmRead(w, n)
      PROVE  d.step = "confirm_write"
  BY <1>0, <1>9 DEF ConfirmRead, Begin, Idle
<1> QED
  BY <1>1, <1>2, <1>3, <1>4, <1>5, <1>6, <1>7, <1>8, <1>9

\* Every step keeps the updates that are complete in the history.
LEMMA RecordedKept ==
  ASSUME SharedInv, NEW w \in Workers, Step(w)
  PROVE  MergedSeen' /\ UpdatesRecorded'
<1> USE DEF SharedInv, TypeInv
<1> DEFINE Complete(v) ==
      /\ At(v, "update_record") => call[v].id \in call[v].seen.merged
      /\ call[v].step \in {"stale_list", "stale_read", "stale_write"} =>
            call[v].id \in recorded[call[v].node]
<1>0. /\ call \in [Workers -> Calls] /\ recorded \in [Nodes -> SUBSET Updates]
      /\ \A v \in Workers : Complete(v) /\ call[v] \in Calls /\ call[v].node \in Nodes
  BY DEF CallsOK, RestOK, MergedSeen, UpdatesRecorded, Calls
<1>1. \A n \in Nodes : recorded[n] \subseteq recorded'[n]
  BY <1>0 DEF Step, UpdateRead, UpdateWrite, UpdateRecord, StaleList, StaleRead,
     StaleWrite, UpdateReturn, ConfirmRead, ConfirmWrite, RemoveNode
<1>2. ASSUME NEW v \in Workers \ {w}
      PROVE  Complete(v)'
  BY <1>0, <1>1, OthersKeep DEF At
<1>3. Complete(w)'
  <2>0. Complete(w) /\ call[w] \in Calls
    BY <1>0
  <2>1. ASSUME UpdateWrite(w)
        PROVE  Complete(w)'
    <3> DEFINE p == [call[w].seen EXCEPT !.merged = @ \cup {call[w].id}, !.version = @ + 1]
    <3>1. call'[w].step = "update_record" /\ call'[w].id = call[w].id /\ call'[w].seen = p
      BY <2>1, OwnCall
    <3>2. call[w].id \in p.merged
      BY <2>0 DEF Calls, Properties
    <3> QED
      BY <3>1, <3>2 DEF At
  <2>2. ASSUME UpdateRecord(w)
        PROVE  Complete(w)'
    <3>1. /\ call'[w].step = "stale_list" /\ call'[w].id = call[w].id
          /\ call'[w].node = call[w].node
      BY <2>2, OwnCall
    <3>2. call[w].seen.merged \subseteq recorded'[call[w].node]
      BY <1>0, <2>2 DEF UpdateRecord
    <3> QED
      BY <2>0, <2>2, <3>1, <3>2 DEF UpdateRecord, At
  <2>3. ASSUME StaleList(w) \/ (\E m \in Nodes : StaleRead(w, m)) \/ StaleWrite(w)
        PROVE  Complete(w)'
    <3>1. call[w].id \in recorded'[call[w].node]
      BY <1>0, <1>1, <2>3 DEF StaleList, StaleRead, StaleWrite, At
    <3>2. /\ call'[w].id = call[w].id /\ call'[w].node = call[w].node
          /\ call'[w].step # "update_record"
      BY <2>3, OwnCall
    <3> QED
      BY <3>1, <3>2 DEF At
  <2>4. ASSUME \/ UpdateReturn(w) \/ ConfirmWrite(w)
               \/ \E n \in Nodes : \/ ConfirmRead(w, n) \/ RemoveNode(w, n)
                                   \/ \E x \in Versions \cup {NoVersion} : UpdateRead(w, n, x)
        PROVE  Complete(w)'
    <3>1. call'[w].step \in {"idle", "confirm_write", "update_write"}
      BY <2>4, OwnCall
    <3> QED
      BY <3>1 DEF At
  <2> QED
    BY <2>1, <2>2, <2>3, <2>4 DEF Step
<1>4. \A v \in Workers : Complete(v)'
  BY <1>2, <1>3
<1> QED
  BY <1>4 DEF MergedSeen, UpdatesRecorded, At

\* Every step keeps what holds for any number of processes.
LEMMA SharedKept == SharedInv /\ [Next]_vars => SharedInv'
<1> SUFFICES ASSUME SharedInv, [Next]_vars PROVE SharedInv'
  OBVIOUS
<1>1. TypeInv'
  BY TypeKept DEF SharedInv
<1>2. CASE Next
  BY <1>1, <1>2, ReadsExistKept, RecordedKept DEF Next, SharedInv
<1>3. CASE UNCHANGED vars
  BY <1>1, <1>3 DEF vars, graph, SharedInv, ReadsExist, MergedSeen, UpdatesRecorded,
     Writes, At
<1> QED
  BY <1>2, <1>3

\* It holds at the beginning.
LEMMA SharedInit == Init => SharedInv
<1> SUFFICES ASSUME Init PROVE SharedInv
  OBVIOUS
<1>1. TypeInv
  BY TypeInit
<1>2. \A w \in Workers : call[w].step = "idle"
  BY DEF Init, Idle
<1> QED
  BY <1>1, <1>2 DEF SharedInv, ReadsExist, MergedSeen, UpdatesRecorded, Writes, At

\* What holds for any number of processes holds always.
LEMMA SharedInvariant == Spec => []SharedInv
BY SharedInit, SharedKept, PTL DEF Spec

(***************************************************************************)
(* Whatever writes overlap, an update that went on to flag the nodes       *)
(* downstream is in the history of its node.                               *)
(***************************************************************************)
THEOREM HistoryComplete == Spec => []UpdatesRecorded
<1>1. SharedInv => UpdatesRecorded
  BY DEF SharedInv
<1> QED
  BY <1>1, SharedInvariant, PTL

(***************************************************************************)
(* A node that was removed comes back only by a write whose call had read  *)
(* it before the removal.  Calls read the node anew before each write, so  *)
(* one that begins later finds nothing to write.                           *)
(***************************************************************************)
THEOREM RemovedNodesStay == Spec => RemovedStays
<1> DEFINE Back == \A n \in Nodes : stored[n] = Gone /\ stored'[n] # Gone => n \in raced'
<1>1. SharedInv /\ [Next]_vars => [Back]_vars
  <2> SUFFICES ASSUME SharedInv, [Next]_vars, NEW m \in Nodes,
                      stored[m] = Gone, stored'[m] # Gone
               PROVE  m \in raced'
    OBVIOUS
  <2> USE DEF SharedInv
  <2>1. PICK w \in Workers : Step(w)
    BY DEF Next, vars, graph
  <2>2. ASSUME NEW n, NEW p, NEW c, WriteStep(w, n, p, c)
        PROVE  m \in raced'
    <3>1. n \in Nodes /\ AddNode(w, n, p) /\ Writes(call[w], n)
      BY <2>2, WriteStepDoes
    <3>2. m = n
      BY <3>1 DEF AddNode, TypeInv, StoreOK
    <3>3. call[w].late
      BY <3>1, <3>2 DEF ReadsExist
    <3> QED
      BY <3>1, <3>2, <3>3 DEF AddNode
  <2>3. ASSUME UNCHANGED graph \/ \E n \in Nodes : RemoveNode(w, n)
        PROVE  FALSE
    BY <2>3 DEF graph, RemoveNode, TypeInv, StoreOK
  <2> QED
    BY <2>1, <2>2, <2>3, StepKinds DEF QuietStep, ReadStep
<1> QED
  BY <1>1, SharedInvariant, PTL DEF Spec, RemovedStays

(***************************************************************************)
(* What holds when one process has the graph: its node_properties are the  *)
(* nodes in the storage, so a call that is not late has read what it is    *)
(* about to replace.                                                       *)
(***************************************************************************)
Same == local[Creator] = stored

Current ==
    \A w \in Workers, n \in Nodes :
        Writes(call[w], n) /\ ~call[w].late => stored[n] = call[w].seen

\* The expected version of an update is the one it has read.
ExpectedRead ==
    \A w \in Workers : At(w, "update_write") =>
        call[w].expected \in {NoVersion, call[w].seen.version}

\* What an update is about to record is in the node.
RecordSeen ==
    \A w \in Workers : LET n == call[w].node IN
        At(w, "update_record") /\ n \notin raced /\ Exists(n) =>
            call[w].seen.merged \subseteq stored[n].merged

\* The nodes an edge joins are there.
LinksJoin == \A l \in links : Exists(l[1]) /\ Exists(l[2])

SingleInv ==
    /\ SharedInv /\ Same /\ Current /\ ExpectedRead /\ RecordSeen /\ LinksJoin
    /\ VersionChecked /\ UpdatesKept /\ DownstreamFlagged

\* get_node returns what is in the storage.
LEMMA ReadStored ==
  ASSUME Processes = {Creator}, Same, NEW w \in Workers, NEW n \in Nodes, Exists(n)
  PROVE  Read(w, n) = stored[n]
BY WorkerProcess DEF Same, Read, Exists

\* A raced node stays raced.
LEMMA RacedGrows ==
  ASSUME TypeInv, NEW w \in Workers, Step(w)
  PROVE  raced \subseteq raced'
<1>1. ASSUME NEW n, NEW p, NEW c, WriteStep(w, n, p, c)
      PROVE  raced \subseteq raced'
  BY <1>1, WriteStepDoes DEF AddNode
<1> QED
  BY <1>1 DEF Step, WriteStep, UpdateRead, UpdateRecord, StaleList, StaleRead,
     UpdateReturn, ConfirmRead, RemoveNode

\* A write that races with none replaces what its call has read.
LEMMA WriteReplaces ==
  ASSUME TypeInv, Current, NEW w \in Workers, NEW n, NEW p, NEW c,
         WriteStep(w, n, p, c), n \notin raced'
  PROVE  stored[n] = call[w].seen /\ stored[n] # Gone
<1>1. n \in Nodes /\ Writes(call[w], n) /\ AddNode(w, n, p)
  BY WriteStepDoes
<1>2. ~call[w].late
  BY <1>1 DEF AddNode
<1>3. call[w].seen \in Properties
  BY DEF TypeInv, CallsOK, Calls
<1> QED
  BY <1>1, <1>2, <1>3 DEF Current

\* Every step changes the storage and the only process alike.
LEMMA SameKept ==
  ASSUME Processes = {Creator}, TypeInv, Same, NEW w \in Workers, Step(w)
  PROVE  Same'
<1> USE DEF TypeInv, StoreOK
<1>0. Process(w) = Creator
  BY WorkerProcess
<1>1. ASSUME NEW n, NEW p, NEW c, WriteStep(w, n, p, c)
      PROVE  Same'
  <2>1. AddNode(w, n, p)
    BY <1>1, WriteStepDoes
  <2> QED
    BY <1>0, <2>1 DEF AddNode, Same
<1>2. ASSUME NEW n \in Nodes, RemoveNode(w, n)
      PROVE  Same'
  BY <1>0, <1>2 DEF RemoveNode, Same
<1>3. ASSUME UNCHANGED graph
      PROVE  Same'
  BY <1>3 DEF graph, Same
<1> QED
  BY <1>1, <1>2, <1>3, StepKinds DEF QuietStep, ReadStep

\* Every step keeps what calls have read up to date, or makes them late.
LEMMA CurrentKept ==
  ASSUME Processes = {Creator}, TypeInv, Same, Current, NEW w \in Workers, Step(w)
  PROVE  Current'
<1> SUFFICES ASSUME NEW v \in Workers, NEW m \in Nodes,
                    Writes(call'[v], m), ~call'[v].late
             PROVE  stored'[m] = call'[v].seen
  BY DEF Current, Writes
<1> USE DEF TypeInv
<1>1. ASSUME NEW n, NEW p, NEW c, WriteStep(w, n, p, c)
      PROVE  stored'[m] = call'[v].seen
  <2>1. n \in Nodes /\ AddNode(w, n, p) /\ Wrote(w, n, c) /\ \A k : ~Writes(c, k)
    BY <1>1, WriteStepDoes
  <2>2. v # w
    BY <2>1, OthersLate
  <2>3. call'[v] = call[v] /\ ~Writes(call[v], n)
    BY <2>1, <2>2, OthersLate
  <2>4. m # n
    BY <2>3
  <2> QED
    BY <2>1, <2>3, <2>4 DEF AddNode, Current, StoreOK
<1>2. ASSUME call' = [call EXCEPT ![w] = call'[w]], QuietStep(w)
      PROVE  stored'[m] = call'[v].seen
  BY <1>2, OthersUntouched DEF QuietStep, Current, graph
<1>3. ASSUME call' = [call EXCEPT ![w] = call'[w]], NEW n \in Nodes, ReadStep(w, n)
      PROVE  stored'[m] = call'[v].seen
  <2>1. CASE v = w
    BY <1>3, <2>1, ReadStored DEF ReadStep, graph
  <2>2. CASE v # w
    BY <1>3, <2>2, OthersUntouched DEF ReadStep, Current, graph
  <2> QED
    BY <2>1, <2>2
<1>4. ASSUME NEW n \in Nodes, RemoveNode(w, n)
      PROVE  stored'[m] = call'[v].seen
  <2>1. Wrote(w, n, call[w]) /\ At(w, "idle")
    BY <1>4 DEF RemoveNode
  <2>2. v # w
    BY <2>1, OthersLate DEF At, Writes
  <2>3. call'[v] = call[v] /\ ~Writes(call[v], n)
    BY <2>1, <2>2, OthersLate
  <2> QED
    BY <1>4, <2>3 DEF RemoveNode, Current, StoreOK
<1> QED
  BY <1>1, <1>2, <1>3, <1>4, StepKinds

\* Every step keeps the ends of edges.
LEMMA LinksJoinKept ==
  ASSUME TypeInv, LinksJoin, NEW w \in Workers, Step(w)
  PROVE  LinksJoin'
<1> USE DEF TypeInv, StoreOK
<1>1. ASSUME NEW n, NEW p, NEW c, WriteStep(w, n, p, c)
      PROVE  LinksJoin'
  <2>1. p # Gone /\ AddNode(w, n, p)
    BY <1>1, WriteStepDoes
  <2>2. links \subseteq Nodes \X Nodes
    BY DEF RestOK
  <2> QED
    BY <2>1, <2>2 DEF AddNode, LinksJoin, Exists
<1>2. ASSUME NEW n \in Nodes, RemoveNode(w, n)
      PROVE  LinksJoin'
  <2>1. links \subseteq Nodes \X Nodes
    BY DEF RestOK
  <2> QED
    BY <1>2, <2>1 DEF RemoveNode, LinksJoin, Exists
<1>3. ASSUME UNCHANGED graph
      PROVE  LinksJoin'
  BY <1>3 DEF graph, LinksJoin, Exists
<1> QED
  BY <1>1, <1>2, <1>3, StepKinds DEF QuietStep, ReadStep

\* An update whose expected version is not the stored one has read a node
\* that was written since.
LEMMA VersionCheckedKept ==
  ASSUME Processes = {Creator}, TypeInv, Same, Current, ExpectedRead, VersionChecked,
         NEW w \in Workers, Step(w)
  PROVE  ExpectedRead' /\ VersionChecked'
<1>1. ExpectedRead'
  <2> SUFFICES ASSUME NEW v \in Workers, call'[v].step = "update_write"
               PROVE  call'[v].expected \in {NoVersion, call'[v].seen.version}
    BY DEF ExpectedRead, At
  <2>1. CASE v # w
    BY <2>1, OthersKeep DEF ExpectedRead, At
  <2>2. CASE v = w
    <3>1. PICK n \in Nodes, x \in Versions \cup {NoVersion} : UpdateRead(w, n, x)
      BY <2>2, OwnCall DEF Step
    <3> QED
      BY <2>2, <3>1, OwnCall DEF UpdateRead
  <2> QED
    BY <2>1, <2>2
<1>2. VersionChecked'
  <2>1. CASE UpdateWrite(w)
    <3> DEFINE c == call[w]
               p == [c.seen EXCEPT !.merged = @ \cup {c.id}, !.version = @ + 1]
               d == [c EXCEPT !.step = "update_record", !.seen = p]
    <3>1. WriteStep(w, c.node, p, d)
      BY <2>1 DEF WriteStep
    <3>2. ASSUME c.node \notin raced'
          PROVE  mismatched' = mismatched
      <4>1. stored[c.node] = c.seen
        BY <3>1, <3>2, WriteReplaces
      <4>2. c.expected \in {NoVersion, stored[c.node].version}
        BY <2>1, <4>1 DEF ExpectedRead, UpdateWrite
      <4> QED
        BY <2>1, <4>2 DEF UpdateWrite
    <3>3. mismatched' \subseteq mismatched \cup {c.node}
      BY <2>1 DEF UpdateWrite
    <3> QED
      BY <3>2, <3>3, RacedGrows DEF VersionChecked
  <2>2. CASE ~UpdateWrite(w)
    <3>1. mismatched' = mismatched
      BY <2>2 DEF Step, UpdateRead, UpdateRecord, StaleList, StaleRead, StaleWrite,
         UpdateReturn, ConfirmRead, ConfirmWrite, RemoveNode
    <3> QED
      BY <3>1, RacedGrows DEF VersionChecked
  <2> QED
    BY <2>1, <2>2
<1> QED
  BY <1>1, <1>2

\* Every step keeps the updates that are recorded in the node.
LEMMA UpdatesKeptKept ==
  ASSUME Processes = {Creator}, SingleInv, NEW w \in Workers, Step(w)
  PROVE  RecordSeen' /\ UpdatesKept'
<1> USE DEF SingleInv, SharedInv, TypeInv
<1> DEFINE Kept(n) ==
      Exists(n) =>
        /\ recorded[n] \subseteq stored[n].merged
        /\ \A v \in Workers : call[v].node = n =>
             /\ At(v, "update_record") => call[v].seen.merged \subseteq stored[n].merged
             /\ At(v, "stale_list") => call[v].id \in stored[n].merged
<1> SUFFICES ASSUME NEW n \in Nodes, n \notin raced' PROVE Kept(n)'
  <2>1. \A v \in Workers : call'[v].node \in Nodes
    BY TypeKept DEF Next, CallsOK, Calls
  <2> QED
    BY <2>1 DEF RecordSeen, UpdatesKept, Exists, At
<1>0. n \notin raced /\ Kept(n)
  BY RacedGrows DEF RecordSeen, UpdatesKept
<1>t. /\ recorded \in [Nodes -> SUBSET Updates] /\ call[w] \in Calls
      /\ call[w].node \in Nodes
  BY DEF RestOK, CallsOK, Calls
<1>k. \A v \in Workers \ {w} : /\ call'[v].step = call[v].step /\ call'[v].node = call[v].node
                               /\ call'[v].id = call[v].id /\ call'[v].seen = call[v].seen
  BY OthersKeep
<1>1. ASSUME NEW m, NEW p, NEW c, WriteStep(w, m, p, c)
      PROVE  Kept(n)'
  <2>1. /\ m \in Nodes /\ p \in Properties /\ AddNode(w, m, p)
        /\ recorded' = recorded /\ Wrote(w, m, c)
    BY <1>1, WriteStepDoes
  <2>2. CASE m # n
    <3>1. stored'[n] = stored[n]
      BY <2>1, <2>2 DEF AddNode, StoreOK
    <3>2. call'[w].step \in {"update_record", "stale_list"} => call'[w].node # n
      BY <1>1, <2>2, OwnCall DEF WriteStep
    <3> QED
      BY <1>0, <1>k, <2>1, <3>1, <3>2 DEF Exists, At
  <2>3. CASE m = n
    <3>1. stored[n] = call[w].seen /\ stored[n] # Gone
      BY <1>1, <2>3, WriteReplaces
    <3>2. stored'[n] = p
      BY <2>1, <2>3 DEF AddNode, StoreOK
    <3>3. stored[n].merged \subseteq p.merged
      <4>1. call[w].seen \in Properties
        BY <1>t DEF Calls
      <4> QED
        BY <1>1, <3>1, <4>1 DEF WriteStep, Properties
    <3>4. \A v \in Workers \ {w} : call[v].node = n =>
             /\ At(v, "update_record") => call[v].seen.merged \subseteq p.merged
             /\ At(v, "stale_list") => call[v].id \in p.merged
      BY <1>0, <3>1, <3>3 DEF Exists
    <3>5. /\ call'[w].step = "update_record" => call'[w].seen = p
          /\ call'[w].step # "stale_list"
      BY <1>1, OwnCall DEF WriteStep
    <3> QED
      BY <1>0, <1>k, <2>1, <3>1, <3>2, <3>3, <3>4, <3>5 DEF Exists, At
  <2> QED
    BY <2>2, <2>3
<1>2. ASSUME NEW m \in Nodes, NEW x \in Versions \cup {NoVersion}, UpdateRead(w, m, x)
      PROVE  Kept(n)'
  <2>1. Exists(m) /\ Read(w, m) = stored[m] /\ stored' = stored
        /\ recorded' = [recorded EXCEPT ![m] = @ \cup Read(w, m).merged]
    BY <1>2, ReadStored DEF UpdateRead, graph
  <2>2. call'[w].step = "update_write"
    BY <1>2, OwnCall
  <2>3. Exists(n) => recorded'[n] \subseteq stored[n].merged
    BY <1>0, <1>t, <2>1
  <2> QED
    BY <1>0, <1>k, <2>1, <2>2, <2>3 DEF Exists, At
<1>3. ASSUME UpdateRecord(w)
      PROVE  Kept(n)'
  <2>1. /\ stored' = stored /\ At(w, "update_record")
        /\ recorded' = [recorded EXCEPT ![call[w].node] = @ \cup call[w].seen.merged]
    BY <1>3 DEF UpdateRecord, graph
  <2>2. /\ call'[w].step = "stale_list" /\ call'[w].node = call[w].node
        /\ call'[w].id = call[w].id /\ call[w].id \in call[w].seen.merged
    BY <1>3, <2>1, OwnCall DEF MergedSeen
  <2>3. Exists(n) => recorded'[n] \subseteq stored[n].merged
    BY <1>0, <1>t, <2>1
  <2>4. Exists(n) /\ call[w].node = n => call[w].id \in stored[n].merged
    BY <1>0, <2>1, <2>2
  <2> QED
    BY <1>0, <1>k, <2>1, <2>2, <2>3, <2>4 DEF Exists, At
<1>4. ASSUME \/ StaleList(w) \/ UpdateReturn(w)
             \/ \E m \in Nodes : StaleRead(w, m) \/ ConfirmRead(w, m) \/ RemoveNode(w, m)
      PROVE  Kept(n)'
  <2>1. recorded' = recorded
    BY <1>4 DEF StaleList, UpdateReturn, StaleRead, ConfirmRead, RemoveNode
  <2>2. stored'[n] # Gone => stored'[n] = stored[n]
    BY <1>4 DEF StaleList, UpdateReturn, StaleRead, ConfirmRead, RemoveNode, graph, StoreOK
  <2>3. call'[w].step \notin {"update_record", "stale_list"}
    BY <1>4, OwnCall
  <2> QED
    BY <1>0, <1>k, <2>1, <2>2, <2>3 DEF Exists, At
<1>5. ASSUME UpdateWrite(w) \/ StaleWrite(w) \/ ConfirmWrite(w)
      PROVE  \E m, p, c : WriteStep(w, m, p, c)
  BY <1>5 DEF WriteStep
<1> QED
  BY <1>1, <1>2, <1>3, <1>4, <1>5 DEF Step

\* Call v will yet flag node m.
WillFlag(v, m) ==
    /\ <<call[v].node, m>> \in links
    /\ \/ call[v].step \in {"update_record", "stale_list"}
       \/ At(v, "stale_read") /\ m \in call[v].todo
       \/ At(v, "stale_write") /\ m \in call[v].todo \cup {call[v].next}

\* Every step keeps the nodes downstream of an update flagged, or the call
\* that will flag them.
LEMMA DownstreamKept ==
  ASSUME Processes = {Creator}, SingleInv, NEW w \in Workers, Step(w)
  PROVE  DownstreamFlagged'
<1> USE DEF SingleInv, SharedInv, TypeInv
<1> DEFINE Flagged(m) == ~Exists(m) \/ stored[m].stale \/ \E v \in Workers : WillFlag(v, m)
<1> SUFFICES ASSUME NEW m \in Nodes, m \in owed', m \notin raced' PROVE Flagged(m)'
  <2>1. owed' \in SUBSET Nodes
    BY TypeKept DEF Next, RestOK
  <2> QED
    BY <2>1 DEF DownstreamFlagged, WillFlag, Exists, At
<1>0. m \notin raced /\ (m \in owed => Flagged(m))
  BY RacedGrows DEF DownstreamFlagged, WillFlag
<1>t. call[w] \in Calls /\ call[w].node \in Nodes
  BY DEF CallsOK, Calls
<1>k. \A v \in Workers \ {w} : /\ call'[v].step = call[v].step /\ call'[v].node = call[v].node
                               /\ call'[v].todo = call[v].todo /\ call'[v].next = call[v].next
  BY OthersKeep
<1>o. ASSUME NEW v \in Workers \ {w}, WillFlag(v, m), links' = links
      PROVE  WillFlag(v, m)'
  BY <1>k, <1>o DEF WillFlag, At
\* What a write leaves of the node.
<1>w. ASSUME NEW n, NEW p, NEW c, WriteStep(w, n, p, c)
      PROVE  /\ links' = links /\ n \in Nodes
             /\ ~Exists(m) => ~Exists(m)'
             /\ Exists(m) /\ stored[m].stale /\ (~ConfirmWrite(w) \/ n # m) => stored'[m].stale
             /\ StaleWrite(w) /\ n = m => stored'[m].stale
  <2>1. /\ n \in Nodes /\ AddNode(w, n, p) /\ links' = links
    BY <1>w, WriteStepDoes DEF AddNode
  <2>2. CASE m # n
    <3>1. stored'[m] = stored[m]
      BY <2>1, <2>2 DEF AddNode, StoreOK
    <3> QED
      BY <2>1, <2>2, <3>1 DEF Exists
  <2>3. CASE m = n
    <3>1. stored[m] = call[w].seen /\ Exists(m)
      BY <1>w, <2>3, WriteReplaces DEF Exists
    <3>2. stored'[m] = p
      BY <2>1, <2>3 DEF AddNode, StoreOK
    <3>3. call[w].seen \in Properties
      BY <1>t DEF Calls
    <3>4. ~ConfirmWrite(w) /\ call[w].seen.stale => p.stale
      BY <1>w, <3>3 DEF WriteStep, Properties
    <3>5. StaleWrite(w) => p.stale
      <4>1. StaleWrite(w) => p = [call[w].seen EXCEPT !.stale = TRUE]
        BY <1>w DEF WriteStep, StaleWrite, UpdateWrite, ConfirmWrite, At
      <4> QED
        BY <3>3, <4>1 DEF Properties
    <3> QED
      BY <2>1, <2>3, <3>1, <3>2, <3>4, <3>5
  <2> QED
    BY <2>2, <2>3
<1>1. ASSUME UpdateWrite(w)
      PROVE  Flagged(m)'
  <2>1. /\ links' = links
        /\ ~Exists(m) => ~Exists(m)'
        /\ Exists(m) /\ stored[m].stale => stored'[m].stale
    <3>1. \E p, c : WriteStep(w, call[w].node, p, c)
      BY <1>1 DEF WriteStep
    <3>2. ~ConfirmWrite(w)
      BY <1>1 DEF UpdateWrite, ConfirmWrite, At
    <3> QED
      BY <1>w, <3>1, <3>2
  <2>2. call'[w].step = "update_record" /\ call'[w].node = call[w].node
    BY <1>1, OwnCall
  <2>3. CASE m \in Downstream(call[w].node)
    <3>1. WillFlag(w, m)'
      BY <2>1, <2>2, <2>3 DEF WillFlag, Downstream
    <3> QED
      BY <3>1
  <2>4. CASE m \in owed
    <3>1. ~WillFlag(w, m)
      BY <1>1 DEF UpdateWrite, WillFlag, At
    <3> QED
      BY <1>0, <1>o, <2>1, <2>4, <3>1 DEF Exists
  <2> QED
    BY <1>1, <2>3, <2>4 DEF UpdateWrite
<1>2. ASSUME StaleWrite(w)
      PROVE  Flagged(m)'
  <2>1. /\ links' = links
        /\ ~Exists(m) => ~Exists(m)'
        /\ Exists(m) /\ stored[m].stale => stored'[m].stale
        /\ call[w].next = m => stored'[m].stale
    <3>1. \E p, c : WriteStep(w, call[w].next, p, c)
      BY <1>2 DEF WriteStep
    <3>2. ~ConfirmWrite(w)
      BY <1>2 DEF StaleWrite, ConfirmWrite, At
    <3> QED
      BY <1>2, <1>w, <3>1, <3>2
  <2>2. m \in owed
    BY <1>2 DEF StaleWrite
  <2>3. /\ call'[w].step = "stale_read" /\ call'[w].node = call[w].node
        /\ call'[w].todo = call[w].todo
    BY <1>2, OwnCall
  <2>4. WillFlag(w, m) => call[w].next = m \/ WillFlag(w, m)'
    BY <1>2, <2>1, <2>3 DEF WillFlag, StaleWrite, At
  <2> QED
    BY <1>0, <1>o, <2>1, <2>2, <2>4 DEF Exists
<1>3. ASSUME ConfirmWrite(w)
      PROVE  Flagged(m)'
  <2>1. m \in owed /\ m # call[w].node
    BY <1>3 DEF ConfirmWrite
  <2>2. /\ links' = links
        /\ ~Exists(m) => ~Exists(m)'
        /\ Exists(m) /\ stored[m].stale => stored'[m].stale
    <3>1. \E p, c : WriteStep(w, call[w].node, p, c)
      BY <1>3 DEF WriteStep
    <3> QED
      BY <1>w, <2>1, <3>1
  <2>3. ~WillFlag(w, m)
    BY <1>3 DEF ConfirmWrite, WillFlag, At
  <2> QED
    BY <1>0, <1>o, <2>1, <2>2, <2>3 DEF Exists
<1>4. ASSUME UNCHANGED graph, UNCHANGED owed, WillFlag(w, m) => WillFlag(w, m)' \/ ~Exists(m)
      PROVE  Flagged(m)'
  BY <1>0, <1>4, <1>o DEF graph, Exists
<1>5. ASSUME UpdateRecord(w) \/ StaleList(w) \/ UpdateReturn(w)
      PROVE  Flagged(m)'
  <2>1. WillFlag(w, m) => WillFlag(w, m)'
    <3>1. CASE UpdateRecord(w)
      BY <3>1, OwnCall DEF UpdateRecord, graph, WillFlag
    <3>2. CASE StaleList(w)
      <4>1. WillFlag(w, m) => Exists(call[w].node) /\ m \in Downstream(call[w].node)
        BY DEF WillFlag, LinksJoin, Downstream
      <4> QED
        BY <3>2, <4>1, OwnCall DEF StaleList, graph, WillFlag, At
    <3>3. CASE UpdateReturn(w)
      BY <3>3 DEF UpdateReturn, WillFlag, At
    <3> QED
      BY <1>5, <3>1, <3>2, <3>3
  <2> QED
    BY <1>4, <1>5, <2>1 DEF UpdateRecord, StaleList, UpdateReturn
<1>6. ASSUME NEW n \in Nodes, StaleRead(w, n)
      PROVE  Flagged(m)'
  <2>1. /\ call'[w].node = call[w].node /\ call'[w].todo = call[w].todo \ {n}
        /\ Exists(n) => call'[w].step = "stale_write" /\ call'[w].next = n
        /\ ~Exists(n) => call'[w].step = "stale_read"
    BY <1>6, OwnCall
  <2>2. UNCHANGED <<stored, links>> /\ At(w, "stale_read") /\ UNCHANGED owed /\ UNCHANGED graph
    BY <1>6 DEF StaleRead, graph
  <2>3. WillFlag(w, m) => WillFlag(w, m)' \/ ~Exists(m)
    BY <2>1, <2>2 DEF WillFlag, At
  <2> QED
    BY <1>4, <2>2, <2>3
<1>7. ASSUME NEW n \in Nodes,
             ConfirmRead(w, n) \/ \E x \in Versions \cup {NoVersion} : UpdateRead(w, n, x)
      PROVE  Flagged(m)'
  <2>1. ~WillFlag(w, m)
    BY <1>7 DEF ConfirmRead, UpdateRead, Begin, WillFlag, At
  <2> QED
    BY <1>4, <1>7, <2>1 DEF ConfirmRead, UpdateRead
<1>8. ASSUME NEW n \in Nodes, RemoveNode(w, n)
      PROVE  Flagged(m)'
  <2>1. m \in owed /\ m \notin Downstream(n)
    BY <1>8 DEF RemoveNode
  <2>2. CASE m = n
    BY <1>8, <2>2 DEF RemoveNode, StoreOK, Exists
  <2>3. CASE m # n
    <3>1. stored'[m] = stored[m]
      BY <1>8, <2>3 DEF RemoveNode, StoreOK
    <3>2. ~WillFlag(w, m)
      BY <1>8 DEF RemoveNode, WillFlag, At
    <3>3. ASSUME NEW v \in Workers \ {w}, WillFlag(v, m)
          PROVE  WillFlag(v, m)'
      <4>1. call[v].node # n
        BY <2>1, <3>3 DEF WillFlag, Downstream
      <4>2. <<call[v].node, m>> \in links'
        BY <1>8, <2>3, <3>3, <4>1 DEF RemoveNode, WillFlag
      <4> QED
        BY <1>k, <3>3, <4>2 DEF WillFlag, At
    <3> QED
      BY <1>0, <2>1, <3>1, <3>2, <3>3 DEF Exists
  <2> QED
    BY <2>2, <2>3
<1> QED
  BY <1>1, <1>2, <1>3, <1>5, <1>6, <1>7, <1>8 DEF Step

\* Every step keeps the invariant of a single process.
LEMMA SingleKept ==
  ASSUME Processes = {Creator}
  PROVE  SingleInv /\ [Next]_vars => SingleInv'
<1> SUFFICES ASSUME SingleInv, [Next]_vars PROVE SingleInv'
  OBVIOUS
<1>1. SharedInv' /\ TypeInv
  BY SharedKept DEF SingleInv, SharedInv
<1>2. CASE Next
  BY <1>1, <1>2, SameKept, CurrentKept, LinksJoinKept, VersionCheckedKept,
     UpdatesKeptKept, DownstreamKept DEF Next, SingleInv
<1>3. CASE UNCHANGED vars
  <2> USE <1>3 DEF vars, graph, SingleInv
  <2>1. Same' /\ Current' /\ ExpectedRead'
    BY DEF Same, Current, ExpectedRead, Writes, At
  <2>2. RecordSeen' /\ LinksJoin' /\ VersionChecked'
    BY DEF RecordSeen, LinksJoin, VersionChecked, Exists, At
  <2>3. UpdatesKept' /\ DownstreamFlagged'
    BY DEF UpdatesKept, DownstreamFlagged, Exists, At
  <2> QED
    BY <1>1, <2>1, <2>2, <2>3
<1> QED
  BY <1>2, <1>3

\* It holds at the beginning.
LEMMA SingleInit ==
  ASSUME Processes = {Creator}
  PROVE  Init => SingleInv
<1> SUFFICES ASSUME Init PROVE SingleInv
  OBVIOUS
<1>1. SharedInv
  BY SharedInit
<1>2. \A w \in Workers : call[w].step = "idle"
  BY DEF Init, Idle
<1>3. Current /\ ExpectedRead /\ RecordSeen
  BY <1>2 DEF Current, ExpectedRead, RecordSeen, Writes, At
<1>4. Same
  BY DEF Init, Same
<1>5. Blank # Gone
  BY BlankOK DEF PropsOK
<1>6. LinksJoin
  BY <1>5 DEF Init, LinksJoin, Exists
<1>7. VersionChecked /\ DownstreamFlagged
  BY DEF Init, VersionChecked, DownstreamFlagged
<1>8. UpdatesKept
  BY <1>2, <1>5 DEF Init, UpdatesKept, At
<1> QED
  BY <1>1, <1>3, <1>4, <1>6, <1>7, <1>8 DEF SingleInv

\* The invariant of a single process holds always.
LEMMA SingleInvariant ==
  ASSUME Processes = {Creator}
  PROVE  Spec => []SingleInv
<1>1. Init => SingleInv
  BY SingleInit
<1>2. SingleInv /\ [Next]_vars => SingleInv'
  BY SingleKept
<1> QED
  BY <1>1, <1>2, PTL DEF Spec

(***************************************************************************)
(* In one process, an update with an expected version replaces that        *)
(* version, unless the node was written between its read and its write.    *)
(***************************************************************************)
THEOREM VersionsChecked ==
  ASSUME Processes = {Creator}
  PROVE  Spec => []VersionChecked
<1>1. SingleInv => VersionChecked
  BY DEF SingleInv
<1> QED
  BY <1>1, SingleInvariant, PTL

(***************************************************************************)
(* In one process, an update that is in the history is in the node, unless *)
(* writes of the node overlapped: flags and confirmations, which rewrite   *)
(* all properties, undo none.                                              *)
(***************************************************************************)
THEOREM UpdatesStay ==
  ASSUME Processes = {Creator}
  PROVE  Spec => []UpdatesKept
<1>1. SingleInv => UpdatesKept
  BY DEF SingleInv
<1> QED
  BY <1>1, SingleInvariant, PTL

(***************************************************************************)
(* In one process, the nodes downstream of an update are flagged, or a     *)
(* call is about to flag them, until they are confirmed or writes of them  *)
(* overlap.                                                                *)
(***************************************************************************)
THEOREM DownstreamIsFlagged ==
  ASSUME Processes = {Creator}
  PROVE  Spec => []DownstreamFlagged
<1>1. SingleInv => DownstreamFlagged
  BY DEF SingleInv
<1> QED
  BY <1>1, SingleInvariant, PTL

(***************************************************************************)
(* Versions count updates, in any number of processes.                     *)
(***************************************************************************)

\* Properties somebody has: the storage, a process, or a call that read them.
Copy(p) ==
    \/ \E n \in Nodes : p = stored[n]
    \/ \E q \in Processes, n \in Nodes : p = local[q][n]
    \/ \E w \in Workers : p = call[w].seen

\* The version of properties is one more than the number of the updates in them.
Counted(p) ==
    /\ p.merged \subseteq 1..calls
    /\ p.version = Cardinality(p.merged) + 1

CopiesCounted == \A p \in Properties : Copy(p) => Counted(p)

\* An update about to be written is in nobody's properties yet, and is the only
\* one with its number.
UpdatesNew ==
    \A w \in Workers : At(w, "update_write") =>
        /\ \A p \in Properties : Copy(p) => call[w].id \notin p.merged
        /\ \A v \in Workers :
            At(v, "update_write") /\ call[v].id = call[w].id => v = w

CountInv == TypeInv /\ CopiesCounted /\ UpdatesNew

\* Properties that a step leaves are those there were, but for the flag, or none
\* known of a node, or an update of what its call read.
Kept(p, o) == p.merged = o.merged /\ p.version = o.version
Updated(w, p) ==
    /\ UpdateWrite(w)
    /\ p.merged = call[w].seen.merged \cup {call[w].id}
    /\ p.version = call[w].seen.version + 1

\* What a call has in sight after a step of its own.
LEMMA OwnSeen ==
  ASSUME TypeInv, NEW w \in Workers, Step(w)
  PROVE  \/ call'[w].seen \in {call[w].seen, Blank}
         \/ \E n \in Nodes : call'[w].seen = Read(w, n)
         \/ Updated(w, call'[w].seen)
<1>0. call \in [Workers -> Calls] /\ call[w] \in Calls /\ call[w].seen \in Properties
  BY DEF TypeInv, CallsOK, Calls
<1>1. CASE UpdateWrite(w)
  <2>1. call'[w].seen = [call[w].seen EXCEPT !.merged = @ \cup {call[w].id},
                                             !.version = @ + 1]
    BY <1>1, OwnCall
  <2> QED
    BY <1>0, <1>1, <2>1 DEF Updated, Properties
<1>2. CASE UpdateRecord(w)
  BY <1>0, <1>2 DEF UpdateRecord, Goto, Calls
<1>3. CASE StaleList(w)
  <2> DEFINE D == IF Exists(call[w].node) THEN Downstream(call[w].node) ELSE {}
  <2>1. call'[w] = [call[w] EXCEPT !.step = "stale_read", !.todo = D]
    BY <1>0, <1>3 DEF StaleList, Goto
  <2> HIDE DEF D
  <2> QED
    BY <1>0, <2>1 DEF Calls
<1>4. ASSUME NEW m \in Nodes, StaleRead(w, m)
      PROVE  call'[w].seen \in {call[w].seen, Read(w, m)}
  <2> DEFINE r == Read(w, m)
  <2>1. call'[w] = IF Exists(m)
                   THEN [[call[w] EXCEPT !.todo = @ \ {m}]
                            EXCEPT !.step = "stale_write", !.next = m,
                                   !.seen = r, !.late = FALSE]
                   ELSE [call[w] EXCEPT !.todo = @ \ {m}]
    BY <1>0, <1>4 DEF StaleRead, Goto
  <2> HIDE DEF r
  <2>2. call'[w].seen \in {call[w].seen, r}
    BY <1>0, <2>1 DEF Calls
  <2> QED
    BY <2>2 DEF r
<1>5. CASE StaleWrite(w)
  <2>1. call'[w] = [call[w] EXCEPT !.step = "stale_read"]
    BY <1>5 DEF StaleWrite, Wrote
  <2> QED
    BY <1>0, <2>1 DEF Calls
<1>6. CASE UpdateReturn(w) \/ ConfirmWrite(w)
  BY <1>0, <1>6 DEF UpdateReturn, ConfirmWrite, Return, Goto, Wrote, Idle
<1>7. ASSUME NEW n \in Nodes, RemoveNode(w, n)
      PROVE  call'[w].seen = call[w].seen
  BY <1>0, <1>7 DEF RemoveNode, Wrote
<1>8. ASSUME NEW n \in Nodes, NEW x \in Versions \cup {NoVersion}, UpdateRead(w, n, x)
      PROVE  call'[w].seen = Read(w, n)
  BY <1>8, OwnCall
<1>9. ASSUME NEW n \in Nodes, ConfirmRead(w, n)
      PROVE  call'[w].seen = Read(w, n)
  BY <1>0, <1>9 DEF ConfirmRead, Begin, Idle
<1> QED
  BY <1>1, <1>2, <1>3, <1>4, <1>5, <1>6, <1>7, <1>8, <1>9 DEF Step

\* What a step writes to a node.
LEMMA OwnWrite ==
  ASSUME TypeInv, NEW w \in Workers, NEW n, NEW p, NEW c, WriteStep(w, n, p, c)
  PROVE  Kept(p, call[w].seen) \/ Updated(w, p)
<1>0. call[w].seen \in Properties
  BY DEF TypeInv, CallsOK, Calls
<1> QED
  BY <1>0 DEF WriteStep, Kept, Updated, Properties

\* Where the properties come from that somebody has after a step.
LEMMA CopiesAfter ==
  ASSUME TypeInv, NEW w \in Workers, Step(w), NEW p \in Properties, Copy(p)'
  PROVE  \/ \E o \in Properties : (Copy(o) \/ o = Blank) /\ Kept(p, o)
         \/ Updated(w, p)
<1> DEFINE From == \E o \in Properties : (Copy(o) \/ o = Blank) /\ Kept(p, o)
<1>0. /\ call[w].seen \in Properties /\ Blank \in Properties
      /\ \A n \in Nodes : Read(w, n) \in Properties
      /\ \A n \in Nodes : Copy(Read(w, n)) \/ Read(w, n) = Blank
      /\ Process(w) \in Processes
      /\ stored \in [Nodes -> Properties \cup {Gone}]
      /\ local \in [Processes -> [Nodes -> Properties \cup {Gone}]]
      /\ p # Gone
  <2>1. calls \in Nat
    BY DEF TypeInv, RestOK
  <2> QED
    BY <2>1, WorkerProcess, ReadOK, BlankOK
       DEF TypeInv, CallsOK, Calls, StoreOK, PropsOK, Copy, Read
<1>1. ASSUME Copy(p) PROVE From
  BY <1>1 DEF Kept
<1>2. ASSUME NEW v \in Workers, p = call'[v].seen PROVE From \/ Updated(w, p)
  <2>1. CASE v = w
    BY <1>0, <1>2, <2>1, OwnSeen DEF Kept, Copy
  <2>2. CASE v # w
    BY <1>1, <1>2, <2>2, OthersKeep DEF Copy
  <2> QED
    BY <2>1, <2>2
<1>3. ASSUME \/ \E n \in Nodes : p = stored'[n]
             \/ \E q \in Processes, n \in Nodes : p = local'[q][n]
      PROVE  From \/ Updated(w, p)
  <2>1. ASSUME NEW n, NEW x, NEW c, WriteStep(w, n, x, c) PROVE From \/ Updated(w, p)
    <3>1. n \in Nodes /\ AddNode(w, n, x)
      BY <2>1, WriteStepDoes
    <3>2. Copy(p) \/ p = x
      BY <1>0, <1>3, <3>1 DEF AddNode, Copy
    <3>3. p = x => From \/ Updated(w, p)
      BY <1>0, <2>1, OwnWrite DEF Copy
    <3> QED
      BY <1>1, <3>2, <3>3
  <2>2. ASSUME NEW n \in Nodes, RemoveNode(w, n) PROVE Copy(p)
    BY <1>0, <1>3, <2>2 DEF RemoveNode, Copy
  <2>3. ASSUME UNCHANGED graph PROVE Copy(p)
    BY <1>3, <2>3 DEF graph, Copy
  <2> QED
    BY <1>1, <2>1, <2>2, <2>3, StepKinds DEF QuietStep, ReadStep
<1> QED
  BY <1>2, <1>3 DEF Copy

\* A call that is about to write an update has just read, with the next number.
LEMMA UpdateBegins ==
  ASSUME TypeInv, NEW w \in Workers, Step(w), At(w, "update_write")'
  PROVE  call'[w].id = calls + 1 /\ calls' = calls + 1 /\ ~At(w, "update_write")
<1>0. call \in [Workers -> Calls]
  BY DEF TypeInv, CallsOK
<1>1. PICK n \in Nodes, x \in Versions \cup {NoVersion} : UpdateRead(w, n, x)
  BY OwnCall DEF Step, At
<1> QED
  BY <1>0, <1>1 DEF UpdateRead, Begin, At, Idle

\* Calls are counted up.
LEMMA CallsGrow ==
  ASSUME NEW w \in Workers, Step(w)
  PROVE  calls' \in {calls, calls + 1}
BY DEF Step, UpdateRead, UpdateWrite, UpdateRecord, StaleList, StaleRead, StaleWrite,
   UpdateReturn, ConfirmRead, ConfirmWrite, RemoveNode, Begin

\* An update that was not in the properties is one more.
LEMMA OneMore ==
  ASSUME NEW k \in Nat, NEW S, S \subseteq 1..k, NEW i, i \notin S
  PROVE  Cardinality(S \cup {i}) = Cardinality(S) + 1
<1>1. IsFiniteSet(1..k)
  BY FS_Interval
<1>2. IsFiniteSet(S)
  BY <1>1, FS_Subset
<1> QED
  BY <1>2, FS_AddElement

\* Every step keeps versions and updates in step.
LEMMA CountKept == CountInv /\ [Next]_vars => CountInv'
<1> SUFFICES ASSUME CountInv, [Next]_vars PROVE CountInv'
  OBVIOUS
<1>0. TypeInv /\ TypeInv' /\ calls \in Nat
  BY TypeKept DEF CountInv, TypeInv, RestOK
<1>1. CASE UNCHANGED vars
  <2>1. \A p : Copy(p)' <=> Copy(p)
    BY <1>1 DEF vars, graph, Copy
  <2>2. CopiesCounted'
    BY <1>1, <2>1 DEF CountInv, CopiesCounted, Counted, vars
  <2>3. UpdatesNew'
    BY <1>1, <2>1 DEF CountInv, UpdatesNew, At, vars
  <2> QED
    BY <1>0, <2>2, <2>3 DEF CountInv
<1>2. ASSUME NEW w \in Workers, Step(w) PROVE CountInv'
  <2>0. /\ calls' \in {calls, calls + 1}
        /\ call[w].seen \in Properties /\ Copy(call[w].seen)
        /\ UpdateWrite(w) => At(w, "update_write")
        /\ At(w, "update_write") => call[w].id \in 1..calls
    BY <1>0, <1>2, CallsGrow DEF TypeInv, CallsOK, CallOK, Calls, Copy, UpdateWrite, At
  <2>1. Counted(Blank)
    BY <1>0, FS_EmptySet DEF Blank, Counted
  <2>2. ASSUME NEW p \in Properties, Copy(p)' PROVE Counted(p)'
    <3>1. CASE \E o \in Properties : (Copy(o) \/ o = Blank) /\ Kept(p, o)
      BY <1>0, <2>0, <2>1, <3>1 DEF CountInv, CopiesCounted, Counted, Kept
    <3>2. CASE Updated(w, p)
      <4>1. /\ Counted(call[w].seen)
            /\ call[w].id \notin call[w].seen.merged
            /\ call[w].id \in 1..calls
        BY <2>0, <3>2 DEF Updated, CountInv, CopiesCounted, UpdatesNew
      <4>2. Cardinality(p.merged) = Cardinality(call[w].seen.merged) + 1
        BY <1>0, <3>2, <4>1, OneMore DEF Updated, Counted
      <4> QED
        BY <1>0, <2>0, <3>2, <4>1, <4>2 DEF Updated, Counted
    <3> QED
      BY <1>0, <1>2, <2>2, <3>1, <3>2, CopiesAfter
  <2>3. ASSUME NEW v \in Workers, At(v, "update_write")',
               NEW p \in Properties, Copy(p)'
        PROVE  call'[v].id \notin p.merged
    <3>1. CASE v = w
      <4>1. call'[v].id = calls + 1 /\ ~At(w, "update_write")
        BY <1>0, <1>2, <2>3, <3>1, UpdateBegins
      <4>2. PICK o \in Properties : (Copy(o) \/ o = Blank) /\ Kept(p, o)
        BY <1>0, <1>2, <2>0, <2>3, <4>1, CopiesAfter DEF Updated
      <4>3. p.merged \subseteq 1..calls
        BY <2>1, <4>2 DEF CountInv, CopiesCounted, Counted, Kept
      <4> QED
        BY <1>0, <4>1, <4>3
    <3>2. CASE v # w
      <4>1. At(v, "update_write") /\ call'[v].id = call[v].id
        BY <1>0, <1>2, <2>3, <3>2, OthersKeep DEF At
      <4>2. CASE \E o \in Properties : (Copy(o) \/ o = Blank) /\ Kept(p, o)
        BY <4>1, <4>2 DEF CountInv, UpdatesNew, Kept, Blank
      <4>3. CASE Updated(w, p)
        BY <2>0, <3>2, <4>1, <4>3 DEF CountInv, UpdatesNew, Updated
      <4> QED
        BY <1>0, <1>2, <2>3, <4>2, <4>3, CopiesAfter
    <3> QED
      BY <3>1, <3>2
  <2>4. ASSUME NEW u \in Workers, NEW v \in Workers, At(u, "update_write")',
               At(v, "update_write")', call'[v].id = call'[u].id
        PROVE  v = u
    <3>1. ASSUME NEW x \in Workers, x # w, At(x, "update_write")'
          PROVE  /\ At(x, "update_write") /\ call'[x].id = call[x].id
                 /\ call[x].id \in 1..calls
      BY <1>0, <1>2, <3>1, OthersKeep DEF At, TypeInv, CallsOK, CallOK, Calls
    <3>2. ASSUME At(w, "update_write")'
          PROVE  call'[w].id = calls + 1
      BY <1>0, <1>2, <3>2, UpdateBegins
    <3> QED
      BY <1>0, <2>4, <3>1, <3>2 DEF CountInv, UpdatesNew
  <2> QED
    BY <1>0, <2>2, <2>3, <2>4 DEF CountInv, CopiesCounted, UpdatesNew
<1> QED
  BY <1>1, <1>2 DEF Next

(***************************************************************************)
(* In any number of processes, and whichever updates are lost, the version *)
(* of a node is one more than the number of updates in it.  An update that *)
(* is lost takes its version with it: the version does not tell of it.     *)
(***************************************************************************)
THEOREM VersionsCountUpdates ==
  Spec => [](\A n \in Nodes :
                Exists(n) => stored[n].version = Cardinality(stored[n].merged) + 1)
<1>1. Init => CountInv
  <2> SUFFICES ASSUME Init PROVE CountInv
    OBVIOUS
  <2>1. TypeInv /\ \A w \in Workers : call[w].step = "idle" /\ call[w].seen = Blank
    BY TypeInit DEF Init, Idle
  <2>2. \A p \in Properties : Copy(p) => p = Blank
    BY <2>1, GoneAssumption DEF Init, Copy
  <2>3. Counted(Blank)
    BY FS_EmptySet DEF Init, Blank, Counted
  <2> QED
    BY <2>1, <2>2, <2>3 DEF CountInv, CopiesCounted, UpdatesNew, At
<1>2. CountInv =>
        \A n \in Nodes : Exists(n) => stored[n].version = Cardinality(stored[n].merged) + 1
  BY DEF CountInv, CopiesCounted, Counted, Copy, Exists, TypeInv, StoreOK
<1> QED
  BY <1>1, <1>2, CountKept, PTL DEF Spec

(***************************************************************************)
(* What a step makes of a node that is there before and after it.          *)
(***************************************************************************)
Builds(old, new) ==
    \/ /\ new.version = old.version + 1
       /\ \E u \in Updates : new.merged = old.merged \cup {u}
       /\ new.stale = old.stale
    \/ /\ new.version = old.version
       /\ new.merged = old.merged
       /\ new.stale # old.stale

(***************************************************************************)
(* In one process, whatever its threads do: a step that changes a node     *)
(* adds one update to it, and one to its version, or changes its flag and  *)
(* nothing else, unless writes of the node overlapped.  Versions never go  *)
(* back and no update leaves the node.                                     *)
(***************************************************************************)
THEOREM WritesBuild ==
  ASSUME Processes = {Creator}
  PROVE  Spec => [][\A n \in Nodes :
                        /\ stored[n] # Gone /\ stored'[n] # Gone
                        /\ stored'[n] # stored[n] /\ n \notin raced'
                        => Builds(stored[n], stored'[n])]_vars
<1>1. SingleInv /\ [Next]_vars =>
        [\A n \in Nodes : /\ stored[n] # Gone /\ stored'[n] # Gone
                          /\ stored'[n] # stored[n] /\ n \notin raced'
                          => Builds(stored[n], stored'[n])]_vars
  <2> SUFFICES ASSUME SingleInv, [Next]_vars, NEW m \in Nodes,
                      stored[m] # Gone, stored'[m] # Gone,
                      stored'[m] # stored[m], m \notin raced'
               PROVE  Builds(stored[m], stored'[m])
    OBVIOUS
  <2>0. TypeInv /\ Current
    BY DEF SingleInv, SharedInv
  <2>1. PICK w \in Workers : Step(w)
    BY DEF Next, vars, graph
  <2>2. ASSUME NEW n, NEW p, NEW c, WriteStep(w, n, p, c)
        PROVE  Builds(stored[m], stored'[m])
    <3>1. n \in Nodes /\ AddNode(w, n, p)
      BY <2>0, <2>2, WriteStepDoes
    <3>2. m = n /\ stored'[m] = p
      BY <2>0, <3>1 DEF AddNode, TypeInv, StoreOK
    <3>3. stored[m] = call[w].seen
      BY <2>0, <2>2, <3>2, WriteReplaces
    <3>4. call[w].seen \in Properties
      BY <2>0 DEF TypeInv, CallsOK, Calls
    <3>5. CASE UpdateWrite(w)
      <4>1. call[w].id \in Updates
        BY <2>0, <3>5 DEF TypeInv, CallsOK, CallOK, Calls, UpdateWrite, At, Updates
      <4>2. p = [call[w].seen EXCEPT !.merged = @ \cup {call[w].id}, !.version = @ + 1]
        BY <2>2, <3>5 DEF WriteStep, UpdateWrite, StaleWrite, ConfirmWrite, At
      <4> QED
        BY <3>2, <3>3, <3>4, <4>1, <4>2 DEF Builds, Properties
    <3>6. CASE ~UpdateWrite(w)
      <4>1. PICK b \in BOOLEAN : p = [call[w].seen EXCEPT !.stale = b]
        BY <2>2, <3>6 DEF WriteStep
      <4> QED
        BY <3>2, <3>3, <3>4, <4>1 DEF Builds, Properties
    <3> QED
      BY <3>5, <3>6
  <2>3. ASSUME UNCHANGED graph \/ \E n \in Nodes : RemoveNode(w, n)
        PROVE  FALSE
    BY <2>0, <2>3 DEF graph, RemoveNode, TypeInv, StoreOK
  <2> QED
    BY <2>0, <2>1, <2>2, <2>3, StepKinds DEF QuietStep, ReadStep
<1> QED
  BY <1>1, SingleInvariant, PTL DEF Spec

\* A single worker is never late.
NeverLate == raced = {} /\ \A w \in Workers : ~call[w].late

\* It makes only others late.
LEMMA NeverLateKept ==
  ASSUME NEW w, Workers = {w}, TypeInv, NeverLate, [Next]_vars
  PROVE  NeverLate'
<1>0. call \in [Workers -> Calls] /\ call[w] \in Calls /\ w \in Workers
      /\ raced = {} /\ ~call[w].late
  BY DEF TypeInv, CallsOK, NeverLate
<1>1. ASSUME NEW n, NEW p, NEW c, WriteStep(w, n, p, c) PROVE NeverLate'
  <2>1. AddNode(w, n, p) /\ Wrote(w, n, c)
    BY <1>0, <1>1, WriteStepDoes
  <2>2. raced' = {} /\ call'[w] = c
    BY <1>0, <2>1 DEF AddNode, Wrote
  <2>3. c.late = call[w].late \/ c.late = FALSE
    <3>1. ASSUME NEW q, c = [call[w] EXCEPT !.step = "update_record", !.seen = q]
          PROVE  c.late = call[w].late
      BY <1>0, <3>1 DEF Calls
    <3>2. ASSUME c = [call[w] EXCEPT !.step = "stale_read"]
          PROVE  c.late = call[w].late
      BY <1>0, <3>2 DEF Calls
    <3>3. ASSUME NEW k, c = Idle(k) PROVE c.late = FALSE
      BY <3>3 DEF Idle
    <3> QED
      BY <1>1, <3>1, <3>2, <3>3 DEF WriteStep
  <2> QED
    BY <1>0, <2>2, <2>3 DEF NeverLate
<1>2. ASSUME NEW n \in Nodes, RemoveNode(w, n) PROVE NeverLate'
  <2>1. raced' = {} /\ call'[w] = call[w]
    BY <1>0, <1>2 DEF RemoveNode, Wrote
  <2> QED
    BY <1>0, <2>1 DEF NeverLate
<1>3. ASSUME NEW n \in Nodes, StaleRead(w, n) PROVE NeverLate'
  <2> DEFINE r == Read(w, n)
  <2>1. call'[w] = IF Exists(n)
                   THEN [[call[w] EXCEPT !.todo = @ \ {n}]
                            EXCEPT !.step = "stale_write", !.next = n,
                                   !.seen = r, !.late = FALSE]
                   ELSE [call[w] EXCEPT !.todo = @ \ {n}]
    BY <1>0, <1>3 DEF StaleRead, Goto
  <2> HIDE DEF r
  <2>2. ~call'[w].late
    BY <1>0, <2>1 DEF Calls
  <2>3. raced' = {}
    BY <1>0, <1>3 DEF StaleRead
  <2> QED
    BY <1>0, <2>2, <2>3 DEF NeverLate
<1>4. ASSUME NEW n \in Nodes, NEW x \in Versions \cup {NoVersion}, UpdateRead(w, n, x)
      PROVE  NeverLate'
  BY <1>0, <1>4 DEF UpdateRead, Begin, Idle, NeverLate
<1>5. ASSUME NEW n \in Nodes, ConfirmRead(w, n) PROVE NeverLate'
  BY <1>0, <1>5 DEF ConfirmRead, Begin, Idle, NeverLate
<1>6. CASE UpdateRecord(w)
  BY <1>0, <1>6 DEF UpdateRecord, Goto, Calls, NeverLate
<1>7. CASE StaleList(w)
  <2> DEFINE D == IF Exists(call[w].node) THEN Downstream(call[w].node) ELSE {}
  <2>1. call'[w] = [call[w] EXCEPT !.step = "stale_read", !.todo = D] /\ raced' = raced
    BY <1>0, <1>7 DEF StaleList, Goto
  <2> HIDE DEF D
  <2> QED
    BY <1>0, <2>1 DEF Calls, NeverLate
<1>8. CASE UpdateReturn(w)
  BY <1>0, <1>8 DEF UpdateReturn, Return, Goto, Idle, NeverLate
<1>9. CASE UpdateWrite(w) \/ StaleWrite(w) \/ ConfirmWrite(w)
  BY <1>1, <1>9 DEF WriteStep
<1>10. CASE UNCHANGED vars
  BY <1>0, <1>10 DEF vars, NeverLate
<1> QED
  BY <1>0, <1>2, <1>3, <1>4, <1>5, <1>6, <1>7, <1>8, <1>9, <1>10 DEF Next, Step

(***************************************************************************)
(* With a single worker the exceptions never occur: a removed node never   *)
(* comes back, an expected version is the one replaced, and whatever was   *)
(* recorded of a node is in it.                                            *)
(***************************************************************************)
THEOREM OneWorkerNeverRaces ==
  ASSUME NEW w, Workers = {w}
  PROVE  Spec => /\ [](raced = {} /\ mismatched = {})
                 /\ [](\A n \in Nodes : Exists(n) => recorded[n] \subseteq stored[n].merged)
                 /\ [][\A n \in Nodes : stored[n] = Gone => stored'[n] = Gone]_vars
<1>0. Processes = {Creator}
  <2>1. w \in Processes \X Threads
    BY DEF Workers
  <2>2. \A q \in Processes : <<q, w[2]>> = w
    BY <2>1 DEF Workers
  <2> QED
    BY <2>2, CreatorAssumption
<1>1. Init => NeverLate
  BY DEF Init, NeverLate, Idle
<1>2. TypeInv /\ NeverLate /\ [Next]_vars => NeverLate'
  BY NeverLateKept
<1>3. SingleInv /\ NeverLate =>
        /\ raced = {} /\ mismatched = {}
        /\ \A n \in Nodes : Exists(n) => recorded[n] \subseteq stored[n].merged
  BY DEF SingleInv, NeverLate, VersionChecked, UpdatesKept
<1>4. [\A n \in Nodes : stored[n] = Gone /\ stored'[n] # Gone => n \in raced']_vars
      /\ NeverLate'
        => [\A n \in Nodes : stored[n] = Gone => stored'[n] = Gone]_vars
  BY DEF NeverLate
<1> QED
  BY <1>0, <1>1, <1>2, <1>3, <1>4, TypeInvariant, SingleInvariant, RemovedNodesStay, PTL
     DEF Spec, RemovedStays
=============================================================================
