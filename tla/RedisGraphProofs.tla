-------------------------- MODULE RedisGraphProofs --------------------------
(***************************************************************************)
(* Proofs about RedisGraph for every set of workers, nodes, edges and      *)
(* labels and every bound on calls and deletions.                          *)
(***************************************************************************)
EXTENDS RedisGraph, TLAPS

USE NamesAssumption, BoundAssumption

(***************************************************************************)
(* A worker's call when it begins, returns or goes on.                     *)
(***************************************************************************)
CallOK(c) == c \in Calls /\ HasLocals(c)

CallsOK == call \in [Workers -> Calls] /\ \A w \in Workers : HasLocals(call[w])

\* A worker without a call.
LEMMA IdleOK == CallOK(Idle)
BY DEF CallOK, Idle, Calls, HasLocals, Steps, RemoveSteps, ConnectSteps

\* What a call removes or uses are nodes.
LEMMA RemovesUses ==
  ASSUME NEW c, CallOK(c)
  PROVE  Removes(c) \subseteq Nodes /\ Uses(c) \subseteq Nodes
BY DEF CallOK, Calls, HasLocals, Removes, Uses, Steps, RemoveSteps, ConnectSteps

\* Calls stay well formed when one goes on.
LEMMA GotoOK ==
  ASSUME CallsOK, raced \in SUBSET Nodes, NEW w \in Workers, NEW c, CallOK(c),
         Goto(w, c)
  PROVE  CallsOK' /\ raced' \in SUBSET Nodes /\ raced \subseteq raced'
<1>1. CallsOK'
  BY DEF CallsOK, CallOK, Goto
<1>2. Removes(c) \subseteq Nodes /\ Uses(c) \subseteq Nodes
  BY RemovesUses
<1> QED
  BY <1>1, <1>2 DEF Goto

\* ... and when one returns.
LEMMA ReturnOK ==
  ASSUME CallsOK, NEW w \in Workers, Return(w)
  PROVE  CallsOK' /\ raced' = raced
BY IdleOK DEF CallsOK, CallOK, Return

(***************************************************************************)
(* The call a step goes on to is well formed.                              *)
(***************************************************************************)
LEMMA UpdateCallOK ==
  ASSUME NEW n \in Nodes
  PROVE  CallOK([Idle EXCEPT !.step = "update_write", !.node = n])
<1> DEFINE c == [Idle EXCEPT !.step = "update_write", !.node = n]
<1>1. c \in Calls
  BY DEF Calls, Idle, Steps
<1>2. HasLocals(c)
  BY DEF HasLocals, Idle, RemoveSteps, ConnectSteps
<1> QED
  BY <1>1, <1>2 DEF CallOK

\* remove_node begins.
LEMMA RemoveCallOK ==
  ASSUME NEW n \in Nodes, NEW l \in Labels \cup {Bare}
  PROVE  CallOK([Idle EXCEPT !.step = "remove_list_out", !.node = n, !.label = l])
<1> DEFINE c == [Idle EXCEPT !.step = "remove_list_out", !.node = n, !.label = l]
<1>1. c \in Calls
  BY DEF Calls, Idle, Steps, RemoveSteps, ConnectSteps
<1>2. HasLocals(c)
  BY DEF HasLocals, Idle, RemoveSteps, ConnectSteps
<1> QED
  BY <1>1, <1>2 DEF CallOK

\* CREATE EDGE begins.
LEMMA ConnectCallOK ==
  ASSUME NEW n \in Nodes, NEW t \in Nodes, NEW e \in Edges
  PROVE  CallOK([Idle EXCEPT !.step = "connect_target", !.node = n,
                             !.other = t, !.edge = e])
<1> DEFINE c == [Idle EXCEPT !.step = "connect_target", !.node = n,
                           !.other = t, !.edge = e]
<1>1. c \in Calls
  BY DEF Calls, Idle, Steps, RemoveSteps, ConnectSteps
<1>2. HasLocals(c)
  BY DEF HasLocals, Idle, RemoveSteps, ConnectSteps
<1> QED
  BY <1>1, <1>2 DEF CallOK

\* delete_graph begins.
LEMMA DeleteCallOK ==
  ASSUME NEW D \in SUBSET Keys
  PROVE  CallOK([Idle EXCEPT !.step = "delete", !.left = D])
<1> DEFINE c == [Idle EXCEPT !.step = "delete", !.left = D]
<1>1. c \in Calls
  BY DEF Calls, Idle, Steps, RemoveSteps, ConnectSteps
<1>2. HasLocals(c)
  BY DEF HasLocals, Idle, RemoveSteps, ConnectSteps
<1> QED
  BY <1>1, <1>2 DEF CallOK

\* A call goes on to another step.
LEMMA StepCallOK ==
  ASSUME NEW b, CallOK(b),
         NEW step \in RemoveSteps \cup ConnectSteps,
         step \in RemoveSteps => b.step \in RemoveSteps,
         step \in ConnectSteps => b.step \in ConnectSteps
  PROVE  CallOK([b EXCEPT !.step = step])
<1> DEFINE c == [b EXCEPT !.step = step]
<1>1. c \in Calls
  BY DEF CallOK, Calls, Steps, RemoveSteps, ConnectSteps
<1>2. HasLocals(c)
  BY DEF CallOK, Calls, HasLocals, RemoveSteps, ConnectSteps
<1> QED
  BY <1>1, <1>2 DEF CallOK

\* ... with other edges to handle.
LEMMA TodoCallOK ==
  ASSUME NEW b, CallOK(b), NEW D \in SUBSET Edges
  PROVE  CallOK([b EXCEPT !.todo = D])
<1> DEFINE c == [b EXCEPT !.todo = D]
<1>1. c \in Calls
  BY DEF CallOK, Calls, Steps, RemoveSteps, ConnectSteps
<1>2. HasLocals(c)
  BY DEF CallOK, Calls, HasLocals, RemoveSteps, ConnectSteps
<1> QED
  BY <1>1, <1>2 DEF CallOK

\* ... with other keys to delete.
LEMMA LeftCallOK ==
  ASSUME NEW b, CallOK(b), NEW D \in SUBSET Keys
  PROVE  CallOK([b EXCEPT !.left = D])
<1> DEFINE c == [b EXCEPT !.left = D]
<1>1. c \in Calls
  BY DEF CallOK, Calls, Steps, RemoveSteps, ConnectSteps
<1>2. HasLocals(c)
  BY DEF CallOK, Calls, HasLocals, RemoveSteps, ConnectSteps
<1> QED
  BY <1>1, <1>2 DEF CallOK

\* ... at another step with other edges.
LEMMA ListCallOK ==
  ASSUME NEW b, CallOK(b), b.step \in RemoveSteps,
         NEW step \in RemoveSteps, NEW D \in SUBSET Edges
  PROVE  CallOK([b EXCEPT !.step = step, !.todo = D])
<1> DEFINE c == [b EXCEPT !.step = step, !.todo = D]
<1>1. c \in Calls
  BY DEF CallOK, Calls, Steps, RemoveSteps, ConnectSteps
<1>2. HasLocals(c)
  BY DEF CallOK, Calls, HasLocals, RemoveSteps, ConnectSteps
<1> QED
  BY <1>1, <1>2 DEF CallOK

\* No step gives a variable a value of another type.
LEMMA TypeKept ==
  ASSUME TypeOK, [Next]_vars
  PROVE  TypeOK'
<1>0. CallsOK /\ raced \in SUBSET Nodes /\ \A w \in Workers : CallOK(call[w])
  BY DEF TypeOK, CallsOK, CallOK
<1> DEFINE KeysOK == /\ node' \in [Nodes -> Labels \cup {Absent, Bare}]
                     /\ nodes' \in SUBSET Nodes
                     /\ ntype' \in [Labels -> SUBSET Nodes]
                     /\ edge' \in [Edges -> (Nodes \X Nodes) \cup {NoEnds}]
                     /\ edges' \in SUBSET Edges
                     /\ out' \in [Nodes -> SUBSET Edges]
                     /\ in' \in [Nodes -> SUBSET Edges]
           HistoryOK == relabelled' \in SUBSET Nodes /\ calls' \in 0..MaxCalls
           RacedOK == CallsOK' /\ raced' \in SUBSET Nodes
<1>a. ASSUME KeysOK, HistoryOK, RacedOK
      PROVE  TypeOK'
  BY <1>a DEF TypeOK, CallsOK
<1>b. ASSUME UNCHANGED <<nodeKeys, edgeKeys>>
      PROVE  KeysOK
  BY <1>b DEF TypeOK, nodeKeys, edgeKeys
<1>c. ASSUME UNCHANGED relabelled, calls' \in {calls} \/ \E w \in Workers : Begin(w)
      PROVE  HistoryOK
  BY <1>c DEF TypeOK, Begin
<1>d. ASSUME NEW w \in Workers, NEW c, CallOK(c), Goto(w, c)
      PROVE  RacedOK
  BY <1>0, <1>d, GotoOK
<1>e. ASSUME NEW w \in Workers, Return(w)
      PROVE  RacedOK
  BY <1>0, <1>e, ReturnOK
<1> HIDE DEF KeysOK, HistoryOK, RacedOK
<1>1. ASSUME NEW w \in Workers, NEW n \in Nodes, NEW l \in Labels, AddNode(w, n, l)
      PROVE  TypeOK'
  <2>1. KeysOK
    BY <1>1 DEF TypeOK, KeysOK, AddNode, edgeKeys
  <2>2. HistoryOK
    BY <1>1 DEF TypeOK, HistoryOK, AddNode, Begin
  <2>3. RacedOK
    BY <1>0, <1>1 DEF RacedOK, CallsOK, AddNode
  <2> QED
    BY <1>a, <2>1, <2>2, <2>3
<1>2. ASSUME NEW w \in Workers, NEW n \in Nodes, UpdateRead(w, n)
      PROVE  TypeOK'
  BY <1>2, <1>a, <1>b, <1>c, <1>d, UpdateCallOK DEF UpdateRead
<1>3. ASSUME NEW w \in Workers, NEW n \in Nodes, RemoveRead(w, n)
      PROVE  TypeOK'
  <2>1. node[n] \in Labels \cup {Bare}
    BY <1>3 DEF TypeOK, RemoveRead
  <2>2. CallOK([Idle EXCEPT !.step = "remove_list_out", !.node = n, !.label = node[n]])
    BY <2>1, RemoveCallOK
  <2> QED
    BY <1>3, <2>2, <1>a, <1>b, <1>c, <1>d DEF RemoveRead
<1>4. ASSUME NEW w \in Workers, NEW n \in Nodes, NEW e \in Edges, NEW t \in Nodes,
             ConnectSource(w, e, n, t)
      PROVE  TypeOK'
  BY <1>4, <1>a, <1>b, <1>c, <1>d, ConnectCallOK DEF ConnectSource
<1>5. ASSUME NEW w \in Workers, UpdateWrite(w)
      PROVE  TypeOK'
  <2>1. KeysOK
    BY <1>5 DEF TypeOK, KeysOK, UpdateWrite, edgeKeys
  <2> QED
    BY <1>5, <2>1, <1>a, <1>c, <1>e DEF UpdateWrite
<1>6. ASSUME NEW w \in Workers, ConnectTarget(w)
      PROVE  TypeOK'
  <2>1. CallOK([call[w] EXCEPT !.step = "connect_add"])
    BY <1>0, <1>6, StepCallOK DEF ConnectTarget, At, ConnectSteps, RemoveSteps
  <2> QED
    BY <1>6, <2>1, <1>a, <1>b, <1>c, <1>d, <1>e DEF ConnectTarget
<1>7. ASSUME NEW w \in Workers, AddEdge(w)
      PROVE  TypeOK'
  <2>1. /\ call[w].edge \in Edges
        /\ call[w].node \in Nodes
        /\ call[w].other \in Nodes
    BY <1>0, <1>7 DEF AddEdge, At, CallsOK, HasLocals, ConnectSteps
  <2>2. KeysOK
    BY <1>7, <2>1 DEF TypeOK, KeysOK, AddEdge, nodeKeys
  <2> QED
    BY <1>7, <2>2, <1>a, <1>c, <1>e DEF AddEdge
<1>8. ASSUME NEW w \in Workers, RemoveListOut(w)
      PROVE  TypeOK'
  <2>1. call[w].node \in Nodes
    BY <1>0, <1>8 DEF RemoveListOut, At, CallsOK, HasLocals
  <2>2. CallOK([call[w] EXCEPT !.step = "remove_out", !.todo = out[call[w].node]])
    BY <1>0, <1>8, <2>1, ListCallOK DEF RemoveListOut, At, TypeOK, RemoveSteps
  <2> QED
    BY <1>8, <2>2, <1>a, <1>b, <1>c, <1>d DEF RemoveListOut
<1>9. ASSUME NEW w \in Workers, NEW e \in Edges, RemoveEdge(w, e)
      PROVE  TypeOK'
  <2>1. call[w].todo \ {e} \in SUBSET Edges
    BY <1>0 DEF CallOK, Calls
  <2>2. CallOK([call[w] EXCEPT !.todo = @ \ {e}])
    BY <1>0, <2>1, TodoCallOK
  <2>3. KeysOK
    BY <1>9 DEF TypeOK, KeysOK, RemoveEdge, DropEdge, nodeKeys, edgeKeys
  <2> QED
    BY <1>9, <2>2, <2>3, <1>a, <1>c, <1>d DEF RemoveEdge
<1>10. ASSUME NEW w \in Workers, RemoveListIn(w)
       PROVE  TypeOK'
  <2>1. call[w].node \in Nodes
    BY <1>0, <1>10 DEF RemoveListIn, At, CallsOK, HasLocals
  <2>2. CallOK([call[w] EXCEPT !.step = "remove_in", !.todo = in[call[w].node]])
    BY <1>0, <1>10, <2>1, ListCallOK DEF RemoveListIn, At, TypeOK, RemoveSteps
  <2> QED
    BY <1>10, <2>2, <1>a, <1>b, <1>c, <1>d DEF RemoveListIn
<1>11. ASSUME NEW w \in Workers, RemoveFinish(w)
       PROVE  TypeOK'
  <2>1. KeysOK
    BY <1>11 DEF TypeOK, KeysOK, RemoveFinish
  <2> QED
    BY <1>11, <2>1, <1>a, <1>c, <1>e DEF RemoveFinish
<1>12. ASSUME NEW w \in Workers, DeleteBegin(w)
       PROVE  TypeOK'
  <2> DEFINE D == {k \in Keys : Present(k)}
  <2>1. CallOK([Idle EXCEPT !.step = "delete", !.left = D])
    BY DeleteCallOK
  <2> QED
    BY <1>12, <2>1, <1>a, <1>b, <1>c, <1>d DEF DeleteBegin
<1>13. ASSUME NEW w \in Workers, NEW k \in Keys, DeleteKey(w, k) \/ DeleteMiss(w, k)
       PROVE  TypeOK'
  <2>1. call[w].left \ {k} \in SUBSET Keys
    BY <1>0 DEF CallOK, Calls
  <2>2. CallOK([call[w] EXCEPT !.left = @ \ {k}])
    BY <1>0, <2>1, LeftCallOK
  <2>3. CASE DeleteKey(w, k)
    <3>1. KeysOK
      BY <2>3 DEF TypeOK, KeysOK, DeleteKey, Without
    <3> QED
      BY <2>2, <2>3, <3>1, <1>a, <1>c, <1>d DEF DeleteKey
  <2>4. CASE DeleteMiss(w, k)
    BY <2>2, <2>4, <1>a, <1>b, <1>c, <1>d DEF DeleteMiss
  <2> QED
    BY <1>13, <2>3, <2>4
<1>14. ASSUME NEW w \in Workers, DeleteEnd(w)
       PROVE  TypeOK'
  BY <1>14, <1>a, <1>b, <1>c, <1>e DEF DeleteEnd
<1>15. CASE UNCHANGED vars
  BY <1>15 DEF TypeOK, vars, nodeKeys, edgeKeys
<1> QED
  BY <1>1, <1>2, <1>3, <1>4, <1>5, <1>6, <1>7, <1>8, <1>9, <1>10, <1>11,
     <1>12, <1>13, <1>14, <1>15 DEF Next, Step

\* The initial states have the types.
LEMMA TypeInit == Init => TypeOK
<1> SUFFICES ASSUME Init PROVE TypeOK
  OBVIOUS
<1>1. call \in [Workers -> Calls] /\ \A w \in Workers : HasLocals(call[w])
  BY IdleOK DEF Init, CallOK
<1>2. edge \in [Edges -> (Nodes \X Nodes) \cup {NoEnds}]
  <2>1. nodes \X nodes \subseteq Nodes \X Nodes
    BY DEF Init
  <2> QED
    BY <2>1 DEF Init
<1>3. /\ ntype \in [Labels -> SUBSET Nodes]
      /\ nodes \in SUBSET Nodes
      /\ edges \in SUBSET Edges
  BY DEF Init
<1>4. out \in [Nodes -> SUBSET Edges] /\ in \in [Nodes -> SUBSET Edges]
  BY <1>3 DEF Init
<1> QED
  BY <1>1, <1>2, <1>3, <1>4 DEF Init, TypeOK

(***************************************************************************)
(* Every variable keeps its type, and a call in flight has the local       *)
(* variables its next step uses.                                           *)
(***************************************************************************)
THEOREM TypeCorrect == Spec => []TypeOK
<1>1. Init => TypeOK
  BY TypeInit
<1>2. TypeOK /\ [Next]_vars => TypeOK'
  BY TypeKept
<1> QED
  BY <1>1, <1>2, PTL DEF Spec

(***************************************************************************)
(* The inductive invariant.  Nothing is said of nodes in raced, and while  *)
(* the graph is being deleted little of the others: only that what is left *)
(* of them will be deleted.                                                *)
(***************************************************************************)

\* A node that one call removes and another uses is raced.
Conflicts ==
    \A v, w \in Workers : Removes(call[v]) \cap Uses(call[w]) \subseteq raced

\* The id of an edge that is being created is new.
FreshEdges ==
    \A w \in Workers : call[w].step \in ConnectSteps =>
        /\ edge[call[w].edge] = NoEnds
        /\ call[w].edge \notin edges
        /\ \A v \in Workers \ {w} :
            call[v].step \in ConnectSteps => call[v].edge # call[w].edge

\* What a call has found is still there.
UsesPresent ==
    \A w \in Workers : \A n \in Uses(call[w]) \ raced : node[n] # Absent

NoneBare == \A n \in Nodes \ raced : node[n] # Bare

\* A node that is being removed has the label that was read.
LabelRead ==
    \A w \in Workers : call[w].step \in RemoveSteps /\ call[w].node \notin raced =>
        node[call[w].node] \in {Absent, call[w].label}

\* The value of key k tells of node n.
Mentions(k, n) ==
    \/ k = <<"node", n>> /\ node[n] # Absent
    \/ k = <<"out", n>> /\ out[n] # {}
    \/ k = <<"in", n>> /\ in[n] # {}
    \/ \E e \in Edges : /\ k = <<"edge", e>> /\ edge[e] # NoEnds
                       /\ n \in {edge[e][1], edge[e][2]}
    \/ \E l \in Labels : k = <<"ntype", l>> /\ n \in ntype[l]
    \/ k = <<"nodes", None>> /\ n \in nodes

\* A deletion still has before it every key that tells of a node.
DeletesAll ==
    \A w \in Workers : At(w, "delete") =>
        \A k \in Keys, n \in Nodes \ raced : Mentions(k, n) => k \in call[w].left

\* A removal has before it the edges its node still lists.
RemovesAll ==
    ~Deleting => \A w \in Workers :
        LET c == call[w] IN
        c.node \notin raced =>
            /\ At(w, "remove_out") => out[c.node] \subseteq c.todo
            /\ At(w, "remove_in") => out[c.node] = {} /\ in[c.node] \subseteq c.todo

IInv == /\ TypeOK /\ Conflicts /\ FreshEdges /\ UsesPresent /\ NoneBare
        /\ LabelRead /\ DeletesAll /\ RemovesAll
        /\ NodesIndexed /\ EdgesAttached /\ ListsSound

\* No call removes what it uses.
LEMMA NotBoth ==
  ASSUME NEW c
  PROVE  Removes(c) \cap Uses(c) = {}
BY DEF Removes, Uses, RemoveSteps

\* A call that goes on into a conflict makes the node raced.
LEMMA GotoConflicts ==
  ASSUME Conflicts, call \in [Workers -> Calls], NEW w \in Workers, NEW c, Goto(w, c)
  PROVE  Conflicts'
<1> SUFFICES ASSUME NEW u \in Workers, NEW v \in Workers,
                    NEW n \in Removes(call'[u]) \cap Uses(call'[v])
             PROVE  n \in raced'
  BY DEF Conflicts, Removes, Uses
<1>1. /\ call'[w] = c
      /\ \A x \in Workers \ {w} : call'[x] = call[x]
  BY DEF Goto
<1>2. CASE u = w /\ v # w
  <2>1. n \in UsedByOthers(w)
    BY <1>1, <1>2 DEF UsedByOthers
  <2> QED
    BY <1>1, <1>2, <2>1 DEF Goto
<1>3. CASE u # w /\ v = w
  <2>1. n \in RemovedByOthers(w)
    BY <1>1, <1>3 DEF RemovedByOthers
  <2> QED
    BY <1>1, <1>3, <2>1 DEF Goto
<1>4. CASE u = w /\ v = w
  BY <1>1, <1>4, NotBoth
<1>5. CASE u # w /\ v # w
  <2>1. n \in raced
    BY <1>1, <1>5 DEF Conflicts
  <2> QED
    BY <2>1 DEF Goto
<1> QED
  BY <1>2, <1>3, <1>4, <1>5

\* A call that returns leaves no new conflict.
LEMMA ReturnConflicts ==
  ASSUME Conflicts, call \in [Workers -> Calls], NEW w \in Workers, Return(w)
  PROVE  Conflicts'
<1>1. Removes(Idle) = {} /\ Uses(Idle) = {}
  BY DEF Removes, Uses, Idle, RemoveSteps
<1> SUFFICES ASSUME NEW u \in Workers, NEW v \in Workers,
                    NEW n \in Removes(call'[u]) \cap Uses(call'[v])
             PROVE  n \in raced'
  BY DEF Conflicts, Removes, Uses
<1>2. u # w /\ v # w
  BY <1>1 DEF Return
<1> QED
  BY <1>2 DEF Return, Conflicts

\* What one call removes and another uses is raced after every step.
LEMMA ConflictsKept ==
  ASSUME IInv, [Next]_vars
  PROVE  Conflicts'
<1> USE DEF IInv, TypeOK
<1>1. ASSUME NEW w \in Workers, NEW n \in Nodes, NEW l \in Labels, AddNode(w, n, l)
     PROVE  Conflicts'
  BY <1>1 DEF AddNode, Conflicts, Removes, Uses
<1>2. ASSUME NEW w \in Workers, NEW n \in Nodes, UpdateRead(w, n)
     PROVE  Conflicts'
  BY <1>2, GotoConflicts DEF UpdateRead
<1>3. ASSUME NEW w \in Workers, NEW n \in Nodes, RemoveRead(w, n)
     PROVE  Conflicts'
  BY <1>3, GotoConflicts DEF RemoveRead
<1>4. ASSUME NEW w \in Workers, NEW n \in Nodes, NEW e \in Edges, NEW t \in Nodes,
             ConnectSource(w, e, n, t)
     PROVE  Conflicts'
  BY <1>4, GotoConflicts DEF ConnectSource
<1>5. ASSUME NEW w \in Workers, UpdateWrite(w)
     PROVE  Conflicts'
  BY <1>5, ReturnConflicts DEF UpdateWrite
<1>6. ASSUME NEW w \in Workers, ConnectTarget(w)
     PROVE  Conflicts'
  BY <1>6, GotoConflicts, ReturnConflicts DEF ConnectTarget
<1>7. ASSUME NEW w \in Workers, AddEdge(w)
     PROVE  Conflicts'
  BY <1>7, ReturnConflicts DEF AddEdge
<1>8. ASSUME NEW w \in Workers, RemoveListOut(w)
     PROVE  Conflicts'
  BY <1>8, GotoConflicts DEF RemoveListOut
<1>9. ASSUME NEW w \in Workers, NEW e \in Edges, RemoveEdge(w, e)
     PROVE  Conflicts'
  BY <1>9, GotoConflicts DEF RemoveEdge
<1>10. ASSUME NEW w \in Workers, RemoveListIn(w)
      PROVE  Conflicts'
  BY <1>10, GotoConflicts DEF RemoveListIn
<1>11. ASSUME NEW w \in Workers, RemoveFinish(w)
      PROVE  Conflicts'
  BY <1>11, ReturnConflicts DEF RemoveFinish
<1>12. ASSUME NEW w \in Workers, DeleteBegin(w)
      PROVE  Conflicts'
  BY <1>12, GotoConflicts DEF DeleteBegin
<1>13. ASSUME NEW w \in Workers, NEW k \in Keys, DeleteKey(w, k)
      PROVE  Conflicts'
  BY <1>13, GotoConflicts DEF DeleteKey
<1>14. ASSUME NEW w \in Workers, NEW k \in Keys, DeleteMiss(w, k)
      PROVE  Conflicts'
  BY <1>14, GotoConflicts DEF DeleteMiss
<1>15. ASSUME NEW w \in Workers, DeleteEnd(w)
      PROVE  Conflicts'
  BY <1>15, ReturnConflicts DEF DeleteEnd
<1>16. CASE UNCHANGED vars
  BY <1>16 DEF vars, Conflicts, Removes, Uses
<1> QED
  BY <1>1, <1>2, <1>3, <1>4, <1>5, <1>6, <1>7, <1>8,
     <1>9, <1>10, <1>11, <1>12, <1>13, <1>14, <1>15, <1>16 DEF Next, Step

\* A raced node stays raced.
LEMMA RacedGrows ==
  ASSUME [Next]_vars
  PROVE  raced \subseteq raced'
<1>1. \A w, c : Goto(w, c) => raced \subseteq raced'
  BY DEF Goto
<1>2. \A w : Return(w) => raced' = raced
  BY DEF Return
<1>3. ASSUME NEW w \in Workers, NEW n \in Nodes,
             \/ \E l \in Labels : AddNode(w, n, l)
             \/ UpdateRead(w, n)
             \/ RemoveRead(w, n)
             \/ \E e \in Edges, t \in Nodes : ConnectSource(w, e, n, t)
      PROVE  raced \subseteq raced'
  BY <1>1, <1>3 DEF AddNode, UpdateRead, RemoveRead, ConnectSource
<1>4. ASSUME NEW w \in Workers,
             \/ UpdateWrite(w) \/ ConnectTarget(w) \/ AddEdge(w) \/ RemoveListOut(w)
             \/ \E e \in Edges : RemoveEdge(w, e)
             \/ RemoveListIn(w) \/ RemoveFinish(w)
      PROVE  raced \subseteq raced'
  BY <1>1, <1>2, <1>4 DEF UpdateWrite, ConnectTarget, AddEdge, RemoveListOut, RemoveEdge,
     RemoveListIn, RemoveFinish
<1>5. ASSUME NEW w \in Workers,
             \/ DeleteBegin(w) \/ DeleteEnd(w)
             \/ \E k \in Keys : DeleteKey(w, k) \/ DeleteMiss(w, k)
      PROVE  raced \subseteq raced'
  BY <1>1, <1>2, <1>5 DEF DeleteBegin, DeleteKey, DeleteMiss, DeleteEnd
<1>6. CASE UNCHANGED vars
  BY <1>6 DEF vars
<1> QED
  BY <1>3, <1>4, <1>5, <1>6 DEF Next, Step

\* No step gives the id of an edge in creation to another edge.
LEMMA FreshEdgesKept ==
  ASSUME IInv, [Next]_vars
  PROVE  FreshEdges'
<1> USE DEF IInv, FreshEdges, TypeOK, nodeKeys, edgeKeys, At, Begin, Idle, ConnectSteps, RemoveSteps
<1>1. ASSUME NEW w \in Workers, NEW n \in Nodes, NEW l \in Labels, AddNode(w, n, l)
     PROVE  FreshEdges'
  BY <1>1 DEF AddNode, Goto, Return
<1>2. ASSUME NEW w \in Workers, NEW n \in Nodes, UpdateRead(w, n)
     PROVE  FreshEdges'
  BY <1>2 DEF UpdateRead, Goto, Return
<1>3. ASSUME NEW w \in Workers, NEW n \in Nodes, RemoveRead(w, n)
     PROVE  FreshEdges'
  BY <1>3 DEF RemoveRead, Goto, Return
<1>4. ASSUME NEW w \in Workers, NEW n \in Nodes, NEW e \in Edges, NEW t \in Nodes,
             ConnectSource(w, e, n, t)
     PROVE  FreshEdges'
  BY <1>4 DEF ConnectSource, Goto, Return
<1>5. ASSUME NEW w \in Workers, UpdateWrite(w)
     PROVE  FreshEdges'
  BY <1>5 DEF UpdateWrite, Goto, Return
<1>6. ASSUME NEW w \in Workers, ConnectTarget(w)
     PROVE  FreshEdges'
  <2>1. CASE Return(w)
    BY <1>6, <2>1, RacedGrows DEF ConnectTarget, Return
  <2>2. CASE Goto(w, [call[w] EXCEPT !.step = "connect_add"]) /\ node[call[w].other] # Absent
    <3>1. call[w] \in Calls
      OBVIOUS
    <3> QED
      BY <1>6, <2>2, <3>1, RacedGrows DEF ConnectTarget, Goto, Calls
  <2> QED
    BY <1>6, <2>1, <2>2 DEF ConnectTarget
<1>7. ASSUME NEW w \in Workers, AddEdge(w)
     PROVE  FreshEdges'
  BY <1>7 DEF AddEdge, Goto, Return
<1>8. ASSUME NEW w \in Workers, RemoveListOut(w)
     PROVE  FreshEdges'
  BY <1>8 DEF RemoveListOut, Goto, Return
<1>9. ASSUME NEW w \in Workers, NEW e \in Edges, RemoveEdge(w, e)
     PROVE  FreshEdges'
  <2>1. /\ \A d \in Edges : edge'[d] \in {edge[d], NoEnds}
        /\ edges' \subseteq edges
    BY <1>9 DEF RemoveEdge, DropEdge
  <2>2. /\ call' = [call EXCEPT ![w].todo = call[w].todo \ {e}]
        /\ call[w] \in Calls
    BY <1>9 DEF RemoveEdge, Goto
  <2>3. \A v \in Workers : call'[v].step = call[v].step /\ call'[v].edge = call[v].edge
    BY <2>2 DEF Calls
  <2>4. \A v \in Workers : call[v].step \in ConnectSteps => call[v].edge \in Edges
    BY DEF HasLocals
  <2> QED
    BY <2>1, <2>3, <2>4
<1>10. ASSUME NEW w \in Workers, RemoveListIn(w)
      PROVE  FreshEdges'
  BY <1>10 DEF RemoveListIn, Goto, Return
<1>11. ASSUME NEW w \in Workers, RemoveFinish(w)
      PROVE  FreshEdges'
  BY <1>11 DEF RemoveFinish, Goto, Return
<1>12. ASSUME NEW w \in Workers, DeleteBegin(w)
      PROVE  FreshEdges'
  BY <1>12 DEF DeleteBegin, Goto, Return
<1>13. ASSUME NEW w \in Workers, NEW k \in Keys, DeleteKey(w, k)
      PROVE  FreshEdges'
  <2>1. /\ \A d \in Edges : edge'[d] \in {edge[d], NoEnds}
        /\ edges' \subseteq edges
    BY <1>13 DEF DeleteKey, Without
  <2>2. /\ call' = [call EXCEPT ![w].left = call[w].left \ {k}]
        /\ call[w] \in Calls
    BY <1>13 DEF DeleteKey, Goto
  <2>3. \A v \in Workers : call'[v].step = call[v].step /\ call'[v].edge = call[v].edge
    BY <2>2 DEF Calls
  <2>4. \A v \in Workers : call[v].step \in ConnectSteps => call[v].edge \in Edges
    BY DEF HasLocals
  <2> QED
    BY <2>1, <2>3, <2>4
<1>14. ASSUME NEW w \in Workers, NEW k \in Keys, DeleteMiss(w, k)
      PROVE  FreshEdges'
  BY <1>14 DEF DeleteMiss, Goto, Return
<1>15. ASSUME NEW w \in Workers, DeleteEnd(w)
      PROVE  FreshEdges'
  BY <1>15 DEF DeleteEnd, Goto, Return
<1>16. CASE UNCHANGED vars
  BY <1>16, IInv DEF vars, nodeKeys, edgeKeys
<1> QED
  BY <1>1, <1>2, <1>3, <1>4, <1>5, <1>6, <1>7, <1>8,
     <1>9, <1>10, <1>11, <1>12, <1>13, <1>14, <1>15, <1>16 DEF Next, Step

\* No step removes what a call has found, unless the node is raced.
LEMMA UsesPresentKept ==
  ASSUME IInv, [Next]_vars
  PROVE  UsesPresent'
<1> USE DEF IInv, UsesPresent, TypeOK, nodeKeys, edgeKeys, At, Begin, Idle, Uses
<1>1. ASSUME NEW w \in Workers, NEW n \in Nodes, NEW l \in Labels, AddNode(w, n, l)
     PROVE  UsesPresent'
  BY <1>1, RacedGrows DEF AddNode, Goto, Return
<1>2. ASSUME NEW w \in Workers, NEW n \in Nodes, UpdateRead(w, n)
     PROVE  UsesPresent'
  BY <1>2, RacedGrows DEF UpdateRead, Goto, Return
<1>3. ASSUME NEW w \in Workers, NEW n \in Nodes, RemoveRead(w, n)
     PROVE  UsesPresent'
  BY <1>3, RacedGrows DEF RemoveRead, Goto, Return
<1>4. ASSUME NEW w \in Workers, NEW n \in Nodes, NEW e \in Edges, NEW t \in Nodes,
             ConnectSource(w, e, n, t)
     PROVE  UsesPresent'
  BY <1>4, RacedGrows DEF ConnectSource, Goto, Return
<1>5. ASSUME NEW w \in Workers, UpdateWrite(w)
     PROVE  UsesPresent'
  BY <1>5, RacedGrows DEF UpdateWrite, Goto, Return
<1>6. ASSUME NEW w \in Workers, ConnectTarget(w)
     PROVE  UsesPresent'
  <2>1. CASE Return(w)
    BY <1>6, <2>1, RacedGrows DEF ConnectTarget, Return
  <2>2. CASE Goto(w, [call[w] EXCEPT !.step = "connect_add"]) /\ node[call[w].other] # Absent
    <3>1. call[w] \in Calls
      OBVIOUS
    <3> QED
      BY <1>6, <2>2, <3>1, RacedGrows DEF ConnectTarget, Goto, Calls
  <2> QED
    BY <1>6, <2>1, <2>2 DEF ConnectTarget
<1>7. ASSUME NEW w \in Workers, AddEdge(w)
     PROVE  UsesPresent'
  BY <1>7, RacedGrows DEF AddEdge, Goto, Return
<1>8. ASSUME NEW w \in Workers, RemoveListOut(w)
     PROVE  UsesPresent'
  BY <1>8, RacedGrows DEF RemoveListOut, Goto, Return
<1>9. ASSUME NEW w \in Workers, NEW e \in Edges, RemoveEdge(w, e)
     PROVE  UsesPresent'
  BY <1>9, RacedGrows DEF RemoveEdge, Goto, Return
<1>10. ASSUME NEW w \in Workers, RemoveListIn(w)
      PROVE  UsesPresent'
  BY <1>10, RacedGrows DEF RemoveListIn, Goto, Return
<1>11. ASSUME NEW w \in Workers, RemoveFinish(w)
      PROVE  UsesPresent'
  <2> SUFFICES ASSUME NEW v \in Workers, NEW m \in Uses(call'[v]) \ raced'
               PROVE  node'[m] # Absent
    OBVIOUS
  <2>1. v # w /\ m \in Uses(call[v]) \ raced
    BY <1>11, RacedGrows DEF RemoveFinish, Return
  <2>2. m # call[w].node
    BY <1>11, <2>1 DEF RemoveFinish, Conflicts, Removes, RemoveSteps
  <2> QED
    BY <1>11, <2>1, <2>2 DEF RemoveFinish
<1>12. ASSUME NEW w \in Workers, DeleteBegin(w)
      PROVE  UsesPresent'
  BY <1>12, RacedGrows DEF DeleteBegin, Goto, Return
<1>13. ASSUME NEW w \in Workers, NEW k \in Keys, DeleteKey(w, k)
      PROVE  UsesPresent'
  <2> SUFFICES ASSUME NEW v \in Workers, NEW m \in Uses(call'[v]) \ raced'
               PROVE  node'[m] # Absent
    OBVIOUS
  <2>1. v # w /\ m \in Uses(call[v]) \ raced
    BY <1>13, RacedGrows DEF DeleteKey, Goto
  <2>2. m \in Nodes
    BY <2>1, RemovesUses DEF CallOK
  <2>3. m \in Removes(call[w])
    BY <1>13, <2>2 DEF DeleteKey, Removes
  <2> QED
    BY <2>1, <2>3 DEF Conflicts
<1>14. ASSUME NEW w \in Workers, NEW k \in Keys, DeleteMiss(w, k)
      PROVE  UsesPresent'
  BY <1>14, RacedGrows DEF DeleteMiss, Goto, Return
<1>15. ASSUME NEW w \in Workers, DeleteEnd(w)
      PROVE  UsesPresent'
  BY <1>15, RacedGrows DEF DeleteEnd, Goto, Return
<1>16. CASE UNCHANGED vars
  BY <1>16, IInv DEF vars, nodeKeys, edgeKeys
<1> QED
  BY <1>1, <1>2, <1>3, <1>4, <1>5, <1>6, <1>7, <1>8,
     <1>9, <1>10, <1>11, <1>12, <1>13, <1>14, <1>15, <1>16 DEF Next, Step

\* No step leaves a hash of properties only, unless the node is raced.
LEMMA NoneBareKept ==
  ASSUME IInv, [Next]_vars
  PROVE  NoneBare'
<1> USE DEF IInv, NoneBare, TypeOK, nodeKeys, edgeKeys
<1>1. ASSUME NEW w \in Workers, NEW n \in Nodes, NEW l \in Labels, AddNode(w, n, l)
     PROVE  NoneBare'
  BY <1>1, RacedGrows DEF AddNode, Goto, Return
<1>2. ASSUME NEW w \in Workers, NEW n \in Nodes, UpdateRead(w, n)
     PROVE  NoneBare'
  BY <1>2, RacedGrows DEF UpdateRead, Goto, Return
<1>3. ASSUME NEW w \in Workers, NEW n \in Nodes, RemoveRead(w, n)
     PROVE  NoneBare'
  BY <1>3, RacedGrows DEF RemoveRead, Goto, Return
<1>4. ASSUME NEW w \in Workers, NEW n \in Nodes, NEW e \in Edges, NEW t \in Nodes,
             ConnectSource(w, e, n, t)
     PROVE  NoneBare'
  BY <1>4, RacedGrows DEF ConnectSource, Goto, Return
<1>5. ASSUME NEW w \in Workers, UpdateWrite(w)
     PROVE  NoneBare'
  <2>1. call[w].node \in Nodes /\ call[w].node \in Uses(call[w])
    BY <1>5 DEF UpdateWrite, At, HasLocals, Uses, TypeOK
  <2>2. call[w].node \in raced \/ node' = node
    BY <1>5, <2>1 DEF UpdateWrite, UsesPresent, TypeOK
  <2> QED
    BY <1>5, <2>1, <2>2, RacedGrows DEF UpdateWrite, Return
<1>6. ASSUME NEW w \in Workers, ConnectTarget(w)
     PROVE  NoneBare'
  BY <1>6, RacedGrows DEF ConnectTarget, Goto, Return
<1>7. ASSUME NEW w \in Workers, AddEdge(w)
     PROVE  NoneBare'
  BY <1>7, RacedGrows DEF AddEdge, Goto, Return
<1>8. ASSUME NEW w \in Workers, RemoveListOut(w)
     PROVE  NoneBare'
  BY <1>8, RacedGrows DEF RemoveListOut, Goto, Return
<1>9. ASSUME NEW w \in Workers, NEW e \in Edges, RemoveEdge(w, e)
     PROVE  NoneBare'
  BY <1>9, RacedGrows DEF RemoveEdge, Goto, Return
<1>10. ASSUME NEW w \in Workers, RemoveListIn(w)
      PROVE  NoneBare'
  BY <1>10, RacedGrows DEF RemoveListIn, Goto, Return
<1>11. ASSUME NEW w \in Workers, RemoveFinish(w)
      PROVE  NoneBare'
  BY <1>11, RacedGrows DEF RemoveFinish, Goto, Return
<1>12. ASSUME NEW w \in Workers, DeleteBegin(w)
      PROVE  NoneBare'
  BY <1>12, RacedGrows DEF DeleteBegin, Goto, Return
<1>13. ASSUME NEW w \in Workers, NEW k \in Keys, DeleteKey(w, k)
      PROVE  NoneBare'
  BY <1>13, RacedGrows DEF DeleteKey, Without
<1>14. ASSUME NEW w \in Workers, NEW k \in Keys, DeleteMiss(w, k)
      PROVE  NoneBare'
  BY <1>14, RacedGrows DEF DeleteMiss, Goto, Return
<1>15. ASSUME NEW w \in Workers, DeleteEnd(w)
      PROVE  NoneBare'
  BY <1>15, RacedGrows DEF DeleteEnd, Goto, Return
<1>16. CASE UNCHANGED vars
  BY <1>16, IInv DEF vars, nodeKeys, edgeKeys
<1> QED
  BY <1>1, <1>2, <1>3, <1>4, <1>5, <1>6, <1>7, <1>8,
     <1>9, <1>10, <1>11, <1>12, <1>13, <1>14, <1>15, <1>16 DEF Next, Step

\* No step gives a node in removal another label.
LEMMA LabelReadKept ==
  ASSUME IInv, [Next]_vars
  PROVE  LabelRead'
<1> USE DEF IInv, LabelRead, TypeOK, nodeKeys, edgeKeys, At, Begin, Idle, RemoveSteps
<1>1. ASSUME NEW w \in Workers, NEW n \in Nodes, NEW l \in Labels, AddNode(w, n, l)
     PROVE  LabelRead'
  <2> SUFFICES ASSUME NEW v \in Workers, call[v].step \in RemoveSteps,
                      call[v].node \notin raced'
               PROVE  node'[call[v].node] \in {Absent, call[v].label}
    BY <1>1 DEF AddNode
  <2>1. v # w /\ call[v].node \in Removes(call[v])
    BY <1>1 DEF AddNode, Removes
  <2>2. call[v].node \in RemovedByOthers(w)
    BY <2>1 DEF RemovedByOthers
  <2>3. call[v].node # n
    BY <1>1, <2>2 DEF AddNode
  <2> QED
    BY <1>1, <2>3, RacedGrows DEF AddNode
<1>2. ASSUME NEW w \in Workers, NEW n \in Nodes, UpdateRead(w, n)
     PROVE  LabelRead'
  BY <1>2, RacedGrows DEF UpdateRead, Goto, Return
<1>3. ASSUME NEW w \in Workers, NEW n \in Nodes, RemoveRead(w, n)
     PROVE  LabelRead'
  BY <1>3, RacedGrows DEF RemoveRead, Goto, Return
<1>4. ASSUME NEW w \in Workers, NEW n \in Nodes, NEW e \in Edges, NEW t \in Nodes,
             ConnectSource(w, e, n, t)
     PROVE  LabelRead'
  BY <1>4, RacedGrows DEF ConnectSource, Goto, Return
<1>5. ASSUME NEW w \in Workers, UpdateWrite(w)
     PROVE  LabelRead'
  <2>1. call[w].node \in Nodes /\ call[w].node \in Uses(call[w])
    BY <1>5 DEF UpdateWrite, At, HasLocals, Uses, TypeOK
  <2>2. call[w].node \in raced \/ node' = node
    BY <1>5, <2>1 DEF UpdateWrite, UsesPresent, TypeOK
  <2> QED
    BY <1>5, <2>1, <2>2, RacedGrows DEF UpdateWrite, Return
<1>6. ASSUME NEW w \in Workers, ConnectTarget(w)
     PROVE  LabelRead'
  <2>1. CASE Return(w)
    BY <1>6, <2>1, RacedGrows DEF ConnectTarget, Return
  <2>2. CASE Goto(w, [call[w] EXCEPT !.step = "connect_add"]) /\ node[call[w].other] # Absent
    <3>1. call[w] \in Calls
      OBVIOUS
    <3> QED
      BY <1>6, <2>2, <3>1, RacedGrows DEF ConnectTarget, Goto, Calls
  <2> QED
    BY <1>6, <2>1, <2>2 DEF ConnectTarget
<1>7. ASSUME NEW w \in Workers, AddEdge(w)
     PROVE  LabelRead'
  BY <1>7, RacedGrows DEF AddEdge, Goto, Return
<1>8. ASSUME NEW w \in Workers, RemoveListOut(w)
     PROVE  LabelRead'
  BY <1>8, RacedGrows DEF RemoveListOut, Goto, Return
<1>9. ASSUME NEW w \in Workers, NEW e \in Edges, RemoveEdge(w, e)
     PROVE  LabelRead'
  BY <1>9, RacedGrows DEF RemoveEdge, Goto, Return
<1>10. ASSUME NEW w \in Workers, RemoveListIn(w)
      PROVE  LabelRead'
  BY <1>10, RacedGrows DEF RemoveListIn, Goto, Return
<1>11. ASSUME NEW w \in Workers, RemoveFinish(w)
      PROVE  LabelRead'
  BY <1>11, RacedGrows DEF RemoveFinish, Goto, Return
<1>12. ASSUME NEW w \in Workers, DeleteBegin(w)
      PROVE  LabelRead'
  BY <1>12, RacedGrows DEF DeleteBegin, Goto, Return
<1>13. ASSUME NEW w \in Workers, NEW k \in Keys, DeleteKey(w, k)
      PROVE  LabelRead'
  <2>1. \A m \in Nodes : node'[m] \in {node[m], Absent}
    BY <1>13 DEF DeleteKey, Without
  <2>2. \A v \in Workers : call'[v].step \in RemoveSteps => call'[v] = call[v]
    BY <1>13 DEF DeleteKey, Goto
  <2>3. \A v \in Workers : call[v].step \in RemoveSteps => call[v].node \in Nodes
    BY DEF HasLocals
  <2> QED
    BY <2>1, <2>2, <2>3, RacedGrows
<1>14. ASSUME NEW w \in Workers, NEW k \in Keys, DeleteMiss(w, k)
      PROVE  LabelRead'
  BY <1>14, RacedGrows DEF DeleteMiss, Goto, Return
<1>15. ASSUME NEW w \in Workers, DeleteEnd(w)
      PROVE  LabelRead'
  BY <1>15, RacedGrows DEF DeleteEnd, Goto, Return
<1>16. CASE UNCHANGED vars
  BY <1>16, IInv DEF vars, nodeKeys, edgeKeys
<1> QED
  BY <1>1, <1>2, <1>3, <1>4, <1>5, <1>6, <1>7, <1>8,
     <1>9, <1>10, <1>11, <1>12, <1>13, <1>14, <1>15, <1>16 DEF Next, Step

\* While the graph is being deleted nothing comes to tell of a node, unless the
\* node is raced.
LEMMA MentionsShrink ==
  ASSUME IInv, [Next]_vars, Deleting, NEW k \in Keys, NEW n \in Nodes \ raced', Mentions(k, n)'
  PROVE  Mentions(k, n)
<1> USE DEF IInv, TypeOK, nodeKeys, edgeKeys, Begin, At
<1>0. PICK d \in Workers : At(d, "delete")
  BY DEF Deleting
<1>r. n \notin raced /\ n \in Removes(call[d])
  BY <1>0, RacedGrows DEF Removes
<1>1. ASSUME NEW w \in Workers, NEW m \in Nodes, NEW l \in Labels, AddNode(w, m, l)
      PROVE  Mentions(k, n)
  <2>1. d # w
    BY <1>0, <1>1 DEF AddNode
  <2>2. n # m
    BY <1>1, <1>r, <2>1 DEF AddNode, RemovedByOthers
  <2> QED
    BY <1>1, <2>2 DEF AddNode, Mentions
<1>2. ASSUME NEW w \in Workers, UpdateWrite(w)
      PROVE  Mentions(k, n)
  <2>1. n # call[w].node
    BY <1>2, <1>r DEF UpdateWrite, Uses, Conflicts
  <2> QED
    BY <1>2, <2>1 DEF UpdateWrite, Mentions
<1>3. ASSUME NEW w \in Workers, AddEdge(w)
      PROVE  Mentions(k, n)
  <2>1. n # call[w].node /\ n # call[w].other
    BY <1>3, <1>r DEF AddEdge, Uses, Conflicts
  <2> QED
    BY <1>3, <2>1 DEF AddEdge, Mentions
<1>4. ASSUME NEW w \in Workers, NEW e \in Edges, RemoveEdge(w, e)
      PROVE  Mentions(k, n)
  BY <1>4 DEF RemoveEdge, DropEdge, Mentions
<1>5. ASSUME NEW w \in Workers, RemoveFinish(w)
      PROVE  Mentions(k, n)
  BY <1>5 DEF RemoveFinish, Mentions
<1>6. ASSUME NEW w \in Workers, NEW j \in Keys, DeleteKey(w, j)
      PROVE  Mentions(k, n)
  BY <1>6 DEF DeleteKey, Without, Mentions
<1>7. ASSUME UNCHANGED <<nodeKeys, edgeKeys>>
      PROVE  Mentions(k, n)
  BY <1>7 DEF Mentions
<1> QED
  BY <1>1, <1>2, <1>3, <1>4, <1>5, <1>6, <1>7 DEF Next, Step, vars, UpdateRead, RemoveRead,
     ConnectSource, ConnectTarget, RemoveListOut, RemoveListIn, DeleteBegin,
     DeleteMiss, DeleteEnd

\* A step changes its own worker's call only.
LEMMA OneCallChanges ==
  ASSUME NEW w \in Workers, Step(w)
  PROVE  call' = call \/ \E c : call' = [call EXCEPT ![w] = c]
<1>1. \A c : Goto(w, c) => \E b : call' = [call EXCEPT ![w] = b]
  BY DEF Goto
<1>2. Return(w) => \E b : call' = [call EXCEPT ![w] = b]
  BY DEF Return
<1> QED
  BY <1>1, <1>2 DEF Step, AddNode, UpdateRead, RemoveRead, ConnectSource,
     UpdateWrite, ConnectTarget, AddEdge, RemoveListOut, RemoveEdge, RemoveListIn,
     RemoveFinish, DeleteBegin, DeleteKey, DeleteMiss, DeleteEnd

\* What a step does to a deletion in progress.
LEMMA DeletionSteps ==
  ASSUME TypeOK, NEW w \in Workers, Step(w), At(w, "delete")'
  PROVE  \/ UNCHANGED call
         \/ DeleteBegin(w)
         \/ \E k \in Keys : DeleteKey(w, k) \/ DeleteMiss(w, k)
<1> USE DEF TypeOK, At
<1>1. ASSUME Return(w) PROVE FALSE
  BY <1>1 DEF Return, Idle
<1>2. ASSUME NEW c, c.step # "delete", Goto(w, c) PROVE FALSE
  BY <1>2 DEF Goto
<1>3. ASSUME NEW n \in Nodes, UpdateRead(w, n) PROVE FALSE
  BY <1>2, <1>3 DEF UpdateRead, Idle
<1>4. ASSUME NEW n \in Nodes, RemoveRead(w, n) PROVE FALSE
  BY <1>2, <1>4 DEF RemoveRead, Idle
<1>5. ASSUME NEW n \in Nodes, NEW e \in Edges, NEW t \in Nodes, ConnectSource(w, e, n, t)
      PROVE  FALSE
  BY <1>2, <1>5 DEF ConnectSource, Idle
<1>6. ASSUME ConnectTarget(w) PROVE FALSE
  BY <1>1, <1>2, <1>6 DEF ConnectTarget, Calls
<1>7. ASSUME RemoveListOut(w) PROVE FALSE
  <2> DEFINE c == [call[w] EXCEPT !.step = "remove_out", !.todo = out[call[w].node]]
  <2>1. c.step # "delete"
    BY DEF Calls
  <2> QED
    BY <1>2, <1>7, <2>1 DEF RemoveListOut
<1>9. ASSUME RemoveListIn(w) PROVE FALSE
  <2> DEFINE c == [call[w] EXCEPT !.step = "remove_in", !.todo = in[call[w].node]]
  <2>1. c.step # "delete"
    BY DEF Calls
  <2> QED
    BY <1>2, <1>9, <2>1 DEF RemoveListIn
<1>8. ASSUME NEW e \in Edges, RemoveEdge(w, e) PROVE FALSE
  BY <1>2, <1>8 DEF RemoveEdge, Calls
<1> QED
  BY <1>1, <1>3, <1>4, <1>5, <1>6, <1>7, <1>8, <1>9 DEF Step, AddNode, UpdateWrite,
     AddEdge, RemoveFinish, DeleteEnd

\* No step adds a key the deletion will not return.
LEMMA DeletesAllKept ==
  ASSUME IInv, [Next]_vars
  PROVE  DeletesAll'
<1> SUFFICES ASSUME NEW w \in Workers, At(w, "delete")',
                    NEW k \in Keys, NEW n \in Nodes \ raced', Mentions(k, n)'
             PROVE  k \in call'[w].left
  BY DEF DeletesAll
<1>0. n \notin raced /\ call \in [Workers -> Calls]
  BY RacedGrows DEF IInv, TypeOK
<1>1. CASE At(w, "delete") /\ call'[w].left = call[w].left
  <2>1. Deleting
    BY <1>1 DEF Deleting
  <2> QED
    BY <1>0, <1>1, <2>1, MentionsShrink DEF IInv, DeletesAll
<1>2. ASSUME DeleteBegin(w)
      PROVE  k \in call'[w].left
  <2>1. Present(k)
    BY <1>2 DEF DeleteBegin, Mentions, Present, nodeKeys, edgeKeys
  <2> QED
    BY <1>0, <1>2, <2>1 DEF DeleteBegin, Goto, Idle
<1>3. ASSUME NEW j \in Keys, DeleteKey(w, j)
      PROVE  k \in call'[w].left
  <2>1. Deleting /\ k \in call[w].left
    BY <1>0, <1>3, MentionsShrink DEF IInv, DeletesAll, Deleting, DeleteKey
  <2>2. k # j
    BY <1>3 DEF DeleteKey, Without, Mentions, IInv, TypeOK
  <2> QED
    BY <1>0, <1>3, <2>1, <2>2 DEF DeleteKey, Goto, Calls
<1>4. ASSUME NEW j \in Keys, DeleteMiss(w, j)
      PROVE  k \in call'[w].left
  <2>1. Deleting /\ k \in call[w].left
    BY <1>0, <1>4, MentionsShrink DEF IInv, DeletesAll, Deleting, DeleteMiss
  <2>2. k # j
    BY <1>4 DEF DeleteMiss, Present, Mentions, nodeKeys, edgeKeys
  <2> QED
    BY <1>0, <1>4, <2>1, <2>2 DEF DeleteMiss, Goto, Calls
<1>5. CASE UNCHANGED call
  BY <1>1, <1>5 DEF At
<1>6. ASSUME NEW v \in Workers \ {w}, \E c : call' = [call EXCEPT ![v] = c]
      PROVE  k \in call'[w].left
  BY <1>0, <1>1, <1>6 DEF At
<1>7. ASSUME NEW v \in Workers, Step(v)
      PROVE  k \in call'[w].left
  <2>1. CASE v = w
    BY <1>2, <1>3, <1>4, <1>5, <1>7, <2>1, DeletionSteps DEF IInv
  <2>2. CASE v # w
    BY <1>5, <1>6, <1>7, <2>2, OneCallChanges
  <2> QED
    BY <2>1, <2>2
<1>8. CASE UNCHANGED vars
  BY <1>5, <1>8 DEF vars
<1> QED
  BY <1>7, <1>8 DEF Next

\* A deletion goes on unless it ends.
LEMMA StillDeleting ==
  ASSUME TypeOK, NEW w \in Workers, Step(w), Deleting, ~Deleting'
  PROVE  DeleteEnd(w)
<1>0. PICK d \in Workers : At(d, "delete")
  BY DEF Deleting
<1>1. d = w
  BY <1>0, OneCallChanges DEF Deleting, At, TypeOK
<1>2. ASSUME NEW k \in Keys, DeleteKey(w, k) \/ DeleteMiss(w, k)
      PROVE  FALSE
  <2> DEFINE c == [call[w] EXCEPT !.left = @ \ {k}]
  <2>1. c.step = "delete"
    BY <1>2 DEF TypeOK, Calls, DeleteKey, DeleteMiss, At
  <2>2. call'[w] = c
    BY <1>2 DEF TypeOK, DeleteKey, DeleteMiss, Goto
  <2> QED
    BY <2>1, <2>2 DEF Deleting, At
<1> QED
  BY <1>0, <1>1, <1>2 DEF Step, At, Begin, AddNode, UpdateRead, RemoveRead, ConnectSource,
     UpdateWrite, ConnectTarget, AddEdge, RemoveListOut, RemoveEdge, RemoveListIn,
     RemoveFinish, DeleteBegin

\* When a deletion returns nothing is left of a node.
Gone(n) == \A k \in Keys : ~Mentions(k, n)

\* When a deletion ends, nothing mentions a node that is not raced.
LEMMA DeletionEnds ==
  ASSUME IInv, NEW w \in Workers, DeleteEnd(w), NEW n \in Nodes \ raced'
  PROVE  Gone(n)'
<1>1. Gone(n)
  BY DEF IInv, DeletesAll, DeleteEnd, Return, Gone
<1> QED
  BY <1>1 DEF Gone, Mentions, DeleteEnd, nodeKeys, edgeKeys

\* What no key mentions is nowhere.
LEMMA GoneEverywherePrimed ==
  ASSUME NEW n \in Nodes, Gone(n)'
  PROVE  /\ node'[n] = Absent /\ n \notin nodes'
         /\ \A l \in Labels : n \notin ntype'[l]
         /\ out'[n] = {} /\ in'[n] = {}
         /\ \A e \in Edges : edge'[e] # NoEnds => n \notin {edge'[e][1], edge'[e][2]}
<1>1. /\ <<"node", n>> \in Keys /\ <<"out", n>> \in Keys /\ <<"in", n>> \in Keys
      /\ <<"nodes", None>> \in Keys
      /\ \A l \in Labels : <<"ntype", l>> \in Keys
      /\ \A e \in Edges : <<"edge", e>> \in Keys
  BY DEF Keys
<1> QED
  BY <1>1 DEF Gone, Mentions

\* An action that is part of a step that begins and ends without a deletion.
Undeleted(w) ==
    \/ \E n \in Nodes, l \in Labels : AddNode(w, n, l)
    \/ UpdateWrite(w) \/ AddEdge(w) \/ RemoveFinish(w)
    \/ \E e \in Edges : RemoveEdge(w, e)
    \/ UNCHANGED <<nodeKeys, edgeKeys>>

\* A step after which no graph is being deleted ends a deletion or is undeleted.
LEMMA StepCases ==
  ASSUME IInv, NEW w \in Workers, Step(w), ~Deleting'
  PROVE  \/ DeleteEnd(w)
         \/ ~Deleting /\ Undeleted(w)
<1>1. ASSUME DeleteBegin(w) PROVE FALSE
  BY <1>1 DEF DeleteBegin, Goto, Idle, Deleting, At, IInv, TypeOK
<1>2. ASSUME NEW k \in Keys, DeleteKey(w, k) PROVE DeleteEnd(w)
  BY <1>2, StillDeleting DEF DeleteKey, Deleting, IInv
<1> QED
  BY <1>1, <1>2, StillDeleting DEF Step, Undeleted, IInv, UpdateRead, RemoveRead,
     ConnectSource, ConnectTarget, RemoveListOut, RemoveListIn, DeleteMiss, DeleteEnd

\* A relabelled node stays relabelled.
LEMMA RelabelledGrows ==
  ASSUME NEW w \in Workers, Step(w)
  PROVE  relabelled \subseteq relabelled'
BY DEF Step, AddNode, UpdateRead, RemoveRead, ConnectSource, UpdateWrite,
   ConnectTarget, AddEdge, RemoveListOut, RemoveEdge, RemoveListIn, RemoveFinish,
   DeleteBegin, DeleteKey, DeleteMiss, DeleteEnd

\* Every step keeps the indexes of nodes.
LEMMA NodesIndexedKept ==
  ASSUME IInv, [Next]_vars
  PROVE  NodesIndexed'
<1> USE DEF IInv, TypeOK, nodeKeys, edgeKeys
<1> DEFINE Indexed(n) ==
      /\ n \in nodes <=> node[n] # Absent
      /\ node[n] # Bare
      /\ \A l \in Labels :
          /\ node[n] = l => n \in ntype[l]
          /\ n \in ntype[l] => node[n] = l \/ n \in relabelled
<1> SUFFICES ASSUME NEW w \in Workers, Step(w), NEW n \in Nodes, Calm(n)'
             PROVE  Indexed(n)'
  BY DEF Next, NodesIndexed, Calm, Deleting, At, vars
<1>0. n \notin raced /\ n \notin raced' /\ ~Deleting'
  BY RacedGrows DEF Calm, Next
<1>1. ASSUME DeleteEnd(w)
      PROVE  Indexed(n)'
  BY <1>0, <1>1, DeletionEnds, GoneEverywherePrimed
<1>2. ASSUME ~Deleting, Undeleted(w)
      PROVE  Indexed(n)'
  <2>0. Indexed(n)
    BY <1>0, <1>2 DEF NodesIndexed, Calm
  <2>1. ASSUME NEW m \in Nodes, NEW l \in Labels, AddNode(w, m, l)
        PROVE  Indexed(n)'
    BY <2>0, <2>1 DEF AddNode
  <2>2. ASSUME UpdateWrite(w)
        PROVE  Indexed(n)'
    <3>1. call[w].node \in Nodes /\ call[w].node \in Uses(call[w])
      BY <2>2 DEF UpdateWrite, At, HasLocals, Uses
    <3>2. node'[n] = node[n]
      BY <2>2, <3>1, <1>0 DEF UpdateWrite, UsesPresent
    <3> QED
      BY <2>0, <2>2, <3>2 DEF UpdateWrite
  <2>3. ASSUME AddEdge(w) \/ \E e \in Edges : RemoveEdge(w, e)
        PROVE  Indexed(n)'
    BY <2>0, <2>3 DEF AddEdge, RemoveEdge
  <2>4. ASSUME RemoveFinish(w)
        PROVE  Indexed(n)'
    <3>1. CASE n = call[w].node
      <4>1. node[n] \in {Absent, call[w].label}
        BY <1>0, <2>4, <3>1 DEF RemoveFinish, LabelRead, At, RemoveSteps
      <4>2. node'[n] = Absent /\ n \notin nodes'
        BY <2>4, <3>1 DEF RemoveFinish
      <4>3. ASSUME NEW l \in Labels, n \in ntype'[l]
            PROVE  n \in relabelled'
        <5>1. l # call[w].label /\ n \in ntype[l]
          BY <2>4, <3>1, <4>3 DEF RemoveFinish
        <5> QED
          BY <2>0, <2>4, <4>1, <5>1 DEF RemoveFinish
      <4> QED
        BY <4>2, <4>3
    <3>2. CASE n # call[w].node
      <4>1. /\ node'[n] = node[n] /\ (n \in nodes' <=> n \in nodes)
            /\ \A l \in Labels : n \in ntype'[l] <=> n \in ntype[l]
            /\ relabelled' = relabelled
        BY <2>4, <3>2 DEF RemoveFinish
      <4> QED
        BY <2>0, <4>1
    <3> QED
      BY <3>1, <3>2
  <2>5. ASSUME UNCHANGED <<nodeKeys, edgeKeys>>
        PROVE  Indexed(n)'
    BY <2>0, <2>5, RelabelledGrows
  <2> QED
    BY <1>2, <2>1, <2>2, <2>3, <2>4, <2>5 DEF Undeleted
<1> QED
  BY <1>0, <1>1, <1>2, StepCases

\* Every step keeps edges attached.
LEMMA EdgesAttachedKept ==
  ASSUME IInv, [Next]_vars
  PROVE  EdgesAttached'
<1> USE DEF IInv, TypeOK, nodeKeys, edgeKeys
<1> DEFINE OutOK(e, n) == node[n] # Absent /\ e \in out[n] /\ e \in edges
           InOK(e, n) == node[n] # Absent /\ e \in in[n] /\ e \in edges
<1> SUFFICES ASSUME NEW w \in Workers, Step(w), NEW e \in Edges, edge'[e] # NoEnds,
                    NEW n \in Nodes, Calm(n)'
             PROVE  /\ n = edge'[e][1] => OutOK(e, n)'
                    /\ n = edge'[e][2] => InOK(e, n)'
  <2>1. CASE UNCHANGED vars
    BY <2>1 DEF EdgesAttached, Calm, Deleting, At, vars
  <2>2. CASE \E w \in Workers : Step(w)
    <3>1. edge' \in [Edges -> (Nodes \X Nodes) \cup {NoEnds}]
      BY TypeKept
    <3> QED
      BY <2>2, <3>1 DEF EdgesAttached
  <2> QED
    BY <2>1, <2>2 DEF Next
<1>0. n \notin raced /\ n \notin raced' /\ ~Deleting'
  BY RacedGrows DEF Calm, Next
<1>1. ASSUME DeleteEnd(w)
      PROVE  n \notin {edge'[e][1], edge'[e][2]}
  BY <1>0, <1>1, DeletionEnds, GoneEverywherePrimed
<1>2. ASSUME ~Deleting, Undeleted(w)
      PROVE  /\ n = edge'[e][1] => OutOK(e, n)'
             /\ n = edge'[e][2] => InOK(e, n)'
  <2>0. edge[e] # NoEnds => /\ n = edge[e][1] => OutOK(e, n)
                            /\ n = edge[e][2] => InOK(e, n)
    BY <1>0, <1>2 DEF EdgesAttached, Calm
  <2>1. ASSUME NEW m \in Nodes, NEW l \in Labels, AddNode(w, m, l)
        PROVE  /\ n = edge'[e][1] => OutOK(e, n)'
               /\ n = edge'[e][2] => InOK(e, n)'
    BY <2>0, <2>1 DEF AddNode
  <2>2. ASSUME UpdateWrite(w)
        PROVE  /\ n = edge'[e][1] => OutOK(e, n)'
               /\ n = edge'[e][2] => InOK(e, n)'
    BY <2>0, <2>2 DEF UpdateWrite
  <2>3. ASSUME AddEdge(w)
        PROVE  /\ n = edge'[e][1] => OutOK(e, n)'
               /\ n = edge'[e][2] => InOK(e, n)'
    <3>1. CASE e = call[w].edge
      <4>1. edge'[e] = <<call[w].node, call[w].other>>
        BY <2>3, <3>1 DEF AddEdge
      <4>2. n \in {call[w].node, call[w].other} => node[n] # Absent
        BY <1>0, <2>3 DEF UsesPresent, Uses, AddEdge, At
      <4> QED
        BY <2>3, <3>1, <4>1, <4>2 DEF AddEdge
    <3>2. CASE e # call[w].edge
      <4>1. edge'[e] = edge[e]
        BY <2>3, <3>2 DEF AddEdge
      <4> QED
        BY <2>0, <2>3, <4>1 DEF AddEdge
    <3> QED
      BY <3>1, <3>2
  <2>4. ASSUME NEW d \in Edges, RemoveEdge(w, d)
        PROVE  /\ n = edge'[e][1] => OutOK(e, n)'
               /\ n = edge'[e][2] => InOK(e, n)'
    <3>0. UNCHANGED nodeKeys
      BY <2>4 DEF RemoveEdge
    <3>1. CASE edge[d] = NoEnds
      BY <2>0, <2>4, <3>0, <3>1 DEF RemoveEdge, DropEdge
    <3>2. CASE edge[d] # NoEnds /\ d = e
      <4>1. edge'[e] = NoEnds
        BY <2>4, <3>2 DEF RemoveEdge, DropEdge
      <4> QED
        BY <4>1
    <3>3. CASE edge[d] # NoEnds /\ d # e
      <4>1. edge'[e] = edge[e]
        BY <2>4, <3>3 DEF RemoveEdge, DropEdge
      <4>2. /\ e \in out[n] => e \in out'[n]
            /\ e \in in[n] => e \in in'[n]
            /\ e \in edges => e \in edges'
        BY <2>4, <3>3 DEF RemoveEdge, DropEdge
      <4> QED
        BY <2>0, <3>0, <4>1, <4>2
    <3> QED
      BY <3>1, <3>2, <3>3
  <2>5. ASSUME RemoveFinish(w)
        PROVE  /\ n = edge'[e][1] => OutOK(e, n)'
               /\ n = edge'[e][2] => InOK(e, n)'
    <3>1. CASE n = call[w].node
      <4>1. out[n] = {} /\ in[n] = {}
        BY <1>0, <1>2, <2>5, <3>1 DEF RemovesAll, RemoveFinish, At
      <4> QED
        BY <2>0, <2>5, <4>1 DEF RemoveFinish
    <3>2. CASE n # call[w].node
      BY <2>0, <2>5, <3>2 DEF RemoveFinish
    <3> QED
      BY <3>1, <3>2
  <2>6. ASSUME UNCHANGED <<nodeKeys, edgeKeys>>
        PROVE  /\ n = edge'[e][1] => OutOK(e, n)'
               /\ n = edge'[e][2] => InOK(e, n)'
    BY <2>0, <2>6
  <2> QED
    BY <1>2, <2>1, <2>2, <2>3, <2>4, <2>5, <2>6 DEF Undeleted
<1> QED
  BY <1>0, <1>1, <1>2, StepCases

\* Every step keeps the lists of edges sound.
LEMMA ListsSoundKept ==
  ASSUME IInv, [Next]_vars
  PROVE  ListsSound'
<1> USE DEF IInv, TypeOK, nodeKeys, edgeKeys
<1> DEFINE Sound(e, n) == /\ e \in out[n] => edge[e] # NoEnds /\ edge[e][1] = n
                          /\ e \in in[n] => edge[e] # NoEnds /\ edge[e][2] = n
<1> SUFFICES ASSUME NEW w \in Workers, Step(w), NEW n \in Nodes, Calm(n)',
                    NEW e \in Edges
             PROVE  Sound(e, n)'
  <2>1. CASE UNCHANGED vars
    BY <2>1 DEF ListsSound, Calm, Deleting, At, vars
  <2>2. CASE \E w \in Workers : Step(w)
    <3>1. out' \in [Nodes -> SUBSET Edges] /\ in' \in [Nodes -> SUBSET Edges]
      BY TypeKept
    <3> QED
      BY <2>2, <3>1 DEF ListsSound
  <2> QED
    BY <2>1, <2>2 DEF Next
<1>0. n \notin raced /\ n \notin raced' /\ ~Deleting'
  BY RacedGrows DEF Calm, Next
<1>1. ASSUME DeleteEnd(w)
      PROVE  Sound(e, n)'
  BY <1>0, <1>1, DeletionEnds, GoneEverywherePrimed
<1>2. ASSUME ~Deleting, Undeleted(w)
      PROVE  Sound(e, n)'
  <2>0. Sound(e, n)
    BY <1>0, <1>2 DEF ListsSound, Calm
  <2>1. ASSUME \/ UpdateWrite(w) \/ UNCHANGED <<nodeKeys, edgeKeys>>
               \/ \E m \in Nodes, l \in Labels : AddNode(w, m, l)
        PROVE  Sound(e, n)'
    BY <2>0, <2>1 DEF AddNode, UpdateWrite
  <2>2. ASSUME AddEdge(w)
        PROVE  Sound(e, n)'
    <3>1. CASE e = call[w].edge
      <4>1. e \notin out[n] /\ e \notin in[n]
        BY <2>0, <2>2, <3>1 DEF FreshEdges, AddEdge, At, ConnectSteps
      <4>2. edge'[e] = <<call[w].node, call[w].other>> /\ edge'[e] # NoEnds
        <5>1. call[w].node \in Nodes /\ call[w].other \in Nodes
          BY <2>2 DEF AddEdge, At, HasLocals, ConnectSteps
        <5> QED
          BY <2>2, <3>1, <5>1 DEF AddEdge
      <4>3. /\ e \in out'[n] => n = call[w].node
            /\ e \in in'[n] => n = call[w].other
        BY <2>2, <4>1 DEF AddEdge
      <4> QED
        BY <4>2, <4>3
    <3>2. CASE e # call[w].edge
      BY <2>0, <2>2, <3>2 DEF AddEdge
    <3> QED
      BY <3>1, <3>2
  <2>3. ASSUME NEW d \in Edges, RemoveEdge(w, d)
        PROVE  Sound(e, n)'
    <3>1. CASE edge[d] = NoEnds
      BY <2>0, <2>3, <3>1 DEF RemoveEdge, DropEdge
    <3>2. CASE edge[d] # NoEnds /\ d = e
      <4>1. e \notin out'[n] /\ e \notin in'[n]
        BY <2>0, <2>3, <3>2 DEF RemoveEdge, DropEdge
      <4> QED
        BY <4>1
    <3>3. CASE edge[d] # NoEnds /\ d # e
      <4>1. /\ edge'[e] = edge[e]
            /\ out'[n] \subseteq out[n] /\ in'[n] \subseteq in[n]
        BY <2>3, <3>3 DEF RemoveEdge, DropEdge
      <4> QED
        BY <2>0, <4>1
    <3> QED
      BY <3>1, <3>2, <3>3
  <2>4. ASSUME RemoveFinish(w)
        PROVE  Sound(e, n)'
    BY <2>0, <2>4 DEF RemoveFinish
  <2> QED
    BY <1>2, <2>1, <2>2, <2>3, <2>4 DEF Undeleted
<1> QED
  BY <1>0, <1>1, <1>2, StepCases

\* No action but AddEdge gives a node an edge.
LEMMA ListsShrink ==
  ASSUME IInv, NEW w \in Workers, ~AddEdge(w), Undeleted(w), NEW n \in Nodes
  PROVE  out'[n] \subseteq out[n] /\ in'[n] \subseteq in[n]
<1> USE DEF IInv, TypeOK, edgeKeys
<1>1. ASSUME NEW e \in Edges, RemoveEdge(w, e)
      PROVE  out'[n] \subseteq out[n] /\ in'[n] \subseteq in[n]
  BY <1>1 DEF RemoveEdge, DropEdge
<1>2. ASSUME RemoveFinish(w)
      PROVE  out'[n] \subseteq out[n] /\ in'[n] \subseteq in[n]
  BY <1>2 DEF RemoveFinish
<1> QED
  BY <1>1, <1>2 DEF Undeleted, AddNode, UpdateWrite

\* The edge a removal has handled is on neither list of its node.
LEMMA EdgeOffLists ==
  ASSUME IInv, NEW w \in Workers, NEW e \in Edges, RemoveEdge(w, e), ~Deleting,
         call[w].node \notin raced
  PROVE  e \notin out'[call[w].node] /\ e \notin in'[call[w].node]
<1> USE DEF IInv, TypeOK, edgeKeys
<1> DEFINE n == call[w].node
<1>1. n \in Nodes
  BY DEF RemoveEdge, HasLocals
<1>2. /\ e \in out[n] => edge[e] # NoEnds /\ edge[e][1] = n
      /\ e \in in[n] => edge[e] # NoEnds /\ edge[e][2] = n
  BY <1>1 DEF ListsSound, Calm
<1>3. CASE edge[e] = NoEnds
  BY <1>2, <1>3 DEF RemoveEdge, DropEdge
<1>4. CASE edge[e] # NoEnds
  <2>1. /\ out' = [out EXCEPT ![edge[e][1]] = @ \ {e}]
        /\ in' = [in EXCEPT ![edge[e][2]] = @ \ {e}]
    BY <1>4 DEF RemoveEdge, DropEdge
  <2> QED
    BY <1>1, <1>2, <2>1
<1> QED
  BY <1>3, <1>4

\* The step and the node of the worker's own call.
LEMMA RemovalAfter ==
  ASSUME IInv, NEW w \in Workers, Step(w), call'[w].step \in {"remove_out", "remove_in"}
  PROVE  \/ RemoveListOut(w) \/ RemoveListIn(w)
         \/ \E e \in Edges : RemoveEdge(w, e)
         \/ DeleteEnd(w)
<1> USE DEF IInv, TypeOK, Idle
<1>1. ASSUME NEW n \in Nodes, NEW l \in Labels, AddNode(w, n, l) PROVE FALSE
  BY <1>1 DEF AddNode, Begin, At
<1>2. ASSUME NEW n \in Nodes, UpdateRead(w, n) \/ RemoveRead(w, n) PROVE FALSE
  <2>1. CASE UpdateRead(w, n)
    BY <2>1 DEF UpdateRead, Goto
  <2>2. CASE RemoveRead(w, n)
    BY <2>2 DEF RemoveRead, Goto
  <2> QED
    BY <1>2, <2>1, <2>2
<1>3. ASSUME NEW n \in Nodes, NEW e \in Edges, NEW t \in Nodes, ConnectSource(w, e, n, t)
      PROVE  FALSE
  BY <1>3 DEF ConnectSource, Goto
<1>4. ASSUME UpdateWrite(w) \/ AddEdge(w) \/ RemoveFinish(w) PROVE FALSE
  BY <1>4 DEF UpdateWrite, AddEdge, RemoveFinish, Return
<1>5. ASSUME ConnectTarget(w) PROVE FALSE
  <2>1. Return(w) \/ Goto(w, [call[w] EXCEPT !.step = "connect_add"])
    BY <1>5 DEF ConnectTarget
  <2>2. ASSUME Return(w) PROVE FALSE
    BY <2>2 DEF Return
  <2>3. ASSUME Goto(w, [call[w] EXCEPT !.step = "connect_add"]) PROVE FALSE
    BY <2>3 DEF Goto, Calls
  <2> QED
    BY <2>1, <2>2, <2>3
<1>6. ASSUME DeleteBegin(w) PROVE FALSE
  BY <1>6 DEF DeleteBegin, Goto
<1>7. ASSUME NEW k \in Keys, DeleteKey(w, k) \/ DeleteMiss(w, k) PROVE FALSE
  BY <1>7, StillDeleting DEF DeleteKey, DeleteMiss, Goto, At, Calls
<1> QED
  BY <1>1, <1>2, <1>3, <1>4, <1>5, <1>6, <1>7 DEF Step

\* Every step keeps what a removal has before it.
LEMMA RemovesAllKept ==
  ASSUME IInv, [Next]_vars
  PROVE  RemovesAll'
<1> USE DEF IInv, TypeOK
<1> DEFINE Remaining(v) ==
      call[v].node \notin raced =>
        /\ At(v, "remove_out") => out[call[v].node] \subseteq call[v].todo
        /\ At(v, "remove_in") => /\ out[call[v].node] = {}
                                 /\ in[call[v].node] \subseteq call[v].todo
<1> SUFFICES ASSUME NEW w \in Workers, Step(w), ~Deleting', NEW v \in Workers,
                    call'[v].node \notin raced',
                    call'[v].step \in {"remove_out", "remove_in"}
             PROVE  Remaining(v)'
  <2>1. CASE UNCHANGED vars
    BY <2>1 DEF RemovesAll, Deleting, At, vars, edgeKeys
  <2>2. CASE \E w \in Workers : Step(w)
    BY <2>2 DEF RemovesAll, At
  <2> QED
    BY <2>1, <2>2 DEF Next
<1>0. /\ call'[v].node \in Nodes /\ call'[v].node \notin raced
      /\ \A u \in Workers \ {w} : call'[u] = call[u]
  <2>1. raced \subseteq raced'
    BY RacedGrows DEF Next
  <2>2. \A u \in Workers \ {w} : call'[u] = call[u]
    BY OneCallChanges
  <2>3. HasLocals(call'[v])
    BY TypeKept DEF Next
  <2> QED
    BY <2>1, <2>2, <2>3 DEF HasLocals
<1>1. ASSUME DeleteEnd(w)
      PROVE  Remaining(v)'
  BY <1>0, <1>1, DeletionEnds, GoneEverywherePrimed
<1>2. ASSUME ~Deleting, Undeleted(w), v # w
      PROVE  Remaining(v)'
  <2>1. Remaining(v) /\ call'[v] = call[v]
    BY <1>0, <1>2 DEF RemovesAll
  <2>2. /\ out'[call[v].node] \subseteq out[call[v].node]
        /\ in'[call[v].node] \subseteq in[call[v].node]
    <3>1. CASE AddEdge(w)
      <4>1. call[v].node \notin {call[w].node, call[w].other}
        <5>1. call[v].node \in Removes(call[v])
          BY <2>1 DEF Removes, RemoveSteps
        <5>2. Uses(call[w]) = {call[w].node, call[w].other}
          BY <3>1 DEF AddEdge, At, Uses
        <5> QED
          BY <1>0, <2>1, <5>1, <5>2 DEF Conflicts
      <4> QED
        BY <3>1, <4>1 DEF AddEdge
    <3>2. CASE ~AddEdge(w)
      BY <1>0, <1>2, <2>1, <3>2, ListsShrink
    <3> QED
      BY <3>1, <3>2
  <2> QED
    BY <1>0, <2>1, <2>2 DEF At
<1>3. ASSUME ~Deleting, v = w, RemoveListOut(w)
      PROVE  Remaining(v)'
  BY <1>3 DEF RemoveListOut, Goto, At, Calls, edgeKeys
<1>4. ASSUME ~Deleting, v = w, RemoveListIn(w)
      PROVE  Remaining(v)'
  <2>1. /\ call'[w] = [call[w] EXCEPT !.step = "remove_in", !.todo = in[call[w].node]]
        /\ UNCHANGED <<out, in>>
    BY <1>4 DEF RemoveListIn, Goto, edgeKeys
  <2>2. /\ call'[w].step = "remove_in" /\ call'[w].node = call[w].node
        /\ call'[w].todo = in[call[w].node]
    BY <2>1 DEF Calls
  <2>3. out[call[w].node] = {}
    BY <1>0, <1>4, <2>2 DEF RemovesAll, RemoveListIn
  <2> QED
    BY <1>4, <2>1, <2>2, <2>3 DEF At
<1>5. ASSUME ~Deleting, v = w, NEW e \in Edges, RemoveEdge(w, e)
      PROVE  Remaining(v)'
  <2>1. call'[w] = [call[w] EXCEPT !.todo = @ \ {e}]
    BY <1>5 DEF RemoveEdge, Goto
  <2>2. /\ call'[w].step = call[w].step /\ call'[w].node = call[w].node
        /\ call'[w].todo = call[w].todo \ {e}
    BY <2>1 DEF Calls
  <2>3. Remaining(v)
    BY <1>5 DEF RemovesAll
  <2>4. e \notin out'[call[w].node] /\ e \notin in'[call[w].node]
    BY <1>0, <1>5, <2>2, EdgeOffLists
  <2>5. /\ out'[call[w].node] \subseteq out[call[w].node]
        /\ in'[call[w].node] \subseteq in[call[w].node]
    <3>1. ~AddEdge(w)
      BY <1>5 DEF RemoveEdge, AddEdge, At
    <3> QED
      BY <1>0, <1>5, <2>2, <3>1, ListsShrink DEF Undeleted
  <2> QED
    BY <1>0, <1>5, <2>2, <2>3, <2>4, <2>5 DEF At
<1> QED
  BY <1>1, <1>2, <1>3, <1>4, <1>5, StepCases, RemovalAfter

\* The initial states satisfy the inductive invariant.
LEMMA InitIInv == Init => IInv
<1> SUFFICES ASSUME Init PROVE IInv
  OBVIOUS
<1>1. TypeOK
  BY TypeInit
<1>2. \A w \in Workers : call[w] = Idle
  BY DEF Init
<1>3. /\ Conflicts /\ FreshEdges /\ UsesPresent /\ LabelRead /\ RemovesAll
      /\ \A w \in Workers : ~At(w, "delete")
  BY <1>2 DEF Conflicts, FreshEdges, UsesPresent, LabelRead, RemovesAll, Removes,
     Uses, At, Idle, RemoveSteps, ConnectSteps
<1>4. DeletesAll
  BY <1>3 DEF DeletesAll
<1>5. NoneBare
  BY DEF Init, NoneBare
<1>6. NodesIndexed
  BY DEF Init, NodesIndexed
<1>7. EdgesAttached
  BY <1>1 DEF Init, EdgesAttached, TypeOK
<1>8. ListsSound
  BY <1>1 DEF Init, ListsSound, TypeOK
<1> QED
  BY <1>1, <1>3, <1>4, <1>5, <1>6, <1>7, <1>8 DEF IInv

\* Every step keeps the inductive invariant.
LEMMA StepIInv == IInv /\ [Next]_vars => IInv'
BY TypeKept, ConflictsKept, FreshEdgesKept, UsesPresentKept, NoneBareKept,
   LabelReadKept, DeletesAllKept, RemovesAllKept, NodesIndexedKept,
   EdgesAttachedKept, ListsSoundKept DEF IInv

\* The inductive invariant holds always.
LEMMA Inductive == Spec => []IInv
BY InitIInv, StepIInv, PTL DEF Spec

(***************************************************************************)
(* The hash of a node, the set nodes and the sets ntype agree on every     *)
(* node no removal of which overlapped another call about it.              *)
(***************************************************************************)
THEOREM NodesAgree == Spec => []NodesIndexed
<1>1. IInv => NodesIndexed
  BY DEF IInv
<1> QED
  BY <1>1, Inductive, PTL

(***************************************************************************)
(* An edge's endpoints exist and list it: CREATE EDGE, remove_node and     *)
(* delete_graph leave no dangling edge at such a node.                     *)
(***************************************************************************)
THEOREM EdgesHang == Spec => []EdgesAttached
<1>1. IInv => EdgesAttached
  BY DEF IInv
<1> QED
  BY <1>1, Inductive, PTL

(***************************************************************************)
(* The lists adj:<id>:out and adj:<id>:in of such a node hold edges that   *)
(* exist and lead where the list says: nothing removed is traversed.       *)
(***************************************************************************)
THEOREM ListsTrue == Spec => []ListsSound
<1>1. IInv => ListsSound
  BY DEF IInv
<1> QED
  BY <1>1, Inductive, PTL

(***************************************************************************)
(* The abstract graph: what the sets nodes and edges and the hashes say.   *)
(***************************************************************************)
LabelBar == [n \in Nodes |-> IF n \in nodes /\ node[n] \in Labels
                             THEN node[n] ELSE Absent]
EndsBar == [e \in Edges |-> IF e \in edges THEN edge[e] ELSE NoEnds]

\* Adding an edge joins two nodes of the abstract graph.
LEMMA AddEdgeConnects ==
  ASSUME IInv, NEW w \in Workers, AddEdge(w)
  PROVE  Graph!Connect
<1> USE DEF IInv, TypeOK
<1> DEFINE e == call[w].edge
           s == call[w].node
           t == call[w].other
<1>1. e \in Edges /\ s \in Nodes /\ t \in Nodes
  BY DEF AddEdge, At, HasLocals, ConnectSteps
<1>2. EndsBar[e] = NoEnds
  BY <1>1 DEF FreshEdges, AddEdge, At, ConnectSteps, EndsBar
<1>3. ASSUME NEW n \in {s, t}, n \notin raced
      PROVE  LabelBar[n] # Absent
  <2>1. n \in Uses(call[w])
    BY DEF Uses, AddEdge, At
  <2>2. ~Deleting
    <3> SUFFICES ASSUME Deleting PROVE FALSE
      OBVIOUS
    <3>1. PICK v \in Workers : At(v, "delete")
      BY DEF Deleting
    <3>2. n \in Removes(call[v])
      BY <1>1, <1>3, <3>1 DEF Removes, At
    <3> QED
      BY <1>3, <2>1, <3>2 DEF Conflicts
  <2>3. node[n] \in Labels
    BY <1>1, <1>3, <2>1 DEF UsesPresent, NoneBare
  <2>4. n \in nodes
    BY <1>1, <1>3, <2>2, <2>3 DEF NodesIndexed, Calm
  <2> QED
    BY <1>1, <2>3, <2>4 DEF LabelBar
<1>4. EndsBar' = [EndsBar EXCEPT ![e] = <<s, t>>]
  <2>1. edge' = [edge EXCEPT ![e] = <<s, t>>] /\ edges' = edges \cup {e}
    BY DEF AddEdge
  <2> QED
    BY <1>1, <2>1 DEF EndsBar
<1>5. LabelBar' = LabelBar
  BY DEF AddEdge, nodeKeys, LabelBar
<1>6. \E f \in Edges, a, b \in Nodes :
        /\ EndsBar[f] = NoEnds
        /\ \A n \in {a, b} : LabelBar[n] # Absent \/ n \in raced
        /\ EndsBar' = [EndsBar EXCEPT ![f] = <<a, b>>]
  <2>1. \A n \in {s, t} : LabelBar[n] # Absent \/ n \in raced
    BY <1>3
  <2> QED
    BY <1>1, <1>2, <1>4, <2>1
<1> QED
  BY <1>5, <1>6 DEF Graph!Connect, LabelBar, EndsBar

\* The end of a removal drops a node without edges, or is part of a race or a deletion.
LEMMA RemovalDrops ==
  ASSUME IInv, NEW w \in Workers, RemoveFinish(w)
  PROVE  Graph!DropNode \/ Graph!Clear
<1> USE DEF IInv, TypeOK
<1> DEFINE n == call[w].node
<1>1. n \in Nodes
  BY DEF RemoveFinish, At, HasLocals
<1>2. LabelBar' = [LabelBar EXCEPT ![n] = Absent]
  BY <1>1 DEF RemoveFinish, LabelBar
<1>3. EndsBar' = EndsBar
  BY DEF RemoveFinish, EndsBar
<1>4. CASE Deleting
  <2>1. \A m \in Nodes : LabelBar'[m] \in {LabelBar[m], Absent}
    BY <1>1, <1>2 DEF LabelBar
  <2>2. \A e \in Edges : EndsBar'[e] \in {EndsBar[e], NoEnds}
    BY <1>3
  <2> QED
    BY <1>4, <2>1, <2>2 DEF Graph!Clear, LabelBar, EndsBar
<1>5. CASE n \in raced
  BY <1>1, <1>2, <1>3, <1>5 DEF Graph!DropNode, LabelBar, EndsBar
<1>6. CASE ~Deleting /\ n \notin raced
  <2>1. out[n] = {} /\ in[n] = {}
    BY <1>6 DEF RemovesAll, RemoveFinish, At
  <2>2. \A e \in Edges : EndsBar[e] # NoEnds => n \notin {EndsBar[e][1], EndsBar[e][2]}
    <3> SUFFICES ASSUME NEW e \in Edges, EndsBar[e] # NoEnds,
                        n \in {EndsBar[e][1], EndsBar[e][2]}
                 PROVE  FALSE
      OBVIOUS
    <3>1. edge[e] # NoEnds /\ n \in {edge[e][1], edge[e][2]}
      BY DEF EndsBar
    <3> QED
      BY <1>6, <2>1, <3>1 DEF EdgesAttached, Calm
  <2>3. Graph!Attached(n) = {}
    BY <2>2 DEF Graph!Attached, EndsBar
  <2> QED
    BY <1>1, <1>2, <1>3, <2>3 DEF Graph!DropNode, LabelBar, EndsBar
<1> QED
  BY <1>4, <1>5, <1>6

\* Every step is a step of the abstract graph or leaves it alone.
LEMMA StepImplements ==
  ASSUME IInv, [Next]_vars
  PROVE  [Graph!PGNext /\ raced \subseteq raced']_(Graph!pgvars)
<1> USE DEF IInv, TypeOK
<1>0. raced \subseteq raced'
  BY RacedGrows
<1>1. ASSUME NEW w \in Workers, NEW n \in Nodes, NEW l \in Labels, AddNode(w, n, l)
      PROVE  Graph!PutNode
  <2>1. LabelBar' = [LabelBar EXCEPT ![n] = l]
    BY <1>1 DEF AddNode, LabelBar
  <2>2. EndsBar' = EndsBar
    BY <1>1 DEF AddNode, edgeKeys, EndsBar
  <2> QED
    BY <2>1, <2>2 DEF Graph!PutNode, LabelBar, EndsBar
<1>2. ASSUME NEW w \in Workers, UpdateWrite(w)
      PROVE  UNCHANGED <<LabelBar, EndsBar>>
  <2>1. LabelBar' = LabelBar
    BY <1>2 DEF UpdateWrite, LabelBar
  <2> QED
    BY <1>2, <2>1 DEF UpdateWrite, edgeKeys, EndsBar
<1>3. ASSUME NEW w \in Workers, NEW e \in Edges, RemoveEdge(w, e)
      PROVE  Graph!Disconnect \/ UNCHANGED <<LabelBar, EndsBar>>
  <2>1. LabelBar' = LabelBar
    BY <1>3 DEF RemoveEdge, nodeKeys, LabelBar
  <2>2. CASE edge[e] = NoEnds
    BY <1>3, <2>1, <2>2 DEF RemoveEdge, DropEdge, edgeKeys, EndsBar
  <2>3. CASE edge[e] # NoEnds
    <3>1. edge' = [edge EXCEPT ![e] = NoEnds] /\ edges' = edges \ {e}
      BY <1>3, <2>3 DEF RemoveEdge, DropEdge
    <3>2. EndsBar' = [EndsBar EXCEPT ![e] = NoEnds]
      BY <3>1 DEF EndsBar
    <3> QED
      BY <2>1, <3>2 DEF Graph!Disconnect, LabelBar, EndsBar
  <2> QED
    BY <2>2, <2>3
<1>4. ASSUME NEW w \in Workers, NEW k \in Keys, DeleteKey(w, k)
      PROVE  Graph!Clear
  <2>1. Deleting
    BY <1>4 DEF DeleteKey, Deleting
  <2>2. \A m \in Nodes : LabelBar'[m] \in {LabelBar[m], Absent}
    BY <1>4 DEF DeleteKey, Without, LabelBar
  <2>3. \A e \in Edges : EndsBar'[e] \in {EndsBar[e], NoEnds}
    BY <1>4 DEF DeleteKey, Without, EndsBar
  <2> QED
    BY <2>1, <2>2, <2>3 DEF Graph!Clear, LabelBar, EndsBar
<1>5. ASSUME UNCHANGED <<nodeKeys, edgeKeys>>
      PROVE  UNCHANGED <<LabelBar, EndsBar>>
  BY <1>5 DEF nodeKeys, edgeKeys, LabelBar, EndsBar
<1>6. ASSUME UNCHANGED <<LabelBar, EndsBar>>
      PROVE  Graph!PGNext
  BY <1>6 DEF Graph!PGNext, LabelBar, EndsBar
<1>7. ASSUME NEW w \in Workers, Step(w)
      PROVE  Graph!PGNext
  <2>1. \/ \E n \in Nodes, l \in Labels : AddNode(w, n, l)
        \/ \E e \in Edges : RemoveEdge(w, e)
        \/ \E k \in Keys : DeleteKey(w, k)
        \/ UpdateWrite(w) \/ AddEdge(w) \/ RemoveFinish(w)
        \/ UNCHANGED <<nodeKeys, edgeKeys>>
    BY <1>7 DEF Step, UpdateRead, RemoveRead, ConnectSource, ConnectTarget,
       RemoveListOut, RemoveListIn, DeleteBegin, DeleteMiss, DeleteEnd
  <2>2. Graph!PutNode \/ Graph!Connect \/ Graph!Disconnect \/ Graph!DropNode
          \/ Graph!Clear => Graph!PGNext
    BY DEF Graph!PGNext
  <2> QED
    BY <1>1, <1>2, <1>3, <1>4, <1>5, <1>6, <2>1, <2>2, AddEdgeConnects, RemovalDrops
<1>8. CASE UNCHANGED vars
  BY <1>8 DEF vars, nodeKeys, edgeKeys, Graph!pgvars, Deleting, At
<1> QED
  BY <1>0, <1>7, <1>8 DEF Next

(***************************************************************************)
(* The keys implement a property graph: however calls of the workers       *)
(* interleave, an edge is added only between nodes that are there and a    *)
(* node goes only after its edges, except where a removal overlapped       *)
(* another call about the node, or the graph is being deleted.             *)
(***************************************************************************)
THEOREM GraphImplemented == Spec => ImplementsGraph
<1>1. Init => Graph!PGInit
  <2> SUFFICES ASSUME Init PROVE Graph!PGInit
    OBVIOUS
  <2>1. TypeOK
    BY TypeInit
  <2>2. LabelBar = node
    <3>1. node \in [Nodes -> Labels \cup {Absent}] /\ nodes = {n \in Nodes : node[n] # Absent}
      BY DEF Init
    <3>2. \A n \in Nodes : (IF n \in nodes /\ node[n] \in Labels THEN node[n] ELSE Absent) = node[n]
      BY <3>1
    <3> QED
      BY <3>1, <3>2 DEF LabelBar
  <2>3. EndsBar = edge
    BY <2>1 DEF Init, TypeOK, EndsBar
  <2>4. \A n \in Nodes : node[n] = Absent =>
            {e \in Edges : edge[e] # NoEnds /\ (edge[e][1] = n \/ edge[e][2] = n)} = {}
    BY DEF Init
  <2>5. raced = {} /\ Deleting = FALSE
    BY DEF Init, Deleting, At, Idle
  <2>6. /\ node \in [Nodes -> Labels \cup {Absent}]
        /\ edge \in [Edges -> (Nodes \X Nodes) \cup {NoEnds}]
    BY <2>1 DEF Init, TypeOK
  <2>7. \A n \in Nodes : LabelBar[n] = Absent => Graph!Attached(n) = {}
    BY <2>2, <2>3, <2>4 DEF Graph!Attached, EndsBar
  <2> QED
    BY <2>2, <2>3, <2>5, <2>6, <2>7 DEF Graph!PGInit, LabelBar, EndsBar
<1>2. IInv /\ [Next]_vars => [Graph!PGNext /\ raced \subseteq raced']_(Graph!pgvars)
  BY StepImplements
<1> QED
  BY <1>1, <1>2, Inductive, PTL DEF Spec, ImplementsGraph, Graph!PGSpec

(***************************************************************************)
(* What a deletion leaves.                                                 *)
(***************************************************************************)
DeleteReturns(w) == At(w, "delete") /\ ~At(w, "delete")'

\* Only its own last step ends a deletion, with nothing left to scan.
LEMMA DeleteReturned ==
  ASSUME IInv, NEW w \in Workers, [Next]_vars, DeleteReturns(w)
  PROVE  call[w].left = {} /\ UNCHANGED <<nodeKeys, edgeKeys>>
<1>0. call \in [Workers -> Calls] /\ At(w, "delete") /\ call'[w].step # "delete"
  BY DEF IInv, TypeOK, DeleteReturns, At
<1> USE DEF At, Begin
<1>1. ASSUME NEW v \in Workers, NEW n \in Nodes,
             \/ \E l \in Labels : AddNode(v, n, l)
             \/ UpdateRead(v, n)
             \/ RemoveRead(v, n)
             \/ \E e \in Edges, t \in Nodes : ConnectSource(v, e, n, t)
      PROVE  FALSE
  BY <1>0, <1>1 DEF AddNode, UpdateRead, RemoveRead, ConnectSource, Goto
<1>2. ASSUME NEW v \in Workers,
             \/ UpdateWrite(v) \/ ConnectTarget(v) \/ AddEdge(v) \/ RemoveListOut(v)
             \/ RemoveListIn(v) \/ RemoveFinish(v) \/ DeleteBegin(v)
      PROVE  FALSE
  BY <1>0, <1>2 DEF UpdateWrite, ConnectTarget, AddEdge, RemoveListOut, RemoveListIn,
     RemoveFinish, DeleteBegin, Goto, Return
<1>3. ASSUME NEW v \in Workers, NEW e \in Edges, RemoveEdge(v, e)
      PROVE  FALSE
  BY <1>0, <1>3 DEF RemoveEdge, Goto
<1>4. ASSUME NEW v \in Workers, NEW k \in Keys, DeleteKey(v, k) \/ DeleteMiss(v, k)
      PROVE  FALSE
  <2>1. call'[w] = call[w] \/ call'[w] = [call[w] EXCEPT !.left = @ \ {k}]
    BY <1>0, <1>4 DEF DeleteKey, DeleteMiss, Goto
  <2>2. [call[w] EXCEPT !.left = @ \ {k}].step = call[w].step
    BY <1>0 DEF Calls
  <2> QED
    BY <1>0, <2>1, <2>2
<1>5. ASSUME NEW v \in Workers, DeleteEnd(v)
      PROVE  v = w
  BY <1>0, <1>5 DEF DeleteEnd, Return
<1>6. ~UNCHANGED vars
  BY <1>0 DEF vars
<1>7. DeleteEnd(w)
  BY <1>1, <1>2, <1>3, <1>4, <1>5, <1>6 DEF Next, Step
<1> QED
  BY <1>7 DEF DeleteEnd

\* When delete_graph returns, no key tells of a node any more, whatever the other
\* workers did to other nodes; where a call about the node overlapped the deletion,
\* something of it may be left (RedisGraphStorage.delete_graph).
THEOREM DeletedNodesGone ==
  Spec => [][\A w \in Workers : DeleteReturns(w) =>
               \A k \in Keys : \A n \in Nodes \ raced : ~Mentions(k, n)']_vars
<1>1. IInv /\ [Next]_vars =>
        [\A w \in Workers : DeleteReturns(w) =>
           \A k \in Keys : \A n \in Nodes \ raced : ~Mentions(k, n)']_vars
  <2> SUFFICES ASSUME IInv, [Next]_vars, NEW w \in Workers, DeleteReturns(w),
                      NEW k \in Keys, NEW n \in Nodes \ raced
               PROVE  ~Mentions(k, n)'
    OBVIOUS
  <2>1. call[w].left = {} /\ UNCHANGED <<nodeKeys, edgeKeys>>
    BY DeleteReturned
  <2>2. ~Mentions(k, n)
    BY <2>1 DEF IInv, DeletesAll, DeleteReturns
  <2> QED
    BY <2>1, <2>2 DEF Mentions, nodeKeys, edgeKeys
<1> QED
  BY <1>1, Inductive, PTL DEF Spec

(***************************************************************************)
(* A graph with one worker.  No call overlaps another, so no node is ever  *)
(* raced and the invariants hold of every node.                            *)
(***************************************************************************)
\* The set edges is the edges there are, or is still to be deleted.
EdgeSet ==
    /\ ~Deleting => edges = {e \in Edges : edge[e] # NoEnds}
    /\ \A w \in Workers : At(w, "delete") /\ edges # {} => <<"edges", None>> \in call[w].left

OneInv == raced = {} /\ EdgeSet

LEMMA NothingRaced ==
  ASSUME NEW s, Workers = {s}, raced = {}, [Next]_vars
  PROVE  raced' = {}
<1>1. RemovedByOthers(s) = {} /\ UsedByOthers(s) = {}
  BY DEF RemovedByOthers, UsedByOthers
<1>2. \A c : Goto(s, c) => raced' = {}
  BY <1>1 DEF Goto
<1>3. Return(s) => raced' = {}
  BY DEF Return
<1>4. CASE Step(s)
  BY <1>1, <1>2, <1>3, <1>4 DEF Step, AddNode, UpdateRead, RemoveRead, ConnectSource,
     UpdateWrite, ConnectTarget, AddEdge, RemoveListOut, RemoveEdge, RemoveListIn,
     RemoveFinish, DeleteBegin, DeleteKey, DeleteMiss, DeleteEnd
<1>5. CASE UNCHANGED vars
  BY <1>5 DEF vars
<1> QED
  BY <1>4, <1>5 DEF Next

LEMMA EdgeSetKept ==
  ASSUME NEW s, Workers = {s}, IInv, OneInv, [Next]_vars
  PROVE  EdgeSet'
<1>0. /\ call \in [Workers -> Calls] /\ edges \in SUBSET Edges
      /\ edge \in [Edges -> (Nodes \X Nodes) \cup {NoEnds}]
      /\ s \in Workers /\ (Deleting <=> At(s, "delete")) /\ (Deleting' <=> At(s, "delete")')
      /\ \A w \in Workers : w = s
  BY DEF IInv, TypeOK, Deleting
<1>e. EdgeSet
  BY DEF OneInv
<1>u. ASSUME UNCHANGED <<edge, edges>>, ~At(s, "delete"), ~At(s, "delete")'
      PROVE  EdgeSet'
  BY <1>0, <1>e, <1>u DEF EdgeSet
<1>1. ASSUME NEW n \in Nodes,
             \/ \E l \in Labels : AddNode(s, n, l)
             \/ UpdateRead(s, n)
             \/ RemoveRead(s, n)
             \/ \E e \in Edges, t \in Nodes : ConnectSource(s, e, n, t)
      PROVE  EdgeSet'
  <2>1. UNCHANGED <<edge, edges>> /\ At(s, "idle")
    BY <1>1 DEF AddNode, UpdateRead, RemoveRead, ConnectSource, Begin, edgeKeys
  <2>2. ~At(s, "delete")'
    <3>1. ASSUME NEW l \in Labels, AddNode(s, n, l) PROVE ~At(s, "delete")'
      BY <2>1, <3>1 DEF AddNode, At
    <3>2. ASSUME UpdateRead(s, n) PROVE ~At(s, "delete")'
      BY <1>0, <3>2 DEF UpdateRead, Goto, At, Idle
    <3>4. ASSUME RemoveRead(s, n) PROVE ~At(s, "delete")'
      <4>1. PICK c : /\ c = [Idle EXCEPT !.step = "remove_list_out", !.node = n,
                                         !.label = node[n]]
                     /\ call' = [call EXCEPT ![s] = c]
        BY <3>4 DEF RemoveRead, Goto
      <4>2. c.step = "remove_list_out"
        BY <4>1 DEF Idle
      <4>3. call'[s] = c
        BY <1>0, <4>1
      <4> QED
        BY <4>2, <4>3 DEF At
    <3>3. ASSUME NEW e \in Edges, NEW t \in Nodes, ConnectSource(s, e, n, t)
          PROVE  ~At(s, "delete")'
      BY <1>0, <3>3 DEF ConnectSource, Goto, At, Idle
    <3> QED
      BY <1>1, <3>1, <3>2, <3>3, <3>4
  <2> QED
    BY <1>u, <2>1, <2>2 DEF At
<1>2. ASSUME UpdateWrite(s) \/ ConnectTarget(s) \/ RemoveListOut(s) \/ RemoveListIn(s)
             \/ RemoveFinish(s)
      PROVE  EdgeSet'
  <2>1. UNCHANGED <<edge, edges>> /\ ~At(s, "delete")
    BY <1>2 DEF UpdateWrite, ConnectTarget, RemoveListOut, RemoveListIn, RemoveFinish,
       edgeKeys, At
  <2>2. ~At(s, "delete")'
    <3>0. call[s] \in Calls
      BY <1>0
    <3>1. CASE Return(s)
      BY <1>0, <3>1 DEF Return, At, Idle
    <3>2. CASE ConnectTarget(s)
      BY <1>0, <3>0, <3>1, <3>2 DEF ConnectTarget, Goto, At, Calls
    <3>3. CASE RemoveListOut(s)
      BY <1>0, <3>0, <3>3 DEF RemoveListOut, Goto, At, Calls
    <3>4. CASE RemoveListIn(s)
      BY <1>0, <3>0, <3>4 DEF RemoveListIn, Goto, At, Calls
    <3> QED
      BY <1>2, <3>1, <3>2, <3>3, <3>4 DEF UpdateWrite, RemoveFinish
  <2> QED
    BY <1>u, <2>1, <2>2
<1>3. ASSUME AddEdge(s)
      PROVE  EdgeSet'
  <2>1. call[s].edge \in Edges /\ call[s].node \in Nodes /\ call[s].other \in Nodes
    BY <1>3 DEF IInv, TypeOK, HasLocals, AddEdge, At, ConnectSteps
  <2>2. /\ edge' = [edge EXCEPT ![call[s].edge] = <<call[s].node, call[s].other>>]
        /\ edges' = edges \cup {call[s].edge}
        /\ call' = [call EXCEPT ![s] = Idle] /\ ~At(s, "delete")
    BY <1>3 DEF AddEdge, Return, At
  <2>3. ~At(s, "delete")'
    BY <1>0, <2>2 DEF At, Idle
  <2>4. <<call[s].node, call[s].other>> # NoEnds
    BY <2>1, NamesAssumption
  <2>5. edges = {e \in Edges : edge[e] # NoEnds}
    BY <1>0, <1>e, <2>2 DEF EdgeSet
  <2>6. edges' = {e \in Edges : edge'[e] # NoEnds}
    BY <1>0, <2>1, <2>2, <2>4, <2>5
  <2> QED
    BY <1>0, <2>3, <2>6 DEF EdgeSet
<1>4. ASSUME NEW e \in Edges, RemoveEdge(s, e)
      PROVE  EdgeSet'
  <2>1. ~At(s, "delete") /\ ~At(s, "delete")'
    BY <1>0, <1>4 DEF RemoveEdge, Goto, At, Calls
  <2>2. edges = {x \in Edges : edge[x] # NoEnds}
    BY <1>0, <1>e, <2>1 DEF EdgeSet
  <2>3. CASE edge[e] = NoEnds
    BY <1>4, <1>u, <2>1, <2>3 DEF RemoveEdge, DropEdge, edgeKeys
  <2>4. CASE edge[e] # NoEnds
    <3>1. edge' = [edge EXCEPT ![e] = NoEnds] /\ edges' = edges \ {e}
      BY <1>4, <2>4 DEF RemoveEdge, DropEdge
    <3>2. edges' = {x \in Edges : edge'[x] # NoEnds}
      BY <1>0, <2>2, <3>1
    <3> QED
      BY <1>0, <2>1, <3>2 DEF EdgeSet
  <2> QED
    BY <2>3, <2>4
<1>5. ASSUME DeleteBegin(s)
      PROVE  EdgeSet'
  <2>1. /\ call'[s] = [Idle EXCEPT !.step = "delete", !.left = {k \in Keys : Present(k)}]
        /\ edges' = edges
    BY <1>0, <1>5 DEF DeleteBegin, Goto, edgeKeys
  <2>2. call'[s].step = "delete" /\ call'[s].left = {k \in Keys : Present(k)}
    BY <2>1 DEF Idle
  <2>3. edges # {} => <<"edges", None>> \in {k \in Keys : Present(k)}
    BY DEF Present, Keys
  <2> QED
    BY <1>0, <2>1, <2>2, <2>3 DEF EdgeSet, At
<1>6. ASSUME NEW k \in Keys, DeleteKey(s, k) \/ DeleteMiss(s, k)
      PROVE  EdgeSet'
  <2>1. call'[s] = [call[s] EXCEPT !.left = @ \ {k}] /\ At(s, "delete")
    BY <1>0, <1>6 DEF DeleteKey, DeleteMiss, Goto
  <2>2. call'[s].step = "delete" /\ call'[s].left = call[s].left \ {k}
    BY <1>0, <2>1 DEF Calls, At
  <2>3. edges' = edges \/ edges' = {}
    BY <1>6 DEF DeleteKey, DeleteMiss, edgeKeys
  <2>4. k = <<"edges", None>> => edges' = {}
    BY <1>6 DEF DeleteKey, DeleteMiss, Present, edgeKeys
  <2> QED
    BY <1>0, <1>e, <2>1, <2>2, <2>3, <2>4 DEF EdgeSet, At
<1>7. ASSUME DeleteEnd(s)
      PROVE  EdgeSet'
  <2>1. At(s, "delete") /\ call[s].left = {} /\ UNCHANGED <<edge, edges>>
        /\ call' = [call EXCEPT ![s] = Idle]
    BY <1>7 DEF DeleteEnd, Return, edgeKeys
  <2>2. ~At(s, "delete")'
    BY <1>0, <2>1 DEF At, Idle
  <2>3. edges = {}
    BY <1>0, <1>e, <2>1 DEF EdgeSet
  <2>4. ASSUME NEW e \in Edges, edge[e] # NoEnds
        PROVE  FALSE
    <3>1. edge[e][1] \in Nodes \ raced
      BY <1>0, <2>4 DEF OneInv
    <3>2. Mentions(<<"edge", e>>, edge[e][1])
      BY <2>4 DEF Mentions
    <3>3. <<"edge", e>> \in Keys
      BY DEF Keys
    <3> QED
      BY <1>0, <2>1, <3>1, <3>2, <3>3 DEF IInv, DeletesAll
  <2> QED
    BY <1>0, <2>1, <2>2, <2>3, <2>4 DEF EdgeSet
<1>8. CASE UNCHANGED vars
  BY <1>0, <1>8, <1>e DEF vars, edgeKeys, EdgeSet, At
<1> QED
  BY <1>0, <1>1, <1>2, <1>3, <1>4, <1>5, <1>6, <1>7, <1>8 DEF Next, Step

\* The keys of the graph say one thing: what is in the sets has a hash and the
\* other way round, and each list is exactly the edges that begin or end there.
Consistent ==
    /\ \A n \in Nodes : (n \in nodes <=> node[n] # Absent) /\ node[n] # Bare
    /\ edges = {e \in Edges : edge[e] # NoEnds}
    /\ \A e \in edges : edge[e] \in nodes \X nodes
    /\ \A n \in Nodes : /\ out[n] = {e \in edges : edge[e][1] = n}
                        /\ in[n] = {e \in edges : edge[e][2] = n}

LEMMA OneConsistent ==
  ASSUME IInv, OneInv, ~Deleting
  PROVE  Consistent
<1>0. /\ edge \in [Edges -> (Nodes \X Nodes) \cup {NoEnds}]
      /\ out \in [Nodes -> SUBSET Edges] /\ in \in [Nodes -> SUBSET Edges]
      /\ \A n \in Nodes : Calm(n)
      /\ edges = {e \in Edges : edge[e] # NoEnds}
      /\ NodesIndexed /\ EdgesAttached /\ ListsSound
  BY DEF IInv, TypeOK, OneInv, EdgeSet, Calm
<1>1. \A n \in Nodes : (n \in nodes <=> node[n] # Absent) /\ node[n] # Bare
  BY <1>0 DEF NodesIndexed
<1>2. ASSUME NEW e \in edges
      PROVE  /\ edge[e] \in nodes \X nodes
             /\ e \in out[edge[e][1]] /\ e \in in[edge[e][2]]
  <2>1. e \in Edges /\ edge[e] # NoEnds /\ edge[e] \in Nodes \X Nodes
    BY <1>0
  <2>2. edge[e][1] \in Nodes /\ edge[e][2] \in Nodes /\ edge[e] = <<edge[e][1], edge[e][2]>>
    BY <2>1
  <2>3. /\ node[edge[e][1]] # Absent /\ e \in out[edge[e][1]]
        /\ node[edge[e][2]] # Absent /\ e \in in[edge[e][2]]
    BY <1>0, <2>1, <2>2 DEF EdgesAttached
  <2> QED
    BY <1>1, <2>2, <2>3
<1>3. ASSUME NEW n \in Nodes
      PROVE  /\ out[n] = {e \in edges : edge[e][1] = n}
             /\ in[n] = {e \in edges : edge[e][2] = n}
  <2>1. out[n] \subseteq Edges /\ in[n] \subseteq Edges
    BY <1>0
  <2>2. /\ \A e \in out[n] : edge[e] # NoEnds /\ edge[e][1] = n
        /\ \A e \in in[n] : edge[e] # NoEnds /\ edge[e][2] = n
    BY <1>0 DEF ListsSound
  <2> QED
    BY <1>0, <1>2, <2>1, <2>2
<1> QED
  BY <1>0, <1>1, <1>2, <1>3 DEF Consistent

LEMMA OneDeletes ==
  ASSUME NEW s \in Workers, IInv, OneInv, [Next]_vars, DeleteReturns(s)
  PROVE  \A k \in Keys : ~Present(k)'
<1>1. call[s].left = {} /\ UNCHANGED <<nodeKeys, edgeKeys>>
  BY DeleteReturned
<1>2. ASSUME NEW k \in Keys, Present(k)
      PROVE  FALSE
  <2>1. \A n \in Nodes : ~Mentions(k, n)
    BY <1>1 DEF IInv, DeletesAll, OneInv, DeleteReturns
  <2>2. edges = {}
    BY <1>1 DEF OneInv, EdgeSet, DeleteReturns
  <2>3. CASE k \in {"node", "out", "in"} \X Nodes
    <3>1. PICK n \in Nodes : k[2] = n /\ k = <<k[1], n>> /\ k[1] \in {"node", "out", "in"}
      BY <2>3
    <3> QED
      BY <1>2, <2>1, <3>1 DEF Present, Mentions
  <2>4. CASE k \in {"edge"} \X Edges
    <3>1. PICK e \in Edges : k = <<"edge", e>> /\ edge[e] # NoEnds
      BY <1>2, <2>4 DEF Present
    <3>2. edge[e][1] \in Nodes
      BY <3>1 DEF IInv, TypeOK
    <3> QED
      BY <2>1, <3>1, <3>2 DEF Mentions
  <2>5. CASE k \in {"ntype"} \X Labels
    <3>1. PICK l \in Labels : k = <<"ntype", l>> /\ ntype[l] # {}
      BY <1>2, <2>5 DEF Present
    <3>2. ntype[l] \subseteq Nodes
      BY <3>1 DEF IInv, TypeOK
    <3> QED
      BY <2>1, <3>1, <3>2 DEF Mentions
  <2>6. CASE k \in {"nodes", "edges"} \X {None}
    <3>1. k = <<"nodes", None>> /\ nodes # {}
      BY <1>2, <2>2, <2>6 DEF Present
    <3>2. nodes \subseteq Nodes
      BY DEF IInv, TypeOK
    <3> QED
      BY <2>1, <3>1, <3>2 DEF Mentions
  <2> QED
    BY <2>3, <2>4, <2>5, <2>6 DEF Keys
<1> QED
  BY <1>1, <1>2 DEF Present, nodeKeys, edgeKeys

\* With one worker process: except while it deletes the graph, hashes, sets and lists
\* agree about every node and edge between any two round trips of its calls, and
\* delete_graph leaves no key behind.  So what the exceptions of the invariants
\* stand for needs a second worker.
THEOREM OneWorkerConsistent ==
  ASSUME NEW s, Workers = {s}
  PROVE  Spec => /\ [](~Deleting => Consistent)
                 /\ [][DeleteReturns(s) => \A k \in Keys : ~Present(k)']_vars
<1>1. Init => OneInv
  BY DEF Init, OneInv, EdgeSet, At, Idle
<1>2. IInv /\ OneInv /\ [Next]_vars => OneInv'
  BY NothingRaced, EdgeSetKept DEF OneInv
<1>3. IInv /\ OneInv => (~Deleting => Consistent)
  BY OneConsistent
<1>4. IInv /\ OneInv /\ [Next]_vars
        => [DeleteReturns(s) => \A k \in Keys : ~Present(k)']_vars
  BY OneDeletes
<1> QED
  BY <1>1, <1>2, <1>3, <1>4, Inductive, PTL DEF Spec
=============================================================================
