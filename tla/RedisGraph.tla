----------------------------- MODULE RedisGraph -----------------------------
(***************************************************************************)
(* A graph in Redis: src/contextsynapse/storage/redis_graph_storage.py     *)
(* (RedisGraphStorage) behind redis_graph_adapter.py.                      *)
(*                                                                         *)
(* Worker processes share the keys of one graph.  A pipeline is            *)
(* MULTI/EXEC: one step.  A call that reads and then writes takes several  *)
(* steps, and calls of other workers come in between.  Edges are created   *)
(* by CREATE EDGE (aiql/engine/executor.py), which looks both endpoints up *)
(* before it adds the edge under a new id.                                 *)
(*                                                                         *)
(* Left out: properties and weights; the set etype:<label>, which every    *)
(* pipeline changes together with the set edges (an edge keeps its label). *)
(***************************************************************************)
EXTENDS Naturals, FiniteSets

CONSTANTS
    Workers,    \* worker processes
    Nodes,      \* node ids
    Edges,      \* edge ids (uuid4: never used twice)
    Labels,     \* node labels
    Absent,     \* the key does not exist
    Bare,       \* the hash has the field props only
    NoEnds,     \* the key of the edge does not exist
    None,       \* no node, edge or label
    MaxCalls,   \* bound: calls the workers make in total
    MaxDeletes  \* bound: workers that delete the graph at the same time

ASSUME NamesAssumption ==
    /\ {Absent, Bare} \cap Labels = {} /\ Absent # Bare
    /\ NoEnds \notin Nodes \X Nodes
    /\ None \notin Nodes \cup Edges \cup Labels \cup {Bare}
ASSUME BoundAssumption == MaxCalls \in Nat /\ MaxDeletes \in Nat

VARIABLES
    node,       \* n:<id>: field label of the hash
    nodes,      \* set nodes
    ntype,      \* ntype:<label>: set of node ids
    edge,       \* e:<id>: fields source and target of the hash
    edges,      \* set edges
    out,        \* adj:<id>:out
    in,         \* adj:<id>:in
    call,       \* the call each worker has in flight
    raced,      \* history: nodes a removal of which overlapped another call
    relabelled, \* history: nodes added again under another label
    calls       \* calls made

nodeKeys == <<node, nodes, ntype>>
edgeKeys == <<edge, edges, out, in>>
vars == <<nodeKeys, edgeKeys, call, raced, relabelled, calls>>

\* The keys of the graph, as delete_graph scans them.
Keys == ({"node", "out", "in"} \X Nodes) \cup ({"edge"} \X Edges)
            \cup ({"ntype"} \X Labels) \cup ({"nodes", "edges"} \X {None})

RemoveSteps == {"remove_list_out", "remove_out", "remove_in"}
ConnectSteps == {"connect_target", "connect_add"}
Steps == {"idle", "update_write", "delete"} \cup RemoveSteps \cup ConnectSteps

\* The local variables of a call:
\*   node, other  the node it is about; connect: source and target
\*   label        remove_node: the label it read
\*   todo         remove_node: the edges its loop has not handled yet
\*   edge         connect: the new edge
\*   left         delete_graph: the keys SCAN has still to return
Idle == [step |-> "idle", node |-> None, other |-> None, label |-> None,
         todo |-> {}, edge |-> None, left |-> {}]

Calls == [step : Steps, node : Nodes \cup {None}, other : Nodes \cup {None},
          label : Labels \cup {Bare, None}, todo : SUBSET Edges,
          edge : Edges \cup {None}, left : SUBSET Keys]

HasLocals(c) ==
    /\ c.step \notin {"idle", "delete"} => c.node \in Nodes
    /\ c.step \in RemoveSteps => c.label # None
    /\ c.step \in ConnectSteps => c.other \in Nodes /\ c.edge \in Edges

TypeOK ==
    /\ node \in [Nodes -> Labels \cup {Absent, Bare}]
    /\ nodes \in SUBSET Nodes
    /\ ntype \in [Labels -> SUBSET Nodes]
    /\ edge \in [Edges -> (Nodes \X Nodes) \cup {NoEnds}]
    /\ edges \in SUBSET Edges
    /\ out \in [Nodes -> SUBSET Edges]
    /\ in \in [Nodes -> SUBSET Edges]
    /\ call \in [Workers -> Calls]
    /\ \A w \in Workers : HasLocals(call[w])
    /\ raced \in SUBSET Nodes
    /\ relabelled \in SUBSET Nodes
    /\ calls \in 0..MaxCalls

\* A graph written before, with no call in flight.
Init ==
    /\ node \in [Nodes -> Labels \cup {Absent}]
    /\ nodes = {n \in Nodes : node[n] # Absent}
    /\ ntype = [l \in Labels |-> {n \in Nodes : node[n] = l}]
    /\ edge \in [Edges -> (nodes \X nodes) \cup {NoEnds}]
    /\ edges = {e \in Edges : edge[e] # NoEnds}
    /\ out = [n \in Nodes |-> {e \in edges : edge[e][1] = n}]
    /\ in = [n \in Nodes |-> {e \in edges : edge[e][2] = n}]
    /\ call = [w \in Workers |-> Idle]
    /\ raced = {}
    /\ relabelled = {}
    /\ calls = 0

----------------------------------------------------------------------------
(* Calls in flight, and which of them overlap.                             *)

At(w, step) == call[w].step = step

Deleting == \E w \in Workers : At(w, "delete")

\* The nodes call c is removing, and those it has found and will write.
Removes(c) == IF c.step = "delete" THEN Nodes
              ELSE IF c.step \in RemoveSteps THEN {c.node} ELSE {}
Uses(c) == IF c.step = "connect_target" THEN {c.node}
           ELSE IF c.step = "connect_add" THEN {c.node, c.other}
           ELSE IF c.step = "update_write" THEN {c.node} ELSE {}

RemovedByOthers(w) == UNION {Removes(call[v]) : v \in Workers \ {w}}
UsedByOthers(w) == UNION {Uses(call[v]) : v \in Workers \ {w}}

\* Worker w goes on to call c.
Goto(w, c) ==
    /\ call' = [call EXCEPT ![w] = c]
    /\ raced' = raced \cup (Removes(c) \cap UsedByOthers(w))
                      \cup (Uses(c) \cap RemovedByOthers(w))

Begin(w) ==
    /\ At(w, "idle")
    /\ calls < MaxCalls
    /\ calls' = calls + 1

Return(w) ==
    /\ call' = [call EXCEPT ![w] = Idle]
    /\ UNCHANGED raced

----------------------------------------------------------------------------
(* add_node, update_node_properties                                        *)

AddNode(w, n, l) ==
    /\ Begin(w)
    /\ node' = [node EXCEPT ![n] = l]
    /\ nodes' = nodes \cup {n}
    /\ ntype' = [ntype EXCEPT ![l] = @ \cup {n}]
    /\ raced' = raced \cup ({n} \cap RemovedByOthers(w))
    /\ relabelled' = IF node[n] \in Labels \ {l} THEN relabelled \cup {n}
                     ELSE relabelled
    /\ UNCHANGED <<edgeKeys, call>>

\* A wrong variant: nothing looks whether there is such a node.
UpdateReadBlind(w, n) ==
    /\ Begin(w)
    /\ Goto(w, [Idle EXCEPT !.step = "update_write", !.node = n])
    /\ UNCHANGED <<nodeKeys, edgeKeys, relabelled>>

\* HGETALL: an absent node is not updated.
UpdateRead(w, n) ==
    /\ Begin(w)
    /\ node[n] # Absent
    /\ Goto(w, [Idle EXCEPT !.step = "update_write", !.node = n])
    /\ UNCHANGED <<nodeKeys, edgeKeys, relabelled>>

\* HSET of the field props creates the hash if it is gone.
UpdateWrite(w) ==
    /\ At(w, "update_write")
    /\ LET n == call[w].node IN
        node' = [node EXCEPT ![n] = IF @ = Absent THEN Bare ELSE @]
    /\ Return(w)
    /\ UNCHANGED <<nodes, ntype, edgeKeys, relabelled, calls>>

----------------------------------------------------------------------------
(* add_edge, called by CREATE EDGE                                         *)

ConnectSource(w, e, s, t) ==
    /\ Begin(w)
    /\ edge[e] = NoEnds /\ e \notin edges
    /\ \A v \in Workers : call[v].edge # e
    /\ node[s] # Absent
    /\ Goto(w, [Idle EXCEPT !.step = "connect_target", !.node = s,
                            !.other = t, !.edge = e])
    /\ UNCHANGED <<nodeKeys, edgeKeys, relabelled>>

\* A wrong variant: the target is taken for granted.
ConnectTargetBlind(w) ==
    /\ At(w, "connect_target")
    /\ Goto(w, [call[w] EXCEPT !.step = "connect_add"])
    /\ UNCHANGED <<nodeKeys, edgeKeys, relabelled, calls>>

ConnectTarget(w) ==
    /\ At(w, "connect_target")
    /\ IF node[call[w].other] = Absent THEN Return(w)
       ELSE Goto(w, [call[w] EXCEPT !.step = "connect_add"])
    /\ UNCHANGED <<nodeKeys, edgeKeys, relabelled, calls>>

AddEdge(w) ==
    /\ At(w, "connect_add")
    /\ LET e == call[w].edge
           s == call[w].node
           t == call[w].other IN
        /\ edge' = [edge EXCEPT ![e] = <<s, t>>]
        /\ edges' = edges \cup {e}
        /\ out' = [out EXCEPT ![s] = @ \cup {e}]
        /\ in' = [in EXCEPT ![t] = @ \cup {e}]
    /\ Return(w)
    /\ UNCHANGED <<nodeKeys, relabelled, calls>>

----------------------------------------------------------------------------
(* remove_node                                                             *)

\* A wrong variant: a node that is not there is removed like any other.
RemoveReadBlind(w, n) ==
    /\ Begin(w)
    /\ Goto(w, [Idle EXCEPT !.step = "remove_list_out", !.node = n,
                            !.label = node[n]])
    /\ UNCHANGED <<nodeKeys, edgeKeys, relabelled>>

RemoveRead(w, n) ==
    /\ Begin(w)
    /\ node[n] # Absent
    /\ Goto(w, [Idle EXCEPT !.step = "remove_list_out", !.node = n,
                            !.label = node[n]])
    /\ UNCHANGED <<nodeKeys, edgeKeys, relabelled>>

RemoveListOut(w) ==
    /\ At(w, "remove_list_out")
    /\ Goto(w, [call[w] EXCEPT !.step = "remove_out", !.todo = out[call[w].node]])
    /\ UNCHANGED <<nodeKeys, edgeKeys, relabelled, calls>>

\* A wrong variant: the edge stays on the list of its target.
DropEdgeAtSource(e) ==
    IF edge[e] = NoEnds THEN UNCHANGED edgeKeys
    ELSE /\ edge' = [edge EXCEPT ![e] = NoEnds]
         /\ edges' = edges \ {e}
         /\ out' = [out EXCEPT ![edge[e][1]] = @ \ {e}]
         /\ UNCHANGED in

\* _remove_edge_internal.  Its HGETALL and its pipeline are one step: the
\* fields of an edge never change, and deleting it twice does nothing.
DropEdge(e) ==
    IF edge[e] = NoEnds THEN UNCHANGED edgeKeys
    ELSE /\ edge' = [edge EXCEPT ![e] = NoEnds]
         /\ edges' = edges \ {e}
         /\ out' = [out EXCEPT ![edge[e][1]] = @ \ {e}]
         /\ in' = [in EXCEPT ![edge[e][2]] = @ \ {e}]

RemoveEdge(w, e) ==
    /\ call[w].step \in {"remove_out", "remove_in"}
    /\ e \in call[w].todo
    /\ DropEdge(e)
    /\ Goto(w, [call[w] EXCEPT !.todo = @ \ {e}])
    /\ UNCHANGED <<nodeKeys, relabelled, calls>>

\* A wrong variant: the incoming edges are not looked up.
RemoveListNone(w) ==
    /\ At(w, "remove_out")
    /\ call[w].todo = {}
    /\ Goto(w, [call[w] EXCEPT !.step = "remove_in"])
    /\ UNCHANGED <<nodeKeys, edgeKeys, relabelled, calls>>

RemoveListIn(w) ==
    /\ At(w, "remove_out")
    /\ call[w].todo = {}
    /\ Goto(w, [call[w] EXCEPT !.step = "remove_in", !.todo = in[call[w].node]])
    /\ UNCHANGED <<nodeKeys, edgeKeys, relabelled, calls>>

\* The label is the one that was read; a bare hash has none.
RemoveFinish(w) ==
    /\ At(w, "remove_in")
    /\ call[w].todo = {}
    /\ LET n == call[w].node
           l == call[w].label IN
        /\ node' = [node EXCEPT ![n] = Absent]
        /\ nodes' = nodes \ {n}
        /\ ntype' = [k \in Labels |-> IF k = l THEN ntype[k] \ {n} ELSE ntype[k]]
        /\ out' = [out EXCEPT ![n] = {}]
        /\ in' = [in EXCEPT ![n] = {}]
    /\ Return(w)
    /\ UNCHANGED <<edge, edges, relabelled, calls>>

----------------------------------------------------------------------------
(* delete_graph: SCAN returns every key that exists from beginning to end, *)
(* and perhaps keys that come or go meanwhile.  The keys of one batch are  *)
(* deleted here one after the other.                                       *)

Present(k) ==
    \/ k[1] = "node" /\ node[k[2]] # Absent
    \/ k[1] = "out" /\ out[k[2]] # {}
    \/ k[1] = "in" /\ in[k[2]] # {}
    \/ k[1] = "edge" /\ edge[k[2]] # NoEnds
    \/ k[1] = "ntype" /\ ntype[k[2]] # {}
    \/ k[1] = "nodes" /\ nodes # {}
    \/ k[1] = "edges" /\ edges # {}

DeleteBegin(w) ==
    /\ Begin(w)
    /\ Cardinality({v \in Workers : At(v, "delete")}) < MaxDeletes
    /\ Goto(w, [Idle EXCEPT !.step = "delete", !.left = {k \in Keys : Present(k)}])
    /\ UNCHANGED <<nodeKeys, edgeKeys, relabelled>>

\* Function f without the value of key k, if k is a key of this kind.
Without(f, kind, k, nothing) ==
    [x \in DOMAIN f |-> IF k = <<kind, x>> THEN nothing ELSE f[x]]

DeleteKey(w, k) ==
    /\ At(w, "delete")
    /\ Present(k)
    /\ node' = Without(node, "node", k, Absent)
    /\ out' = Without(out, "out", k, {})
    /\ in' = Without(in, "in", k, {})
    /\ edge' = Without(edge, "edge", k, NoEnds)
    /\ ntype' = Without(ntype, "ntype", k, {})
    /\ nodes' = IF k[1] = "nodes" THEN {} ELSE nodes
    /\ edges' = IF k[1] = "edges" THEN {} ELSE edges
    /\ Goto(w, [call[w] EXCEPT !.left = @ \ {k}])
    /\ UNCHANGED <<relabelled, calls>>

\* A key another worker deleted need not be returned.
DeleteMiss(w, k) ==
    /\ At(w, "delete")
    /\ k \in call[w].left
    /\ ~Present(k)
    /\ Goto(w, [call[w] EXCEPT !.left = @ \ {k}])
    /\ UNCHANGED <<nodeKeys, edgeKeys, relabelled, calls>>

DeleteEnd(w) ==
    /\ At(w, "delete")
    /\ call[w].left = {}
    /\ Return(w)
    /\ UNCHANGED <<nodeKeys, edgeKeys, relabelled, calls>>

----------------------------------------------------------------------------
Step(w) ==
    \/ \E n \in Nodes :
        \/ \E l \in Labels : AddNode(w, n, l)
        \/ UpdateRead(w, n)
        \/ RemoveRead(w, n)
        \/ \E e \in Edges, t \in Nodes : ConnectSource(w, e, n, t)
    \/ UpdateWrite(w)
    \/ ConnectTarget(w)
    \/ AddEdge(w)
    \/ RemoveListOut(w)
    \/ \E e \in Edges : RemoveEdge(w, e)
    \/ RemoveListIn(w)
    \/ RemoveFinish(w)
    \/ DeleteBegin(w)
    \/ \E k \in Keys : DeleteKey(w, k) \/ DeleteMiss(w, k)
    \/ DeleteEnd(w)

Next == \E w \in Workers : Step(w)

Spec == Init /\ [][Next]_vars

----------------------------------------------------------------------------
(* Properties                                                              *)

\* A node no removal of which overlapped another call about it.
Calm(n) == n \notin raced /\ ~Deleting

\* The three places that say which nodes there are agree: a complete hash,
\* the set nodes, and ntype of its label.  No hash consists of properties
\* only.  A label the node had before it was added again may keep it.
NodesIndexed ==
    \A n \in Nodes : Calm(n) =>
        /\ n \in nodes <=> node[n] # Absent
        /\ node[n] # Bare
        /\ \A l \in Labels :
            /\ node[n] = l => n \in ntype[l]
            /\ n \in ntype[l] => node[n] = l \/ n \in relabelled

\* An edge hangs on its endpoints: they exist and list it, so traversals
\* find every edge an export contains.
EdgesAttached ==
    \A e \in Edges : edge[e] # NoEnds =>
        /\ Calm(edge[e][1]) => /\ node[edge[e][1]] # Absent
                               /\ e \in out[edge[e][1]] /\ e \in edges
        /\ Calm(edge[e][2]) => /\ node[edge[e][2]] # Absent
                               /\ e \in in[edge[e][2]] /\ e \in edges

\* What a node lists are edges that exist and lead where it says: no
\* traversal counts an edge that was removed with its other end.
ListsSound ==
    \A n \in Nodes : Calm(n) =>
        /\ \A e \in out[n] : edge[e] # NoEnds /\ edge[e][1] = n
        /\ \A e \in in[n] : edge[e] # NoEnds /\ edge[e][2] = n

\* To its readers the keys are a graph whose edges join nodes that exist.
Graph == INSTANCE PropertyGraph WITH
    label <- [n \in Nodes |-> IF n \in nodes /\ node[n] \in Labels
                              THEN node[n] ELSE Absent],
    ends <- [e \in Edges |-> IF e \in edges THEN edge[e] ELSE NoEnds],
    raced <- raced,
    clearing <- Deleting

ImplementsGraph == Graph!PGSpec
=============================================================================
