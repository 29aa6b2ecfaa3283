--------------------------- MODULE PropertyGraph ---------------------------
(***************************************************************************)
(* What RedisGraphStorage promises its readers: labelled nodes, and edges  *)
(* between nodes that exist.  A node goes only when no edge is attached to *)
(* it.  Where a removal overlapped another call about the node (raced),    *)
(* edges may be left over; while a graph is deleted (clearing) everything  *)
(* may vanish in any order.                                                *)
(***************************************************************************)
CONSTANTS Nodes, Edges, Labels, Absent, NoEnds

VARIABLES
    label,      \* label of each node that is in the graph, Absent otherwise
    ends,       \* <<source, target>> of each edge in the graph
    raced,      \* nodes with overlapping calls
    clearing    \* the graph is being deleted

pgvars == <<label, ends, raced, clearing>>

Attached(n) ==
    {e \in Edges : ends[e] # NoEnds /\ (ends[e][1] = n \/ ends[e][2] = n)}

PGInit ==
    /\ label \in [Nodes -> Labels \cup {Absent}]
    /\ ends \in [Edges -> (Nodes \X Nodes) \cup {NoEnds}]
    /\ \A n \in Nodes : label[n] = Absent => Attached(n) = {}
    /\ raced = {}
    /\ clearing = FALSE

PutNode ==
    /\ \E n \in Nodes, l \in Labels : label' = [label EXCEPT ![n] = l]
    /\ UNCHANGED ends

\* Both ends of a new edge are in the graph.
Connect ==
    /\ \E e \in Edges, s, t \in Nodes :
        /\ ends[e] = NoEnds
        /\ \A n \in {s, t} : label[n] # Absent \/ n \in raced
        /\ ends' = [ends EXCEPT ![e] = <<s, t>>]
    /\ UNCHANGED label

Disconnect ==
    /\ \E e \in Edges : ends' = [ends EXCEPT ![e] = NoEnds]
    /\ UNCHANGED label

\* A node is removed after its edges.
DropNode ==
    /\ \E n \in Nodes :
        /\ Attached(n) = {} \/ n \in raced
        /\ label' = [label EXCEPT ![n] = Absent]
    /\ UNCHANGED ends

Clear ==
    /\ clearing
    /\ \A n \in Nodes : label'[n] \in {label[n], Absent}
    /\ \A e \in Edges : ends'[e] \in {ends[e], NoEnds}

PGNext == PutNode \/ Connect \/ Disconnect \/ DropNode \/ Clear
            \/ UNCHANGED <<label, ends>>

PGSpec == PGInit /\ [][PGNext /\ raced \subseteq raced']_pgvars
=============================================================================
