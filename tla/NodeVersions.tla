---------------------------- MODULE NodeVersions ----------------------------
(***************************************************************************)
(* Versioned nodes: update_node, _propagate_stale, confirm_current and     *)
(* remove_node of AIContextDB (src/contextsynapse/core/                    *)
(* hybrid_graph_storage.py).                                               *)
(*                                                                         *)
(* The threads of one process share its AIContextDB, whose node_properties *)
(* hold the properties of the nodes that were written through it; the      *)
(* storage behind says which nodes exist.  With the storage in memory (CSR)*)
(* there is one process; with the storage in Redis several processes       *)
(* share it, each with node_properties of its own, and get_node still      *)
(* takes the properties from there.                                        *)
(*                                                                         *)
(* _write_lock is held by add_node and remove_node, each one step here. No *)
(* lock spans the read and the write of update_node.  An update merges     *)
(* some property of its own into the node; ids of nodes (uuid4) are not    *)
(* used again.  get_node is one step: that a removal may fall between its  *)
(* look at the storage and the one at node_properties is left out, as are  *)
(* the metadata of a write, the counters of the ContextMeta node, property *)
(* indexes.                                                                *)
(***************************************************************************)
EXTENDS Naturals

CONSTANTS
    Processes,  \* processes that have the graph open
    Threads,    \* threads of each of them
    Nodes,      \* node ids
    Links,      \* <<source, target>>: edges between them
    Creator,    \* the process the nodes were created by
    Gone,       \* no such node, or no properties known of it
    MaxCalls    \* bound: calls made in total

ASSUME LinksAssumption == Links \subseteq Nodes \X Nodes
ASSUME CreatorAssumption == Creator \in Processes
ASSUME NodesAssumption == Nodes # {}
ASSUME BoundAssumption == MaxCalls \in Nat

Workers == Processes \X Threads
Process(w) == w[1]

VARIABLES
    stored,     \* the nodes in the storage, with their properties
    local,      \* node_properties of each process
    links,      \* edges in the storage
    recorded,   \* updates whose outcome is in the temporal storage
    call,       \* the call each worker has in flight
    raced,      \* history: nodes written between a call's read and its write
    mismatched, \* history: nodes whose expected version was not the stored one
    owed,       \* history: nodes to be flagged, for an upstream node that
                \* is still there, and not confirmed since
    calls       \* calls made

graph == <<stored, local, links>>
vars == <<graph, recorded, call, raced, mismatched, owed, calls>>

Updates == 1..MaxCalls
Versions == 1..(MaxCalls + 1)
NoVersion == 0

\* The properties of a node: "version", "_stale" and what updates merged.
Properties == [merged : SUBSET Updates, version : Versions, stale : BOOLEAN]

ASSUME GoneAssumption == Gone \notin Properties

\* What get_node returns for a node without known properties: "version" is
\* then taken to be 1.
Blank == [merged |-> {}, version |-> 1, stale |-> FALSE]

\* The local variables of a call:
\*   node      the node it is about
\*   id        the call's number
\*   expected  update_node: expected_version, or none
\*   seen      the properties it read last
\*   todo      _propagate_stale: the neighbours its loop has not handled yet
\*   next      _propagate_stale: the neighbour it has read
\*   late      a node it read was written since
Idle(n) == [step |-> "idle", node |-> n, id |-> 0, expected |-> NoVersion,
            seen |-> Blank, todo |-> {}, next |-> n, late |-> FALSE]

Steps == {"idle", "update_write", "update_record", "stale_list", "stale_read",
          "stale_write", "confirm_write"}

Calls == [step : Steps, node : Nodes, id : 0..MaxCalls,
          expected : Versions \cup {NoVersion}, seen : Properties,
          todo : SUBSET Nodes, next : Nodes, late : BOOLEAN]

TypeOK ==
    /\ stored \in [Nodes -> Properties \cup {Gone}]
    /\ local \in [Processes -> [Nodes -> Properties \cup {Gone}]]
    /\ links \in SUBSET Links
    /\ recorded \in [Nodes -> SUBSET Updates]
    /\ call \in [Workers -> Calls]
    /\ raced \in SUBSET Nodes
    /\ mismatched \in SUBSET Nodes
    /\ owed \in SUBSET Nodes
    /\ calls \in 0..MaxCalls

Init ==
    /\ stored = [n \in Nodes |-> Blank]
    /\ local = [p \in Processes |->
                    [n \in Nodes |-> IF p = Creator THEN Blank ELSE Gone]]
    /\ links = Links
    /\ recorded = [n \in Nodes |-> {}]
    /\ call \in [Workers -> {Idle(CHOOSE n \in Nodes : TRUE)}]
    /\ raced = {}
    /\ mismatched = {}
    /\ owed = {}
    /\ calls = 0

----------------------------------------------------------------------------
At(w, step) == call[w].step = step

\* get_node: the storage says whether there is such a node, the process's
\* own node_properties what its properties are.
Exists(n) == stored[n] # Gone
Read(w, n) == IF local[Process(w)][n] = Gone THEN Blank ELSE local[Process(w)][n]

Begin(w, c) ==
    /\ At(w, "idle")
    /\ calls < MaxCalls
    /\ calls' = calls + 1
    /\ call' = [call EXCEPT ![w] = c]

Goto(w, c) == call' = [call EXCEPT ![w] = c]
Return(w) == Goto(w, Idle(call[w].node))

\* The node call c has read and is about to write.
Writes(c, n) == \/ c.step \in {"update_write", "confirm_write"} /\ c.node = n
                \/ c.step = "stale_write" /\ c.next = n

\* Call of w goes on to c after a write to n; calls of others that read n
\* before are late.
Wrote(w, n, c) ==
    call' = [v \in Workers |->
               IF v = w THEN c
               ELSE IF Writes(call[v], n) THEN [call[v] EXCEPT !.late = TRUE]
               ELSE call[v]]

\* add_node, write through: properties and storage are replaced.  Nothing
\* looks whether the node is still there.
AddNode(w, n, props) ==
    /\ local' = [local EXCEPT ![Process(w)][n] = props]
    /\ stored' = [stored EXCEPT ![n] = props]
    /\ raced' = IF call[w].late THEN raced \cup {n} ELSE raced
    /\ UNCHANGED links

----------------------------------------------------------------------------
(* update_node                                                             *)

\* A wrong variant: the expected version is not looked at.
UpdateReadBlind(w, n, expected) ==
    /\ Exists(n)
    /\ Begin(w, [Idle(n) EXCEPT !.step = "update_write", !.id = calls + 1,
                                !.expected = expected, !.seen = Read(w, n)])
    /\ UNCHANGED <<graph, recorded, raced, mismatched, owed>>

\* get_node, the check of expected_version, and the snapshot of what was
\* read.  On a mismatch VersionConflictError is raised and nothing happens.
UpdateRead(w, n, expected) ==
    /\ Exists(n)
    /\ expected \in {NoVersion, Read(w, n).version}
    /\ Begin(w, [Idle(n) EXCEPT !.step = "update_write", !.id = calls + 1,
                                !.expected = expected, !.seen = Read(w, n)])
    /\ recorded' = [recorded EXCEPT ![n] = @ \cup Read(w, n).merged]
    /\ UNCHANGED <<graph, raced, mismatched, owed>>

Downstream(n) == {m \in Nodes : <<n, m>> \in links}

\* A wrong variant: the properties are replaced, the flag with them.
UpdateWriteUnmerged(w) ==
    /\ At(w, "update_write")
    /\ LET c == call[w]
           props == [merged |-> c.seen.merged \cup {c.id},
                     version |-> c.seen.version + 1, stale |-> FALSE] IN
        /\ AddNode(w, c.node, props)
        /\ mismatched' = IF c.expected # NoVersion /\ stored[c.node] # Gone
                                /\ stored[c.node].version # c.expected
                         THEN mismatched \cup {c.node} ELSE mismatched
        /\ owed' = owed \cup Downstream(c.node)
        /\ Wrote(w, c.node, [c EXCEPT !.step = "update_record", !.seen = props])
    /\ UNCHANGED <<recorded, calls>>

UpdateWrite(w) ==
    /\ At(w, "update_write")
    /\ LET c == call[w]
           props == [c.seen EXCEPT !.merged = @ \cup {c.id},
                                   !.version = @ + 1] IN
        /\ AddNode(w, c.node, props)
        /\ mismatched' = IF c.expected # NoVersion /\ stored[c.node] # Gone
                                /\ stored[c.node].version # c.expected
                         THEN mismatched \cup {c.node} ELSE mismatched
        /\ owed' = owed \cup Downstream(c.node)
        /\ Wrote(w, c.node, [c EXCEPT !.step = "update_record", !.seen = props])
    /\ UNCHANGED <<recorded, calls>>

\* A wrong variant: only what an update replaces is recorded.
UpdateRecordNothing(w) ==
    /\ At(w, "update_record")
    /\ Goto(w, [call[w] EXCEPT !.step = "stale_list"])
    /\ UNCHANGED <<graph, recorded, raced, mismatched, owed, calls>>

UpdateRecord(w) ==
    /\ At(w, "update_record")
    /\ LET c == call[w] IN
        recorded' = [recorded EXCEPT ![c.node] = @ \cup c.seen.merged]
    /\ Goto(w, [call[w] EXCEPT !.step = "stale_list"])
    /\ UNCHANGED <<graph, raced, mismatched, owed, calls>>

----------------------------------------------------------------------------
(* _propagate_stale                                                        *)

StaleList(w) ==
    /\ At(w, "stale_list")
    /\ LET c == call[w] IN
        Goto(w, [c EXCEPT !.step = "stale_read",
                          !.todo = IF Exists(c.node) THEN Downstream(c.node)
                                   ELSE {}])
    /\ UNCHANGED <<graph, recorded, raced, mismatched, owed, calls>>

\* A wrong variant: the process's properties are taken as they are.
StaleReadUnasked(w, m) ==
    /\ At(w, "stale_read")
    /\ m \in call[w].todo
    /\ Goto(w, [call[w] EXCEPT !.todo = @ \ {m}, !.step = "stale_write", !.next = m,
                               !.seen = local[Process(w)][m], !.late = FALSE])
    /\ UNCHANGED <<graph, recorded, raced, mismatched, owed, calls>>

\* A wrong variant: a neighbour is looked up by its edge only.
StaleReadBlind(w, m) ==
    /\ At(w, "stale_read")
    /\ m \in call[w].todo
    /\ Goto(w, [call[w] EXCEPT !.todo = @ \ {m}, !.step = "stale_write",
                               !.next = m, !.seen = Read(w, m), !.late = FALSE])
    /\ UNCHANGED <<graph, recorded, raced, mismatched, owed, calls>>

StaleRead(w, m) ==
    /\ At(w, "stale_read")
    /\ m \in call[w].todo
    /\ LET c == [call[w] EXCEPT !.todo = @ \ {m}] IN
        Goto(w, IF Exists(m)
                THEN [c EXCEPT !.step = "stale_write", !.next = m,
                               !.seen = Read(w, m), !.late = FALSE]
                ELSE c)
    /\ UNCHANGED <<graph, recorded, raced, mismatched, owed, calls>>

\* A wrong variant: the flag is written over the properties.
StaleWriteUnmerged(w) ==
    /\ At(w, "stale_write")
    /\ LET c == call[w] IN
        /\ AddNode(w, c.next, [Blank EXCEPT !.version = c.seen.version,
                                            !.stale = TRUE])
        /\ Wrote(w, c.next, [c EXCEPT !.step = "stale_read"])
    /\ UNCHANGED <<recorded, mismatched, owed, calls>>

StaleWrite(w) ==
    /\ At(w, "stale_write")
    /\ LET c == call[w] IN
        /\ AddNode(w, c.next, [c.seen EXCEPT !.stale = TRUE])
        /\ Wrote(w, c.next, [c EXCEPT !.step = "stale_read"])
    /\ UNCHANGED <<recorded, mismatched, owed, calls>>

UpdateReturn(w) ==
    /\ At(w, "stale_read")
    /\ call[w].todo = {}
    /\ Return(w)
    /\ UNCHANGED <<graph, recorded, raced, mismatched, owed, calls>>

----------------------------------------------------------------------------
(* confirm_current, remove_node                                            *)

ConfirmRead(w, n) ==
    /\ Exists(n)
    /\ Begin(w, [Idle(n) EXCEPT !.step = "confirm_write", !.seen = Read(w, n)])
    /\ UNCHANGED <<graph, recorded, raced, mismatched, owed>>

ConfirmWrite(w) ==
    /\ At(w, "confirm_write")
    /\ LET c == call[w] IN
        /\ AddNode(w, c.node, [c.seen EXCEPT !.stale = FALSE])
        /\ owed' = owed \ {c.node}
        /\ Wrote(w, c.node, Idle(c.node))
    /\ UNCHANGED <<recorded, mismatched, calls>>

\* The properties other processes know stay with them.
RemoveNode(w, n) ==
    /\ At(w, "idle")
    /\ calls < MaxCalls
    /\ calls' = calls + 1
    /\ Exists(n)
    /\ stored' = [stored EXCEPT ![n] = Gone]
    /\ local' = [local EXCEPT ![Process(w)][n] = Gone]
    /\ links' = {l \in links : l[1] # n /\ l[2] # n}
    /\ owed' = owed \ Downstream(n)
    /\ Wrote(w, n, call[w])
    /\ UNCHANGED <<recorded, raced, mismatched>>

----------------------------------------------------------------------------
Step(w) ==
    \/ \E n \in Nodes :
        \/ \E expected \in Versions \cup {NoVersion} : UpdateRead(w, n, expected)
        \/ StaleRead(w, n)
        \/ ConfirmRead(w, n)
        \/ RemoveNode(w, n)
    \/ UpdateWrite(w)
    \/ UpdateRecord(w)
    \/ StaleList(w)
    \/ StaleWrite(w)
    \/ UpdateReturn(w)
    \/ ConfirmWrite(w)

Next == \E w \in Workers : Step(w)

Spec == Init /\ [][Next]_vars

----------------------------------------------------------------------------
(* Properties                                                              *)

\* An update with an expected version replaces that version of the node,
\* unless the node was written while the update was under way.
VersionChecked == mismatched \subseteq raced

\* An update that has been recorded is part of the node unless a write of
\* the node overlapped another: neither a later update nor the flag of an
\* upstream change undoes it.
UpdatesKept ==
    \A n \in Nodes \ raced : Exists(n) =>
        /\ recorded[n] \subseteq stored[n].merged
        /\ \A w \in Workers :
            At(w, "stale_list") /\ call[w].node = n => call[w].id \in stored[n].merged

\* Whatever the races, no update that is complete is lost for good: what
\* it merged is in the history even when it is no longer in the node.
UpdatesRecorded ==
    \A w \in Workers :
        call[w].step \in {"stale_list", "stale_read", "stale_write"} =>
            call[w].id \in recorded[call[w].node]

\* After an update the nodes downstream are flagged until somebody confirms
\* them, unless writes of such a node overlapped.
DownstreamFlagged ==
    \A m \in owed \ raced :
        \/ ~Exists(m) \/ stored[m].stale
        \/ \E w \in Workers :
            /\ <<call[w].node, m>> \in links
            /\ \/ call[w].step \in {"update_record", "stale_list"}
               \/ At(w, "stale_read") /\ m \in call[w].todo
               \/ At(w, "stale_write") /\ m \in call[w].todo \cup {call[w].next}

\* A removed node comes back only by a call that had read it before.
RemovedStays ==
    [][\A n \in Nodes : stored[n] = Gone /\ stored'[n] # Gone => n \in raced']_vars
=============================================================================
