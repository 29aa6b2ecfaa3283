SPECIFICATION Spec
CONSTANTS
    Workers = {w1, w2}
    Nodes = {n1, n2}
    Edges = {e1}
    Labels = {L1, L2}
    Absent = Absent
    Bare = Bare
    NoEnds = NoEnds
    None = None
    MaxCalls = 3
    MaxDeletes = 1
INVARIANTS TypeOK NodesIndexed  ListsSound
 
SYMMETRY Symmetry
CHECK_DEADLOCK FALSE
