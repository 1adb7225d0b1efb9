\* Inserts, moves and copies by two connections.
CONSTANTS
    r1 = r1
    r2 = r2
    a1 = a1
    a2 = a2
    e1 = e1
    Rooms = {r1, r2}
    Actors = {a1, a2}
    Euids = {}
    NoEuid = NoEuid
    Ops = {"insert", "move", "copy"}
    Policy <- MCPolicy
    Keep = 1
    MaxSeq = 3
SPECIFICATION Spec
SYMMETRY MCSymmetry
INVARIANTS SharedNumberSpace
 
