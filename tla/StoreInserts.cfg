\* Concurrent inserts, upserts and crashes.
CONSTANTS
    r1 = r1
    r2 = r2
    a1 = a1
    a2 = a2
    e1 = e1
    Rooms = {r1, r2}
    Actors = {a1, a2}
    Euids = {e1}
    NoEuid = NoEuid
    Ops = {"insert", "upsert", "crash"}
    Policy <- MCPolicy
    Keep = 1
    MaxSeq = 4
SPECIFICATION Spec
SYMMETRY MCSymmetry
 
PROPERTIES SavedObjectSurvives
