SPECIFICATION IndexSpec
CONSTANTS
    r1 = r1
    a = a
    Nil = Nil
    Readers = {r1}
    Sources = {a}
    Written <- BothKinds
    Unparsable = {}
    MaxWrites = 3
INVARIANTS
    EntriesHonest
