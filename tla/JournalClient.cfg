SPECIFICATION Spec
CONSTANTS
    Users = {u1, u2}
    Passphrases = {p1, p2}
    Saves = {s1}
    None = None
    MaxRequests = 3
    MaxAbandoned = 2
SYMMETRY Symmetry
INVARIANTS
    EntriesOpenWithWhatWasShown
    ForeignEntriesStayClosed
