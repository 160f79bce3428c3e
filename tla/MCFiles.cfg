SPECIFICATION Spec
CONSTANTS
    Edits = {"e1", "e2", "e3"}
    Writes = {"w1"}
    Reads = {"r1"}
    Names = {"a.txt", "new.txt"}
    Target <- MCTarget
    Old <- MCOld
    New <- MCNew
    Written <- MCWritten
    InitialText <- MCText
    Absent = Absent
    Inodes = {1, 2, 3, 4}
    NoInode = NoInode
    Locks = {"l1", "l2", "l3"}
    NoLock = NoLock
    NoCall = NoCall
    InitialEntries <- MCEntries
    Cancellable = {"w1", "r1"}
    Candidates <- MCLowest
    Faulty = {"e2"}
    Reuse = FALSE
INVARIANTS
    MutationsReportedTruly
    RegistryHoldsLiveLocks
PROPERTIES
    EditsAreAtomic
