SPECIFICATION Spec
CONSTANTS
    Edits = {"e1", "e2", "e3", "e4"}
    Writes = {}
    Reads = {}
    Names = {"a.txt"}
    Target <- MCTarget
    Old <- MCOwnOld
    New <- MCOwnNew
    Written <- MCWritten
    InitialText <- MCOwnText
    Absent = Absent
    Inodes = {1, 2, 3}
    NoInode = NoInode
    Locks = {"l1", "l2", "l3", "l4"}
    NoLock = NoLock
    NoCall = NoCall
    InitialEntries <- MCEntries
    Cancellable = {}
    Candidates <- MCLowest
    Faulty = {}
    Reuse = TRUE
INVARIANT
    EditsReplaceWhatTheyRead
