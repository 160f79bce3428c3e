------------------------------- MODULE Files --------------------------------
(***************************************************************************)
(* The file tools (crates/tools/src/files.rs): read_file, write_file and   *)
(* edit_file calls that run on blocking threads, one directory of names    *)
(* and inodes, the registry of edit locks keyed by inode, and the future   *)
(* that waits for each blocking call.                                      *)
(*                                                                         *)
(* A step is what one thread does between two points where another one     *)
(* can interfere: a system call, or a critical section of the registry.    *)
(* An inode's text never changes: every change is a rename over a name.    *)
(***************************************************************************)
EXTENDS FiniteSets, Naturals

CONSTANTS Edits, Writes, Reads, Names, Target, Old, New, Written,
          InitialText, Absent,
          Inodes, NoInode,
          Locks, NoLock, NoCall,
          InitialEntries,  \* the directories a run may start with
          Cancellable,     \* the calls whose node may be cancelled or time out
          Candidates(_),   \* which of the free inodes the file system may choose
          Faulty,          \* the mutations that may meet an I/O error
          Reuse            \* may a freed inode number that a call still
                           \* remembers be given to a new file?

Calls == Edits \cup Writes \cup Reads
Mutating == Edits \cup Writes

ASSUME FilesAssumption ==
    /\ Edits \cap Writes = {} /\ Edits \cap Reads = {} /\ Writes \cap Reads = {}
    /\ NoCall \notin Calls /\ NoInode \notin Inodes /\ NoLock \notin Locks
    /\ Target \in [Calls -> Names]
    /\ InitialEntries \subseteq [Names -> Inodes \cup {NoInode}]
    /\ Reuse \in BOOLEAN /\ Faulty \subseteq Mutating
    /\ \A S \in SUBSET Inodes : Candidates(S) \subseteq S

(* Edits are serialised against edits only: write_file takes no lock. The  *)
(* properties are about names that are edited or written, never both.      *)
ASSUME SeparateTargets ==
    \A e \in Edits, w \in Writes : Target[e] # Target[w]

(* `Arc::new` makes a lock that nobody refers to.                          *)
ASSUME FreshLocks ==
    \A held \in [Edits -> Locks \cup {NoLock}] :
        (\E c \in Edits : held[c] = NoLock) => \E l \in Locks : \A d \in Edits : held[d] # l

(* Whatever is written into a file, it is not a missing file.              *)
Pieces == InitialText \cup {New[c] : c \in Edits} \cup UNION {Written[w] : w \in Writes}
ASSUME AbsentIsNoText == \A S \in SUBSET Pieces : S # Absent

VARIABLES
    entry,      \* directory: name -> inode
    content,    \* inode -> text
    registry,   \* LockRegistry: identity -> lock, only live ones are looked up
    mutex,      \* who is inside the registry's mutex across several steps
    lease,      \* FileLock.lock of a call: its strong reference
    holder,     \* lock -> the call that holds it
    pc,         \* where the blocking thread of a call is
    ident,      \* the identity an edit read last
    text,       \* the text an edit read
    tmp,        \* the temporary file of atomic_write
    result,     \* what the blocking work returns
    cancelled,  \* the node's token is cancelled or its deadline passed
    told        \* what the tool call returned to core

dir == <<entry, content>>
locking == <<registry, mutex, lease, holder>>
waiting == <<cancelled, told>>
vars == <<entry, content, registry, mutex, lease, holder, pc, ident, text,
          tmp, result, cancelled, told>>

Init ==
    /\ entry \in InitialEntries
    /\ content = [i \in Inodes |-> InitialText]
    /\ registry = [i \in {} |-> NoLock]
    /\ mutex = NoCall
    /\ lease = [c \in Edits |-> NoLock]
    /\ holder = [l \in Locks |-> NoCall]
    /\ pc = [c \in Calls |-> "queued"]
    /\ ident = [c \in Edits |-> NoInode]
    /\ text = [c \in Edits |-> InitialText]
    /\ tmp = [c \in Mutating |-> NoInode]
    /\ result = [c \in Calls |-> "none"]
    /\ cancelled = [c \in Calls |-> FALSE]
    /\ told = [c \in Calls |-> "none"]

Goto(c, from, to) == pc[c] = from /\ pc' = [pc EXCEPT ![c] = to]
Returns(c, what) == result' = [result EXCEPT ![c] = what]
Entry(c) == entry[Target[c]]
Referenced == {lease[d] : d \in Edits} \ {NoLock}
Live == {i \in DOMAIN registry : registry[i] \in Referenced}
Restrict(f, S) == [x \in S |-> f[x]]

----------------------------------------------------------------------------
(* blocking_work: the future and the closure it hands to the pool.         *)

\* Cancellation or the deadline, at any time before the call returned.
Cancel(c) ==
    /\ c \in Cancellable /\ ~cancelled[c] /\ told[c] = "none"
    /\ cancelled' = [cancelled EXCEPT ![c] = TRUE]
    /\ UNCHANGED <<dir, locking, pc, ident, text, tmp, result, told>>

FirstStep(c) == IF c \in Edits THEN "identify"
                ELSE IF c \in Writes THEN "create" ELSE "load"

\* The closure runs, however long it was queued. The token and the deadline
\* are looked at before it is spawned and here, with the same answer.
Begin(c) ==
    /\ IF cancelled[c]
       THEN /\ Goto(c, "queued", "end")
            /\ Returns(c, "cancelled")
       ELSE Goto(c, "queued", FirstStep(c)) /\ UNCHANGED result
    /\ UNCHANGED <<dir, locking, ident, text, tmp, waiting>>

\* A mutation is awaited whatever happens; a read races with cancellation.
Report(c) ==
    /\ told[c] = "none" /\ pc[c] = "end"
    /\ c \in Reads => ~cancelled[c]
    /\ told' = [told EXCEPT ![c] = result[c]]
    /\ UNCHANGED <<dir, locking, pc, ident, text, tmp, result, cancelled>>

\* Faulty variant: a cancelled mutation is not waited for either.
StopWaitingForAny(c) ==
    /\ told[c] = "none" /\ cancelled[c]
    /\ told' = [told EXCEPT ![c] = "cancelled"]
    /\ UNCHANGED <<dir, locking, pc, ident, text, tmp, result, cancelled>>

\* A cancelled read is not waited for; its thread goes on.
StopWaiting(c) ==
    /\ c \in Reads /\ told[c] = "none" /\ cancelled[c]
    /\ told' = [told EXCEPT ![c] = "cancelled"]
    /\ UNCHANGED <<dir, locking, pc, ident, text, tmp, result, cancelled>>

----------------------------------------------------------------------------
(* ReadFile::read                                                          *)

Load(c) ==
    /\ Goto(c, "load", "end")
    /\ Returns(c, IF Entry(c) = NoInode THEN "nomatch" ELSE "ok")
    /\ UNCHANGED <<dir, locking, ident, text, tmp, waiting>>

----------------------------------------------------------------------------
(* atomic_write, used by WriteFile::call and by EditFile::edit             *)

Free(i) == /\ \A n \in Names : entry[n] # i
           /\ \A c \in Mutating : tmp[c] # i
           /\ Reuse \/ \A c \in Edits : ident[c] # i

NewText(c) == IF c \in Edits THEN (text[c] \ {Old[c]}) \cup {New[c]}
              ELSE Written[c]

\* Faulty variant: the registry is open while the file is replaced.
CreateUnguarded(c) ==
    /\ c \in Mutating
    /\ Goto(c, "create", "rename")
    /\ \E i \in Candidates({j \in Inodes : Free(j)}) :
         /\ tmp' = [tmp EXCEPT ![c] = i]
         /\ content' = [content EXCEPT ![i] = NewText(c)]
    /\ UNCHANGED <<entry, locking, ident, text, result, waiting>>

\* An edit takes the registry's mutex over the replacement and its publication.
Create(c) ==
    /\ c \in Mutating
    /\ Goto(c, "create", "rename")
    /\ IF c \in Edits THEN mutex = NoCall /\ mutex' = c ELSE UNCHANGED mutex
    /\ \E i \in Candidates({j \in Inodes : Free(j)}) :
         /\ tmp' = [tmp EXCEPT ![c] = i]
         /\ content' = [content EXCEPT ![i] = NewText(c)]
    /\ UNCHANGED <<entry, registry, lease, holder, ident, text, result, waiting>>

\* An I/O error before the rename: Cleanup unlinks the temporary file and
\* the registry guard of an edit is dropped.
CreateFails(c) ==
    /\ c \in Faulty
    /\ pc[c] \in {"create", "rename"}
    /\ c \in Edits => mutex \in {c, NoCall}
    /\ pc' = [pc EXCEPT ![c] = IF c \in Edits THEN "unlock" ELSE "end"]
    /\ tmp' = [tmp EXCEPT ![c] = NoInode]
    /\ mutex' = IF c \in Edits THEN NoCall ELSE mutex
    /\ Returns(c, "failed")
    /\ UNCHANGED <<dir, registry, lease, holder, ident, text, waiting>>

Rename(c) ==
    /\ c \in Mutating
    /\ Goto(c, "rename", IF c \in Edits THEN "publish" ELSE "end")
    /\ entry' = [entry EXCEPT ![Target[c]] = tmp[c]]
    /\ tmp' = [tmp EXCEPT ![c] = NoInode]
    /\ Returns(c, "ok")
    /\ UNCHANGED <<content, locking, ident, text, waiting>>

----------------------------------------------------------------------------
(* EditFile::edit                                                          *)

\* file_identity; a missing or non-regular file ends the edit.
Identify(c) ==
    /\ c \in Edits
    /\ IF Entry(c) = NoInode
       THEN Goto(c, "identify", "end") /\ Returns(c, "nomatch") /\ UNCHANGED ident
       ELSE /\ Goto(c, "identify", "acquire")
            /\ ident' = [ident EXCEPT ![c] = Entry(c)]
            /\ UNCHANGED result
    /\ UNCHANGED <<dir, locking, text, tmp, waiting>>

\* FileLock::acquire: the live lock of this identity, or a new one.
LockFor(i) == IF i \in Live THEN registry[i]
              ELSE CHOOSE l \in Locks : l \notin Referenced

Acquire(c) ==
    /\ c \in Edits /\ mutex = NoCall
    /\ Goto(c, "acquire", "lock")
    /\ LET l == LockFor(ident[c]) IN
         /\ lease' = [lease EXCEPT ![c] = l]
         /\ registry' = [i \in DOMAIN registry \cup {ident[c]} |->
                            IF i = ident[c] THEN l ELSE registry[i]]
    /\ UNCHANGED <<dir, mutex, holder, ident, text, tmp, result, waiting>>

Lock(c) ==
    /\ c \in Edits
    /\ Goto(c, "lock", "validate")
    /\ holder[lease[c]] = NoCall
    /\ holder' = [holder EXCEPT ![lease[c]] = c]
    /\ UNCHANGED <<dir, registry, mutex, lease, ident, text, tmp, result, waiting>>

\* Faulty variant: whoever has the lock edits.
EnterUnchecked(c) ==
    /\ c \in Edits
    /\ Goto(c, "validate", "read")
    /\ UNCHANGED <<dir, locking, ident, text, tmp, result, waiting>>

\* A waiter that finds another inode under the name starts again.
Validate(c) ==
    /\ c \in Edits
    /\ Goto(c, "validate", IF Entry(c) = ident[c] THEN "read" ELSE "unlock")
    /\ IF Entry(c) = NoInode THEN Returns(c, "nomatch") ELSE UNCHANGED result
    /\ UNCHANGED <<dir, locking, ident, text, tmp, waiting>>

\* read_file and the match; a text without exactly one match ends the edit.
Read(c) ==
    /\ c \in Edits
    /\ IF Entry(c) # NoInode /\ Old[c] \in content[Entry(c)]
       THEN /\ Goto(c, "read", "create")
            /\ text' = [text EXCEPT ![c] = content[Entry(c)]]
            /\ UNCHANGED result
       ELSE /\ Goto(c, "read", "unlock")
            /\ Returns(c, "nomatch") /\ UNCHANGED text
    /\ UNCHANGED <<dir, locking, ident, tmp, waiting>>

\* The new inode is published under the lock that this edit holds.
Publish(c) ==
    /\ c \in Edits
    /\ Goto(c, "publish", "unlock")
    /\ registry' = [i \in DOMAIN registry \cup {Entry(c)} |->
                       IF i = Entry(c) THEN lease[c] ELSE registry[i]]
    /\ mutex' = NoCall
    /\ UNCHANGED <<dir, lease, holder, ident, text, tmp, result, waiting>>

\* _guard is dropped before the lease.
Unlock(c) ==
    /\ c \in Edits
    /\ Goto(c, "unlock", "drop")
    /\ holder' = [holder EXCEPT ![lease[c]] = NoCall]
    /\ UNCHANGED <<dir, registry, mutex, lease, ident, text, tmp, result, waiting>>

\* Faulty variant: only the entry of the identity that was looked up is removed.
DropOne(c) ==
    /\ c \in Edits /\ mutex = NoCall
    /\ Goto(c, "drop", IF result[c] = "none" THEN "identify" ELSE "end")
    /\ lease' = [lease EXCEPT ![c] = NoLock]
    /\ registry' = IF lease[c] \in {lease[d] : d \in Edits \ {c}} THEN registry
                   ELSE Restrict(registry, DOMAIN registry \ {ident[c]})
    /\ ident' = [ident EXCEPT ![c] = NoInode]
    /\ UNCHANGED <<dir, mutex, holder, text, tmp, result, waiting>>

\* Drop for FileLock: release the reference and forget every dead identity,
\* then return the result, or loop when the identity was stale.
Drop(c) ==
    /\ c \in Edits /\ mutex = NoCall
    /\ Goto(c, "drop", IF result[c] = "none" THEN "identify" ELSE "end")
    /\ lease' = [lease EXCEPT ![c] = NoLock]
    /\ LET live == {lease[d] : d \in Edits \ {c}}
       IN registry' = Restrict(registry, {i \in DOMAIN registry : registry[i] \in live})
    /\ ident' = [ident EXCEPT ![c] = NoInode]
    /\ UNCHANGED <<dir, mutex, holder, text, tmp, result, waiting>>

----------------------------------------------------------------------------

Work(c) ==
    \/ Begin(c) \/ Load(c)
    \/ Create(c) \/ CreateFails(c) \/ Rename(c)
    \/ Identify(c) \/ Acquire(c) \/ Lock(c) \/ Validate(c) \/ Read(c)
    \/ Publish(c) \/ Unlock(c) \/ Drop(c)

\* Every call has returned; until then some thread or future can go on.
Finished == (\A c \in Calls : told[c] # "none" /\ pc[c] = "end") /\ UNCHANGED vars

Next == (\E c \in Calls : Cancel(c) \/ Work(c) \/ Report(c) \/ StopWaiting(c)) \/ Finished

Spec == Init /\ [][Next]_vars

----------------------------------------------------------------------------
Stages == {"queued", "identify", "acquire", "lock", "validate", "read", "create",
           "rename", "publish", "unlock", "drop", "load", "end"}
Results == {"none", "ok", "nomatch", "failed", "cancelled"}

(* Types of the file tools' state (files.rs: LockRegistry, FileLock, the   *)
(* closure's locals).                                                      *)
FilesTypeOK ==
    /\ entry \in [Names -> Inodes \cup {NoInode}]
    /\ DOMAIN content = Inodes
    /\ DOMAIN registry \subseteq Inodes
    /\ \A i \in DOMAIN registry : registry[i] \in Locks
    /\ mutex \in Edits \cup {NoCall}
    /\ lease \in [Edits -> Locks \cup {NoLock}]
    /\ holder \in [Locks -> Edits \cup {NoCall}]
    /\ pc \in [Calls -> Stages]
    /\ ident \in [Edits -> Inodes \cup {NoInode}]
    /\ DOMAIN text = Edits
    /\ tmp \in [Mutating -> Inodes \cup {NoInode}]
    /\ result \in [Calls -> Results]
    /\ cancelled \in [Calls -> BOOLEAN]
    /\ told \in [Calls -> Results]

(* What an edit is about to replace is what it read: nobody else's edit    *)
(* came in between and would be undone.                                    *)
EditsReplaceWhatTheyRead ==
    \A c \in Edits : pc[c] \in {"create", "rename"} =>
        Entry(c) # NoInode /\ text[c] = content[Entry(c)]

(* A mutation that started is reported by what it did: "cancelled" only if *)
(* nothing ran, whatever was cancelled while it was running.               *)
MutationsReportedTruly ==
    \A c \in Mutating : told[c] # "none" => told[c] = result[c]

(* No identity outlives its last holder or waiter in the lock registry.    *)
RegistryHoldsLiveLocks ==
    \A i \in DOMAIN registry : registry[i] \in Referenced

\* The files as the callers see them.
FileText == [n \in Names |-> IF entry[n] = NoInode THEN Absent ELSE content[entry[n]]]

Abstract == INSTANCE FileSpec WITH file <- FileText, outcome <- result

(* Concurrent edits behave as if each one happened in a single step: no    *)
(* edit is lost, none is applied to a text it did not see, and a refusal   *)
(* was right about the text at that moment.                                *)
EditsAreAtomic == Abstract!Init /\ [][Abstract!Next]_<<FileText, result>>
=============================================================================
