----------------------------- MODULE FilesProofs ------------------------------
(***************************************************************************)
(* Concurrent edits, for every number of calls, names, inodes and locks.   *)
(*                                                                         *)
(* The lock of an edit is found by an inode that every edit replaces, so   *)
(* the argument is about identities.  While an edit has a lease, the       *)
(* registry maps the identity it remembers to that lock; an edit that      *)
(* passed the revalidation remembers the inode under the name.  Two of     *)
(* them on one name therefore hold the same lock.  The new inode is not    *)
(* known to anybody who has a lease before it is published: nobody could   *)
(* remember it before the rename, unless the file system hands out a       *)
(* number again that somebody still remembers (Reuse), and nobody can get  *)
(* a lease for it after the rename, because the registry's mutex is held.  *)
(***************************************************************************)
EXTENDS Files, TLAPS

Leased == {"lock", "validate", "read", "create", "rename", "publish", "unlock", "drop"}
Holding == {"validate", "read", "create", "rename", "publish", "unlock"}
\* Between the revalidation and the replacement.
Entered == {"read", "create", "rename"}
\* Nothing has come of the call yet.
Pending == {"queued", "identify", "acquire", "lock", "validate", "load", "read", "create", "rename"}

-----------------------------------------------------------------------------
(* What holds whatever inode numbers the file system chooses.              *)

TextsOK == /\ content \in [Inodes -> SUBSET Pieces]
           /\ text \in [Edits -> SUBSET Pieces]

CallsOK ==
    /\ \A c \in Mutating : told[c] # "none" => pc[c] = "end" /\ told[c] = result[c]
    /\ \A c \in Calls : pc[c] \in Pending => result[c] = "none"
    /\ \A c \in Calls : pc[c] = "create" \/ pc[c] = "rename" => c \in Mutating
    /\ \A c \in Calls : pc[c] = "load" => c \in Reads
    /\ \A c \in Calls : pc[c] \in Leased \cup {"identify", "acquire"} =>
         pc[c] \in {"create", "rename"} \/ c \in Edits

LocksOK ==
    /\ \A c \in Edits : lease[c] # NoLock <=> pc[c] \in Leased
    /\ \A c \in Edits : pc[c] \in Leased \cup {"acquire"} => ident[c] # NoInode
    /\ \A c \in Edits : pc[c] \in Holding => holder[lease[c]] = c
    /\ \A c \in Edits : pc[c] \in {"rename", "publish"} => mutex = c

\* The temporary file of a mutation is nobody's file yet, with its new text in it.
TemporaryOK ==
    /\ \A c \in Mutating : pc[c] = "rename" <=> tmp[c] # NoInode
    /\ \A c \in Mutating : tmp[c] # NoInode =>
         /\ content[tmp[c]] = NewText(c)
         /\ \A n \in Names : entry[n] # tmp[c]
         /\ \A d \in Mutating : tmp[d] = tmp[c] => d = c
    /\ \A c \in Edits : pc[c] = "publish" => Entry(c) # NoInode

FilesInv ==
    /\ FilesTypeOK /\ TextsOK /\ CallsOK /\ LocksOK /\ TemporaryOK
    /\ RegistryHoldsLiveLocks

-----------------------------------------------------------------------------
(* What holds as long as no remembered inode number is used again.         *)

\* An edit's lock is found under the identity it remembers.
LockFound ==
    \A c \in Edits : lease[c] # NoLock =>
        ident[c] \in DOMAIN registry /\ registry[ident[c]] = lease[c]

\* A new inode is not known to anybody with a lease before it is published.
NewInodeUnknown ==
    /\ \A c \in Mutating, d \in Edits : tmp[c] # NoInode => ident[d] # tmp[c]
    /\ \A c \in Edits, d \in Edits :
         pc[c] = "publish" /\ lease[d] # NoLock => ident[d] # Entry(c)

\* Nobody replaces a file between another edit's revalidation and its rename.
EntriesKept == \A c \in Edits : pc[c] \in Entered => Entry(c) = ident[c]

\* The edit will replace a text it found its piece in.
TextFound ==
    \A c \in Edits : pc[c] \in {"create", "rename"} =>
        Old[c] \in text[c] /\ text[c] = content[Entry(c)]

SerialInv == FilesInv /\ LockFound /\ NewInodeUnknown /\ EntriesKept /\ TextFound

-----------------------------------------------------------------------------
(* Steps keep the invariant.                                               *)

\* What a registry with one more entry holds.
LEMMA EntryAdded ==
  ASSUME NEW f, NEW i, NEW l, NEW g,
         g = [j \in DOMAIN f \cup {i} |-> IF j = i THEN l ELSE f[j]]
  PROVE  /\ i \in DOMAIN g /\ g[i] = l
         /\ \A j \in DOMAIN f : j # i => j \in DOMAIN g /\ g[j] = f[j]
         /\ \A j \in DOMAIN g : g[j] = l \/ (j \in DOMAIN f /\ g[j] = f[j])
  OBVIOUS

\* An edit that asks for a lock gets a live one, or one that nobody refers to.
LEMMA FreeLock ==
  ASSUME FilesInv, NEW c \in Edits, pc[c] = "acquire"
  PROVE  /\ LockFor(ident[c]) \in Locks /\ LockFor(ident[c]) # NoLock
         /\ ident[c] \in Live => LockFor(ident[c]) = registry[ident[c]]
         /\ ident[c] \notin Live => LockFor(ident[c]) \notin Referenced
  <1>1. lease[c] = NoLock /\ lease \in [Edits -> Locks \cup {NoLock}]
    BY DEF FilesInv, LocksOK, Leased, FilesTypeOK
  <1>2. \E l \in Locks : \A d \in Edits : lease[d] # l
    BY <1>1, FreshLocks
  <1>3. \E l \in Locks : l \notin Referenced
    BY <1>2 DEF Referenced
  <1>4. ident[c] \in Live => registry[ident[c]] \in Locks
    BY DEF FilesInv, FilesTypeOK, Live
  <1> QED BY <1>3, <1>4, FilesAssumption DEF LockFor

\* A step that replaces no file and writes no temporary one.
LEMMA TemporaryKept ==
  ASSUME FilesInv, UNCHANGED <<entry, content, tmp>>,
         \A d \in Mutating : pc'[d] = "rename" <=> pc[d] = "rename",
         \A d \in Edits : pc'[d] = "publish" => pc[d] = "publish",
         \A d \in Edits : pc[d] = "rename" => text'[d] = text[d]
  PROVE  TemporaryOK'
  <1>1. \A d \in Mutating : pc[d] = "rename" => NewText(d)' = NewText(d)
    BY DEF NewText, Mutating
  <1>2. \A d \in Edits : Entry(d)' = Entry(d)
    BY DEF Entry
  <1> QED BY <1>1, <1>2 DEF FilesInv, TemporaryOK

LEMMA InitFilesInv == Init => FilesInv
  <1> SUFFICES ASSUME Init PROVE FilesInv
    OBVIOUS
  <1> USE FilesAssumption DEF Init, Mutating, Calls
  <1>1. FilesTypeOK
    BY DEF FilesTypeOK, Stages, Results
  <1>2. TextsOK
    BY DEF TextsOK, Pieces
  <1>3. CallsOK /\ LocksOK
    BY DEF CallsOK, LocksOK, Pending, Leased, Holding
  <1>4. TemporaryOK
    BY DEF TemporaryOK
  <1>5. RegistryHoldsLiveLocks
    BY DEF RegistryHoldsLiveLocks
  <1> QED BY <1>1, <1>2, <1>3, <1>4, <1>5 DEF FilesInv

\* A call is cancelled.
LEMMA CancelStep == ASSUME FilesInv, NEW c \in Calls, Cancel(c) PROVE FilesInv'
  <1> USE FilesAssumption DEF FilesInv, Goto, Returns, dir, locking, waiting, Mutating, Calls
  <1>1. FilesTypeOK'
    BY DEF Cancel, FilesTypeOK, Stages, Results, Entry, CallsOK, LocksOK, TemporaryOK, FirstStep
  <1>2. TextsOK'
    BY DEF Cancel, TextsOK, FilesTypeOK, Entry
  <1>3. CallsOK'
    BY DEF Cancel, CallsOK, FilesTypeOK, Pending, Leased, FirstStep
  <1>4. LocksOK'
    BY DEF Cancel, LocksOK, CallsOK, FilesTypeOK, Leased, Holding, Entry, FirstStep
  <1>5. TemporaryOK'
    <2>1. /\ UNCHANGED <<entry, content, tmp>>
          /\ \A d \in Mutating : pc'[d] = "rename" <=> pc[d] = "rename"
          /\ \A d \in Edits : pc'[d] = "publish" => pc[d] = "publish"
          /\ \A d \in Edits : pc[d] = "rename" => text'[d] = text[d]
      BY DEF Cancel, FilesTypeOK, FirstStep
    <2> QED BY <2>1, TemporaryKept
  <1>6. RegistryHoldsLiveLocks'
    BY DEF Cancel, RegistryHoldsLiveLocks, Referenced, LocksOK, FilesTypeOK, Leased
  <1> QED BY <1>1, <1>2, <1>3, <1>4, <1>5, <1>6

\* The closure runs, or is told that the call is cancelled.
LEMMA BeginStep == ASSUME FilesInv, NEW c \in Calls, Begin(c) PROVE FilesInv'
  <1> USE FilesAssumption DEF FilesInv, Goto, Returns, dir, locking, waiting, Mutating, Calls
  <1>1. FilesTypeOK'
    BY DEF Begin, FilesTypeOK, Stages, Results, Entry, CallsOK, LocksOK, TemporaryOK, FirstStep
  <1>2. TextsOK'
    BY DEF Begin, TextsOK, FilesTypeOK, Entry
  <1>3. CallsOK'
    BY DEF Begin, CallsOK, FilesTypeOK, Pending, Leased, FirstStep
  <1>4. LocksOK'
    BY DEF Begin, LocksOK, CallsOK, FilesTypeOK, Leased, Holding, Entry, FirstStep
  <1>5. TemporaryOK'
    <2>1. /\ UNCHANGED <<entry, content, tmp>>
          /\ \A d \in Mutating : pc'[d] = "rename" <=> pc[d] = "rename"
          /\ \A d \in Edits : pc'[d] = "publish" => pc[d] = "publish"
          /\ \A d \in Edits : pc[d] = "rename" => text'[d] = text[d]
      BY DEF Begin, FilesTypeOK, FirstStep
    <2> QED BY <2>1, TemporaryKept
  <1>6. RegistryHoldsLiveLocks'
    BY DEF Begin, RegistryHoldsLiveLocks, Referenced, LocksOK, FilesTypeOK, Leased
  <1> QED BY <1>1, <1>2, <1>3, <1>4, <1>5, <1>6

\* A call returns what its thread came to.
LEMMA ReportStep == ASSUME FilesInv, NEW c \in Calls, Report(c) PROVE FilesInv'
  <1> USE FilesAssumption DEF FilesInv, Goto, Returns, dir, locking, waiting, Mutating, Calls
  <1>1. FilesTypeOK'
    BY DEF Report, FilesTypeOK, Stages, Results, Entry, CallsOK, LocksOK, TemporaryOK, FirstStep
  <1>2. TextsOK'
    BY DEF Report, TextsOK, FilesTypeOK, Entry
  <1>3. CallsOK'
    BY DEF Report, CallsOK, FilesTypeOK, Pending, Leased, FirstStep
  <1>4. LocksOK'
    BY DEF Report, LocksOK, CallsOK, FilesTypeOK, Leased, Holding, Entry, FirstStep
  <1>5. TemporaryOK'
    <2>1. /\ UNCHANGED <<entry, content, tmp>>
          /\ \A d \in Mutating : pc'[d] = "rename" <=> pc[d] = "rename"
          /\ \A d \in Edits : pc'[d] = "publish" => pc[d] = "publish"
          /\ \A d \in Edits : pc[d] = "rename" => text'[d] = text[d]
      BY DEF Report, FilesTypeOK, FirstStep
    <2> QED BY <2>1, TemporaryKept
  <1>6. RegistryHoldsLiveLocks'
    BY DEF Report, RegistryHoldsLiveLocks, Referenced, LocksOK, FilesTypeOK, Leased
  <1> QED BY <1>1, <1>2, <1>3, <1>4, <1>5, <1>6

\* A read is given up.
LEMMA StopWaitingStep == ASSUME FilesInv, NEW c \in Calls, StopWaiting(c) PROVE FilesInv'
  <1> USE FilesAssumption DEF FilesInv, Goto, Returns, dir, locking, waiting, Mutating, Calls
  <1>1. FilesTypeOK'
    BY DEF StopWaiting, FilesTypeOK, Stages, Results, Entry, CallsOK, LocksOK, TemporaryOK, FirstStep
  <1>2. TextsOK'
    BY DEF StopWaiting, TextsOK, FilesTypeOK, Entry
  <1>3. CallsOK'
    BY DEF StopWaiting, CallsOK, FilesTypeOK, Pending, Leased, FirstStep
  <1>4. LocksOK'
    BY DEF StopWaiting, LocksOK, CallsOK, FilesTypeOK, Leased, Holding, Entry, FirstStep
  <1>5. TemporaryOK'
    <2>1. /\ UNCHANGED <<entry, content, tmp>>
          /\ \A d \in Mutating : pc'[d] = "rename" <=> pc[d] = "rename"
          /\ \A d \in Edits : pc'[d] = "publish" => pc[d] = "publish"
          /\ \A d \in Edits : pc[d] = "rename" => text'[d] = text[d]
      BY DEF StopWaiting, FilesTypeOK, FirstStep
    <2> QED BY <2>1, TemporaryKept
  <1>6. RegistryHoldsLiveLocks'
    BY DEF StopWaiting, RegistryHoldsLiveLocks, Referenced, LocksOK, FilesTypeOK, Leased
  <1> QED BY <1>1, <1>2, <1>3, <1>4, <1>5, <1>6

\* A file is read.
LEMMA LoadStep == ASSUME FilesInv, NEW c \in Calls, Load(c) PROVE FilesInv'
  <1> USE FilesAssumption DEF FilesInv, Goto, Returns, dir, locking, waiting, Mutating, Calls
  <1>1. FilesTypeOK'
    BY DEF Load, FilesTypeOK, Stages, Results, Entry, CallsOK, LocksOK, TemporaryOK, FirstStep
  <1>2. TextsOK'
    BY DEF Load, TextsOK, FilesTypeOK, Entry
  <1>3. CallsOK'
    BY DEF Load, CallsOK, FilesTypeOK, Pending, Leased, FirstStep
  <1>4. LocksOK'
    BY DEF Load, LocksOK, CallsOK, FilesTypeOK, Leased, Holding, Entry, FirstStep
  <1>5. TemporaryOK'
    <2>1. /\ UNCHANGED <<entry, content, tmp>>
          /\ \A d \in Mutating : pc'[d] = "rename" <=> pc[d] = "rename"
          /\ \A d \in Edits : pc'[d] = "publish" => pc[d] = "publish"
          /\ \A d \in Edits : pc[d] = "rename" => text'[d] = text[d]
      BY DEF Load, FilesTypeOK, FirstStep
    <2> QED BY <2>1, TemporaryKept
  <1>6. RegistryHoldsLiveLocks'
    BY DEF Load, RegistryHoldsLiveLocks, Referenced, LocksOK, FilesTypeOK, Leased
  <1> QED BY <1>1, <1>2, <1>3, <1>4, <1>5, <1>6

\* The temporary file of a mutation is written; an edit takes the registry's mutex.
LEMMA CreateStep == ASSUME FilesInv, NEW c \in Calls, Create(c) PROVE FilesInv'
  <1> USE FilesAssumption DEF FilesInv, Goto, Returns, dir, locking, waiting, Mutating, Calls
  <1>1. FilesTypeOK'
    BY DEF Create, FilesTypeOK, Stages, Results, Entry, CallsOK, LocksOK, TemporaryOK, FirstStep
  <1>2. TextsOK'
    <2>1. NewText(c) \in SUBSET Pieces
      BY DEF Create, TextsOK, NewText, Pieces
    <2> QED BY <2>1 DEF Create, TextsOK
  <1>3. CallsOK'
    BY DEF Create, CallsOK, FilesTypeOK, Pending, Leased, FirstStep
  <1>4. LocksOK'
    BY DEF Create, LocksOK, CallsOK, FilesTypeOK, Leased, Holding, Entry, FirstStep
  <1>5. TemporaryOK'
    <2>1. PICK i \in Inodes : Free(i) /\ tmp' = [tmp EXCEPT ![c] = i]
                            /\ content' = [content EXCEPT ![i] = NewText(c)]
      <3>1. Candidates({j \in Inodes : Free(j)}) \subseteq {j \in Inodes : Free(j)}
        OBVIOUS
      <3>2. PICK i \in Candidates({j \in Inodes : Free(j)}) :
               tmp' = [tmp EXCEPT ![c] = i] /\ content' = [content EXCEPT ![i] = NewText(c)]
        BY DEF Create
      <3> QED BY <3>1, <3>2
    <2>2. /\ pc' = [pc EXCEPT ![c] = "rename"] /\ UNCHANGED <<entry, text>>
          /\ c \in Mutating /\ pc[c] = "create"
      BY DEF Create
    <2>3. \A d \in Mutating : pc'[d] = "rename" <=> tmp'[d] # NoInode
      BY <2>1, <2>2 DEF TemporaryOK, FilesTypeOK
    <2>4. \A d \in Mutating : NewText(d)' = NewText(d)
      BY <2>2 DEF NewText
    <2>5. ASSUME NEW d \in Mutating, tmp'[d] # NoInode
          PROVE  /\ content'[tmp'[d]] = NewText(d)'
                 /\ \A n \in Names : entry'[n] # tmp'[d]
                 /\ \A e \in Mutating : tmp'[e] = tmp'[d] => e = d
      <3>1. CASE d = c
        BY <2>1, <2>2, <2>4, <3>1 DEF Free, FilesTypeOK, TextsOK
      <3>2. CASE d # c
        BY <2>1, <2>2, <2>4, <2>5, <3>2 DEF Free, FilesTypeOK, TextsOK, TemporaryOK
      <3> QED BY <3>1, <3>2
    <2>6. \A d \in Edits : pc'[d] = "publish" => Entry(d)' # NoInode
      BY <2>2 DEF TemporaryOK, FilesTypeOK, Entry
    <2> QED BY <2>3, <2>5, <2>6 DEF TemporaryOK
  <1>6. RegistryHoldsLiveLocks'
    BY DEF Create, RegistryHoldsLiveLocks, Referenced, LocksOK, FilesTypeOK, Leased
  <1> QED BY <1>1, <1>2, <1>3, <1>4, <1>5, <1>6

\* An I/O error before the rename.
LEMMA CreateFailsStep == ASSUME FilesInv, NEW c \in Calls, CreateFails(c) PROVE FilesInv'
  <1> USE FilesAssumption DEF FilesInv, Goto, Returns, dir, locking, waiting, Mutating, Calls
  <1>1. FilesTypeOK'
    BY DEF CreateFails, FilesTypeOK, Stages, Results, Entry, CallsOK, LocksOK, TemporaryOK, FirstStep
  <1>2. TextsOK'
    BY DEF CreateFails, TextsOK, FilesTypeOK, Entry
  <1>3. CallsOK'
    BY DEF CreateFails, CallsOK, FilesTypeOK, Pending, Leased, FirstStep
  <1>4. LocksOK'
    BY DEF CreateFails, LocksOK, CallsOK, FilesTypeOK, Leased, Holding, Entry, FirstStep
  <1>5. TemporaryOK'
    <2>1. /\ tmp' = [tmp EXCEPT ![c] = NoInode] /\ UNCHANGED <<entry, content, text>>
          /\ pc' = [pc EXCEPT ![c] = IF c \in Edits THEN "unlock" ELSE "end"]
          /\ c \in Mutating
      BY DEF CreateFails
    <2>2. \A d \in Mutating : NewText(d)' = NewText(d)
      BY <2>1 DEF NewText
    <2>3. \A d \in Edits : Entry(d)' = Entry(d)
      BY <2>1 DEF Entry
    <2> QED BY <2>1, <2>2, <2>3 DEF TemporaryOK, FilesTypeOK
  <1>6. RegistryHoldsLiveLocks'
    BY DEF CreateFails, RegistryHoldsLiveLocks, Referenced, LocksOK, FilesTypeOK, Leased
  <1> QED BY <1>1, <1>2, <1>3, <1>4, <1>5, <1>6

\* The file is replaced.
LEMMA RenameStep == ASSUME FilesInv, NEW c \in Calls, Rename(c) PROVE FilesInv'
  <1> USE FilesAssumption DEF FilesInv, Goto, Returns, dir, locking, waiting, Mutating, Calls
  <1>1. FilesTypeOK'
    BY DEF Rename, FilesTypeOK, Stages, Results, Entry, CallsOK, LocksOK, TemporaryOK, FirstStep
  <1>2. TextsOK'
    BY DEF Rename, TextsOK, FilesTypeOK, Entry
  <1>3. CallsOK'
    BY DEF Rename, CallsOK, FilesTypeOK, Pending, Leased, FirstStep
  <1>4. LocksOK'
    BY DEF Rename, LocksOK, CallsOK, FilesTypeOK, Leased, Holding, Entry, FirstStep
  <1>5. TemporaryOK'
    <2>1. /\ entry' = [entry EXCEPT ![Target[c]] = tmp[c]] /\ tmp' = [tmp EXCEPT ![c] = NoInode]
          /\ pc' = [pc EXCEPT ![c] = IF c \in Edits THEN "publish" ELSE "end"]
          /\ UNCHANGED <<content, text>> /\ c \in Mutating /\ pc[c] = "rename"
          /\ Target[c] \in Names
      BY DEF Rename
    <2>2. \A d \in Mutating : NewText(d)' = NewText(d)
      BY <2>1 DEF NewText
    <2>3. tmp[c] # NoInode /\ \A d \in Mutating : d # c => tmp'[d] = tmp[d] /\ tmp[d] # tmp[c]
      BY <2>1 DEF TemporaryOK, FilesTypeOK
    <2>4. \A n \in Names : entry'[n] = entry[n] \/ entry'[n] = tmp[c]
      BY <2>1 DEF FilesTypeOK
    <2>5. \A d \in Mutating : pc'[d] = "rename" <=> tmp'[d] # NoInode
      BY <2>1, <2>3 DEF TemporaryOK, FilesTypeOK
    <2>6. ASSUME NEW d \in Mutating, tmp'[d] # NoInode
          PROVE  /\ content'[tmp'[d]] = NewText(d)'
                 /\ \A n \in Names : entry'[n] # tmp'[d]
                 /\ \A e \in Mutating : tmp'[e] = tmp'[d] => e = d
      <3>1. d # c /\ tmp'[d] = tmp[d] /\ tmp'[c] = NoInode
        BY <2>1, <2>3, <2>6 DEF FilesTypeOK
      <3> QED BY <2>1, <2>2, <2>3, <2>4, <2>6, <3>1 DEF TemporaryOK
    <2>7. ASSUME NEW d \in Edits, pc'[d] = "publish"  PROVE Entry(d)' # NoInode
      <3>1. Target[d] \in Names
        OBVIOUS
      <3>2. d = c \/ pc[d] = "publish"
        BY <2>1, <2>7 DEF FilesTypeOK
      <3> QED BY <2>1, <2>3, <2>4, <3>1, <3>2 DEF TemporaryOK, FilesTypeOK, Entry
    <2> QED BY <2>5, <2>6, <2>7 DEF TemporaryOK
  <1>6. RegistryHoldsLiveLocks'
    BY DEF Rename, RegistryHoldsLiveLocks, Referenced, LocksOK, FilesTypeOK, Leased
  <1> QED BY <1>1, <1>2, <1>3, <1>4, <1>5, <1>6

\* An edit looks its file up.
LEMMA IdentifyStep == ASSUME FilesInv, NEW c \in Calls, Identify(c) PROVE FilesInv'
  <1> USE FilesAssumption DEF FilesInv, Goto, Returns, dir, locking, waiting, Mutating, Calls
  <1>1. FilesTypeOK'
    BY DEF Identify, FilesTypeOK, Stages, Results, Entry, CallsOK, LocksOK, TemporaryOK, FirstStep
  <1>2. TextsOK'
    BY DEF Identify, TextsOK, FilesTypeOK, Entry
  <1>3. CallsOK'
    BY DEF Identify, CallsOK, FilesTypeOK, Pending, Leased, FirstStep
  <1>4. LocksOK'
    BY DEF Identify, LocksOK, CallsOK, FilesTypeOK, Leased, Holding, Entry, FirstStep
  <1>5. TemporaryOK'
    <2>1. /\ UNCHANGED <<entry, content, tmp>>
          /\ \A d \in Mutating : pc'[d] = "rename" <=> pc[d] = "rename"
          /\ \A d \in Edits : pc'[d] = "publish" => pc[d] = "publish"
          /\ \A d \in Edits : pc[d] = "rename" => text'[d] = text[d]
      BY DEF Identify, FilesTypeOK, FirstStep
    <2> QED BY <2>1, TemporaryKept
  <1>6. RegistryHoldsLiveLocks'
    BY DEF Identify, RegistryHoldsLiveLocks, Referenced, LocksOK, FilesTypeOK, Leased
  <1> QED BY <1>1, <1>2, <1>3, <1>4, <1>5, <1>6

\* An edit gets the lock of its identity, or a lock that nobody refers to.
LEMMA AcquireStep == ASSUME FilesInv, NEW c \in Calls, Acquire(c) PROVE FilesInv'
  <1> USE FilesAssumption DEF FilesInv, Goto, Returns, dir, locking, waiting, Mutating, Calls
  <1>1. FilesTypeOK'
    <2>1. LockFor(ident[c]) \in Locks
      BY FreeLock DEF Acquire
    <2>2. ident[c] \in Inodes
      BY DEF Acquire, FilesTypeOK, LocksOK
    <2> QED BY <2>1, <2>2 DEF Acquire, FilesTypeOK, Stages
  <1>2. TextsOK'
    BY DEF Acquire, TextsOK, FilesTypeOK, Entry
  <1>3. CallsOK'
    BY DEF Acquire, CallsOK, FilesTypeOK, Pending, Leased, FirstStep
  <1>4. LocksOK'
    <2>1. LockFor(ident[c]) # NoLock
      BY FreeLock DEF Acquire
    <2> QED BY <2>1 DEF Acquire, LocksOK, FilesTypeOK, Leased, Holding
  <1>5. TemporaryOK'
    <2>1. /\ UNCHANGED <<entry, content, tmp>>
          /\ \A d \in Mutating : pc'[d] = "rename" <=> pc[d] = "rename"
          /\ \A d \in Edits : pc'[d] = "publish" => pc[d] = "publish"
          /\ \A d \in Edits : pc[d] = "rename" => text'[d] = text[d]
      BY DEF Acquire, FilesTypeOK, FirstStep
    <2> QED BY <2>1, TemporaryKept
  <1>6. RegistryHoldsLiveLocks'
    <2> DEFINE l == LockFor(ident[c])
    <2>1. /\ c \in Edits /\ pc[c] = "acquire" /\ lease' = [lease EXCEPT ![c] = l]
          /\ registry' = [i \in DOMAIN registry \cup {ident[c]} |->
                             IF i = ident[c] THEN l ELSE registry[i]]
      BY DEF Acquire
    <2>2. l # NoLock /\ lease[c] = NoLock
      BY <2>1, FreeLock DEF LocksOK, Leased
    <2> HIDE DEF l
    <2>3. \A i \in DOMAIN registry' :
            registry'[i] = l \/ (i \in DOMAIN registry /\ registry'[i] = registry[i])
      BY <2>1, EntryAdded
    <2>4. Referenced \subseteq Referenced' /\ l \in Referenced'
      BY <2>1, <2>2 DEF Referenced, FilesTypeOK
    <2> QED BY <2>3, <2>4 DEF RegistryHoldsLiveLocks
  <1> QED BY <1>1, <1>2, <1>3, <1>4, <1>5, <1>6

\* An edit gets the lock itself.
LEMMA LockStep == ASSUME FilesInv, NEW c \in Calls, Lock(c) PROVE FilesInv'
  <1> USE FilesAssumption DEF FilesInv, Goto, Returns, dir, locking, waiting, Mutating, Calls
  <1>1. FilesTypeOK'
    BY DEF Lock, FilesTypeOK, Stages, Results, Entry, CallsOK, LocksOK, TemporaryOK, FirstStep
  <1>2. TextsOK'
    BY DEF Lock, TextsOK, FilesTypeOK, Entry
  <1>3. CallsOK'
    BY DEF Lock, CallsOK, FilesTypeOK, Pending, Leased, FirstStep
  <1>4. LocksOK'
    BY DEF Lock, LocksOK, CallsOK, FilesTypeOK, Leased, Holding, Entry, FirstStep
  <1>5. TemporaryOK'
    <2>1. /\ UNCHANGED <<entry, content, tmp>>
          /\ \A d \in Mutating : pc'[d] = "rename" <=> pc[d] = "rename"
          /\ \A d \in Edits : pc'[d] = "publish" => pc[d] = "publish"
          /\ \A d \in Edits : pc[d] = "rename" => text'[d] = text[d]
      BY DEF Lock, FilesTypeOK, FirstStep
    <2> QED BY <2>1, TemporaryKept
  <1>6. RegistryHoldsLiveLocks'
    BY DEF Lock, RegistryHoldsLiveLocks, Referenced, LocksOK, FilesTypeOK, Leased
  <1> QED BY <1>1, <1>2, <1>3, <1>4, <1>5, <1>6

\* The revalidation.
LEMMA ValidateStep == ASSUME FilesInv, NEW c \in Calls, Validate(c) PROVE FilesInv'
  <1> USE FilesAssumption DEF FilesInv, Goto, Returns, dir, locking, waiting, Mutating, Calls
  <1>1. FilesTypeOK'
    BY DEF Validate, FilesTypeOK, Stages, Results, Entry, CallsOK, LocksOK, TemporaryOK, FirstStep
  <1>2. TextsOK'
    BY DEF Validate, TextsOK, FilesTypeOK, Entry
  <1>3. CallsOK'
    <2>1. /\ pc[c] = "validate" /\ c \in Edits /\ UNCHANGED told
          /\ pc' = [pc EXCEPT ![c] = IF Entry(c) = ident[c] THEN "read" ELSE "unlock"]
          /\ \A d \in Calls : d # c => result'[d] = result[d]
          /\ Entry(c) = ident[c] => result'[c] = result[c]
      BY DEF Validate, FilesTypeOK, LocksOK, Leased
    <2> QED BY <2>1 DEF CallsOK, FilesTypeOK, Pending, Leased
  <1>4. LocksOK'
    BY DEF Validate, LocksOK, CallsOK, FilesTypeOK, Leased, Holding, Entry, FirstStep
  <1>5. TemporaryOK'
    <2>1. /\ UNCHANGED <<entry, content, tmp>>
          /\ \A d \in Mutating : pc'[d] = "rename" <=> pc[d] = "rename"
          /\ \A d \in Edits : pc'[d] = "publish" => pc[d] = "publish"
          /\ \A d \in Edits : pc[d] = "rename" => text'[d] = text[d]
      BY DEF Validate, FilesTypeOK, FirstStep
    <2> QED BY <2>1, TemporaryKept
  <1>6. RegistryHoldsLiveLocks'
    BY DEF Validate, RegistryHoldsLiveLocks, Referenced, LocksOK, FilesTypeOK, Leased
  <1> QED BY <1>1, <1>2, <1>3, <1>4, <1>5, <1>6

\* An edit reads the file and looks for its piece.
LEMMA ReadStep == ASSUME FilesInv, NEW c \in Calls, Read(c) PROVE FilesInv'
  <1> USE FilesAssumption DEF FilesInv, Goto, Returns, dir, locking, waiting, Mutating, Calls
  <1>1. FilesTypeOK'
    <2>1. /\ pc' \in [Calls -> Stages] /\ result' \in [Calls -> Results]
      BY DEF Read, FilesTypeOK, Stages, Results
    <2>2. DOMAIN text' = Edits
      BY DEF Read, FilesTypeOK
    <2> QED BY <2>1, <2>2 DEF Read, FilesTypeOK
  <1>2. TextsOK'
    BY DEF Read, TextsOK, FilesTypeOK, Entry
  <1>3. CallsOK'
    BY DEF Read, CallsOK, FilesTypeOK, Pending, Leased, FirstStep
  <1>4. LocksOK'
    BY DEF Read, LocksOK, CallsOK, FilesTypeOK, Leased, Holding, Entry, FirstStep
  <1>5. TemporaryOK'
    <2>1. /\ UNCHANGED <<entry, content, tmp>>
          /\ \A d \in Mutating : pc'[d] = "rename" <=> pc[d] = "rename"
          /\ \A d \in Edits : pc'[d] = "publish" => pc[d] = "publish"
          /\ \A d \in Edits : pc[d] = "rename" => text'[d] = text[d]
      BY DEF Read, FilesTypeOK, FirstStep
    <2> QED BY <2>1, TemporaryKept
  <1>6. RegistryHoldsLiveLocks'
    BY DEF Read, RegistryHoldsLiveLocks, Referenced, LocksOK, FilesTypeOK, Leased
  <1> QED BY <1>1, <1>2, <1>3, <1>4, <1>5, <1>6

\* The new inode is entered into the registry under the old lock.
LEMMA PublishStep == ASSUME FilesInv, NEW c \in Calls, Publish(c) PROVE FilesInv'
  <1> USE FilesAssumption DEF FilesInv, Goto, Returns, dir, locking, waiting, Mutating, Calls
  <1>1. FilesTypeOK'
    <2>1. Entry(c) \in Inodes /\ lease[c] \in Locks
      BY DEF Publish, FilesTypeOK, TemporaryOK, LocksOK, Leased, Entry
    <2> QED BY <2>1 DEF Publish, FilesTypeOK, Stages
  <1>2. TextsOK'
    BY DEF Publish, TextsOK, FilesTypeOK, Entry
  <1>3. CallsOK'
    BY DEF Publish, CallsOK, FilesTypeOK, Pending, Leased, FirstStep
  <1>4. LocksOK'
    BY DEF Publish, LocksOK, CallsOK, FilesTypeOK, Leased, Holding, Entry, FirstStep
  <1>5. TemporaryOK'
    <2>1. /\ UNCHANGED <<entry, content, tmp>>
          /\ \A d \in Mutating : pc'[d] = "rename" <=> pc[d] = "rename"
          /\ \A d \in Edits : pc'[d] = "publish" => pc[d] = "publish"
          /\ \A d \in Edits : pc[d] = "rename" => text'[d] = text[d]
      BY DEF Publish, FilesTypeOK, FirstStep
    <2> QED BY <2>1, TemporaryKept
  <1>6. RegistryHoldsLiveLocks'
    BY DEF Publish, RegistryHoldsLiveLocks, Referenced, LocksOK, FilesTypeOK, Leased
  <1> QED BY <1>1, <1>2, <1>3, <1>4, <1>5, <1>6

\* The lock is free again.
LEMMA UnlockStep == ASSUME FilesInv, NEW c \in Calls, Unlock(c) PROVE FilesInv'
  <1> USE FilesAssumption DEF FilesInv, Goto, Returns, dir, locking, waiting, Mutating, Calls
  <1>1. FilesTypeOK'
    BY DEF Unlock, FilesTypeOK, Stages, Results, Entry, CallsOK, LocksOK, TemporaryOK, FirstStep
  <1>2. TextsOK'
    BY DEF Unlock, TextsOK, FilesTypeOK, Entry
  <1>3. CallsOK'
    BY DEF Unlock, CallsOK, FilesTypeOK, Pending, Leased, FirstStep
  <1>4. LocksOK'
    BY DEF Unlock, LocksOK, CallsOK, FilesTypeOK, Leased, Holding, Entry, FirstStep
  <1>5. TemporaryOK'
    <2>1. /\ UNCHANGED <<entry, content, tmp>>
          /\ \A d \in Mutating : pc'[d] = "rename" <=> pc[d] = "rename"
          /\ \A d \in Edits : pc'[d] = "publish" => pc[d] = "publish"
          /\ \A d \in Edits : pc[d] = "rename" => text'[d] = text[d]
      BY DEF Unlock, FilesTypeOK, FirstStep
    <2> QED BY <2>1, TemporaryKept
  <1>6. RegistryHoldsLiveLocks'
    BY DEF Unlock, RegistryHoldsLiveLocks, Referenced, LocksOK, FilesTypeOK, Leased
  <1> QED BY <1>1, <1>2, <1>3, <1>4, <1>5, <1>6

\* An edit gives its lease back, and dead identities are forgotten.
LEMMA DropStep == ASSUME FilesInv, NEW c \in Calls, Drop(c) PROVE FilesInv'
  <1> USE FilesAssumption DEF FilesInv, Goto, Returns, dir, locking, waiting, Mutating, Calls
  <1>1. FilesTypeOK'
    <2>1. \A i \in DOMAIN registry' : i \in DOMAIN registry /\ registry'[i] = registry[i]
      BY DEF Drop, Restrict
    <2> QED BY <2>1 DEF Drop, FilesTypeOK, Stages
  <1>2. TextsOK'
    BY DEF Drop, TextsOK, FilesTypeOK, Entry
  <1>3. CallsOK'
    BY DEF Drop, CallsOK, FilesTypeOK, Pending, Leased, FirstStep
  <1>4. LocksOK'
    BY DEF Drop, LocksOK, CallsOK, FilesTypeOK, Leased, Holding, Entry, FirstStep
  <1>5. TemporaryOK'
    <2>1. /\ UNCHANGED <<entry, content, tmp>>
          /\ \A d \in Mutating : pc'[d] = "rename" <=> pc[d] = "rename"
          /\ \A d \in Edits : pc'[d] = "publish" => pc[d] = "publish"
          /\ \A d \in Edits : pc[d] = "rename" => text'[d] = text[d]
      BY DEF Drop, FilesTypeOK, FirstStep
    <2> QED BY <2>1, TemporaryKept
  <1>6. RegistryHoldsLiveLocks'
    <2>1. /\ \A i \in DOMAIN registry' :
               /\ i \in DOMAIN registry /\ registry'[i] = registry[i]
               /\ \E d \in Edits \ {c} : registry[i] = lease[d]
          /\ lease' = [lease EXCEPT ![c] = NoLock]
      BY DEF Drop, Restrict
    <2>2. \A d \in Edits \ {c} : lease'[d] = lease[d]
      BY <2>1 DEF FilesTypeOK
    <2> QED BY <2>1, <2>2 DEF RegistryHoldsLiveLocks, Referenced, FilesTypeOK
  <1> QED BY <1>1, <1>2, <1>3, <1>4, <1>5, <1>6

\* Every step of every call.
LEMMA FilesStep == FilesInv /\ [Next]_vars => FilesInv'
  <1> SUFFICES ASSUME FilesInv, [Next]_vars PROVE FilesInv'
    OBVIOUS
  <1>1. CASE UNCHANGED vars
    <2> USE <1>1 DEF vars, FilesInv
    <2>1. FilesTypeOK' /\ TextsOK'
      BY DEF FilesTypeOK, TextsOK
    <2>2. CallsOK' /\ LocksOK'
      BY DEF CallsOK, LocksOK
    <2>3. TemporaryOK'
      BY TemporaryKept
    <2>4. RegistryHoldsLiveLocks'
      BY DEF RegistryHoldsLiveLocks, Referenced
    <2> QED BY <2>1, <2>2, <2>3, <2>4
  <1>2. CASE Next
    <2>1. CASE Finished
      BY <1>1, <2>1 DEF Finished
    <2>2. ASSUME NEW c \in Calls, Cancel(c) \/ Work(c) \/ Report(c) \/ StopWaiting(c)
          PROVE  FilesInv'
      BY <2>2, CancelStep, BeginStep, ReportStep, StopWaitingStep, LoadStep, CreateStep,
         CreateFailsStep, RenameStep, IdentifyStep, AcquireStep, LockStep, ValidateStep,
         ReadStep, PublishStep, UnlockStep, DropStep DEF Work
    <2> QED BY <1>2, <2>1, <2>2 DEF Next
  <1> QED BY <1>1, <1>2

\* The invariant of the file tools, whatever inode numbers the file system chooses.
THEOREM FilesInvariant == Spec => []FilesInv
  <1> QED BY InitFilesInv, FilesStep, PTL DEF Spec

\* A mutation that started is reported by what it did: its caller is not told
\* "cancelled" for something that ran (blocking_work awaits it, files.rs:160).
THEOREM MutationsAreReportedTruly == Spec => []MutationsReportedTruly
  <1>1. FilesInv => MutationsReportedTruly
    BY DEF FilesInv, CallsOK, MutationsReportedTruly
  <1> QED BY <1>1, FilesInvariant, PTL

\* No identity outlives its last holder or waiter in the lock registry (Drop for
\* FileLock, files.rs:223).
THEOREM RegistryIsEmptied == Spec => []RegistryHoldsLiveLocks
  <1>1. FilesInv => RegistryHoldsLiveLocks
    BY DEF FilesInv
  <1> QED BY <1>1, FilesInvariant, PTL

-----------------------------------------------------------------------------
(* Edits exclude one another, as long as no remembered number is reused.   *)

\* Two edits that passed the revalidation, or one that did and one that has replaced
\* the file but not published it, are not on one name.
LEMMA OneInside ==
  ASSUME SerialInv, NEW c \in Edits, NEW d \in Edits, Target[c] = Target[d],
         pc[c] \in Entered, pc[d] \in Entered \cup {"publish"}
  PROVE  c = d
  <1>1. /\ lease[c] # NoLock /\ lease[d] # NoLock
        /\ holder[lease[c]] = c /\ holder[lease[d]] = d
    BY DEF SerialInv, FilesInv, LocksOK, Leased, Holding, Entered
  <1>2. ident[c] = Entry(d)
    BY DEF SerialInv, EntriesKept, Entry
  <1>3. pc[d] # "publish"
    BY <1>1, <1>2 DEF SerialInv, NewInodeUnknown
  <1>4. ident[c] = ident[d]
    BY <1>2, <1>3 DEF SerialInv, EntriesKept
  <1>5. lease[c] = lease[d]
    BY <1>1, <1>4 DEF SerialInv, LockFound
  <1> QED BY <1>1, <1>5

LEMMA InitSerialInv == Init => SerialInv
  <1> SUFFICES ASSUME Init PROVE SerialInv
    OBVIOUS
  <1>1. FilesInv
    BY InitFilesInv
  <1>2. LockFound /\ NewInodeUnknown /\ EntriesKept /\ TextFound
    BY FilesAssumption DEF Init, LockFound, NewInodeUnknown, EntriesKept, TextFound, Entered,
                           Mutating, Calls
  <1> QED BY <1>1, <1>2 DEF SerialInv

\* A new temporary file.
LEMMA NewFile ==
  ASSUME NEW c \in Calls, Create(c)
  PROVE  \E i \in Inodes : /\ Free(i) /\ tmp' = [tmp EXCEPT ![c] = i]
                           /\ content' = [content EXCEPT ![i] = NewText(c)]
  <1>1. Candidates({j \in Inodes : Free(j)}) \subseteq {j \in Inodes : Free(j)}
    BY FilesAssumption
  <1>2. PICK i \in Candidates({j \in Inodes : Free(j)}) :
           tmp' = [tmp EXCEPT ![c] = i] /\ content' = [content EXCEPT ![i] = NewText(c)]
    BY DEF Create
  <1> QED BY <1>1, <1>2

\* A rename changes no file that another edit has read.
LEMMA OthersStay ==
  ASSUME SerialInv, NEW c \in Mutating, pc[c] = "rename", NEW d \in Edits, d # c, pc[d] \in Entered,
         entry' = [entry EXCEPT ![Target[c]] = tmp[c]]
  PROVE  Entry(d)' = Entry(d)
  <1>1. Target[d] # Target[c]
    <2>1. CASE c \in Writes
      BY <2>1, SeparateTargets
    <2>2. CASE c \in Edits
      BY <2>2, OneInside DEF Entered
    <2> QED BY <2>1, <2>2 DEF Mutating
  <1>2. Target[d] \in Names /\ Target[c] \in Names
    BY FilesAssumption DEF Mutating, Calls
  <1> QED BY <1>1, <1>2 DEF SerialInv, FilesInv, FilesTypeOK, Entry

LEMMA CancelSerial ==
  ASSUME SerialInv, ~Reuse, NEW c \in Calls, Cancel(c)
  PROVE  LockFound' /\ NewInodeUnknown' /\ EntriesKept' /\ TextFound'
  <1> USE FilesAssumption DEF SerialInv, FilesInv, Goto, Returns, dir, locking, waiting, Mutating, Calls
  <1>1. LockFound'
    BY DEF Cancel, LockFound, LocksOK, FilesTypeOK, Leased
  <1>2. NewInodeUnknown'
    BY DEF Cancel, NewInodeUnknown, FilesTypeOK, LocksOK, Leased, Entry, FirstStep
  <1>3. EntriesKept'
    BY DEF Cancel, EntriesKept, FilesTypeOK, Entered, Entry, FirstStep
  <1>4. TextFound'
    BY DEF Cancel, TextFound, FilesTypeOK, TextsOK, Entry, FirstStep
  <1> QED BY <1>1, <1>2, <1>3, <1>4

LEMMA BeginSerial ==
  ASSUME SerialInv, ~Reuse, NEW c \in Calls, Begin(c)
  PROVE  LockFound' /\ NewInodeUnknown' /\ EntriesKept' /\ TextFound'
  <1> USE FilesAssumption DEF SerialInv, FilesInv, Goto, Returns, dir, locking, waiting, Mutating, Calls
  <1>1. LockFound'
    BY DEF Begin, LockFound, LocksOK, FilesTypeOK, Leased
  <1>2. NewInodeUnknown'
    BY DEF Begin, NewInodeUnknown, FilesTypeOK, LocksOK, Leased, Entry, FirstStep
  <1>3. EntriesKept'
    BY DEF Begin, EntriesKept, FilesTypeOK, Entered, Entry, FirstStep
  <1>4. TextFound'
    BY DEF Begin, TextFound, FilesTypeOK, TextsOK, Entry, FirstStep
  <1> QED BY <1>1, <1>2, <1>3, <1>4

LEMMA ReportSerial ==
  ASSUME SerialInv, ~Reuse, NEW c \in Calls, Report(c)
  PROVE  LockFound' /\ NewInodeUnknown' /\ EntriesKept' /\ TextFound'
  <1> USE FilesAssumption DEF SerialInv, FilesInv, Goto, Returns, dir, locking, waiting, Mutating, Calls
  <1>1. LockFound'
    BY DEF Report, LockFound, LocksOK, FilesTypeOK, Leased
  <1>2. NewInodeUnknown'
    BY DEF Report, NewInodeUnknown, FilesTypeOK, LocksOK, Leased, Entry, FirstStep
  <1>3. EntriesKept'
    BY DEF Report, EntriesKept, FilesTypeOK, Entered, Entry, FirstStep
  <1>4. TextFound'
    BY DEF Report, TextFound, FilesTypeOK, TextsOK, Entry, FirstStep
  <1> QED BY <1>1, <1>2, <1>3, <1>4

LEMMA StopWaitingSerial ==
  ASSUME SerialInv, ~Reuse, NEW c \in Calls, StopWaiting(c)
  PROVE  LockFound' /\ NewInodeUnknown' /\ EntriesKept' /\ TextFound'
  <1> USE FilesAssumption DEF SerialInv, FilesInv, Goto, Returns, dir, locking, waiting, Mutating, Calls
  <1>1. LockFound'
    BY DEF StopWaiting, LockFound, LocksOK, FilesTypeOK, Leased
  <1>2. NewInodeUnknown'
    BY DEF StopWaiting, NewInodeUnknown, FilesTypeOK, LocksOK, Leased, Entry, FirstStep
  <1>3. EntriesKept'
    BY DEF StopWaiting, EntriesKept, FilesTypeOK, Entered, Entry, FirstStep
  <1>4. TextFound'
    BY DEF StopWaiting, TextFound, FilesTypeOK, TextsOK, Entry, FirstStep
  <1> QED BY <1>1, <1>2, <1>3, <1>4

LEMMA LoadSerial ==
  ASSUME SerialInv, ~Reuse, NEW c \in Calls, Load(c)
  PROVE  LockFound' /\ NewInodeUnknown' /\ EntriesKept' /\ TextFound'
  <1> USE FilesAssumption DEF SerialInv, FilesInv, Goto, Returns, dir, locking, waiting, Mutating, Calls
  <1>1. LockFound'
    BY DEF Load, LockFound, LocksOK, FilesTypeOK, Leased
  <1>2. NewInodeUnknown'
    BY DEF Load, NewInodeUnknown, FilesTypeOK, LocksOK, Leased, Entry, FirstStep
  <1>3. EntriesKept'
    BY DEF Load, EntriesKept, FilesTypeOK, Entered, Entry, FirstStep
  <1>4. TextFound'
    BY DEF Load, TextFound, FilesTypeOK, TextsOK, Entry, FirstStep
  <1> QED BY <1>1, <1>2, <1>3, <1>4

LEMMA CreateSerial ==
  ASSUME SerialInv, ~Reuse, NEW c \in Calls, Create(c)
  PROVE  LockFound' /\ NewInodeUnknown' /\ EntriesKept' /\ TextFound'
  <1> USE FilesAssumption DEF SerialInv, FilesInv, Goto, Returns, dir, locking, waiting, Mutating, Calls
  <1>1. LockFound'
    BY DEF Create, LockFound, LocksOK, FilesTypeOK, Leased
  <1>2. NewInodeUnknown'
    <2>1. PICK i \in Inodes : Free(i) /\ tmp' = [tmp EXCEPT ![c] = i]
      BY NewFile
    <2>2. /\ pc' = [pc EXCEPT ![c] = "rename"] /\ UNCHANGED <<entry, ident, lease>>
      BY DEF Create
    <2>3. \A d \in Edits : Entry(d)' = Entry(d)
      BY <2>2 DEF Entry
    <2>4. \A d \in Edits : ident[d] # i
      BY <2>1 DEF Free
    <2> QED BY <2>1, <2>2, <2>3, <2>4 DEF NewInodeUnknown, FilesTypeOK
  <1>3. EntriesKept'
    BY DEF Create, EntriesKept, FilesTypeOK, Entered, Entry, FirstStep
  <1>4. TextFound'
    <2>1. PICK i \in Inodes : Free(i) /\ content' = [content EXCEPT ![i] = NewText(c)]
      BY NewFile
    <2>2. pc' = [pc EXCEPT ![c] = "rename"] /\ pc[c] = "create" /\ UNCHANGED <<entry, text>>
      BY DEF Create
    <2>3. \A d \in Edits : Entry(d)' = Entry(d) /\ content'[Entry(d)] = content[Entry(d)]
      BY <2>1, <2>2 DEF Free, Entry, TextsOK
    <2> QED BY <2>2, <2>3 DEF TextFound, FilesTypeOK
  <1> QED BY <1>1, <1>2, <1>3, <1>4

LEMMA CreateFailsSerial ==
  ASSUME SerialInv, ~Reuse, NEW c \in Calls, CreateFails(c)
  PROVE  LockFound' /\ NewInodeUnknown' /\ EntriesKept' /\ TextFound'
  <1> USE FilesAssumption DEF SerialInv, FilesInv, Goto, Returns, dir, locking, waiting, Mutating, Calls
  <1>1. LockFound'
    BY DEF CreateFails, LockFound, LocksOK, FilesTypeOK, Leased
  <1>2. NewInodeUnknown'
    BY DEF CreateFails, NewInodeUnknown, FilesTypeOK, LocksOK, Leased, Entry, FirstStep
  <1>3. EntriesKept'
    BY DEF CreateFails, EntriesKept, FilesTypeOK, Entered, Entry, FirstStep
  <1>4. TextFound'
    BY DEF CreateFails, TextFound, FilesTypeOK, TextsOK, Entry, FirstStep
  <1> QED BY <1>1, <1>2, <1>3, <1>4

LEMMA RenameSerial ==
  ASSUME SerialInv, ~Reuse, NEW c \in Calls, Rename(c)
  PROVE  LockFound' /\ NewInodeUnknown' /\ EntriesKept' /\ TextFound'
  <1> USE FilesAssumption DEF SerialInv, FilesInv, Goto, Returns, dir, locking, waiting, Mutating, Calls
  <1>1. LockFound'
    BY DEF Rename, LockFound, LocksOK, FilesTypeOK, Leased
  <1>2. NewInodeUnknown'
    <2>1. /\ entry' = [entry EXCEPT ![Target[c]] = tmp[c]] /\ tmp' = [tmp EXCEPT ![c] = NoInode]
          /\ pc' = [pc EXCEPT ![c] = IF c \in Edits THEN "publish" ELSE "end"]
          /\ UNCHANGED <<content, text, ident, lease>> /\ c \in Mutating /\ pc[c] = "rename"
      BY DEF Rename
    <2>2. \A d \in Edits : ident[d] # tmp[c]
      BY <2>1 DEF NewInodeUnknown, TemporaryOK
    <2>3. ASSUME NEW e \in Edits, NEW d \in Edits, pc'[e] = "publish", lease[d] # NoLock
          PROVE  ident[d] # Entry(e)'
      <3>1. CASE e = c
        <4>1. Entry(e)' = tmp[c]
          BY <2>1, <3>1 DEF Entry, FilesTypeOK
        <4> QED BY <2>2, <4>1
      <3>2. CASE e # c
        <4>1. pc[e] = "publish"
          BY <2>1, <2>3, <3>2 DEF FilesTypeOK
        <4>2. c \in Writes
          BY <2>1, <3>2, <4>1 DEF LocksOK
        <4>3. Entry(e)' = Entry(e)
          BY <2>1, <4>2, SeparateTargets DEF Entry, FilesTypeOK
        <4> QED BY <2>3, <4>1, <4>3 DEF NewInodeUnknown
      <3> QED BY <3>1, <3>2
    <2>4. \A m \in Mutating : tmp'[m] # NoInode => m # c /\ tmp'[m] = tmp[m]
      BY <2>1 DEF FilesTypeOK
    <2> QED BY <2>1, <2>3, <2>4 DEF NewInodeUnknown
  <1>3. EntriesKept'
    <2>1. /\ entry' = [entry EXCEPT ![Target[c]] = tmp[c]] /\ tmp' = [tmp EXCEPT ![c] = NoInode]
          /\ pc' = [pc EXCEPT ![c] = IF c \in Edits THEN "publish" ELSE "end"]
          /\ UNCHANGED <<content, text, ident, lease>> /\ c \in Mutating /\ pc[c] = "rename"
      BY DEF Rename
    <2>2. ASSUME NEW d \in Edits, pc'[d] \in Entered  PROVE Entry(d)' = ident[d]
      <3>1. d # c /\ pc[d] \in Entered
        BY <2>1, <2>2 DEF Entered, FilesTypeOK
      <3>2. Entry(d)' = Entry(d)
        BY <2>1, <3>1, OthersStay
      <3> QED BY <3>1, <3>2 DEF EntriesKept
    <2> QED BY <2>1, <2>2 DEF EntriesKept
  <1>4. TextFound'
    <2>1. /\ entry' = [entry EXCEPT ![Target[c]] = tmp[c]] /\ tmp' = [tmp EXCEPT ![c] = NoInode]
          /\ pc' = [pc EXCEPT ![c] = IF c \in Edits THEN "publish" ELSE "end"]
          /\ UNCHANGED <<content, text, ident, lease>> /\ c \in Mutating /\ pc[c] = "rename"
      BY DEF Rename
    <2>2. ASSUME NEW d \in Edits, pc'[d] \in {"create", "rename"}
          PROVE  Old[d] \in text[d] /\ text[d] = content[Entry(d)']
      <3>1. d # c /\ pc[d] \in {"create", "rename"}
        BY <2>1, <2>2 DEF FilesTypeOK
      <3>2. Entry(d)' = Entry(d)
        BY <2>1, <3>1, OthersStay DEF Entered
      <3> QED BY <3>1, <3>2 DEF TextFound
    <2> QED BY <2>1, <2>2 DEF TextFound, Entry
  <1> QED BY <1>1, <1>2, <1>3, <1>4

LEMMA IdentifySerial ==
  ASSUME SerialInv, ~Reuse, NEW c \in Calls, Identify(c)
  PROVE  LockFound' /\ NewInodeUnknown' /\ EntriesKept' /\ TextFound'
  <1> USE FilesAssumption DEF SerialInv, FilesInv, Goto, Returns, dir, locking, waiting, Mutating, Calls
  <1>1. LockFound'
    BY DEF Identify, LockFound, LocksOK, FilesTypeOK, Leased
  <1>2. NewInodeUnknown'
    <2>1. CASE UNCHANGED ident
      BY <2>1 DEF Identify, NewInodeUnknown, FilesTypeOK, Entry
    <2>2. CASE ident' = [ident EXCEPT ![c] = Entry(c)] /\ Entry(c) # NoInode
      <3>1. /\ pc' = [pc EXCEPT ![c] = "acquire"] /\ UNCHANGED <<entry, lease, tmp>>
            /\ pc[c] = "identify" /\ c \in Edits /\ Target[c] \in Names
        BY <2>2 DEF Identify, FilesTypeOK
      <3>2. lease[c] = NoLock
        BY <3>1 DEF LocksOK, Leased
      <3>3. \A m \in Mutating : tmp[m] # NoInode => Entry(c) # tmp[m]
        BY <3>1 DEF TemporaryOK, Entry
      <3>4. \A e \in Edits : Entry(e)' = Entry(e)
        BY <3>1 DEF Entry
      <3> QED BY <2>2, <3>1, <3>2, <3>3, <3>4 DEF NewInodeUnknown, FilesTypeOK
    <2> QED BY <2>1, <2>2 DEF Identify
  <1>3. EntriesKept'
    BY DEF Identify, EntriesKept, FilesTypeOK, Entered, Entry, FirstStep
  <1>4. TextFound'
    BY DEF Identify, TextFound, FilesTypeOK, TextsOK, Entry, FirstStep
  <1> QED BY <1>1, <1>2, <1>3, <1>4

LEMMA AcquireSerial ==
  ASSUME SerialInv, ~Reuse, NEW c \in Calls, Acquire(c)
  PROVE  LockFound' /\ NewInodeUnknown' /\ EntriesKept' /\ TextFound'
  <1> USE FilesAssumption DEF SerialInv, FilesInv, Goto, Returns, dir, locking, waiting, Mutating, Calls
  <1>1. LockFound'
    <2> DEFINE l == LockFor(ident[c])
    <2>1. /\ c \in Edits /\ pc[c] = "acquire" /\ lease' = [lease EXCEPT ![c] = l]
          /\ UNCHANGED ident
          /\ registry' = [i \in DOMAIN registry \cup {ident[c]} |->
                             IF i = ident[c] THEN l ELSE registry[i]]
      BY DEF Acquire
    <2>2. ident[c] \in Live => l = registry[ident[c]]
      BY <2>1, FreeLock
    <2> HIDE DEF l
    <2>3. ASSUME NEW d \in Edits, lease'[d] # NoLock, d # c
          PROVE  ident[d] \in DOMAIN registry' /\ registry'[ident[d]] = lease'[d]
      <3>1. lease'[d] = lease[d] /\ lease[d] # NoLock
        BY <2>1, <2>3 DEF FilesTypeOK
      <3>2. ident[d] \in DOMAIN registry /\ registry[ident[d]] = lease[d]
        BY <3>1 DEF LockFound
      <3>3. ident[d] \in Live
        BY <3>1, <3>2 DEF Live, Referenced
      <3> QED BY <2>1, <2>2, <3>1, <3>2, <3>3, EntryAdded
    <2>4. ident[c] \in DOMAIN registry' /\ registry'[ident[c]] = l /\ lease'[c] = l
      BY <2>1, EntryAdded DEF FilesTypeOK
    <2> QED BY <2>1, <2>3, <2>4 DEF LockFound
  <1>2. NewInodeUnknown'
    <2>1. \A e \in Edits : pc'[e] # "publish"
      BY DEF Acquire, LocksOK, FilesTypeOK
    <2> QED BY <2>1 DEF Acquire, NewInodeUnknown
  <1>3. EntriesKept'
    BY DEF Acquire, EntriesKept, FilesTypeOK, Entered, Entry, FirstStep
  <1>4. TextFound'
    BY DEF Acquire, TextFound, FilesTypeOK, TextsOK, Entry, FirstStep
  <1> QED BY <1>1, <1>2, <1>3, <1>4

LEMMA LockSerial ==
  ASSUME SerialInv, ~Reuse, NEW c \in Calls, Lock(c)
  PROVE  LockFound' /\ NewInodeUnknown' /\ EntriesKept' /\ TextFound'
  <1> USE FilesAssumption DEF SerialInv, FilesInv, Goto, Returns, dir, locking, waiting, Mutating, Calls
  <1>1. LockFound'
    BY DEF Lock, LockFound, LocksOK, FilesTypeOK, Leased
  <1>2. NewInodeUnknown'
    BY DEF Lock, NewInodeUnknown, FilesTypeOK, LocksOK, Leased, Entry, FirstStep
  <1>3. EntriesKept'
    BY DEF Lock, EntriesKept, FilesTypeOK, Entered, Entry, FirstStep
  <1>4. TextFound'
    BY DEF Lock, TextFound, FilesTypeOK, TextsOK, Entry, FirstStep
  <1> QED BY <1>1, <1>2, <1>3, <1>4

LEMMA ValidateSerial ==
  ASSUME SerialInv, ~Reuse, NEW c \in Calls, Validate(c)
  PROVE  LockFound' /\ NewInodeUnknown' /\ EntriesKept' /\ TextFound'
  <1> USE FilesAssumption DEF SerialInv, FilesInv, Goto, Returns, dir, locking, waiting, Mutating, Calls
  <1>1. LockFound'
    BY DEF Validate, LockFound, LocksOK, FilesTypeOK, Leased
  <1>2. NewInodeUnknown'
    BY DEF Validate, NewInodeUnknown, FilesTypeOK, LocksOK, Leased, Entry, FirstStep
  <1>3. EntriesKept'
    BY DEF Validate, EntriesKept, FilesTypeOK, Entered, Entry, FirstStep
  <1>4. TextFound'
    BY DEF Validate, TextFound, FilesTypeOK, TextsOK, Entry, FirstStep
  <1> QED BY <1>1, <1>2, <1>3, <1>4

LEMMA ReadSerial ==
  ASSUME SerialInv, ~Reuse, NEW c \in Calls, Read(c)
  PROVE  LockFound' /\ NewInodeUnknown' /\ EntriesKept' /\ TextFound'
  <1> USE FilesAssumption DEF SerialInv, FilesInv, Goto, Returns, dir, locking, waiting, Mutating, Calls
  <1>1. LockFound'
    BY DEF Read, LockFound, LocksOK, FilesTypeOK, Leased
  <1>2. NewInodeUnknown'
    BY DEF Read, NewInodeUnknown, FilesTypeOK, LocksOK, Leased, Entry, FirstStep
  <1>3. EntriesKept'
    BY DEF Read, EntriesKept, FilesTypeOK, Entered, Entry, FirstStep
  <1>4. TextFound'
    BY DEF Read, TextFound, FilesTypeOK, TextsOK, Entry, FirstStep
  <1> QED BY <1>1, <1>2, <1>3, <1>4

LEMMA PublishSerial ==
  ASSUME SerialInv, ~Reuse, NEW c \in Calls, Publish(c)
  PROVE  LockFound' /\ NewInodeUnknown' /\ EntriesKept' /\ TextFound'
  <1> USE FilesAssumption DEF SerialInv, FilesInv, Goto, Returns, dir, locking, waiting, Mutating, Calls
  <1>1. LockFound'
    <2>1. /\ c \in Edits /\ pc[c] = "publish" /\ UNCHANGED <<lease, ident>>
          /\ registry' = [i \in DOMAIN registry \cup {Entry(c)} |->
                             IF i = Entry(c) THEN lease[c] ELSE registry[i]]
      BY DEF Publish
    <2>2. \A d \in Edits : lease[d] # NoLock => ident[d] # Entry(c)
      BY <2>1 DEF NewInodeUnknown
    <2> QED BY <2>1, <2>2, EntryAdded DEF LockFound
  <1>2. NewInodeUnknown'
    BY DEF Publish, NewInodeUnknown, FilesTypeOK, LocksOK, Leased, Entry, FirstStep
  <1>3. EntriesKept'
    BY DEF Publish, EntriesKept, FilesTypeOK, Entered, Entry, FirstStep
  <1>4. TextFound'
    BY DEF Publish, TextFound, FilesTypeOK, TextsOK, Entry, FirstStep
  <1> QED BY <1>1, <1>2, <1>3, <1>4

LEMMA UnlockSerial ==
  ASSUME SerialInv, ~Reuse, NEW c \in Calls, Unlock(c)
  PROVE  LockFound' /\ NewInodeUnknown' /\ EntriesKept' /\ TextFound'
  <1> USE FilesAssumption DEF SerialInv, FilesInv, Goto, Returns, dir, locking, waiting, Mutating, Calls
  <1>1. LockFound'
    BY DEF Unlock, LockFound, LocksOK, FilesTypeOK, Leased
  <1>2. NewInodeUnknown'
    BY DEF Unlock, NewInodeUnknown, FilesTypeOK, LocksOK, Leased, Entry, FirstStep
  <1>3. EntriesKept'
    BY DEF Unlock, EntriesKept, FilesTypeOK, Entered, Entry, FirstStep
  <1>4. TextFound'
    BY DEF Unlock, TextFound, FilesTypeOK, TextsOK, Entry, FirstStep
  <1> QED BY <1>1, <1>2, <1>3, <1>4

LEMMA DropSerial ==
  ASSUME SerialInv, ~Reuse, NEW c \in Calls, Drop(c)
  PROVE  LockFound' /\ NewInodeUnknown' /\ EntriesKept' /\ TextFound'
  <1> USE FilesAssumption DEF SerialInv, FilesInv, Goto, Returns, dir, locking, waiting, Mutating, Calls
  <1>1. LockFound'
    <2>1. /\ lease' = [lease EXCEPT ![c] = NoLock] /\ ident' = [ident EXCEPT ![c] = NoInode]
          /\ registry' = [i \in {j \in DOMAIN registry : \E e \in Edits \ {c} : registry[j] = lease[e]}
                            |-> registry[i]]
      BY DEF Drop, Restrict
    <2>2. ASSUME NEW d \in Edits, lease'[d] # NoLock
          PROVE  ident'[d] \in DOMAIN registry' /\ registry'[ident'[d]] = lease'[d]
      <3>1. d # c /\ lease'[d] = lease[d] /\ ident'[d] = ident[d]
        BY <2>1, <2>2 DEF FilesTypeOK
      <3>2. ident[d] \in DOMAIN registry /\ registry[ident[d]] = lease[d]
        BY <2>2, <3>1 DEF LockFound
      <3> QED BY <2>1, <3>1, <3>2
    <2> QED BY <2>2 DEF LockFound
  <1>2. NewInodeUnknown'
    BY DEF Drop, NewInodeUnknown, FilesTypeOK, LocksOK, Leased, Entry, FirstStep
  <1>3. EntriesKept'
    BY DEF Drop, EntriesKept, FilesTypeOK, Entered, Entry, FirstStep
  <1>4. TextFound'
    BY DEF Drop, TextFound, FilesTypeOK, TextsOK, Entry, FirstStep
  <1> QED BY <1>1, <1>2, <1>3, <1>4

\* Every step of every call.
LEMMA SerialStep == ASSUME SerialInv, ~Reuse, [Next]_vars PROVE SerialInv'
  <1>1. FilesInv'
    BY FilesStep DEF SerialInv
  <1>2. LockFound' /\ NewInodeUnknown' /\ EntriesKept' /\ TextFound'
    <2>1. CASE UNCHANGED vars
      <3> USE <2>1 DEF vars, SerialInv
      <3>1. \A c \in Edits : Entry(c)' = Entry(c)
        BY DEF Entry
      <3> QED BY <3>1 DEF LockFound, NewInodeUnknown, EntriesKept, TextFound
    <2>2. ASSUME NEW c \in Calls, Cancel(c) \/ Work(c) \/ Report(c) \/ StopWaiting(c)
          PROVE  LockFound' /\ NewInodeUnknown' /\ EntriesKept' /\ TextFound'
      BY <2>2, CancelSerial, BeginSerial, ReportSerial, StopWaitingSerial, LoadSerial,
         CreateSerial, CreateFailsSerial, RenameSerial, IdentifySerial, AcquireSerial,
         LockSerial, ValidateSerial, ReadSerial, PublishSerial, UnlockSerial,
         DropSerial DEF Work
    <2> QED BY <2>1, <2>2 DEF Next, Finished
  <1> QED BY <1>1, <1>2 DEF SerialInv

\* The invariant of concurrent edits.
THEOREM SerialInvariant ==
  ASSUME ~Reuse
  PROVE  Spec => []SerialInv
  <1> QED BY InitSerialInv, SerialStep, PTL DEF Spec

\* No edit replaces a text that it did not read: nobody else's edit is undone
\* (EditFile::edit, files.rs:428-455).
THEOREM NoLostEdit ==
  ASSUME ~Reuse
  PROVE  Spec => []EditsReplaceWhatTheyRead
  <1>1. SerialInv => EditsReplaceWhatTheyRead
    BY DEF SerialInv, FilesInv, LocksOK, EntriesKept, TextFound, Leased, Entered,
           EditsReplaceWhatTheyRead
  <1> QED BY <1>1, SerialInvariant, PTL

\* Between its revalidation and its rename an edit is alone on its name.
EditsExclude ==
    \A c, d \in Edits :
        c # d /\ Target[c] = Target[d] => ~(pc[c] \in Entered /\ pc[d] \in Entered)

\* The lock of the identity under the name is the lock of the name
\* (FileLock::acquire and publish, files.rs:203-221).
THEOREM EditsAreExclusive ==
  ASSUME ~Reuse
  PROVE  Spec => []EditsExclude
  <1>1. SerialInv => EditsExclude
    BY OneInside DEF EditsExclude
  <1> QED BY <1>1, SerialInvariant, PTL

-----------------------------------------------------------------------------
(* The file tools implement FileSpec: the replacement is the rename.       *)

AbstractStep == [Abstract!Next]_<<FileText, result>>

\* What a name shows.
LEMMA TextOfName ==
  ASSUME FilesInv, NEW c \in Calls
  PROVE  /\ FileText[Target[c]] = Absent <=> Entry(c) = NoInode
         /\ Entry(c) # NoInode => FileText[Target[c]] = content[Entry(c)]
  <1>1. Target[c] \in Names
    BY FilesAssumption
  <1>2. entry[Target[c]] # NoInode => content[entry[Target[c]]] # Absent
    BY <1>1, AbsentIsNoText DEF FilesInv, FilesTypeOK, TextsOK
  <1> QED BY <1>1, <1>2 DEF FileText, Entry

LEMMA InitIsAbstract == Init => Abstract!Init
  <1> SUFFICES ASSUME Init PROVE Abstract!Init
    OBVIOUS
  <1>1. FileText \in [Names -> {InitialText, Absent}]
    BY FilesAssumption DEF Init, FileText
  <1> QED BY <1>1 DEF Init, Abstract!Init, Abstract!Calls, Calls

\* A step that changes no name, no file and no outcome.
LEMMA Unseen == ASSUME UNCHANGED <<dir, result>> PROVE UNCHANGED <<FileText, result>>
  BY DEF dir, FileText

\* A step of a call with an outcome, as a step of the abstract specification.
LEMMA GivesUp ==
  ASSUME NEW c \in Calls, result[c] = "none", UNCHANGED dir,
         Returns(c, "cancelled") \/ Returns(c, "failed")
  PROVE  Abstract!Next
  <1>1. Abstract!GiveUp(c)
    BY DEF Abstract!GiveUp, Abstract!Finish, Returns, dir, FileText
  <1> QED BY <1>1 DEF Abstract!Next, Abstract!Calls, Calls

LEMMA Refuses ==
  ASSUME FilesInv, NEW c \in Edits, result[c] = "none", UNCHANGED dir, Returns(c, "nomatch"),
         Entry(c) = NoInode \/ Old[c] \notin content[Entry(c)]
  PROVE  Abstract!Next
  <1>1. ~Abstract!Found(c)
    BY TextOfName DEF Abstract!Found, Calls
  <1>2. Abstract!Refuse(c)
    BY <1>1 DEF Abstract!Refuse, Abstract!Finish, Returns, dir, FileText
  <1> QED BY <1>2 DEF Abstract!Next

\* The temporary file is nobody's file: writing it changes no file.
LEMMA CreateUnseen ==
  ASSUME FilesInv, NEW c \in Calls, Create(c)
  PROVE  UNCHANGED <<FileText, result>>
  <1>1. UNCHANGED <<entry, result>>
    BY DEF Create
  <1>2. PICK i \in Inodes : Free(i) /\ content' = [content EXCEPT ![i] = NewText(c)]
    BY NewFile
  <1>3. \A n \in Names : entry[n] # NoInode => content'[entry[n]] = content[entry[n]]
    BY <1>2 DEF Free, FilesInv, FilesTypeOK
  <1> QED BY <1>1, <1>3 DEF FileText

\* The rename is the edit, or the write.
LEMMA RenameIsTheChange ==
  ASSUME SerialInv, NEW c \in Calls, Rename(c)
  PROVE  Abstract!Next
  <1>1. /\ c \in Mutating /\ pc[c] = "rename" /\ UNCHANGED content
        /\ entry' = [entry EXCEPT ![Target[c]] = tmp[c]]
        /\ Returns(c, "ok")
    BY DEF Rename, Goto
  <1>2. /\ result[c] = "none" /\ tmp[c] # NoInode /\ content[tmp[c]] = NewText(c)
    BY <1>1 DEF SerialInv, FilesInv, CallsOK, TemporaryOK, Pending
  <1>3. Abstract!Finish(c, "ok")
    BY <1>1, <1>2 DEF Abstract!Finish, Returns
  <1>4. FileText' = [FileText EXCEPT ![Target[c]] = NewText(c)]
    BY <1>1, <1>2, FilesAssumption DEF FileText, SerialInv, FilesInv, FilesTypeOK
  <1>5. CASE c \in Writes
    <2>1. NewText(c) = Written[c]
      BY <1>5, FilesAssumption DEF NewText
    <2> QED BY <1>3, <1>4, <1>5, <2>1 DEF Abstract!Next, Abstract!Write
  <1>6. CASE c \in Edits
    <2>1. /\ Entry(c) # NoInode
          /\ Old[c] \in text[c] /\ text[c] = content[Entry(c)]
      BY <1>1, <1>6 DEF SerialInv, FilesInv, LocksOK, EntriesKept, TextFound, Leased, Entered
    <2>2. FileText[Target[c]] # Absent /\ FileText[Target[c]] = text[c]
      BY <2>1, TextOfName DEF SerialInv
    <2>3. Abstract!Found(c)
      BY <2>1, <2>2 DEF Abstract!Found
    <2>4. FileText' = [FileText EXCEPT ![Target[c]] = (@ \ {Old[c]}) \cup {New[c]}]
      BY <1>4, <1>6, <2>2 DEF NewText
    <2> QED BY <1>3, <1>6, <2>3, <2>4 DEF Abstract!Next, Abstract!Edit
  <1> QED BY <1>1, <1>5, <1>6 DEF Mutating

\* A read sees one text, or none.
LEMMA LoadIsARead ==
  ASSUME FilesInv, NEW c \in Calls, Load(c)
  PROVE  Abstract!Next
  <1>1. /\ pc[c] = "load" /\ UNCHANGED dir
        /\ Returns(c, IF Entry(c) = NoInode THEN "nomatch" ELSE "ok")
    BY DEF Load, Goto
  <1>2. c \in Reads /\ result[c] = "none"
    BY <1>1 DEF FilesInv, CallsOK, Pending
  <1>3. FileText[Target[c]] = Absent <=> Entry(c) = NoInode
    BY TextOfName
  <1>4. UNCHANGED FileText
    BY <1>1 DEF dir, FileText
  <1>5. Abstract!Read(c)
    BY <1>1, <1>2, <1>3, <1>4 DEF Abstract!Read, Abstract!Finish, Returns
  <1> QED BY <1>2, <1>5 DEF Abstract!Next

\* Every step of a call is a step of the abstract specification, or changes nothing in it.
LEMMA WorkIsAbstract ==
  ASSUME SerialInv, NEW c \in Calls, Work(c)
  PROVE  AbstractStep
  <1> USE DEF AbstractStep
  <1>1. FilesInv
    BY DEF SerialInv
  <1>2. CASE Begin(c)
    BY <1>1, <1>2, Unseen, GivesUp DEF Begin, Goto, FilesInv, CallsOK, Pending
  <1>3. CASE Load(c)
    BY <1>1, <1>3, LoadIsARead
  <1>4. CASE Create(c)
    BY <1>1, <1>4, CreateUnseen
  <1>5. CASE CreateFails(c)
    <2>1. result[c] = "none"
      BY <1>1, <1>5 DEF CreateFails, FilesInv, CallsOK, Pending
    <2> QED BY <1>5, <2>1, GivesUp DEF CreateFails
  <1>6. CASE Rename(c)
    BY <1>6, RenameIsTheChange
  <1>7. CASE Identify(c)
    <2>1. c \in Edits /\ result[c] = "none" /\ UNCHANGED dir
      BY <1>1, <1>7 DEF Identify, Goto, FilesInv, CallsOK, Pending
    <2> QED BY <1>1, <1>7, <2>1, Unseen, Refuses DEF Identify
  <1>8. CASE Validate(c)
    <2>1. c \in Edits /\ result[c] = "none" /\ UNCHANGED dir
      BY <1>1, <1>8 DEF Validate, Goto, FilesInv, CallsOK, Pending
    <2> QED BY <1>1, <1>8, <2>1, Unseen, Refuses DEF Validate
  <1>9. CASE Read(c)
    <2>1. c \in Edits /\ result[c] = "none" /\ UNCHANGED dir
      BY <1>1, <1>9 DEF Read, Goto, FilesInv, CallsOK, Pending
    <2> QED BY <1>1, <1>9, <2>1, Unseen, Refuses DEF Read
  <1>10. CASE Acquire(c) \/ Lock(c) \/ Publish(c) \/ Unlock(c) \/ Drop(c)
    <2>1. UNCHANGED <<dir, result>>
      BY <1>10 DEF Acquire, Lock, Publish, Unlock, Drop, dir
    <2> QED BY <2>1, Unseen
  <1> QED BY <1>2, <1>3, <1>4, <1>5, <1>6, <1>7, <1>8, <1>9, <1>10 DEF Work

LEMMA StepIsAbstract == SerialInv /\ [Next]_vars => AbstractStep
  <1> SUFFICES ASSUME SerialInv, [Next]_vars PROVE AbstractStep
    OBVIOUS
  <1>1. CASE UNCHANGED vars
    BY <1>1, Unseen DEF vars, dir, AbstractStep
  <1>2. ASSUME NEW c \in Calls, Cancel(c) \/ Report(c) \/ StopWaiting(c)
        PROVE  AbstractStep
    BY <1>2, Unseen DEF Cancel, Report, StopWaiting, dir, AbstractStep
  <1>3. ASSUME NEW c \in Calls, Work(c) PROVE AbstractStep
    BY <1>3, WorkIsAbstract
  <1> QED BY <1>1, <1>2, <1>3 DEF Next, Finished

\* Concurrent edits behave as if each happened in a single step: none is lost, none is
\* applied to a text it did not see, and a refusal was right at that moment (atomic_write,
\* files.rs:243-286; EditFile::edit, files.rs:419-462).
THEOREM EditsImplementFileSpec ==
  ASSUME ~Reuse
  PROVE  Spec => EditsAreAtomic
  <1>1. SerialInv /\ [Next]_vars => [Abstract!Next]_<<FileText, result>>
    BY StepIsAbstract DEF AbstractStep
  <1>2. Spec => []SerialInv
    BY SerialInvariant
  <1> QED BY <1>1, <1>2, InitIsAbstract, PTL DEF Spec, EditsAreAtomic

=============================================================================
