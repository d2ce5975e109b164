--------------------------- MODULE AuditLogProofs ---------------------------
(* Theorems about AuditLog, for every number of calls, ring size, rotation *)
(* setting and pattern of faults; and about what it leaves on disk while   *)
(* no checkpoint rewrites it, any number of restarts included.             *)
EXTENDS AuditLog, SequenceTheorems, TLAPS

-----------------------------------------------------------------------------
(* The ring *)

(* Pushing onto a ring that has room, or whose oldest entry goes, keeps    *)
(* the newest entries in order and e behind them.                          *)
LEMMA PushedBackRing ==
    ASSUME MemoryType, NEW e \in Entry
    PROVE  LET n == Len(entries)
               ring == PushedBack(e)
               gone == IF n < MaxEntries THEN 0 ELSE 1
           IN /\ ring \in Seq(Entry)
              /\ Len(ring) = n + 1 - gone
              /\ \A i \in 1 .. n - gone : ring[i] = entries[i + gone]
              /\ ring[n + 1 - gone] = e
<1> USE AuditAssumption
<1>0. entries \in Seq(Entry) /\ Len(entries) \in Nat /\ Len(entries) <= MaxEntries
    BY LenProperties DEF MemoryType
<1>1. CASE Len(entries) < MaxEntries
    BY <1>0, <1>1, AppendProperties DEF PushedBack
<1>2. CASE ~ (Len(entries) < MaxEntries)
    <2>1. Len(entries) = MaxEntries /\ entries # <<>>
        BY <1>0, <1>2, EmptySeq
    <2>2. /\ Tail(entries) \in Seq(Entry)
          /\ Len(Tail(entries)) = Len(entries) - 1
          /\ \A i \in 1 .. Len(Tail(entries)) : Tail(entries)[i] = entries[i + 1]
        BY <1>0, <2>1, HeadTailProperties
    <2>3. PushedBack(e) = Append(Tail(entries), e)
        BY <1>2 DEF PushedBack
    <2>4. /\ Append(Tail(entries), e) \in Seq(Entry)
          /\ Len(Append(Tail(entries), e)) = Len(entries)
          /\ \A i \in 1 .. Len(Tail(entries)) :
                Append(Tail(entries), e)[i] = Tail(entries)[i]
          /\ Append(Tail(entries), e)[Len(entries)] = e
        BY <1>0, <2>2, AppendProperties
    <2> QED BY <1>0, <1>2, <2>1, <2>2, <2>3, <2>4
<1> QED BY <1>1, <1>2

-----------------------------------------------------------------------------
(* The directory *)

(* Storing a text at a slot leaves a directory. *)
LEMMA StoreType ==
    ASSUME IsDirectory(files), NEW s \in Slots, NEW text \in Seq(Token)
    PROVE  IsDirectory(Store(s, text))
BY DEF IsDirectory, Store

LEMMA TextType ==
    ASSUME IsDirectory(files), NEW s
    PROVE  Text(s) \in Seq(Token)
BY EmptySeq DEF IsDirectory, Text, Exists

(* So does a rename to the next slot, *)
LEMMA RenamedType ==
    ASSUME IsDirectory(files), NEW s \in Slots, s + 1 \in Slots, Exists(s)
    PROVE  IsDirectory(Renamed(s))
BY DEF IsDirectory, Renamed, Exists

(* and a removal. *)
LEMMA RemovedType ==
    ASSUME IsDirectory(files), NEW s
    PROVE  IsDirectory(Removed(s))
BY DEF IsDirectory, Removed

(* The lines of entries are a text, *)
LEMMA EncodedType ==
    ASSUME NEW es \in Seq(Entry)
    PROVE  Encoded(es) \in Seq(Token)
<1>1. Len(es) \in Nat
    BY LenProperties
<1>2. ASSUME NEW i \in 1 .. 2 * Len(es)
      PROVE  (IF i % 2 = 1 THEN es[(i + 1) \div 2] ELSE Newline) \in Token
    <2>1. CASE i % 2 = 1
        <3>1. (i + 1) \div 2 \in 1 .. Len(es)
            BY <1>1, <2>1
        <3> QED BY <2>1, <3>1, ElementOfSeq DEF Token
    <2>2. CASE i % 2 # 1
        BY <2>2 DEF Token
    <2> QED BY <2>1, <2>2
<1>3. 2 * Len(es) \in Nat
    BY <1>1
<1> HIDE DEF Token
<1> QED BY <1>2, <1>3 DEF Encoded

(* and writing one over another at its start leaves a text. *)
LEMMA OverwriteType ==
    ASSUME NEW old \in Seq(Token), NEW text \in Seq(Token)
    PROVE  Overwrite(old, text) \in Seq(Token)
<1>1. Len(old) \in Nat /\ Len(text) \in Nat
    BY LenProperties
<1>2. \A i \in Len(text) + 1 .. Len(old) : old[i] \in Token
    BY <1>1, ElementOfSeq
<1>3. SubSeq(old, Len(text) + 1, Len(old)) \in Seq(Token)
    BY <1>1, <1>2, SubSeqProperties
<1> QED BY <1>3, ConcatProperties DEF Overwrite

-----------------------------------------------------------------------------
(* Type correctness *)

(* A recording step keeps the types. *)
LEMMA RecordType ==
    ASSUME TypeOK, NEW c \in Calls, Record(c)
    PROVE  TypeOK'
<1> USE AuditAssumption
<1>0. 0 \in Slots /\ MaxFiles \in Slots
    BY DEF Slots
<1>1. CASE Chain(c)
    <2>1. ChainedEntry \in Entry
        BY DEF TypeOK, MemoryType, ChainedEntry, Entry, Hashes
    <2>2. MemoryType'
        BY <1>1, <2>1 DEF Chain, TypeOK, MemoryType, ChainedEntry, Entry, Hashes
    <2>3. DiskType'
        BY <1>1 DEF Chain, disk, TypeOK, DiskType, IsDirectory
    <2>4. LocalsType'
        BY <1>1, <2>1 DEF Chain, TypeOK, LocalsType, Goto, Steps
    <2> QED BY <2>2, <2>3, <2>4 DEF TypeOK
<1>2. CASE CheckSize(c)
    <2>1. MemoryType' /\ DiskType'
        BY <1>2 DEF CheckSize, memory, disk, TypeOK, MemoryType, DiskType,
                    IsDirectory
    <2>2. RotationDue => MaxFiles > 0
        BY DEF RotationDue
    <2>3. CASE /\ RotationDue
               /\ Goto(c, "rotate")
               /\ slot' = [slot EXCEPT ![c] = MaxFiles]
        BY <1>0, <1>2, <2>1, <2>2, <2>3 DEF CheckSize, TypeOK, LocalsType, Goto, Steps
    <2>4. CASE Goto(c, "append") /\ UNCHANGED slot
        BY <1>2, <2>1, <2>4 DEF CheckSize, TypeOK, LocalsType, Goto, Steps
    <2> QED BY <1>2, <2>3, <2>4 DEF CheckSize, FirstSlot
<1>3. CASE RotateSlot(c)
    <2>1. slot[c] \in Slots /\ slot[c] > 0 /\ slot[c] - 1 \in Slots
        BY <1>3 DEF RotateSlot, TypeOK, LocalsType, Slots
    <2>2. MemoryType'
        BY <1>3 DEF RotateSlot, memory, TypeOK, MemoryType
    <2>3. IsDirectory(files)
        BY DEF TypeOK, DiskType
    <2>4. IsDirectory(files') /\ fd' \in [Calls -> Slots \cup {Unlinked}]
        <3>1. CASE /\ Exists(slot[c] - 1)
                   /\ files' = Renamed(slot[c] - 1)
                   /\ fd' = FollowRename(slot[c] - 1)
            <4>1. (slot[c] - 1) + 1 \in Slots
                BY <2>1 DEF Slots
            <4> QED BY <2>1, <2>3, <3>1, <4>1, RenamedType
                    DEF FollowRename, TypeOK, LocalsType
        <3>2. CASE files' = Removed(slot[c]) /\ fd' = Unlink(slot[c])
            BY <2>1, <2>3, <3>2, RemovedType DEF Unlink, TypeOK, LocalsType
        <3>3. CASE UNCHANGED <<files, fd>>
            BY <2>3, <3>3 DEF TypeOK, LocalsType
        <3> QED BY <1>3, <3>1, <3>2, <3>3 DEF RotateSlot
    <2>5. DiskType'
        BY <1>3, <2>4 DEF RotateSlot, TypeOK, DiskType, IsDirectory
    <2>6. slot[c] # 1 => slot[c] - 1 > 0
        BY <2>1 DEF Slots
    <2>7. LocalsType'
        BY <1>3, <2>1, <2>4, <2>6 DEF RotateSlot, TypeOK, LocalsType, Goto, Steps
    <2> QED BY <2>2, <2>5, <2>7 DEF TypeOK
<1>4. ASSUME AppendEntry(c) \/ AppendNewline(c)
      PROVE  TypeOK'
    <2>1. MemoryType'
        BY <1>4 DEF AppendEntry, AppendNewline, memory, TypeOK, MemoryType
    <2>2. LocalsType'
        BY <1>4 DEF AppendEntry, AppendNewline, locals, TypeOK, LocalsType, Goto, Steps
    <2>3. IsDirectory(files) /\ Text(0) \in Seq(Token) /\ entry[c] \in Token
        BY TextType DEF TypeOK, DiskType, LocalsType, Token
    <2>4. ASSUME NEW t \in Token
          PROVE  IsDirectory(Store(0, Append(Text(0), t)))
        BY <1>0, <2>3, StoreType, AppendProperties
    <2>5. IsDirectory(Store(0, Text(0)))
        BY <1>0, <2>3, StoreType
    <2>6. Newline \in Token /\ Fragment \in Token
        BY DEF Token
    <2>7. IsDirectory(files')
        BY <1>4, <2>3, <2>4, <2>5, <2>6 DEF AppendEntry, AppendNewline
    <2>8. DiskType'
        BY <1>4, <2>7 DEF AppendEntry, AppendNewline, TypeOK, DiskType, IsDirectory
    <2> QED BY <2>1, <2>2, <2>8 DEF TypeOK
<1>5. CASE Push(c)
    <2>1. entry[c] \in Entry
        BY DEF TypeOK, LocalsType
    <2>2. MemoryType /\ Len(entries) \in Nat
        BY LenProperties DEF TypeOK, MemoryType
    <2>3. PushedBack(entry[c]) \in Seq(Entry) /\ Len(PushedBack(entry[c])) <= MaxEntries
        <3>1. /\ PushedBack(entry[c]) \in Seq(Entry)
              /\ Len(PushedBack(entry[c]))
                    = Len(entries) + 1 - (IF Len(entries) < MaxEntries THEN 0 ELSE 1)
            BY <2>1, <2>2, PushedBackRing
        <3>2. Len(entries) <= MaxEntries
            BY <2>2 DEF MemoryType
        <3> QED BY <2>2, <3>1, <3>2
    <2>4. MemoryType'
        BY <1>5, <2>2, <2>3 DEF Push, MemoryType
    <2>5. DiskType'
        BY <1>5 DEF Push, disk, TypeOK, DiskType, IsDirectory
    <2>6. LocalsType'
        BY <1>5 DEF Push, TypeOK, LocalsType, Goto, Steps, NoEntry, None, Entry, Hashes
    <2> QED BY <2>4, <2>5, <2>6 DEF TypeOK
<1> QED BY <1>1, <1>2, <1>3, <1>4, <1>5 DEF Record

(* So does a step of a checkpoint. *)
LEMMA CheckpointType ==
    ASSUME TypeOK, NEW c \in Calls, Checkpoint(c)
    PROVE  TypeOK'
<1> USE AuditAssumption
<1>0. 0 \in Slots
    BY DEF Slots
<1>e. <<>> \in Seq(Entry)
    BY EmptySeq
<1>1. MemoryType'
    BY DEF Checkpoint, ReadHash, TakeSnapshot, TruncateLog, WriteLog,
           CommitCheckpoint, memory, TypeOK, MemoryType
<1>2. IsDirectory(files)
    BY DEF TypeOK, DiskType
<1>f. ASSUME Finish(c), UNCHANGED <<entry, slot>>
      PROVE  LocalsType'
    BY <1>e, <1>f DEF Finish, TypeOK, LocalsType, Goto, Steps, Hashes, None
<1>3. CASE ReadHash(c)
    BY <1>1, <1>3 DEF ReadHash, disk, TypeOK, MemoryType, DiskType, LocalsType,
                      IsDirectory, Goto, Steps
<1>4. CASE TakeSnapshot(c)
    <2>1. Snapshot(MaxEntries) = entries
        BY DEF Snapshot, TypeOK, MemoryType
    <2> QED BY <1>1, <1>4, <2>1 DEF TakeSnapshot, disk, TypeOK, MemoryType, DiskType,
                                    LocalsType, IsDirectory, Goto, Steps
<1>5. CASE TruncateLog(c)
    <2>1. IsDirectory(Store(0, <<>>))
        BY <1>0, <1>2, StoreType, EmptySeq
    <2>2. DiskType'
        BY <1>2, <1>5, <2>1 DEF TruncateLog, TypeOK, DiskType, IsDirectory
    <2>3. CASE /\ fd' = [fd EXCEPT ![c] = 0]
               /\ Goto(c, "write")
               /\ UNCHANGED <<read_hash, lines>>
        BY <1>0, <1>1, <1>5, <2>2, <2>3 DEF TruncateLog, TypeOK, LocalsType, Goto, Steps
    <2>4. CASE Finish(c)
        BY <1>1, <1>5, <1>f, <2>2, <2>4 DEF TruncateLog, TypeOK
    <2> QED BY <1>5, <2>3, <2>4 DEF TruncateLog
<1>6. CASE WriteLog(c)
    <2> DEFINE text == Encoded(lines[c])
    <2>1. text \in Seq(Token) /\ Len(text) \in Nat
        BY EncodedType, LenProperties DEF TypeOK, LocalsType
    <2>2. ASSUME NEW t \in Seq(Token), WriteTo(fd[c], t)
          PROVE  IsDirectory(files')
        <3>1. CASE fd[c] = Unlinked
            BY <1>2, <2>2, <3>1 DEF WriteTo
        <3>2. CASE fd[c] # Unlinked
            <4>1. fd[c] \in Slots
                BY <3>2 DEF TypeOK, LocalsType
            <4>2. Overwrite(Text(fd[c]), t) \in Seq(Token)
                BY <1>2, TextType, OverwriteType
            <4> QED BY <1>2, <2>2, <3>2, <4>1, <4>2, StoreType DEF WriteTo
        <3> QED BY <3>1, <3>2
    <2>3. ASSUME NEW k \in 0 .. Len(text) - 1
          PROVE  SubSeq(text, 1, k) \in Seq(Token)
        <3>1. \A i \in 1 .. k : text[i] \in Token
            BY <2>1, ElementOfSeq
        <3> HIDE DEF text
        <3> QED BY <2>1, <3>1, SubSeqProperties
    <2>4. IsDirectory(files')
        BY <1>6, <2>1, <2>2, <2>3 DEF WriteLog
    <2>5. DiskType'
        BY <1>6, <2>4 DEF WriteLog, TypeOK, DiskType, IsDirectory
    <2>6. CASE /\ fd' = [fd EXCEPT ![c] = Unlinked]
               /\ Goto(c, "commit")
               /\ UNCHANGED <<read_hash, lines>>
        BY <1>1, <1>6, <2>5, <2>6 DEF WriteLog, TypeOK, LocalsType, Goto, Steps
    <2>7. CASE Finish(c)
        BY <1>1, <1>6, <1>f, <2>5, <2>7 DEF WriteLog, TypeOK
    <2> QED BY <1>6, <2>6, <2>7 DEF WriteLog
<1>7. CASE CommitCheckpoint(c)
    <2>1. DiskType'
        BY <1>7 DEF CommitCheckpoint, TypeOK, DiskType, LocalsType, IsDirectory,
                    Hashes, None
    <2>2. LocalsType'
        BY <1>7, <1>f DEF CommitCheckpoint
    <2> QED BY <1>1, <2>1, <2>2 DEF TypeOK
<1> QED BY <1>3, <1>4, <1>5, <1>6, <1>7 DEF Checkpoint

(* The types of the state hold in every reachable state. *)
THEOREM TypeCorrect == Spec => []TypeOK
<1> USE AuditAssumption
<1>1. Init => TypeOK
    <2>1. <<>> \in Seq(Entry) /\ Len(<<>>) = 0
        BY EmptySeq
    <2> QED BY <2>1 DEF Init, TypeOK, MemoryType, DiskType, LocalsType, IsDirectory,
                        Hashes, None, NoEntry, Entry, Steps, Slots
<1>2. TypeOK /\ [Next]_vars => TypeOK'
    <2> SUFFICES ASSUME TypeOK, [Next]_vars PROVE TypeOK'
        OBVIOUS
    <2>1. ASSUME NEW c \in Calls, Begin(c) PROVE TypeOK'
        BY <2>1 DEF Begin, memory, disk, locals, TypeOK, MemoryType, DiskType,
                    LocalsType, IsDirectory, Goto, Steps
    <2>2. CASE Restart
        <3>1. <<>> \in Seq(Entry) /\ Len(<<>>) = 0
            BY EmptySeq
        <3>2. MemoryType'
            BY <2>2, <3>1 DEF Restart, TypeOK, MemoryType, Hashes, None
        <3>3. DiskType'
            BY <2>2 DEF Restart, disk, TypeOK, DiskType, IsDirectory
        <3>4. LocalsType'
            BY <2>2, <3>1 DEF Restart, LocalsType, Hashes, None, NoEntry, Entry, Steps,
                              Slots
        <3> QED BY <3>2, <3>3, <3>4 DEF TypeOK
    <2>3. CASE UNCHANGED vars
        BY <2>3 DEF vars, memory, disk, locals, TypeOK, MemoryType, DiskType,
                    LocalsType, IsDirectory
    <2> QED BY <2>1, <2>2, <2>3, RecordType, CheckpointType DEF Next
<1> QED BY <1>1, <1>2, PTL DEF Spec

-----------------------------------------------------------------------------
(* The ring is the chained tail of what was recorded *)

(* Exactly the call between Chain and Push holds the guard of last_hash. *)
GuardHeld == \A c \in Calls : pc[c] \in Recording <=> hash_lock = c

(* last_hash is the newest hash of this process, and the holder's entry is *)
(* the one that was given it.                                              *)
ChainHead ==
    /\ booted <= issued
    /\ last_hash = IF issued = booted THEN None ELSE issued
    /\ \A c \in Calls :
          hash_lock = c => /\ booted < issued
                           /\ entry[c] = [hash |-> issued, prev |-> Previous(issued)]

(* A hash a checkpoint has read belongs to an entry that was on the ring. *)
HashReadOnRing ==
    \A c \in Calls :
        pc[c] = "snapshot" /\ read_hash[c] # None
            => booted < read_hash[c] /\ read_hash[c] <= Pushed

ChainInv == TypeOK /\ GuardHeld /\ ChainHead /\ RingIsChainTail

Inv == ChainInv /\ HashReadOnRing /\ CheckpointWithinLines

LEMMA InitInv ==
    ASSUME Init, TypeOK
    PROVE  Inv
<1> USE AuditAssumption
<1>1. GuardHeld
    BY DEF Init, GuardHeld, Recording
<1>2. ChainHead
    BY DEF Init, ChainHead
<1>3. Len(entries) = 0 /\ Pushed - booted = 0
    BY EmptySeq DEF Init, Pushed
<1>4. HashReadOnRing /\ CheckpointWithinLines
    BY DEF Init, HashReadOnRing, CheckpointWithinLines
<1> QED BY <1>1, <1>2, <1>3, <1>4 DEF Inv, ChainInv, RingIsChainTail

(* Steps that leave the memory of the log alone, and the guard. *)
LEMMA ChainInvFrame ==
    ASSUME ChainInv, TypeOK', UNCHANGED <<memory, entry>>,
           \A c \in Calls : pc'[c] \in Recording <=> pc[c] \in Recording
    PROVE  ChainInv'
BY DEF ChainInv, memory, GuardHeld, ChainHead, RingIsChainTail, Pushed, Previous

LEMMA ChainInvChain ==
    ASSUME ChainInv, TypeOK', NEW c \in Calls, Chain(c)
    PROVE  ChainInv'
<1> USE AuditAssumption DEF ChainInv
<1>1. issued \in Nat /\ booted \in Nat /\ hash_lock = Free /\ hash_lock' = c
    BY DEF TypeOK, MemoryType, Hashes, Chain, LockFree
<1>2. GuardHeld'
    BY <1>1 DEF GuardHeld, Chain, Goto, Recording, TypeOK, LocalsType
<1>3. ChainHead'
    <2>1. /\ booted' = booted /\ issued' = issued + 1
          /\ last_hash' = issued + 1
          /\ entry'[c] = [hash |-> issued + 1, prev |-> last_hash]
        BY DEF Chain, ChainedEntry, TypeOK, LocalsType
    <2>2. last_hash = IF issued + 1 = booted + 1 THEN None ELSE (issued + 1) - 1
        BY <1>1 DEF ChainHead
    <2> QED BY <1>1, <2>1, <2>2 DEF ChainHead, Previous
<1>4. Pushed' = Pushed /\ UNCHANGED <<entries, booted>>
    BY <1>1 DEF Pushed, Chain
<1>5. RingIsChainTail'
    BY <1>4 DEF RingIsChainTail, Previous
<1> QED BY <1>2, <1>3, <1>5

LEMMA ChainInvPush ==
    ASSUME ChainInv, TypeOK', NEW c \in Calls, Push(c)
    PROVE  ChainInv'
<1> USE AuditAssumption
<1> DEFINE n == Len(entries)
           gone == IF n < MaxEntries THEN 0 ELSE 1
<1>1. /\ issued \in Nat /\ booted \in Nat /\ n \in Nat /\ n <= MaxEntries
      /\ MaxEntries \in Nat \ {0}
    BY LenProperties DEF ChainInv, TypeOK, MemoryType, Hashes
<1>2. hash_lock = c /\ hash_lock' = Free
    BY DEF ChainInv, GuardHeld, Push, Recording
<1>3. Pushed = issued - 1 /\ Pushed' = issued /\ UNCHANGED <<issued, booted, last_hash>>
    BY <1>2 DEF Pushed, Push
<1>4. booted < issued /\ entry[c] = [hash |-> issued, prev |-> Previous(issued)]
    BY <1>2 DEF ChainInv, ChainHead
<1>5. GuardHeld'
    BY <1>2 DEF ChainInv, GuardHeld, Push, Goto, Recording, TypeOK, LocalsType
<1>6. ChainHead'
    BY <1>2, <1>3 DEF ChainInv, ChainHead
<1>7. RingIsChainTail'
    <2>1. entry[c] \in Entry /\ MemoryType
        BY DEF ChainInv, TypeOK, LocalsType
    <2>2. /\ Len(entries') = n + 1 - gone
          /\ \A i \in 1 .. n - gone : entries'[i] = entries[i + gone]
          /\ entries'[n + 1 - gone] = entry[c]
        BY <2>1, PushedBackRing DEF Push
    <2>3. n = IF issued - 1 - booted < MaxEntries THEN issued - 1 - booted ELSE MaxEntries
        BY <1>3 DEF ChainInv, RingIsChainTail
    <2>4. \A i \in 1 .. n : /\ entries[i].hash = issued - 1 - n + i
                           /\ entries[i].prev = Previous(entries[i].hash)
        BY <1>3 DEF ChainInv, RingIsChainTail
    <2> DEFINE m == n + 1 - gone
    <2>5. m = IF issued - booted < MaxEntries THEN issued - booted ELSE MaxEntries
        BY <1>1, <1>4, <2>3
    <2>6. ASSUME NEW i \in 1 .. m
          PROVE  /\ entries'[i].hash = issued - m + i
                 /\ entries'[i].prev = Previous(entries'[i].hash)
        <3>1. CASE i = m
            BY <1>1, <1>4, <2>2, <3>1
        <3>2. CASE i # m
            <4>1. i \in 1 .. n - gone /\ i + gone \in 1 .. n
                BY <1>1, <3>2
            <4>2. entries'[i] = entries[i + gone]
                BY <2>2, <4>1
            <4>3. entries[i + gone].hash = issued - 1 - n + (i + gone)
                BY <2>4, <4>1
            <4>4. issued - 1 - n + (i + gone) = issued - m + i
                BY <1>1
            <4> QED BY <2>4, <4>1, <4>2, <4>3, <4>4
        <3> QED BY <3>1, <3>2
    <2>7. \A h : Previous(h)' = Previous(h)
        BY <1>3 DEF Previous
    <2> QED BY <1>3, <2>2, <2>5, <2>6, <2>7 DEF RingIsChainTail
<1> QED BY <1>5, <1>6, <1>7 DEF ChainInv

LEMMA ChainInvRestart ==
    ASSUME ChainInv, TypeOK', Restart
    PROVE  ChainInv'
<1> USE AuditAssumption
<1>1. /\ issued \in Nat /\ issued' = issued /\ booted' = issued
      /\ hash_lock' = Free /\ entries' = <<>> /\ last_hash' = None
      /\ pc' = [c \in Calls |-> "idle"]
    BY DEF ChainInv, TypeOK, MemoryType, Hashes, Restart
<1>2. GuardHeld'
    BY <1>1 DEF GuardHeld, Recording
<1>3. ChainHead'
    BY <1>1 DEF ChainHead
<1>4. RingIsChainTail'
    <2>1. Pushed' = issued /\ Pushed' - booted' = 0
        BY <1>1 DEF Pushed
    <2>2. Len(entries') = 0
        BY <1>1, EmptySeq
    <2> QED BY <2>1, <2>2 DEF RingIsChainTail
<1> QED BY <1>2, <1>3, <1>4 DEF ChainInv

(* Whatever interleaves or fails, the ring is the unbroken chained tail. *)
LEMMA ChainInvStep ==
    ASSUME ChainInv, TypeOK', [Next]_vars
    PROVE  ChainInv'
<1>1. ASSUME NEW c \in Calls, Begin(c) PROVE ChainInv'
    BY <1>1, ChainInvFrame
       DEF Begin, locals, Goto, Recording, ChainInv, TypeOK, LocalsType
<1>2. ASSUME NEW c \in Calls, Record(c) PROVE ChainInv'
    <2>1. CASE CheckSize(c)
        BY <2>1, ChainInvFrame
           DEF CheckSize, Goto, Recording, ChainInv, TypeOK, LocalsType
    <2>2. CASE RotateSlot(c)
        BY <2>2, ChainInvFrame
           DEF RotateSlot, Goto, Recording, ChainInv, TypeOK, LocalsType
    <2>3. CASE AppendEntry(c)
        BY <2>3, ChainInvFrame
           DEF AppendEntry, locals, Goto, Recording, ChainInv, TypeOK, LocalsType
    <2>4. CASE AppendNewline(c)
        BY <2>4, ChainInvFrame
           DEF AppendNewline, locals, Goto, Recording, ChainInv, TypeOK, LocalsType
    <2> QED BY <1>2, <2>1, <2>2, <2>3, <2>4, ChainInvChain, ChainInvPush DEF Record
<1>3. ASSUME NEW c \in Calls, Checkpoint(c) PROVE ChainInv'
    BY <1>3, ChainInvFrame
       DEF Checkpoint, ReadHash, TakeSnapshot, TruncateLog, WriteLog,
           CommitCheckpoint, Finish, Goto, Recording, ChainInv, TypeOK, LocalsType
<1>4. CASE UNCHANGED vars
    BY <1>4, ChainInvFrame DEF vars, locals
<1> QED BY <1>1, <1>2, <1>3, <1>4, ChainInvRestart DEF Next

(* The ring is the unbroken, hash-chained tail of what this process        *)
(* recorded (AuditLog::record), for any number of concurrent calls, any    *)
(* ring size, and whatever the file operations do.                         *)
THEOREM RingChained == Spec => []RingIsChainTail
<1> USE AuditAssumption
<1>1. Init /\ TypeOK => ChainInv
    BY InitInv DEF Inv
<1>2. ChainInv /\ TypeOK' /\ [Next]_vars => ChainInv'
    BY ChainInvStep
<1>3. ChainInv => RingIsChainTail
    BY DEF ChainInv
<1> QED BY <1>1, <1>2, <1>3, TypeCorrect, PTL DEF Spec

-----------------------------------------------------------------------------
(* A checkpoint's hash is among the lines it writes, or overtaken there *)

(* What has been pushed stays pushed while the process lives. *)
LEMMA PushedGrows ==
    ASSUME ChainInv, [Next]_vars, ~Restart
    PROVE  Pushed <= Pushed' /\ UNCHANGED booted
<1> USE AuditAssumption
<1>0. issued \in Nat
    BY DEF ChainInv, TypeOK, MemoryType, Hashes
<1>1. ASSUME NEW c \in Calls, Chain(c)
      PROVE  Pushed <= Pushed' /\ UNCHANGED booted
    BY <1>0, <1>1 DEF Chain, LockFree, Pushed
<1>2. ASSUME NEW c \in Calls, Push(c)
      PROVE  Pushed <= Pushed' /\ UNCHANGED booted
    BY <1>0, <1>2 DEF Push, Pushed
<1>3. ASSUME UNCHANGED memory
      PROVE  Pushed <= Pushed' /\ UNCHANGED booted
    BY <1>0, <1>3 DEF memory, Pushed
<1>4. [Next]_vars /\ ~Restart /\ ~(\E c \in Calls : Chain(c) \/ Push(c))
        => UNCHANGED memory
    BY DEF Next, Begin, Record, CheckSize, RotateSlot, AppendEntry, AppendNewline,
           Checkpoint, ReadHash, TakeSnapshot, TruncateLog, WriteLog,
           CommitCheckpoint, vars
<1> QED BY <1>1, <1>2, <1>3, <1>4

LEMMA InvStep ==
    ASSUME Inv, ChainInv', [Next]_vars
    PROVE  Inv'
<1> USE AuditAssumption
<1>0. ChainInv /\ HashReadOnRing /\ CheckpointWithinLines
    BY DEF Inv
<1>1. CASE Restart
    BY <1>1 DEF Inv, Restart, HashReadOnRing, CheckpointWithinLines
<1>2. CASE ~Restart
    <2>1. /\ Pushed \in Int /\ Pushed' \in Int /\ booted \in Nat
          /\ read_hash \in [Calls -> Nat] /\ lines \in [Calls -> Seq(Entry)]
          /\ pc \in [Calls -> Steps]
        BY <1>0 DEF ChainInv, TypeOK, MemoryType, LocalsType, Hashes, Pushed
    <2>2. Pushed <= Pushed' /\ booted' = booted
        BY <1>0, <1>2, PushedGrows
    <2> SUFFICES ASSUME NEW c \in Calls
                 PROVE  /\ pc'[c] = "snapshot" /\ read_hash'[c] # None
                             => booted < read_hash'[c] /\ read_hash'[c] <= Pushed'
                        /\ pc'[c] \in {"truncate", "write"} /\ read_hash'[c] # None
                             => /\ lines'[c] # <<>>
                                /\ read_hash'[c] <= Last(lines'[c]).hash
        BY <2>2 DEF Inv, HashReadOnRing, CheckpointWithinLines
    <2>3. CASE ReadHash(c)
        <3>1. /\ hash_lock = Free /\ read_hash'[c] = last_hash
              /\ pc'[c] \in {"snapshot", "commit"}
            BY <2>1, <2>3 DEF ReadHash, LockFree, Goto
        <3>2. Pushed = issued
            BY <3>1 DEF Pushed
        <3>3. last_hash # None => booted < last_hash /\ last_hash = issued
            BY <1>0, <2>1 DEF ChainInv, ChainHead, TypeOK, MemoryType, Hashes
        <3> QED BY <2>1, <2>2, <3>1, <3>2, <3>3
    <2>4. CASE TakeSnapshot(c)
        <3>1. Len(entries) <= MaxEntries
            BY <1>0 DEF ChainInv, TypeOK, MemoryType
        <3>2. /\ lines'[c] = entries /\ pc[c] = "snapshot" /\ pc'[c] = "truncate"
              /\ read_hash'[c] = read_hash[c]
            BY <2>1, <2>4, <3>1 DEF TakeSnapshot, Snapshot, Goto
        <3>3. ASSUME read_hash[c] # None
              PROVE  entries # <<>> /\ read_hash[c] <= Last(entries).hash
            <4>1. booted < read_hash[c] /\ read_hash[c] <= Pushed
                BY <1>0, <3>2, <3>3 DEF HashReadOnRing
            <4>2. Len(entries) \in Nat /\ Len(entries) > 0
                BY <1>0, <2>1, <4>1 DEF ChainInv, RingIsChainTail
            <4>3. entries[Len(entries)].hash = Pushed
                BY <1>0, <2>1, <4>2 DEF ChainInv, RingIsChainTail
            <4>4. entries # <<>>
                BY <4>2, EmptySeq
            <4> QED BY <4>1, <4>3, <4>4 DEF Last
        <3> QED BY <3>2, <3>3
    <2>5. CASE ~ReadHash(c) /\ ~TakeSnapshot(c)
        <3> DEFINE Moved ==
                \/ UNCHANGED <<pc[c], read_hash[c], lines[c]>>
                \/ pc[c] = "truncate" /\ pc'[c] = "write" /\ UNCHANGED <<read_hash, lines>>
                \/ pc'[c] \notin {"snapshot", "truncate", "write"}
        <3>1. Moved
            <4>1. ASSUME NEW d \in Calls, Begin(d) \/ Record(d) PROVE Moved
                BY <2>1, <4>1 DEF Begin, locals, Record, Chain, CheckSize, RotateSlot,
                       AppendEntry, AppendNewline, Push, Goto
            <4>2. ASSUME NEW d \in Calls, Checkpoint(d) PROVE Moved
                BY <2>1, <2>5, <4>2 DEF Checkpoint, ReadHash, TakeSnapshot,
                       TruncateLog, WriteLog, CommitCheckpoint, Finish, Goto
            <4>3. CASE UNCHANGED vars
                BY <4>3 DEF vars, locals
            <4> QED BY <1>2, <4>1, <4>2, <4>3 DEF Next
        <3>2. CASE UNCHANGED <<pc[c], read_hash[c], lines[c]>>
            BY <1>0, <2>1, <2>2, <3>2 DEF HashReadOnRing, CheckpointWithinLines
        <3> QED BY <1>0, <3>1, <3>2 DEF CheckpointWithinLines
    <2> QED BY <2>3, <2>4, <2>5
<1> QED BY <1>1, <1>2

(* A checkpoint never claims a hash newer than the lines it writes beside  *)
(* it (AuditLog::checkpoint): record keeps the guard of last_hash until    *)
(* its entry is on the ring.                                               *)
THEOREM CheckpointBacked == Spec => []CheckpointWithinLines
<1> USE AuditAssumption
<1>1. Init /\ TypeOK => Inv
    BY InitInv
<1>2. Inv /\ TypeOK' /\ [Next]_vars => Inv'
    BY ChainInvStep, InvStep DEF Inv
<1>3. Inv => CheckpointWithinLines
    BY DEF Inv
<1> QED BY <1>1, <1>2, <1>3, TypeCorrect, PTL DEF Spec

-----------------------------------------------------------------------------
(* Refinement: the log implements the window audit.list shows *)

(* The numbers on the ring. *)
Shown == [i \in 1 .. Len(entries) |-> entries[i].hash]

LEMMA ShownPush ==
    ASSUME ChainInv, NEW c \in Calls, Push(c)
    PROVE  Window!Record
<1> USE AuditAssumption
<1> DEFINE n == Len(entries)
           gone == IF n < MaxEntries THEN 0 ELSE 1
           m == n + 1 - gone
<1>1. /\ issued \in Nat /\ n \in Nat /\ n <= MaxEntries
      /\ entries \in Seq(Entry) /\ MaxEntries \in Nat \ {0}
      /\ entry[c] \in Entry /\ MemoryType
    BY LenProperties DEF ChainInv, TypeOK, MemoryType, LocalsType, Hashes
<1>2. hash_lock = c /\ hash_lock' = Free
    BY DEF ChainInv, GuardHeld, Push, Recording
<1>3. Pushed = issued - 1 /\ Pushed' = issued /\ entry[c].hash = issued
    BY <1>2 DEF Pushed, Push, ChainInv, ChainHead
<1>4. /\ Len(entries') = m
      /\ \A i \in 1 .. n - gone : entries'[i] = entries[i + gone]
      /\ entries'[m] = entry[c]
    BY <1>1, PushedBackRing DEF Push
<1>5. ASSUME NEW i \in 1 .. n
      PROVE  entries[i].hash \in Nat
    <2>1. entries[i] \in Entry
        BY <1>1, ElementOfSeq
    <2> QED BY <2>1 DEF Entry, Hashes
<1>6. Shown \in Seq(Nat) /\ Len(Shown) = n
    BY <1>1, <1>5 DEF Shown
<1>7. Shown' = [i \in 1 .. m |-> IF i = m THEN issued ELSE entries[i + gone].hash]
    <2>1. Shown' = [i \in 1 .. m |-> entries'[i].hash]
        BY <1>4 DEF Shown
    <2>2. \A i \in 1 .. m : i # m => i \in 1 .. n - gone
        BY <1>1
    <2>3. \A i \in 1 .. m :
             entries'[i].hash = IF i = m THEN issued ELSE entries[i + gone].hash
        BY <1>3, <1>4, <2>2
    <2> QED BY <2>1, <2>3
<1>8. m \in Nat /\ \A i \in 1 .. m : i # m => i + gone \in 1 .. n
    BY <1>1
<1>9. Shown' \in Seq(Nat) /\ Len(Shown') = m
    BY <1>1, <1>5, <1>7, <1>8
<1>p. issued = Pushed + 1
    BY <1>1, <1>3
<1>10. CASE n < MaxEntries
    <2>1. /\ Append(Shown, issued) \in Seq(Nat)
          /\ Len(Append(Shown, issued)) = m
          /\ \A i \in 1 .. m :
                Append(Shown, issued)[i] = IF i = m THEN issued ELSE Shown[i]
        BY <1>1, <1>6, <1>10, AppendProperties
    <2>2. \A i \in 1 .. m : Shown'[i] = Append(Shown, issued)[i]
        BY <1>1, <1>7, <1>8, <1>10, <2>1 DEF Shown
    <2>3. Shown' = Append(Shown, issued)
        BY <1>9, <2>1, <2>2, SeqEqual
    <2> QED BY <1>3, <1>6, <1>10, <1>p, <2>3 DEF Window!Record, Shown
<1>11. CASE ~(n < MaxEntries)
    <2>1. n = MaxEntries /\ Shown # <<>>
        BY <1>1, <1>6, <1>11, EmptySeq
    <2>2. /\ Tail(Shown) \in Seq(Nat) /\ Len(Tail(Shown)) = n - 1
          /\ \A i \in 1 .. n - 1 : Tail(Shown)[i] = Shown[i + 1]
        BY <1>6, <2>1, HeadTailProperties
    <2>3. /\ Append(Tail(Shown), issued) \in Seq(Nat)
          /\ Len(Append(Tail(Shown), issued)) = m
          /\ \A i \in 1 .. m : Append(Tail(Shown), issued)[i]
                                = IF i = m THEN issued ELSE Tail(Shown)[i]
        BY <1>1, <1>11, <2>2, AppendProperties
    <2>4. ASSUME NEW i \in 1 .. m
          PROVE  Shown'[i] = Append(Tail(Shown), issued)[i]
        <3>1. CASE i = m
            BY <1>7, <2>3, <3>1
        <3>2. CASE i # m
            <4>1. i \in 1 .. n - 1 /\ i + 1 \in 1 .. n /\ gone = 1
                BY <1>1, <1>11, <3>2
            <4>2. Shown'[i] = entries[i + 1].hash
                BY <1>7, <3>2, <4>1
            <4>3. Append(Tail(Shown), issued)[i] = Shown[i + 1]
                BY <2>2, <2>3, <3>2, <4>1
            <4> QED BY <4>1, <4>2, <4>3 DEF Shown
        <3> QED BY <3>1, <3>2
    <2>5. Shown' = Append(Tail(Shown), issued)
        BY <1>9, <2>3, <2>4, SeqEqual
    <2>6. ~(Len(Shown) < MaxEntries)
        BY <1>6, <1>11
    <2> QED BY <1>3, <1>p, <2>5, <2>6 DEF Window!Record, Shown
<1> QED BY <1>10, <1>11

(* The log implements its window: the entry is shown from Push on, in the  *)
(* order the guard of last_hash was taken.                                 *)
THEOREM ImplementsWindow == Spec => WindowSpec
<1> USE AuditAssumption
<1>1. Init => Window!Init
    BY EmptySeq DEF Init, Window!Init, Pushed
<1>2. ChainInv /\ [Next]_vars => [Window!Next]_<<Pushed, Shown>>
    <2> SUFFICES ASSUME ChainInv, [Next]_vars
                 PROVE  Window!Next \/ UNCHANGED <<Pushed, Shown>>
        OBVIOUS
    <2>0. issued \in Nat
        BY DEF ChainInv, TypeOK, MemoryType, Hashes
    <2>1. CASE Restart
        <3>1. Pushed' \in {Pushed, Pushed + 1}
            BY <2>0, <2>1 DEF Restart, Pushed
        <3>2. Shown' = <<>>
            BY <2>1, EmptySeq DEF Restart, Shown
        <3> QED BY <3>1, <3>2 DEF Window!Next, Window!Restart, Shown
    <2>2. ASSUME NEW c \in Calls, Push(c) PROVE Window!Next
        BY <2>2, ShownPush DEF Window!Next
    <2>3. ASSUME NEW c \in Calls, Chain(c) PROVE UNCHANGED <<Pushed, Shown>>
        BY <2>0, <2>3 DEF Chain, LockFree, Pushed, Shown
    <2>4. ASSUME UNCHANGED memory PROVE UNCHANGED <<Pushed, Shown>>
        BY <2>4 DEF memory, Pushed, Shown
    <2>5. ~Restart /\ ~(\E c \in Calls : Chain(c) \/ Push(c)) => UNCHANGED memory
        BY DEF Next, Begin, Record, CheckSize, RotateSlot, AppendEntry, AppendNewline,
               Checkpoint, ReadHash, TakeSnapshot, TruncateLog, WriteLog,
               CommitCheckpoint, vars
    <2> QED BY <2>1, <2>2, <2>3, <2>4, <2>5
<1>3. Spec => []ChainInv
    <2>1. Init /\ TypeOK => ChainInv
        BY InitInv DEF Inv
    <2>2. ChainInv /\ TypeOK' /\ [Next]_vars => ChainInv'
        BY ChainInvStep
    <2> QED BY <2>1, <2>2, TypeCorrect, PTL DEF Spec
<1> QED BY <1>1, <1>2, <1>3, PTL DEF Spec, WindowSpec, Window!Spec, Shown

-----------------------------------------------------------------------------
(* Texts by slot.  A directory is looked at as the function that gives     *)
(* each slot its text, an empty one where there is no file.                *)

Texts == [s \in Slots |-> Text(s)]
Disk  == [Slots -> Seq(Token)]

(* The positions of a text that hold an entry. *)
Written(text) == {i \in 1 .. Len(text) : text[i] \notin {Newline, Fragment}}

(* The entry of hash h is somewhere in d. *)
Holds(d, h) == \E s \in Slots : \E i \in Written(d[s]) : d[s][i].hash = h

(* The texts after a rename of slot k to k + 1, and with text at slot 0. *)
Shift(d, k)  == [s \in Slots |-> IF s = k + 1 THEN d[k]
                                 ELSE IF s = k THEN <<>> ELSE d[s]]
Put(d, text) == [s \in Slots |-> IF s = 0 THEN text ELSE d[s]]

LEMMA TextsType ==
    ASSUME IsDirectory(files)
    PROVE  Texts \in Disk
BY TextType DEF Texts, Disk

LEMMA WrittenEntry ==
    ASSUME NEW text \in Seq(Token), NEW i \in Written(text)
    PROVE  /\ i \in 1 .. Len(text) /\ text[i] \in Entry
           /\ text[i].hash \in Nat /\ text[i].prev \in Nat
<1>1. i \in 1 .. Len(text) /\ text[i] \notin {Newline, Fragment}
    BY DEF Written
<1>2. text[i] \in Token
    BY <1>1, ElementOfSeq
<1> QED BY <1>1, <1>2 DEF Token, Entry, Hashes

(* What is written in a text with one token more. *)
LEMMA WrittenAppend ==
    ASSUME NEW text \in Seq(Token), NEW x \in Token
    PROVE  /\ Append(text, x) \in Seq(Token)
           /\ Len(Append(text, x)) = Len(text) + 1
           /\ Append(text, x)[Len(text) + 1] = x
           /\ \A i \in 1 .. Len(text) : Append(text, x)[i] = text[i]
           /\ Written(text) \subseteq Written(Append(text, x))
           /\ \A i \in Written(Append(text, x)) :
                 \/ i \in Written(text)
                 \/ i = Len(text) + 1 /\ x \notin {Newline, Fragment}
           /\ x \notin {Newline, Fragment} => Len(text) + 1 \in Written(Append(text, x))
<1>1. Len(text) \in Nat
    BY LenProperties
<1>2. /\ Append(text, x) \in Seq(Token)
      /\ Len(Append(text, x)) = Len(text) + 1
      /\ Append(text, x)[Len(text) + 1] = x
      /\ \A i \in 1 .. Len(text) : Append(text, x)[i] = text[i]
    BY AppendProperties
<1> QED BY <1>1, <1>2 DEF Written

(* The texts after each operation on the directory. *)
LEMMA RenamedTexts ==
    ASSUME IsDirectory(files), NEW k \in Slots, k + 1 \in Slots, Exists(k),
           files' = Renamed(k)
    PROVE  /\ Texts' = Shift(Texts, k)
           /\ \A s : Exists(s)' <=> s = k + 1 \/ (s # k /\ Exists(s))
<1>1. k # k + 1
    BY DEF Slots
<1>2. DOMAIN files' = (DOMAIN files \ {k}) \cup {k + 1}
    BY DEF Renamed
<1>3. ASSUME NEW s
      PROVE  Exists(s)' <=> s = k + 1 \/ (s # k /\ Exists(s))
    BY <1>2 DEF Exists
<1>4. ASSUME NEW s \in Slots
      PROVE  Text(s)' = IF s = k + 1 THEN Text(k) ELSE IF s = k THEN <<>> ELSE Text(s)
    BY <1>1, <1>2 DEF Text, Renamed, Exists
<1> QED BY <1>3, <1>4 DEF Texts, Shift

LEMMA StoredTexts ==
    ASSUME IsDirectory(files), NEW text \in Seq(Token), files' = Store(0, text)
    PROVE  /\ Texts' = Put(Texts, text)
           /\ \A s : Exists(s)' <=> s = 0 \/ Exists(s)
<1>1. DOMAIN files' = DOMAIN files \cup {0}
    BY DEF Store
<1>2. ASSUME NEW s
      PROVE  Exists(s)' <=> s = 0 \/ Exists(s)
    BY <1>1 DEF Exists
<1>3. ASSUME NEW s \in Slots
      PROVE  Text(s)' = IF s = 0 THEN text ELSE Text(s)
    BY <1>1 DEF Text, Store, Exists
<1> QED BY <1>2, <1>3 DEF Texts, Put

LEMMA RemovedTexts ==
    ASSUME IsDirectory(files), NEW k \in Slots, files' = Removed(k)
    PROVE  /\ Texts' = [s \in Slots |-> IF s = k THEN <<>> ELSE Texts[s]]
           /\ \A s : Exists(s)' <=> s # k /\ Exists(s)
<1>1. DOMAIN files' = DOMAIN files \ {k}
    BY DEF Removed
<1>2. ASSUME NEW s
      PROVE  Exists(s)' <=> s # k /\ Exists(s)
    BY <1>1 DEF Exists
<1>3. ASSUME NEW s \in Slots
      PROVE  Text(s)' = IF s = k THEN <<>> ELSE Text(s)
    BY <1>1 DEF Text, Removed, Exists
<1> QED BY <1>2, <1>3 DEF Texts

-----------------------------------------------------------------------------
(* Order on disk, whatever fails *)

(* Every entry of an older slot, or earlier in the same text, is older. *)
InOrder(d) ==
    \A s, t \in Slots : \A i \in Written(d[s]), j \in Written(d[t]) :
        s > t \/ (s = t /\ i < j) => d[s][i].hash < d[t][j].hash

UpTo(d, n) == \A s \in Slots : \A i \in Written(d[s]) : d[s][i].hash <= n

LEMMA EmptyWritten == Written(<<>>) = {}
BY EmptySeq DEF Written

LEMMA ShiftInOrder ==
    ASSUME NEW d \in Disk, NEW k \in Slots, k + 1 \in Slots, NEW n \in Int,
           InOrder(d), UpTo(d, n)
    PROVE  InOrder(Shift(d, k)) /\ UpTo(Shift(d, k), n)
<1> DEFINE from(s) == IF s = k + 1 THEN k ELSE s
           e == Shift(d, k)
<1>1. k # k + 1 /\ k \in Nat
    BY AuditAssumption DEF Slots
<1>2. ASSUME NEW s \in Slots, NEW i \in Written(e[s])
      PROVE  /\ s # k /\ from(s) \in Slots
             /\ i \in Written(d[from(s)]) /\ e[s][i] = d[from(s)][i]
    <2>1. e[s] = IF s = k + 1 THEN d[k] ELSE IF s = k THEN <<>> ELSE d[s]
        BY DEF Shift
    <2> QED BY <1>1, <1>2, <2>1, EmptyWritten
<1>3. \A s, t \in Slots : s # k /\ t # k /\ s > t => from(s) > from(t)
    BY <1>1 DEF Slots
<1> HIDE DEF e
<1>4. InOrder(e)
    <2> SUFFICES ASSUME NEW s \in Slots, NEW t \in Slots,
                        NEW i \in Written(e[s]), NEW j \in Written(e[t]),
                        s > t \/ (s = t /\ i < j)
                 PROVE  e[s][i].hash < e[t][j].hash
        BY DEF InOrder
    <2>1. /\ i \in Written(d[from(s)]) /\ e[s][i] = d[from(s)][i]
          /\ j \in Written(d[from(t)]) /\ e[t][j] = d[from(t)][j]
          /\ s # k /\ t # k /\ from(s) \in Slots /\ from(t) \in Slots
        BY <1>2
    <2>2. from(s) > from(t) \/ (from(s) = from(t) /\ i < j)
        BY <1>3, <2>1
    <2> HIDE DEF from
    <2> QED BY <2>1, <2>2 DEF InOrder
<1>5. UpTo(e, n)
    BY <1>2 DEF UpTo
<1> QED BY <1>4, <1>5 DEF e

(* A token at the end of the live file: an entry newer than every other, or *)
(* no entry at all.                                                         *)
LEMMA AppendInOrder ==
    ASSUME NEW d \in Disk, NEW x \in Token, NEW n \in Int, NEW m \in Int,
           InOrder(d), UpTo(d, n), n <= m,
           x \notin {Newline, Fragment} => n < x.hash /\ x.hash <= m
    PROVE  /\ InOrder(Put(d, Append(d[0], x)))
           /\ UpTo(Put(d, Append(d[0], x)), m)
<1> DEFINE old == d[0]
           e == Put(d, Append(old, x))
<1>0. 0 \in Slots /\ Slots \subseteq Nat
    BY AuditAssumption DEF Slots
<1>1. old \in Seq(Token) /\ Len(old) \in Nat
    BY <1>0, LenProperties DEF Disk
<1>2. ASSUME NEW s \in Slots, NEW i \in Written(e[s])
      PROVE  /\ i \in Nat
             /\ \/ i \in Written(d[s]) /\ e[s][i] = d[s][i]
                \/ s = 0 /\ i = Len(old) + 1 /\ e[s][i] = x /\ x \notin {Newline, Fragment}
    <2>1. CASE s = 0
        <3>1. e[s] = Append(old, x)
            BY <2>1 DEF Put
        <3>2. /\ Append(old, x)[Len(old) + 1] = x
              /\ \A j \in 1 .. Len(old) : Append(old, x)[j] = old[j]
              /\ \A j \in Written(Append(old, x)) :
                    \/ j \in Written(old)
                    \/ j = Len(old) + 1 /\ x \notin {Newline, Fragment}
            BY <1>1, WrittenAppend
        <3>3. Written(old) \subseteq 1 .. Len(old)
            BY DEF Written
        <3> HIDE DEF old, e
        <3>4. i \in Written(old) \/ (i = Len(old) + 1 /\ x \notin {Newline, Fragment})
            BY <1>2, <3>1, <3>2
        <3>5. CASE i \in Written(old)
            <4>1. i \in 1 .. Len(old)
                BY <3>3, <3>5
            <4>2. e[s][i] = old[i] /\ d[s] = old
                BY <2>1, <3>1, <3>2, <4>1 DEF old
            <4> QED BY <3>5, <4>1, <4>2
        <3>6. CASE i = Len(old) + 1 /\ x \notin {Newline, Fragment}
            <4>1. i \in Nat /\ e[s][i] = x
                BY <1>1, <3>1, <3>2, <3>6
            <4> QED BY <2>1, <3>6, <4>1
        <3> QED BY <3>4, <3>5, <3>6
    <2>2. CASE s # 0
        <3>1. e[s] = d[s]
            BY <2>2 DEF Put
        <3> QED BY <1>2, <3>1 DEF Written
    <2> QED BY <2>1, <2>2
<1>3. ASSUME NEW s \in Slots, NEW i \in Written(d[s])
      PROVE  d[s][i].hash \in Nat /\ d[s][i].hash <= n
    BY WrittenEntry DEF Disk, UpTo
<1>4. \A i \in Written(old) : i <= Len(old)
    BY <1>1 DEF Written
<1>x. x \notin {Newline, Fragment} => x.hash \in Nat
    BY DEF Token, Entry, Hashes
<1> HIDE DEF e
<1>5. InOrder(e)
    <2> SUFFICES ASSUME NEW s \in Slots, NEW t \in Slots,
                        NEW i \in Written(e[s]), NEW j \in Written(e[t]),
                        s > t \/ (s = t /\ i < j)
                 PROVE  e[s][i].hash < e[t][j].hash
        BY DEF InOrder
    <2>1. CASE i \in Written(d[s]) /\ e[s][i] = d[s][i]
        <3>1. CASE j \in Written(d[t]) /\ e[t][j] = d[t][j]
            BY <2>1, <3>1 DEF InOrder
        <3>2. CASE e[t][j] = x /\ x \notin {Newline, Fragment}
            BY <1>3, <1>x, <2>1, <3>2
        <3> QED BY <1>2, <3>1, <3>2
    <2>2. CASE s = 0 /\ i = Len(old) + 1
        <3>1. s = t /\ i < j
            BY <1>0, <2>2
        <3>2. j <= Len(old) + 1
            BY <1>1, <1>2, <1>4, <2>2, <3>1
        <3> QED BY <1>1, <1>2, <2>2, <3>1, <3>2
    <2> QED BY <1>2, <2>1, <2>2
<1>6. UpTo(e, m)
    BY <1>2, <1>3, <1>x DEF UpTo
<1> QED BY <1>5, <1>6 DEF e

(* The calls between taking their hash and writing their line: there is at *)
(* most one, for it holds the guard of last_hash.                          *)
Filing == {c \in Calls : pc[c] \in {"check", "rotate", "append"}}

(* The newest hash that can be on disk. *)
Top == IF Filing = {} THEN issued ELSE issued - 1

NoCheckpoint == \A c \in Calls : pc[c] \in {"idle", "record"} \cup Recording

OrderInv == NoCheckpoint /\ InOrder(Texts) /\ UpTo(Texts, Top)

(* A call that records is the only one, and alone decides what is filed. *)
LEMMA OneRecords ==
    ASSUME ChainInv, NEW c \in Calls, pc[c] \in Recording
    PROVE  /\ hash_lock = c /\ \A d \in Calls : d # c => pc[d] \notin Recording
           /\ Filing = IF pc[c] \in {"check", "rotate", "append"} THEN {c} ELSE {}
BY DEF ChainInv, GuardHeld, Recording, Filing

(* Where a step leaves the call that takes it. *)
LEMMA FilingStep ==
    ASSUME ChainInv, ChainInv', NEW c \in Calls, NEW step \in Steps, Goto(c, step)
    PROVE  /\ pc[c] \in Recording =>
                  Filing' = IF step \in {"check", "rotate", "append"} THEN {c} ELSE {}
           /\ pc[c] \notin Recording /\ step \notin Recording => Filing' = Filing
<1>1. pc \in [Calls -> Steps] /\ pc' = [pc EXCEPT ![c] = step]
    BY DEF ChainInv, TypeOK, LocalsType, Goto
<1>2. ASSUME pc[c] \in Recording
      PROVE  Filing' = IF step \in {"check", "rotate", "append"} THEN {c} ELSE {}
    <2>1. \A d \in Calls : d # c => pc[d] \notin Recording
        BY <1>2, OneRecords
    <2> QED BY <1>1, <2>1 DEF Filing, Recording
<1>3. ASSUME pc[c] \notin Recording, step \notin Recording
      PROVE  Filing' = Filing
    BY <1>1, <1>3 DEF Filing, Recording
<1> QED BY <1>2, <1>3

(* Steps that leave the files alone. *)
LEMMA OrderFrame ==
    ASSUME OrderInv, ChainInv, NoCheckpoint', UNCHANGED files, Top <= Top',
           Top \in Int, Top' \in Int
    PROVE  OrderInv'
<1>1. Texts' = Texts /\ Texts \in Disk
    BY TextsType DEF Texts, Text, Exists, ChainInv, TypeOK, DiskType
<1>2. InOrder(Texts)'
    BY <1>1 DEF OrderInv, InOrder, Written
<1>3. UpTo(Texts, Top')
    <2> SUFFICES ASSUME NEW s \in Slots, NEW i \in Written(Texts[s])
                 PROVE  Texts[s][i].hash <= Top'
        BY DEF UpTo
    <2>1. Texts[s][i].hash \in Nat
        BY <1>1, WrittenEntry DEF Disk
    <2> QED BY <2>1 DEF OrderInv, UpTo
<1>4. UpTo(Texts, Top)'
    BY <1>1, <1>3 DEF UpTo, Written
<1> QED BY <1>2, <1>4 DEF OrderInv

LEMMA NoCheckpointStep ==
    ASSUME CheckpointCalls = {}, ChainInv, NoCheckpoint, [Next]_vars
    PROVE  NoCheckpoint'
<1>1. pc \in [Calls -> Steps]
    BY DEF ChainInv, TypeOK, LocalsType
<1>2. ASSUME NEW c \in Calls, Begin(c) PROVE NoCheckpoint'
    BY <1>1, <1>2 DEF NoCheckpoint, Begin, Goto
<1>3. ASSUME NEW c \in Calls, Record(c) PROVE NoCheckpoint'
    BY <1>1, <1>3 DEF NoCheckpoint, Record, Chain, CheckSize, RotateSlot, AppendEntry,
                      AppendNewline, Push, Goto, Recording
<1>4. ASSUME NEW c \in Calls, Checkpoint(c) PROVE FALSE
    BY <1>4 DEF NoCheckpoint, Checkpoint, ReadHash, TakeSnapshot, TruncateLog, WriteLog,
                CommitCheckpoint, Recording
<1>5. CASE Restart
    BY <1>5 DEF NoCheckpoint, Restart
<1>6. CASE UNCHANGED vars
    BY <1>6 DEF NoCheckpoint, vars
<1> QED BY <1>2, <1>3, <1>4, <1>5, <1>6 DEF Next

(* A removal takes entries away and moves none. *)
LEMMA DropInOrder ==
    ASSUME NEW d \in Disk, NEW k \in Slots, NEW n \in Int, InOrder(d), UpTo(d, n)
    PROVE  LET e == [s \in Slots |-> IF s = k THEN <<>> ELSE d[s]]
           IN InOrder(e) /\ UpTo(e, n)
<1> DEFINE e == [s \in Slots |-> IF s = k THEN <<>> ELSE d[s]]
<1>1. ASSUME NEW s \in Slots, NEW i \in Written(e[s])
      PROVE  i \in Written(d[s]) /\ e[s][i] = d[s][i]
    BY <1>1, EmptyWritten
<1> HIDE DEF e
<1>2. InOrder(e)
    BY <1>1 DEF InOrder
<1>3. UpTo(e, n)
    BY <1>1 DEF UpTo
<1> QED BY <1>2, <1>3 DEF e

(* Each step of the rotation keeps the order, whatever it fails to do. *)
LEMMA RotateInOrder ==
    ASSUME OrderInv, ChainInv, NEW c \in Calls, RotateSlot(c), NEW n \in Int,
           UpTo(Texts, n)
    PROVE  InOrder(Texts') /\ UpTo(Texts', n)
<1> DEFINE k == slot[c]
<1>1. IsDirectory(files) /\ Texts \in Disk
    BY TextsType DEF ChainInv, TypeOK, DiskType
<1>2. k \in Slots /\ k - 1 \in Slots /\ (k - 1) + 1 = k
    BY AuditAssumption DEF RotateSlot, ChainInv, TypeOK, LocalsType, Slots
<1>3. InOrder(Texts)
    BY DEF OrderInv
<1>4. CASE Exists(k - 1) /\ files' = Renamed(k - 1)
    <2>1. Texts' = Shift(Texts, k - 1)
        BY <1>1, <1>2, <1>4, RenamedTexts
    <2> QED BY <1>1, <1>2, <1>3, <2>1, ShiftInOrder
<1>5. CASE files' = Removed(k)
    <2>1. Texts' = [s \in Slots |-> IF s = k THEN <<>> ELSE Texts[s]]
        BY <1>1, <1>2, <1>5, RemovedTexts
    <2> QED BY <1>1, <1>2, <1>3, <2>1, DropInOrder
<1>6. CASE UNCHANGED files
    <2>1. Texts' = Texts
        BY <1>6 DEF Texts, Text, Exists
    <2> QED BY <1>3, <2>1
<1> QED BY <1>4, <1>5, <1>6 DEF RotateSlot

(* So does each write to the live file. *)
LEMMA WriteInOrder ==
    ASSUME OrderInv, ChainInv, NEW c \in Calls, AppendEntry(c) \/ AppendNewline(c)
    PROVE  InOrder(Texts') /\ UpTo(Texts', issued)
<1>0. 0 \in Slots /\ issued \in Int /\ Top \in Int /\ Top <= issued
    BY AuditAssumption DEF Slots, ChainInv, TypeOK, MemoryType, Hashes, Top
<1>1. /\ IsDirectory(files) /\ Texts \in Disk /\ Texts[0] = Text(0)
      /\ Text(0) \in Seq(Token)
    BY <1>0, TextsType, TextType DEF ChainInv, TypeOK, DiskType, Texts
<1>2. InOrder(Texts) /\ UpTo(Texts, Top)
    BY DEF OrderInv
<1>3. ASSUME NEW x \in Token, files' = Store(0, Append(Text(0), x)),
             x \notin {Newline, Fragment} => Top < x.hash /\ x.hash <= issued
      PROVE  InOrder(Texts') /\ UpTo(Texts', issued)
    <2>1. Texts' = Put(Texts, Append(Texts[0], x))
        BY <1>1, <1>3, StoredTexts, WrittenAppend
    <2> QED BY <1>0, <1>1, <1>2, <1>3, <2>1, AppendInOrder
<1>4. ASSUME Texts' = Texts
      PROVE  InOrder(Texts') /\ UpTo(Texts', issued)
    <2>1. UpTo(Texts, issued)
        <3> SUFFICES ASSUME NEW s \in Slots, NEW i \in Written(Texts[s])
                     PROVE  Texts[s][i].hash <= issued
            BY DEF UpTo
        <3>1. Texts[s][i].hash \in Nat
            BY <1>1, WrittenEntry DEF Disk
        <3>2. Texts[s][i].hash <= Top
            BY <1>2 DEF UpTo
        <3> QED BY <1>0, <3>1, <3>2
    <2> QED BY <1>2, <1>4, <2>1
<1>5. Newline \in Token /\ Fragment \in Token /\ entry[c] \in Token
    BY DEF Token, ChainInv, TypeOK, LocalsType
<1>6. CASE files' = Store(0, Append(Text(0), entry[c])) /\ pc[c] = "append"
    <2>1. Filing # {} /\ hash_lock = c
        BY <1>6, OneRecords DEF Recording
    <2>2. entry[c].hash = issued
        BY <2>1 DEF ChainInv, ChainHead
    <2> QED BY <1>0, <1>3, <1>5, <1>6, <2>1, <2>2 DEF Top
<1>7. CASE files' = Store(0, Append(Text(0), Fragment))
    BY <1>3, <1>5, <1>7
<1>8. CASE files' = Store(0, Append(Text(0), Newline))
    BY <1>3, <1>5, <1>8
<1>9. CASE files' = Store(0, Text(0))
    <2>1. Texts' = Put(Texts, Text(0))
        BY <1>1, <1>9, StoredTexts
    <2>2. Put(Texts, Text(0)) = Texts
        BY <1>1 DEF Put, Texts
    <2> QED BY <1>4, <2>1, <2>2
<1>10. CASE UNCHANGED files
    BY <1>4, <1>10 DEF Texts, Text, Exists
<1> QED BY <1>6, <1>7, <1>8, <1>9, <1>10 DEF AppendEntry, AppendNewline

LEMMA OrderStep ==
    ASSUME CheckpointCalls = {}, OrderInv, ChainInv, ChainInv', [Next]_vars
    PROVE  OrderInv'
<1>0. /\ NoCheckpoint' /\ issued \in Nat /\ issued' \in Nat
      /\ pc \in [Calls -> Steps] /\ Top \in Int /\ Top' \in Int
    BY NoCheckpointStep DEF OrderInv, ChainInv, TypeOK, MemoryType, LocalsType, Hashes,
                            Top
<1>1. ASSUME InOrder(Texts') /\ UpTo(Texts', Top')
      PROVE  OrderInv'
    <2>1. InOrder(Texts)' /\ UpTo(Texts, Top)'
        BY <1>1 DEF InOrder, UpTo, Written
    <2> QED BY <1>0, <2>1 DEF OrderInv
<1>2. ASSUME NEW c \in Calls, Begin(c) PROVE OrderInv'
    <2>1. Filing' = Filing /\ UNCHANGED <<files, issued>>
        BY <1>2, FilingStep DEF Begin, Goto, Recording, Steps, memory, disk
    <2> QED BY <1>0, <2>1, OrderFrame DEF Top
<1>3. ASSUME NEW c \in Calls, Chain(c) PROVE OrderInv'
    <2>1. pc[c] = "record" /\ hash_lock = Free /\ issued' = issued + 1 /\ UNCHANGED files
        BY <1>3 DEF Chain, LockFree, disk
    <2>2. Filing = {}
        BY <2>1, AuditAssumption DEF Filing, ChainInv, GuardHeld, Recording
    <2> QED BY <1>0, <2>1, <2>2, OrderFrame DEF Top
<1>4. ASSUME NEW c \in Calls, CheckSize(c) PROVE OrderInv'
    <2>1. pc[c] \in Recording /\ Filing # {} /\ UNCHANGED <<files, issued>>
        BY <1>4 DEF CheckSize, Filing, Recording, memory, disk
    <2>2. Filing' # {}
        BY <1>4, <2>1, FilingStep DEF CheckSize, Steps
    <2> QED BY <1>0, <2>1, <2>2, OrderFrame DEF Top
<1>5. ASSUME NEW c \in Calls, RotateSlot(c) PROVE OrderInv'
    <2>1. pc[c] \in Recording /\ Filing # {} /\ UNCHANGED issued
        BY <1>5 DEF RotateSlot, Filing, Recording, memory
    <2>2. Filing' # {}
        BY <1>5, <2>1, FilingStep DEF RotateSlot, Steps
    <2>3. Top' = Top
        BY <2>1, <2>2 DEF Top
    <2> QED BY <1>0, <1>1, <1>5, <2>3, RotateInOrder DEF OrderInv
<1>6. ASSUME NEW c \in Calls, AppendEntry(c) \/ AppendNewline(c) PROVE OrderInv'
    <2>1. pc[c] \in Recording /\ UNCHANGED issued
        BY <1>6 DEF AppendEntry, AppendNewline, Recording, memory
    <2>2. Filing' = {}
        BY <1>6, <2>1, FilingStep DEF AppendEntry, AppendNewline, Steps
    <2>3. Top' = issued
        BY <2>1, <2>2 DEF Top
    <2> QED BY <1>1, <1>6, <2>3, WriteInOrder
<1>7. ASSUME NEW c \in Calls, Push(c) PROVE OrderInv'
    <2>1. pc[c] \in Recording /\ Filing = {} /\ UNCHANGED <<files, issued>>
        BY <1>7, OneRecords DEF Push, Recording, disk
    <2>2. Filing' = {}
        BY <1>7, <2>1, FilingStep DEF Push, Steps
    <2> QED BY <1>0, <2>1, <2>2, OrderFrame DEF Top
<1>8. ASSUME NEW c \in Calls, Checkpoint(c) PROVE OrderInv'
    BY <1>8 DEF OrderInv, NoCheckpoint, Checkpoint, ReadHash, TakeSnapshot, TruncateLog,
                WriteLog, CommitCheckpoint, Recording
<1>9. CASE Restart
    <2>1. Filing' = {} /\ UNCHANGED <<files, issued>>
        BY <1>9 DEF Restart, Filing, disk
    <2> QED BY <1>0, <2>1, OrderFrame DEF Top
<1>10. CASE UNCHANGED vars
    <2>1. Filing' = Filing /\ UNCHANGED <<files, issued>>
        BY <1>10 DEF vars, memory, disk, Filing
    <2> QED BY <1>0, <2>1, OrderFrame DEF Top
<1> QED BY <1>2, <1>3, <1>4, <1>5, <1>6, <1>7, <1>8, <1>9, <1>10 DEF Next, Record

LEMMA OrderInit ==
    ASSUME Init
    PROVE  OrderInv
<1>1. NoCheckpoint
    BY DEF Init, NoCheckpoint
<1>2. \A s \in Slots : Texts[s] = <<>>
    BY DEF Init, Texts, Text, Exists
<1>3. InOrder(Texts) /\ UpTo(Texts, Top)
    BY <1>2, EmptyWritten DEF InOrder, UpTo
<1> QED BY <1>1, <1>3 DEF OrderInv

LEMMA OrderReached ==
    ASSUME CheckpointCalls = {}
    PROVE  Spec => [](ChainInv /\ OrderInv)
<1>1. Init /\ TypeOK => ChainInv /\ OrderInv
    BY InitInv, OrderInit DEF Inv
<1>2. ChainInv /\ OrderInv /\ TypeOK' /\ [Next]_vars => (ChainInv /\ OrderInv)'
    BY ChainInvStep, OrderStep
<1> QED BY <1>1, <1>2, TypeCorrect, PTL DEF Spec

(* The lines on disk are entries, at their slots and positions. *)
LEMMA LineWritten ==
    ASSUME NEW l \in DiskLog
    PROVE  /\ l = <<l[1], l[2]>> /\ l[1] \in Slots
           /\ l[2] \in Written(Texts[l[1]]) /\ Line(l) = Texts[l[1]][l[2]]
<1>1. PICK s \in Slots :
         l \in {s} \X {i \in 1 .. Len(Text(s)) : Parses(Text(s), i)}
    BY DEF DiskLog
<1>2. l = <<s, l[2]>> /\ l[1] = s /\ l[2] \in 1 .. Len(Text(s)) /\ Parses(Text(s), l[2])
    BY <1>1
<1>3. Texts[s] = Text(s)
    BY DEF Texts
<1> QED BY <1>2, <1>3 DEF Parses, Written, Line

(* While no checkpoint rewrites the log, no entry is on disk twice, nor an *)
(* older one after a newer (AuditLog::record, rotate_if_needed): for any   *)
(* number of calls, files and restarts, whichever file operations fail and *)
(* whenever the process is killed.                                         *)
THEOREM DiskKeepsOrder ==
    ASSUME CheckpointCalls = {}
    PROVE  Spec => []DiskInOrder
<1>1. OrderInv => DiskInOrder
    BY LineWritten DEF OrderInv, InOrder, DiskInOrder, Older
<1> QED BY <1>1, OrderReached, PTL

-----------------------------------------------------------------------------
(* One chain without a hole, when no file operation fails *)

(* Every entry is alone on its line; the last line is ended. *)
Tidy(text) ==
    /\ \A i \in Written(text) : Parses(text, i)
    /\ text # <<>> => 1 \in Written(text)
Ended(text) == text # <<>> => text[Len(text)] = Newline

(* Every entry binds to the one before it, or starts a chain. *)
Bound(d) ==
    \A s \in Slots : \A i \in Written(d[s]) :
        d[s][i].prev \in {d[s][i].hash - 1, None}

(* No entry is missing between two that are there. *)
Unbroken(d) ==
    \A h, k, n \in Nat : Holds(d, h) /\ Holds(d, k) /\ h <= n /\ n <= k => Holds(d, n)

(* Some call has its entry on disk and not yet the line feed behind it. *)
Ending == \E c \in Calls : pc[c] = "newline"

(* A rotation on its way down has moved away the file of its slot, and the *)
(* live file, which it moves last, is not empty.                           *)
Rotating ==
    \A c \in Calls : pc[c] = "rotate" =>
        /\ Text(0) # <<>>
        /\ slot[c] < MaxFiles => ~Exists(slot[c])

(* The rotated files are numbered from 1 up, save for that moved one. *)
Contiguous ==
    \A s, t \in Slots : 0 < t /\ t < s /\ Exists(s) =>
        \/ Exists(t)
        \/ \E c \in Calls : pc[c] = "rotate" /\ slot[c] = t /\ t < MaxFiles

LinesInv ==
    /\ \A s \in Slots : /\ Tidy(Texts[s])
                        /\ s # 0 \/ ~Ending => Ended(Texts[s])
    /\ Ending => Text(0) # <<>>
    /\ Bound(Texts)

HeadInv ==
    /\ Filing # {} => HasLog
    /\ HasLog => Top = 0 \/ Holds(Texts, Top)

WholeInv == LinesInv /\ Unbroken(Texts) /\ HeadInv /\ Rotating /\ Contiguous

(* What a rename of slot k to k + 1 loses: nothing, unless it replaces the *)
(* last file; then what was there, older than all that is left.            *)
LEMMA ShiftDrops ==
    ASSUME NEW d \in Disk, NEW k \in Slots, k + 1 \in Slots, InOrder(d),
           d[k + 1] = <<>> \/ k + 1 = MaxFiles,
           NEW h, Holds(d, h), ~Holds(Shift(d, k), h)
    PROVE  /\ k + 1 = MaxFiles /\ d[MaxFiles] # <<>>
           /\ \A n : Holds(Shift(d, k), n) => h < n
<1> DEFINE e == Shift(d, k)
<1>0. k # k + 1 /\ k \in Nat /\ MaxFiles \in Nat
    BY AuditAssumption DEF Slots
<1>1. \A s \in Slots : e[s] = IF s = k + 1 THEN d[k] ELSE IF s = k THEN <<>> ELSE d[s]
    BY DEF Shift
<1>2. PICK s \in Slots : \E i \in Written(d[s]) : d[s][i].hash = h
    BY DEF Holds
<1>3. PICK i \in Written(d[s]) : d[s][i].hash = h
    BY <1>2
<1>4. s = k + 1
    <2>1. CASE s = k
        <3>1. e[k + 1] = d[s]
            BY <1>1, <2>1
        <3> QED BY <1>3, <3>1 DEF Holds
    <2>2. CASE s # k /\ s # k + 1
        <3>1. e[s] = d[s]
            BY <1>1, <2>2
        <3> QED BY <1>3, <3>1 DEF Holds
    <2> QED BY <2>1, <2>2
<1>5. k + 1 = MaxFiles /\ d[MaxFiles] # <<>>
    BY <1>3, <1>4, EmptyWritten
<1>6. ASSUME NEW n, Holds(e, n)
      PROVE  h < n
    <2>1. PICK t \in Slots : \E j \in Written(e[t]) : e[t][j].hash = n
        BY <1>6 DEF Holds
    <2>2. PICK j \in Written(e[t]) : e[t][j].hash = n
        BY <2>1
    <2>3. PICK u \in Slots : u < k + 1 /\ e[t] = d[u]
        <3>1. CASE t = k + 1
            BY <1>0, <1>1, <3>1
        <3>2. CASE t # k + 1
            <4>1. t # k /\ e[t] = d[t]
                BY <1>1, <2>2, <3>2, EmptyWritten
            <4>2. t < k + 1
                BY <1>0, <1>5, <3>2 DEF Slots
            <4> QED BY <4>1, <4>2
        <3> QED BY <3>1, <3>2
    <2>4. s > u /\ j \in Written(d[u]) /\ d[u][j].hash = n
        BY <1>0, <1>4, <2>2, <2>3 DEF Slots
    <2> QED BY <1>3, <2>4 DEF InOrder
<1> QED BY <1>5, <1>6

(* So no hole comes of it, *)
LEMMA ShiftUnbroken ==
    ASSUME NEW d \in Disk, NEW k \in Slots, k + 1 \in Slots, InOrder(d), Unbroken(d),
           d[k + 1] = <<>> \/ k + 1 = MaxFiles
    PROVE  Unbroken(Shift(d, k))
<1> DEFINE e == Shift(d, k)
<1>1. ASSUME NEW h, Holds(e, h)
      PROVE  Holds(d, h)
    <2>1. PICK s \in Slots : \E i \in Written(e[s]) : e[s][i].hash = h
        BY <1>1 DEF Holds
    <2>2. e[s] = IF s = k + 1 THEN d[k] ELSE IF s = k THEN <<>> ELSE d[s]
        BY DEF Shift
    <2>3. e[s] = d[k] \/ e[s] = d[s]
        BY <2>1, <2>2, EmptyWritten
    <2> QED BY <2>1, <2>3 DEF Holds
<1> HIDE DEF e
<1> SUFFICES ASSUME NEW h \in Nat, NEW m \in Nat, NEW n \in Nat,
                    Holds(e, h), Holds(e, m), h <= n, n <= m
             PROVE  Holds(e, n)
    BY DEF Unbroken, e
<1>2. Holds(d, n)
    BY <1>1 DEF Unbroken
<1>3. ~Holds(e, n) => n < h
    BY <1>2, ShiftDrops DEF e
<1> QED BY <1>3

(* and the newest entry stays, since it is not in the last file. *)
LEMMA ShiftNewest ==
    ASSUME NEW d \in Disk, NEW k \in Slots, k + 1 \in Slots, InOrder(d),
           d[k + 1] = <<>> \/ k + 1 = MaxFiles,
           1 \in Written(d[0]), NEW n \in Nat, UpTo(d, n), Holds(d, n)
    PROVE  Holds(Shift(d, k), n)
<1> DEFINE e == Shift(d, k)
<1>0. 0 \in Slots /\ k \in Nat
    BY AuditAssumption DEF Slots
<1>1. \A s \in Slots : e[s] = IF s = k + 1 THEN d[k] ELSE IF s = k THEN <<>> ELSE d[s]
    BY DEF Shift
<1>2. /\ d[0][1].hash \in Nat /\ d[0][1].hash <= n
    BY <1>0, WrittenEntry DEF Disk, UpTo
<1>3. Holds(e, d[0][1].hash)
    <2>1. PICK s \in Slots : e[s] = d[0]
        BY <1>0, <1>1
    <2> QED BY <2>1 DEF Holds
<1> HIDE DEF e
<1>4. ~Holds(e, n) => n < d[0][1].hash
    BY <1>3, ShiftDrops DEF e
<1> QED BY <1>2, <1>4 DEF e

(* A token at the end of the live file adds its entry and loses none. *)
LEMMA PutHolds ==
    ASSUME NEW d \in Disk, NEW x \in Token, NEW h
    PROVE  Holds(Put(d, Append(d[0], x)), h)
              <=> Holds(d, h) \/ (x \notin {Newline, Fragment} /\ x.hash = h)
<1> DEFINE old == d[0]
           new == Append(old, x)
           e == Put(d, new)
<1>0. 0 \in Slots
    BY AuditAssumption DEF Slots
<1>1. old \in Seq(Token) /\ Len(old) \in Nat
    BY <1>0, LenProperties DEF Disk
<1>2. /\ new[Len(old) + 1] = x
      /\ \A i \in 1 .. Len(old) : new[i] = old[i]
      /\ Written(old) \subseteq Written(new)
      /\ \A i \in Written(new) :
            i \in Written(old) \/ (i = Len(old) + 1 /\ x \notin {Newline, Fragment})
      /\ x \notin {Newline, Fragment} => Len(old) + 1 \in Written(new)
    BY <1>1, WrittenAppend
<1>3. \A i \in Written(old) : i \in Written(new) /\ new[i] = old[i]
    BY <1>2 DEF Written
<1>4. e[0] = new /\ \A s \in Slots : s # 0 => e[s] = d[s]
    BY <1>0 DEF Put
<1>5. ASSUME Holds(e, h)
      PROVE  Holds(d, h) \/ (x \notin {Newline, Fragment} /\ x.hash = h)
    <2>1. PICK s \in Slots : \E i \in Written(e[s]) : e[s][i].hash = h
        BY <1>5 DEF Holds
    <2>2. PICK i \in Written(e[s]) : e[s][i].hash = h
        BY <2>1
    <2> HIDE DEF e, new, old
    <2>3. CASE s = 0
        <3>1. CASE i \in Written(old)
            <4>1. old[i].hash = h
                BY <1>3, <1>4, <2>2, <2>3, <3>1
            <4> QED BY <1>0, <3>1, <4>1 DEF Holds, old
        <3>2. CASE i = Len(old) + 1 /\ x \notin {Newline, Fragment}
            BY <1>2, <1>4, <2>2, <2>3, <3>2
        <3> QED BY <1>2, <1>4, <2>2, <2>3, <3>1, <3>2
    <2>4. CASE s # 0
        BY <1>4, <2>2, <2>4 DEF Holds
    <2> QED BY <2>3, <2>4
<1>6. ASSUME Holds(d, h)
      PROVE  Holds(e, h)
    <2>1. PICK s \in Slots : \E i \in Written(d[s]) : d[s][i].hash = h
        BY <1>6 DEF Holds
    <2>2. PICK i \in Written(d[s]) : d[s][i].hash = h
        BY <2>1
    <2> HIDE DEF e, new
    <2>3. i \in Written(e[s]) /\ e[s][i] = d[s][i]
        BY <1>3, <1>4, <2>2
    <2> QED BY <2>2, <2>3 DEF Holds
<1>7. ASSUME x \notin {Newline, Fragment}, x.hash = h
      PROVE  Holds(e, h)
    <2>1. Len(old) + 1 \in Written(e[0]) /\ e[0][Len(old) + 1] = x
        BY <1>2, <1>4, <1>7
    <2> HIDE DEF e, old
    <2> QED BY <1>0, <1>7, <2>1 DEF Holds
<1> QED BY <1>5, <1>6, <1>7

(* An entry after an ended line leaves its text tidy, *)
LEMMA TidyEntry ==
    ASSUME NEW text \in Seq(Token), Tidy(text), Ended(text),
           NEW x \in Token, x \notin {Newline, Fragment}
    PROVE  Tidy(Append(text, x)) /\ Append(text, x) # <<>>
<1> DEFINE new == Append(text, x)
<1>1. /\ Len(text) \in Nat /\ new \in Seq(Token) /\ Len(new) = Len(text) + 1
      /\ new[Len(text) + 1] = x
      /\ \A i \in 1 .. Len(text) : new[i] = text[i]
      /\ \A i \in Written(new) : i \in Written(text) \/ i = Len(text) + 1
      /\ Written(text) \subseteq Written(new)
      /\ Len(text) + 1 \in Written(new)
    BY LenProperties, WrittenAppend
<1> HIDE DEF new
<1>2. ASSUME NEW i \in Written(new)
      PROVE  Parses(new, i)
    <2>1. CASE i \in Written(text)
        <3>1. /\ i \in 1 .. Len(text) /\ text[i] \notin {Newline, Fragment}
              /\ i > 1 => text[i - 1] = Newline
              /\ i < Len(text) => text[i + 1] = Newline
            BY <2>1 DEF Written, Tidy, Parses
        <3>2. i < Len(text)
            <4>1. text # <<>> /\ Newline \in {Newline, Fragment}
                BY <1>1, <3>1, EmptySeq
            <4>2. text[Len(text)] = Newline
                BY <4>1 DEF Ended
            <4> QED BY <1>1, <3>1, <4>1, <4>2
        <3> QED BY <1>1, <3>1, <3>2 DEF Parses
    <2>2. CASE i = Len(text) + 1
        <3>1. i > 1 => new[i - 1] = Newline
            <4>1. CASE i > 1
                <5>1. text # <<>> /\ Len(text) \in 1 .. Len(text) /\ i - 1 = Len(text)
                    BY <1>1, <2>2, <4>1, EmptySeq
                <5> QED BY <1>1, <5>1 DEF Ended
            <4> QED BY <4>1
        <3> QED BY <1>1, <2>2, <3>1 DEF Parses
    <2> QED BY <1>1, <2>1, <2>2
<1>3. 1 \in Written(new)
    <2>1. CASE text = <<>>
        BY <1>1, <2>1, EmptySeq
    <2> QED BY <1>1, <2>1 DEF Tidy
<1>4. new # <<>>
    BY <1>1, EmptySeq
<1> QED BY <1>2, <1>3, <1>4 DEF Tidy, new

(* and a line feed after an entry ends the line. *)
LEMMA TidyNewline ==
    ASSUME NEW text \in Seq(Token), Tidy(text), text # <<>>
    PROVE  Tidy(Append(text, Newline)) /\ Ended(Append(text, Newline))
<1> DEFINE new == Append(text, Newline)
<1>0. Newline \in Token
    BY DEF Token
<1>1. /\ Len(text) \in Nat /\ Len(new) = Len(text) + 1
      /\ new[Len(text) + 1] = Newline
      /\ \A i \in 1 .. Len(text) : new[i] = text[i]
      /\ \A i \in Written(new) : i \in Written(text)
      /\ Written(text) \subseteq Written(new)
    BY <1>0, LenProperties, WrittenAppend
<1> HIDE DEF new
<1>2. ASSUME NEW i \in Written(new)
      PROVE  Parses(new, i)
    <2>1. /\ i \in 1 .. Len(text) /\ text[i] \notin {Newline, Fragment}
          /\ i > 1 => text[i - 1] = Newline
          /\ i < Len(text) => text[i + 1] = Newline
        BY <1>1 DEF Written, Tidy, Parses
    <2> QED BY <1>1, <2>1 DEF Parses
<1>3. 1 \in Written(new)
    BY <1>1 DEF Tidy
<1>4. Ended(new)
    BY <1>1 DEF Ended
<1> QED BY <1>2, <1>3, <1>4 DEF Tidy, new

(* A step of the rotation moves a file down to a slot that is free, or the *)
(* last; or there is no file to move, nor any further down.                *)
LEMMA RotateCases ==
    ASSUME ChainInv, Rotating, Contiguous, Faults = FALSE,
           NEW c \in Calls, RotateSlot(c), NEW k \in Int, slot[c] = k + 1
    PROVE  /\ k \in Slots /\ k + 1 \in Slots /\ slot[c] = k + 1
           /\ Texts[k + 1] = <<>> \/ k + 1 = MaxFiles
           /\ \/ /\ Exists(k) /\ Texts' = Shift(Texts, k)
                 /\ \A s : Exists(s)' <=> s = k + 1 \/ (s # k /\ Exists(s))
              \/ /\ ~Exists(k) /\ k > 0 /\ Texts' = Texts
                 /\ \A s \in Slots : s >= k => ~Exists(s)
                 /\ \A s \in Slots : Exists(s)' <=> Exists(s)
<1>0. IsDirectory(files) /\ MaxFiles \in Nat
    BY AuditAssumption DEF ChainInv, TypeOK, DiskType
<1>1. k \in Slots /\ k + 1 \in Slots /\ slot[c] = k + 1 /\ pc[c] = "rotate"
    BY <1>0 DEF RotateSlot, ChainInv, TypeOK, LocalsType, Slots
<1>2. /\ Text(0) # <<>> /\ Exists(0)
      /\ k + 1 < MaxFiles => ~Exists(k + 1)
    BY <1>1 DEF Rotating, Text
<1>3. Texts[k + 1] = <<>> \/ k + 1 = MaxFiles
    BY <1>0, <1>1, <1>2 DEF Texts, Text, Slots
<1>4. \A d \in Calls : pc[d] = "rotate" => d = c
    BY <1>1, OneRecords DEF Recording
<1>5. ASSUME ~Exists(k)
      PROVE  k > 0 /\ \A s \in Slots : s >= k => ~Exists(s)
    <2>1. k > 0
        BY <1>1, <1>2, <1>5 DEF Slots
    <2>2. ASSUME NEW s \in Slots, s > k, Exists(s)
          PROVE  FALSE
        <3>1. \E d \in Calls : pc[d] = "rotate" /\ slot[d] = k
            BY <1>1, <1>5, <2>1, <2>2 DEF Contiguous
        <3> QED BY <1>1, <1>4, <3>1 DEF Slots
    <2> QED BY <1>1, <1>5, <2>1, <2>2 DEF Slots
<1>6. CASE Exists(k) /\ files' = Renamed(k)
    BY <1>0, <1>1, <1>3, <1>6, RenamedTexts
<1>7. CASE ~Exists(k) /\ files' = Removed(k + 1)
    <2>1. ~Exists(k + 1)
        BY <1>1, <1>5, <1>7 DEF Slots
    <2>2. /\ Texts' = [s \in Slots |-> IF s = k + 1 THEN <<>> ELSE Texts[s]]
          /\ \A s : Exists(s)' <=> s # k + 1 /\ Exists(s)
        BY <1>0, <1>1, <1>7, RemovedTexts
    <2>3. Texts' = Texts
        BY <2>1, <2>2 DEF Texts, Text
    <2> QED BY <1>1, <1>3, <1>5, <1>7, <2>1, <2>2, <2>3
<1>8. CASE ~Exists(k) /\ UNCHANGED files
    <2>1. Texts' = Texts /\ \A s : Exists(s)' <=> Exists(s)
        BY <1>8 DEF Texts, Text, Exists
    <2> QED BY <1>1, <1>3, <1>5, <1>8, <2>1
<1> QED BY <1>1, <1>6, <1>7, <1>8 DEF RotateSlot

LEMMA RotateWhole ==
    ASSUME ChainInv, ChainInv', OrderInv, WholeInv, Faults = FALSE,
           NEW c \in Calls, RotateSlot(c), NEW k \in Int, slot[c] = k + 1
    PROVE  WholeInv'
<1> DEFINE d == Texts
           e == Texts'
<1>0. /\ d \in Disk /\ 0 \in Slots /\ Slots \subseteq Nat /\ d[0] = Text(0)
      /\ Top \in Int /\ issued \in Nat /\ MaxFiles \in Nat
    BY TextsType, AuditAssumption
       DEF ChainInv, TypeOK, DiskType, MemoryType, Slots, Texts, Top, Hashes
<1>r. Rotating /\ Contiguous
    BY DEF WholeInv
<1>1. /\ k \in Slots /\ k + 1 \in Slots /\ slot[c] = k + 1
      /\ d[k + 1] = <<>> \/ k + 1 = MaxFiles
      /\ \/ /\ Exists(k) /\ e = Shift(d, k)
            /\ \A s : Exists(s)' <=> s = k + 1 \/ (s # k /\ Exists(s))
         \/ /\ ~Exists(k) /\ k > 0 /\ e = d
            /\ \A s \in Slots : s >= k => ~Exists(s)
            /\ \A s \in Slots : Exists(s)' <=> Exists(s)
    BY <1>r, RotateCases
<1>2. /\ pc[c] = "rotate" /\ pc[c] \in Recording /\ UNCHANGED <<issued>>
      /\ \A b \in Calls : b # c => pc[b] \notin Recording
      /\ pc' = [pc EXCEPT ![c] = IF k = 0 THEN "append" ELSE "rotate"]
      /\ slot' = [slot EXCEPT ![c] = k]
      /\ pc \in [Calls -> Steps] /\ slot \in [Calls -> Slots]
    <2>1. pc[c] = "rotate" /\ pc[c] \in Recording /\ UNCHANGED issued
        BY DEF RotateSlot, Recording, memory
    <2>2. \A b \in Calls : b # c => pc[b] \notin Recording
        BY <2>1, OneRecords
    <2>3. slot[c] - 1 = k /\ (slot[c] = 1 <=> k = 0)
        OBVIOUS
    <2>4. /\ pc' = [pc EXCEPT ![c] = IF k = 0 THEN "append" ELSE "rotate"]
          /\ slot' = [slot EXCEPT ![c] = k]
        BY <2>3 DEF RotateSlot, Goto
    <2> QED BY <2>1, <2>2, <2>4 DEF ChainInv, TypeOK, LocalsType
<1>3. ~Ending /\ ~Ending' /\ Filing = {c} /\ Filing' = {c} /\ Top' = Top
    <2>1. ~Ending /\ ~Ending'
        BY <1>2 DEF Ending, Recording
    <2>2. Filing = {c} /\ Filing' = {c}
        BY <1>2 DEF Filing, Recording
    <2> QED BY <1>2, <2>1, <2>2 DEF Top
<1>4. \A s \in Slots : e[s] = <<>> \/ \E t \in Slots : e[s] = d[t]
    BY <1>1 DEF Shift
<1>5. \A s \in Slots : Tidy(e[s]) /\ Ended(e[s])
    <2>1. Tidy(<<>>) /\ Ended(<<>>)
        BY EmptyWritten DEF Tidy, Ended
    <2>2. \A s \in Slots : Tidy(d[s]) /\ Ended(d[s])
        BY <1>3 DEF WholeInv, LinesInv
    <2> HIDE DEF d, e
    <2> QED BY <1>4, <2>1, <2>2
<1>6. Bound(e)
    <2>1. Bound(d)
        BY DEF WholeInv, LinesInv
    <2> HIDE DEF d, e
    <2> QED BY <1>4, <2>1, EmptyWritten DEF Bound
<1>7. Unbroken(e)
    <2>1. Unbroken(d) /\ InOrder(d)
        BY DEF WholeInv, OrderInv
    <2> HIDE DEF d, e
    <2> QED BY <1>0, <1>1, <2>1, ShiftUnbroken
<1>8. HasLog /\ (Top = 0 \/ Holds(e, Top))
    <2>1. HasLog /\ (Top = 0 \/ Holds(d, Top))
        BY <1>3 DEF WholeInv, HeadInv
    <2>2. InOrder(d) /\ UpTo(d, Top)
        BY DEF OrderInv
    <2>3. Text(0) # <<>>
        BY <1>2 DEF WholeInv, Rotating
    <2>4. 1 \in Written(d[0])
        BY <1>0, <2>3 DEF WholeInv, LinesInv, Tidy
    <2>5. Top >= 0
        <3>1. d[0][1].hash \in Nat /\ d[0][1].hash <= Top
            BY <1>0, <2>2, <2>4, WrittenEntry DEF UpTo, Disk
        <3> QED BY <1>0, <3>1
    <2> HIDE DEF d, e
    <2> QED BY <1>0, <1>1, <2>1, <2>2, <2>4, <2>5, ShiftNewest
<1>9. Rotating'
    <2> SUFFICES ASSUME NEW b \in Calls, pc'[b] = "rotate"
                 PROVE  /\ Text(0)' # <<>>
                        /\ (slot[b] < MaxFiles => ~Exists(slot[b]))'
        BY DEF Rotating
    <2>1. b = c /\ k # 0 /\ slot'[b] = k
        BY <1>2 DEF Recording
    <2>2. ~Exists(k)'
        BY <1>0, <1>1
    <2>3. Text(0) # <<>>
        BY <1>2 DEF WholeInv, Rotating
    <2>4. e[0] = d[0] /\ e[0] = Text(0)'
        BY <1>0, <1>1, <2>1 DEF Shift, Texts
    <2> QED BY <1>0, <2>1, <2>2, <2>3, <2>4 DEF Exists
<1>10. Contiguous'
    <2> SUFFICES ASSUME NEW s \in Slots, NEW t \in Slots, 0 < t, t < s, Exists(s)'
                 PROVE  Exists(t)' \/ (pc'[c] = "rotate" /\ slot'[c] = t /\ t < MaxFiles)
        BY DEF Contiguous
    <2>1. \A u \in Slots : t < u /\ Exists(u) => Exists(t) \/ t = k + 1
        BY <1>1, <1>2 DEF WholeInv, Contiguous, Recording
    <2>2. t = k => pc'[c] = "rotate" /\ slot'[c] = t /\ t < MaxFiles
        BY <1>0, <1>1, <1>2 DEF Slots
    <2> QED BY <1>0, <1>1, <2>1, <2>2
<1>11. LinesInv'
    <2>1. \A s \in Slots : Tidy(Texts[s])' /\ Ended(Texts[s])'
        BY <1>5 DEF Tidy, Ended, Written, Parses
    <2>2. Bound(Texts)'
        BY <1>6 DEF Bound, Written
    <2> QED BY <1>3, <2>1, <2>2 DEF LinesInv
<1>12. Unbroken(Texts)' /\ HeadInv'
    <2>1. Unbroken(Texts)'
        BY <1>7 DEF Unbroken, Holds, Written
    <2>2. Top = 0 \/ Holds(Texts, Top)'
        BY <1>3, <1>8 DEF Holds, Written
    <2> QED BY <1>3, <1>8, <2>1, <2>2 DEF HeadInv
<1> QED BY <1>9, <1>10, <1>11, <1>12 DEF WholeInv

(* Steps that leave the files and the rotation alone. *)
LEMMA WholeFrame ==
    ASSUME WholeInv, UNCHANGED files, Ending => Ending', Ending' => Ending,
           Rotating', Contiguous', Filing' # {} => HasLog,
           HasLog => Top' = Top
    PROVE  WholeInv'
<1>1. Texts' = Texts /\ Text(0)' = Text(0)
    BY DEF Texts, Text, Exists
<1>2. LinesInv'
    <2>1. \A s \in Slots : /\ Tidy(Texts'[s])
                           /\ s # 0 \/ ~Ending' => Ended(Texts'[s])
        BY <1>1 DEF WholeInv, LinesInv
    <2>2. Bound(Texts')
        BY <1>1 DEF WholeInv, LinesInv
    <2>3. Ending' => Text(0)' # <<>>
        BY <1>1 DEF WholeInv, LinesInv
    <2> QED BY <2>1, <2>2, <2>3 DEF LinesInv, Tidy, Ended, Bound, Written, Parses
<1>3. Unbroken(Texts)'
    BY <1>1 DEF WholeInv, Unbroken, Holds, Written
<1>4. HeadInv'
    <2>1. HasLog => Top' = 0 \/ Holds(Texts', Top')
        BY <1>1 DEF WholeInv, HeadInv
    <2> QED BY <2>1 DEF HeadInv, Holds, Written
<1> QED BY <1>2, <1>3, <1>4 DEF WholeInv

(* The entry goes behind the newest, where its line is still to be ended. *)
LEMMA EntryWhole ==
    ASSUME ChainInv, ChainInv', OrderInv, WholeInv, Faults = FALSE,
           NEW c \in Calls, AppendEntry(c)
    PROVE  WholeInv'
<1> DEFINE d == Texts
           x == entry[c]
           text == Append(d[0], x)
           e == Texts'
<1>0. /\ d \in Disk /\ 0 \in Slots /\ Slots \subseteq Nat /\ d[0] = Text(0)
      /\ d[0] \in Seq(Token) /\ x \in Entry /\ x \in Token
      /\ x \notin {Newline, Fragment} /\ issued \in Nat /\ IsDirectory(files)
    <2>1. /\ IsDirectory(files) /\ x \in Entry /\ issued \in Nat
          /\ 0 \in Slots /\ Slots \subseteq Nat
        BY AuditAssumption
           DEF ChainInv, TypeOK, DiskType, MemoryType, LocalsType, Slots, Hashes
    <2>2. d \in Disk /\ d[0] = Text(0) /\ d[0] \in Seq(Token)
        BY <2>1, TextsType, TextType DEF Texts
    <2>3. x \in Token /\ x \notin {Newline, Fragment}
        BY <2>1, AuditAssumption DEF Token
    <2> HIDE DEF d
    <2> QED BY <2>1, <2>2, <2>3
<1>1. /\ pc[c] = "append" /\ pc[c] \in Recording /\ UNCHANGED <<issued>>
      /\ files' = Store(0, Append(Text(0), x))
      /\ pc' = [pc EXCEPT ![c] = "newline"]
      /\ pc \in [Calls -> Steps]
    BY DEF AppendEntry, Recording, Goto, memory, ChainInv, TypeOK, LocalsType
<1>2. /\ hash_lock = c /\ Filing = {c}
      /\ \A b \in Calls : b # c => pc[b] \notin Recording
    BY <1>1, OneRecords
<1>3. x.hash = issued /\ x.prev \in {issued - 1, None} /\ issued > 0
    BY <1>0, <1>2 DEF ChainInv, ChainHead, Previous, TypeOK, MemoryType, Hashes
<1>4. /\ ~Ending /\ Ending' /\ Filing' = {} /\ Top = issued - 1 /\ Top' = issued /\ HasLog
    <2>1. ~Ending /\ Ending'
        BY <1>1, <1>2 DEF Ending, Recording
    <2>2. Filing' = {}
        BY <1>1, <1>2 DEF Filing, Recording
    <2> QED BY <1>1, <1>2, <2>1, <2>2 DEF Top, WholeInv, HeadInv
<1>5. /\ text \in Seq(Token) /\ e = Put(d, text)
      /\ \A s : Exists(s)' <=> s = 0 \/ Exists(s)
    <2>1. text \in Seq(Token)
        BY <1>0, WrittenAppend
    <2> QED BY <1>0, <1>1, <2>1, StoredTexts
<1>6. e[0] = text /\ \A s \in Slots : s # 0 => e[s] = d[s]
    BY <1>0, <1>5 DEF Put
<1>7. Tidy(text) /\ text # <<>>
    <2>1. Tidy(d[0]) /\ Ended(d[0])
        BY <1>0, <1>4 DEF WholeInv, LinesInv
    <2> QED BY <1>0, <2>1, TidyEntry
<1>8. LinesInv'
    <2>1. \A s \in Slots : Tidy(e[s]) /\ (s # 0 => Ended(e[s]))
        BY <1>6, <1>7 DEF WholeInv, LinesInv
    <2>2. \A s \in Slots : Tidy(Texts[s])' /\ (s # 0 => Ended(Texts[s])')
        BY <2>1 DEF Tidy, Ended, Written, Parses
    <2>3. Bound(e)
        <3> SUFFICES ASSUME NEW s \in Slots, NEW i \in Written(e[s])
                     PROVE  e[s][i].prev \in {e[s][i].hash - 1, None}
            BY DEF Bound
        <3>1. CASE s # 0
            BY <1>6, <3>1 DEF WholeInv, LinesInv, Bound
        <3>2. CASE s = 0
            <4>1. /\ text[Len(d[0]) + 1] = x
                  /\ \A j \in 1 .. Len(d[0]) : text[j] = d[0][j]
                  /\ i \in Written(d[0]) \/ i = Len(d[0]) + 1
                <5>1. i \in Written(text)
                    BY <1>6, <3>2
                <5> QED BY <1>0, <5>1, WrittenAppend
            <4>2. CASE i \in Written(d[0])
                <5>1. e[s][i] = d[0][i]
                    BY <1>6, <3>2, <4>1, <4>2 DEF Written
                <5> QED BY <1>0, <4>2, <5>1 DEF WholeInv, LinesInv, Bound
            <4>3. CASE i = Len(d[0]) + 1
                <5>1. e[s][i] = x
                    BY <1>6, <3>2, <4>1, <4>3
                <5> QED BY <1>3, <5>1
            <4> QED BY <4>1, <4>2, <4>3
        <3> QED BY <3>1, <3>2
    <2>4. Bound(Texts)'
        BY <2>3 DEF Bound, Written
    <2>5. Text(0)' # <<>>
        BY <1>0, <1>6, <1>7 DEF Texts
    <2> QED BY <1>4, <2>2, <2>4, <2>5 DEF LinesInv
<1>9. \A h : Holds(e, h) <=> Holds(d, h) \/ h = issued
    BY <1>0, <1>3, <1>5, PutHolds
<1>10. Unbroken(Texts)'
    <2> SUFFICES ASSUME NEW h \in Nat, NEW m \in Nat, NEW n \in Nat,
                        Holds(e, h), Holds(e, m), h <= n, n <= m
                 PROVE  Holds(e, n)
        BY DEF Unbroken, Holds, Written
    <2>1. Top = 0 \/ Holds(d, Top)
        BY <1>4 DEF WholeInv, HeadInv
    <2>2. \A g : Holds(d, g) => g <= Top
        BY DEF OrderInv, UpTo, Holds
    <2>3. Unbroken(d)
        BY DEF WholeInv
    <2> HIDE DEF d, e
    <2>4. CASE n = issued
        BY <1>9, <2>4
    <2>5. CASE n # issued
        <3>1. m <= issued /\ n <= Top /\ Top \in Nat
            BY <1>0, <1>3, <1>4, <1>9, <2>2, <2>5
        <3>2. Holds(d, h)
            BY <1>0, <1>4, <1>9, <3>1
        <3>3. CASE Top = 0
            BY <1>9, <3>1, <3>2, <3>3
        <3>4. CASE Holds(d, Top)
            BY <1>9, <2>3, <3>1, <3>2, <3>4 DEF Unbroken
        <3> QED BY <2>1, <3>3, <3>4
    <2> QED BY <2>4, <2>5
<1>11. HeadInv'
    <2>1. Holds(Texts, Top)'
        BY <1>4, <1>9 DEF Holds, Written
    <2> QED BY <1>4, <2>1 DEF HeadInv
<1>12. Rotating'
    BY <1>1, <1>2 DEF Rotating, Recording
<1>13. Contiguous'
    <2>1. \A b \in Calls : pc[b] # "rotate"
        BY <1>1, <1>2 DEF Recording
    <2> QED BY <1>0, <1>5, <2>1 DEF WholeInv, Contiguous
<1> QED BY <1>8, <1>10, <1>11, <1>12, <1>13 DEF WholeInv

LEMMA NewlineWhole ==
    ASSUME ChainInv, WholeInv, Faults = FALSE, NEW c \in Calls, AppendNewline(c)
    PROVE  WholeInv'
<1> DEFINE d == Texts
           text == Append(d[0], Newline)
           e == Texts'
<1>0. /\ IsDirectory(files) /\ 0 \in Slots /\ Slots \subseteq Nat /\ Newline \in Token
      /\ pc \in [Calls -> Steps]
    BY AuditAssumption DEF ChainInv, TypeOK, DiskType, LocalsType, Slots, Token
<1>1. /\ pc[c] = "newline" /\ pc[c] \in Recording /\ UNCHANGED issued
      /\ files' = Store(0, Append(Text(0), Newline))
      /\ pc' = [pc EXCEPT ![c] = "push"]
    BY DEF AppendNewline, Recording, Goto, memory
<1>2. d \in Disk /\ d[0] = Text(0) /\ d[0] \in Seq(Token)
    BY <1>0, TextsType, TextType DEF Texts
<1>3. Filing = {} /\ \A b \in Calls : b # c => pc[b] \notin Recording
    BY <1>1, OneRecords
<1>4. Ending /\ ~Ending' /\ Filing' = {} /\ Top' = Top
    <2>1. Ending /\ ~Ending'
        BY <1>0, <1>1, <1>3 DEF Ending, Recording
    <2>2. Filing' = {}
        BY <1>0, <1>1, <1>3 DEF Filing, Recording
    <2> QED BY <1>1, <1>3, <2>1, <2>2 DEF Top
<1>5. /\ text \in Seq(Token) /\ e = Put(d, text)
      /\ \A s : Exists(s)' <=> s = 0 \/ Exists(s)
    <2>1. text \in Seq(Token)
        BY <1>0, <1>2, WrittenAppend
    <2> QED BY <1>0, <1>1, <1>2, <2>1, StoredTexts
<1>6. e[0] = text /\ \A s \in Slots : s # 0 => e[s] = d[s]
    BY <1>0, <1>5 DEF Put
<1>7. Tidy(text) /\ Ended(text)
    BY <1>0, <1>2, <1>4, TidyNewline DEF WholeInv, LinesInv
<1>8. LinesInv'
    <2>1. \A s \in Slots : Tidy(e[s]) /\ Ended(e[s])
        BY <1>6, <1>7 DEF WholeInv, LinesInv
    <2>2. \A s \in Slots : Tidy(Texts[s])' /\ Ended(Texts[s])'
        BY <2>1 DEF Tidy, Ended, Written, Parses
    <2>3. ASSUME NEW s \in Slots, NEW i \in Written(e[s])
          PROVE  i \in Written(d[s]) /\ e[s][i] = d[s][i]
        <3>1. /\ \A j \in 1 .. Len(d[0]) : text[j] = d[0][j]
              /\ \A j \in Written(text) : j \in Written(d[0])
            BY <1>0, <1>2, WrittenAppend
        <3> QED BY <1>6, <2>3, <3>1 DEF Written
    <2>4. Bound(e)
        BY <2>3 DEF WholeInv, LinesInv, Bound
    <2>5. Bound(Texts)'
        BY <2>4 DEF Bound, Written
    <2> QED BY <1>4, <2>2, <2>5 DEF LinesInv
<1>9. \A h : Holds(e, h) <=> Holds(d, h)
    BY <1>0, <1>2, <1>5, PutHolds
<1>10. Unbroken(Texts)'
    <2>1. Unbroken(e)
        BY <1>9 DEF WholeInv, Unbroken
    <2> QED BY <2>1 DEF Unbroken, Holds, Written
<1>11. HeadInv'
    <2>1. HasLog => Top' = 0 \/ Holds(e, Top')
        BY <1>4, <1>9 DEF WholeInv, HeadInv
    <2> QED BY <1>4, <2>1 DEF HeadInv, Holds, Written
<1>12. Rotating'
    BY <1>0, <1>1, <1>3 DEF Rotating, Recording
<1>13. Contiguous'
    <2>1. \A b \in Calls : pc[b] # "rotate"
        BY <1>1, <1>3 DEF Recording
    <2>2. \A s, t \in Slots : 0 < t /\ t < s /\ Exists(s) => Exists(t)
        BY <2>1 DEF WholeInv, Contiguous
    <2>3. \A s \in Slots : Exists(s)' <=> s = 0 \/ Exists(s)
        BY <1>5
    <2>4. \A s, t \in Slots : 0 < t /\ t < s /\ Exists(s)' => Exists(t)'
        BY <1>0, <2>2, <2>3
    <2> QED BY <2>4 DEF Contiguous
<1> QED BY <1>8, <1>10, <1>11, <1>12, <1>13 DEF WholeInv

(* No call but one at "rotate" has a say in where the files are. *)
LEMMA AtRest ==
    ASSUME WholeInv, UNCHANGED files,
           \A b \in Calls : pc[b] # "rotate" /\ pc'[b] # "rotate"
    PROVE  Rotating' /\ Contiguous'
BY DEF WholeInv, Rotating, Contiguous, Exists

LEMMA WholeStep ==
    ASSUME CheckpointCalls = {}, Faults = FALSE,
           WholeInv, OrderInv, ChainInv, ChainInv', [Next]_vars
    PROVE  WholeInv'
<1>0. /\ pc \in [Calls -> Steps] /\ slot \in [Calls -> Slots]
      /\ issued \in Nat /\ MaxFiles \in Nat
    BY AuditAssumption DEF ChainInv, TypeOK, MemoryType, LocalsType, Hashes
<1>1. ASSUME NEW c \in Calls, Begin(c) PROVE WholeInv'
    <2>1. /\ pc[c] = "idle" /\ pc' = [pc EXCEPT ![c] = "record"]
          /\ UNCHANGED <<files, issued, slot>>
        BY <1>1 DEF Begin, Goto, memory, disk, locals
    <2>2. Filing' = Filing /\ (Ending' <=> Ending)
        BY <1>0, <2>1 DEF Filing, Ending
    <2>3. Rotating' /\ Contiguous'
        BY <1>0, <2>1 DEF WholeInv, Rotating, Contiguous, Text, Exists
    <2>4. Top' = Top
        BY <2>1, <2>2 DEF Top
    <2> QED BY <2>1, <2>2, <2>3, <2>4, WholeFrame DEF WholeInv, HeadInv
<1>2. ASSUME NEW c \in Calls, Chain(c) PROVE WholeInv'
    <2>1. /\ pc[c] = "record" /\ hash_lock = Free
          /\ issued' = issued + 1 /\ UNCHANGED <<files, slot>>
          /\ pc' = [pc EXCEPT ![c] = IF HasLog THEN "check" ELSE "push"]
        BY <1>2 DEF Chain, LockFree, Goto, disk
    <2>2. \A b \in Calls : pc[b] \notin Recording
        BY <2>1, AuditAssumption DEF ChainInv, GuardHeld
    <2>3. Filing = {} /\ Filing' = IF HasLog THEN {c} ELSE {}
        BY <1>0, <2>1, <2>2 DEF Filing, Recording
    <2>4. ~Ending /\ ~Ending'
        BY <1>0, <2>1, <2>2 DEF Ending, Recording
    <2>5. \A b \in Calls : pc[b] # "rotate" /\ pc'[b] # "rotate"
        BY <1>0, <2>1, <2>2 DEF Recording
    <2>6. HasLog => Top' = Top
        BY <1>0, <2>1, <2>3 DEF Top
    <2>7. Rotating' /\ Contiguous'
        BY <2>1, <2>5, AtRest
    <2> QED BY <2>1, <2>3, <2>4, <2>6, <2>7, WholeFrame
<1>3. ASSUME NEW c \in Calls, CheckSize(c) PROVE WholeInv'
    <2>1. pc[c] = "check" /\ pc[c] \in Recording /\ UNCHANGED <<files, issued>>
        BY <1>3 DEF CheckSize, Recording, memory, disk
    <2>2. /\ \A b \in Calls : b # c => pc[b] \notin Recording
          /\ Filing = {c}
        BY <2>1, OneRecords
    <2>3. \/ /\ RotationDue /\ pc' = [pc EXCEPT ![c] = "rotate"]
             /\ slot' = [slot EXCEPT ![c] = MaxFiles]
          \/ pc' = [pc EXCEPT ![c] = "append"]
        BY <1>3 DEF CheckSize, Goto, FirstSlot
    <2>4. Filing' = {c} /\ ~Ending /\ ~Ending'
        <3>1. Filing' = {c}
            BY <1>0, <2>2, <2>3 DEF Filing, Recording
        <3>2. ~Ending /\ ~Ending'
            BY <1>0, <2>1, <2>2, <2>3 DEF Ending, Recording
        <3> QED BY <3>1, <3>2
    <2>5. Top' = Top /\ HasLog
        BY <2>1, <2>2, <2>4 DEF Top, WholeInv, HeadInv
    <2>6. Rotating' /\ Contiguous'
        <3>1. CASE pc' = [pc EXCEPT ![c] = "append"]
            BY <1>0, <2>1, <2>2, <3>1, AtRest DEF Recording
        <3>2. CASE /\ RotationDue /\ pc' = [pc EXCEPT ![c] = "rotate"]
                   /\ slot' = [slot EXCEPT ![c] = MaxFiles]
            <4>1. Text(0)' # <<>>
                <5>1. Exists(0) /\ Len(Text(0)) > 0
                    BY <3>2, AuditAssumption DEF RotationDue, Text, ChainInv, TypeOK,
                       DiskType, IsDirectory, Exists
                <5> QED BY <2>1, <5>1, EmptySeq DEF Text, Exists
            <4>2. \A b \in Calls : pc'[b] = "rotate" => b = c
                BY <1>0, <2>2, <3>2 DEF Recording
            <4>3. Rotating'
                BY <1>0, <3>2, <4>1, <4>2 DEF Rotating
            <4>4. \A b \in Calls : pc[b] # "rotate"
                BY <2>1, <2>2 DEF Recording
            <4>5. Contiguous'
                BY <2>1, <4>4 DEF WholeInv, Contiguous, Exists
            <4> QED BY <4>3, <4>5
        <3> QED BY <2>3, <3>1, <3>2
    <2> QED BY <2>1, <2>4, <2>5, <2>6, WholeFrame
<1>4. ASSUME NEW c \in Calls, RotateSlot(c) PROVE WholeInv'
    <2>1. slot[c] - 1 \in Int /\ slot[c] = (slot[c] - 1) + 1
        BY <1>0 DEF Slots
    <2> QED BY <1>4, <2>1, RotateWhole
<1>5. ASSUME NEW c \in Calls, Push(c) PROVE WholeInv'
    <2>1. /\ pc[c] = "push" /\ pc[c] \in Recording
          /\ pc' = [pc EXCEPT ![c] = "idle"] /\ UNCHANGED <<files, issued>>
        BY <1>5 DEF Push, Recording, Goto, disk
    <2>2. /\ \A b \in Calls : b # c => pc[b] \notin Recording
          /\ Filing = {}
        BY <2>1, OneRecords
    <2>3. Filing' = {} /\ ~Ending /\ ~Ending'
        BY <1>0, <2>1, <2>2 DEF Filing, Ending, Recording
    <2>4. \A b \in Calls : pc[b] # "rotate" /\ pc'[b] # "rotate"
        BY <1>0, <2>1, <2>2 DEF Recording
    <2>5. Rotating' /\ Contiguous'
        BY <2>1, <2>4, AtRest
    <2>6. Top' = Top
        BY <2>1, <2>2, <2>3 DEF Top
    <2> QED BY <2>1, <2>3, <2>5, <2>6, WholeFrame
<1>6. ASSUME NEW c \in Calls, Checkpoint(c) PROVE WholeInv'
    BY <1>6 DEF OrderInv, NoCheckpoint, Checkpoint, ReadHash, TakeSnapshot, TruncateLog,
                WriteLog, CommitCheckpoint, Recording
<1>7. CASE Restart
    <2>1. /\ \A b \in Calls : pc[b] = "idle" /\ pc'[b] = "idle"
          /\ UNCHANGED <<files, issued>>
        BY <1>7 DEF Restart, Active, disk
    <2>2. Filing = {} /\ Filing' = {} /\ ~Ending /\ ~Ending'
        BY <2>1 DEF Filing, Ending
    <2>3. Rotating' /\ Contiguous'
        BY <2>1, AtRest
    <2>4. Top' = Top
        BY <2>1, <2>2 DEF Top
    <2> QED BY <2>1, <2>2, <2>3, <2>4, WholeFrame
<1>8. CASE UNCHANGED vars
    <2>1. UNCHANGED <<files, issued, pc, slot>>
        BY <1>8 DEF vars, memory, disk, locals
    <2>2. Filing' = Filing /\ (Ending' <=> Ending)
        BY <2>1 DEF Filing, Ending
    <2>3. Rotating' /\ Contiguous'
        BY <2>1 DEF WholeInv, Rotating, Contiguous, Text, Exists
    <2>4. Top' = Top
        BY <2>1, <2>2 DEF Top
    <2> QED BY <2>1, <2>2, <2>3, <2>4, WholeFrame DEF WholeInv, HeadInv
<1> QED BY <1>1, <1>2, <1>3, <1>4, <1>5, <1>6, <1>7, <1>8, EntryWhole, NewlineWhole
        DEF Next, Record

LEMMA WholeInit ==
    ASSUME Init
    PROVE  WholeInv
<1>1. /\ \A s : ~Exists(s) /\ Text(s) = <<>>
      /\ \A c \in Calls : pc[c] = "idle"
    BY DEF Init, Text, Exists
<1>2. \A s \in Slots : Texts[s] = <<>>
    BY <1>1 DEF Texts
<1>3. Filing = {} /\ ~Ending /\ Top = 0
    BY <1>1 DEF Filing, Ending, Top, Init
<1>4. LinesInv
    BY <1>2, <1>3, EmptyWritten DEF LinesInv, Tidy, Ended, Bound
<1>5. Unbroken(Texts)
    BY <1>2, EmptyWritten DEF Unbroken, Holds
<1>6. HeadInv /\ Rotating /\ Contiguous
    BY <1>1, <1>3 DEF HeadInv, Rotating, Contiguous
<1> QED BY <1>4, <1>5, <1>6 DEF WholeInv

LEMMA WholeReached ==
    ASSUME CheckpointCalls = {}, Faults = FALSE
    PROVE  Spec => [](ChainInv /\ OrderInv /\ WholeInv)
<1>1. Init => WholeInv
    BY WholeInit
<1>2. ChainInv /\ OrderInv /\ ChainInv' /\ WholeInv /\ [Next]_vars => WholeInv'
    BY WholeStep
<1> QED BY <1>1, <1>2, OrderReached, PTL DEF Spec

(* The hashes on disk are those of the entries written there. *)
LEMMA OnDiskHolds ==
    ASSUME WholeInv
    PROVE  /\ \A h : h \in OnDisk <=> Holds(Texts, h)
           /\ \A s \in Slots : \A i \in Written(Texts[s]) : <<s, i>> \in DiskLog
<1>1. ASSUME NEW s \in Slots, NEW i \in Written(Texts[s])
      PROVE  <<s, i>> \in DiskLog /\ Line(<<s, i>>) = Texts[s][i]
    <2>1. Texts[s] = Text(s)
        BY DEF Texts
    <2>2. i \in 1 .. Len(Text(s)) /\ Parses(Text(s), i)
        BY <2>1 DEF WholeInv, LinesInv, Tidy, Written
    <2>3. <<s, i>> \in {s} \X {j \in 1 .. Len(Text(s)) : Parses(Text(s), j)}
        BY <2>2
    <2> QED BY <2>1, <2>3 DEF DiskLog, Line
<1>2. ASSUME NEW h, Holds(Texts, h)
      PROVE  h \in OnDisk
    BY <1>1, <1>2 DEF Holds, OnDisk
<1>3. ASSUME NEW h \in OnDisk
      PROVE  Holds(Texts, h)
    <2>1. PICK l \in DiskLog : h = Line(l).hash
        BY DEF OnDisk
    <2> QED BY <2>1, LineWritten DEF Holds
<1> QED BY <1>1, <1>2, <1>3

(* Order and no hole make the hashes of two lines next to each other       *)
(* differ by one.                                                          *)
LEMMA AdjacentHashes ==
    ASSUME ChainInv, OrderInv, WholeInv,
           NEW l \in DiskLog, NEW m \in DiskLog, Adjacent(l, m)
    PROVE  /\ Line(l).hash \in Nat /\ Line(m).hash = Line(l).hash + 1
           /\ Line(m).prev \in {Line(m).hash - 1, None}
<1>1. Texts \in Disk /\ Slots \subseteq Nat
    BY TextsType, AuditAssumption DEF ChainInv, TypeOK, DiskType, Slots
<1>2. ASSUME NEW k \in DiskLog
      PROVE  /\ k = <<k[1], k[2]>> /\ k[1] \in Nat /\ k[2] \in Nat
             /\ Line(k).hash \in Nat /\ Holds(Texts, Line(k).hash)
             /\ Line(k).prev \in {Line(k).hash - 1, None}
    <2>1. /\ k = <<k[1], k[2]>> /\ k[1] \in Slots
          /\ k[2] \in Written(Texts[k[1]]) /\ Line(k) = Texts[k[1]][k[2]]
        BY LineWritten
    <2>2. Texts[k[1]] \in Seq(Token)
        BY <1>1, <2>1 DEF Disk
    <2>3. k[2] \in Nat /\ Line(k).hash \in Nat
        BY <2>1, <2>2, WrittenEntry, LenProperties
    <2>4. Holds(Texts, Line(k).hash)
        BY <2>1 DEF Holds
    <2>5. Line(k).prev \in {Line(k).hash - 1, None}
        BY <2>1 DEF WholeInv, LinesInv, Bound
    <2> QED BY <1>1, <2>1, <2>3, <2>4, <2>5
<1>3. DiskInOrder
    BY LineWritten DEF OrderInv, InOrder, DiskInOrder, Older
<1>4. Line(l).hash < Line(m).hash
    BY <1>3 DEF Adjacent, DiskInOrder
<1>5. ASSUME Line(l).hash + 1 < Line(m).hash
      PROVE  FALSE
    <2>1. Line(l).hash + 1 \in OnDisk
        BY <1>2, <1>5, OnDiskHolds DEF WholeInv, Unbroken
    <2>2. PICK k \in DiskLog : Line(k).hash = Line(l).hash + 1
        BY <2>1 DEF OnDisk
    <2>3. ~Older(k, l) /\ ~Older(m, k)
        BY <1>2, <1>3, <1>5, <2>2 DEF DiskInOrder
    <2>4. k # l /\ k # m
        BY <1>2, <1>5, <2>2
    <2>5. Older(l, k) /\ Older(k, m)
        BY <1>2, <2>3, <2>4 DEF Older
    <2> QED BY <2>5 DEF Adjacent
<1> QED BY <1>2, <1>4, <1>5

(* While no checkpoint rewrites the log, no file operation fails and no    *)
(* call is cut off (Faults is FALSE), the rotated files and the live one   *)
(* are one chain without a hole that ends with the newest entry            *)
(* (AuditLog::record, rotate_if_needed), for any number of calls, files    *)
(* and restarts between calls and any size limit.                          *)
THEOREM DiskKeepsChain ==
    ASSUME CheckpointCalls = {}, Faults = FALSE
    PROVE  Spec => []DiskChainVerifies
<1>1. ChainInv /\ OrderInv /\ WholeInv => DiskChainVerifies
    <2> SUFFICES ASSUME ChainInv, OrderInv, WholeInv
                 PROVE  DiskChainVerifies
        OBVIOUS
    <2>1. Verifies
        BY AdjacentHashes DEF Verifies
    <2>2. \A l, m \in DiskLog : Adjacent(l, m) => Line(m).hash = Line(l).hash + 1
        BY AdjacentHashes
    <2>3. Active = {} /\ issued > 0 /\ HasLog => issued \in OnDisk
        <3>1. Active = {} => Filing = {}
            BY DEF Active, Filing
        <3>2. Filing = {} /\ HasLog => issued = 0 \/ Holds(Texts, issued)
            BY DEF WholeInv, HeadInv, Top
        <3>3. issued \in Nat
            BY DEF ChainInv, TypeOK, MemoryType, Hashes
        <3> QED BY <3>1, <3>2, <3>3, OnDiskHolds
    <2> QED BY <2>1, <2>2, <2>3 DEF DiskChainVerifies
<1> QED BY <1>1, WholeReached, PTL

(* A rotation drops the oldest entries only, and only when max_files       *)
(* rotated files are there already (rotate_if_needed), under the same      *)
(* hypotheses.                                                             *)
THEOREM RotationDropsTheOldest ==
    ASSUME CheckpointCalls = {}, Faults = FALSE
    PROVE  Spec => RotationDropsOldest
<1> DEFINE Drop == \A h \in OnDisk \ OnDisk' :
                      /\ \A k \in OnDisk' : h < k
                      /\ \A s \in Slots : Exists(s)
<1>g. WholeInv => \A g : g \in OnDisk <=> Holds(Texts, g)
    BY OnDiskHolds
<1>h. WholeInv' => (\A g : g \in OnDisk <=> Holds(Texts, g))'
    BY <1>g, PTL
<1>1. ChainInv /\ OrderInv /\ WholeInv /\ WholeInv' /\ [Next]_vars => [Drop]_vars
    <2> SUFFICES ASSUME ChainInv, OrderInv, WholeInv, WholeInv', Next,
                        NEW h, h \in OnDisk, ~(h \in OnDisk')
                 PROVE  /\ \A k \in OnDisk' : h < k
                        /\ \A s \in Slots : Exists(s)
        OBVIOUS
    <2>1. /\ \A g : g \in OnDisk <=> Holds(Texts, g)
          /\ \A g : g \in OnDisk' <=> Holds(Texts', g)
        <3>1. \A g : g \in OnDisk' <=> Holds(Texts, g)'
            BY <1>h
        <3> QED BY <3>1, OnDiskHolds DEF Holds, Written
    <2>2. Texts \in Disk /\ IsDirectory(files)
        BY TextsType DEF ChainInv, TypeOK, DiskType
    <2>3. ~(UNCHANGED files)
        <3>1. UNCHANGED files => Texts' = Texts
            BY DEF Texts, Text, Exists
        <3> QED BY <2>1, <3>1
    <2>4. PICK c \in Calls : RotateSlot(c) \/ AppendEntry(c) \/ AppendNewline(c)
        BY <2>3 DEF Next, Begin, Restart, Record, Chain, CheckSize, Push, disk, OrderInv,
               NoCheckpoint, Recording, Checkpoint, ReadHash, TakeSnapshot, TruncateLog,
               WriteLog, CommitCheckpoint
    <2>5. CASE AppendEntry(c) \/ AppendNewline(c)
        <3>1. PICK x \in Token : files' = Store(0, Append(Text(0), x))
            BY <2>3, <2>5 DEF AppendEntry, AppendNewline, ChainInv, TypeOK, LocalsType, Token
        <3>2. 0 \in Slots /\ Text(0) \in Seq(Token) /\ Texts[0] = Text(0)
            BY <2>2, TextType, AuditAssumption DEF Slots, Texts
        <3>3. Texts' = Put(Texts, Append(Texts[0], x))
            BY <2>2, <3>1, <3>2, StoredTexts, WrittenAppend
        <3> QED BY <2>1, <2>2, <3>3, PutHolds
    <2>6. CASE RotateSlot(c)
        <3>1. PICK k \in Int : slot[c] = k + 1
            <4>1. slot[c] \in Slots
                BY DEF ChainInv, TypeOK, LocalsType
            <4>2. slot[c] - 1 \in Int /\ slot[c] = (slot[c] - 1) + 1
                BY <4>1 DEF Slots
            <4> QED BY <4>2
        <3>2. Rotating /\ Contiguous /\ InOrder(Texts)
            BY DEF WholeInv, OrderInv
        <3>3. /\ k \in Slots /\ k + 1 \in Slots
              /\ Texts[k + 1] = <<>> \/ k + 1 = MaxFiles
              /\ Texts' = Shift(Texts, k) \/ Texts' = Texts
            BY <2>6, <3>1, <3>2, RotateCases
        <3>4. Texts' = Shift(Texts, k)
            BY <2>1, <3>3
        <3>5. /\ k + 1 = MaxFiles /\ Texts[MaxFiles] # <<>>
              /\ \A n : Holds(Texts', n) => h < n
            BY <2>1, <2>2, <3>2, <3>3, <3>4, ShiftDrops
        <3>6. ASSUME NEW s \in Slots
              PROVE  Exists(s)
            <4>1. Exists(MaxFiles)
                BY <3>3, <3>5 DEF Texts, Text
            <4>2. Exists(0)
                BY <2>6 DEF Rotating, WholeInv, RotateSlot, Text
            <4>3. \A b \in Calls : pc[b] = "rotate" => slot[b] = MaxFiles
                BY <2>6, <3>1, <3>5, OneRecords DEF RotateSlot, Recording
            <4>4. CASE 0 < s /\ s < MaxFiles
                BY <3>2, <3>3, <3>5, <4>1, <4>3, <4>4 DEF Contiguous
            <4> QED BY <4>1, <4>2, <4>4, AuditAssumption DEF Slots
        <3> QED BY <2>1, <3>5, <3>6
    <2> QED BY <2>4, <2>5, <2>6
<1>2. Spec => [][Drop]_vars
    <2> HIDE DEF Drop
    <2> QED BY <1>1, WholeReached, PTL DEF Spec
<1> QED BY <1>2 DEF RotationDropsOldest
=============================================================================
