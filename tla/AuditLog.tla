------------------------------ MODULE AuditLog ------------------------------
(***************************************************************************)
(* kc-admin-mcp/src/audit.rs: the hash-chained audit log, driven by the    *)
(* tool calls of server.rs.  Every tool call ends in AuditLog::record; the *)
(* audit.checkpoint tool runs AuditLog::checkpoint first.  Calls run       *)
(* concurrently; one step here is what happens between two points where    *)
(* another call, an I/O error or the end of the process can come between.  *)
(*                                                                         *)
(* Data.  The n-th entry ever hashed has hash n (SHA-256 is taken to be    *)
(* injective on entries, prev_hash included), so an entry is its hash and  *)
(* its prev_hash.  A file is a sequence of tokens, one per write_all: an   *)
(* entry's JSON, the line feed that ends it, or the fragment a failed      *)
(* write leaves; its size is its number of tokens, all of equal width.     *)
(***************************************************************************)
EXTENDS Naturals, Sequences, SequencesExt

CONSTANTS
    Calls,           \* tool calls the server can have in flight at once
    CheckpointCalls, \* those that may be a call of audit.checkpoint
    MaxEntries,      \* max_entries, after new() has raised 0 to 1
    HasLog,          \* log_path is configured
    HasCheckpoint,   \* checkpoint_path is configured
    MaxBytes,        \* log_max_bytes, 0 when it is None
    MaxFiles,        \* log_max_files
    Faults,          \* file operations may fail, and the process may be killed
    MaxIssued,       \* bound: entries ever hashed
    MaxRestarts,     \* bound: restarts of the process
    Newline,         \* the token of a line feed
    Fragment,        \* the token a failed write leaves
    Free             \* the holder of a lock nobody holds

Hashes == Nat
Entry  == [hash : Hashes, prev : Hashes]

ASSUME AuditAssumption ==
    /\ MaxEntries \in Nat \ {0}
    /\ MaxBytes \in Nat /\ MaxFiles \in Nat
    /\ MaxIssued \in Nat /\ MaxRestarts \in Nat
    /\ HasLog \in BOOLEAN /\ HasCheckpoint \in BOOLEAN /\ Faults \in BOOLEAN
    /\ CheckpointCalls \subseteq Calls
    /\ Free \notin Calls
    /\ Newline \notin Entry /\ Fragment \notin Entry

VARIABLES
    entries,      \* the ring: entries: Mutex<VecDeque<AuditEntry>>
    last_hash,    \* last_hash: Mutex<Option<String>>
    hash_lock,    \* the call that holds the guard of last_hash
    issued,       \* entries hashed so far: the last hash given out
    booted,       \* issued when the process started
    files,        \* slot |-> text: slot 0 is log_path, slot i is log_path.i
    checkpointed, \* last_hash in the checkpoint file
    pc,           \* where each call is
    entry,        \* record: its entry
    slot,         \* rotate_if_needed: idx
    read_hash,    \* checkpoint: its copy of last_hash
    lines,        \* checkpoint: its contents
    fd,           \* checkpoint: the slot of the file it opened
    restarts      \* restarts so far

memory  == <<entries, last_hash, hash_lock, issued, booted>>
disk    == <<files, checkpointed>>
locals  == <<entry, slot, read_hash, lines, fd>>
vars    == <<memory, disk, pc, locals, restarts>>

None     == 0                        \* Option::None for a hash
NoEntry  == [hash |-> None, prev |-> None]
Token    == Entry \cup {Newline, Fragment}
Slots    == 0 .. MaxFiles
Unlinked == MaxFiles + 1             \* an open file with no name left

Steps == {"idle", "record", "check", "rotate", "append", "newline", "push",
          "hash", "snapshot", "truncate", "write", "commit"}

(* The steps of record, all taken under the guard of last_hash. *)
Recording == {"check", "rotate", "append", "newline", "push"}

(* snapshot(limit): the newest entries, in chronological order. *)
Snapshot(limit) ==
    LET n == IF limit = 0 THEN 1 ELSE limit
    IN IF Len(entries) <= n THEN entries
       ELSE SubSeq(entries, Len(entries) - n + 1, Len(entries))

Exists(s) == s \in DOMAIN files
Text(s)   == IF Exists(s) THEN files[s] ELSE <<>>

(* fs::rename of slot s to slot s + 1: it replaces what was there, whose   *)
(* open descriptors lose their name.                                       *)
Copied(s) == [t \in DOMAIN files \cup {s + 1} |->    \* mutant of Renamed
                  IF t = s + 1 THEN files[s] ELSE files[t]]
Renamed(s) == [t \in (DOMAIN files \ {s}) \cup {s + 1} |->
                  IF t = s + 1 THEN files[s] ELSE files[t]]
FollowRename(s) == [c \in Calls |-> IF fd[c] = s THEN s + 1
                                    ELSE IF fd[c] = s + 1 THEN Unlinked
                                    ELSE fd[c]]

(* fs::remove_file of slot s. *)
Removed(s) == [t \in DOMAIN files \ {s} |-> files[t]]
Unlink(s)  == [c \in Calls |-> IF fd[c] = s THEN Unlinked ELSE fd[c]]

(* The text of slot s becomes text. *)
Store(s, text) == [t \in DOMAIN files \cup {s} |->
                      IF t = s THEN text ELSE files[t]]

(* A write of text at offset 0 of a file that holds old. *)
Overwrite(old, text) == text \o SubSeq(old, Len(text) + 1, Len(old))

(* The lines of a sequence of entries. *)
Encoded(es) == [i \in 1 .. 2 * Len(es) |->
                   IF i % 2 = 1 THEN es[(i + 1) \div 2] ELSE Newline]

Goto(c, step) == pc' = [pc EXCEPT ![c] = step]

Init ==
    /\ entries = <<>> /\ last_hash = None /\ hash_lock = Free
    /\ issued = 0 /\ booted = 0
    /\ files = [s \in {} |-> <<>>] /\ checkpointed = None
    /\ pc = [c \in Calls |-> "idle"]
    /\ entry = [c \in Calls |-> NoEntry]
    /\ slot = [c \in Calls |-> 0]
    /\ read_hash = [c \in Calls |-> None]
    /\ lines = [c \in Calls |-> <<>>]
    /\ fd = [c \in Calls |-> Unlinked]
    /\ restarts = 0

-----------------------------------------------------------------------------
(* server.rs, call_tool: a call has run its tool and goes on to record it, *)
(* or its tool is audit.checkpoint and runs that first.                    *)

Active == {c \in Calls : pc[c] # "idle"}

Begin(c) ==
    /\ pc[c] = "idle"
    /\ issued + Cardinality(Active) < MaxIssued
    /\ \/ Goto(c, "record")
       \/ c \in CheckpointCalls /\ Goto(c, "hash")
    /\ UNCHANGED <<memory, disk, locals, restarts>>

-----------------------------------------------------------------------------
(* AuditLog::record. *)

(* The guard of last_hash can be had. *)
NoMutex  == TRUE                                         \* mutant of LockFree
LockFree == hash_lock = Free

(* The entry, bound to the one before it and hashed. *)
UnchainedEntry == [hash |-> issued + 1, prev |-> None]   \* mutant of ChainedEntry
ChainedEntry   == [hash |-> issued + 1, prev |-> last_hash]

(* Take the guard of last_hash, chain and hash the entry. *)
Chain(c) ==
    /\ pc[c] = "record"
    /\ LockFree
    /\ hash_lock' = c
    /\ issued' = issued + 1
    /\ last_hash' = ChainedEntry.hash
    /\ entry' = [entry EXCEPT ![c] = ChainedEntry]
    /\ Goto(c, IF HasLog THEN "check" ELSE "push")
    /\ UNCHANGED <<entries, booted, disk, slot, read_hash, lines, fd, restarts>>

(* rotate_if_needed: is the live file full?  Reading its size may fail. *)
RotationDue ==
    /\ MaxBytes > 0 /\ MaxFiles > 0
    /\ Exists(0) /\ Len(files[0]) >= MaxBytes

(* The first idx of the loop. *)
FirstSlotMissed == MaxFiles - 1                          \* mutant of FirstSlot
FirstSlot       == MaxFiles

CheckSize(c) ==
    /\ pc[c] = "check"
    /\ \/ /\ RotationDue
          /\ Goto(c, "rotate")
          /\ slot' = [slot EXCEPT ![c] = FirstSlot]
       \/ /\ ~RotationDue \/ Faults
          /\ Goto(c, "append")
          /\ UNCHANGED slot
    /\ UNCHANGED <<memory, disk, entry, read_hash, lines, fd, restarts>>

(* One turn of rotate_if_needed's loop, idx counting down from max_files.  *)
(* Errors of remove_file and rename are dropped.                           *)
RotateSlot(c) ==
    LET idx == slot[c] IN
    /\ pc[c] = "rotate"
    /\ \/ /\ Exists(idx - 1)
          /\ files' = Renamed(idx - 1)
          /\ fd' = FollowRename(idx - 1)
       \/ /\ ~Exists(idx - 1) \/ Faults
          /\ idx = MaxFiles
          /\ files' = Removed(idx)
          /\ fd' = Unlink(idx)
       \/ /\ ~Exists(idx - 1) \/ Faults
          /\ idx < MaxFiles \/ Faults
          /\ UNCHANGED <<files, fd>>
    /\ slot' = [slot EXCEPT ![c] = idx - 1]
    /\ Goto(c, IF idx = 1 THEN "append" ELSE "rotate")
    /\ UNCHANGED <<memory, checkpointed, entry, read_hash, lines, restarts>>

(* append_line: open in append mode, creating the file, and write the line. *)
AppendEntry(c) ==
    /\ pc[c] = "append"
    /\ \/ /\ files' = Store(0, Append(Text(0), entry[c]))
          /\ Goto(c, "newline")
       \/ /\ Faults
          /\ files' \in {files, Store(0, Text(0)),
                         Store(0, Append(Text(0), Fragment))}
          /\ Goto(c, "push")
    /\ UNCHANGED <<memory, checkpointed, locals, restarts>>

(* append_line's second write. *)
LineUnended(c) ==                                        \* mutant of AppendNewline
    /\ pc[c] = "newline"
    /\ Goto(c, "push")
    /\ UNCHANGED <<memory, disk, locals, restarts>>

AppendNewline(c) ==
    /\ pc[c] = "newline"
    /\ \/ files' = Store(0, Append(Text(0), Newline))
       \/ Faults /\ UNCHANGED files
    /\ Goto(c, "push")
    /\ UNCHANGED <<memory, checkpointed, locals, restarts>>

(* The ring with e at its end and what is over max_entries popped. *)
PushedUnpopped(e) == Append(entries, e)                  \* mutant of PushedBack
PushedOverNewest(e) ==                                   \* mutant of PushedBack
    IF Len(entries) < MaxEntries THEN Append(entries, e)
    ELSE [entries EXCEPT ![MaxEntries] = e]
PushedBack(e) ==
    IF Len(entries) < MaxEntries THEN Append(entries, e)
    ELSE Append(Tail(entries), e)

(* Push the entry; the guard of last_hash is dropped. *)
Push(c) ==
    /\ pc[c] = "push"
    /\ entries' = PushedBack(entry[c])
    /\ hash_lock' = Free
    /\ entry' = [entry EXCEPT ![c] = NoEntry]
    /\ Goto(c, "idle")
    /\ UNCHANGED <<last_hash, issued, booted, disk, slot, read_hash, lines, fd,
                   restarts>>

-----------------------------------------------------------------------------
(* AuditLog::checkpoint: nothing is held from one step to the next. *)

(* The guard of last_hash is a temporary: dropped once the hash is cloned. *)
ReadHashKeepingGuard(c) ==                               \* mutant of ReadHash
    /\ pc[c] = "hash"
    /\ LockFree
    /\ hash_lock' = c
    /\ read_hash' = [read_hash EXCEPT ![c] = last_hash]
    /\ Goto(c, IF HasLog THEN "snapshot" ELSE "commit")
    /\ UNCHANGED <<entries, last_hash, issued, booted, disk, entry, slot, lines,
                   fd, restarts>>

ReadHash(c) ==
    /\ pc[c] = "hash"
    /\ LockFree
    /\ read_hash' = [read_hash EXCEPT ![c] = last_hash]
    /\ Goto(c, IF HasLog THEN "snapshot" ELSE "commit")
    /\ UNCHANGED <<memory, disk, entry, slot, lines, fd, restarts>>

TakeSnapshot(c) ==
    /\ pc[c] = "snapshot"
    /\ lines' = [lines EXCEPT ![c] = Snapshot(MaxEntries)]
    /\ Goto(c, "truncate")
    /\ UNCHANGED <<memory, disk, entry, slot, read_hash, fd, restarts>>

(* The call is over, well or with `?`: what it held is dropped. *)
Finish(c) ==
    /\ Goto(c, "record")
    /\ read_hash' = [read_hash EXCEPT ![c] = None]
    /\ lines' = [lines EXCEPT ![c] = <<>>]
    /\ fd' = [fd EXCEPT ![c] = Unlinked]

(* fs::write(path, contents), first half: open and truncate. *)
TruncateLog(c) ==
    /\ pc[c] = "truncate"
    /\ \/ /\ files' = Store(0, <<>>)
          /\ fd' = [fd EXCEPT ![c] = 0]
          /\ Goto(c, "write")
          /\ UNCHANGED <<read_hash, lines>>
       \/ /\ Faults
          /\ Finish(c)
          /\ UNCHANGED files
    /\ UNCHANGED <<memory, checkpointed, entry, slot, restarts>>

(* Its second half: write at offset 0 of the file opened, wherever a       *)
(* rotation has moved it since.  A write that fails leaves a prefix.       *)
WriteTo(s, text) ==
    files' = IF s = Unlinked THEN files ELSE Store(s, Overwrite(Text(s), text))

WriteLog(c) ==
    LET text == Encoded(lines[c]) IN
    /\ pc[c] = "write"
    /\ \/ /\ WriteTo(fd[c], text)
          /\ fd' = [fd EXCEPT ![c] = Unlinked]
          /\ Goto(c, "commit")
          /\ UNCHANGED <<read_hash, lines>>
       \/ /\ Faults
          /\ \E k \in 0 .. Len(text) - 1 : WriteTo(fd[c], SubSeq(text, 1, k))
          /\ Finish(c)
    /\ UNCHANGED <<memory, checkpointed, entry, slot, restarts>>

(* Write the checkpoint file, when one is configured; a write that fails   *)
(* leaves the old file, or none that can be read.                          *)
CommitCheckpoint(c) ==
    /\ pc[c] = "commit"
    /\ \/ HasCheckpoint /\ checkpointed' = read_hash[c]
       \/ HasCheckpoint /\ Faults /\ checkpointed' \in {checkpointed, None}
       \/ ~HasCheckpoint /\ UNCHANGED checkpointed
    /\ Finish(c)
    /\ UNCHANGED <<memory, files, entry, slot, restarts>>

-----------------------------------------------------------------------------
(* The process ends, after the calls in flight or (Faults) in their midst, *)
(* and AuditLog::new starts again from nothing: the files stay.            *)
Restart ==
    /\ restarts < MaxRestarts
    /\ Faults \/ Active = {}
    /\ restarts' = restarts + 1
    /\ entries' = <<>> /\ last_hash' = None /\ hash_lock' = Free
    /\ booted' = issued
    /\ pc' = [c \in Calls |-> "idle"]
    /\ entry' = [c \in Calls |-> NoEntry]
    /\ slot' = [c \in Calls |-> 0]
    /\ read_hash' = [c \in Calls |-> None]
    /\ lines' = [c \in Calls |-> <<>>]
    /\ fd' = [c \in Calls |-> Unlinked]
    /\ UNCHANGED <<issued, disk>>

Record(c) ==
    Chain(c) \/ CheckSize(c) \/ RotateSlot(c) \/ AppendEntry(c)
    \/ AppendNewline(c) \/ Push(c)

Checkpoint(c) ==
    ReadHash(c) \/ TakeSnapshot(c) \/ TruncateLog(c) \/ WriteLog(c)
    \/ CommitCheckpoint(c)

Next ==
    \/ \E c \in Calls : Begin(c) \/ Record(c) \/ Checkpoint(c)
    \/ Restart

(* Once begun, a call is run to its end by the thread that polls it. *)
Fairness == \A c \in Calls : WF_vars(Record(c) \/ Checkpoint(c))

Spec     == Init /\ [][Next]_vars
LiveSpec == Spec /\ Fairness

-----------------------------------------------------------------------------
(* Properties *)

(* Type correctness. *)
IsDirectory(f) == DOMAIN f \subseteq Slots /\ f \in [DOMAIN f -> Seq(Token)]

MemoryType ==
    /\ entries \in Seq(Entry) /\ Len(entries) <= MaxEntries
    /\ last_hash \in Hashes /\ issued \in Hashes /\ booted \in Hashes
    /\ hash_lock \in Calls \cup {Free}
    /\ restarts \in Nat

DiskType == IsDirectory(files) /\ checkpointed \in Hashes

LocalsType ==
    /\ pc \in [Calls -> Steps]
    /\ entry \in [Calls -> Entry]
    /\ slot \in [Calls -> Slots]
    /\ \A c \in Calls : pc[c] = "rotate" => slot[c] > 0
    /\ read_hash \in [Calls -> Hashes]
    /\ lines \in [Calls -> Seq(Entry)]
    /\ fd \in [Calls -> Slots \cup {Unlinked}]

TypeOK == MemoryType /\ DiskType /\ LocalsType

(* The prev_hash of entry h of this process: the first entry has none. *)
Previous(h) == IF h = booted + 1 THEN None ELSE h - 1

(* The entries pushed onto the ring so far: the holder of the guard has    *)
(* hashed one that is not there yet.                                       *)
Pushed == IF hash_lock = Free THEN issued ELSE issued - 1

(* The ring is the unbroken, hash-chained tail of what this process        *)
(* recorded: as many of the newest entries as fit, none missing, none      *)
(* twice, each bound to the one before it (audit.rs:11), whatever calls    *)
(* interleave and whichever file operation fails.                          *)
RingIsChainTail ==
    LET n == Len(entries) IN
    /\ n = IF Pushed - booted < MaxEntries THEN Pushed - booted ELSE MaxEntries
    /\ \A i \in 1 .. n :
          /\ entries[i].hash = Pushed - n + i
          /\ entries[i].prev = Previous(entries[i].hash)

(* A checkpoint never claims a hash newer than the lines it writes to the  *)
(* log beside it: an entry whose hash it has read is in the ring, or has   *)
(* been overtaken there, when it takes its snapshot (audit.rs:256-264).    *)
CheckpointWithinLines ==
    \A c \in Calls :
        pc[c] \in {"truncate", "write"} /\ read_hash[c] # None
            => /\ lines[c] # <<>>
               /\ read_hash[c] <= Last(lines[c]).hash

(* The lines of a text that parse: one entry alone on its line. *)
Parses(text, i) ==
    /\ text[i] \notin {Newline, Fragment}
    /\ i > 1 => text[i - 1] = Newline
    /\ i < Len(text) => text[i + 1] = Newline

(* The log on disk: the slot and position of each line, a higher slot      *)
(* being the older; the entry of a line, and the line next to a line.      *)
DiskLog    == UNION {{s} \X {i \in 1 .. Len(Text(s)) : Parses(Text(s), i)} :
                        s \in Slots}
Older(l, m) == l[1] > m[1] \/ (l[1] = m[1] /\ l[2] < m[2])
Adjacent(l, m) == Older(l, m) /\ ~ \E k \in DiskLog : Older(l, k) /\ Older(k, m)
Line(l)    == Text(l[1])[l[2]]
OnDisk     == {Line(l).hash : l \in DiskLog}

(* Each line binds to the line before it, except where a process began. *)
Verifies ==
    \A l, m \in DiskLog : Adjacent(l, m) => Line(m).prev \in {Line(l).hash, None}

(* As long as no file operation fails, no call is cut off by the end of    *)
(* the process and no checkpoint rewrites the log, the rotated files and   *)
(* the live one are one verifiable chain without a hole that ends with the *)
(* newest entry, across restarts between calls and in the middle of a      *)
(* rotation (audit.rs 186-213, 311-357).                                   *)
DiskChainVerifies ==
    /\ Verifies
    /\ \A l, m \in DiskLog : Adjacent(l, m) => Line(m).hash = Line(l).hash + 1
    /\ Active = {} /\ issued > 0 /\ HasLog => issued \in OnDisk

(* A rotation drops the oldest entries only, and only when max_files       *)
(* rotated files are there already (audit.rs:341-354).                     *)
RotationDropsOldest ==
    [][\A h \in OnDisk \ OnDisk' :
          /\ \A k \in OnDisk' : h < k
          /\ \A s \in Slots : Exists(s)]_vars

(* No entry is on disk twice, nor an older one after a newer, whatever     *)
(* fails and whenever the process is killed, while no checkpoint runs.     *)
DiskInOrder ==
    \A l, m \in DiskLog : Older(l, m) => Line(l).hash < Line(m).hash

(* audit.rs:11, "Each entry binds to the hash of the previous entry,       *)
(* preventing silent deletions": between calls, a log on disk that starts  *)
(* a chain and verifies to its end lacks none of the entries appended to   *)
(* it (without rotation and with no failing write).                        *)
NoSilentDeletion ==
    \A first \in DiskLog :
        /\ Active = {} /\ Verifies
        /\ Line(first).prev = None /\ ~ \E l \in DiskLog : Older(l, first)
        => OnDisk = 1 .. issued

(* Every call that begins is recorded or ends with the process: no lock is *)
(* left held and no two calls wait on each other.                          *)
EveryCallEnds == \A c \in Calls : pc[c] # "idle" ~> pc[c] = "idle"

(* audit.list and the ring implement the window its reader is promised:    *)
(* the entry appears when Push puts it there.                              *)
Window == INSTANCE AuditWindow WITH
              total  <- Pushed,
              window <- [i \in 1 .. Len(entries) |-> entries[i].hash]
WindowSpec == Window!Spec
=============================================================================
