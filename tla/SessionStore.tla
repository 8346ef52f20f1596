---------------------------- MODULE SessionStore ----------------------------
(***************************************************************************)
(* The files of one session and the processes that use them, step by step: *)
(* src/commands/cc/store.rs.                                               *)
(*                                                                         *)
(* A session is a document <id>.json, replaced by renaming <id>.json.tmp   *)
(* over it. Writers hold an exclusive flock on <id>.json.lock, readers a   *)
(* shared one. A flock belongs to the inode that was opened, not to the    *)
(* path, so paths and inodes are kept apart: `lock_path`, `json_path` and  *)
(* `tmp_path` say which inode (if any) a name leads to, and an inode stays *)
(* alive while a process has it open, whatever became of its name.         *)
(*                                                                         *)
(* The document is the set of the updates it contains (each process marks  *)
(* it with its own name). A document that was truncated and not yet        *)
(* rewritten is Torn: it does not parse.                                   *)
(***************************************************************************)
EXTENDS Naturals, FiniteSets

CONSTANTS Proc,              \* processes of `a` (hooks, sweep, the TUI, ...)
          LockInode,         \* inodes that can back <id>.json.lock
          DataInode,         \* inodes that can back <id>.json and its .tmp
          Ops,               \* which operations each process performs
          LOCK_RETRY_COUNT,  \* attempts before LockTimeout
          Nil, Torn

AllOps == {"update", "field", "load", "save", "delete", "cleanup"}

ASSUME RetryAssumption == LOCK_RETRY_COUNT \in Nat \ {0}
ASSUME OpsAssumption   == Ops \in [Proc -> SUBSET AllOps]
ASSUME NilAssumption == /\ Nil \notin Proc \cup LockInode \cup DataInode \cup AllOps
                        /\ \A d \in SUBSET Proc : d \notin {Nil, Torn}
                        /\ Nil # Torn

VARIABLES
  lock_path,  \* inode of <id>.json.lock, or Nil
  excl,       \* holder of the exclusive flock of each lock inode, or Nil
  shared,     \* holders of the shared flock of each lock inode
  json_path,  \* inode of <id>.json, or Nil
  tmp_path,   \* inode of <id>.json.tmp, or Nil
  data,       \* contents of each data inode
  pc, op,     \* what each process is doing
  lockfd,     \* the lock inode each process has open, or Nil
  tmpfd,      \* the temporary file each process has open, or Nil
  tries,      \* failed attempts at the flock
  buf,        \* the document each process holds in memory, or Nil
  renamed     \* whether the current call has replaced the document

files == <<json_path, tmp_path, data>>
locks == <<lock_path, excl, shared>>
local == <<op, lockfd, tmpfd, tries, buf, renamed>>
storeVars  == <<files, locks, pc, local>>

Document == SUBSET Proc
PCs == {"idle", "open", "lock", "read", "create", "write", "rename", "drop",
        "unlink_json", "unlink_lock"}

\* What a reader of the path finds, with or without the lock.
Visible == IF json_path = Nil THEN Nil ELSE data[json_path]

\* load: a missing and an unparsable document are both reported as Nil.
Parsed(d) == IF d = Torn THEN Nil ELSE d
Updates(d) == IF d = Nil THEN {} ELSE d

TypeOK ==
  /\ lock_path \in LockInode \cup {Nil}
  /\ excl \in [LockInode -> Proc \cup {Nil}]
  /\ shared \in [LockInode -> SUBSET Proc]
  /\ json_path \in DataInode \cup {Nil}
  /\ tmp_path \in DataInode \cup {Nil}
  /\ data \in [DataInode -> Document \cup {Torn}]
  /\ pc \in [Proc -> PCs]
  /\ op \in [Proc -> AllOps \cup {Nil}]
  /\ lockfd \in [Proc -> LockInode \cup {Nil}]
  /\ tmpfd \in [Proc -> DataInode \cup {Nil}]
  /\ tries \in [Proc -> 0 .. LOCK_RETRY_COUNT]
  /\ buf \in [Proc -> Document \cup {Nil}]
  /\ renamed \in [Proc -> BOOLEAN]

StoreInit ==
  /\ lock_path = Nil
  /\ excl = [i \in LockInode |-> Nil]
  /\ shared = [i \in LockInode |-> {}]
  /\ json_path = Nil
  /\ tmp_path = Nil
  /\ data = [i \in DataInode |-> Torn]
  /\ pc = [p \in Proc |-> "idle"]
  /\ op = [p \in Proc |-> Nil]
  /\ lockfd = [p \in Proc |-> Nil]
  /\ tmpfd = [p \in Proc |-> Nil]
  /\ tries = [p \in Proc |-> 0]
  /\ buf = [p \in Proc |-> Nil]
  /\ renamed = [p \in Proc |-> FALSE]

Goto(p, label) == pc' = [pc EXCEPT ![p] = label]

-----------------------------------------------------------------------------
(* Calls *)

\* lock_session_for_update ... SessionLock::save, called by the hook handler.
BeginUpdate(p) ==
  /\ "update" \in Ops[p] /\ pc[p] = "idle"
  /\ Goto(p, "open")
  /\ op' = [op EXCEPT ![p] = "update"]
  /\ UNCHANGED <<files, locks, lockfd, tmpfd, tries, buf, renamed>>

\* save_session_to of a document the process loaded before.
BeginSave(p) ==
  /\ "save" \in Ops[p] /\ pc[p] = "idle"
  /\ buf[p] # Nil
  /\ Goto(p, "open")
  /\ op' = [op EXCEPT ![p] = "save"]
  /\ UNCHANGED <<files, locks, lockfd, tmpfd, tries, buf, renamed>>

\* update_session_field_in and load_session_from return at once when the
\* document does not exist.
BeginIfExists(p, o) ==
  /\ o \in {"field", "load"} \cap Ops[p] /\ pc[p] = "idle"
  /\ json_path # Nil
  /\ Goto(p, "open")
  /\ op' = [op EXCEPT ![p] = o]
  /\ UNCHANGED <<files, locks, lockfd, tmpfd, tries, buf, renamed>>

-----------------------------------------------------------------------------
(* The lock *)

\* Inodes nobody can reach any more are free for a new file.
FreeLockInode(i) == i # lock_path /\ \A q \in Proc : lockfd[q] # i
FreeDataInode(i) == i \notin {json_path, tmp_path} /\ \A q \in Proc : tmpfd[q] # i

\* OpenOptions::create(true): opens the lock file, creating it if need be.
OpenLock(p) ==
  /\ pc[p] = "open"
  /\ \E i \in LockInode :
       /\ IF lock_path = Nil THEN FreeLockInode(i) ELSE i = lock_path
       /\ lock_path' = i
       /\ lockfd' = [lockfd EXCEPT ![p] = i]
  /\ tries' = [tries EXCEPT ![p] = 0]
  /\ Goto(p, "lock")
  /\ UNCHANGED <<files, excl, shared, op, tmpfd, buf, renamed>>

\* Dropping the File releases whatever lock it carried.
ReleaseOf(p) ==
  /\ excl' = [i \in LockInode |-> IF excl[i] = p THEN Nil ELSE excl[i]]
  /\ shared' = [i \in LockInode |-> shared[i] \ {p}]
  /\ lockfd' = [lockfd EXCEPT ![p] = Nil]

MayLock_IgnoresReaders(p) == excl[lockfd[p]] = Nil

MayLock(p) == LET i == lockfd[p] IN
  excl[i] = Nil /\ (op[p] = "load" \/ shared[i] = {})

TryLockOk(p) ==
  /\ pc[p] = "lock" /\ MayLock(p)
  /\ LET i == lockfd[p] IN
       IF op[p] = "load"
         THEN shared' = [shared EXCEPT ![i] = @ \cup {p}] /\ UNCHANGED excl
         ELSE excl' = [excl EXCEPT ![i] = p] /\ UNCHANGED shared
  /\ Goto(p, IF op[p] = "save" THEN "create" ELSE "read")
  /\ UNCHANGED <<files, lock_path, local>>

\* WouldBlock: sleep and try again, ...
TryLockRetry(p) ==
  /\ pc[p] = "lock" /\ ~MayLock(p)
  /\ tries[p] + 1 < LOCK_RETRY_COUNT
  /\ tries' = [tries EXCEPT ![p] = @ + 1]
  /\ UNCHANGED <<files, locks, pc, op, lockfd, tmpfd, buf, renamed>>

LockTimeout_Proceeds(p) ==
  /\ pc[p] = "lock" /\ ~MayLock(p)
  /\ tries[p] + 1 = LOCK_RETRY_COUNT
  /\ Goto(p, IF op[p] = "save" THEN "create" ELSE "read")
  /\ UNCHANGED <<files, locks, local>>

LockTimeout_TriesForever(p) ==
  /\ pc[p] = "lock" /\ ~MayLock(p)
  /\ UNCHANGED storeVars

\* ... at most LOCK_RETRY_COUNT times; then the call fails with LockTimeout
\* and whatever the caller wanted to record is dropped.
LockTimeout(p) ==
  /\ pc[p] = "lock" /\ ~MayLock(p)
  /\ tries[p] + 1 = LOCK_RETRY_COUNT
  /\ ReleaseOf(p)
  /\ Goto(p, "idle")
  /\ op' = [op EXCEPT ![p] = Nil]
  /\ tries' = [tries EXCEPT ![p] = 0]
  /\ buf' = [buf EXCEPT ![p] = Nil]
  /\ UNCHANGED <<files, lock_path, tmpfd, renamed>>

-----------------------------------------------------------------------------
(* The body of a call, under the lock *)

ReadForUpdate_ReusesCopy(p) ==
  /\ pc[p] = "read" /\ op[p] = "update"
  /\ buf' = [buf EXCEPT ![p] = Updates(buf[p]) \cup {p}]
  /\ Goto(p, "create")
  /\ UNCHANGED <<files, locks, op, lockfd, tmpfd, tries, renamed>>

ReadForUpdate(p) ==
  /\ pc[p] = "read" /\ op[p] = "update"
  /\ buf' = [buf EXCEPT ![p] = Updates(Parsed(Visible)) \cup {p}]
  /\ Goto(p, "create")
  /\ UNCHANGED <<files, locks, op, lockfd, tmpfd, tries, renamed>>

\* `mutate` declines when the field already has the value it would set.
MutateDeclines(p, d) == p \in d

ReadForField(p) ==
  /\ pc[p] = "read" /\ op[p] = "field"
  /\ LET d == Parsed(Visible) IN
       IF d = Nil \/ MutateDeclines(p, Updates(d))
         THEN Goto(p, "drop") /\ UNCHANGED buf
         ELSE /\ buf' = [buf EXCEPT ![p] = Updates(d) \cup {p}]
              /\ Goto(p, "create")
  /\ UNCHANGED <<files, locks, op, lockfd, tmpfd, tries, renamed>>

ReadForLoad(p) ==
  /\ pc[p] = "read" /\ op[p] = "load"
  /\ buf' = [buf EXCEPT ![p] = Parsed(Visible)]
  /\ Goto(p, "drop")
  /\ UNCHANGED <<files, locks, op, lockfd, tmpfd, tries, renamed>>

\* File::create truncates the temporary file if it is there, whoever left it.
CreateTmp(p) ==
  /\ pc[p] = "create"
  /\ \E i \in DataInode :
       /\ IF tmp_path = Nil THEN FreeDataInode(i) ELSE i = tmp_path
       /\ tmp_path' = i
       /\ tmpfd' = [tmpfd EXCEPT ![p] = i]
       /\ data' = [data EXCEPT ![i] = Torn]
  /\ Goto(p, "write")
  /\ UNCHANGED <<json_path, locks, op, lockfd, tries, buf, renamed>>

\* write_all through the descriptor, and sync_all. A `save` writes what the
\* process loaded earlier, with its own change.
WriteTmp(p) ==
  /\ pc[p] = "write"
  /\ data' = [data EXCEPT ![tmpfd[p]] = Updates(buf[p]) \cup {p}]
  /\ Goto(p, "rename")
  /\ UNCHANGED <<json_path, tmp_path, locks, local>>

\* rename works on the path: it moves whatever file has that name now.
RenameTmp(p) ==
  /\ pc[p] = "rename"
  /\ IF tmp_path = Nil
       THEN UNCHANGED <<json_path, tmp_path, renamed>>
       ELSE /\ json_path' = tmp_path
            /\ tmp_path' = Nil
            /\ renamed' = [renamed EXCEPT ![p] = TRUE]
  /\ Goto(p, "drop")
  /\ UNCHANGED <<data, locks, op, lockfd, tmpfd, tries, buf>>

\* The guard goes out of scope and the call returns. Only `load` leaves the
\* caller with the document.
Drop(p) ==
  /\ pc[p] = "drop"
  /\ ReleaseOf(p)
  /\ Goto(p, "idle")
  /\ op' = [op EXCEPT ![p] = Nil]
  /\ tmpfd' = [tmpfd EXCEPT ![p] = Nil]
  /\ tries' = [tries EXCEPT ![p] = 0]
  /\ buf' = [buf EXCEPT ![p] = IF op[p] = "load" THEN @ ELSE Nil]
  /\ renamed' = [renamed EXCEPT ![p] = FALSE]
  /\ UNCHANGED <<files, lock_path>>

-----------------------------------------------------------------------------
(* Removal, without the lock *)

\* delete_session_from removes the document and nothing else.
DeleteSession(p) ==
  /\ "delete" \in Ops[p] /\ pc[p] = "idle"
  /\ json_path # Nil
  /\ json_path' = Nil
  /\ UNCHANGED <<tmp_path, data, locks, pc, local>>

\* cleanup_stale_sessions: reads the document, finds it stale (its pane is
\* gone, its worktree is gone, or its retention has run out: here, the
\* environment decides), ...
CleanupRead(p) ==
  /\ "cleanup" \in Ops[p] /\ pc[p] = "idle"
  /\ Parsed(Visible) # Nil
  /\ op' = [op EXCEPT ![p] = "cleanup"]
  /\ Goto(p, "unlink_json")
  /\ UNCHANGED <<files, locks, lockfd, tmpfd, tries, buf, renamed>>

\* ... removes the document ...
CleanupUnlinkJson(p) ==
  /\ pc[p] = "unlink_json"
  /\ json_path' = Nil
  /\ Goto(p, "unlink_lock")
  /\ UNCHANGED <<tmp_path, data, locks, local>>

\* ... and the lock file, whoever holds a lock on it.
CleanupUnlinkLock(p) ==
  /\ pc[p] = "unlink_lock"
  /\ lock_path' = Nil
  /\ op' = [op EXCEPT ![p] = Nil]
  /\ Goto(p, "idle")
  /\ UNCHANGED <<files, excl, shared, lockfd, tmpfd, tries, buf, renamed>>

\* The process dies: the kernel closes its files and drops its locks, what
\* it had written stays.
Dies(p) ==
  /\ pc[p] # "idle"
  /\ ReleaseOf(p)
  /\ Goto(p, "idle")
  /\ op' = [op EXCEPT ![p] = Nil]
  /\ tmpfd' = [tmpfd EXCEPT ![p] = Nil]
  /\ tries' = [tries EXCEPT ![p] = 0]
  /\ buf' = [buf EXCEPT ![p] = Nil]
  /\ renamed' = [renamed EXCEPT ![p] = FALSE]
  /\ UNCHANGED <<files, lock_path>>

-----------------------------------------------------------------------------
Call(p) == \/ BeginUpdate(p) \/ BeginSave(p)
           \/ \E o \in {"field", "load"} : BeginIfExists(p, o)
           \/ DeleteSession(p) \/ CleanupRead(p)

\* One step of a call in progress.
Step(p) == \/ OpenLock(p) \/ TryLockOk(p) \/ TryLockRetry(p) \/ LockTimeout(p)
           \/ ReadForUpdate(p) \/ ReadForField(p) \/ ReadForLoad(p)
           \/ CreateTmp(p) \/ WriteTmp(p) \/ RenameTmp(p) \/ Drop(p)
           \/ CleanupUnlinkJson(p) \/ CleanupUnlinkLock(p)

StoreNext == \E p \in Proc : Call(p) \/ Step(p) \/ Dies(p)

StoreSpec == StoreInit /\ [][StoreNext]_storeVars

\* A process that is inside a call keeps running.
StoreFairness == \A p \in Proc : WF_storeVars(Step(p))

-----------------------------------------------------------------------------
(* Properties *)

\* A process between acquiring the exclusive lock and dropping it.
Writing(p) == /\ pc[p] \in {"read", "create", "write", "rename", "drop"}
              /\ op[p] \in {"update", "field", "save"}
Reading(p) == pc[p] \in {"read", "drop"} /\ op[p] = "load"

\* SessionLock (store.rs:245): no two processes are inside a load-mutate-save
\* round trip of one session at a time, and no reader sees one half done.
WritersExclude == \A p, q \in Proc : p # q /\ Writing(p) => ~Writing(q)
ReadersExclude == \A p, q \in Proc : p # q /\ Writing(p) => ~Reading(q)
MutualExclusion == WritersExclude /\ ReadersExclude

\* "Writes the session atomically": at no moment, not even after a crash,
\* can an unlocked reader (list_sessions) find a document that does not parse.
NoTornSession == Visible # Torn

\* Two concurrent updates both survive: an update that is in the document
\* stays in it as long as nobody deletes the session.
NoLostUpdate ==
  [][Visible # Nil => Visible' # Nil /\ Visible \subseteq Visible']_storeVars

\* A call that gave up on the lock, failed or was killed before its rename
\* changed nothing, and each call changes the document at most once.
phase == [p \in Proc |-> IF pc[p] = "idle" \/ op[p] \notin {"update", "field"}
                           THEN "idle"
                           ELSE IF renamed[p] THEN "applied" ELSE "called"]
Atomic == INSTANCE AtomicStore WITH session <- Visible, phase <- phase, None <- Nil
ImplementsAtomicStore == Atomic!Spec

\* No lock is held forever and no call waits forever: each one returns.
CallsReturn == \A p \in Proc : pc[p] # "idle" ~> pc[p] = "idle"
=============================================================================
