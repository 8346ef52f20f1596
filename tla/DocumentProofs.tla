--------------------------- MODULE DocumentProofs ---------------------------
(***************************************************************************)
(* Theorems about the document of a session: the files it is kept in       *)
(* (SessionStore), and what those save in it who pause an idle claude, the *)
(* sweep (Sweep) and the workers of auto-compact (AutoCompact).            *)
(***************************************************************************)
EXTENDS SessionStore, Sweep, AutoCompact, ClaudePaneProofs

(***************************************************************************)
(* The store, for any number of processes, inodes and lock attempts,       *)
(* provided cleanup_stale_sessions never unlinks the lock file under them. *)
(***************************************************************************)

(***************************************************************************)
(* The lock: as long as the name <id>.json.lock keeps leading to one       *)
(* inode, every process that has the lock file open has that inode open,   *)
(* and the flocks on it say who is inside.                                 *)
(***************************************************************************)
HasLockOpen(p) == pc[p] \in {"lock", "read", "create", "write", "rename", "drop"}

OneLockFile == \A p \in Proc : lockfd[p] # Nil => lockfd[p] = lock_path

PcMatchesOp == \A p \in Proc :
  /\ pc[p] \notin {"unlink_json", "unlink_lock"}
  /\ HasLockOpen(p) => lockfd[p] # Nil
  /\ pc[p] # "idle" => op[p] \in {"update", "field", "load", "save"}
  /\ pc[p] \in {"create", "write", "rename"} => op[p] # "load"

FlocksHeld == \A p \in Proc :
  /\ Writing(p) => excl[lockfd[p]] = p
  /\ Reading(p) => p \in shared[lockfd[p]]

FlockModes == \A i \in LockInode : excl[i] # Nil => shared[i] = {}

LockInv == TypeOK /\ OneLockFile /\ PcMatchesOp /\ FlocksHeld /\ FlockModes

(***************************************************************************)
(* The files: the document is complete and is not the temporary file; the  *)
(* temporary file belongs to the writer that is filling it.                *)
(***************************************************************************)
FilesInv ==
  /\ Visible # Torn
  /\ json_path # Nil => json_path # tmp_path
  /\ \A p \in Proc :
       /\ pc[p] \in {"write", "rename"} => tmpfd[p] = tmp_path /\ tmp_path # Nil
       /\ pc[p] = "rename" => data[tmp_path] # Torn

StoreInv == LockInv /\ FilesInv

(***************************************************************************)
(* The contents, when nobody deletes the session or saves an old copy: a   *)
(* writer holds the current document and its own update, nothing else.     *)
(***************************************************************************)
Cooperating == \A p \in Proc : Ops[p] \subseteq {"update", "field", "load"}
NoCleanup   == \A p \in Proc : "cleanup" \notin Ops[p]

ContentsInv == \A p \in Proc :
  /\ op[p] # "save"
  /\ pc[p] \in {"create", "write"} => buf[p] = Updates(Visible) \cup {p}
  /\ pc[p] = "rename" => data[tmp_path] = Updates(Visible) \cup {p}
  /\ renamed[p] => pc[p] = "drop"

UpdateInv == StoreInv /\ ContentsInv

-----------------------------------------------------------------------------
\* What acquire_lock and acquire_shared_lock establish about the flocks keeps
\* the writers and readers of store.rs apart.
LEMMA ExclusionFromLock == ASSUME LockInv PROVE MutualExclusion
  <1> SUFFICES ASSUME NEW p \in Proc, NEW q \in Proc, p # q, Writing(p)
               PROVE ~Writing(q) /\ ~Reading(q)
    BY DEF MutualExclusion, WritersExclude, ReadersExclude
  <1> USE DEF LockInv
  <1>1. lockfd[p] = lock_path /\ lock_path \in LockInode /\ excl[lock_path] = p
    BY NilAssumption
    DEF OneLockFile, PcMatchesOp, FlocksHeld, HasLockOpen, Writing, TypeOK
  <1>2. ASSUME Writing(q) PROVE FALSE
    <2>1. lockfd[q] = lock_path /\ excl[lockfd[q]] = q
      BY <1>2, NilAssumption
      DEF OneLockFile, PcMatchesOp, FlocksHeld, HasLockOpen, Writing, TypeOK
    <2>2. QED BY <1>1, <2>1
  <1>3. ASSUME Reading(q) PROVE FALSE
    <2>1. lockfd[q] = lock_path /\ q \in shared[lockfd[q]]
      BY <1>3, NilAssumption
      DEF OneLockFile, PcMatchesOp, FlocksHeld, HasLockOpen, Reading, TypeOK
    <2>2. shared[lock_path] = {}
      BY <1>1, NilAssumption DEF FlockModes, TypeOK
    <2>3. QED BY <2>1, <2>2
  <1>4. QED BY <1>2, <1>3

\* Before any process of `a` runs, nobody has the lock file open, there is no
\* document and no temporary file, and nobody holds a copy.
LEMMA InitUpdateInv == StoreInit => LockInv /\ FilesInv /\ ContentsInv
  <1>1. StoreInit => LockInv
    BY NilAssumption, RetryAssumption
    DEF StoreInit, LockInv, TypeOK, PCs, Document, AllOps, OneLockFile, PcMatchesOp,
        HasLockOpen, FlocksHeld, FlockModes, Writing, Reading
  <1>2. StoreInit => FilesInv
    BY NilAssumption DEF StoreInit, FilesInv, Visible
  <1>3. StoreInit => ContentsInv
    BY NilAssumption DEF StoreInit, ContentsInv, Document, AllOps
  <1> QED BY <1>1, <1>2, <1>3

\* No step of store.rs leaves the types, whatever operations are performed.
LEMMA TypePreserved == TypeOK /\ [StoreNext]_storeVars => TypeOK'
  <1> SUFFICES ASSUME TypeOK, [StoreNext]_storeVars PROVE TypeOK'
    OBVIOUS
  <1> USE NilAssumption, RetryAssumption, OpsAssumption DEF TypeOK, Goto, files, locks, local,
          PCs, Document, AllOps
  <1>1. CASE UNCHANGED storeVars BY <1>1 DEF storeVars
  <1>2. ASSUME NEW p \in Proc, Call(p) PROVE TypeOK'
    BY <1>2 DEF Call, BeginUpdate, BeginSave, BeginIfExists, DeleteSession, CleanupRead
  <1>3. ASSUME NEW p \in Proc, Step(p) PROVE TypeOK'
    <2>1. CASE OpenLock(p) BY <2>1 DEF OpenLock
    <2>2. CASE TryLockOk(p)
      <3>1. excl' \in [LockInode -> Proc \cup {Nil}] BY <2>2 DEF TryLockOk
      <3>2. shared' \in [LockInode -> SUBSET Proc] BY <2>2 DEF TryLockOk
      <3>3. QED BY <2>2, <3>1, <3>2 DEF TryLockOk
    <2>3. CASE TryLockRetry(p) BY <2>3 DEF TryLockRetry
    <2>4. CASE LockTimeout(p) BY <2>4 DEF LockTimeout, ReleaseOf
    <2>5. CASE ReadForUpdate(p)
      BY <2>5 DEF ReadForUpdate, Updates, Parsed, Visible
    <2>6. CASE ReadForField(p)
      BY <2>6 DEF ReadForField, Updates, Parsed, Visible
    <2>7. CASE ReadForLoad(p) BY <2>7 DEF ReadForLoad, Parsed, Visible
    <2>8. CASE CreateTmp(p) BY <2>8 DEF CreateTmp
    <2>9. CASE WriteTmp(p)
      <3>1. Updates(buf[p]) \cup {p} \in Document BY DEF Updates
      <3>2. data' \in [DataInode -> Document \cup {Torn}]
        BY <2>9, <3>1 DEF WriteTmp
      <3>3. QED BY <2>9, <3>2 DEF WriteTmp
    <2>10. CASE RenameTmp(p)
      <3>1. CASE tmp_path = Nil BY <2>10, <3>1 DEF RenameTmp
      <3>2. CASE tmp_path # Nil BY <2>10, <3>2 DEF RenameTmp
      <3>3. QED BY <3>1, <3>2
    <2>11. CASE Drop(p) BY <2>11 DEF Drop, ReleaseOf
    <2>12. CASE CleanupUnlinkJson(p) BY <2>12 DEF CleanupUnlinkJson
    <2>13. CASE CleanupUnlinkLock(p) BY <2>13 DEF CleanupUnlinkLock
    <2>14. QED
      BY <1>3, <2>1, <2>2, <2>3, <2>4, <2>5, <2>6, <2>7, <2>8, <2>9, <2>10,
         <2>11, <2>12, <2>13 DEF Step
  <1>4. ASSUME NEW p \in Proc, Dies(p) PROVE TypeOK'
    BY <1>4 DEF Dies, ReleaseOf
  <1>5. QED BY <1>1, <1>2, <1>3, <1>4 DEF StoreNext

\* Every step but the removal of the lock file keeps the lock invariant.
LEMMA LockInvPreserved ==
  ASSUME NoCleanup, LockInv, [StoreNext]_storeVars
  PROVE  LockInv'
  <1> USE NilAssumption
  <1>t. TypeOK /\ TypeOK' BY TypePreserved DEF LockInv
  <1>o. OneLockFile /\ PcMatchesOp /\ FlocksHeld /\ FlockModes BY DEF LockInv
  <1> DEFINE Rest == OneLockFile /\ PcMatchesOp /\ FlocksHeld /\ FlockModes
  <1> SUFFICES Rest' BY <1>t DEF LockInv
  <1> USE <1>t, <1>o DEF TypeOK, OneLockFile, PcMatchesOp, FlocksHeld, FlockModes,
          HasLockOpen, Writing, Reading, Goto, files, locks, local
  <1>1. CASE UNCHANGED storeVars BY <1>1 DEF storeVars
  <1>2. ASSUME NEW p \in Proc, Call(p) PROVE Rest'
    BY <1>2 DEF Call, BeginUpdate, BeginSave, BeginIfExists, DeleteSession, CleanupRead, NoCleanup
  <1>3. ASSUME NEW p \in Proc, Step(p) PROVE Rest'
    <2>1. CASE OpenLock(p) BY <2>1 DEF OpenLock, FreeLockInode
    <2>2. CASE TryLockOk(p)
      <3>1. lockfd[p] = lock_path /\ lock_path \in LockInode BY <2>2 DEF TryLockOk
      <3>2. CASE op[p] = "load" BY <2>2, <3>1, <3>2 DEF TryLockOk, MayLock
      <3>3. CASE op[p] # "load" BY <2>2, <3>1, <3>3 DEF TryLockOk, MayLock
      <3>4. QED BY <3>2, <3>3
    <2>3. CASE TryLockRetry(p) BY <2>3 DEF TryLockRetry
    <2>4. CASE LockTimeout(p) BY <2>4 DEF LockTimeout, ReleaseOf
    <2>5. CASE ReadForUpdate(p) BY <2>5 DEF ReadForUpdate
    <2>6. CASE ReadForField(p) BY <2>6 DEF ReadForField
    <2>7. CASE ReadForLoad(p) BY <2>7 DEF ReadForLoad
    <2>8. CASE CreateTmp(p) BY <2>8 DEF CreateTmp
    <2>9. CASE WriteTmp(p) BY <2>9 DEF WriteTmp
    <2>10. CASE RenameTmp(p) BY <2>10 DEF RenameTmp
    <2>11. CASE Drop(p) BY <2>11 DEF Drop, ReleaseOf
    <2>12. CASE CleanupUnlinkJson(p) BY <2>12 DEF CleanupUnlinkJson
    <2>13. CASE CleanupUnlinkLock(p) BY <2>13 DEF CleanupUnlinkLock
    <2>14. QED
      BY <1>3, <2>1, <2>2, <2>3, <2>4, <2>5, <2>6, <2>7, <2>8, <2>9, <2>10,
         <2>11, <2>12, <2>13 DEF Step
  <1>4. ASSUME NEW p \in Proc, Dies(p) PROVE Rest'
    BY <1>4 DEF Dies, ReleaseOf
  <1>5. QED BY <1>1, <1>2, <1>3, <1>4 DEF StoreNext

\* The type invariant holds whatever operations are performed.
THEOREM TypeCorrect == StoreSpec => []TypeOK
  <1>1. StoreInit => TypeOK BY InitUpdateInv DEF LockInv
  <1>2. TypeOK /\ [StoreNext]_storeVars => TypeOK' BY TypePreserved
  <1>3. QED BY <1>1, <1>2, PTL DEF StoreSpec

\* SessionLock (store.rs:245): without cleanup, no two processes are inside a
\* round trip on one session at a time, and no reader sees one half done.
THEOREM LockIsExclusive ==
  ASSUME NoCleanup
  PROVE  StoreSpec => []MutualExclusion
  <1>1. StoreInit => LockInv BY InitUpdateInv
  <1>2. LockInv /\ [StoreNext]_storeVars => LockInv' BY LockInvPreserved
  <1>3. LockInv => MutualExclusion BY ExclusionFromLock
  <1>4. QED BY <1>1, <1>2, <1>3, PTL DEF StoreSpec

-----------------------------------------------------------------------------
\* Only the holder of the lock touches the files, so the temporary file it is
\* filling is its own, and the document is only ever a complete one.
LEMMA FilesInvPreserved ==
  ASSUME NoCleanup, LockInv, FilesInv, [StoreNext]_storeVars
  PROVE  FilesInv'
  <1> USE NilAssumption
  <1>t. TypeOK /\ TypeOK' BY TypePreserved DEF LockInv
  <1>m. MutualExclusion BY ExclusionFromLock
  <1>o. PcMatchesOp BY DEF LockInv
  <1> USE <1>t DEF TypeOK, Goto, files, locks, local, FilesInv, Visible
  <1>1. CASE UNCHANGED storeVars BY <1>1 DEF storeVars
  <1>2. ASSUME NEW p \in Proc, Call(p) PROVE FilesInv'
    BY <1>2 DEF Call, BeginUpdate, BeginSave, BeginIfExists, DeleteSession, CleanupRead, NoCleanup
  <1>3. ASSUME NEW p \in Proc, Step(p) PROVE FilesInv'
    <2>0. ASSUME pc[p] \in {"create", "write", "rename"}
          PROVE  \A q \in Proc : pc[q] \in {"create", "write", "rename"} => q = p
      BY <2>0, <1>m, <1>o
      DEF MutualExclusion, WritersExclude, PcMatchesOp, Writing
    <2>1. CASE OpenLock(p) BY <2>1 DEF OpenLock
    <2>2. CASE TryLockOk(p) BY <2>2 DEF TryLockOk
    <2>3. CASE TryLockRetry(p) BY <2>3 DEF TryLockRetry
    <2>4. CASE LockTimeout(p) BY <2>4 DEF LockTimeout
    <2>5. CASE ReadForUpdate(p) BY <2>5 DEF ReadForUpdate
    <2>6. CASE ReadForField(p) BY <2>6 DEF ReadForField
    <2>7. CASE ReadForLoad(p) BY <2>7 DEF ReadForLoad
    <2>8. CASE CreateTmp(p)
      <3>1. PICK i \in DataInode :
              /\ IF tmp_path = Nil THEN FreeDataInode(i) ELSE i = tmp_path
              /\ tmp_path' = i
              /\ tmpfd' = [tmpfd EXCEPT ![p] = i]
              /\ data' = [data EXCEPT ![i] = Torn]
        BY <2>8 DEF CreateTmp
      <3>2. i # json_path BY <3>1 DEF FreeDataInode
      <3>3. QED BY <2>8, <2>0, <3>1, <3>2 DEF CreateTmp
    <2>9. CASE WriteTmp(p)
      <3>1. tmpfd[p] = tmp_path /\ tmp_path \in DataInode /\ tmp_path # json_path
        BY <2>9 DEF WriteTmp
      <3>2. data' = [data EXCEPT ![tmp_path] = Updates(buf[p]) \cup {p}]
        BY <2>9, <3>1 DEF WriteTmp
      <3>3. data'[tmp_path] # Torn
        <4>1. Updates(buf[p]) \cup {p} \in SUBSET Proc BY DEF Updates, Document
        <4>2. QED BY <3>1, <3>2, <4>1
      <3>4. QED BY <2>9, <2>0, <3>1, <3>2, <3>3 DEF WriteTmp
    <2>10. CASE RenameTmp(p) BY <2>10, <2>0 DEF RenameTmp
    <2>11. CASE Drop(p) BY <2>11 DEF Drop
    <2>12. CASE CleanupUnlinkJson(p) BY <2>12, <1>o DEF CleanupUnlinkJson, PcMatchesOp
    <2>13. CASE CleanupUnlinkLock(p) BY <2>13 DEF CleanupUnlinkLock
    <2>14. QED
      BY <1>3, <2>1, <2>2, <2>3, <2>4, <2>5, <2>6, <2>7, <2>8, <2>9, <2>10,
         <2>11, <2>12, <2>13 DEF Step
  <1>4. ASSUME NEW p \in Proc, Dies(p) PROVE FilesInv'
    BY <1>4 DEF Dies
  <1>5. QED BY <1>1, <1>2, <1>3, <1>4 DEF StoreNext

\* "Writes the session atomically": readers that take no lock (list_sessions,
\* the sweep's directory scan) never find a document that does not parse,
\* whatever crashes, as long as cleanup does not unlink the lock file.
THEOREM DocumentIsNeverTorn ==
  ASSUME NoCleanup
  PROVE  StoreSpec => []NoTornSession
  <1>1. StoreInit => StoreInv BY InitUpdateInv DEF StoreInv
  <1>2. StoreInv /\ [StoreNext]_storeVars => StoreInv'
    BY LockInvPreserved, FilesInvPreserved DEF StoreInv
  <1>3. StoreInv => NoTornSession BY DEF StoreInv, FilesInv, NoTornSession
  <1>4. QED BY <1>1, <1>2, <1>3, PTL DEF StoreSpec

-----------------------------------------------------------------------------
\* Nobody changes the document between a writer's read and its rename.
LEMMA ContentsInvPreserved ==
  ASSUME Cooperating, UpdateInv, [StoreNext]_storeVars
  PROVE  ContentsInv'
  <1> USE NilAssumption
  <1>t. TypeOK BY DEF UpdateInv, StoreInv, LockInv
  <1>c. NoCleanup /\ \A p \in Proc : Ops[p] \cap {"delete", "save"} = {}
    BY DEF Cooperating, NoCleanup
  <1>m. MutualExclusion BY ExclusionFromLock DEF UpdateInv, StoreInv
  <1>o. PcMatchesOp BY DEF UpdateInv, StoreInv, LockInv
  <1>f. FilesInv /\ ContentsInv BY DEF UpdateInv, StoreInv
  <1> USE <1>t, <1>f DEF TypeOK, Goto, files, locks, local, ContentsInv, FilesInv, Visible,
          Document, AllOps
  <1>1. CASE UNCHANGED storeVars BY <1>1 DEF storeVars
  <1>2. ASSUME NEW p \in Proc, Call(p) PROVE ContentsInv'
    BY <1>2, <1>c DEF Call, BeginUpdate, BeginSave, BeginIfExists, DeleteSession, CleanupRead, NoCleanup
  <1>3. ASSUME NEW p \in Proc, Step(p) PROVE ContentsInv'
    <2>0. ASSUME pc[p] \in {"read", "create", "write", "rename"}, op[p] # "load"
          PROVE  \A q \in Proc : pc[q] \in {"create", "write", "rename"} => q = p
      BY <2>0, <1>m, <1>o
      DEF MutualExclusion, WritersExclude, PcMatchesOp, Writing
    <2>1. CASE OpenLock(p) BY <2>1 DEF OpenLock
    <2>2. CASE TryLockOk(p) BY <2>2 DEF TryLockOk
    <2>3. CASE TryLockRetry(p) BY <2>3 DEF TryLockRetry
    <2>4. CASE LockTimeout(p) BY <2>4 DEF LockTimeout
    <2>5. CASE ReadForUpdate(p) BY <2>5, <2>0 DEF ReadForUpdate, Parsed
    <2>6. CASE ReadForField(p) BY <2>6, <2>0 DEF ReadForField, Parsed
    <2>7. CASE ReadForLoad(p) BY <2>7 DEF ReadForLoad
    <2>8. CASE CreateTmp(p)
      <3>1. PICK i \in DataInode :
              /\ IF tmp_path = Nil THEN FreeDataInode(i) ELSE i = tmp_path
              /\ data' = [data EXCEPT ![i] = Torn]
        BY <2>8 DEF CreateTmp
      <3>2. i # json_path BY <3>1 DEF FreeDataInode
      <3>3. op[p] # "load" BY <2>8, <1>o DEF CreateTmp, PcMatchesOp
      <3>4. QED BY <2>8, <2>0, <3>1, <3>2, <3>3 DEF CreateTmp
    <2>9. CASE WriteTmp(p)
      <3>1. tmpfd[p] = tmp_path /\ tmp_path \in DataInode /\ tmp_path # json_path
        BY <2>9 DEF WriteTmp
      <3>2. op[p] # "load" BY <2>9, <1>o DEF WriteTmp, PcMatchesOp
      <3>3. buf[p] = Updates(Visible) \cup {p} /\ buf[p] # Nil
        <4>1. Updates(Visible) \cup {p} \in SUBSET Proc BY DEF Updates
        <4>2. buf[p] = Updates(Visible) \cup {p} BY <2>9 DEF WriteTmp
        <4>3. QED BY <4>1, <4>2
      <3>4. Updates(buf[p]) \cup {p} = Updates(Visible) \cup {p} BY <3>3 DEF Updates
      <3>5. data' = [data EXCEPT ![tmp_path] = Updates(Visible) \cup {p}]
        BY <2>9, <3>1, <3>4 DEF WriteTmp
      <3>6. Visible' = Visible BY <2>9, <3>1, <3>5 DEF WriteTmp
      <3>7. QED BY <2>9, <2>0, <3>1, <3>2, <3>5, <3>6 DEF WriteTmp
    <2>10. CASE RenameTmp(p)
      <3>1. op[p] # "load" BY <2>10, <1>o DEF RenameTmp, PcMatchesOp
      <3>2. QED BY <2>10, <2>0, <3>1 DEF RenameTmp
    <2>11. CASE Drop(p) BY <2>11 DEF Drop
    <2>12. CASE CleanupUnlinkJson(p) BY <2>12, <1>o DEF CleanupUnlinkJson, PcMatchesOp
    <2>13. CASE CleanupUnlinkLock(p) BY <2>13, <1>o DEF CleanupUnlinkLock, PcMatchesOp
    <2>14. QED
      BY <1>3, <2>1, <2>2, <2>3, <2>4, <2>5, <2>6, <2>7, <2>8, <2>9, <2>10,
         <2>11, <2>12, <2>13 DEF Step
  <1>4. ASSUME NEW p \in Proc, Dies(p) PROVE ContentsInv'
    BY <1>4 DEF Dies
  <1>5. QED BY <1>1, <1>2, <1>3, <1>4 DEF StoreNext

\* While only updates, field updates and loads run, the lock, the files and
\* the copies in memory stay consistent in every reachable state.
LEMMA UpdateInvAlways == Cooperating => (StoreSpec => []UpdateInv)
  <1> SUFFICES ASSUME Cooperating PROVE StoreSpec => []UpdateInv
    OBVIOUS
  <1>c. NoCleanup BY DEF Cooperating, NoCleanup
  <1>1. StoreInit => UpdateInv
    BY InitUpdateInv DEF UpdateInv, StoreInv
  <1>2. UpdateInv /\ [StoreNext]_storeVars => UpdateInv'
    BY <1>c, LockInvPreserved, FilesInvPreserved, ContentsInvPreserved
    DEF UpdateInv, StoreInv
  <1>3. QED BY <1>1, <1>2, PTL DEF StoreSpec

-----------------------------------------------------------------------------
(* The detailed store implements the atomic one. *)

\* A call starts with its Begin step, changes the document with its rename,
\* and is over when it drops the lock, gives up on it, or dies.
LEMMA StepRefines ==
  ASSUME Cooperating, UpdateInv, [StoreNext]_storeVars
  PROVE  [Atomic!Next]_<<Visible, phase>>
  <1> USE NilAssumption
  <1>t. TypeOK BY DEF UpdateInv, StoreInv, LockInv
  <1>c. NoCleanup /\ \A p \in Proc : Ops[p] \cap {"delete", "save"} = {}
    BY DEF Cooperating, NoCleanup
  <1>o. PcMatchesOp BY DEF UpdateInv, StoreInv, LockInv
  <1>f. FilesInv /\ ContentsInv BY DEF UpdateInv, StoreInv
  <1> USE <1>t DEF TypeOK, Goto, files, locks, local, AllOps
  <1> DEFINE Goal == [Atomic!Next]_<<Visible, phase>>
  <1>1. CASE UNCHANGED storeVars BY <1>1 DEF storeVars, Visible, phase
  <1>2. ASSUME NEW p \in Proc, Call(p) PROVE Goal
    <2>1. Visible' = Visible BY <1>2, <1>c
      DEF Call, BeginUpdate, BeginSave, BeginIfExists, DeleteSession, CleanupRead, Visible
    <2>2. pc[p] = "idle" /\ renamed[p] = FALSE
      BY <1>2, <1>c, <1>f
      DEF Call, BeginUpdate, BeginSave, BeginIfExists, DeleteSession, CleanupRead, ContentsInv
    <2>3. CASE BeginUpdate(p) \/ BeginIfExists(p, "field")
      <3>1. phase' = [phase EXCEPT ![p] = "called"]
        BY <2>2, <2>3 DEF BeginUpdate, BeginIfExists, phase
      <3>2. phase[p] = "idle" BY <2>2 DEF phase
      <3>3. QED BY <2>1, <3>1, <3>2 DEF Atomic!Next, Atomic!Invoke
    <2>4. CASE BeginIfExists(p, "load")
      <3>1. phase' = phase BY <2>2, <2>4 DEF BeginIfExists, phase
      <3>2. QED BY <2>1, <3>1
    <2>5. QED BY <1>2, <1>c, <2>3, <2>4 DEF Call, BeginSave, DeleteSession, CleanupRead, NoCleanup
  <1>3. ASSUME NEW p \in Proc, Drop(p) \/ LockTimeout(p) \/ Dies(p) PROVE Goal
    <2>1. Visible' = Visible BY <1>3 DEF Drop, LockTimeout, Dies, Visible
    <2>2. /\ pc' = [pc EXCEPT ![p] = "idle"]
          /\ \A q \in Proc \ {p} : op'[q] = op[q] /\ renamed'[q] = renamed[q]
      BY <1>3 DEF Drop, LockTimeout, Dies
    <2>3. phase' = [phase EXCEPT ![p] = "idle"] BY <2>2 DEF phase
    <2>4. CASE phase[p] = "idle"
      <3>1. phase' = phase BY <2>3, <2>4 DEF phase
      <3>2. QED BY <2>1, <3>1
    <2>5. CASE phase[p] # "idle"
      BY <2>1, <2>3, <2>5 DEF Atomic!Next, Atomic!Return
    <2>6. QED BY <2>4, <2>5
  <1>4. ASSUME NEW p \in Proc, RenameTmp(p) PROVE Goal
    <2>1. op[p] \in {"update", "field"} /\ pc[p] = "rename" /\ ~renamed[p]
      BY <1>4, <1>o, <1>f DEF RenameTmp, PcMatchesOp, ContentsInv
    <2>2. tmp_path # Nil /\ data[tmp_path] = Updates(Visible) \cup {p}
      BY <2>1, <1>f DEF FilesInv, ContentsInv
    <2>3. Visible' = Updates(Visible) \cup {p}
      BY <1>4, <2>2 DEF RenameTmp, Visible
    <2>4. phase[p] = "called" BY <2>1 DEF phase
    <2>5. phase' = [phase EXCEPT ![p] = "applied"]
      BY <1>4, <2>1, <2>2 DEF RenameTmp, phase
    <2>6. QED BY <2>3, <2>4, <2>5 DEF Atomic!Next, Atomic!Apply, Atomic!Updates, Updates
  <1>5. ASSUME NEW p \in Proc,
               Step(p), ~Drop(p), ~LockTimeout(p), ~RenameTmp(p)
        PROVE  Goal
    <2>1. phase' = phase
      <3>1. /\ op' = op /\ renamed' = renamed
            /\ pc[p] # "idle" /\ pc'[p] # "idle"
            /\ \A q \in Proc \ {p} : pc'[q] = pc[q]
        BY <1>5, <1>o
        DEF Step, OpenLock, TryLockOk, TryLockRetry, ReadForUpdate, ReadForField,
            ReadForLoad, CreateTmp, WriteTmp, CleanupUnlinkJson,
            CleanupUnlinkLock, PcMatchesOp
      <3>2. QED BY <3>1 DEF phase
    <2>2. Visible' = Visible
      <3>1. CASE CreateTmp(p)
        <4>1. PICK i \in DataInode :
                /\ IF tmp_path = Nil THEN FreeDataInode(i) ELSE i = tmp_path
                /\ data' = [data EXCEPT ![i] = Torn]
          BY <3>1 DEF CreateTmp
        <4>2. i # json_path BY <4>1, <1>f DEF FreeDataInode, FilesInv
        <4>3. QED BY <3>1, <4>1, <4>2 DEF CreateTmp, Visible
      <3>2. CASE WriteTmp(p) BY <3>2, <1>f DEF WriteTmp, FilesInv, Visible
      <3>3. QED
        BY <1>5, <1>o, <3>1, <3>2
        DEF Step, OpenLock, TryLockOk, TryLockRetry, ReadForUpdate, ReadForField,
            ReadForLoad, CleanupUnlinkJson, CleanupUnlinkLock, PcMatchesOp, Visible
    <2>3. QED BY <2>1, <2>2
  <1>6. QED BY <1>1, <1>2, <1>3, <1>4, <1>5 DEF StoreNext, Step

\* For callers that only update, set fields and load, the store is an atomic
\* register: each call takes effect at most once, in one step, and a call that
\* failed or died before its rename had no effect.
THEOREM StoreImplementsAtomicStore == Cooperating => (StoreSpec => ImplementsAtomicStore)
  <1> SUFFICES ASSUME Cooperating PROVE StoreSpec => Atomic!Spec
    BY DEF ImplementsAtomicStore
  <1>1. StoreInit => Atomic!Init
    BY NilAssumption DEF StoreInit, Atomic!Init, Visible, phase
  <1>2. UpdateInv /\ [StoreNext]_storeVars => [Atomic!Next]_<<Visible, phase>>
    BY StepRefines
  <1>3. StoreSpec => []UpdateInv BY UpdateInvAlways
  <1>4. QED BY <1>1, <1>2, <1>3, PTL DEF StoreSpec, Atomic!Spec, Atomic!avars

\* No concurrent hook silently loses the update of another: what is in the
\* document stays in it.
THEOREM UpdatesSurvive == Cooperating => (StoreSpec => NoLostUpdate)
  <1> SUFFICES ASSUME Cooperating PROVE StoreSpec => NoLostUpdate
    OBVIOUS
  <1> DEFINE Kept == Visible # Nil => Visible' # Nil /\ Visible \subseteq Visible'
  <1>1. UpdateInv /\ [StoreNext]_storeVars => [Kept]_storeVars
    <2> SUFFICES ASSUME UpdateInv, [StoreNext]_storeVars PROVE Kept
      OBVIOUS
    <2>1. CASE Visible' = Visible BY <2>1
    <2>2. CASE Visible' # Visible
      <3>1. PICK p \in Proc : Atomic!Apply(p)
        BY <2>2, StepRefines DEF Atomic!Next, Atomic!Invoke, Atomic!Return
      <3>2. Visible' = Updates(Visible) \cup {p}
        BY <3>1 DEF Atomic!Apply, Atomic!Updates, Updates
      <3>3. Updates(Visible) \cup {p} \in SUBSET Proc
        BY DEF UpdateInv, StoreInv, LockInv, FilesInv, TypeOK, Visible, Updates, Document
      <3>4. QED BY <3>2, <3>3, NilAssumption DEF Updates
    <2>3. QED BY <2>1, <2>2
  <1>2. StoreSpec => []UpdateInv BY UpdateInvAlways
  <1>3. QED BY <1>1, <1>2, PTL DEF StoreSpec, NoLostUpdate

-----------------------------------------------------------------------------
(***************************************************************************)
(* Sweep, for any number of sessions, pids, subagents and background       *)
(* shells and any idle timeout: a pass keeps the documents true to the     *)
(* process, although it saves copies it loaded earlier, as long as the     *)
(* user does not act in the middle of it.                                  *)
(*                                                                         *)
(* The argument: a copy that the pass may act upon was Stopped when it was *)
(* loaded, so the claude of that session had nothing to do, and without a  *)
(* prompt from its user such a claude can only end.                        *)
(***************************************************************************)

\* Nothing starts in the pane between a pass and its snapshot of the processes.
SnapshotInv == sweep.pc # "idle" /\ sweep.snapshot = None => proc = None

\* What the pass knows of the document it holds a copy of.
CopyInv ==
  sweep.pc \in {"clear", "decide", "signal", "save_signaled", "save_paused"} =>
    /\ sweep.sid \in Sid /\ sweep.copy \in SessionRecord /\ Settled(sweep.copy)
    /\ sweep.pc \in {"signal", "save_signaled", "save_paused"} => sweep.copy.status = "Stopped"
    /\ sweep.pc \in {"clear", "save_paused"} => sweep.snapshot = None
    /\ sweep.pc = "signal" => sweep.snapshot \in Pid
    /\ proc # None /\ proc.sid = sweep.sid /\ sweep.copy.status = "Stopped" => AtRest(proc)

\* The time of the last look at the input box bounds the time of the last key.
TouchInv ==
  /\ ~typed => activity <= untouched
  /\ sweep.pc = "signal" /\ proc # None => untouched >= TIMEOUT

\* PausedIsGone and PausedKeepsItsPane in one.
PausedIsDeserted ==
  \A s \in Sid : file[s] # None /\ file[s].status = "Paused" => ~\E t \in Sid : HasProcess(t)

SweepInv == /\ PaneInv /\ SweepTypeOK /\ BusyShows /\ SnapshotInv /\ CopyInv /\ TouchInv
            /\ PausedIsDeserted

-----------------------------------------------------------------------------
(* The steps of the sweep *)

\* A pass may save a settled document d over whatever its session has now, if
\* the claude of that session is gone or has nothing to do.
LEMMA SaveIsSafe ==
  ASSUME PaneInv, BusyShows, PausedIsDeserted, NEW d \in SessionRecord, Settled(d),
         NEW next, sweep.sid \in Sid, SaveCopy(d, next),
         proc # None => d.status # "Paused",
         proc # None /\ proc.sid = sweep.sid => AtRest(proc) /\ d.status = "Stopped"
  PROVE  PaneInv' /\ BusyShows' /\ PausedIsDeserted'
<1> DEFINE at == sweep.sid
<1>1. /\ file \in [Sid -> SessionDoc] /\ d # None
      /\ proc # None => proc \in Process /\ proc.sid \in Sid
  BY NoneAssumption DEF PaneInv, PaneTypeOK, SessionDoc, Process
<1>2. /\ file' = [file EXCEPT ![at] = d] /\ at \in Sid
      /\ proc' = proc /\ ending' = ending /\ typed' = typed /\ remembered' = remembered
  BY DEF SaveCopy
<1>3. /\ file' \in [Sid -> SessionRecord \cup {None}] /\ file'[at] = d
      /\ \A s \in Sid \ {at} : file'[s] = file[s]
  BY <1>1, <1>2 DEF SessionDoc
<1> HIDE DEF at
<1>4. PaneTypeOK' /\ EndingInv' /\ ProcInv'
  BY <1>2, <1>3 DEF PaneInv, PaneTypeOK, EndingInv, ProcInv
<1>5. StoppedMeansNoPendingWork'
  BY <1>2, <1>3 DEF PaneInv, StoppedMeansNoPendingWork, Settled
<1>6. CASE proc # None /\ proc.sid = at
  <2>1. AtRest(proc) /\ Doc' = d /\ d.status = "Stopped"
    BY <1>2, <1>3, <1>6 DEF Doc, at
  <2> QED BY <1>1, <1>2, <2>1, <1>3, <1>4, <1>5, <1>6
          DEF PaneInv, DocInv, PromptInv, BusyShows, AtRest, PausedIsDeserted, HasProcess
<1>7. CASE proc # None /\ proc.sid # at
  <2>1. Doc' = Doc /\ d.status # "Paused"
    BY <1>1, <1>2, <1>3, <1>7 DEF Doc
  <2>2. DocInv' /\ PromptInv' /\ BusyShows'
    BY <1>2, <2>1 DEF PaneInv, DocInv, PromptInv, BusyShows
  <2>3. PausedIsDeserted'
    BY <1>2, <1>3, <2>1 DEF PausedIsDeserted, HasProcess
  <2> QED BY <1>4, <1>5, <2>2, <2>3 DEF PaneInv
<1>8. CASE proc = None
  BY <1>2, <1>4, <1>5, <1>8 DEF PaneInv, DocInv, PromptInv, BusyShows, PausedIsDeserted, HasProcess
<1> QED BY <1>6, <1>7, <1>8

\* A session that takes the pane over leaves no session of it Paused, and
\* nothing pauses one while it is there.
LEMMA TakeoverEvicts ==
  ASSUME PaneInv, PausedIsDeserted, [Next]_paneVars
  PROVE  PausedIsDeserted'
<1> SUFFICES ASSUME NEW s \in Sid, file'[s] # None, file'[s].status = "Paused",
                    NEW t \in Sid, HasProcess(t)'
             PROVE  FALSE
  BY DEF PausedIsDeserted
<1>0. /\ PaneTypeOK /\ file \in [Sid -> SessionDoc]
      /\ proc # None => proc \in Process /\ proc.sid \in Sid /\ Doc \in SessionDoc
      /\ proc' # None /\ proc'.sid = t /\ proc'.main \in {"idle", "busy"}
  BY DEF PaneInv, PaneTypeOK, SessionDoc, Process, Doc, HasProcess
\* As long as nobody takes the pane over, s would have to be paused anew.
<1>1. ASSUME proc # None, proc.sid = t, proc.main \in {"idle", "busy"},
             file'[s] \in {file[s], Older(file[s]), Evicted(file[s])}
      PROVE  FALSE
  <2>1. file[s] # None
    BY <1>1 DEF Older, Evicted
  <2>2. file[s] \in SessionRecord
    BY <1>0, <2>1 DEF SessionDoc
  <2>3. file[s].status = "Paused"
    BY <1>1, <2>2, OtherResults
  <2> QED BY <1>1, <2>1, <2>3 DEF PausedIsDeserted, HasProcess
<1>2. ASSUME proc # None, proc.sid = t, NEW i \in HookInput, TakeoverHook(i),
             Doc = None \/ i.event = "SessionStart"
      PROVE  FALSE
  <2>1. CASE s # t
    <3>1. file'[s] = Evicted(file[s])
      BY <1>0, <1>2, <2>1, TakeoverStep
    <3>2. file[s] # None
      BY <3>1 DEF Evicted
    <3>3. file[s] \in SessionRecord
      BY <1>0, <3>2 DEF SessionDoc
    <3>4. Evicted(file[s]).status # "Paused"
      BY <3>2, <3>3 DEF Evicted, SessionRecord
    <3> QED BY <3>1, <3>4
  <2>2. CASE s = t
    BY <1>0, <1>2, <2>2, TakeoverStep, HookResult
  <2> QED BY <2>1, <2>2
<1>3. ASSUME proc # None, proc.sid = t, NEW i \in HookInput, Hook(i),
             proc.main \in {"idle", "busy"}
      PROVE  FALSE
  <2>1. CASE s # t
    BY <1>0, <1>1, <1>3, <2>1, HookStep
  <2>2. CASE s = t
    <3>1. file'[s] = ApplyHook(Doc, i) /\ Doc = file[s]
      BY <1>0, <1>3, <2>2, HookStep DEF Doc
    <3>2. file[s] # None /\ file[s].status = "Paused"
      BY <1>0, <3>1, HookResult
    <3> QED BY <1>3, <3>2 DEF PausedIsDeserted, HasProcess
  <2> QED BY <2>1, <2>2
<1>4. CASE UserStep
  <2>1. CASE Prompt
    <3>1. Event("UserPromptSubmit", Main) \in HookInput /\ proc # None /\ proc.sid = t
      BY <1>0, <2>1, EventTyped DEF Prompt, HookEvent, AgentKey, Main, Process
    <3>2. CASE Doc = None
      BY <1>2, <2>1, <3>1, <3>2 DEF Prompt, Doc
    <3>3. CASE Doc # None
      BY <1>3, <2>1, <3>1, <3>3 DEF Prompt, Doc, PaneInv, DocInv
    <3> QED BY <3>2, <3>3
  <2>2. ASSUME NEW u \in Sid, MarkRead(u) PROVE FALSE
    <3>1. file[u] \in SessionRecord /\ MarkedRead(file[u]).status = file[u].status
      BY <1>0, <2>2, OtherResults DEF MarkRead, SessionDoc
    <3>2. file[s] # None /\ file[s].status = "Paused" /\ proc' = proc
      BY <1>0, <2>2, <3>1 DEF MarkRead
    <3> QED BY <1>0, <3>2 DEF PausedIsDeserted, HasProcess
  <2>3. CASE Type
    BY <1>0, <1>1, <2>3 DEF Type
  <2>4. ASSUME NEW u \in Sid, StartClaude(u) \/ ResumeClaude(u) PROVE FALSE
    BY <1>0, <2>4 DEF StartClaude, ResumeClaude, Launch
  <2>5. CASE Quit
    BY <1>0, <2>5 DEF Quit, ShutDown, Process
  <2> QED BY <1>4, <2>1, <2>2, <2>3, <2>4, <2>5 DEF UserStep
<1>5. CASE AgentStep
  <2>1. ASSUME NEW k \in AgentKey, AskPermission(k) \/ Answer(k) PROVE FALSE
    <3>1. proc # None /\ proc'.sid = proc.sid /\ proc'.main = proc.main
      BY <1>0, <2>1 DEF AskPermission, Answer, Running, Process
    <3>2. PICK e \in {"PermissionRequest", "PostToolUse"} : Hook(Event(e, k))
      BY <2>1 DEF AskPermission, Answer
    <3>3. Event(e, k) \in HookInput
      BY <1>0, <3>1, EventTyped DEF HookEvent
    <3>4. proc.main \in {"idle", "busy"} /\ proc.sid = t
      BY <1>0, <3>1
    <3> QED BY <1>3, <3>1, <3>2, <3>3, <3>4
  <2>2. ASSUME NEW k \in AgentKey, NEW e \in {"PreToolUse", "PostToolUse"}, Tool(k, e)
        PROVE  FALSE
    <3>1. Event(e, k) \in HookInput
      BY <1>0, <2>2, EventTyped DEF Tool, Running, HookEvent
    <3> QED BY <1>0, <1>3, <2>2, <3>1 DEF Tool, Running
  <2>3. CASE PermissionNotification \/ StopHook \/ IdlePrompt \/ ShutdownStop
    <3>1. /\ proc # None /\ proc'.sid = proc.sid /\ proc.main \in {"idle", "busy"}
      BY <1>0, <2>3 DEF PermissionNotification, StopHook, IdlePrompt, ShutdownStop,
                        Running, Process, PaneInv, ProcInv
    <3>2. \E i \in HookInput : Hook(i)
      BY <1>0, <2>3, <3>1, EventTyped
         DEF PermissionNotification, StopHook, IdlePrompt, ShutdownStop
    <3> QED BY <1>0, <1>3, <3>1, <3>2
  <2>4. CASE (\E a \in Agent : Deny(a)) \/ Finish \/ Spawn
    <3>1. /\ proc # None /\ file' = file /\ proc'.sid = proc.sid
          /\ proc.main \in {"idle", "busy"}
      BY <1>0, <2>4 DEF Deny, Finish, Spawn, Running, Woken, Process
    <3> QED BY <1>0, <1>1, <3>1
  <2>5. CASE SessionStartHook
    <3>1. [Event("SessionStart", Main) EXCEPT !.kind = "resume"].event = "SessionStart"
      BY DEF Event
    <3> QED BY <1>0, <1>2, <2>5, <3>1, EventTyped DEF SessionStartHook, Process
  <2> QED BY <1>5, <2>1, <2>2, <2>3, <2>4, <2>5 DEF AgentStep, TurnStep
<1>6. CASE ExitStep
  <2>1. CASE ObeySigterm \/ Exit \/ Crash
    BY <1>0, <2>1 DEF ObeySigterm, ShutDown, Exit, Crash, Process
  <2>2. ASSUME NEW u \in Sid, EndLoad(u) PROVE FALSE
    BY <1>0, <1>1, <2>2 DEF EndLoad
  <2>3. ASSUME NEW u \in Sid, EndSave(u) PROVE FALSE
    BY <1>0, <2>3 DEF EndSave, PaneInv, EndingInv
  <2> QED BY <1>6, <2>1, <2>2, <2>3 DEF ExitStep
<1>7. CASE Tick
  BY <1>0, <1>1, <1>7 DEF Tick, AgeFiles
<1>8. CASE (\E pid \in Pid : Signal(pid)) \/ UNCHANGED paneVars
  <2>1. proc # None /\ proc'.sid = proc.sid /\ proc'.main = proc.main /\ file' = file
    BY <1>0, <1>8 DEF Signal, Sigterm, Process, paneVars
  <2> QED BY <1>0, <1>1, <2>1
<1> QED BY <1>4, <1>5, <1>6, <1>7, <1>8 DEF Next, PaneNext

\* What the invariant says about the pane, and what it says about the pass.
OfThePane == PaneInv /\ BusyShows /\ PausedIsDeserted
OfThePass == /\ sweep \in Pass /\ activity \in 0 .. TIMEOUT /\ untouched \in 0 .. TIMEOUT
             /\ SnapshotInv /\ CopyInv /\ TouchInv

\* Every step of the sweep, the user, the claude and the clock keeps it.
LEMMA SweepInvStep ==
  ASSUME ~UserInPass, SweepInv, [SweepNext]_vars
  PROVE  SweepInv'
<1>0. /\ OfThePane /\ OfThePass /\ PaneTypeOK /\ TIMEOUT \in Nat
      /\ proc \in Process \cup {None}
      /\ None \notin Pid /\ None \notin SessionRecord /\ None \notin Sid
  BY TimeoutAssumption, SidAssumption, NoneAssumption
     DEF SweepInv, OfThePane, OfThePass, SweepTypeOK, PaneInv, PaneTypeOK
<1> SUFFICES OfThePane' /\ OfThePass'
  BY DEF SweepInv, OfThePane, OfThePass, SweepTypeOK, PaneInv
<1>1. ASSUME [Next]_paneVars PROVE OfThePane'
  BY <1>0, <1>1, PaneInvStep, BusyPreserved, TakeoverEvicts DEF OfThePane
<1>2. ASSUME UNCHANGED <<file, proc, ending>>, typed' \in BOOLEAN, remembered' \in SUBSET Pid
      PROVE  OfThePane'
  BY <1>0, <1>2 DEF OfThePane, PaneInv, PaneTypeOK, EndingInv, ProcInv, DocInv, PromptInv, Doc,
                    StoppedMeansNoPendingWork, BusyShows, PausedIsDeserted, HasProcess
<1>3. ASSUME sweep.pc = "idle", sweep' = sweep,
             activity' \in 0 .. TIMEOUT, untouched' \in 0 .. TIMEOUT,
             ~typed' => activity' <= untouched'
      PROVE  OfThePass'
  BY <1>0, <1>3 DEF OfThePass, SnapshotInv, CopyInv, TouchInv
\* The user acts between the passes.
<1>4. CASE User
  <2>1. UserStep /\ sweep.pc = "idle" /\ sweep' = sweep /\ activity' = activity
    BY <1>4 DEF User
  <2>2. (~typed' => ~typed) /\ (Typing => typed')
    BY <2>1 DEF UserStep, Typing, Prompt, Type, StartClaude, ResumeClaude, Launch, MarkRead,
                Quit, ShutDown
  <2>3. untouched' \in 0 .. TIMEOUT /\ (~typed' => activity' <= untouched')
    BY <1>0, <1>4, <2>1, <2>2 DEF User, OfThePass, TouchInv
  <2>4. OfThePass'
    BY <1>0, <1>3, <2>1, <2>3 DEF OfThePass
  <2> QED BY <1>1, <2>1, <2>4 DEF Next, PaneNext
\* The claude acts at any time.
<1>5. ASSUME AgentStep \/ ExitStep \/ \E pid \in Pid : Signal(pid), UNCHANGED sweepVars
      PROVE  OfThePane' /\ OfThePass'
  <2>1. OfThePane'
    BY <1>1, <1>5 DEF Next, PaneNext
  <2>2. /\ proc' # None => /\ proc # None /\ proc'.sid = proc.sid
                           /\ AtRest(proc) => AtRest(proc')
        /\ typed' = typed
    BY <1>0, <1>5, RestKept
  <2>3. OfThePass'
    BY <1>0, <1>5, <2>2 DEF OfThePass, sweepVars, SnapshotInv, CopyInv, TouchInv
  <2> QED BY <2>1, <2>3
<1>6. CASE SweepTick
  <2>1. OfThePane'
    BY <1>1, <1>6 DEF SweepTick, Next, Tick, AgeFiles, paneVars
  <2>2. OfThePass'
    BY <1>0, <1>3, <1>6 DEF SweepTick, Longer, OfThePass, TouchInv
  <2> QED BY <2>1, <2>2
<1>7. CASE SweepStart \/ SweepEnd \/ SweepAbort
  <2>1. remembered' \in SUBSET Pid /\ (SweepStart => Pid_of_pane \in Pid \cup {None})
    BY <1>0, <1>7 DEF SweepStart, SweepEnd, SweepAbort, Pid_of_pane, Process
  <2>2. OfThePane'
    BY <1>0, <1>2, <1>7, <2>1 DEF SweepStart, SweepEnd, SweepAbort, PaneTypeOK
  <2>a. NoPass \in Pass /\ NoPass.pc = "idle"
    BY DEF NoPass, Pass
  <2>3. sweep' \in Pass /\ sweep'.pc \in {"idle", "next"}
    <3>1. CASE SweepStart
      <4>1. {s \in Sid : file[s] # None} \in SUBSET Sid
        OBVIOUS
      <4> HIDE DEF NoPass
      <4>2. PICK docs \in SUBSET Sid :
              sweep' = [NoPass EXCEPT !.pc = "next", !.snapshot = Pid_of_pane, !.todo = docs]
        BY <3>1, <4>1 DEF SweepStart
      <4> QED BY <2>1, <2>a, <3>1, <4>2 DEF Pass
    <3>2. CASE SweepEnd \/ SweepAbort
      BY <2>a, <3>2 DEF SweepEnd, SweepAbort
    <3> QED BY <1>7, <3>1, <3>2
  <2>4. SnapshotInv'
    <3>1. CASE SweepStart
      <4>1. sweep'.snapshot = Pid_of_pane /\ proc' = proc
        BY <3>1 DEF SweepStart, NoPass
      <4> QED BY <1>0, <4>1 DEF SnapshotInv, Pid_of_pane, Process
    <3>2. CASE SweepEnd \/ SweepAbort
      BY <2>a, <3>2 DEF SweepEnd, SweepAbort, SnapshotInv
    <3> QED BY <1>7, <3>1, <3>2
  <2>5. OfThePass'
    BY <1>0, <1>7, <2>3, <2>4 DEF SweepStart, SweepEnd, SweepAbort, OfThePass, CopyInv, TouchInv
  <2> QED BY <2>2, <2>5
\* A document that looks idle belongs to a claude that has nothing to do.
<1>8. ASSUME NEW s \in Sid, SweepLoad(s) PROVE OfThePane' /\ OfThePass'
  <2>1. OfThePane'
    BY <1>1, <1>8 DEF SweepLoad
  <2>2. /\ file[s] # None => file[s] \in SessionRecord
        /\ file[s] # None /\ proc # None /\ proc.sid = s /\ file[s].status = "Stopped" => AtRest(proc)
        /\ Settled(file[s])
    BY <1>0, StoppedIsAtRest
       DEF OfThePane, PaneInv, PaneTypeOK, Doc, StoppedMeansNoPendingWork, Settled
  <2>3. CASE file[s] = None \/ file[s].status = "Ended"
    <3>1. sweep' = [sweep EXCEPT !.todo = @ \ {s}] /\ sweep.pc = "next"
      BY <1>8, <2>3 DEF SweepLoad
    <3>2. sweep' \in Pass /\ sweep'.pc = "next" /\ sweep'.snapshot = sweep.snapshot
      BY <1>0, <3>1 DEF OfThePass, Pass
    <3> QED BY <1>0, <1>8, <2>1, <3>1, <3>2 DEF SweepLoad, OfThePass, SnapshotInv, CopyInv, TouchInv, paneVars
  <2>4. CASE file[s] # None /\ file[s].status # "Ended"
    <3> DEFINE stale == IsStalePending(file[s])
               d == IF stale THEN WithoutPending(file[s]) ELSE file[s]
    <3>1. /\ sweep.pc = "next"
          /\ sweep' = [sweep EXCEPT !.todo = @ \ {s}, !.sid = s, !.copy = d,
                                    !.pc = IF stale THEN "clear" ELSE "decide"]
      BY <1>8, <2>4 DEF SweepLoad
    <3>2. d \in SessionRecord /\ Settled(d) /\ d.status = file[s].status
      BY <2>2, <2>4 DEF WithoutPending, SessionRecord, Settled, has_pending_bg_tasks
    <3>3. stale => sweep.snapshot = None
      BY DEF IsStalePending, resolve_pid
    <3> HIDE DEF stale, d
    <3>4. /\ sweep' \in Pass /\ sweep'.snapshot = sweep.snapshot /\ sweep'.sid = s
          /\ sweep'.copy = d /\ sweep'.pc \in {"clear", "decide"}
          /\ sweep'.pc = "clear" => stale
      BY <1>0, <3>1, <3>2 DEF OfThePass, Pass
    <3>5. CopyInv'
      BY <1>8, <2>2, <2>4, <3>2, <3>3, <3>4 DEF SweepLoad, CopyInv, paneVars
    <3> QED BY <1>0, <1>8, <2>1, <3>1, <3>4, <3>5 DEF SweepLoad, OfThePass, SnapshotInv, TouchInv, paneVars
  <2> QED BY <2>3, <2>4
\* A decision to pause looks at the input box as well.
<1>9. CASE SweepDecide
  <2>1. OfThePane'
    BY <1>0, <1>2, <1>9 DEF SweepDecide, Probe, PaneTypeOK
  <2>2. /\ sweep' \in Pass /\ sweep.pc = "decide" /\ sweep'.snapshot = sweep.snapshot
        /\ sweep'.sid = sweep.sid /\ sweep'.copy = sweep.copy
        /\ sweep'.pc \in {"next", "signal", "save_paused"}
        /\ sweep'.pc # "next" => Decision = "Pause"
        /\ sweep'.pc = "save_paused" => sweep.snapshot = None
        /\ sweep'.pc = "signal" => sweep.snapshot \in Pid
    BY <1>0, <1>9 DEF SweepDecide, OfThePass, Pass, resolve_pid
  <2>3. Decision = "Pause" => /\ sweep.copy.status = "Stopped"
                              /\ ProbedActivity >= TIMEOUT
    <3>1. sweep.copy.age \in 0 .. TIMEOUT
      BY <1>0, <2>2 DEF OfThePass, CopyInv, SessionRecord
    <3>2. ProbedActivity \in 0 .. TIMEOUT
      BY <1>0 DEF ProbedActivity, OfThePass
    <3> QED BY <1>0, <3>1, <3>2 DEF Decision, decide_pause, effective_age
  <2>4. activity' \in 0 .. TIMEOUT /\ (~typed' => activity' <= untouched)
    BY <1>0, <1>9 DEF SweepDecide, Probe, OfThePass, TouchInv
  <2>5. proc # None /\ ProbedActivity >= TIMEOUT => untouched >= TIMEOUT
    BY <1>0 DEF ProbedActivity, OfThePass, TouchInv, PaneTypeOK
  <2>6. UNCHANGED <<proc, untouched>>
    BY <1>9 DEF SweepDecide
  <2>7. SnapshotInv' /\ CopyInv' /\ TouchInv'
    BY <1>0, <2>2, <2>3, <2>4, <2>5, <2>6 DEF OfThePass, SnapshotInv, CopyInv, TouchInv
  <2> QED BY <1>0, <2>1, <2>2, <2>4, <2>6, <2>7 DEF OfThePass
<1>10. CASE SweepSignal
  <2>1. sweep.snapshot \in Pid /\ Signal(sweep.snapshot)
    BY <1>0, <1>10 DEF SweepSignal, Signal, resolve_pid, OfThePass, CopyInv
  <2>2. OfThePane'
    BY <1>1, <2>1 DEF Next
  <2>3. /\ proc' # None => /\ proc # None /\ proc'.sid = proc.sid
                           /\ AtRest(proc) => AtRest(proc')
        /\ typed' = typed
    BY <1>0, <2>1, RestKept
  <2>4. /\ sweep' \in Pass /\ sweep.pc = "signal" /\ sweep'.pc = "save_signaled"
        /\ sweep'.snapshot = sweep.snapshot
        /\ sweep'.sid = sweep.sid /\ sweep'.copy = sweep.copy
        /\ UNCHANGED <<activity, untouched>>
    BY <1>0, <1>10 DEF SweepSignal, OfThePass, Pass
  <2>5. OfThePass'
    BY <1>0, <2>3, <2>4 DEF OfThePass, SnapshotInv, CopyInv, TouchInv
  <2> QED BY <2>2, <2>5
\* The three saves.
<1>11. ASSUME NEW d \in SessionRecord, NEW next \in {"next", "decide"}, SaveCopy(d, next), Settled(d),
              sweep.pc \in {"clear", "save_signaled", "save_paused"},
              next = "decide" => proc = None,
              proc # None => d.status # "Paused",
              proc # None /\ proc.sid = sweep.sid => AtRest(proc) /\ d.status = "Stopped"
       PROVE  OfThePane' /\ OfThePass'
  <2>1. sweep.sid \in Sid
    BY <1>0, <1>11 DEF OfThePass, CopyInv
  <2>2. OfThePane'
    BY <1>0, <1>11, <2>1, SaveIsSafe DEF OfThePane
  <2>3. /\ sweep' \in Pass /\ sweep'.pc = next /\ sweep'.copy = d
        /\ sweep'.snapshot = sweep.snapshot /\ sweep'.sid = sweep.sid
        /\ UNCHANGED <<proc, typed, activity, untouched>>
    BY <1>0, <1>11 DEF SaveCopy, OfThePass, Pass
  <2>4. OfThePass'
    BY <1>0, <1>11, <2>1, <2>3 DEF OfThePass, SnapshotInv, CopyInv, TouchInv
  <2> QED BY <2>2, <2>4
<1>12. CASE SweepClear
  <2>1. /\ sweep.pc = "clear" /\ proc = None /\ sweep.copy \in SessionRecord /\ Settled(sweep.copy)
        /\ SaveCopy(sweep.copy, "decide")
    BY <1>0, <1>12 DEF SweepClear, OfThePass, CopyInv, SnapshotInv
  <2> QED BY <1>11, <2>1
<1>13. CASE SweepSaveSignaled
  <2> DEFINE d == [sweep.copy EXCEPT !.sweep_signaled = TRUE]
  <2>1. /\ sweep.pc = "save_signaled" /\ sweep.copy \in SessionRecord /\ Settled(sweep.copy)
        /\ sweep.copy.status = "Stopped" /\ SaveCopy(d, "next")
        /\ proc # None /\ proc.sid = sweep.sid => AtRest(proc)
    BY <1>0, <1>13 DEF SweepSaveSignaled, OfThePass, CopyInv
  <2>2. d \in SessionRecord /\ d.status = "Stopped" /\ Settled(d)
    BY <1>0, <2>1 DEF SessionRecord, Settled, has_pending_bg_tasks
  <2> HIDE DEF d
  <2> QED BY <1>11, <2>1, <2>2
<1>14. CASE SweepSavePaused
  <2> DEFINE d == [sweep.copy EXCEPT !.status = "Paused", !.sweep_signaled = FALSE]
  <2>1. /\ sweep.pc = "save_paused" /\ sweep.copy \in SessionRecord /\ proc = None
        /\ SaveCopy(d, "next")
    BY <1>0, <1>14 DEF SweepSavePaused, OfThePass, CopyInv, SnapshotInv
  <2>2. d \in SessionRecord /\ Settled(d)
    BY <2>1 DEF SessionRecord, Status, Settled
  <2> HIDE DEF d
  <2> QED BY <1>11, <2>1, <2>2
<1>15. CASE UNCHANGED vars
  BY <1>0, <1>15 DEF vars, sweepVars, paneVars, OfThePane, OfThePass, PaneInv, PaneTypeOK, EndingInv,
       ProcInv, DocInv, PromptInv, Doc, StoppedMeansNoPendingWork, BusyShows, PausedIsDeserted,
       HasProcess, SnapshotInv, CopyInv, TouchInv
<1> QED BY <1>4, <1>5, <1>6, <1>7, <1>8, <1>9, <1>10, <1>12, <1>13, <1>14, <1>15
        DEF SweepNext, SweepStep

\* Without a pass, a process and documents the invariant holds, so it always does.
LEMMA SweepInvAlways == ~UserInPass => (SweepSpec => []SweepInv)
<1> SUFFICES ASSUME ~UserInPass PROVE SweepSpec => []SweepInv
  OBVIOUS
<1>1. Init => SweepInv
  BY TimeoutAssumption
     DEF Init, PaneInit, NoPass, SweepInv, SweepTypeOK, Pass, PaneInv, PaneTypeOK, EndingInv,
         ProcInv, DocInv, PromptInv, StoppedMeansNoPendingWork, EndingHook, NoHook, BusyShows,
         SnapshotInv, CopyInv, TouchInv, PausedIsDeserted
<1>2. SweepInv /\ [SweepNext]_vars => SweepInv'
  BY SweepInvStep
<1> QED BY <1>1, <1>2, PTL DEF SweepSpec

-----------------------------------------------------------------------------
(* The theorems *)

\* sweep/mod.rs: a claude gets SIGTERM only when it has nothing to do, and when
\* nobody has typed into its pane for the whole timeout.
THEOREM SweepSpares ==
  ~UserInPass => (SweepSpec => [](SignalsOnlyIdle /\ SignalsOnlyUntouched))
<1>1. SweepInv => SignalsOnlyIdle /\ SignalsOnlyUntouched
  BY DEF SweepInv, CopyInv, TouchInv, AtRest, SignalsOnlyIdle, SignalsOnlyUntouched
<1> QED BY <1>1, SweepInvAlways, PTL

\* README.md:461: a Paused session has no claude at work, although the pause is
\* saved over whatever the document says by then.
THEOREM PausedHasNoProcess == ~UserInPass => (SweepSpec => []PausedIsGone)
<1>1. SweepInv => PausedIsGone
  BY DEF SweepInv, PausedIsDeserted, PausedIsGone
<1> QED BY <1>1, SweepInvAlways, PTL

\* evict_paused_sessions_on_pane_takeover: a session that can be resumed has
\* its pane to itself, however many sessions took turns in it.
THEOREM PausedHasThePane == ~UserInPass => (SweepSpec => []PausedKeepsItsPane)
<1>1. SweepInv => PausedKeepsItsPane
  BY DEF SweepInv, PausedIsDeserted, PausedKeepsItsPane
<1> QED BY <1>1, SweepInvAlways, PTL

\* The sweep saves copies it loaded earlier over the documents of the hooks:
\* that loses no prompt and no background work from them.
THEOREM SweepKeepsTheDocument ==
  ~UserInPass => (SweepSpec => [](PromptIsShown /\ WorkIsProtected))
<1>1. SweepInv => PromptIsShown /\ WorkIsProtected
  BY PaneInvShows DEF SweepInv
<1> QED BY <1>1, SweepInvAlways, PTL

-----------------------------------------------------------------------------
(***************************************************************************)
(* Auto-compact, for any number of workers, sessions, subagents and        *)
(* background shells.                                                      *)
(*                                                                         *)
(* That workers take turns rests on the pane option alone. That they       *)
(* compact only an idle claude rests on what a Stopped document says of    *)
(* its claude (ClaudePaneProofs), which a worker that pauses a claude it   *)
(* has just signalled has to leave true.                                   *)
(***************************************************************************)

\* What the pane keeps whatever workers and users do.
PaneBase == PaneTypeOK /\ EndingInv /\ ProcInv /\ StoppedMeansNoPendingWork

Holding == {"decide", "signal", "grace", "compact", "mark", "marked"}

\* What a worker in state r relies on: its session has a document, and it holds
\* a copy of one from its reload on.
WellInformed(r) ==
  r.pc # "none" => /\ r.sid \in Sid /\ file[r.sid] # None
                   /\ r.pc \in Holding => r.copy \in SessionRecord

OneAwake == \A v, w \in Worker : v # w /\ Awake(v) => ~Awake(w)

WorkersInv == /\ timer \in Worker \cup {None}
              /\ worker \in [Worker -> WorkerState]
              /\ \A w \in Worker : worker[w].pc = "none" => worker[w] = NoWorker
              /\ due \in Worker \cup {"none", "unread"}
              /\ \A w \in Worker : WellInformed(worker[w])
              /\ OneAwake

CompactBase == PaneBase /\ WorkersInv

\* The claude of a session that a worker is about to compact has nothing to do,
\* and had nothing to do when the worker read the document.
Decided(w) == Acting(w) \/ (At(w, "decide") /\ decide_compact(worker[w].copy))
IdleInv ==
  \A w \in Worker : Decided(w) =>
    /\ worker[w].quiet
    /\ proc # None /\ proc.sid = worker[w].sid => AtRest(proc)

CompactInv == CompactBase /\ DocInv /\ PromptInv /\ BusyShows /\ IdleInv

-----------------------------------------------------------------------------
(* The workers *)

AwakeIn(r) == r.pc \notin {"none", "cancel", "register", "sleep"}

LEMMA AwakeIsAwakeIn == \A w : Awake(w) <=> AwakeIn(worker[w])
BY DEF Awake, AwakeIn, Alive, At

\* A worker that goes on or ends disturbs no other one, and one that wakes up
\* finds the others asleep.
LEMMA GoesOn ==
  ASSUME WorkersInv, NEW w \in Worker, NEW r \in WorkerState,
         worker' = [worker EXCEPT ![w] = r],
         r.pc = "none" => r = NoWorker,
         WellInformed(r),
         AwakeIn(r) => Awake(w) \/ \A v \in Worker : ~Awake(v),
         \A s \in Sid : file[s] # None => file'[s] # None,
         timer' \in Worker \cup {None}, due' \in Worker \cup {"none", "unread"}
  PROVE  WorkersInv'
<1>1. /\ worker' \in [Worker -> WorkerState] /\ worker'[w] = r
      /\ \A v \in Worker \ {w} : worker'[v] = worker[v]
  BY DEF WorkersInv
<1>2. \A v \in Worker : worker'[v].pc = "none" => worker'[v] = NoWorker
  BY <1>1 DEF WorkersInv
<1>3. \A v \in Worker : WellInformed(worker[v])' 
  BY <1>1 DEF WorkersInv, WellInformed
<1>4. OneAwake'
  <2>1. \A v \in Worker : Awake(v)' <=> AwakeIn(worker'[v])
    BY DEF Awake, AwakeIn, Alive, At
  <2>2. \A v \in Worker \ {w} : Awake(v)' <=> Awake(v)
    BY <1>1, <2>1, AwakeIsAwakeIn
  <2>3. Awake(w)' => Awake(w) \/ \A v \in Worker : ~Awake(v)
    BY <1>1, <2>1
  <2> QED BY <2>2, <2>3 DEF OneAwake, WorkersInv
<1> QED BY <1>1, <1>2, <1>3, <1>4 DEF WorkersInv

\* Every step of a worker keeps what all of them rely on.
LEMMA WorkersStep ==
  ASSUME CompactBase, NEW w \in Worker, WorkerStep(w),
         \A s \in Sid : file[s] # None => file'[s] # None
  PROVE  WorkersInv'
<1>0. /\ WorkersInv /\ worker[w] \in WorkerState /\ WellInformed(worker[w])
      /\ NoWorker \in WorkerState /\ WellInformed(NoWorker)
      /\ timer \in Worker \cup {None} /\ due \in Worker \cup {"none", "unread"}
      /\ file \in [Sid -> SessionRecord \cup {None}]
  BY DEF CompactBase, PaneBase, PaneTypeOK, WorkersInv, NoWorker, WorkerState, WellInformed
<1>1. ASSUME Exits(w), timer' = timer, due' \in {due, "none"} PROVE WorkersInv'
  <2>1. NoWorker.pc = "none"
    BY DEF NoWorker
  <2> QED BY <1>0, <1>1, <2>1, GoesOn DEF Exits, AwakeIn
<1>2. ASSUME NEW step \in Holding \cup {"reload", "sleep"}, Go(w, step), Alive(w),
             step \in Holding => worker[w].pc \in Holding,
             step = "sleep" \/ Awake(w) \/ \A v \in Worker : ~Awake(v),
             timer' \in Worker \cup {None}, due' \in {due, "none"}
      PROVE  WorkersInv'
  <2> DEFINE r == [worker[w] EXCEPT !.pc = step]
  <2>1. /\ r \in WorkerState /\ r.pc = step /\ r.sid = worker[w].sid /\ r.copy = worker[w].copy
        /\ worker' = [worker EXCEPT ![w] = r]
    BY <1>0, <1>2 DEF WorkerState, Holding, Go
  <2> HIDE DEF r
  <2>2. WellInformed(r) /\ r.pc # "none" /\ (AwakeIn(r) => step # "sleep")
    BY <1>0, <1>2, <2>1 DEF WellInformed, Holding, Alive, At, AwakeIn
  <2> QED BY <1>0, <1>2, <2>1, <2>2, GoesOn
<1>3. CASE Cancel(w)
  <2>1. PICK hit \in SUBSET Worker :
          worker' = [v \in Worker |->
            IF v = w THEN [worker[w] EXCEPT !.pc = "register"]
            ELSE IF v \in hit /\ Alive(v) THEN [worker[v] EXCEPT !.term = TRUE]
            ELSE worker[v]]
    BY <1>3 DEF Cancel
  <2>2. UNCHANGED <<timer, due, file>> /\ worker[w].pc = "cancel"
    BY <1>3 DEF Cancel, At, paneVars
  <2>3. ASSUME NEW v \in Worker
        PROVE  /\ worker'[v] \in WorkerState
               /\ worker'[v].pc = "none" => worker'[v] = NoWorker
               /\ WellInformed(worker[v])'
               /\ AwakeIn(worker'[v]) <=> AwakeIn(worker[v])
    <3>1. worker[v] \in WorkerState /\ WellInformed(worker[v])
          /\ (worker[v].pc = "none" => worker[v] = NoWorker)
      BY <1>0 DEF WorkersInv
    <3>2. CASE v = w
      <4>1. /\ worker'[v] \in WorkerState /\ worker'[v].pc = "register"
            /\ worker'[v].sid = worker[v].sid
        BY <1>0, <2>1, <3>2 DEF WorkerState
      <4> QED BY <2>2, <3>1, <3>2, <4>1 DEF WellInformed, AwakeIn, Holding
    <3>3. CASE v # w /\ v \in hit /\ Alive(v)
      <4>1. /\ worker'[v] \in WorkerState /\ worker'[v].pc = worker[v].pc
            /\ worker'[v].sid = worker[v].sid /\ worker'[v].copy = worker[v].copy
        BY <2>1, <3>1, <3>3 DEF WorkerState
      <4> QED BY <2>2, <3>1, <3>3, <4>1 DEF WellInformed, AwakeIn, Alive, At
    <3>4. CASE v # w /\ ~(v \in hit /\ Alive(v))
      BY <2>1, <2>2, <3>1, <3>4 DEF WellInformed
    <3> QED BY <3>2, <3>3, <3>4
  <2>4. OneAwake'
    <3>1. \A v \in Worker : Awake(v)' <=> Awake(v)
      BY <2>3, AwakeIsAwakeIn DEF Awake, AwakeIn, Alive, At
    <3> QED BY <1>0, <3>1 DEF OneAwake, WorkersInv
  <2>5. worker' \in [Worker -> WorkerState]
    BY <2>1, <2>3
  <2> QED BY <1>0, <2>2, <2>3, <2>4, <2>5 DEF WorkersInv
<1>4. CASE Register(w)
  BY <1>0, <1>2, <1>4 DEF Register, At, Alive, Holding
<1>5. CASE Die(w)
  BY <1>1, <1>5 DEF Die
<1>6. CASE Wake(w)
  BY <1>0, <1>1, <1>2, <1>6 DEF Wake, At, Alive, Holding
<1>7. CASE Reload(w)
  <2> DEFINE r == [worker[w] EXCEPT !.pc = "decide", !.copy = file[worker[w].sid],
                                    !.quiet = Quiet(worker[w].sid)]
  <2>1. /\ worker[w].pc = "reload" /\ worker[w].sid \in Sid
        /\ file[worker[w].sid] \in SessionRecord
    BY <1>0, <1>7 DEF Reload, At, WellInformed
  <2>2. Quiet(worker[w].sid) \in BOOLEAN
    BY DEF Quiet
  <2>3. /\ r \in WorkerState /\ r.pc = "decide" /\ r.sid = worker[w].sid
        /\ r.copy \in SessionRecord
    BY <1>0, <2>1, <2>2 DEF WorkerState
  <2>4. /\ worker' = [worker EXCEPT ![w] = r] /\ timer' = timer
        /\ due' \in Worker \cup {"none", "unread"}
    BY <1>0, <1>7 DEF Reload
  <2> HIDE DEF r
  <2>5. WellInformed(r) /\ Awake(w)
    BY <1>0, <2>1, <2>3 DEF WellInformed, Awake, Alive, At
  <2> QED BY <1>0, <2>3, <2>4, <2>5, GoesOn
<1>8. CASE Decide(w)
  <2>1. /\ At(w, "decide") /\ timer' = timer /\ due' \in {due, "none"}
        /\ Go(w, "signal") \/ Exits(w)
    BY <1>8 DEF Decide
  <2> QED BY <1>1, <1>2, <2>1, <1>0 DEF At, Alive, Awake, Holding
<1>9. CASE SignalClaude(w) \/ Grace(w) \/ Compact(w)
  <2>1. /\ worker[w].pc \in {"signal", "grace", "compact"}
        /\ timer' = timer /\ due' = due
        /\ Exits(w) \/ \E step \in {"grace", "compact", "mark"} : Go(w, step)
    BY <1>9 DEF SignalClaude, Grace, Compact, At
  <2> QED BY <1>0, <1>1, <1>2, <2>1 DEF At, Alive, Awake, Holding
<1>10. CASE MarkLoad(w)
  <2> DEFINE r == [worker[w] EXCEPT !.pc = "marked", !.copy = file[worker[w].sid]]
  <2>1. /\ worker[w].pc = "mark" /\ worker[w].sid \in Sid
        /\ file[worker[w].sid] \in SessionRecord
    BY <1>0, <1>10 DEF MarkLoad, At, WellInformed
  <2>2. /\ r \in WorkerState /\ r.pc = "marked" /\ r.sid = worker[w].sid
        /\ r.copy \in SessionRecord
    BY <1>0, <2>1 DEF WorkerState
  <2>3. worker' = [worker EXCEPT ![w] = r] /\ timer' = timer /\ due' = due
    BY <1>10 DEF MarkLoad
  <2> HIDE DEF r
  <2>4. WellInformed(r) /\ Awake(w)
    BY <1>0, <2>1, <2>2 DEF WellInformed, Awake, Alive, At
  <2> QED BY <1>0, <2>2, <2>3, <2>4, GoesOn
<1>11. CASE MarkSave(w)
  BY <1>1, <1>11 DEF MarkSave
<1> QED BY <1>3, <1>4, <1>5, <1>6, <1>7, <1>8, <1>9, <1>10, <1>11 DEF WorkerStep

\* A Stop starts at most one worker, which has not woken up.
LEMMA StopStep ==
  ASSUME CompactBase, StopWithWorker, proc # None => file'[proc.sid] # None,
         \A s \in Sid : file[s] # None => file'[s] # None
  PROVE  WorkersInv'
<1>0. WorkersInv /\ proc # None /\ proc.sid \in Sid /\ timer' = timer
  BY DEF CompactBase, PaneBase, PaneTypeOK, Process, StopWithWorker, StopHook, ShutdownStop, Running
<1>1. CASE UNCHANGED <<worker, due>>
  BY <1>0, <1>1 DEF WorkersInv, WellInformed, OneAwake, Awake, Alive, At
<1>2. ASSUME NEW w \in Worker, spawn_in_background(w), due' = "unread" PROVE WorkersInv'
  <2> DEFINE r == [NoWorker EXCEPT !.pc = "cancel", !.sid = proc.sid]
  <2>1. /\ r \in WorkerState /\ r.pc = "cancel" /\ r.sid = proc.sid
        /\ worker' = [worker EXCEPT ![w] = r]
    BY <1>0, <1>2 DEF NoWorker, WorkerState, spawn_in_background
  <2> HIDE DEF r
  <2>2. /\ worker' \in [Worker -> WorkerState] /\ worker'[w] = r
        /\ \A v \in Worker \ {w} : worker'[v] = worker[v]
    BY <1>0, <2>1 DEF WorkersInv
  <2>3. \A v \in Worker : WellInformed(worker[v])'
    BY <1>0, <2>1, <2>2 DEF WorkersInv, WellInformed, Holding
  <2>4. OneAwake'
    <3>1. \A v \in Worker : Awake(v)' <=> AwakeIn(worker'[v])
      BY DEF Awake, AwakeIn, Alive, At
    <3>2. \A v \in Worker : Awake(v)' => Awake(v)
      BY <2>1, <2>2, <3>1, AwakeIsAwakeIn DEF AwakeIn
    <3> QED BY <1>0, <3>2 DEF OneAwake, WorkersInv
  <2> QED BY <1>0, <1>2, <2>1, <2>2, <2>3, <2>4 DEF WorkersInv
<1> QED BY <1>1, <1>2 DEF StopWithWorker

-----------------------------------------------------------------------------
(* The pane *)

\* Which of the steps are steps of the pane, and what is left.
LEMMA PaneOrMark ==
  ASSUME PaneTypeOK, [CompactNext]_allVars
  PROVE  [Next]_paneVars \/ \E w \in Worker : MarkSave(w)
<1>1. CASE (UserAround \/ TurnStep \/ ExitStep) /\ UNCHANGED compactVars
  BY <1>1 DEF UserAround, Next, PaneNext, AgentStep
<1>2. CASE StopWithWorker
  BY <1>2 DEF StopWithWorker, Next, PaneNext, AgentStep
<1>3. ASSUME NEW w \in Worker, WorkerStep(w), ~MarkSave(w) PROVE [Next]_paneVars
  <2>1. CASE SignalClaude(w)
    <3>1. CASE proc = None
      BY <2>1, <3>1 DEF SignalClaude, paneVars
    <3>2. CASE proc # None
      <4>1. proc.pid \in Pid
        BY <3>2 DEF PaneTypeOK, Process
      <4> QED BY <2>1, <3>2, <4>1 DEF SignalClaude, Signal, Next
    <3> QED BY <3>1, <3>2
  <2>2. CASE ~SignalClaude(w)
    BY <1>3, <2>2 DEF WorkerStep, Cancel, Register, Die, Wake, Reload, Decide, Grace, Compact, MarkLoad
  <2> QED BY <2>1, <2>2
<1>4. CASE UNCHANGED allVars
  BY <1>4 DEF allVars
<1> QED BY <1>1, <1>2, <1>3, <1>4 DEF CompactNext

\* A step of the pane itself.
LEMMA PaneStep ==
  ASSUME PaneBase, [Next]_paneVars
  PROVE  PaneBase' /\ \A s \in Sid : file[s] # None => file'[s] # None
<1>1. file' \in [Sid -> SessionDoc] /\ StoppedMeansNoPendingWork'
  BY DocumentsPreserved DEF PaneBase
<1>2. proc' # None => Sound(proc')
  BY ProcessPreserved DEF PaneBase
<1>3. /\ ending' \in [Sid -> EndingHook] /\ EndingInv'
      /\ typed' \in BOOLEAN /\ remembered' \in SUBSET Pid
  BY EndingPreserved DEF PaneBase
<1>4. PaneTypeOK' /\ ProcInv'
  BY <1>1, <1>2, <1>3 DEF PaneTypeOK, ProcInv, Sound, SessionDoc
<1> QED BY <1>1, <1>3, <1>4, DocumentStays DEF PaneBase

\* A worker that pauses its session saves a document that mentions whatever it
\* has read some time ago.
LEMMA MarkStep ==
  ASSUME CompactBase, NEW w \in Worker, MarkSave(w)
  PROVE  /\ PaneBase' /\ \A s \in Sid : file[s] # None => file'[s] # None
         /\ UNCHANGED <<proc, ending, typed, remembered>>
         /\ worker[w].sid \in Sid /\ file'[worker[w].sid] # None
         /\ file'[worker[w].sid].status = "Paused"
         /\ \A s \in Sid \ {worker[w].sid} : file'[s] = file[s]
<1> DEFINE at == worker[w].sid
           d == [worker[w].copy EXCEPT !.status = "Paused", !.age = 0]
<1>1. at \in Sid /\ worker[w].copy \in SessionRecord /\ file' = [file EXCEPT ![at] = d]
  <2>1. worker[w].pc = "marked" /\ WellInformed(worker[w])
    BY DEF MarkSave, At, CompactBase, WorkersInv
  <2>2. at \in Sid /\ worker[w].copy \in SessionRecord
    BY <2>1 DEF WellInformed, Holding
  <2> QED BY <2>2 DEF MarkSave
<1>2. d \in SessionRecord /\ d.status = "Paused" /\ d # None
  <2>1. 0 \in 0 .. TIMEOUT
    BY TimeoutAssumption
  <2>2. d \in SessionRecord /\ d.status = "Paused"
    BY <1>1, <2>1 DEF SessionRecord, Status
  <2> QED BY <2>2, NoneAssumption
<1>3. UNCHANGED <<proc, ending, typed, remembered>>
  BY DEF MarkSave
<1> HIDE DEF at, d
<1>4. /\ file' \in [Sid -> SessionRecord \cup {None}] /\ file'[at] = d
      /\ \A s \in Sid \ {at} : file'[s] = file[s]
  BY <1>1, <1>2 DEF CompactBase, PaneBase, PaneTypeOK
<1>5. PaneTypeOK' /\ EndingInv' /\ ProcInv'
  BY <1>3, <1>4 DEF CompactBase, PaneBase, PaneTypeOK, EndingInv, ProcInv
<1>6. StoppedMeansNoPendingWork'
  BY <1>2, <1>4 DEF CompactBase, PaneBase, StoppedMeansNoPendingWork
<1> QED BY <1>1, <1>2, <1>3, <1>4, <1>5, <1>6 DEF PaneBase, at

LEMMA CompactBaseStep == CompactBase /\ [CompactNext]_allVars => CompactBase'
<1> SUFFICES ASSUME CompactBase, [CompactNext]_allVars PROVE CompactBase'
  OBVIOUS
<1>1. PaneBase' /\ \A s \in Sid : file[s] # None => file'[s] # None
  BY PaneOrMark, PaneStep, MarkStep DEF CompactBase, PaneBase
<1>2. CASE UNCHANGED compactVars
  <2>1. timer' = timer /\ worker' = worker /\ due' = due
    BY <1>2 DEF compactVars
  <2>2. \A w \in Worker : WellInformed(worker[w])'
    BY <1>1, <2>1 DEF CompactBase, WorkersInv, WellInformed
  <2>3. OneAwake'
    BY <2>1 DEF CompactBase, WorkersInv, OneAwake, Awake, Alive, At
  <2> QED BY <1>1, <2>1, <2>2, <2>3 DEF CompactBase, WorkersInv
<1>3. CASE StopWithWorker
  <2>1. /\ PaneTypeOK /\ proc # None /\ Hook(StopEvent)
        /\ StopEvent \in HookInput /\ Doc \in SessionDoc
    BY <1>3, EventTyped DEF StopWithWorker, StopHook, ShutdownStop, Running, CompactBase, PaneBase,
       PaneTypeOK, SessionDoc, Doc
  <2>2. file'[proc.sid] = ApplyHook(Doc, StopEvent)
    BY <2>1, HookStep
  <2>3. file'[proc.sid] # None
    BY <2>1, <2>2, HookResult
  <2> QED BY <1>1, <1>3, <2>3, StopStep DEF CompactBase
<1>4. ASSUME NEW w \in Worker, WorkerStep(w) PROVE CompactBase'
  BY <1>1, <1>4, WorkersStep DEF CompactBase
<1>5. CASE UNCHANGED allVars
  BY <1>2, <1>5 DEF allVars, compactVars
<1> QED BY <1>2, <1>3, <1>4, <1>5 DEF CompactNext

-----------------------------------------------------------------------------
(* What the documents say *)

\* The rest of what the hooks keep true, a worker that pauses an idle claude
\* keeps true as well.
LEMMA DocumentsStep ==
  ASSUME CompactInv, [CompactNext]_allVars
  PROVE  DocInv' /\ PromptInv' /\ BusyShows'
<1>0. PaneInv /\ CompactBase /\ PaneTypeOK
  BY DEF CompactInv, CompactBase, PaneBase, PaneInv
<1>1. CASE [Next]_paneVars
  BY <1>0, <1>1, PaneInvStep, BusyPreserved DEF CompactInv, PaneInv
<1>2. ASSUME NEW w \in Worker, MarkSave(w) PROVE DocInv' /\ PromptInv' /\ BusyShows'
  <2>1. /\ proc' = proc /\ worker[w].sid \in Sid /\ file'[worker[w].sid] # None
        /\ file'[worker[w].sid].status = "Paused"
        /\ \A s \in Sid \ {worker[w].sid} : file'[s] = file[s]
    BY <1>0, <1>2, MarkStep
  <2>2. proc # None => proc \in Process /\ proc.sid \in Sid
    BY <1>0 DEF PaneTypeOK, Process
  <2>3. CASE proc # None /\ proc.sid = worker[w].sid
    <3>1. AtRest(proc)
      BY <1>2, <2>3 DEF CompactInv, IdleInv, Decided, Acting, MarkSave, At
    <3>2. Doc' # None /\ Doc'.status = "Paused"
      BY <2>1, <2>3 DEF Doc
    <3> QED BY <2>1, <2>3, <3>1, <3>2 DEF DocInv, PromptInv, BusyShows, AtRest
  <2>4. CASE proc # None /\ proc.sid # worker[w].sid
    <3>1. Doc' = Doc
      BY <2>1, <2>2, <2>4 DEF Doc
    <3> QED BY <2>1, <3>1 DEF CompactInv, DocInv, PromptInv, BusyShows
  <2>5. CASE proc = None
    BY <2>1, <2>5 DEF DocInv, PromptInv, BusyShows
  <2> QED BY <2>3, <2>4, <2>5
<1> QED BY <1>0, <1>1, <1>2, PaneOrMark

\* A worker decides to compact only over a document that looks idle, and left
\* alone the claude of that session stays idle until the worker has ended.
LEMMA IdleStep ==
  ASSUME ~UserMeanwhile, CompactInv, [CompactNext]_allVars
  PROVE  IdleInv'
<1>0. /\ PaneInv /\ CompactBase /\ PaneTypeOK /\ WorkersInv
      /\ \A w \in Worker : worker[w] \in WorkerState
  BY DEF CompactInv, CompactBase, PaneBase, PaneInv, WorkersInv
<1> DEFINE Rests == proc' # None =>
             /\ proc # None /\ proc'.sid = proc.sid
             /\ AtRest(proc) => AtRest(proc')
\* What was decided stays decided.
<1>1. ASSUME Rests, NEW v \in Worker, IdleInv, Decided(v)' => Decided(v),
             Decided(v) /\ Decided(v)' =>
               worker'[v].sid = worker[v].sid /\ worker'[v].quiet = worker[v].quiet
      PROVE  Decided(v)' => /\ worker'[v].quiet
                            /\ proc' # None /\ proc'.sid = worker'[v].sid => AtRest(proc')
  BY <1>1 DEF IdleInv
<1>2. IdleInv
  BY DEF CompactInv
<1>3. CASE UserAround /\ UNCHANGED compactVars
  <2>1. \A w \in Worker : ~Awake(w)
    BY <1>3 DEF UserAround
  <2>2. \A w \in Worker : ~Decided(w)'
    BY <1>3, <2>1 DEF compactVars, Awake, Alive, At, Decided, Acting
  <2> QED BY <2>2 DEF IdleInv
<1>4. CASE (TurnStep \/ ExitStep) /\ UNCHANGED compactVars
  <2>1. Rests
    BY <1>0, <1>4, RestKept DEF AgentStep
  <2>2. worker' = worker
    BY <1>4 DEF compactVars
  <2> QED BY <1>1, <1>2, <2>1, <2>2 DEF IdleInv, Decided, Acting, At
<1>5. CASE StopWithWorker
  <2>1. Rests
    BY <1>0, <1>5, RestKept DEF StopWithWorker, AgentStep
  <2>2. ASSUME NEW v \in Worker PROVE worker'[v] = worker[v] \/ worker'[v].pc = "cancel"
    BY <1>0, <1>5 DEF StopWithWorker, spawn_in_background, NoWorker, WorkersInv
  <2>3. ASSUME NEW v \in Worker
        PROVE  Decided(v)' => /\ Decided(v) /\ worker'[v] = worker[v]
    BY <2>2 DEF Decided, Acting, At
  <2> QED BY <1>1, <1>2, <2>1, <2>3 DEF IdleInv
<1>6. ASSUME NEW w \in Worker, WorkerStep(w) PROVE IdleInv'
  <2>1. Rests
    <3>1. CASE SignalClaude(w) /\ proc # None
      <4>1. proc.pid \in Pid /\ Signal(proc.pid)
        BY <1>0, <3>1 DEF PaneTypeOK, Process, SignalClaude, Signal
      <4> QED BY <1>0, <4>1, RestKept
    <3>2. CASE ~(SignalClaude(w) /\ proc # None)
      BY <1>6, <3>2 DEF WorkerStep, Cancel, Register, Die, Wake, Reload, Decide, SignalClaude, Grace,
                        Compact, MarkLoad, MarkSave, paneVars
    <3> QED BY <3>1, <3>2
  <2>2. ASSUME NEW v \in Worker, v # w
        PROVE  /\ Decided(v)' => Decided(v)
               /\ worker'[v].sid = worker[v].sid /\ worker'[v].quiet = worker[v].quiet
    <3>1. worker'[v] = worker[v] \/ worker'[v] = [worker[v] EXCEPT !.term = TRUE]
      BY <1>0, <1>6, <2>2 DEF WorkersInv, WorkerStep, Cancel, Register, Die, Wake, Reload, Decide,
         SignalClaude, Grace, Compact, MarkLoad, MarkSave, Go, Exits
    <3>2. /\ worker'[v].pc = worker[v].pc /\ worker'[v].copy = worker[v].copy
          /\ worker'[v].sid = worker[v].sid /\ worker'[v].quiet = worker[v].quiet
      BY <1>0, <3>1 DEF WorkerState
    <3> QED BY <3>2 DEF Decided, Acting, At
  <2>3. Decided(w)' => /\ worker'[w].quiet
                       /\ proc' # None /\ proc'.sid = worker'[w].sid => AtRest(proc')
    <3>1. CASE Reload(w)
      <4>1. /\ worker'[w].pc = "decide" /\ worker'[w].copy = file[worker[w].sid]
            /\ worker'[w].sid = worker[w].sid /\ worker'[w].quiet = Quiet(worker[w].sid)
            /\ proc' = proc /\ worker[w].sid \in Sid /\ file[worker[w].sid] # None
        BY <1>0, <3>1 DEF Reload, WorkersInv, WorkerState, WellInformed, At, paneVars
      <4>2. Decided(w)' => file[worker[w].sid].status = "Stopped"
        BY <4>1 DEF Decided, Acting, At, decide_compact
      <4>3. Decided(w)' /\ proc # None /\ proc.sid = worker[w].sid => AtRest(proc)
        BY <1>0, <4>1, <4>2, StoppedIsAtRest DEF CompactInv, Doc
      <4> QED BY <4>1, <4>3 DEF Quiet, AtRest
    <3>2. CASE ~Reload(w)
      <4>1. Decided(w)' => /\ Decided(w)
                           /\ worker'[w].sid = worker[w].sid
                           /\ worker'[w].quiet = worker[w].quiet
        <5>1. CASE \/ Cancel(w) \/ Register(w) \/ Die(w) \/ Wake(w)
          BY <1>0, <5>1 DEF Cancel, Register, Die, Wake, Go, Exits, NoWorker, Decided, Acting, At,
                            WorkersInv, WorkerState
        <5>2. CASE Decide(w)
          BY <1>0, <5>2 DEF Decide, Go, Exits, NoWorker, Decided, Acting, At, WorkersInv, WorkerState
        <5>3. CASE SignalClaude(w) \/ Grace(w) \/ Compact(w) \/ MarkLoad(w) \/ MarkSave(w)
          BY <1>0, <5>3 DEF SignalClaude, Grace, Compact, MarkLoad, MarkSave, Go, Exits, NoWorker,
                            Decided, Acting, At, WorkersInv, WorkerState
        <5> QED BY <1>6, <3>2, <5>1, <5>2, <5>3 DEF WorkerStep
      <4> QED BY <1>1, <1>2, <2>1, <4>1
    <3> QED BY <3>1, <3>2
  <2>4. \A v \in Worker \ {w} : Decided(v)' =>
          /\ worker'[v].quiet
          /\ proc' # None /\ proc'.sid = worker'[v].sid => AtRest(proc')
    BY <1>1, <1>2, <2>1, <2>2
  <2> QED BY <2>3, <2>4 DEF IdleInv
<1>7. CASE UNCHANGED allVars
  BY <1>2, <1>7 DEF allVars, compactVars, paneVars, IdleInv, Decided, Acting, At
<1> QED BY <1>3, <1>4, <1>5, <1>6, <1>7 DEF CompactNext

-----------------------------------------------------------------------------
(* The theorems *)

LEMMA CompactBaseAlways == CompactSpec => []CompactBase
<1>1. CompactInit => CompactBase
  BY DEF CompactInit, PaneInit, CompactBase, PaneBase, PaneTypeOK, EndingHook, NoHook, EndingInv, ProcInv,
         StoppedMeansNoPendingWork, WorkersInv, WorkerState, NoWorker, WellInformed, OneAwake,
         Awake, Alive, At
<1> QED BY <1>1, CompactBaseStep, PTL DEF CompactSpec

LEMMA CompactInvAlways == ~UserMeanwhile => (CompactSpec => []CompactInv)
<1> SUFFICES ASSUME ~UserMeanwhile PROVE CompactSpec => []CompactInv
  OBVIOUS
<1>1. CompactInit => CompactInv
  <2>1. CompactInit => CompactBase
    BY DEF CompactInit, PaneInit, CompactBase, PaneBase, PaneTypeOK, EndingHook, NoHook, EndingInv, ProcInv,
           StoppedMeansNoPendingWork, WorkersInv, WorkerState, NoWorker, WellInformed, OneAwake,
           Awake, Alive, At
  <2>2. CompactInit => DocInv /\ PromptInv /\ BusyShows /\ IdleInv
    BY DEF CompactInit, PaneInit, DocInv, PromptInv, BusyShows, IdleInv, Decided, Acting, NoWorker, At
  <2> QED BY <2>1, <2>2 DEF CompactInv
<1>2. CompactInv /\ [CompactNext]_allVars => CompactInv'
  BY CompactBaseStep, DocumentsStep, IdleStep DEF CompactInv
<1> QED BY <1>1, <1>2, PTL DEF CompactSpec

\* The workers, the option and the documents stay well-formed, however the
\* workers cancel each other and whatever the user does meanwhile.
THEOREM CompactTypeCorrect == CompactSpec => []CompactTypeOK
<1>1. CompactBase => CompactTypeOK
  BY DEF CompactBase, PaneBase, WorkersInv, CompactTypeOK
<1> QED BY <1>1, CompactBaseAlways, PTL

\* schedule.rs:148-151: however many Stops start a worker, and whether the
\* cancellations arrive or not, no two of them compact at the same time.
THEOREM OneWorkerCompacts == CompactSpec => []OneCompactor
<1>1. CompactBase => OneCompactor
  BY DEF CompactBase, WorkersInv, OneAwake, OneCompactor, Acting, Awake, Alive, At
<1> QED BY <1>1, CompactBaseAlways, PTL

\* decision.rs:27-46: a worker signals a claude only if it was idle when the
\* worker read its document.
THEOREM CompactionSparesWork == ~UserMeanwhile => (CompactSpec => []CompactsOnlyIdle)
<1>1. CompactInv => CompactsOnlyIdle
  BY DEF CompactInv, IdleInv, Decided, Acting, At, CompactsOnlyIdle
<1> QED BY <1>1, CompactInvAlways, PTL

\* The copy that a worker saves as Paused hides no prompt and no background
\* work from whoever reads the documents next.
THEOREM CompactionKeepsTheDocument ==
  ~UserMeanwhile => (CompactSpec => [](PromptIsShown /\ WorkIsProtected))
<1>1. CompactInv => PaneInv
  BY DEF CompactInv, CompactBase, PaneBase, PaneInv
<1> QED BY <1>1, PaneInvShows, CompactInvAlways, PTL
=============================================================================
