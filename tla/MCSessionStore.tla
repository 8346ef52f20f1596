--------------------------- MODULE MCSessionStore ---------------------------
(* Small instances of SessionStore for TLC. *)
EXTENDS SessionStore, TLC

\* Hooks, the TUI and the readers: nobody saves a stale copy, deletes or
\* cleans up.
CooperatingOps == [p \in Proc |-> {"update", "field", "load"}]
CooperatingNext == \E p \in Proc :
  \/ BeginUpdate(p) \/ \E o \in {"field", "load"} : BeginIfExists(p, o)
  \/ OpenLock(p) \/ TryLockOk(p) \/ TryLockRetry(p) \/ LockTimeout(p)
  \/ ReadForUpdate(p) \/ ReadForField(p) \/ ReadForLoad(p)
  \/ CreateTmp(p) \/ WriteTmp(p) \/ RenameTmp(p) \/ Drop(p) \/ Dies(p)
CooperatingSpec == StoreInit /\ [][CooperatingNext]_storeVars

\* Processes with the same operations are interchangeable, and so are inodes,
\* in the specification and in every safety property.
Symmetry == {f @@ g : f \in Permutations(Proc), g \in Permutations(DataInode)}
=============================================================================
