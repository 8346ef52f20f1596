---------------------------- MODULE AtomicStore ----------------------------
(***************************************************************************)
(* What the session store of `a cc` promises its callers for one session   *)
(* file, as long as nobody deletes it: an update of the document is one    *)
(* atomic read-modify-write, it takes effect at most once between the call *)
(* and its return, and a call that fails has had no effect.                *)
(*                                                                         *)
(* The document is the set of the updates it contains: each process marks  *)
(* the document with its own name, which is all that is needed to tell     *)
(* whether one process wrote over the update of another.                   *)
(***************************************************************************)
CONSTANTS Proc,  \* processes that use the store
          None   \* no document

VARIABLES session,  \* the document, or None
          phase     \* how far each process has come in its current call

avars == <<session, phase>>

Updates(s) == IF s = None THEN {} ELSE s

Init == /\ session = None
        /\ phase = [p \in Proc |-> "idle"]

Invoke(p) == /\ phase[p] = "idle"
             /\ phase' = [phase EXCEPT ![p] = "called"]
             /\ UNCHANGED session

\* The one step of the call that changes the document.
Apply(p) == /\ phase[p] = "called"
            /\ session' = Updates(session) \cup {p}
            /\ phase' = [phase EXCEPT ![p] = "applied"]

\* Success, an error or the death of the caller.
Return(p) == /\ phase[p] # "idle"
             /\ phase' = [phase EXCEPT ![p] = "idle"]
             /\ UNCHANGED session

Next == \E p \in Proc : Invoke(p) \/ Apply(p) \/ Return(p)

Spec == Init /\ [][Next]_avars
=============================================================================
