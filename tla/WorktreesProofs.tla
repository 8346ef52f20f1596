--------------------------- MODULE WorktreesProofs ---------------------------
(***************************************************************************)
(* Theorems about Worktrees, for any number of worktrees, branches,        *)
(* sessions, windows and commands of every kind running at the same time.  *)
(*                                                                         *)
(* JobsInv is what a command knows whatever the users do. SparesInv and    *)
(* CaresInv are what it knows, and what it will do, as long as nobody acts *)
(* in a worktree that a command has in hand.                               *)
(***************************************************************************)
EXTENDS Worktrees, TLAPS

\* The commands that have a worktree in hand.
HasTree(r) == \/ r.pc \notin {"idle", "judge", "confirm", "next"}
              \/ r.pc = "judge" /\ r.kind = "delete"

\* What one command, with the record r, knows of the worktrees co: the one it
\* removed is gone until another command makes it anew, and what `a cc new` has
\* to undo is what it did to the branch it found.
Sound(r, co) ==
  /\ HasTree(r) => r.tree \in Tree
  /\ r.pc \in {"add", "hook", "undo"} => r.branch \in Branch
  /\ r.pc \in {"branch", "list", "sessions"} => co[r.tree] = None \/ r.again
  /\ r.pc \in {"hook", "undo"} =>
       /\ r.undo = "delete" => r.found = None
       /\ r.undo = "restore" => r.restoreTip = r.found

JobsInv == WorktreeTypeOK /\ \A j \in Job : Sound(job[j], checkout)

\* A command with the record r that may remove the worktree of the session s,
\* whose document is d: for `wm clean` the session is not at work, and of a merge
\* its delegator has been told.
AtWork(d) == d # None /\ d.status \in {"Running", "Stopped"}
Spares(r, s, d, isTold) ==
  /\ r.kind = "clean"
     /\ \/ Home[s] \in r.todo
        \/ Home[s] = r.tree /\ r.pc \in {"notify", "look", "remove"}
     => ~AtWork(d)
  /\ r.pc \in {"look", "remove"} /\ r.tree \in r.merged /\ Home[s] = r.tree /\ d # None
     => isTold

\* The detached clean takes one worktree, and asks about its merge once.
Once(r) == r.kind = "detached" =>
             \/ r.todo = {} /\ (r.pc = "notify" => r.merged = {})
             \/ r.pc = "next" /\ r.merged = {} /\ \E w \in Tree : r.todo = {w}

SparesInv == /\ \A j \in Job, s \in Session : Spares(job[j], s, doc[s], s \in told)
             /\ \A j \in Job : Once(job[j])

\* A session whose worktree is gone, or may be taken back by the `cc new` that
\* made it.
Loose(s) ==
  /\ doc[s] # None /\ doc[s].status # "Ended" /\ Home[s] \notin astray
  /\ \/ checkout[Home[s]] = None
     \/ \E i \in Job : job[i].pc = "hook" /\ job[i].tree = Home[s]
\* A command with the record r that is going to clean it up.
Cares(r, s) == /\ r.tree = Home[s]
               /\ \/ r.pc \in {"branch", "list"}
                  \/ r.pc = "sessions" /\ r.copy[s] # None

CaresInv == \A s \in Session : Loose(s) => \E j \in Job : Cares(job[j], s)

-----------------------------------------------------------------------------
\* A step of one command: its new record has its type and is sound, and the
\* worktrees and the other commands stay as they are.
LEMMA OneJob ==
  ASSUME JobsInv, NEW j \in Job, NEW n \in JobRecord, job' = [job EXCEPT ![j] = n],
         Sound(n, checkout), UNCHANGED <<checkout, pr, window>>,
         tip' \in [Branch -> (0..MaxTip) \cup {None}], doc' \in [Session -> Document \cup {None}],
         claude' \in [Session -> Process \cup {None}],
         told' \subseteq Session, astray' \subseteq Tree
  PROVE  JobsInv'
BY DEF JobsInv, WorktreeTypeOK

\* A step of everyone else leaves the commands as they are.
LEMMA NoJobStep ==
  ASSUME JobsInv, UNCHANGED <<checkout, job>>,
         tip' \in [Branch -> (0..MaxTip) \cup {None}],
         pr' \in [Branch -> {"open", "merged", "closed"}],
         window' \in [Window -> Tree \cup {None}],
         doc' \in [Session -> Document \cup {None}],
         claude' \in [Session -> Process \cup {None}],
         told' \subseteq Session, astray' \subseteq Tree
  PROVE  JobsInv'
BY DEF JobsInv, WorktreeTypeOK

\* A worktree that is skipped is no longer in hand.
LEMMA Skipped ==
  ASSUME JobsInv, NEW j \in Job, Skip(j)
  PROVE  \E n \in JobRecord : /\ n.pc = "next" /\ n.tree = None /\ n.todo = job[j].todo
                              /\ n.kind = job[j].kind
                              /\ job' = [job EXCEPT ![j] = n]
<1> DEFINE skipped(r, c) == [r EXCEPT !.pc = "next", !.tree = None, !.branch = None,
                                      !.windows = {}, !.copy = c, !.again = FALSE]
<1>1. ASSUME NEW r \in JobRecord, NEW c \in [Session -> Document \cup {None}]
      PROVE  LET n == skipped(r, c)
             IN  /\ n \in JobRecord /\ n.pc = "next" /\ n.tree = None
                 /\ n.todo = r.todo /\ n.kind = r.kind
  BY DEF JobRecord
<1>2. job[j] \in JobRecord /\ NoCopy \in [Session -> Document \cup {None}]
  BY DEF JobsInv, WorktreeTypeOK, NoCopy
<1>3. job' = [job EXCEPT ![j] = skipped(job[j], NoCopy)]
  BY DEF Skip
<1> HIDE DEF skipped
<1> QED BY <1>1, <1>2, <1>3

\* The steps of the commands that only read what is there.
LEMMA ReadingStep ==
  ASSUME JobsInv, NEW j \in Job,
         \/ Call(j) \/ JudgeClean(j) \/ JudgeDelete(j) \/ Cancel(j) \/ NextTree(j) \/ Notify(j) \/ Look(j)
  PROVE  /\ \E n \in JobRecord : Sound(n, checkout) /\ job' = [job EXCEPT ![j] = n]
         /\ UNCHANGED <<gitVars, sessionVars, astray>> /\ told' \subseteq Session
<1> USE DEF JobsInv, WorktreeTypeOK, gitVars, sessionVars, noted
<1>0. /\ job[j] \in JobRecord /\ Sound(job[j], checkout) /\ job \in [Job -> JobRecord]
      /\ None \notin Tree /\ DirOf \in [Branch -> Tree]
  BY WorktreeAssumption
<1>1. NoJob \in JobRecord /\ Sound(NoJob, checkout) /\ NoCopy \in [Session -> Document \cup {None}]
  BY DEF NoJob, NoCopy, JobRecord, Sound, HasTree
<1>2. CASE Clean(j)
  <2>1. PICK m \in Seat, kind \in {"clean", "forced"} :
          Begin(j, [NoJob EXCEPT !.kind = kind, !.pc = "judge", !.at = m])
    BY <1>2 DEF Clean
  <2> DEFINE n == [NoJob EXCEPT !.kind = kind, !.pc = "judge", !.at = m]
  <2>2. n \in JobRecord
    <3>1. m \in Window \cup {None}
      BY DEF Seat
    <3> QED BY <1>1, <3>1 DEF JobRecord, Cleaner
  <2>3. Sound(n, checkout)
    BY <1>1 DEF Sound, HasTree, NoJob
  <2> QED BY <2>1, <2>2, <2>3 DEF Begin
<1>3. CASE Delete(j)
  <2>1. PICK m \in Seat, w \in Tree :
          Begin(j, [NoJob EXCEPT !.kind = "delete", !.pc = "judge", !.at = m, !.tree = w])
    BY <1>3 DEF Delete
  <2> DEFINE n == [NoJob EXCEPT !.kind = "delete", !.pc = "judge", !.at = m, !.tree = w]
  <2>2. n \in JobRecord
    BY <1>1 DEF JobRecord, Seat, Cleaner
  <2>3. Sound(n, checkout)
    BY <1>1 DEF Sound, HasTree, NoJob
  <2> QED BY <2>1, <2>2, <2>3 DEF Begin
<1>4. CASE CleanPicked(j)
  <2>1. PICK kind \in {"detached", "tui"}, w \in Tree :
          Begin(j, [NoJob EXCEPT !.kind = kind, !.pc = "next", !.todo = {w}])
    BY <1>4 DEF CleanPicked
  <2> DEFINE n == [NoJob EXCEPT !.kind = kind, !.pc = "next", !.todo = {w}]
  <2>2. n \in JobRecord
    BY <1>1 DEF JobRecord, Cleaner
  <2>3. Sound(n, checkout)
    BY <1>1 DEF Sound, HasTree, NoJob
  <2> QED BY <2>1, <2>2, <2>3 DEF Begin
<1>5. CASE New(j)
  <2>1. PICK b \in Branch, w \in Tree :
          Begin(j, [NoJob EXCEPT !.kind = "new", !.pc = "add", !.tree = w, !.branch = b])
    BY <1>0, <1>5 DEF New
  <2> DEFINE n == [NoJob EXCEPT !.kind = "new", !.pc = "add", !.tree = w, !.branch = b]
  <2>2. n \in JobRecord
    BY <1>1 DEF JobRecord
  <2>3. Sound(n, checkout)
    BY <1>1 DEF Sound, HasTree, NoJob
  <2> QED BY <2>1, <2>2, <2>3 DEF Begin
<1>6. CASE JudgeClean(j)
  <2>1. PICK del \in SUBSET Tree :
          \/ Ends(j)
          \/ job' = [job EXCEPT ![j].pc = "confirm", ![j].todo = del,
                                ![j].merged = {w \in del : IsMerged(w)}]
    BY <1>6 DEF JudgeClean
  <2> DEFINE n == [job[j] EXCEPT !.pc = "confirm", !.todo = del, !.merged = {w \in del : IsMerged(w)}]
  <2>2. n \in JobRecord
    BY <1>0 DEF JobRecord
  <2>3. Sound(n, checkout)
    BY <1>0, <2>2 DEF Sound, HasTree, JobRecord
  <2>4. Ends(j) \/ job' = [job EXCEPT ![j] = n]
    BY <2>1
  <2> QED BY <1>1, <1>6, <2>2, <2>3, <2>4 DEF JudgeClean, Ends
<1>7. CASE JudgeDelete(j)
  <2>1. job[j].tree \in Tree
    BY <1>0, <1>7 DEF JudgeDelete, At, Sound, HasTree
  <2>2. PICK pc \in {"next", "confirm"}, merges \in SUBSET Tree :
          job' = [job EXCEPT ![j].pc = pc, ![j].tree = None, ![j].todo = {job[j].tree},
                             ![j].merged = merges]
    BY <1>7, <2>1 DEF JudgeDelete
  <2> DEFINE n == [job[j] EXCEPT !.pc = pc, !.tree = None, !.todo = {job[j].tree}, !.merged = merges]
  <2>3. n \in JobRecord /\ n.pc = pc
    BY <1>0, <2>1 DEF JobRecord
  <2>4. job' = [job EXCEPT ![j] = n]
    BY <2>2
  <2> HIDE DEF n
  <2>5. Sound(n, checkout)
    BY <2>3 DEF Sound, HasTree
  <2> QED BY <1>7, <2>3, <2>4, <2>5 DEF JudgeDelete
<1>8. CASE Cancel(j)
  BY <1>1, <1>8 DEF Cancel, Ends
<1>9. CASE NextTree(j)
  <2>1. CASE job[j].todo = {}
    BY <1>1, <1>9, <2>1 DEF NextTree, Ends
  <2>2. CASE job[j].todo # {}
    <3>1. PICK w \in job[j].todo, pc \in {"notify", "look"} :
            job' = [job EXCEPT ![j].tree = w, ![j].todo = @ \ {w}, ![j].pc = pc]
      BY <1>9, <2>2 DEF NextTree
    <3> DEFINE n == [job[j] EXCEPT !.tree = w, !.todo = @ \ {w}, !.pc = pc]
    <3>2. n \in JobRecord /\ n.pc = pc /\ n.tree \in Tree
      BY <1>0 DEF JobRecord
    <3>3. job' = [job EXCEPT ![j] = n]
      BY <3>1
    <3> HIDE DEF n
    <3>4. Sound(n, checkout)
      BY <3>2 DEF Sound, HasTree
    <3> QED BY <1>9, <3>2, <3>3, <3>4 DEF NextTree
  <2> QED BY <2>1, <2>2
<1>10. CASE Notify(j)
  <2>1. job[j].tree \in Tree
    BY <1>0, <1>10 DEF Notify, At, Sound, HasTree
  <2>2. PICK merges \in SUBSET Tree :
          job' = [job EXCEPT ![j].pc = "look", ![j].merged = merges]
    BY <1>0, <1>10, <2>1 DEF Notify, JobRecord
  <2> DEFINE n == [job[j] EXCEPT !.pc = "look", !.merged = merges]
  <2>3. n \in JobRecord /\ n.pc = "look" /\ n.tree \in Tree
    BY <1>0, <2>1 DEF JobRecord
  <2>4. job' = [job EXCEPT ![j] = n]
    BY <2>2
  <2> HIDE DEF n
  <2>5. Sound(n, checkout)
    BY <2>3 DEF Sound, HasTree
  <2>6. told' \subseteq Session
    BY <1>10 DEF Notify, find_delegate_sessions, In
  <2> QED BY <1>10, <2>3, <2>4, <2>5, <2>6 DEF Notify
<1>11. CASE Look(j)
  <2>1. job[j].tree \in Tree
    BY <1>0, <1>11 DEF Look, At, Sound, HasTree
  <2>2. CASE Skip(j)
    <3>1. PICK n \in JobRecord : n.pc = "next" /\ job' = [job EXCEPT ![j] = n]
      BY <2>2, Skipped
    <3>2. Sound(n, checkout)
      BY <3>1 DEF Sound, HasTree
    <3> QED BY <1>11, <3>1, <3>2 DEF Look
  <2>3. CASE ~Skip(j)
    <3> DEFINE ms == {m \in Window : window[m] = job[j].tree}
               b == checkout[job[j].tree]
               n == [job[j] EXCEPT !.pc = "remove", !.branch = b, !.windows = ms]
    <3>1. b \in Branch /\ ms \in SUBSET Window
      BY <1>11, <2>1, <2>3 DEF Look
    <3>2. job' = [job EXCEPT ![j] = n]
      BY <1>11, <2>3 DEF Look
    <3> HIDE DEF ms, b
    <3>3. n \in JobRecord /\ n.pc = "remove" /\ n.tree \in Tree
      BY <1>0, <2>1, <3>1 DEF JobRecord
    <3> HIDE DEF n
    <3>4. Sound(n, checkout)
      BY <3>3 DEF Sound, HasTree
    <3> QED BY <1>11, <3>2, <3>3, <3>4 DEF Look
  <2> QED BY <2>2, <2>3
<1> QED BY <1>2, <1>3, <1>4, <1>5, <1>6, <1>7, <1>8, <1>9, <1>10, <1>11 DEF Call

\* A removal leaves no worktree behind, and whoever makes it anew says so to the
\* commands that removed it.
LEMMA ActingStep ==
  ASSUME JobsInv, NEW j \in Job, Step(j),
         ~(JudgeClean(j) \/ JudgeDelete(j) \/ Cancel(j) \/ NextTree(j) \/ Notify(j) \/ Look(j))
  PROVE  JobsInv'
<1> USE DEF JobsInv, WorktreeTypeOK, gitVars, sessionVars, noted
<1>0. /\ job[j] \in JobRecord /\ Sound(job[j], checkout) /\ job \in [Job -> JobRecord]
      /\ None \notin Tree
  BY WorktreeAssumption
<1>1. NoJob \in JobRecord /\ \A co : Sound(NoJob, co)
  BY DEF NoJob, NoCopy, JobRecord, Sound, HasTree
<1>2. \A b : DeletedBranch(b) \in [Branch -> (0..MaxTip) \cup {None}]
  BY DEF DeletedBranch
<1>3. Ends(j) => NoJob \in JobRecord /\ Sound(NoJob, checkout) /\ job' = [job EXCEPT ![j] = NoJob]
  BY <1>1 DEF Ends
\* A worktree that goes is gone for everyone.
<1>4. ASSUME NEW n \in JobRecord, job' = [job EXCEPT ![j] = n], job[j].tree \in Tree,
             checkout' = [checkout EXCEPT ![job[j].tree] = None], Sound(n, checkout'),
             UNCHANGED <<tip, pr, window, doc, claude, told, astray>>
      PROVE  JobsInv'
  BY <1>0, <1>4 DEF Sound
<1>5. CASE RemoveWorktree(j)
  <2>1. job[j].tree \in Tree
    BY <1>0, <1>5 DEF RemoveWorktree, At, Sound, HasTree
  <2>2. CASE Skip(j) /\ UNCHANGED checkout
    <3>1. PICK n \in JobRecord : n.pc = "next" /\ job' = [job EXCEPT ![j] = n]
      BY <2>2, Skipped
    <3>2. Sound(n, checkout)
      BY <3>1 DEF Sound, HasTree
    <3> QED BY <1>5, <2>2, <3>1, <3>2, OneJob DEF RemoveWorktree
  <2>3. CASE checkout' = [checkout EXCEPT ![job[j].tree] = None] /\ Go(j, "branch")
    <3> DEFINE n == [job[j] EXCEPT !.pc = "branch"]
    <3>1. n \in JobRecord /\ n.pc = "branch" /\ n.tree = job[j].tree /\ job' = [job EXCEPT ![j] = n]
      BY <1>0, <2>3 DEF JobRecord, Go
    <3> HIDE DEF n
    <3>2. Sound(n, checkout')
      BY <2>1, <2>3, <3>1 DEF Sound, HasTree
    <3> QED BY <1>4, <1>5, <2>1, <2>3, <3>1, <3>2 DEF RemoveWorktree
  <2> QED BY <1>5, <2>2, <2>3 DEF RemoveWorktree
<1>6. CASE DeleteBranch(j)
  <2> DEFINE n == [job[j] EXCEPT !.pc = "list"]
  <2>1. /\ n \in JobRecord /\ n.pc = "list" /\ n.tree = job[j].tree /\ n.again = job[j].again
        /\ job' = [job EXCEPT ![j] = n] /\ job[j].pc = "branch"
    BY <1>0, <1>6 DEF DeleteBranch, JobRecord, Go, At
  <2> HIDE DEF n
  <2>2. Sound(n, checkout)
    BY <1>0, <2>1 DEF Sound, HasTree
  <2> QED BY <1>2, <1>6, <2>1, <2>2, OneJob DEF DeleteBranch
<1>7. CASE ListSessions(j)
  <2>1. job[j].tree \in Tree /\ job[j].pc = "list"
    BY <1>0, <1>7 DEF ListSessions, At, Sound, HasTree
  <2>2. PICK c \in [Session -> Document \cup {None}] :
          /\ job' = [job EXCEPT ![j].pc = "sessions", ![j].copy = c]
          /\ astray' \subseteq Tree
    <3> DEFINE listed == {s \in In(job[j].tree) : doc[s] # None /\ doc[s].status # "Ended"}
               d == [s \in Session |-> IF s \in listed THEN doc[s] ELSE None]
    <3>1. d \in [Session -> Document \cup {None}]
      OBVIOUS
    <3>2. CASE job' = [job EXCEPT ![j].pc = "sessions", ![j].copy = d] /\ UNCHANGED astray
      BY <3>1, <3>2
    <3>3. CASE Go(j, "sessions") /\ astray' = astray \cup {job[j].tree}
      <4>1. job[j].copy \in [Session -> Document \cup {None}]
        BY <1>0 DEF JobRecord
      <4>2. job' = [job EXCEPT ![j].pc = "sessions", ![j].copy = job[j].copy]
        BY <1>0, <3>3 DEF Go, JobRecord
      <4> QED BY <2>1, <3>3, <4>1, <4>2
    <3> QED BY <1>7, <3>2, <3>3 DEF ListSessions
  <2> DEFINE n == [job[j] EXCEPT !.pc = "sessions", !.copy = c]
  <2>3. n \in JobRecord /\ n.pc = "sessions" /\ n.tree = job[j].tree /\ n.again = job[j].again
    BY <1>0 DEF JobRecord
  <2>4. job' = [job EXCEPT ![j] = n]
    BY <2>2
  <2> HIDE DEF n
  <2>5. Sound(n, checkout)
    BY <1>0, <2>1, <2>3 DEF Sound, HasTree
  <2> QED BY <1>7, <2>2, <2>3, <2>4, <2>5, OneJob DEF ListSessions
<1>8. CASE CleanSession(j)
  <2>1. PICK s \in Session :
          /\ job' = [job EXCEPT ![j].copy[s] = None]
          /\ doc' = [doc EXCEPT ![s] = None] /\ told' = told \ {s}
    BY <1>8 DEF CleanSession
  <2> DEFINE c == [job[j].copy EXCEPT ![s] = None]
             n == [job[j] EXCEPT !.copy = c]
  <2>2. c \in [Session -> Document \cup {None}]
    BY <1>0 DEF JobRecord
  <2>3. job' = [job EXCEPT ![j] = n]
    BY <2>1
  <2> HIDE DEF c
  <2>4. /\ n \in JobRecord /\ n.pc = job[j].pc /\ n.kind = job[j].kind /\ n.tree = job[j].tree
        /\ n.again = job[j].again /\ job[j].pc = "sessions"
    BY <1>0, <1>8, <2>2 DEF JobRecord, CleanSession, At
  <2> HIDE DEF n
  <2>5. Sound(n, checkout)
    BY <1>0, <2>4 DEF Sound, HasTree
  <2>6. claude' \in [Session -> Process \cup {None}]
    <3>1. \A t \in Session : claude[t] # None => [claude[t] EXCEPT !.dying = TRUE] \in Process
      BY DEF Process
    <3> QED BY <1>8, <3>1 DEF CleanSession
  <2>7. doc' \in [Session -> Document \cup {None}] /\ told' \subseteq Session
    BY <2>1
  <2> QED BY <1>8, <2>3, <2>4, <2>5, <2>6, <2>7, OneJob DEF CleanSession
\* The commands in the windows that close are cut off where they are.
<1>9. ASSUME NEW ms \in SUBSET Window, Closed(ms)
      PROVE  /\ window' \in [Window -> Tree \cup {None}]
             /\ claude' \in [Session -> Process \cup {None}]
  <2>1. \A t \in Session : claude[t] # None => [claude[t] EXCEPT !.dying = TRUE] \in Process
    BY DEF Process
  <2> QED BY <1>9, <2>1 DEF Closed
<1>10. ASSUME NEW i \in Job, Removing(i) PROVE job[i].tree \in Tree
  BY <1>10 DEF Removing, Sound, HasTree
<1>11. CASE KillWindows(j)
  <2> DEFINE ms == job[j].windows
             cut == {i \in Job : KilledIn(ms, i)}
             done == IF j \in cut THEN NoJob
                     ELSE [job[j] EXCEPT !.pc = "next", !.tree = None, !.branch = None,
                                         !.windows = {}, !.again = FALSE]
  <2>1. /\ Closed(ms)
        /\ job' = [i \in Job |-> IF i = j THEN done ELSE IF i \in cut THEN NoJob ELSE job[i]]
        /\ astray' = astray \cup {job[i].tree : i \in {k \in cut \ {j} : Removing(k)}}
        /\ UNCHANGED <<gitVars, doc, told>>
    BY <1>11 DEF KillWindows
  <2>2. ms \in SUBSET Window
    BY <1>0 DEF JobRecord
  <2>3. astray' \subseteq Tree
    BY <1>10, <2>1
  <2>4. done \in JobRecord /\ done.pc \in {"idle", "next"}
    <3>1. LET n == [job[j] EXCEPT !.pc = "next", !.tree = None, !.branch = None,
                                  !.windows = {}, !.again = FALSE]
          IN  n \in JobRecord /\ n.pc = "next"
      BY <1>0 DEF JobRecord
    <3>2. NoJob.pc = "idle"
      BY DEF NoJob
    <3> QED BY <1>1, <3>1, <3>2
  <2> HIDE DEF done, cut, ms
  <2>5. Sound(done, checkout)
    BY <2>4 DEF Sound, HasTree
  <2>6. /\ job' \in [Job -> JobRecord]
        /\ \A i \in Job : Sound(job'[i], checkout)
    BY <1>0, <1>1, <2>1, <2>4, <2>5
  <2> QED BY <1>9, <2>1, <2>2, <2>3, <2>6
<1>12. CASE AddWorktree(j)
  <2>1. CASE Ends(j) /\ UNCHANGED <<checkout, tip, astray>>
    BY <1>3, <1>12, <2>1, OneJob DEF AddWorktree
  <2>2. CASE ~(Ends(j) /\ UNCHANGED <<checkout, tip, astray>>)
    <3> DEFINE w == job[j].tree
               b == job[j].branch
               other(i) == [job[i] EXCEPT !.again = @ \/ job[i].tree = w]
    <3>1. /\ w \in Tree /\ b \in Branch /\ tip[b] \in (0..MaxTip) \cup {None}
          /\ 0 \in 0..MaxTip /\ None \notin 0..MaxTip
      BY <1>0, <1>12, WorktreeAssumption DEF AddWorktree, At, Sound, HasTree
    <3>2. PICK u \in {"keep", "delete", "restore"}, rt \in {None, tip[b]}, at \in 0..MaxTip :
            /\ checkout' = [checkout EXCEPT ![w] = b]
            /\ tip' = [tip EXCEPT ![b] = at]
            /\ job' = [i \in Job |->
                 IF i = j THEN [job[j] EXCEPT !.pc = "hook", !.undo = u,
                                              !.restoreTip = rt, !.found = tip[b]]
                 ELSE other(i)]
            /\ u = "delete" => tip[b] = None
            /\ u = "restore" => rt = tip[b]
            /\ astray' \subseteq astray
      <4>1. CASE tip[b] # None
        BY <1>12, <2>2, <3>1, <4>1 DEF AddWorktree
      <4>2. CASE tip[b] = None
        BY <1>12, <2>2, <3>1, <4>2 DEF AddWorktree
      <4> QED BY <4>1, <4>2
    <3> DEFINE n == [job[j] EXCEPT !.pc = "hook", !.undo = u, !.restoreTip = rt, !.found = tip[b]]
    <3>3. /\ n \in JobRecord /\ n.pc = "hook" /\ n.tree = w /\ n.branch = b
          /\ n.undo = u /\ n.restoreTip = rt /\ n.found = tip[b]
      BY <1>0, <3>1 DEF JobRecord
    <3>4. \A i \in Job : other(i) \in JobRecord /\ Sound(other(i), checkout')
      <4> SUFFICES ASSUME NEW i \in Job PROVE other(i) \in JobRecord /\ Sound(other(i), checkout')
        OBVIOUS
      <4>1. job[i] \in JobRecord /\ Sound(job[i], checkout) /\ w \in Tree
        BY <3>1
      <4> DEFINE v == job[i].again \/ job[i].tree = w
      <4>2. ASSUME NEW r \in JobRecord, NEW x \in BOOLEAN
            PROVE  LET o == [r EXCEPT !.again = x]
                   IN  /\ o \in JobRecord /\ o.again = x
                       /\ o.pc = r.pc /\ o.kind = r.kind /\ o.tree = r.tree /\ o.branch = r.branch
                       /\ o.undo = r.undo /\ o.found = r.found /\ o.restoreTip = r.restoreTip
        BY DEF JobRecord
      <4>3. other(i) = [job[i] EXCEPT !.again = v] /\ v \in BOOLEAN
        BY <4>1 DEF JobRecord
      <4> HIDE DEF other
      <4>4. /\ other(i) \in JobRecord /\ other(i).again = v
            /\ other(i).pc = job[i].pc /\ other(i).kind = job[i].kind
            /\ other(i).tree = job[i].tree /\ other(i).branch = job[i].branch
            /\ other(i).undo = job[i].undo /\ other(i).found = job[i].found
            /\ other(i).restoreTip = job[i].restoreTip
        <5> DEFINE o(r, x) == [r EXCEPT !.again = x]
        <5>1. /\ o(job[i], v) \in JobRecord /\ o(job[i], v).again = v
              /\ o(job[i], v).pc = job[i].pc /\ o(job[i], v).kind = job[i].kind
              /\ o(job[i], v).tree = job[i].tree /\ o(job[i], v).branch = job[i].branch
              /\ o(job[i], v).undo = job[i].undo /\ o(job[i], v).found = job[i].found
              /\ o(job[i], v).restoreTip = job[i].restoreTip
          <6> HIDE DEF v
          <6> QED BY <4>1, <4>2, <4>3
        <5>2. other(i) = o(job[i], v)
          BY <4>3
        <5> HIDE DEF o, v
        <5> QED BY <5>1, <5>2
      <4>5. job[i].tree \in Tree => v \/ checkout'[job[i].tree] = checkout[job[i].tree]
        BY <3>2
      <4>6. job[i].again => v
        OBVIOUS
      <4> HIDE DEF v
      <4> QED BY <4>1, <4>4, <4>5, <4>6 DEF Sound, HasTree
    <3> HIDE DEF n, other
    <3>5. Sound(n, checkout')
      BY <3>1, <3>2, <3>3 DEF Sound, HasTree
    <3>6. \A i \in Job : job'[i] \in JobRecord /\ Sound(job'[i], checkout')
      BY <3>2, <3>3, <3>4, <3>5 DEF n
    <3>7. job' \in [Job -> JobRecord]
      BY <3>2, <3>6
    <3>8. checkout' \in [Tree -> Branch \cup {None}] /\ tip' \in [Branch -> (0..MaxTip) \cup {None}]
      BY <3>1, <3>2
    <3> QED BY <1>12, <3>2, <3>6, <3>7, <3>8 DEF AddWorktree
  <2> QED BY <2>1, <2>2
<1>13. CASE RollbackWorktree(j)
  <2>1. /\ job[j].tree \in Tree /\ job[j].pc = "hook"
        /\ UNCHANGED <<tip, pr, window, doc, claude, told, astray>>
    BY <1>0, <1>13 DEF RollbackWorktree, At, Sound, HasTree
  <2>2. CASE Ends(j) /\ UNCHANGED checkout
    BY <1>3, <2>1, <2>2, OneJob
  <2>3. CASE checkout' = [checkout EXCEPT ![job[j].tree] = None] /\ Go(j, "undo")
    <3> DEFINE n == [job[j] EXCEPT !.pc = "undo"]
    <3>1. /\ n \in JobRecord /\ n.pc = "undo" /\ n.tree = job[j].tree /\ n.branch = job[j].branch
          /\ n.undo = job[j].undo /\ n.found = job[j].found /\ n.restoreTip = job[j].restoreTip
          /\ job' = [job EXCEPT ![j] = n]
      BY <1>0, <2>3 DEF JobRecord, Go
    <3> HIDE DEF n
    <3>2. Sound(n, checkout')
      BY <1>0, <2>1, <3>1 DEF Sound, HasTree
    <3> QED BY <1>4, <2>1, <2>3, <3>1, <3>2
  <2> QED BY <1>13, <2>2, <2>3 DEF RollbackWorktree
<1>14. CASE RollbackBranch(j)
  <2>1. job[j].restoreTip \in (0..MaxTip) \cup {None} /\ job[j].undo \in {"keep", "delete", "restore"}
    BY <1>0 DEF JobRecord
  <2>2. tip' \in [Branch -> (0..MaxTip) \cup {None}]
    BY <1>2, <1>14, <2>1 DEF RollbackBranch
  <2> QED BY <1>3, <1>14, <2>2, OneJob DEF RollbackBranch
<1>15. CASE OpenWindow(j)
  <2>1. job[j].tree \in Tree
    BY <1>0, <1>15 DEF OpenWindow, At, Sound, HasTree
  <2>2. window' \in [Window -> Tree \cup {None}]
    BY <1>15, <2>1 DEF OpenWindow
  <2> QED BY <1>3, <1>15, <2>2 DEF OpenWindow
<1> QED BY <1>5, <1>6, <1>7, <1>8, <1>11, <1>12, <1>13, <1>14, <1>15 DEF Step

LEMMA JobsInvStep == JobsInv /\ [Next]_vars => JobsInv'
<1> SUFFICES ASSUME JobsInv, [Next]_vars PROVE JobsInv'
  OBVIOUS
<1> USE DEF gitVars, sessionVars, noted
<1>0. WorktreeTypeOK /\ Home \in [Session -> Tree]
  BY WorktreeAssumption DEF JobsInv
<1>1. CASE UNCHANGED vars
  BY <1>0, <1>1, NoJobStep DEF vars, WorktreeTypeOK
<1>2. ASSUME NEW j \in Job, Call(j) \/ Step(j) PROVE JobsInv'
  <2>1. CASE \/ Call(j) \/ JudgeClean(j) \/ JudgeDelete(j) \/ Cancel(j)
             \/ NextTree(j) \/ Notify(j) \/ Look(j)
    BY <1>0, <2>1, ReadingStep, OneJob DEF WorktreeTypeOK
  <2> QED BY <1>2, <2>1, ActingStep
<1>3. ASSUME NEW s \in Session, Start(s) \/ Lives(s) \/ Straggles(s) \/ Dies(s) \/ RemoveStale(s)
      PROVE  JobsInv'
  <2> USE DEF WorktreeTypeOK
  <2>0. \A d \in Document : \A st \in {"Running", "Stopped", "Idle", "Paused", "Ended"} :
          [d EXCEPT !.status = st] \in Document
    BY DEF Document
  <2>1. CASE Start(s)
    <3>1. PICK m \in Window : /\ claude' = [claude EXCEPT ![s] = [pane |-> m, dying |-> FALSE]]
                              /\ doc' = [doc EXCEPT ![s] = [status |-> "Running", pane |-> m]]
      BY <2>1 DEF Start
    <3>2. [pane |-> m, dying |-> FALSE] \in Process /\ [status |-> "Running", pane |-> m] \in Document
      BY DEF Process, Document
    <3> QED BY <1>0, <2>1, <3>1, <3>2, NoJobStep DEF Start
  <2>2. CASE Lives(s)
    <3>1. doc[s] \in Document
      BY <1>0, <2>2 DEF Lives
    <3>2. PICK d \in Document : doc' = [doc EXCEPT ![s] = d]
      BY <1>0, <2>0, <2>2, <3>1 DEF Lives
    <3>3. claude' \in [Session -> Process \cup {None}]
      BY <1>0, <2>2 DEF Lives
    <3> QED BY <1>0, <2>2, <3>2, <3>3, NoJobStep DEF Lives
  <2>3. CASE Straggles(s)
    <3>1. claude[s] \in Process
      BY <1>0, <2>3 DEF Straggles
    <3>2. PICK d \in Document : doc' = [doc EXCEPT ![s] = d]
      <4> DEFINE d == [status |-> "Running",
                       pane |-> IF window[claude[s].pane] = None THEN None ELSE claude[s].pane]
      <4>1. d \in Document
        BY <3>1 DEF Document, Process
      <4> QED BY <2>3, <4>1 DEF Straggles
    <3>3. astray' \subseteq Tree
      BY <1>0, <2>3 DEF Straggles
    <3> QED BY <1>0, <2>3, <3>2, <3>3, NoJobStep DEF Straggles
  <2>4. CASE Dies(s)
    <3>1. doc' \in [Session -> Document \cup {None}]
      BY <1>0, <2>0, <2>4 DEF Dies
    <3> QED BY <1>0, <2>4, <3>1, NoJobStep DEF Dies
  <2>5. CASE RemoveStale(s)
    BY <1>0, <2>5, NoJobStep DEF RemoveStale
  <2> QED BY <1>3, <2>1, <2>2, <2>3, <2>4, <2>5
<1>4. ASSUME NEW m \in Window, CloseWindow(m) PROVE JobsInv'
  <2> DEFINE cut == {j \in Job : KilledIn({m}, j)}
  <2>1. /\ Closed({m}) /\ UNCHANGED <<gitVars, doc, told>>
        /\ job' = [j \in Job |-> IF j \in cut THEN NoJob ELSE job[j]]
        /\ astray' = astray \cup {job[j].tree : j \in {i \in cut : Removing(i)}}
    BY <1>4 DEF CloseWindow
  <2>2. /\ window' \in [Window -> Tree \cup {None}]
        /\ claude' \in [Session -> Process \cup {None}]
    <3>1. \A t \in Session : claude[t] # None => [claude[t] EXCEPT !.dying = TRUE] \in Process
      BY <1>0 DEF Process, WorktreeTypeOK
    <3> QED BY <1>0, <2>1, <3>1 DEF Closed, WorktreeTypeOK
  <2>3. NoJob \in JobRecord /\ Sound(NoJob, checkout)
    BY DEF NoJob, NoCopy, JobRecord, Sound, HasTree
  <2>4. job' \in [Job -> JobRecord] /\ \A j \in Job : Sound(job'[j], checkout)
    BY <1>0, <2>1, <2>3 DEF JobsInv, WorktreeTypeOK
  <2>5. astray' \subseteq Tree
    <3>1. \A j \in Job : Removing(j) => job[j].tree \in Tree
      BY DEF JobsInv, Removing, Sound, HasTree
    <3> QED BY <1>0, <2>1, <3>1 DEF WorktreeTypeOK
  <2> QED BY <1>0, <2>1, <2>2, <2>4, <2>5 DEF JobsInv, WorktreeTypeOK
<1>5. ASSUME NEW b \in Branch, Work(b) PROVE JobsInv'
  <2>1. tip' \in [Branch -> (0..MaxTip) \cup {None}]
    <3>1. tip[b] \in 0..MaxTip /\ MaxTip \in Nat
      BY <1>0, <1>5, WorktreeAssumption DEF Work, WorktreeTypeOK
    <3>2. tip[b] < MaxTip => tip[b] + 1 \in 0..MaxTip
      BY <3>1
    <3> QED BY <1>0, <1>5, <3>2 DEF Work, WorktreeTypeOK
  <2>2. pr' \in [Branch -> {"open", "merged", "closed"}]
    BY <1>0, <1>5 DEF Work, WorktreeTypeOK
  <2> QED BY <1>0, <1>5, <2>1, <2>2, NoJobStep DEF Work, WorktreeTypeOK
<1> QED BY <1>1, <1>2, <1>3, <1>4, <1>5 DEF Next, Others

THEOREM JobsInvAlways == Spec => []JobsInv
<1>1. Init => JobsInv
  <2>1. NoJob \in JobRecord /\ \A co : Sound(NoJob, co)
    BY DEF NoJob, NoCopy, JobRecord, Sound, HasTree
  <2> QED BY <2>1 DEF Init, JobsInv, WorktreeTypeOK, NoCopy
<1> QED BY <1>1, JobsInvStep, PTL DEF Spec

\* Whatever else happens, the sessions and the windows of a worktree are left
\* alone until git has removed it (cleanup.rs:78).
THEOREM NothingIsHalfRemoved == Spec => NothingHalfRemoved
<1>1. JobsInv /\ [Next]_vars => [\A j \in Job : CleanSession(j) \/ KillWindows(j)
        => checkout[job[j].tree] = None \/ job[j].again]_vars
  BY DEF JobsInv, Sound, CleanSession, KillWindows, At
<1> QED BY <1>1, JobsInvAlways, PTL DEF Spec, NothingHalfRemoved

\* A `cc new` that is rolled back costs no branch it found a commit, whatever the
\* users and other commands did to the branch since (worktree.rs:93).
THEOREM RollbackRestores == Spec => NewRestores
<1>1. ASSUME JobsInv, NEW j \in Job, RollbackBranch(j), job[j].found # None
      PROVE  tip'[job[j].branch] \in {job[j].found, tip[job[j].branch]}
  <2>1. /\ job[j].branch \in Branch /\ job[j].undo \in {"keep", "restore"}
        /\ job[j].undo = "restore" => job[j].restoreTip = job[j].found
    BY <1>1 DEF JobsInv, WorktreeTypeOK, JobRecord, Sound, RollbackBranch, At
  <2> QED BY <1>1, <2>1 DEF RollbackBranch, JobsInv, WorktreeTypeOK
<1>2. JobsInv /\ [Next]_vars => [\A j \in Job : RollbackBranch(j) /\ job[j].found # None
        => tip'[job[j].branch] \in {job[j].found, tip[job[j].branch]}]_vars
  BY <1>1
<1> QED BY <1>2, JobsInvAlways, PTL DEF Spec, NewRestores

\* A step of one command that leaves the documents and adds to what was told.
LEMMA SparesOneJob ==
  ASSUME SparesInv, NEW j \in Job, UNCHANGED doc, told \subseteq told',
         \A i \in Job \ {j} : job'[i] = job[i], Once(job'[j]),
         \A s \in Session : Spares(job'[j], s, doc[s], s \in told')
  PROVE  SparesInv'
BY DEF SparesInv, Spares

\* The steps of the others spare what a command has in hand.
LEMMA SparesOthers ==
  ASSUME JobsInv, SparesInv, ~Meanwhile,
         NEW s \in Session, Start(s) \/ Lives(s) \/ Straggles(s) \/ Dies(s) \/ RemoveStale(s)
  PROVE  SparesInv'
<1> SUFFICES ASSUME NEW j \in Job, NEW t \in Session
             PROVE  Spares(job[j], t, doc'[t], t \in told')
  BY DEF SparesInv, Start, Lives, Straggles, Dies, RemoveStale
<1>1. Spares(job[j], t, doc[t], t \in told) /\ doc \in [Session -> Document \cup {None}]
  BY DEF SparesInv, JobsInv, WorktreeTypeOK
<1>2. t # s => doc'[t] = doc[t] /\ (t \in told' <=> t \in told)
  BY <1>1 DEF Start, Lives, Straggles, Dies, RemoveStale, noted
<1>3. CASE Start(s) \/ Straggles(s)
  BY <1>1, <1>2, <1>3 DEF Start, Straggles, Undisturbed, InHand, Spares
<1>4. CASE Lives(s)
  BY <1>1, <1>2, <1>4 DEF Lives, Undisturbed, InHand, Spares
<1>5. CASE Dies(s) \/ RemoveStale(s)
  <2>1. t = s => doc'[t] = None \/ (doc[t] # None /\ doc'[t].status = "Ended" /\ told' = told)
    BY <1>1, <1>5 DEF Dies, RemoveStale, noted, Document
  <2> QED BY <1>1, <1>2, <2>1 DEF Spares, AtWork
<1> QED BY <1>3, <1>4, <1>5

\* The steps of a command.
LEMMA SparesJob ==
  ASSUME JobsInv, SparesInv, NEW j \in Job, Call(j) \/ Step(j)
  PROVE  SparesInv'
<1> USE DEF gitVars, sessionVars, noted
<1>0. /\ job[j] \in JobRecord /\ job \in [Job -> JobRecord] /\ None \notin Tree
      /\ HasTree(job[j]) => job[j].tree \in Tree
      /\ Once(job[j]) /\ \A s \in Session : Spares(job[j], s, doc[s], s \in told)
      /\ Home \in [Session -> Tree]
  BY WorktreeAssumption DEF JobsInv, WorktreeTypeOK, SparesInv, Sound
<1>1. NoJob.kind = "none" /\ NoJob.pc = "idle" /\ NoJob.todo = {} /\ NoJob.tree = None
  BY DEF NoJob
<1>2. CASE Call(j)
  <2>1. /\ \A i \in Job \ {j} : job'[i] = job[i]
        /\ job'[j].pc \in {"judge", "next", "add"}
        /\ job'[j].kind = "clean" => job'[j].todo = {} /\ job'[j].pc = "judge"
        /\ job'[j].kind = "detached" => /\ job'[j].pc = "next" /\ job'[j].merged = {}
                                        /\ \E w \in Tree : job'[j].todo = {w}
    <3>1. CASE Clean(j)
      BY <1>0, <3>1 DEF Clean, Begin, NoJob
    <3>2. CASE Delete(j)
      BY <1>0, <3>2 DEF Delete, Begin, NoJob
    <3>3. CASE CleanPicked(j)
      BY <1>0, <3>3 DEF CleanPicked, Begin, NoJob
    <3>4. CASE New(j)
      BY <1>0, <3>4 DEF New, Begin, NoJob
    <3> QED BY <1>2, <3>1, <3>2, <3>3, <3>4 DEF Call
  <2>2. UNCHANGED <<doc, told>>
    BY <1>2 DEF Call, Clean, Delete, CleanPicked, New, Begin
  <2> QED BY <2>1, <2>2, SparesOneJob DEF Spares, Once
<1>3. ASSUME Ends(j), UNCHANGED <<doc, told>> PROVE SparesInv'
  BY <1>0, <1>1, <1>3, SparesOneJob DEF Ends, Spares, Once
<1>4. CASE JudgeClean(j)
  <2>1. CASE ~Ends(j)
    <3>1. PICK del \in SUBSET Tree :
            /\ \A w \in del : job[j].kind = "clean" => ~contains_active_session(w)
            /\ job' = [job EXCEPT ![j].pc = "confirm", ![j].todo = del,
                                  ![j].merged = {w \in del : IsMerged(w)}]
      BY <1>4, <2>1 DEF JudgeClean
    <3>2. /\ job'[j].kind = job[j].kind /\ job'[j].pc = "confirm" /\ job'[j].todo = del
          /\ \A i \in Job \ {j} : job'[i] = job[i]
          /\ job[j].kind \in {"clean", "forced"} /\ UNCHANGED <<doc, told>>
      BY <1>0, <1>4, <3>1 DEF JobRecord, JudgeClean
    <3>3. \A s \in Session : job[j].kind = "clean" /\ Home[s] \in del => ~AtWork(doc[s])
      BY <3>1 DEF contains_active_session, In, Active, AtWork
    <3> QED BY <3>2, <3>3, SparesOneJob DEF Spares, Once
  <2> QED BY <1>3, <1>4, <2>1 DEF JudgeClean
<1>5. CASE JudgeDelete(j)
  <2>1. /\ job'[j].kind = "delete" /\ job'[j].pc \in {"next", "confirm"}
        /\ \A i \in Job \ {j} : job'[i] = job[i]
        /\ UNCHANGED <<doc, told>>
    BY <1>0, <1>5 DEF JobRecord, JudgeDelete
  <2> QED BY <2>1, SparesOneJob DEF Spares, Once
<1>6. CASE NextTree(j)
  <2>1. CASE job[j].todo # {}
    <3>1. PICK w \in job[j].todo :
            job' = [job EXCEPT ![j].tree = w, ![j].todo = @ \ {w},
                               ![j].pc = IF w \in job[j].merged \/ job[j].kind = "detached"
                                           THEN "notify" ELSE "look"]
      BY <1>6, <2>1 DEF NextTree
    <3>2. /\ job'[j].kind = job[j].kind /\ job'[j].tree = w /\ job'[j].todo = job[j].todo \ {w}
          /\ job'[j].merged = job[j].merged /\ job'[j].pc \in {"notify", "look"}
          /\ job'[j].pc = "look" => w \notin job[j].merged
          /\ \A i \in Job \ {j} : job'[i] = job[i]
        /\ UNCHANGED <<doc, told>>
      BY <1>0, <1>6, <3>1 DEF JobRecord, NextTree
    <3>3. Once(job'[j])
      BY <1>0, <3>1, <3>2 DEF Once
    <3> QED BY <1>0, <3>1, <3>2, <3>3, SparesOneJob DEF Spares
  <2> QED BY <1>3, <1>6, <2>1 DEF NextTree
<1>7. CASE Notify(j)
  <2> DEFINE w == job[j].tree
             m == job[j].kind # "detached" \/ IsMerged(w)
  <2>1. /\ job'[j].kind = job[j].kind /\ job'[j].tree = w /\ job'[j].todo = job[j].todo
        /\ job'[j].merged = (IF m THEN job[j].merged \cup {w} ELSE job[j].merged)
        /\ job'[j].pc = "look" /\ job[j].pc = "notify" /\ UNCHANGED doc
        /\ \A i \in Job \ {j} : job'[i] = job[i]
        /\ told' = told \cup (IF m THEN find_delegate_sessions(w) ELSE {})
    BY <1>0, <1>7 DEF JobRecord, Notify, At
  <2>2. ~m => job[j].merged = {}
    BY <1>0, <2>1 DEF Once
  <2>3. \A s \in Session : m /\ Home[s] = w /\ doc[s] # None => s \in told'
    BY <2>1 DEF find_delegate_sessions, In
  <2>4. Once(job'[j])
    BY <1>0, <2>1 DEF Once
  <2>5. \A s \in Session : Spares(job'[j], s, doc[s], s \in told')
    <3> HIDE DEF m, w
    <3> QED BY <1>0, <2>1, <2>2, <2>3 DEF Spares, w
  <2> QED BY <2>1, <2>4, <2>5, SparesOneJob
\* The worktree is skipped, or the command goes on to the next of its steps.
<1>8. ASSUME \A i \in Job \ {j} : job'[i] = job[i],
             \A s \in Session : doc'[s] = None \/ (doc'[s] = doc[s] /\ (s \in told => s \in told')),
             job'[j].kind = job[j].kind, job'[j].todo = job[j].todo, job'[j].merged = job[j].merged,
             \/ job'[j].pc \in {"next", "branch", "list", "sessions", "hook", "undo"}
                /\ job'[j].tree \in {None, job[j].tree}
             \/ job'[j].pc = "remove" /\ job[j].pc = "look" /\ job'[j].tree = job[j].tree,
             job[j].pc \notin {"next", "notify"}
      PROVE  SparesInv'
  <2>1. Once(job'[j])
    BY <1>0, <1>8 DEF Once
  <2>2. \A s \in Session : Spares(job'[j], s, doc'[s], s \in told')
    BY <1>0, <1>8 DEF Spares, AtWork
  <2>3. \A i \in Job \ {j}, s \in Session : Spares(job'[i], s, doc'[s], s \in told')
    BY <1>8 DEF Spares, AtWork, SparesInv
  <2> QED BY <1>8, <2>1, <2>2, <2>3 DEF SparesInv
<1>9. ASSUME Skip(j), UNCHANGED <<doc, told>>, job[j].pc \in {"look", "remove"} PROVE SparesInv'
  BY <1>0, <1>8, <1>9 DEF Skip, JobRecord
<1>10. CASE Look(j)
  <2>1. CASE ~Skip(j)
    BY <1>0, <1>8, <1>10, <2>1 DEF Look, At, JobRecord
  <2> QED BY <1>9, <1>10, <2>1 DEF Look, At
<1>11. ASSUME NEW pc \in {"branch", "list", "sessions", "undo"}, Go(j, pc), UNCHANGED <<doc, told>>,
              job[j].pc \in {"remove", "branch", "list", "hook"}
       PROVE  SparesInv'
  BY <1>0, <1>8, <1>11 DEF Go, JobRecord
<1>12. CASE RemoveWorktree(j)
  BY <1>9, <1>11, <1>12 DEF RemoveWorktree, At
<1>13. CASE DeleteBranch(j)
  BY <1>11, <1>13 DEF DeleteBranch, At
<1>14. CASE RollbackWorktree(j)
  BY <1>3, <1>11, <1>14 DEF RollbackWorktree, At
<1>15. CASE ListSessions(j)
  <2>1. CASE ~Go(j, "sessions")
    BY <1>0, <1>8, <1>15, <2>1 DEF ListSessions, At, JobRecord
  <2> QED BY <1>11, <1>15, <2>1 DEF ListSessions, At
<1>16. CASE CleanSession(j)
  <2>1. PICK s \in Session : /\ doc' = [doc EXCEPT ![s] = None] /\ told' = told \ {s}
                             /\ job' = [job EXCEPT ![j].copy[s] = None] /\ job[j].pc = "sessions"
    BY <1>16 DEF CleanSession, At
  <2>2. /\ job'[j].kind = job[j].kind /\ job'[j].todo = job[j].todo
        /\ job'[j].merged = job[j].merged /\ job'[j].tree = job[j].tree /\ job'[j].pc = "sessions"
        /\ \A i \in Job \ {j} : job'[i] = job[i]
    BY <1>0, <2>1 DEF JobRecord
  <2>3. \A t \in Session : doc'[t] = None \/ (doc'[t] = doc[t] /\ (t \in told => t \in told'))
    BY <2>1 DEF JobsInv, WorktreeTypeOK
  <2> QED BY <1>8, <2>1, <2>2, <2>3
\* What the other commands and this one have become: cut off, or done with their
\* worktree, or what they were but for `again`.
<1>17. ASSUME UNCHANGED <<doc, told>>,
              \A i \in Job :
                \/ job'[i] = NoJob
                \/ /\ job'[i].kind = job[i].kind /\ job'[i].todo = job[i].todo
                   /\ job'[i].merged = job[i].merged
                   /\ \/ job'[i].pc = job[i].pc /\ job'[i].tree = job[i].tree
                      \/ job'[i].pc \in {"next", "hook"} /\ job[i].pc \in {"sessions", "add"}
                         /\ job'[i].tree \in {None, job[i].tree}
       PROVE  SparesInv'
  <2> SUFFICES ASSUME NEW i \in Job
               PROVE  Once(job'[i]) /\ \A s \in Session : Spares(job'[i], s, doc[s], s \in told)
    BY <1>17 DEF SparesInv
  <2>1. Once(job[i]) /\ \A s \in Session : Spares(job[i], s, doc[s], s \in told)
    BY DEF SparesInv
  <2> QED BY <1>0, <1>1, <1>17, <2>1 DEF Spares, Once
<1>18. CASE KillWindows(j)
  <2> DEFINE done(r) == [r EXCEPT !.pc = "next", !.tree = None, !.branch = None,
                                  !.windows = {}, !.again = FALSE]
  <2>0. ASSUME NEW r \in JobRecord
        PROVE  /\ done(r).pc = "next" /\ done(r).tree = None /\ done(r).kind = r.kind
               /\ done(r).todo = r.todo /\ done(r).merged = r.merged
    BY DEF JobRecord
  <2>1. /\ job[j].pc = "sessions"
        /\ \A i \in Job \ {j} : job'[i] = NoJob \/ job'[i] = job[i]
        /\ job'[j] = NoJob \/ job'[j] = done(job[j])
        /\ UNCHANGED <<doc, told>>
    BY <1>0, <1>18 DEF KillWindows, At
  <2>2. job'[j] # NoJob => /\ job'[j].pc = "next" /\ job'[j].tree = None /\ job'[j].kind = job[j].kind
                          /\ job'[j].todo = job[j].todo /\ job'[j].merged = job[j].merged
    <3> HIDE DEF done
    <3> QED BY <1>0, <2>0, <2>1
  <2>3. ASSUME NEW i \in Job
        PROVE  \/ job'[i] = NoJob
               \/ /\ job'[i].kind = job[i].kind /\ job'[i].todo = job[i].todo
                  /\ job'[i].merged = job[i].merged
                  /\ \/ job'[i].pc = job[i].pc /\ job'[i].tree = job[i].tree
                     \/ job'[i].pc = "next" /\ job[i].pc = "sessions" /\ job'[i].tree = None
    BY <2>1, <2>2
  <2> QED BY <1>17, <2>1, <2>3
<1>19. CASE AddWorktree(j)
  <2>1. CASE ~Ends(j)
    <3> DEFINE at == tip[job[j].branch]
    <3>1. PICK u \in {"keep", "delete", "restore"}, rt \in {None, at} :
            job' = [i \in Job |->
              IF i = j THEN [job[j] EXCEPT !.pc = "hook", !.undo = u, !.restoreTip = rt, !.found = at]
              ELSE [job[i] EXCEPT !.again = @ \/ job[i].tree = job[j].tree]]
      <4>1. CASE at # None
        BY <1>19, <2>1, <4>1 DEF AddWorktree
      <4>2. CASE at = None
        BY <1>19, <2>1, <4>2 DEF AddWorktree
      <4> QED BY <4>1, <4>2
    <3>2. \A i \in Job : job[i] \in JobRecord
      BY <1>0
    <3>3. job[j].pc = "add" /\ UNCHANGED <<doc, told>>
      BY <1>19 DEF AddWorktree, At
    <3>4. \A i \in Job :
            /\ job'[i].kind = job[i].kind /\ job'[i].todo = job[i].todo
            /\ job'[i].merged = job[i].merged /\ job'[i].tree = job[i].tree
            /\ (i = j /\ job'[i].pc = "hook") \/ job'[i].pc = job[i].pc
      BY <3>1, <3>2 DEF JobRecord
    <3> QED BY <1>17, <3>3, <3>4
  <2> QED BY <1>3, <1>19, <2>1 DEF AddWorktree
<1>20. CASE Cancel(j) \/ RollbackBranch(j) \/ OpenWindow(j)
  BY <1>3, <1>20 DEF Cancel, RollbackBranch, OpenWindow
<1> QED BY <1>2, <1>4, <1>5, <1>6, <1>7, <1>10, <1>12, <1>13, <1>14, <1>15, <1>16, <1>18, <1>19, <1>20
        DEF Call, Step

LEMMA SparesStep == JobsInv /\ SparesInv /\ ~Meanwhile /\ [Next]_vars => SparesInv'
<1> SUFFICES ASSUME JobsInv, SparesInv, ~Meanwhile, [Next]_vars PROVE SparesInv'
  OBVIOUS
<1>1. ASSUME NEW m \in Window, CloseWindow(m) PROVE SparesInv'
  <2>1. \A i \in Job : job'[i] = NoJob \/ job'[i] = job[i]
    BY <1>1 DEF CloseWindow, JobsInv, WorktreeTypeOK
  <2>2. /\ Once(NoJob)
        /\ \A s \in Session : Spares(NoJob, s, doc[s], s \in told)
    BY DEF NoJob, Once, Spares
  <2> QED BY <1>1, <2>1, <2>2 DEF SparesInv, CloseWindow
<1>2. ASSUME UNCHANGED <<job, doc, told>> PROVE SparesInv'
  BY <1>2 DEF SparesInv
<1> QED BY <1>1, <1>2, SparesOthers, SparesJob DEF Next, Others, Work, vars, sessionVars, noted

-----------------------------------------------------------------------------
\* Nothing goes, no session comes back, and a command that was going to clean up
\* still is, or the worktree has gone astray.
LEMMA CaresKept ==
  ASSUME CaresInv, UNCHANGED checkout, astray \subseteq astray',
         \A s \in Session : doc'[s] # None /\ doc'[s].status # "Ended"
                              => doc[s] # None /\ doc[s].status # "Ended",
         \A i \in Job : job'[i].pc = "hook" => job[i].pc = "hook" /\ job'[i].tree = job[i].tree,
         \A i \in Job, s \in Session :
           Cares(job[i], s) => Cares(job'[i], s) \/ Home[s] \in astray' \/ doc'[s] = None
  PROVE  CaresInv'
<1> SUFFICES ASSUME NEW s \in Session, Loose(s)' PROVE \E j \in Job : Cares(job'[j], s)
  BY DEF CaresInv
<1>1. Loose(s)
  BY DEF Loose
<1>2. PICK j \in Job : Cares(job[j], s)
  BY <1>1 DEF CaresInv
<1> QED BY <1>2 DEF Loose

LEMMA CaresOthers ==
  ASSUME JobsInv, CaresInv, ~Meanwhile,
         NEW s \in Session, Start(s) \/ Lives(s) \/ Straggles(s) \/ Dies(s) \/ RemoveStale(s)
  PROVE  CaresInv'
<1> USE DEF gitVars, sessionVars, noted
<1>0. doc \in [Session -> Document \cup {None}] /\ UNCHANGED <<checkout, job>>
  BY DEF JobsInv, WorktreeTypeOK, Start, Lives, Straggles, Dies, RemoveStale
<1>1. CASE Lives(s) \/ Dies(s) \/ RemoveStale(s)
  <2>1. \A t \in Session : doc'[t] # None /\ doc'[t].status # "Ended"
                             => doc[t] # None /\ doc[t].status # "Ended"
    <3> SUFFICES ASSUME NEW t \in Session, doc'[t] # None, doc'[t].status # "Ended"
                 PROVE  doc[t] # None /\ doc[t].status # "Ended"
      OBVIOUS
    <3>1. CASE Lives(s)
      BY <1>0, <3>1 DEF Lives, Document
    <3>2. CASE Dies(s)
      BY <1>0, <3>2 DEF Dies, Document
    <3>3. CASE RemoveStale(s)
      BY <1>0, <3>3 DEF RemoveStale
    <3> QED BY <1>1, <3>1, <3>2, <3>3
  <2>2. UNCHANGED astray
    BY <1>1 DEF Lives, Dies, RemoveStale
  <2> QED BY <1>0, <2>1, <2>2, CaresKept
\* A session that begins is in a worktree that is there and in nobody's hands.
<1>2. CASE Start(s) \/ Straggles(s)
  <2> SUFFICES ASSUME NEW t \in Session, Loose(t)' PROVE \E j \in Job : Cares(job'[j], t)
    BY DEF CaresInv
  <2>1. ~InHand(Home[s])
    BY <1>2 DEF Start, Straggles, Undisturbed
  <2>2. checkout[Home[s]] # None \/ Home[s] \in astray'
    BY <1>2 DEF Start, Straggles
  <2>3. t # s
    BY <1>0, <2>1, <2>2 DEF Loose, InHand
  <2>4. doc'[t] = doc[t] /\ astray \subseteq astray'
    BY <1>0, <1>2, <2>3 DEF Start, Straggles
  <2>5. Loose(t)
    BY <1>0, <2>4 DEF Loose
  <2> QED BY <1>0, <2>5 DEF CaresInv
<1> QED BY <1>1, <1>2

\* Commands that are cut off leave what they were about to clean up astray.
LEMMA CaresCut ==
  ASSUME JobsInv, CaresInv, UNCHANGED <<checkout, doc>>, NEW cut \in SUBSET Job,
         astray' = astray \cup {job[i].tree : i \in {k \in cut : Removing(k)}},
         \A i \in Job : \/ i \in cut /\ job'[i] = NoJob
                        \/ job'[i] = job[i]
                        \/ job'[i].pc # "hook" /\ \A s \in Session : ~Cares(job[i], s)
  PROVE  CaresInv'
<1>1. \A i \in Job : job'[i].pc = "hook" => job[i].pc = "hook" /\ job'[i].tree = job[i].tree
  BY DEF NoJob
<1>2. \A i \in Job, s \in Session : Cares(job[i], s) => Cares(job'[i], s) \/ Home[s] \in astray'
  BY DEF Cares, Removing
<1> QED BY <1>1, <1>2, CaresKept

LEMMA CaresJob ==
  ASSUME JobsInv, CaresInv, NEW j \in Job, Call(j) \/ Step(j)
  PROVE  CaresInv'
<1> USE DEF gitVars, sessionVars, noted
<1>0. /\ job[j] \in JobRecord /\ job \in [Job -> JobRecord] /\ None \notin Tree
      /\ HasTree(job[j]) => job[j].tree \in Tree
      /\ Home \in [Session -> Tree] /\ checkout \in [Tree -> Branch \cup {None}]
  BY WorktreeAssumption DEF JobsInv, WorktreeTypeOK, Sound
\* The command was not about to clean up, and is not creating a worktree.
<1>1. ASSUME NEW n, job' = [job EXCEPT ![j] = n], n.pc # "hook", UNCHANGED <<checkout, doc, astray>>,
             job[j].pc \notin {"branch", "list", "sessions"}
      PROVE  CaresInv'
  BY <1>0, <1>1, CaresKept DEF Cares
<1>2. NoJob.pc = "idle"
  BY DEF NoJob
<1>3. CASE Call(j)
  <2>1. PICK r : /\ job' = [job EXCEPT ![j] = r] /\ r.pc \in {"judge", "next", "add"}
                 /\ job[j].pc = "idle" /\ UNCHANGED <<checkout, doc, astray>>
    <3>1. CASE Clean(j)
      BY <3>1 DEF Clean, Begin, NoJob, At
    <3>2. CASE Delete(j)
      BY <3>2 DEF Delete, Begin, NoJob, At
    <3>3. CASE CleanPicked(j)
      BY <3>3 DEF CleanPicked, Begin, NoJob, At
    <3>4. CASE New(j)
      BY <3>4 DEF New, Begin, NoJob, At
    <3> QED BY <1>3, <3>1, <3>2, <3>3, <3>4 DEF Call
  <2> QED BY <1>1, <2>1
<1>4. CASE JudgeClean(j) \/ JudgeDelete(j) \/ Cancel(j) \/ NextTree(j) \/ Notify(j)
  <2>1. /\ \A i \in Job \ {j} : job'[i] = job[i]
        /\ job'[j].pc # "hook" /\ job[j].pc \in {"judge", "confirm", "next", "notify"}
        /\ UNCHANGED <<checkout, doc, astray>>
    <3>1. CASE JudgeClean(j)
      <4>1. CASE ~Ends(j)
        <5>1. PICK del, merges :
                job' = [job EXCEPT ![j].pc = "confirm", ![j].todo = del, ![j].merged = merges]
          BY <3>1, <4>1 DEF JudgeClean
        <5> QED BY <1>0, <3>1, <5>1 DEF JudgeClean, At, JobRecord
      <4> QED BY <1>0, <1>2, <3>1, <4>1 DEF JudgeClean, At, Ends
    <3>2. CASE JudgeDelete(j)
      BY <1>0, <3>2 DEF JudgeDelete, At, JobRecord
    <3>3. CASE Cancel(j)
      BY <1>0, <1>2, <3>3 DEF Cancel, At, Ends
    <3>4. CASE NextTree(j)
      <4>1. CASE ~Ends(j)
        <5>1. PICK w \in job[j].todo, pc \in {"notify", "look"} :
                job' = [job EXCEPT ![j].tree = w, ![j].todo = @ \ {w}, ![j].pc = pc]
          BY <3>4, <4>1 DEF NextTree
        <5> QED BY <1>0, <3>4, <5>1 DEF NextTree, At, JobRecord
      <4> QED BY <1>0, <1>2, <3>4, <4>1 DEF NextTree, At, Ends
    <3>5. CASE Notify(j)
      BY <1>0, <3>5 DEF Notify, At, JobRecord
    <3> QED BY <1>4, <3>1, <3>2, <3>3, <3>4, <3>5
  <2> QED BY <2>1, CaresKept DEF Cares
<1>5. CASE Look(j)
  <2>1. /\ \A i \in Job \ {j} : job'[i] = job[i]
        /\ job'[j].pc # "hook" /\ job[j].pc = "look" /\ UNCHANGED <<checkout, doc, astray>>
    BY <1>0, <1>5 DEF Look, At, Skip, JobRecord
  <2> QED BY <2>1, CaresKept DEF Cares
\* The command that removes a worktree cares for the sessions it leaves.
<1>6. CASE RemoveWorktree(j)
  <2>1. /\ \A i \in Job \ {j} : job'[i] = job[i]
        /\ job[j].pc = "remove" /\ job[j].tree \in Tree /\ UNCHANGED <<doc, astray>>
    BY <1>0, <1>6 DEF RemoveWorktree, At, Go, Skip, HasTree
  <2>2. CASE Skip(j) /\ UNCHANGED checkout
    <3>1. job'[j].pc = "next"
      BY <1>0, <2>2 DEF Skip, JobRecord
    <3> QED BY <2>1, <2>2, <3>1, CaresKept DEF Cares
  <2>3. CASE checkout' = [checkout EXCEPT ![job[j].tree] = None] /\ Go(j, "branch")
    <3>1. job'[j].pc = "branch" /\ job'[j].tree = job[j].tree
      BY <1>0, <2>3 DEF Go, JobRecord
    <3> SUFFICES ASSUME NEW s \in Session, Loose(s)' PROVE \E i \in Job : Cares(job'[i], s)
      BY DEF CaresInv
    <3>2. CASE Home[s] = job[j].tree
      BY <3>1, <3>2 DEF Cares
    <3>3. CASE Home[s] # job[j].tree
      <4>1. Loose(s)
        BY <1>0, <2>1, <2>3, <3>1, <3>3 DEF Loose
      <4> QED BY <2>1, <4>1 DEF CaresInv, Cares
    <3> QED BY <3>2, <3>3
  <2> QED BY <1>6, <2>2, <2>3 DEF RemoveWorktree
<1>7. CASE DeleteBranch(j)
  <2>1. /\ \A i \in Job \ {j} : job'[i] = job[i]
        /\ job[j].pc = "branch" /\ job'[j].pc = "list" /\ job'[j].tree = job[j].tree
        /\ UNCHANGED <<checkout, doc, astray>>
    BY <1>0, <1>7 DEF DeleteBranch, At, Go, JobRecord
  <2> QED BY <2>1, CaresKept DEF Cares
<1>8. CASE ListSessions(j)
  <2> DEFINE listed == {s \in In(job[j].tree) : doc[s] # None /\ doc[s].status # "Ended"}
             c == [s \in Session |-> IF s \in listed THEN doc[s] ELSE None]
  <2>1. /\ \A i \in Job \ {j} : job'[i] = job[i]
        /\ job[j].pc = "list" /\ job'[j].pc = "sessions" /\ job'[j].tree = job[j].tree
        /\ UNCHANGED <<checkout, doc>>
        /\ \/ job'[j].copy = c /\ UNCHANGED astray
           \/ astray' = astray \cup {job[j].tree}
    BY <1>0, <1>8 DEF ListSessions, At, Go, JobRecord
  <2> SUFFICES ASSUME NEW s \in Session, Loose(s)' PROVE \E i \in Job : Cares(job'[i], s)
    BY DEF CaresInv
  <2>2. Loose(s)
    BY <2>1 DEF Loose
  <2>3. PICK i \in Job : Cares(job[i], s)
    BY <2>2 DEF CaresInv
  <2>4. i = j => job'[j].copy[s] # None
    BY <2>1, <2>2, <2>3 DEF Loose, Cares, In
  <2> HIDE DEF c
  <2> QED BY <2>1, <2>3, <2>4 DEF Cares
<1>9. CASE CleanSession(j)
  <2>1. PICK s \in Session : /\ doc' = [doc EXCEPT ![s] = None] /\ UNCHANGED <<checkout, astray>>
                             /\ job' = [job EXCEPT ![j].copy[s] = None] /\ job[j].pc = "sessions"
    BY <1>9 DEF CleanSession, At
  <2>2. /\ \A i \in Job \ {j} : job'[i] = job[i]
        /\ job'[j].pc = job[j].pc /\ job'[j].tree = job[j].tree
        /\ \A t \in Session \ {s} : job'[j].copy[t] = job[j].copy[t]
    BY <1>0, <2>1 DEF JobRecord
  <2>3. doc'[s] = None /\ \A t \in Session \ {s} : doc'[t] = doc[t]
    BY <2>1 DEF JobsInv, WorktreeTypeOK
  <2> QED BY <2>1, <2>2, <2>3, CaresKept DEF Cares
<1>10. CASE KillWindows(j)
  <2> DEFINE cut == {i \in Job : KilledIn(job[j].windows, i)}
             done(r) == [r EXCEPT !.pc = "next", !.tree = None, !.branch = None,
                                  !.windows = {}, !.again = FALSE]
  <2>1. /\ job[j].copy = NoCopy /\ job[j].pc = "sessions" /\ UNCHANGED <<checkout, doc>>
        /\ astray' = astray \cup {job[i].tree : i \in {k \in cut \ {j} : Removing(k)}}
        /\ \A i \in Job \ {j} : (i \in cut /\ job'[i] = NoJob) \/ job'[i] = job[i]
        /\ job'[j] = NoJob \/ job'[j] = done(job[j])
    BY <1>0, <1>10 DEF KillWindows, At
  <2>2. done(job[j]).pc = "next"
    BY <1>0 DEF JobRecord
  <2>3. job'[j].pc # "hook" /\ \A s \in Session : ~Cares(job[j], s)
    BY <1>2, <2>1, <2>2 DEF Cares, NoCopy
  <2> HIDE DEF cut
  <2>4. cut \ {j} \in SUBSET Job
    BY DEF cut
  <2> QED BY <2>1, <2>3, <2>4, CaresCut
\* The documents of a worktree that is made anew are still being cleaned up.
<1>11. CASE AddWorktree(j)
  <2>1. CASE Ends(j) /\ UNCHANGED <<checkout, tip, astray>>
    BY <1>1, <1>2, <1>11, <2>1 DEF AddWorktree, Ends, At
  <2>2. CASE ~(Ends(j) /\ UNCHANGED <<checkout, tip, astray>>)
    <3> DEFINE w == job[j].tree
               at == tip[job[j].branch]
               other(r) == [r EXCEPT !.again = @ \/ r.tree = w]
    <3>1. PICK u \in {"keep", "delete", "restore"}, rt \in {None, at} :
            job' = [i \in Job |->
              IF i = j THEN [job[j] EXCEPT !.pc = "hook", !.undo = u, !.restoreTip = rt, !.found = at]
              ELSE other(job[i])]
      <4>1. CASE at # None
        BY <1>11, <2>2, <4>1 DEF AddWorktree
      <4>2. CASE at = None
        BY <1>11, <2>2, <4>2 DEF AddWorktree
      <4> QED BY <4>1, <4>2
    <3>2. /\ job[j].pc = "add" /\ w \in Tree /\ checkout[w] = None /\ UNCHANGED doc
          /\ checkout' = [checkout EXCEPT ![w] = job[j].branch]
          /\ astray' = IF \E s \in In(w) : doc[s] # None THEN astray ELSE astray \ {w}
      <4>1. CASE at # None
        BY <1>0, <1>11, <2>2, <4>1 DEF AddWorktree, At, HasTree
      <4>2. CASE at = None
        BY <1>0, <1>11, <2>2, <4>2 DEF AddWorktree, At, HasTree
      <4> QED BY <4>1, <4>2
    <3>3. ASSUME NEW r \in JobRecord
          PROVE  other(r).pc = r.pc /\ other(r).tree = r.tree /\ other(r).copy = r.copy
      BY DEF JobRecord
    <3>4. job'[j].tree = w
      BY <1>0, <3>1 DEF JobRecord
    <3> HIDE DEF other
    <3>5. \A i \in Job \ {j} : /\ job'[i].pc = job[i].pc /\ job'[i].tree = job[i].tree
                              /\ job'[i].copy = job[i].copy
      BY <1>0, <3>1, <3>3
    <3> SUFFICES ASSUME NEW s \in Session, Loose(s)' PROVE \E i \in Job : Cares(job'[i], s)
      BY DEF CaresInv
    <3>6. Loose(s)
      <4>1. CASE Home[s] = w
        BY <3>2, <4>1 DEF Loose, In
      <4>2. CASE Home[s] # w
        <5> HIDE DEF w
        <5> QED BY <1>0, <3>2, <3>4, <3>5, <4>2 DEF Loose
      <4> QED BY <4>1, <4>2
    <3>7. PICK i \in Job : Cares(job[i], s)
      BY <3>6 DEF CaresInv
    <3> QED BY <3>2, <3>5, <3>7 DEF Cares
  <2> QED BY <2>1, <2>2
\* The `cc new` that is rolled back knew who cares.
<1>12. CASE RollbackWorktree(j)
  <2>1. /\ job[j].pc = "hook" /\ job[j].tree \in Tree /\ UNCHANGED <<doc, astray>>
        /\ \A i \in Job \ {j} : job'[i] = job[i]
    BY <1>0, <1>12 DEF RollbackWorktree, At, Go, Ends, HasTree
  <2>2. job'[j].pc # "hook"
    BY <1>0, <1>2, <1>12 DEF RollbackWorktree, Go, Ends, JobRecord
  <2>3. checkout' \in {checkout, [checkout EXCEPT ![job[j].tree] = None]}
    BY <1>12 DEF RollbackWorktree
  <2> SUFFICES ASSUME NEW s \in Session, Loose(s)' PROVE \E i \in Job : Cares(job'[i], s)
    BY DEF CaresInv
  <2>4. Loose(s)
    BY <1>0, <2>1, <2>2, <2>3 DEF Loose
  <2>5. PICK i \in Job : Cares(job[i], s)
    BY <2>4 DEF CaresInv
  <2> QED BY <2>1, <2>5 DEF Cares
<1>13. CASE RollbackBranch(j) \/ OpenWindow(j)
  BY <1>1, <1>2, <1>13 DEF RollbackBranch, OpenWindow, Ends, At
<1> QED BY <1>3, <1>4, <1>5, <1>6, <1>7, <1>8, <1>9, <1>10, <1>11, <1>12, <1>13 DEF Step

LEMMA CaresStep == JobsInv /\ CaresInv /\ ~Meanwhile /\ [Next]_vars => CaresInv'
<1> SUFFICES ASSUME JobsInv, CaresInv, ~Meanwhile, [Next]_vars PROVE CaresInv'
  OBVIOUS
<1>1. ASSUME NEW m \in Window, CloseWindow(m) PROVE CaresInv'
  <2> DEFINE cut == {j \in Job : KilledIn({m}, j)}
  <2>1. /\ UNCHANGED <<checkout, doc>>
        /\ astray' = astray \cup {job[i].tree : i \in {k \in cut : Removing(k)}}
        /\ \A i \in Job : (i \in cut /\ job'[i] = NoJob) \/ job'[i] = job[i]
    BY <1>1 DEF CloseWindow, gitVars
  <2> HIDE DEF cut
  <2>2. cut \in SUBSET Job
    BY DEF cut
  <2> QED BY <2>1, <2>2, CaresCut
<1>2. ASSUME UNCHANGED <<checkout, job, doc, astray>> PROVE CaresInv'
  BY <1>2 DEF CaresInv, Loose
<1> QED BY <1>1, <1>2, CaresOthers, CaresJob DEF Next, Others, Work, vars, gitVars, sessionVars, noted

-----------------------------------------------------------------------------
\* What follows holds as long as nobody acts in a worktree that a command has in
\* hand: a session that is started while `wm clean` asks its question is lost.
THEOREM HandsInvAlways == ~Meanwhile => (Spec => [](JobsInv /\ SparesInv /\ CaresInv))
<1> SUFFICES ASSUME ~Meanwhile PROVE Spec => [](JobsInv /\ SparesInv /\ CaresInv)
  OBVIOUS
<1>1. Init => SparesInv /\ CaresInv
  <2>1. Once(NoJob) /\ \A s \in Session : \A d, t : Spares(NoJob, s, d, t)
    BY DEF NoJob, Once, Spares
  <2>2. Init => SparesInv
    BY <2>1 DEF Init, SparesInv
  <2>3. Init => CaresInv
    BY DEF Init, CaresInv, Loose, NoCopy
  <2> QED BY <2>2, <2>3
<1>2. JobsInv /\ SparesInv /\ CaresInv /\ [Next]_vars => (SparesInv /\ CaresInv)'
  BY SparesStep, CaresStep
<1> QED BY <1>1, <1>2, JobsInvAlways, PTL DEF Spec

\* `wm clean` without --force spares every session at work (clean.rs:273), however
\* many other commands clean and create.
THEOREM CleanSparesTheActive == ~Meanwhile => (Spec => ActiveIsKept)
<1>1. JobsInv /\ SparesInv /\ [Next]_vars => [\A j \in Job, s \in Session :
        RemoveWorktree(j) /\ checkout' # checkout /\ job[j].kind = "clean"
          /\ Home[s] = job[j].tree => ~Active(s)]_vars
  BY DEF SparesInv, Spares, AtWork, Active, RemoveWorktree, At
<1> QED BY <1>1, HandsInvAlways, PTL DEF ActiveIsKept, Spec

\* Every way to remove a merged worktree tells the delegators of all of its
\* sessions first (merge_notify.rs:5).
THEOREM MergeIsReported == ~Meanwhile => (Spec => MergedIsTold)
<1>1. JobsInv /\ SparesInv /\ [Next]_vars => [\A j \in Job, s \in Session :
        /\ RemoveWorktree(j) /\ checkout' # checkout /\ job[j].kind # "tui"
        /\ job[j].tree \in job[j].merged /\ Home[s] = job[j].tree /\ doc[s] # None
        => s \in told]_vars
  BY DEF SparesInv, Spares, RemoveWorktree, At
<1> QED BY <1>1, HandsInvAlways, PTL DEF MergedIsTold, Spec

\* No session outlives its worktree on disk, unless a command was killed while it
\* removed it (cleanup.rs:80).
THEOREM NoSessionIsOrphaned == ~Meanwhile => (Spec => []NoOrphan)
<1>1. JobsInv /\ CaresInv => NoOrphan
  BY DEF CaresInv, Loose, Cares, NoOrphan, InHand
<1> QED BY <1>1, HandsInvAlways, PTL
=============================================================================
