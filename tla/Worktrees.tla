------------------------------ MODULE Worktrees ------------------------------
(***************************************************************************)
(* Git worktrees, their branches, tmux windows and Claude Code sessions:   *)
(* `a cc new --worktree` makes them; `a wm clean`, `a wm delete`, the      *)
(* worktree view of `a cc watch` and its detached clean remove them.       *)
(* src/commands/cc/new, src/commands/wm, src/commands/cc/clean_detached.rs,*)
(* src/shared/{cleanup,merge_notify}.rs.                                   *)
(*                                                                         *)
(* A command is a job. Nothing excludes jobs from each other but git. The  *)
(* fetch they begin with (src/infra/git/fetch_lock.rs) changes no state    *)
(* that is modelled, and a job whose fetch fails does nothing.             *)
(***************************************************************************)
EXTENDS Naturals, FiniteSets

CONSTANTS
  Tree,      \* worktree directories
  Branch,    \* local branches
  DirOf,     \* branch_to_worktree_name
  Session, Home,  \* the sessions and the worktree each has as its cwd
  Window,    \* tmux windows, one pane each; an id is never given out again
  Job,       \* commands that may run at the same time
  Kinds,     \* the commands that are run
  MaxTip,    \* bound on the commits of a branch
  Meanwhile, \* does anyone act in a worktree that a job has in hand?
  None

Cleaner == {"clean", "forced", "delete", "detached", "tui"}

ASSUME WorktreeAssumption ==
  /\ DirOf \in [Branch -> Tree] /\ Home \in [Session -> Tree]
  /\ Kinds \subseteq Cleaner \cup {"new"} /\ MaxTip \in Nat /\ Meanwhile \in BOOLEAN
  /\ None \notin Tree \cup Branch \cup Window \cup Job \cup Nat

VARIABLES
  checkout,  \* the branch that is checked out in each worktree, None without one
  tip,       \* the last commit of each branch, None if there is no such branch
  pr,        \* the pull request of each branch, "open" if there is none either
  window,    \* the worktree each tmux window is in, None once it is closed
  doc,       \* the session documents
  claude,    \* the processes
  job,       \* the commands under way
  told,      \* history: sessions whose delegator was sent the merge note
  astray     \* history: removals cut short, and documents written by stragglers

gitVars == <<checkout, tip, pr>>
sessionVars == <<window, doc, claude>>
noted == <<told, astray>>
vars == <<gitVars, sessionVars, job, noted>>

\* Idle is a session that has been Stopped for the auto-pause timeout. A
\* document without a pane has no tmux_info.
Document == [status: {"Running", "Stopped", "Idle", "Paused", "Ended"},
             pane: Window \cup {None}]
Process == [pane: Window, dying: BOOLEAN]

JobRecord == [kind: Cleaner \cup {"new", "none"},
              pc: {"idle", "judge", "confirm", "next", "notify",
                   "look", "remove", "branch", "list", "sessions", "add", "hook", "undo"},
              at: Window \cup {None},     \* the window it was started in
              todo: SUBSET Tree,          \* worktrees still to remove
              merged: SUBSET Tree,        \* those judged to be merged
              tree: Tree \cup {None},     \* the worktree in hand
              branch: Branch \cup {None}, \* its branch
              windows: SUBSET Window,     \* the windows to kill
              copy: [Session -> Document \cup {None}],   \* list_sessions
              undo: {"keep", "delete", "restore"},       \* BranchRollback
              restoreTip: (0..MaxTip) \cup {None},
              found: (0..MaxTip) \cup {None},  \* history: the branch as `new` found it
              again: BOOLEAN]  \* history: was the worktree made anew meanwhile?

NoCopy == [s \in Session |-> None]
NoJob == [kind |-> "none", pc |-> "idle", at |-> None, todo |-> {}, merged |-> {},
          tree |-> None, branch |-> None, windows |-> {}, copy |-> NoCopy,
          undo |-> "keep", restoreTip |-> None, found |-> None, again |-> FALSE]

WorktreeTypeOK ==
  /\ checkout \in [Tree -> Branch \cup {None}]
  /\ tip \in [Branch -> (0..MaxTip) \cup {None}]
  /\ pr \in [Branch -> {"open", "merged", "closed"}]
  /\ window \in [Window -> Tree \cup {None}]
  /\ doc \in [Session -> Document \cup {None}]
  /\ claude \in [Session -> Process \cup {None}]
  /\ job \in [Job -> JobRecord]
  /\ told \subseteq Session /\ astray \subseteq Tree

Init ==
  /\ checkout = [w \in Tree |-> None] /\ tip = [b \in Branch |-> None]
  /\ pr = [b \in Branch |-> "open"]
  /\ window = [m \in Window |-> None]
  /\ doc = NoCopy /\ claude = NoCopy
  /\ job = [j \in Job |-> NoJob]
  /\ told = {} /\ astray = {}

-----------------------------------------------------------------------------
In(w) == {s \in Session : Home[s] = w}
At(j, pc) == job[j].pc = pc
Go(j, pc) == job' = [job EXCEPT ![j].pc = pc]
Ends(j) == job' = [job EXCEPT ![j] = NoJob]

\* Worktrees that a job has judged and is about to remove, or is creating.
InHand(w) == \E j \in Job : w \in job[j].todo \/ w = job[j].tree
Undisturbed(w) == Meanwhile \/ ~InHand(w)

\* is_session_active: neither over nor idle for the timeout.
Active(s) == doc[s] # None /\ doc[s].status \in {"Running", "Stopped"}

Attached(s) == doc[s] # None /\ doc[s].pane # None /\ window[doc[s].pane] # None
Alive(s) == claude[s] # None /\ ~claude[s].dying

\* An id that neither tmux nor a document, a process or a job has seen.
Fresh(m) == /\ window[m] = None
            /\ \A s \in Session : /\ doc[s] # None => doc[s].pane # m
                                  /\ claude[s] # None => claude[s].pane # m
            /\ \A j \in Job : /\ m \notin job[j].windows /\ m # job[j].at
                              /\ \A s \in Session : job[j].copy[s] # None
                                                      => job[j].copy[s].pane # m

-----------------------------------------------------------------------------
(* The users, and the programs in their windows *)

\* `claude` or `a cc resume` in a window of the worktree. Its first hook
\* writes the document.
Start(s) ==
  /\ checkout[Home[s]] # None /\ claude[s] = None /\ Undisturbed(Home[s])
  /\ \E m \in Window :
       /\ window[m] = Home[s] /\ \A t \in Session : claude[t] # None => claude[t].pane # m
       /\ claude' = [claude EXCEPT ![s] = [pane |-> m, dying |-> FALSE]]
       /\ doc' = [doc EXCEPT ![s] = [status |-> "Running", pane |-> m]]
  /\ UNCHANGED <<gitVars, window, job, noted>>

\* What becomes of a session: a turn ends or starts, it rests, sweep pauses it,
\* it ends, its process crashes.
Lives(s) ==
  /\ doc[s] # None /\ Alive(s) /\ Undisturbed(Home[s])
  /\ \/ /\ \/ doc[s].status = "Running" /\ doc' = [doc EXCEPT ![s].status = "Stopped"]
           \/ doc[s].status = "Stopped" /\ doc' = [doc EXCEPT ![s].status = "Idle"]
           \/ doc[s].status \in {"Stopped", "Idle"} /\ doc' = [doc EXCEPT ![s].status = "Running"]
        /\ UNCHANGED claude
     \/ /\ \/ doc[s].status = "Idle" /\ doc' = [doc EXCEPT ![s].status = "Paused"]
           \/ doc' = [doc EXCEPT ![s].status = "Ended"]
           \/ UNCHANGED doc
        /\ claude' = [claude EXCEPT ![s] = None]
  /\ UNCHANGED <<gitVars, window, job, noted>>

\* The process of a session whose document is gone fires another hook, which
\* writes a new document, without tmux_info if the window is gone too.
Straggles(s) ==
  /\ doc[s] = None /\ claude[s] # None /\ Undisturbed(Home[s])
  /\ LET m == claude[s].pane
     IN  doc' = [doc EXCEPT ![s] = [status |-> "Running",
                                    pane |-> IF window[m] = None THEN None ELSE m]]
  /\ astray' = astray \cup (IF checkout[Home[s]] = None THEN {Home[s]} ELSE {})
  /\ UNCHANGED <<gitVars, window, claude, job, told>>

\* A process that was signalled exits; SessionEnd finds the document or not.
Dies(s) ==
  /\ claude[s] # None /\ claude[s].dying
  /\ claude' = [claude EXCEPT ![s] = None]
  /\ doc' = IF doc[s] = None THEN doc ELSE [doc EXCEPT ![s].status = "Ended"]
  /\ UNCHANGED <<gitVars, window, job, noted>>

\* The processes in the windows get SIGHUP, a command among them at its next step.
Closed(ms) ==
  /\ window' = [m \in Window |-> IF m \in ms THEN None ELSE window[m]]
  /\ claude' = [s \in Session |-> IF claude[s] # None /\ claude[s].pane \in ms
                                    THEN [claude[s] EXCEPT !.dying = TRUE] ELSE claude[s]]
KilledIn(ms, j) == job[j].at \in ms
Removing(j) == job[j].pc \in {"branch", "list", "sessions", "undo"}

\* A window is closed by its user, on whatever runs in it.
CloseWindow(m) ==
  /\ window[m] # None /\ Undisturbed(window[m])
  /\ LET cut == {j \in Job : KilledIn({m}, j)}
     IN  /\ job' = [j \in Job |-> IF j \in cut THEN NoJob ELSE job[j]]
         /\ astray' = astray \cup {job[j].tree : j \in {i \in cut : Removing(i)}}
  /\ Closed({m})
  /\ UNCHANGED <<gitVars, doc, told>>

\* A commit; the pull request of a branch is opened, merged or closed.
Work(b) ==
  /\ tip[b] # None /\ \A w \in Tree : checkout[w] = b => Undisturbed(w)
  /\ \/ /\ tip[b] < MaxTip /\ \E w \in Tree : checkout[w] = b
        /\ tip' = [tip EXCEPT ![b] = @ + 1] /\ UNCHANGED pr
     \/ /\ \/ pr[b] # "open" /\ pr' = [pr EXCEPT ![b] = "open"]
           \/ pr[b] = "open" /\ \E e \in {"merged", "closed"} : pr' = [pr EXCEPT ![b] = e]
        /\ UNCHANGED tip
  /\ UNCHANGED <<checkout, sessionVars, job, noted>>

\* cleanup_stale_sessions, for one document. The pane or the worktree is gone,
\* or a session that is over has outlived its retention.
RemoveStale(s) ==
  /\ doc[s] # None
  /\ \/ /\ doc[s].status # "Ended"
        /\ checkout[Home[s]] = None \/ (doc[s].pane # None /\ ~Attached(s))
     \/ doc[s].status \in {"Ended", "Paused"}
  /\ doc' = [doc EXCEPT ![s] = None] /\ told' = told \ {s}
  /\ UNCHANGED <<gitVars, window, claude, job, astray>>

-----------------------------------------------------------------------------
(* A job begins. It may run in a window of a worktree, or outside of them. *)

Begin(j, r) == /\ At(j, "idle") /\ r.kind \in Kinds /\ job' = [job EXCEPT ![j] = r]
               /\ UNCHANGED <<gitVars, sessionVars, noted>>
Seat == {None} \cup {m \in Window : window[m] # None}

\* `a wm clean`, of one repository or --all; forced with --force
Clean(j) == \E m \in Seat, kind \in {"clean", "forced"} :
  Begin(j, [NoJob EXCEPT !.kind = kind, !.pc = "judge", !.at = m])

\* `a wm delete`, here or of a path
Delete(j) == \E m \in Seat, w \in Tree :
  /\ checkout[w] # None
  /\ Begin(j, [NoJob EXCEPT !.kind = "delete", !.pc = "judge", !.at = m, !.tree = w])

\* The worktree views remove what their user picked from a list that may be old.
CleanPicked(j) == \E kind \in {"detached", "tui"}, w \in Tree :
  Begin(j, [NoJob EXCEPT !.kind = kind, !.pc = "next", !.todo = {w}])

New(j) == \E b \in Branch : 
  Begin(j, [NoJob EXCEPT !.kind = "new", !.pc = "add", !.tree = DirOf[b], !.branch = b])

-----------------------------------------------------------------------------
(* What is to be removed *)

\* MergeStatus::should_cleanup; a branch without a pull request is kept.
ShouldCleanup(w) == checkout[w] # None /\ pr[checkout[w]] \in {"merged", "closed"}
IsMerged(w) == checkout[w] # None /\ pr[checkout[w]] = "merged"

contains_active_session_Running(w) ==
  \E s \in In(w) : doc[s] # None /\ doc[s].status = "Running"
contains_active_session(w) == \E s \in In(w) : Active(s)

\* collect_worktrees and apply_active_session_protection. Where GitHub does not
\* answer, the worktree is kept.
JudgeClean(j) ==
  /\ At(j, "judge") /\ job[j].kind \in {"clean", "forced"}
  /\ \E known \in SUBSET Tree :
       LET del == {w \in known : /\ ShouldCleanup(w)
                                 /\ job[j].kind = "clean" => ~contains_active_session(w)}
       IN  IF del = {} THEN Ends(j)
           ELSE job' = [job EXCEPT ![j].pc = "confirm", ![j].todo = del,
                                   ![j].merged = {w \in del : IsMerged(w)}]
  /\ UNCHANGED <<gitVars, sessionVars, noted>>

\* check_merge_status: it asks about a branch that is not merged, unless --force.
JudgeDelete(j) ==
  /\ At(j, "judge") /\ job[j].kind = "delete"
  /\ LET w == job[j].tree
         go(pc, merged) == job' = [job EXCEPT ![j].pc = pc, ![j].tree = None, ![j].todo = {w},
                                              ![j].merged = merged]
     IN  \/ IsMerged(w) /\ go("next", {w})
         \/ \E pc \in {"next", "confirm"} : go(pc, {})
  /\ UNCHANGED <<gitVars, sessionVars, noted>>

Cancel(j) == At(j, "confirm") /\ Ends(j) /\ UNCHANGED <<gitVars, sessionVars, noted>>

\* The next worktree of the list. A merge is reported before anything is removed.
NextTree(j) ==
  /\ At(j, "next") \/ At(j, "confirm")
  /\ IF job[j].todo = {} THEN Ends(j)
     ELSE \E w \in job[j].todo :
            job' = [job EXCEPT ![j].tree = w, ![j].todo = @ \ {w},
                               ![j].pc = IF w \in job[j].merged \/ job[j].kind = "detached"
                                           THEN "notify" ELSE "look"]
  /\ UNCHANGED <<gitVars, sessionVars, noted>>

\* Every document counts: a delegate has usually Ended by the time of the merge.
find_delegate_sessions_Listed(w) == {s \in In(w) : doc[s] # None /\ doc[s].status # "Ended"}
find_delegate_sessions(w) == {s \in In(w) : doc[s] # None}

\* notify_delegator_of_merge; the detached clean asks GitHub here. Delivery is
\* best effort.
Notify(j) ==
  /\ At(j, "notify")
  /\ LET w == job[j].tree
         m == job[j].kind # "detached" \/ IsMerged(w)
     IN  /\ told' = told \cup (IF m THEN find_delegate_sessions(w) ELSE {})
         /\ job' = [job EXCEPT ![j].pc = "look",
                               ![j].merged = IF m THEN @ \cup {w} ELSE @]
  /\ UNCHANGED <<gitVars, sessionVars, astray>>

-----------------------------------------------------------------------------
(* cleanup_worktree_by_name *)

Skip(j) == job' = [job EXCEPT ![j].pc = "next", ![j].tree = None, ![j].branch = None,
                              ![j].windows = {}, ![j].copy = NoCopy, ![j].again = FALSE]

\* The windows and the branch are read while the worktree still exists.
Look(j) ==
  /\ At(j, "look")
  /\ LET w == job[j].tree
     IN  IF checkout[w] = None THEN Skip(j)
         ELSE job' = [job EXCEPT ![j].pc = "remove", ![j].branch = checkout[w],
                                 ![j].windows = {m \in Window : window[m] = w}]
  /\ UNCHANGED <<gitVars, sessionVars, noted>>

\* delete_worktree. If git cannot remove it, nothing else is touched.
RemoveWorktree_OrNot(j) ==
  /\ At(j, "remove") /\ Go(j, "branch")
  /\ checkout' \in {checkout, [checkout EXCEPT ![job[j].tree] = None]}
  /\ UNCHANGED <<tip, pr, sessionVars, noted>>
RemoveWorktree(j) ==
  /\ At(j, "remove")
  /\ LET w == job[j].tree
     IN  \/ /\ checkout[w] # None
            /\ checkout' = [checkout EXCEPT ![w] = None]
            /\ Go(j, "branch")
         \/ Skip(j) /\ UNCHANGED checkout
  /\ UNCHANGED <<tip, pr, sessionVars, noted>>

\* `git branch -D` refuses a branch that is checked out.
DeletedBranch(b) == [tip EXCEPT ![b] = IF \E w \in Tree : checkout[w] = b THEN @ ELSE None]
DeleteBranch(j) ==
  /\ At(j, "branch")
  /\ tip' = DeletedBranch(job[j].branch)
  /\ Go(j, "list")
  /\ UNCHANGED <<checkout, pr, sessionVars, noted>>

ListSessions_WindowsFirst(j) ==
  /\ At(j, "list") /\ Closed(job[j].windows)
  /\ LET listed == {s \in In(job[j].tree) : doc[s] # None /\ doc[s].status # "Ended"}
     IN  job' = [i \in Job |->
           IF KilledIn(job[j].windows, i) THEN NoJob
           ELSE IF i # j THEN job[i]
           ELSE [job[j] EXCEPT !.pc = "sessions", !.windows = {},
                               !.copy = [s \in Session |-> IF s \in listed THEN doc[s] ELSE None]]]
  /\ UNCHANGED <<gitVars, doc, noted>>
\* list_sessions leaves out the ones that Ended. If it fails no session is cleaned.
ListSessions(j) ==
  /\ At(j, "list")
  /\ LET listed == {s \in In(job[j].tree) : doc[s] # None /\ doc[s].status # "Ended"}
     IN  \/ /\ job' = [job EXCEPT ![j].pc = "sessions",
                                  ![j].copy = [s \in Session |-> IF s \in listed THEN doc[s]
                                                                                 ELSE None]]
            /\ UNCHANGED astray
         \/ Go(j, "sessions") /\ astray' = astray \cup {job[j].tree}
  /\ UNCHANGED <<gitVars, sessionVars, told>>

\* SIGTERM goes to the process of the pane, for a session that should be up: it
\* may be the session's, or a shell that ignores it. Then the document goes.
CleanSession(j) ==
  /\ At(j, "sessions")
  /\ \E s \in Session :
       LET c == job[j].copy[s]
       IN  /\ c # None
           /\ claude' = [t \in Session |->
                IF /\ c.status \in {"Running", "Stopped", "Idle"}
                   /\ c.pane # None /\ window[c.pane] # None
                   /\ claude[t] # None /\ claude[t].pane = c.pane
                THEN [claude[t] EXCEPT !.dying = TRUE] ELSE claude[t]]
                \/ UNCHANGED claude
           /\ doc' = [doc EXCEPT ![s] = None] /\ told' = told \ {s}
           /\ job' = [job EXCEPT ![j].copy[s] = None]
  /\ UNCHANGED <<gitVars, window, astray>>

\* The windows come last: a command in one of them does not survive this.
KillWindows(j) ==
  /\ At(j, "sessions") /\ job[j].copy = NoCopy
  /\ LET ms == job[j].windows
         cut == {i \in Job : KilledIn(ms, i)}
         done == IF j \in cut THEN NoJob
                 ELSE [job[j] EXCEPT !.pc = "next", !.tree = None, !.branch = None,
                                     !.windows = {}, !.again = FALSE]
     IN  /\ Closed(ms)
         /\ job' = [i \in Job |-> IF i = j THEN done ELSE IF i \in cut THEN NoJob ELSE job[i]]
         /\ astray' = astray \cup {job[i].tree : i \in {k \in cut \ {j} : Removing(k)}}
  /\ UNCHANGED <<gitVars, doc, told>>

-----------------------------------------------------------------------------
(* run_worktree_creation *)

\* `git worktree add`: an existing branch is taken as it is or, with --force, is
\* reset to the base; another one is created, or tracked from the remote.
AddWorktree(j) ==
  /\ At(j, "add")
  /\ LET w == job[j].tree
         b == job[j].branch
         add(undo, restore, at) ==
           /\ checkout' = [checkout EXCEPT ![w] = b]
           /\ tip' = [tip EXCEPT ![b] = at]
           /\ job' = [i \in Job |->
                IF i = j THEN [job[j] EXCEPT !.pc = "hook", !.undo = undo,
                                             !.restoreTip = restore, !.found = tip[b]]
                ELSE [job[i] EXCEPT !.again = @ \/ job[i].tree = w]]
     IN  \/ /\ checkout[w] = None
            /\ IF tip[b] # None THEN add("keep", None, tip[b]) \/ add("restore", tip[b], 0)
                                ELSE add("keep", None, 0) \/ add("delete", None, 0)
            /\ astray' = IF \E s \in In(w) : doc[s] # None THEN astray ELSE astray \ {w}
         \/ Ends(j) /\ UNCHANGED <<checkout, tip, astray>>
  /\ UNCHANGED <<pr, sessionVars, told>>

\* The post-worktree-create hook fails. rollback_worktree; the branch stays as it is if the worktree does.
RollbackWorktree(j) ==
  /\ At(j, "hook")
  /\ \/ checkout' = [checkout EXCEPT ![job[j].tree] = None] /\ Go(j, "undo")
     \/ Ends(j) /\ UNCHANGED checkout
  /\ UNCHANGED <<tip, pr, sessionVars, noted>>

RollbackBranch_ForgetsTip(j) ==
  /\ At(j, "undo") /\ Ends(j)
  /\ tip' = IF job[j].undo = "keep" THEN tip ELSE DeletedBranch(job[j].branch)
  /\ UNCHANGED <<checkout, pr, sessionVars, noted>>
RollbackBranch(j) ==
  /\ At(j, "undo") /\ Ends(j)
  /\ LET b == job[j].branch
     IN  tip' = CASE job[j].undo = "keep" -> tip
                  [] job[j].undo = "delete" -> DeletedBranch(b)
                  [] job[j].undo = "restore" -> [tip EXCEPT ![b] = job[j].restoreTip]
  /\ UNCHANGED <<checkout, pr, sessionVars, noted>>

\* The hook succeeds. setup_tmux_window; if tmux fails the worktree stays.
OpenWindow(j) ==
  /\ At(j, "hook") /\ Ends(j)
  /\ \/ \E m \in Window : Fresh(m) /\ window' = [window EXCEPT ![m] = job[j].tree]
     \/ UNCHANGED window
  /\ UNCHANGED <<gitVars, doc, claude, noted>>

-----------------------------------------------------------------------------
Call(j) == Clean(j) \/ Delete(j) \/ CleanPicked(j) \/ New(j)
Step(j) == \/ JudgeClean(j) \/ JudgeDelete(j) \/ Cancel(j) \/ NextTree(j) \/ Notify(j)
           \/ Look(j) \/ RemoveWorktree(j) \/ DeleteBranch(j) \/ ListSessions(j)
           \/ CleanSession(j) \/ KillWindows(j)
           \/ AddWorktree(j) \/ RollbackWorktree(j) \/ RollbackBranch(j)
           \/ OpenWindow(j)

Others == \/ \E s \in Session : Start(s) \/ Lives(s) \/ Straggles(s) \/ Dies(s) \/ RemoveStale(s)
          \/ \E m \in Window : CloseWindow(m)
          \/ \E b \in Branch : Work(b)

Next == (\E j \in Job : Call(j) \/ Step(j)) \/ Others

Spec == Init /\ [][Next]_vars

-----------------------------------------------------------------------------
(* Properties *)

\* `wm clean` without --force never takes a worktree away from a session at work
\* (clean.rs:273), whatever else is cleaned or created at the same time.
ActiveIsKept ==
  [][\A j \in Job, s \in Session :
       RemoveWorktree(j) /\ checkout' # checkout /\ job[j].kind = "clean"
         /\ Home[s] = job[j].tree => ~Active(s)]_vars

\* "Shared by all three worktree-deletion entry points so the notification fires
\* identically" (merge_notify.rs:5): when a merged worktree goes, the delegators
\* of all the sessions it ever had were told.
MergedIsTold ==
  [][\A j \in Job, s \in Session :
       /\ RemoveWorktree(j) /\ checkout' # checkout /\ job[j].kind # "tui"
       /\ job[j].tree \in job[j].merged /\ Home[s] = job[j].tree /\ doc[s] # None
       => s \in told]_vars

\* "Only clean up tmux windows and sessions if worktree deletion succeeded"
\* (cleanup.rs:78): neither is touched while the worktree is there, unless
\* another command has made it anew since.
NothingHalfRemoved ==
  [][\A j \in Job : CleanSession(j) \/ KillWindows(j)
       => checkout[job[j].tree] = None \/ job[j].again]_vars

\* "Clean up sessions BEFORE killing tmux windows" (cleanup.rs:80): no session of
\* a removed worktree is left on disk, even if the remover ran in its window.
\* A remover that another one killed leaves them to cleanup_stale_sessions.
NoOrphan ==
  \A s \in Session : /\ doc[s] # None /\ doc[s].status # "Ended"
                     /\ checkout[Home[s]] = None /\ Home[s] \notin astray
                     => InHand(Home[s])

\* A `cc new` whose hook failed gives a branch that was there back as it was
\* (worktree.rs:93), or leaves it as it is: it never costs commits it found.
NewRestores ==
  [][\A j \in Job : RollbackBranch(j) /\ job[j].found # None
       => tip'[job[j].branch] \in {job[j].found, tip[job[j].branch]}]_vars
=============================================================================
