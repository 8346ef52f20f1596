----------------------------- MODULE HumanReview -----------------------------
(***************************************************************************)
(* A document is shown to the user in an editor and the caller waits for   *)
(* the verdict: src/shared/human_in_the_loop. The caller (start_review)    *)
(* and the command in the new terminal (complete_review) meet through four *)
(* files beside the document: a lock file, a FIFO for "done", one for      *)
(* "started" and, elsewhere, the approval record.                          *)
(*                                                                         *)
(* The terminal is Ghostty on macOS, the only one that signals "started".  *)
(* A launch is named by r: the caller launcher[r] and its terminal[r].     *)
(***************************************************************************)
EXTENDS Naturals, FiniteSets

CONSTANTS
  Caller,         \* callers that may ask for a review
  Text,           \* the texts of the document that are told apart
  Hasty,          \* may a review start while another one's files are in flux?
  AgentMeanwhile, \* does the agent edit the document while a review is on?
  Absent

ASSUME ReviewAssumption == /\ Hasty \in BOOLEAN /\ AgentMeanwhile \in BOOLEAN
                           /\ Absent \notin Caller

Content == [text: Text, submit: BOOLEAN]   \* submit: the flag in the frontmatter
ASSUME ContentAssumption == Absent \notin Content

VARIABLES
  document,  \* the file under review
  approval,  \* the content whose MAC is in the approval record
  lock,      \* does the lock file exist?
  fifo,      \* the launch that created the FIFO now at the ".done" path
  signalled, \* launches whose FIFO holds the byte of the signal
  launcher,  \* the callers
  terminal,  \* the terminals they launched
  standing,  \* history: the content the user approved last, until withdrawn
  granted    \* history: every content the user ever approved

reviewFiles == <<document, approval, lock, fifo, signalled>>
reviewHistory == <<standing, granted>>
reviewVars == <<reviewFiles, reviewHistory, launcher, terminal>>

Launcher == [pc: {"idle", "hook", "check", "starting", "waiting"},
             before: Content \cup {Absent},  \* the document when it was loaded
             on: Caller \cup {Absent}]       \* the FIFO the caller is reading
Terminal == [pc: {"none", "opening", "editing", "closed", "killed"},
             buffer: Content \cup {Absent}]  \* what the editor loaded

Idle == [pc |-> "idle", before |-> Absent, on |-> Absent]
NoTerminal == [pc |-> "none", buffer |-> Absent]

ReviewTypeOK ==
  /\ document \in Content \cup {Absent} /\ approval \in Content \cup {Absent}
  /\ lock \in BOOLEAN
  /\ fifo \in Caller \cup {Absent} /\ signalled \subseteq Caller
  /\ launcher \in [Caller -> Launcher] /\ terminal \in [Caller -> Terminal]
  /\ standing \in Content \cup {Absent} /\ granted \subseteq Content

ReviewInit ==
  /\ document = Absent /\ approval = Absent /\ lock = FALSE
  /\ fifo = Absent /\ signalled = {}
  /\ launcher = [r \in Caller |-> Idle] /\ terminal = [r \in Caller |-> NoTerminal]
  /\ standing = Absent /\ granted = {}

-----------------------------------------------------------------------------
To(r, pc) == launcher' = [launcher EXCEPT ![r].pc = pc]
Returns(r) == launcher' = [launcher EXCEPT ![r] = Idle]
Window(r, w) == terminal' = [terminal EXCEPT ![r] = w]

\* From the load of the document to the end of the editor.
UnderReview == \/ \E r \in Caller : launcher[r].pc # "idle"
               \/ \E r \in Caller : terminal[r].pc \in {"opening", "editing"}

\* Moments at which the files of one review are not what the next expects.
InFlux == \/ \E r \in Caller : launcher[r].pc \in {"hook", "check", "starting"}
          \/ \E r \in Caller : terminal[r].pc \in {"opening", "closed"}
          \/ signalled # {}

\* Without haste an editor is not closed while a caller is on its way.
MayClose(r) == /\ terminal[r].pc = "editing"
               /\ Hasty \/ \A x \in Caller : launcher[x].pc \notin {"hook", "check"}

\* start_review up to the launch. The lock is only looked at: it is taken by
\* the terminal. A FIFO that is at the path is replaced.
StartReview(r) ==
  /\ launcher[r].pc = "check"
  /\ IF document = Absent \/ lock
       THEN Returns(r) /\ UNCHANGED <<fifo, signalled, terminal>>
       ELSE /\ fifo' = r /\ signalled' = signalled \ {r}
            /\ To(r, "starting") /\ Window(r, [pc |-> "opening", buffer |-> Absent])
  /\ UNCHANGED <<document, approval, lock, reviewHistory>>

\* launch_terminal fails: the guards remove the FIFO again.
LaunchFails(r) ==
  /\ launcher[r].pc = "check" /\ document # Absent /\ ~lock
  /\ fifo' = Absent /\ Returns(r)
  /\ UNCHANGED <<document, approval, lock, signalled, terminal, reviewHistory>>

\* The wrapper script has signalled "started". The caller then reads its FIFO:
\* without a byte in it that ends at once, and the path is opened again.
Started(r) ==
  /\ launcher[r].pc = "starting" /\ terminal[r].pc # "opening"
  /\ LET on == IF r \in signalled THEN r ELSE fifo IN
     IF on = Absent THEN Returns(r)
     ELSE launcher' = [launcher EXCEPT ![r].pc = "waiting", ![r].on = on]
  /\ UNCHANGED <<reviewFiles, reviewHistory, terminal>>

\* TerminalLaunchFailed after ten seconds; the window may still appear.
StartupTimeout(r) ==
  /\ launcher[r].pc = "starting" /\ terminal[r].pc = "opening"
  /\ fifo' = Absent /\ Returns(r)
  /\ UNCHANGED <<document, approval, lock, signalled, terminal, reviewHistory>>

\* wait_for_fifo_signal returns; the caller removes the FIFO, reads the file.
ReviewReturns(r) ==
  /\ launcher[r].pc = "waiting" /\ launcher[r].on \in signalled
  /\ signalled' = signalled \ {launcher[r].on} /\ fifo' = Absent /\ Returns(r)
  /\ UNCHANGED <<document, approval, lock, terminal, reviewHistory>>

\* The caller is killed: none of its guards run.
Interrupted(r) ==
  /\ launcher[r].pc \in {"starting", "waiting"} /\ Returns(r)
  /\ UNCHANGED <<reviewFiles, reviewHistory, terminal>>

-----------------------------------------------------------------------------
\* complete_review writes the lock file whether or not there is one.
EditorOpens_TakesNoLock(r) ==
  /\ terminal[r].pc = "opening" /\ Window(r, [pc |-> "editing", buffer |-> document])
  /\ UNCHANGED <<reviewFiles, reviewHistory, launcher>>

EditorOpens(r) ==
  /\ terminal[r].pc = "opening" /\ Window(r, [pc |-> "editing", buffer |-> document])
  /\ lock' = TRUE
  /\ UNCHANGED <<document, approval, fifo, signalled, reviewHistory, launcher>>

\* A window whose caller has given up may never come.
NeverOpens(r) ==
  /\ terminal[r].pc = "opening" /\ launcher[r].pc = "idle" /\ Window(r, NoTerminal)
  /\ UNCHANGED <<reviewFiles, reviewHistory, launcher>>

\* on_review_complete, with the file as it is read after the editor.
on_review_complete_KeepsOld(d) == approval' = IF d.submit THEN d ELSE approval
on_review_complete(d) == approval' = IF d.submit THEN d ELSE Absent

\* What the user meant: the flag was off when the editor opened and is on in
\* what was saved.
Gesture(buffer, saved) == saved # Absent /\ saved.submit /\ buffer # Absent /\ ~buffer.submit

\* The editor exits with 0: `saved` is what the user wrote, Absent if nothing.
\* The guard removes the lock before the signal is sent.
EditorCloses(r, saved) ==
  LET d == IF saved = Absent THEN document ELSE saved
      meant == Gesture(terminal[r].buffer, saved) IN
  /\ MayClose(r)
  /\ document' = d
  /\ IF d = Absent THEN UNCHANGED <<approval, reviewHistory>>
     ELSE /\ on_review_complete(d)
          /\ standing' = IF meant THEN d ELSE Absent
          /\ granted' = IF meant THEN granted \cup {d} ELSE granted
  /\ lock' = FALSE
  /\ Window(r, [pc |-> "closed", buffer |-> Absent])
  /\ UNCHANGED <<fifo, signalled, launcher>>

EditorAborts_NoSignal(r, saved) ==
  /\ MayClose(r)
  /\ document' = IF saved = Absent THEN document ELSE saved
  /\ lock' = FALSE
  /\ Window(r, NoTerminal)
  /\ UNCHANGED <<approval, fifo, signalled, reviewHistory, launcher>>

\* A non-zero exit, with or without a save before it: no callback.
EditorAborts(r, saved) ==
  /\ MayClose(r)
  /\ document' = IF saved = Absent THEN document ELSE saved
  /\ lock' = FALSE
  /\ Window(r, [pc |-> "closed", buffer |-> Absent])
  /\ UNCHANGED <<approval, fifo, signalled, reviewHistory, launcher>>

\* The window is closed under the editor: no guard runs.
TerminalKilled(r) ==
  /\ terminal[r].pc = "editing" /\ Window(r, [pc |-> "killed", buffer |-> Absent])
  /\ UNCHANGED <<reviewFiles, reviewHistory, launcher>>

\* FifoSignalGuard, dropped last: it writes to the FIFO at the path, if it is
\* there and has a reader.
HasReader(f) == f # Absent /\ launcher[f].pc \in {"starting", "waiting"}

SignalDone(r) ==
  /\ terminal[r].pc = "closed"
  /\ signalled' = IF HasReader(fifo) THEN signalled \cup {fifo} ELSE signalled
  /\ Window(r, NoTerminal)
  /\ UNCHANGED <<document, approval, lock, fifo, reviewHistory, launcher>>

ReviewStep(r) ==
  \/ StartReview(r) \/ LaunchFails(r) \/ Started(r) \/ StartupTimeout(r)
  \/ ReviewReturns(r) \/ Interrupted(r)
  \/ EditorOpens(r) \/ NeverOpens(r) \/ TerminalKilled(r) \/ SignalDone(r)
  \/ \E c \in Content \cup {Absent} : EditorCloses(r, c) \/ EditorAborts(r, c)

\* What runs by itself, and a user who ends the editors that are open: strongly
\* fair, for MayClose only postpones the end.
ReviewFairness(r) ==
  /\ WF_reviewVars(StartReview(r) \/ LaunchFails(r))
  /\ WF_reviewVars(Started(r) \/ StartupTimeout(r))
  /\ WF_reviewVars(ReviewReturns(r))
  /\ SF_reviewVars(\E c \in Content \cup {Absent} : EditorCloses(r, c) \/ EditorAborts(r, c))
  /\ WF_reviewVars(SignalDone(r))
==============================================================================
