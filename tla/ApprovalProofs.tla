---------------------------- MODULE ApprovalProofs ----------------------------
(***************************************************************************)
(* What reaches GitHub was approved: the pull request of PrDraft and the   *)
(* issue of IssueSync, for any number of callers, texts, comments and      *)
(* files. The two share nothing but the user and are proved side by side.  *)
(*                                                                         *)
(* The reviews of a draft, when they keep clear of each other's windows    *)
(* and the agent leaves a draft alone that is under review: an approval is *)
(* a gesture because every editor shows the flag off. reset_approval_flags *)
(* clears it in the file, and nobody writes the file until the editor has  *)
(* loaded it. That holds because only one review at a time is on its way,  *)
(* and because a second editor is kept away by the lock, which a review    *)
(* looks at when it starts and takes much later.                           *)
(*                                                                         *)
(* The push of an issue: that a new comment is posted once is true at any  *)
(* time. That a push replaces nothing unread, and sends nothing            *)
(* unapproved, is decided when it compares: nobody may act between that    *)
(* moment and the last call.                                               *)
(***************************************************************************)
EXTENDS PrDraft, IssueSync, FiniteSetTheorems, TLAPS

-----------------------------------------------------------------------------
(* PrDraft: the review of a draft and its submission *)

\* Neither of the two races that the model can also explore.
Careful == ~Hasty /\ ~AgentMeanwhile

Opening(r) == terminal[r].pc = "opening"
Edits(r)   == terminal[r].pc = "editing"
OnItsWay(r) == \/ launcher[r].pc \in {"hook", "check", "starting"}
               \/ terminal[r].pc \in {"opening", "closed"}

\* One review on its way, one editor, which holds the lock, and no submission
\* beside either.
ReviewsApart ==
  /\ \A r, s \in Caller : OnItsWay(r) /\ OnItsWay(s) => r = s
  /\ \A r, s \in Caller :
       Edits(r) /\ (\/ terminal[s].pc \in {"opening", "editing", "closed"}
                    \/ launcher[s].pc = "starting") => r = s
  /\ \A r \in Caller : Edits(r) => lock
  /\ submitter.pc # "idle" => \A r \in Caller : ~OnItsWay(r) /\ ~Edits(r)

Unapproved(c) == c \in Content /\ ~c.submit

\* The file says what the review took it to say, and the flag is off from the
\* reset until the editor is closed.
FlagIsOff ==
  \A r \in Caller :
    /\ launcher[r].pc = "hook" => document \in Content /\ document = launcher[r].before
    /\ launcher[r].pc = "check" \/ Opening(r) \/ Edits(r) => Unapproved(document)
    /\ Edits(r) => Unapproved(terminal[r].buffer)

PullRequest == [draft: Content, open: BOOLEAN]

\* From the gesture to the pull request.
OnlyGranted ==
  /\ approval # Absent => approval = standing
  /\ standing # Absent => standing \in granted
  /\ submitter.pc # "idle" => submitter.copy \in granted
  /\ submitter.pc = "send" /\ submitter.update => pr \in PullRequest
  /\ pr # Absent => pr.draft \in granted

DraftInv == PrDraftTypeOK /\ ReviewsApart /\ FlagIsOff /\ OnlyGranted

-----------------------------------------------------------------------------
\* The callers: what they do before and after the editor.
CallerStep(r) == \/ StartReview(r) \/ LaunchFails(r) \/ Started(r) \/ StartupTimeout(r)
                 \/ ReviewReturns(r) \/ Interrupted(r)
\* The windows, but for an editor that ends.
WindowStep(r) == EditorOpens(r) \/ NeverOpens(r) \/ TerminalKilled(r) \/ SignalDone(r)

\* Every step keeps the invariant: one group of actions after the other.
LEMMA DraftInvStep ==
  ASSUME Careful, DraftInv, [DraftNext]_draftVars
  PROVE  DraftInv'
<1> USE ContentAssumption DEF Careful
<1>0. \A x \in Caller : launcher[x] \in Launcher /\ terminal[x] \in Terminal
  BY DEF DraftInv, PrDraftTypeOK, ReviewTypeOK
<1>1. ASSUME NEW r \in Caller, CallerStep(r), UNCHANGED <<pr, submitter>>
      PROVE  DraftInv'
  <2> USE <1>1 DEF CallerStep, StartReview, LaunchFails, Started, StartupTimeout, ReviewReturns,
          Interrupted, To, Returns, Window, reviewFiles, reviewHistory
  <2>1. PrDraftTypeOK'
    <3>1. launcher' \in [Caller -> Launcher]
      BY <1>0 DEF DraftInv, PrDraftTypeOK, ReviewTypeOK, Launcher, Idle
    <3>2. terminal' \in [Caller -> Terminal]
      BY <1>0 DEF DraftInv, PrDraftTypeOK, ReviewTypeOK, Terminal
    <3> QED BY <3>1, <3>2 DEF DraftInv, PrDraftTypeOK, ReviewTypeOK
  <2>2. \A x \in Caller \ {r} : launcher'[x] = launcher[x] /\ terminal'[x] = terminal[x]
    BY DEF DraftInv, PrDraftTypeOK, ReviewTypeOK
  <2>3. \/ launcher'[r].pc \in {"idle", "waiting"} /\ terminal'[r] = terminal[r]
        \/ /\ launcher[r].pc = "check" /\ ~lock
           /\ launcher'[r].pc = "starting" /\ terminal'[r].pc = "opening"
    BY <1>0 DEF DraftInv, PrDraftTypeOK, ReviewTypeOK, Launcher, Terminal, Idle
  <2>4. UNCHANGED <<document, approval, lock, standing, granted>>
    OBVIOUS
  <2>5. ReviewsApart'
    BY ONLY <1>1, <2>2, <2>3, <2>4, DraftInv DEF DraftInv, ReviewsApart, OnItsWay, Edits, Opening
  <2>6. FlagIsOff'
    BY ONLY <1>1, <2>2, <2>3, <2>4, DraftInv DEF DraftInv, FlagIsOff, Edits, Opening, Unapproved
  <2>7. OnlyGranted'
    BY <2>4 DEF DraftInv, OnlyGranted
  <2> QED BY <2>1, <2>5, <2>6, <2>7 DEF DraftInv
<1>2. ASSUME NEW r \in Caller, WindowStep(r), UNCHANGED <<pr, submitter>>
      PROVE  DraftInv'
  <2> USE <1>2 DEF WindowStep, EditorOpens, NeverOpens, TerminalKilled, SignalDone, HasReader,
          Window, reviewFiles, reviewHistory
  <2>1. PrDraftTypeOK'
    <3>1. terminal' \in [Caller -> Terminal]
      BY <1>0 DEF DraftInv, PrDraftTypeOK, ReviewTypeOK, Terminal, NoTerminal
    <3> QED BY <3>1 DEF DraftInv, PrDraftTypeOK, ReviewTypeOK
  <2>2. \A x \in Caller \ {r} : terminal'[x] = terminal[x]
    BY DEF DraftInv, PrDraftTypeOK, ReviewTypeOK
  <2>3. \/ terminal'[r].pc \in {"none", "killed"} /\ lock' = lock
        \/ Opening(r) /\ Edits(r)' /\ terminal'[r].buffer = document /\ lock'
    BY <1>0 DEF DraftInv, PrDraftTypeOK, ReviewTypeOK, Terminal, NoTerminal, Opening, Edits
  <2>4. UNCHANGED <<document, approval, standing, granted, launcher, submitter, pr>>
    OBVIOUS
  <2>5. ReviewsApart'
    BY ONLY <1>2, <2>2, <2>3, <2>4, DraftInv DEF DraftInv, ReviewsApart, OnItsWay, Edits, Opening
  <2>6. FlagIsOff'
    BY ONLY <1>2, <2>2, <2>3, <2>4, DraftInv DEF DraftInv, FlagIsOff, Edits, Opening, Unapproved
  <2>7. OnlyGranted'
    BY <2>4 DEF DraftInv, OnlyGranted
  <2> QED BY <2>1, <2>5, <2>6, <2>7 DEF DraftInv
<1>3. ASSUME NEW r \in Caller, NEW c \in Content \cup {Absent},
             EditorCloses(r, c) \/ EditorAborts(r, c), UNCHANGED <<pr, submitter>>
      PROVE  DraftInv'
  <2> USE <1>3 DEF EditorCloses, EditorAborts, MayClose, Window, reviewHistory
  <2>1. Edits(r) /\ \A x \in Caller : launcher[x].pc \notin {"hook", "check"}
    BY DEF Edits
  <2>2. \A x \in Caller \ {r} : ~Edits(x) /\ ~Opening(x) /\ terminal'[x] = terminal[x]
    BY <2>1 DEF DraftInv, ReviewsApart, PrDraftTypeOK, ReviewTypeOK, Edits, Opening
  <2>3. terminal'[r] = [pc |-> "closed", buffer |-> Absent] /\ UNCHANGED launcher
    BY DEF DraftInv, PrDraftTypeOK, ReviewTypeOK
  <2>4. Unapproved(document) /\ Unapproved(terminal[r].buffer)
    BY <2>1 DEF DraftInv, FlagIsOff
  <2>5. /\ document' = IF c = Absent THEN document ELSE c
        /\ \/ UNCHANGED <<approval, standing, granted>>
           \/ /\ approval' = (IF document'.submit THEN document' ELSE Absent)
              /\ IF c # Absent /\ c.submit THEN standing' = c /\ granted' = granted \cup {c}
                 ELSE standing' = Absent /\ granted' = granted
    BY <2>4 DEF on_review_complete, Gesture, Unapproved
  <2>6. document' \in Content
    BY <2>4, <2>5 DEF Unapproved
  <2>7. PrDraftTypeOK'
    <3>1. approval' \in Content \cup {Absent} /\ standing' \in Content \cup {Absent}
          /\ granted' \subseteq Content
      BY <2>5, <2>6 DEF DraftInv, PrDraftTypeOK, ReviewTypeOK
    <3>2. terminal' \in [Caller -> Terminal]
      BY <2>2, <2>3 DEF DraftInv, PrDraftTypeOK, ReviewTypeOK, Terminal
    <3> QED BY <2>6, <3>1, <3>2 DEF DraftInv, PrDraftTypeOK, ReviewTypeOK
  <2>8. ReviewsApart'
    <3>1. \A x \in Caller : OnItsWay(x) => x = r
      BY <2>1 DEF DraftInv, ReviewsApart, OnItsWay
    <3>2. \A x \in Caller : OnItsWay(x)' => x = r
      BY <2>2, <2>3, <3>1 DEF OnItsWay
    <3>3. submitter'.pc = "idle"
      BY <2>1 DEF DraftInv, ReviewsApart
    <3>4. \A x \in Caller : ~Edits(x)'
      BY <2>2, <2>3 DEF Edits
    <3> QED BY <3>2, <3>3, <3>4 DEF ReviewsApart
  <2>9. FlagIsOff'
    BY <2>1, <2>2, <2>3 DEF FlagIsOff, Edits, Opening
  <2>10. OnlyGranted'
    BY <2>4, <2>5 DEF DraftInv, OnlyGranted, Unapproved
  <2> QED BY <2>7, <2>8, <2>9, <2>10 DEF DraftInv
<1>4. ASSUME NEW r \in Caller, ReviewBegin(r) \/ HookFails(r) \/ reset_approval_flags(r)
      PROVE  DraftInv'
  <2> USE <1>4 DEF ReviewBegin, HookFails, reset_approval_flags, To, Returns, reviewFiles,
          reviewHistory
  <2>1. UNCHANGED <<approval, lock, terminal, submitter, pr, standing, granted>>
    OBVIOUS
  <2>2. \A x \in Caller \ {r} : launcher'[x] = launcher[x]
    BY DEF DraftInv, PrDraftTypeOK, ReviewTypeOK
  <2>3. \/ launcher'[r].pc = "idle" /\ UNCHANGED document
        \/ /\ ~InFlux /\ submitter.pc = "idle" /\ document \in Content /\ UNCHANGED document
           /\ launcher'[r].pc = "hook" /\ launcher'[r].before = document
        \/ /\ launcher[r].pc = "hook" /\ launcher'[r].pc = "check"
           /\ document' = [document EXCEPT !.submit = FALSE]
    <3>1. CASE ReviewBegin(r)
      BY <1>0, <3>1 DEF DraftInv, PrDraftTypeOK, ReviewTypeOK, Launcher
    <3>2. CASE HookFails(r)
      BY <1>0, <3>2 DEF DraftInv, PrDraftTypeOK, ReviewTypeOK, Idle
    <3>3. CASE reset_approval_flags(r)
      <4>1. document \in Content /\ document = launcher[r].before
        BY <3>3 DEF DraftInv, FlagIsOff
      <4>2. CASE document.submit
        BY <1>0, <3>3, <4>1, <4>2 DEF DraftInv, PrDraftTypeOK, ReviewTypeOK, Launcher, Content
      <4>3. CASE ~document.submit
        <5>1. launcher' = [launcher EXCEPT ![r].pc = "check"] /\ UNCHANGED document
          BY <3>3, <4>1, <4>3
        <5>2. document = [document EXCEPT !.submit = FALSE]
          BY <4>1, <4>3 DEF Content
        <5> QED BY <1>0, <3>3, <5>1, <5>2 DEF DraftInv, PrDraftTypeOK, ReviewTypeOK, Launcher
      <4> QED BY <4>2, <4>3
    <3> QED BY <3>1, <3>2, <3>3
  <2>4. PrDraftTypeOK'
    <3>1. launcher' \in [Caller -> Launcher]
      BY <1>0 DEF DraftInv, PrDraftTypeOK, ReviewTypeOK, Launcher, Idle, Content
    <3>2. document' \in Content \cup {Absent}
      BY DEF DraftInv, PrDraftTypeOK, ReviewTypeOK, Content
    <3> QED BY <2>1, <3>1, <3>2 DEF DraftInv, PrDraftTypeOK, ReviewTypeOK
  <2>5. ReviewsApart'
    BY ONLY <1>4, <2>1, <2>2, <2>3, DraftInv
       DEF DraftInv, ReviewsApart, InFlux, OnItsWay, Edits, Opening
  <2>6. FlagIsOff'
    <3>1. CASE launcher'[r].pc # "check"
      BY ONLY <1>4, <2>1, <2>2, <2>3, <3>1, DraftInv
         DEF DraftInv, FlagIsOff, Edits, Opening, Unapproved
    <3>2. CASE launcher'[r].pc = "check"
      <4>1. \A x \in Caller \ {r} : launcher[x].pc # "hook"
        BY <2>3, <3>2 DEF DraftInv, ReviewsApart, OnItsWay
      <4>2. Unapproved(document)'
        BY <2>3, <3>2, <1>0 DEF DraftInv, FlagIsOff, Unapproved, Content
      <4> QED BY ONLY <1>4, <2>1, <2>2, <3>2, <4>1, <4>2, DraftInv
              DEF DraftInv, FlagIsOff, Edits, Opening, Unapproved
    <3> QED BY <3>1, <3>2
  <2>7. OnlyGranted'
    BY <2>1 DEF DraftInv, OnlyGranted
  <2> QED BY <2>4, <2>5, <2>6, <2>7 DEF DraftInv
<1>5. CASE (\E t \in Text, force \in BOOLEAN : NewDraft(t, force)) \/ \E c \in Content : AgentEdits(c)
  <2> USE DEF NewDraft, AgentEdits, AgentMayWrite, reviewHistory
  <2>1. /\ document' \in Content /\ ~UnderReview
        /\ UNCHANGED <<approval, lock, fifo, signalled, launcher, terminal, standing, granted, submitter, pr>>
    <3>1. CASE \E c \in Content : AgentEdits(c)
      BY <3>1
    <3>2. CASE \E t \in Text, force \in BOOLEAN : NewDraft(t, force)
      BY <3>2 DEF Content
    <3> QED BY <1>5, <3>1, <3>2
  <2>2. PrDraftTypeOK'
    BY <2>1 DEF DraftInv, PrDraftTypeOK, ReviewTypeOK
  <2>3. ReviewsApart'
    BY <2>1 DEF DraftInv, ReviewsApart, OnItsWay, Edits, Opening
  <2>4. FlagIsOff'
    BY <2>1 DEF UnderReview, FlagIsOff, Edits, Opening
  <2>5. OnlyGranted'
    BY <2>1 DEF DraftInv, OnlyGranted
  <2> QED BY <2>2, <2>3, <2>4, <2>5 DEF DraftInv
<1>6. CASE SubmitBegin \/ SubmitLookup \/ SubmitSend \/ SubmitCleanup \/ SubmitFails \/ PrCloses
  <2> USE <1>6 DEF NoSubmit, reviewVars, reviewFiles, reviewHistory
  <2>1. CASE SubmitBegin
    <3>1. /\ ~lock /\ ~InFlux /\ document \in Content /\ document = approval
          /\ submitter' = [pc |-> "lookup", copy |-> document, update |-> FALSE]
          /\ UNCHANGED <<reviewVars, pr>>
      BY <2>1 DEF SubmitBegin, DraftInv, PrDraftTypeOK, ReviewTypeOK
    <3>2. PrDraftTypeOK'
      BY <3>1 DEF DraftInv, PrDraftTypeOK, ReviewTypeOK
    <3>3. ReviewsApart'
      BY <3>1 DEF DraftInv, ReviewsApart, InFlux, OnItsWay, Edits, Opening
    <3>4. FlagIsOff' /\ OnlyGranted'
      BY <3>1 DEF DraftInv, FlagIsOff, OnlyGranted, Edits, Opening
    <3> QED BY <3>2, <3>3, <3>4 DEF DraftInv
  <2>2. CASE SubmitLookup
    <3>1. /\ submitter.pc = "lookup" /\ UNCHANGED <<reviewVars, pr>>
          /\ submitter' \in [pc: {"send"}, copy: {submitter.copy}, update: BOOLEAN]
          /\ submitter'.update => pr # Absent
      BY <2>2 DEF SubmitLookup, DraftInv, PrDraftTypeOK
    <3>2. PrDraftTypeOK'
      BY <3>1 DEF DraftInv, PrDraftTypeOK, ReviewTypeOK
    <3>3. ReviewsApart'
      BY <3>1 DEF DraftInv, ReviewsApart, OnItsWay, Edits, Opening
    <3>4. FlagIsOff' /\ OnlyGranted'
      BY <3>1 DEF DraftInv, FlagIsOff, OnlyGranted, Edits, Opening, PullRequest, PrDraftTypeOK
    <3> QED BY <3>2, <3>3, <3>4 DEF DraftInv
  <2>3. CASE SubmitSend
    <3>1. /\ submitter.pc = "send" /\ UNCHANGED reviewVars
          /\ submitter' = [submitter EXCEPT !.pc = "cleanup"]
          /\ pr' \in PullRequest /\ pr'.draft = submitter.copy
      BY <2>3 DEF SubmitSend, DraftInv, OnlyGranted, PrDraftTypeOK, ReviewTypeOK, PullRequest
    <3>2. PrDraftTypeOK'
      BY <3>1 DEF DraftInv, PrDraftTypeOK, ReviewTypeOK, PullRequest
    <3>3. ReviewsApart'
      BY <3>1 DEF DraftInv, ReviewsApart, OnItsWay, Edits, Opening, PrDraftTypeOK
    <3>4. FlagIsOff' /\ OnlyGranted'
      BY <3>1 DEF DraftInv, FlagIsOff, OnlyGranted, Edits, Opening, PrDraftTypeOK
    <3> QED BY <3>2, <3>3, <3>4 DEF DraftInv
  <2>4. CASE SubmitCleanup
    <3>1. /\ submitter.pc = "cleanup" /\ submitter'.pc = "idle"
          /\ document' = Absent /\ approval' = Absent /\ UNCHANGED <<launcher, terminal, standing, granted, pr>>
      BY <2>4 DEF SubmitCleanup
    <3>2. PrDraftTypeOK'
      BY <2>4 DEF SubmitCleanup, DraftInv, PrDraftTypeOK, ReviewTypeOK
    <3>3. \A x \in Caller : ~OnItsWay(x) /\ ~Edits(x)
      BY <3>1 DEF DraftInv, ReviewsApart
    <3>4. ReviewsApart' /\ FlagIsOff'
      BY <3>1, <3>3 DEF ReviewsApart, FlagIsOff, OnItsWay, Edits, Opening
    <3>5. OnlyGranted'
      BY <3>1 DEF DraftInv, OnlyGranted
    <3> QED BY <3>2, <3>4, <3>5 DEF DraftInv
  <2>5. CASE SubmitFails \/ PrCloses
    <3>1. /\ UNCHANGED reviewVars
          /\ \/ submitter' = NoSubmit /\ pr' = pr
             \/ pr' \in PullRequest /\ pr # Absent /\ pr'.draft = pr.draft /\ submitter' = submitter
      <4>1. CASE SubmitFails
        BY <4>1 DEF SubmitFails
      <4>2. CASE PrCloses
        <5>1. pr \in PullRequest /\ pr # Absent
          BY <4>2 DEF PrCloses, PullRequest, DraftInv, PrDraftTypeOK
        <5> QED BY <4>2, <5>1 DEF PrCloses, PullRequest
      <4> QED BY <2>5, <4>1, <4>2
    <3>2. PrDraftTypeOK'
      <4>1. submitter' \in [pc: {"idle", "lookup", "send", "cleanup"}, copy: Content \cup {Absent},
                             update: BOOLEAN]
        <5>1. \/ submitter' = submitter
              \/ submitter' = [pc |-> "idle", copy |-> Absent, update |-> FALSE]
          BY <3>1
        <5>2. CASE submitter' = submitter
          BY <5>2 DEF DraftInv, PrDraftTypeOK
        <5>3. CASE submitter' = [pc |-> "idle", copy |-> Absent, update |-> FALSE]
          BY <5>3
        <5> QED BY <5>1, <5>2, <5>3
      <4>2. pr' \in PullRequest \cup {Absent}
        BY <3>1 DEF DraftInv, PrDraftTypeOK, PullRequest
      <4> QED BY <3>1, <4>1, <4>2 DEF DraftInv, PrDraftTypeOK, ReviewTypeOK, PullRequest
    <3>3. ReviewsApart'
      BY <3>1 DEF DraftInv, ReviewsApart, OnItsWay, Edits, Opening
    <3>4. FlagIsOff'
      BY <3>1 DEF DraftInv, FlagIsOff, Edits, Opening
    <3>5. OnlyGranted'
      BY <3>1 DEF DraftInv, OnlyGranted
    <3> QED BY <3>2, <3>3, <3>4, <3>5 DEF DraftInv
  <2> QED BY <1>6, <2>1, <2>2, <2>3, <2>4, <2>5
<1>7. CASE UNCHANGED draftVars
  BY <1>7 DEF draftVars, reviewVars, reviewFiles, reviewHistory, DraftInv, PrDraftTypeOK, ReviewTypeOK,
              ReviewsApart, OnItsWay, Edits, Opening, FlagIsOff, Unapproved, OnlyGranted
<1> QED BY <1>1, <1>2, <1>3, <1>4, <1>5, <1>6, <1>7
        DEF DraftNext, ReviewStep, CallerStep, WindowStep

\* Without the two races the invariant holds in every reachable state.
LEMMA DraftInvAlways == Careful => (DraftSpec => []DraftInv)
<1> SUFFICES ASSUME Careful PROVE DraftSpec => []DraftInv
  OBVIOUS
<1>1. DraftInit => DraftInv
  <2> SUFFICES ASSUME DraftInit PROVE DraftInv
    OBVIOUS
  <2> USE DEF DraftInit, ReviewInit, Idle, NoTerminal, NoSubmit
  <2>1. PrDraftTypeOK
    BY DEF PrDraftTypeOK, ReviewTypeOK, Launcher, Terminal
  <2>2. ReviewsApart /\ FlagIsOff
    BY DEF ReviewsApart, FlagIsOff, OnItsWay, Edits, Opening
  <2>3. OnlyGranted
    BY DEF OnlyGranted
  <2> QED BY <2>1, <2>2, <2>3 DEF DraftInv
<1>2. DraftInv /\ [DraftNext]_draftVars => DraftInv'
  BY DraftInvStep
<1> QED BY <1>1, <1>2, PTL DEF DraftSpec

-----------------------------------------------------------------------------
(* The theorems *)

\* Two editors never have the draft open at once, however many callers ask for
\* a review and whatever becomes of them, and the lock file stands for the one
\* that has.
THEOREM OneEditorAtATime == Careful => (DraftSpec => []OneEditor)
<1> SUFFICES ASSUME Careful PROVE DraftSpec => []OneEditor
  OBVIOUS
<1>1. DraftInv => OneEditor
  <2> SUFFICES ASSUME DraftInv PROVE OneEditor
    OBVIOUS
  <2>1. Editing # {} => lock
    BY DEF DraftInv, ReviewsApart, Edits, Editing
  <2>2. CASE Editing = {}
    BY <2>1, <2>2, FS_EmptySet DEF OneEditor
  <2>3. CASE Editing # {}
    <3>1. PICK r \in Caller : Editing = {r}
      BY <2>3 DEF DraftInv, ReviewsApart, Edits, Editing
    <3>2. Cardinality(Editing) = 1
      BY <3>1, FS_Singleton
    <3> QED BY <2>1, <3>2 DEF OneEditor
  <2> QED BY <2>2, <2>3
<1> QED BY <1>1, DraftInvAlways, PTL

\* An approval record always stands for the user turning the flag on in an
\* editor that showed it off, for just the content that is approved.
THEOREM ApprovalStandsForAGesture == Careful => (DraftSpec => []ApprovalIsAGesture)
<1> SUFFICES ASSUME Careful PROVE DraftSpec => []ApprovalIsAGesture
  OBVIOUS
<1>1. DraftInv => ApprovalIsAGesture
  BY DEF DraftInv, OnlyGranted, ApprovalIsAGesture
<1> QED BY <1>1, DraftInvAlways, PTL

\* Whatever the pull request says was approved word for word, in spite of
\* everything that was written to the draft before, between and after the
\* steps of the submission.
THEOREM PullRequestWasApproved == Careful => (DraftSpec => []PrWasApproved)
<1> SUFFICES ASSUME Careful PROVE DraftSpec => []PrWasApproved
  OBVIOUS
<1>1. DraftInv => PrWasApproved
  BY DEF DraftInv, OnlyGranted, PrWasApproved
<1> QED BY <1>1, DraftInvAlways, PTL

-----------------------------------------------------------------------------
(* IssueSync: the push of an issue *)

(* The types, without the bound on the clock *)
IssueType == [val: [Field -> Value], updated_at: Nat, last_edited_at: Nat]
CommentType == [val: Value, updated_at: Nat, mine: BOOLEAN]
CommentsType == [Comment -> CommentType \cup {None}]
NewType == [NewFile -> Value \cup {None}]
File == {"issue"} \cup Comment \cup NewFile
Source == [issue: IssueType, files: CommentsType, new: NewType, approved: SUBSET File]
Change == {"field", "update", "new", "delete"} \X Item
Job == [pc: {"idle", "pull", "check", "apply", "save"}, force: BOOLEAN,
        issue: IssueType \cup {None}, comments: CommentsType \cup {None},
        src: Source \cup {None}, todo: SUBSET Change, changed: SUBSET File]

\* What a push has fetched, and what it is about to send.
Fetched == job.pc \in {"pull", "check"} => job.issue \in IssueType /\ job.comments \in CommentsType
Prepared ==
  job.pc = "apply" =>
    /\ job.src \in Source
    /\ \A c \in Comment : <<"update", c>> \in job.todo => job.src.files[c] # None
    /\ \A n \in NewFile : <<"new", n>> \in job.todo => job.src.new[n] # None

SyncTyped ==
  /\ remote \in IssueType /\ comments \in CommentsType
  /\ local \in IssueType \cup {None} /\ files \in CommentsType
  /\ new \in NewType /\ approved \subseteq File
  /\ job \in Job /\ clock \in Nat
  /\ unread \subseteq Field \cup Comment
  /\ posts \in [NewFile -> Nat] /\ lost \subseteq NewFile
  /\ job.pc = "check" => local \in IssueType
  /\ Fetched /\ Prepared

\* A new file that was posted as often as it may be is gone, and not on the
\* list of a push.
Bound(n) == IF n \in lost THEN 2 ELSE 1
PostInv ==
  \A n \in NewFile :
    /\ posts[n] <= Bound(n)
    /\ posts[n] = Bound(n) =>
         new[n] = None /\ (job.pc = "apply" => <<"new", n>> \notin job.todo)

\* What was changed and not read has a later time than what is in the
\* directory, so that a push without --force finds it.
TimesPass ==
  /\ remote.updated_at <= clock /\ remote.last_edited_at <= clock
  /\ \A c \in Comment : comments[c] # None => comments[c].updated_at <= clock
  /\ local # None => local.updated_at <= clock /\ local.last_edited_at <= clock
  /\ \A c \in Comment : files[c] # None => files[c].updated_at <= clock
UnreadIsLater ==
  /\ "title" \in unread => local = None \/ local.updated_at < remote.updated_at
  /\ "body" \in unread => local = None \/ local.last_edited_at < remote.last_edited_at
  /\ \A c \in Comment : c \in unread =>
       \/ files[c] = None \/ comments[c] = None
       \/ files[c].updated_at < comments[c].updated_at
\* While nobody acts, what was fetched is what is on GitHub.
FetchedIsCurrent ==
  /\ job.pc \in {"pull", "check"} => job.issue = remote /\ job.comments = comments
  /\ job.pc = "check" => local # None
TodoIsRead ==
  job.pc = "apply" /\ ~job.force =>
    /\ \A f \in {"body", "title"} : <<"field", f>> \in job.todo => f \notin unread
    /\ \A c \in Comment : <<"update", c>> \in job.todo => c \notin unread
ReadInv == TimesPass /\ UnreadIsLater /\ FetchedIsCurrent /\ TodoIsRead

\* Everything a push sends was approved when it was compared.
TodoIsApproved ==
  job.pc = "apply" =>
    /\ \A f \in Field : <<"field", f>> \in job.todo => "issue" \in job.src.approved
    /\ \A c \in Comment : <<"update", c>> \in job.todo => c \in job.src.approved
    /\ \A n \in NewFile : <<"new", n>> \in job.todo => n \in job.src.approved

SyncInv == SyncTyped /\ PostInv /\ TodoIsApproved /\ (~Meanwhile => ReadInv)

-----------------------------------------------------------------------------
\* What a change of one field makes of the issue.
LEMMA EditedIs ==
  ASSUME NEW r \in IssueType, NEW f \in Field, NEW v \in Value, clock \in Nat
  PROVE  /\ Edited(r, f, v) \in IssueType
         /\ Edited(r, f, v).val = [r.val EXCEPT ![f] = v]
         /\ Edited(r, f, v).updated_at = clock + 1
         /\ Edited(r, f, v).last_edited_at = IF f = "body" THEN clock + 1 ELSE r.last_edited_at
<1>1. Edited(r, f, v).val = [r.val EXCEPT ![f] = v]
  BY DEF Edited, Now, IssueType
<1>2. Edited(r, f, v).updated_at = clock + 1
  BY DEF Edited, Now, IssueType
<1>3. Edited(r, f, v).last_edited_at = IF f = "body" THEN clock + 1 ELSE r.last_edited_at
  BY DEF Edited, Now, IssueType
<1>4. Edited(r, f, v) \in IssueType
  <2>1. Now \in Nat
    BY DEF Now
  <2>2. CASE f = "body"
    BY <2>1, <2>2 DEF Edited, IssueType
  <2>3. CASE f # "body"
    BY <2>1, <2>3 DEF Edited, IssueType
  <2> QED BY <2>2, <2>3
<1> QED BY <1>1, <1>2, <1>3, <1>4

\* The variables keep their types.
LEMMA TypedStep ==
  ASSUME SyncTyped, [Next]_vars
  PROVE  SyncTyped'
<1> USE SyncAssumption DEF SyncTyped, directory, github, history
<1>0. NoJob \in Job /\ NoJob.pc = "idle"
  BY DEF NoJob, Job
<1>1. ASSUME NEW v \in Value, NEW f \in Field, OtherEdits(f, v)
      PROVE  SyncTyped'
  <2>1. Edited(remote, f, v) \in IssueType
    BY EditedIs
  <2>2. remote' \in IssueType /\ clock' \in Nat
    BY <1>1, <2>1 DEF OtherEdits, Now
  <2> QED BY <1>1, <2>2 DEF OtherEdits, Fetched, Prepared
<1>2. ASSUME NEW v \in Value, NEW c \in Comment, OtherComments(c, v)
      PROVE  SyncTyped'
  <2>1. comments' \in CommentsType
    <3>1. [val |-> v, updated_at |-> clock + 1,
           mine |-> IF comments[c] = None THEN FALSE ELSE comments[c].mine] \in CommentType
      <4>1. CASE comments[c] = None
        BY <4>1 DEF CommentType
      <4>2. CASE comments[c] # None
        BY <4>2 DEF CommentsType, CommentType
      <4> QED BY <4>1, <4>2
    <3> QED BY <1>2, <3>1 DEF OtherComments, CommentsType, Now
  <2>2. remote' \in IssueType /\ clock' \in Nat
    BY <1>2 DEF OtherComments, IssueType, Now
  <2> QED BY <1>2, <2>1, <2>2 DEF OtherComments, Fetched, Prepared
<1>3. ASSUME NEW c \in Comment, OtherDeletes(c)
      PROVE  SyncTyped'
  BY <1>3 DEF OtherDeletes, CommentsType, IssueType, Now, Fetched, Prepared
<1>4. CASE UserActs
  <2>1. ASSUME NEW v \in Value, NEW f \in Field, EditField(f, v)
        PROVE  SyncTyped'
    <3>1. local' \in IssueType
      BY <2>1 DEF EditField, IssueType
    <3> QED BY <2>1, <3>1 DEF EditField, MayAct, Fetched, Prepared
  <2>2. ASSUME NEW v \in Value, NEW c \in Comment, EditComment(c, v)
        PROVE  SyncTyped'
    <3>1. files' \in CommentsType
      BY <2>2 DEF EditComment, CommentsType, CommentType
    <3> QED BY <2>2, <3>1 DEF EditComment, Fetched, Prepared
  <2>3. ASSUME NEW v \in Value, NEW n \in NewFile, WriteNew(n, v)
        PROVE  SyncTyped'
    BY <2>3 DEF WriteNew, NewType, Fetched, Prepared
  <2>4. ASSUME NEW c \in Comment, DeleteFile(c)
        PROVE  SyncTyped'
    BY <2>4 DEF DeleteFile, CommentsType, Fetched, Prepared
  <2>5. ASSUME NEW f \in File, Approve(f)
        PROVE  SyncTyped'
    BY <2>5 DEF Approve, Fetched, Prepared
  <2> QED BY <1>4, <2>1, <2>2, <2>3, <2>4, <2>5 DEF UserActs, File
<1>5. CASE PullStart \/ PushStart
  <2>1. /\ job' \in Job /\ job'.pc \in {"pull", "check"}
        /\ job'.issue = remote /\ job'.comments = comments
        /\ job'.pc = "check" => local \in IssueType
    <3>1. NoJob \in Job /\ remote \in IssueType /\ comments \in CommentsType
      BY DEF NoJob, Job
    <3>2. CASE PullStart
      <4>1. job' = [NoJob EXCEPT !.pc = "pull", !.issue = remote, !.comments = comments]
        BY <3>2 DEF PullStart
      <4> QED BY <3>1, <4>1 DEF NoJob, Job
    <3>3. CASE PushStart
      <4>1. /\ job' = [NoJob EXCEPT !.pc = "check", !.issue = remote, !.comments = comments]
            /\ local \in IssueType
        BY <3>3 DEF PushStart
      <4> QED BY <3>1, <4>1 DEF NoJob, Job
    <3> QED BY <1>5, <3>2, <3>3
  <2> QED BY <1>5, <2>1 DEF PullStart, PushStart, Fetched, Prepared
<1>6. ASSUME NEW force \in BOOLEAN, PullSave(force)
      PROVE  SyncTyped'
  <2>1. job' = NoJob /\ UNCHANGED <<github, clock, posts, lost, new>> /\ approved' \subseteq approved
    BY <1>6 DEF PullSave, save_issue_to_storage
  <2>2. local' \in IssueType \cup {None} /\ files' \in CommentsType
    BY <1>6 DEF PullSave, save_issue_to_storage, Fetched
  <2>3. unread' \subseteq Field \cup Comment
    BY <1>6 DEF PullSave, save_issue_to_storage, StillUnread
  <2> QED BY <1>0, <2>1, <2>2, <2>3 DEF Fetched, Prepared
<1>7. ASSUME NEW flags \in SUBSET Flags, PushCheck(flags)
      PROVE  SyncTyped'
  <2>1. CASE job' = NoJob
    BY <1>7, <1>0, <2>1 DEF PushCheck, Fetched, Prepared
  <2>2. CASE job' # NoJob
    <3>1. /\ job.pc = "check" /\ local \in IssueType
          /\ job' = [job EXCEPT !.pc = "apply", !.force = "force" \in flags,
                                !.todo = ChangeSet, !.changed = collect_approval_paths,
                                !.src = [issue |-> local, files |-> files, new |-> new,
                                         approved |-> approved]]
      BY <1>7, <2>2 DEF PushCheck
    <3>2. ChangeSet \subseteq Change
      BY DEF ChangeSet, Change, changed_fields, Updates, News, Deletes, Modified, deleted_comments, Item
    <3>3. collect_approval_paths \subseteq File
      BY DEF collect_approval_paths, Modified, File
    <3>4. [issue |-> local, files |-> files, new |-> new, approved |-> approved] \in Source
      BY <3>1 DEF Source
    <3>5. job' \in Job
      <4> DEFINE todo == ChangeSet
                 changed == collect_approval_paths
                 src == [issue |-> local, files |-> files, new |-> new, approved |-> approved]
                 force == "force" \in flags
      <4>1. todo \in SUBSET Change /\ changed \in SUBSET File /\ src \in Source /\ force \in BOOLEAN
        BY <3>2, <3>3, <3>4
      <4>2. job' = [job EXCEPT !.pc = "apply", !.force = force, !.todo = todo, !.changed = changed,
                               !.src = src]
        BY <3>1
      <4> HIDE DEF todo, changed, src, force
      <4> QED BY <4>1, <4>2 DEF Job
    <3>6. /\ job'.pc = "apply" /\ job'.todo = ChangeSet
          /\ job'.src = [issue |-> local, files |-> files, new |-> new, approved |-> approved]
      BY <3>1 DEF Job
    <3>7. \A c \in Comment : <<"update", c>> \in ChangeSet => files[c] # None
      BY DEF ChangeSet, Updates, News, Deletes, Modified
    <3>8. \A n \in NewFile : <<"new", n>> \in ChangeSet => new[n] # None
      BY DEF ChangeSet, Updates, News, Deletes
    <3>9. Prepared'
      BY <3>4, <3>6, <3>7, <3>8 DEF Prepared
    <3> QED BY <1>7, <3>5, <3>6, <3>9 DEF PushCheck, Fetched
  <2> QED BY <2>1, <2>2
\* One call of a push: the list only gets shorter, the source stays.
<1>8. ASSUME NEW x, Done(x), job.pc = "apply"
      PROVE  /\ job' \in Job /\ job'.pc \in {"apply", "save"} /\ clock' \in Nat
             /\ Fetched' /\ Prepared'
  <2>1. /\ job' = [job EXCEPT !.todo = @ \ {x}, !.pc = IF job.todo = {x} THEN "save" ELSE "apply"]
        /\ clock' = clock + 1
    BY <1>8 DEF Done, Now
  <2>2. /\ job' \in Job /\ job'.pc \in {"apply", "save"}
        /\ job'.src = job.src /\ job'.todo = job.todo \ {x}
    BY <2>1 DEF Job
  <2> QED BY <1>8, <2>1, <2>2 DEF Fetched, Prepared
<1>9. ASSUME NEW f \in Field, ApplyField(f)
      PROVE  SyncTyped'
  <2>1. job.pc = "apply" /\ job.src.issue.val[f] \in Value
    BY <1>9 DEF ApplyField, IsNext, Prepared, Source, IssueType
  <2>2. remote' \in IssueType
    BY <1>9, <2>1, EditedIs DEF ApplyField
  <2> QED BY <1>8, <1>9, <2>1, <2>2 DEF ApplyField
<1>10. ASSUME NEW f \in Field, NEW v \in Value, ApplyFieldHalfway(f, v)
       PROVE  SyncTyped'
  <2>1. Edited(remote, f, v) \in IssueType
    BY EditedIs
  <2> QED BY <1>0, <1>10, <2>1 DEF ApplyFieldHalfway, Now, Fetched, Prepared
<1>11. ASSUME NEW c \in Comment, ApplyUpdate(c)
       PROVE  SyncTyped'
  <2>1. job.pc = "apply" /\ job.src.files[c].val \in Value /\ comments[c] \in CommentType
    BY <1>11 DEF ApplyUpdate, IsNext, Prepared, Source, CommentsType, CommentType
  <2> DEFINE texts == [comments EXCEPT ![c].val = job.src.files[c].val]
  <2>2. texts \in CommentsType /\ texts[c] \in CommentType
    BY <2>1 DEF CommentsType, CommentType
  <2>3. comments' = [texts EXCEPT ![c].updated_at = clock + 1]
    BY <1>11 DEF ApplyUpdate, Now
  <2>4. comments' \in CommentsType
    <3> HIDE DEF texts
    <3> QED BY <2>2, <2>3 DEF CommentsType, CommentType
  <2>5. remote' \in IssueType
    BY <1>11 DEF ApplyUpdate, IssueType, Now
  <2> QED BY <1>8, <1>11, <2>1, <2>4, <2>5 DEF ApplyUpdate
<1>12. ASSUME NEW c \in Comment, ApplyDelete(c)
       PROVE  SyncTyped'
  <2>1. job.pc = "apply" /\ comments' \in CommentsType
    BY <1>12 DEF ApplyDelete, IsNext, CommentsType
  <2>2. remote' \in IssueType
    BY <1>12 DEF ApplyDelete, IssueType, Now
  <2> QED BY <1>8, <1>12, <2>1, <2>2 DEF ApplyDelete
<1>13. ASSUME NEW c \in Comment, NEW n \in NewFile, Created(n, c)
       PROVE  /\ job.pc = "apply" /\ comments' \in CommentsType /\ remote' \in IssueType
              /\ posts' \in [NewFile -> Nat] /\ clock' \in Nat /\ UNCHANGED <<local, files, unread>>
  <2>1. job.pc = "apply" /\ job.src.new[n] \in Value
    BY <1>13 DEF Created, IsNext, Prepared, Source, NewType
  <2>2. comments' \in CommentsType
    BY <1>13, <2>1 DEF Created, CommentsType, CommentType, Now
  <2> QED BY <1>13, <2>1, <2>2 DEF Created, IssueType, Now
<1>14. ASSUME NEW c \in Comment, NEW n \in NewFile, ApplyNew(n, c)
       PROVE  SyncTyped'
  <2>1. new' \in NewType /\ approved' \subseteq File /\ lost' = lost
    BY <1>14 DEF ApplyNew, NewType
  <2> QED BY <1>8, <1>13, <1>14, <2>1 DEF ApplyNew
<1>15. ASSUME NEW c \in Comment, NEW n \in NewFile, ApplyNewUnanswered(n, c)
       PROVE  SyncTyped'
  BY <1>0, <1>13, <1>15 DEF ApplyNewUnanswered, Fetched, Prepared
<1>16. CASE PushFails
  BY <1>0, <1>16 DEF PushFails, Fetched, Prepared
<1>17. CASE PushSave
  BY <1>0, <1>17 DEF PushSave, Fetched, Prepared
<1>18. CASE UNCHANGED vars
  BY <1>18 DEF vars, Fetched, Prepared
<1> QED BY <1>1, <1>2, <1>3, <1>4, <1>5, <1>6, <1>7, <1>9, <1>10, <1>11, <1>12, <1>14, <1>15, <1>16,
           <1>17, <1>18 DEF Next, OthersAct, Pull, Push

-----------------------------------------------------------------------------
\* The invariant holds in every reachable state.
LEMMA SyncInvAlways == Spec => []SyncInv
<1> USE SyncAssumption
<1>1. Init => SyncInv
  <2> SUFFICES ASSUME Init PROVE SyncInv
    OBVIOUS
  <2> USE DEF Init, NoJob
  <2>1. SyncTyped
    <3>1. remote \in IssueType
      BY DEF IssueType
    <3>2. job \in Job
      BY DEF Job
    <3> QED BY <3>1, <3>2 DEF SyncTyped, CommentsType, NewType, Fetched, Prepared
  <2>2. PostInv /\ TodoIsApproved
    BY DEF PostInv, Bound, TodoIsApproved
  <2>3. ReadInv
    <3>1. remote.updated_at = 0 /\ remote.last_edited_at = 0
      OBVIOUS
    <3> QED BY <3>1, ItemAssumption
            DEF ReadInv, TimesPass, UnreadIsLater, FetchedIsCurrent, TodoIsRead
  <2> QED BY <2>1, <2>2, <2>3 DEF SyncInv
<1>2. SyncInv /\ [Next]_vars => SyncInv'
  <2> SUFFICES ASSUME SyncInv, [Next]_vars PROVE SyncInv'
    OBVIOUS
  <2>1. SyncTyped /\ SyncTyped'
    BY TypedStep DEF SyncInv
  \* One call of a push, and the other steps of a command.
  <2>2. ASSUME NEW x, Done(x)
        PROVE  /\ job'.src = job.src /\ job'.force = job.force /\ clock' = clock + 1
               /\ job'.todo = job.todo \ {x}
    BY <2>1, <2>2 DEF Done, Now, SyncTyped, Job
  <2>3. NoJob.pc = "idle"
    BY DEF NoJob
  <2>4. \/ \E flags \in SUBSET Flags : PushCheck(flags)
        \/ job'.pc = "apply" => /\ job.pc = "apply" /\ job'.src = job.src /\ job'.force = job.force
                                /\ job'.todo \subseteq job.todo
    BY <2>1, <2>2, <2>3 DEF Next, vars, OthersAct, OtherEdits, OtherComments, OtherDeletes, UserActs,
       EditField, EditComment, DeleteFile, WriteNew, Approve, Pull, Push, PullStart, PullSave, PushStart,
       PushFails, PushSave, ApplyField, ApplyFieldHalfway, ApplyUpdate, ApplyDelete, ApplyNew,
       ApplyNewUnanswered, Created, IsNext, NoJob, SyncInv
  <2>5. ASSUME NEW flags \in SUBSET Flags, PushCheck(flags), job'.pc = "apply"
        PROVE  /\ job.pc = "check" /\ UNCHANGED <<github, directory, clock, history>>
               /\ job'.todo = ChangeSet /\ job'.src.approved = approved
               /\ ~job'.force => ~check_conflicts
               /\ collect_approval_paths \subseteq approved
    <3>1. /\ job.pc = "check" /\ UNCHANGED <<github, directory, clock, history>>
          /\ "force" \notin flags => ~check_conflicts
          /\ collect_approval_paths \subseteq approved
          /\ job' = [job EXCEPT !.pc = "apply", !.force = "force" \in flags,
                                !.todo = ChangeSet, !.changed = collect_approval_paths,
                                !.src = [issue |-> local, files |-> files, new |-> new,
                                         approved |-> approved]]
      BY <2>3, <2>5 DEF PushCheck
    <3>2. /\ job'.todo = ChangeSet /\ ("force" \in flags => job'.force)
          /\ job'.src = [issue |-> local, files |-> files, new |-> new, approved |-> approved]
      <4> DEFINE todo == ChangeSet
                 changed == collect_approval_paths
                 src == [issue |-> local, files |-> files, new |-> new, approved |-> approved]
                 force == "force" \in flags
      <4>1. job' = [job EXCEPT !.pc = "apply", !.force = force, !.todo = todo, !.changed = changed,
                               !.src = src]
        BY <3>1
      <4> HIDE DEF todo, changed, src, force
      <4>2. job'.todo = todo /\ job'.force = force /\ job'.src = src
        BY <2>1, <4>1 DEF SyncTyped, Job
      <4> QED BY <4>2 DEF todo, src, force
    <3> QED BY <3>1, <3>2
  <2>6. PostInv'
    <3> USE <2>1 DEF SyncInv, SyncTyped, PostInv, Bound
    <3>1. ASSUME NEW m \in NewFile, NEW c \in Comment, ApplyNew(m, c)
          PROVE  PostInv'
      <4> SUFFICES ASSUME NEW n \in NewFile
                   PROVE  /\ posts'[n] <= Bound(n)'
                          /\ posts'[n] = Bound(n)' =>
                               new'[n] = None /\ (job'.pc = "apply" => <<"new", n>> \notin job'.todo)
        OBVIOUS
      <4>0. posts[n] \in Nat /\ posts[m] \in Nat
        OBVIOUS
      <4>1. /\ posts[m] < Bound(m) /\ UNCHANGED lost
            /\ new' = [new EXCEPT ![m] = None] /\ posts' = [posts EXCEPT ![m] = @ + 1]
        BY <3>1 DEF ApplyNew, Created, IsNext
      <4>2. job'.todo = job.todo \ {<<"new", m>>} /\ job.pc = "apply"
        BY <2>2, <3>1 DEF ApplyNew, Created, IsNext
      <4>3. /\ posts'[n] = IF n = m THEN posts[n] + 1 ELSE posts[n]
            /\ new'[n] = IF n = m THEN None ELSE new[n]
        BY <4>1 DEF NewType
      <4> QED BY ONLY <2>1, SyncInv, <4>0, <4>1, <4>2, <4>3 DEF SyncInv, SyncTyped, PostInv, Bound
    <3>2. ASSUME NEW m \in NewFile, NEW c \in Comment, ApplyNewUnanswered(m, c)
          PROVE  PostInv'
      <4> SUFFICES ASSUME NEW n \in NewFile
                   PROVE  /\ posts'[n] <= Bound(n)'
                          /\ posts'[n] = Bound(n)' =>
                               new'[n] = None /\ (job'.pc = "apply" => <<"new", n>> \notin job'.todo)
        OBVIOUS
      <4>0. posts[n] \in Nat /\ posts[m] \in Nat
        OBVIOUS
      <4>1. /\ posts[m] = 0 /\ lost' = lost \cup {m} /\ UNCHANGED new
            /\ posts' = [posts EXCEPT ![m] = @ + 1] /\ job' = NoJob
        BY <3>2 DEF ApplyNewUnanswered, Created, IsNext
      <4>2. posts'[n] = IF n = m THEN 1 ELSE posts[n]
        BY <4>1
      <4> QED BY ONLY <2>1, SyncInv, <4>0, <2>3, <4>1, <4>2 DEF SyncInv, SyncTyped, PostInv, Bound
    <3>3. ASSUME NEW m \in NewFile, NEW v \in Value, WriteNew(m, v)
          PROVE  PostInv'
      <4> SUFFICES ASSUME NEW n \in NewFile
                   PROVE  /\ posts'[n] <= Bound(n)'
                          /\ posts'[n] = Bound(n)' =>
                               new'[n] = None /\ (job'.pc = "apply" => <<"new", n>> \notin job'.todo)
        OBVIOUS
      <4>0. posts[n] \in Nat /\ posts[m] \in Nat
        OBVIOUS
      <4>1. posts[m] = 0 /\ UNCHANGED <<posts, lost, job>>
        BY <3>3 DEF WriteNew, history
      <4>2. n # m => new'[n] = new[n]
        BY <3>3 DEF WriteNew, NewType
      <4> QED BY ONLY <2>1, SyncInv, <4>0, <4>1, <4>2 DEF SyncInv, SyncTyped, PostInv, Bound
    <3>4. ASSUME UNCHANGED <<posts, lost, new>>
          PROVE  PostInv'
      <4>1. CASE job'.pc # "apply"
        BY <3>4, <4>1
      <4>2. CASE job'.pc = "apply" /\ \E flags \in SUBSET Flags : PushCheck(flags)
        <5>1. \A n \in NewFile : <<"new", n>> \in ChangeSet => new[n] # None
          BY DEF ChangeSet, Updates, News, Deletes
        <5> QED BY <2>5, <3>4, <4>2, <5>1
      <4>3. CASE job.pc = "apply" /\ job'.todo \subseteq job.todo
        BY <3>4, <4>3
      <4> QED BY <2>4, <4>1, <4>2, <4>3
    <3> QED BY <3>1, <3>2, <3>3, <3>4 DEF Next, vars, history, directory, OthersAct, OtherEdits,
            OtherComments, OtherDeletes, UserActs, EditField, EditComment, DeleteFile, Approve, Pull, Push,
            PullStart, PullSave, save_issue_to_storage, PushStart, PushCheck, PushFails, PushSave, ApplyField,
            ApplyFieldHalfway, ApplyUpdate, ApplyDelete
  <2>7. TodoIsApproved'
    <3>1. CASE job'.pc = "apply" /\ \E flags \in SUBSET Flags : PushCheck(flags)
      <4>1. \A f \in Field : <<"field", f>> \in ChangeSet => "issue" \in collect_approval_paths
        BY DEF ChangeSet, Updates, News, Deletes, collect_approval_paths
      <4>2. \A c \in Comment : <<"update", c>> \in ChangeSet => c \in collect_approval_paths
        BY DEF ChangeSet, Updates, News, Deletes, collect_approval_paths
      <4>3. \A n \in NewFile : <<"new", n>> \in ChangeSet => n \in collect_approval_paths
        BY DEF ChangeSet, Updates, News, Deletes, collect_approval_paths
      <4> QED BY <2>5, <3>1, <4>1, <4>2, <4>3 DEF TodoIsApproved
    <3>2. CASE ~(job'.pc = "apply" /\ \E flags \in SUBSET Flags : PushCheck(flags))
      BY <2>4, <3>2 DEF TodoIsApproved, SyncInv
    <3> QED BY <3>1, <3>2
  <2>8. ASSUME ~Meanwhile PROVE ReadInv'
    <3> USE <2>8
    <3>1. TimesPass /\ UnreadIsLater /\ FetchedIsCurrent /\ TodoIsRead
      BY DEF SyncInv, ReadInv
    <3>2. FetchedIsCurrent'
      <4>1. CASE PullStart \/ PushStart
        <5>1. /\ job'.issue = remote /\ job'.comments = comments /\ UNCHANGED <<github, directory>>
              /\ job'.pc = "check" => local # None
          BY <4>1 DEF PullStart, PushStart, NoJob
        <5> QED BY <5>1 DEF FetchedIsCurrent, github, directory
      <4>2. CASE ~(PullStart \/ PushStart)
        <5>1. \A flags \in SUBSET Flags : PushCheck(flags) => job'.pc \in {"idle", "apply"}
          BY <2>1, <2>3 DEF PushCheck, SyncTyped, Job
        <5>2. \A x : Done(x) => job'.pc \in {"apply", "save"}
          BY <2>1 DEF Done, SyncTyped, Job
        <5>3. job'.pc \in {"pull", "check"} => job' = job /\ UNCHANGED <<remote, comments, local>>
          BY <2>3, <4>2, <5>1, <5>2 DEF Next, vars, directory, github, OthersAct, OtherEdits,
             OtherComments, OtherDeletes, UserActs, EditField, EditComment, DeleteFile, WriteNew, Approve,
             MayAct, Pull, Push, PullSave, PushFails, PushSave, ApplyField,
             ApplyFieldHalfway, ApplyUpdate, ApplyDelete, ApplyNew, ApplyNewUnanswered
        <5> QED BY <3>1, <5>3 DEF FetchedIsCurrent
      <4> QED BY <4>1, <4>2
    <3>3. job.pc = "apply" => unread' \subseteq unread
      BY DEF Next, vars, history, OthersAct, OtherEdits, OtherComments, OtherDeletes, UserActs, EditField,
         EditComment, DeleteFile, WriteNew, Approve, MayAct, Pull, Push, PullStart, PullSave, PushStart,
         PushCheck, PushFails, PushSave, ApplyField, ApplyFieldHalfway, ApplyUpdate, ApplyDelete, ApplyNew,
         ApplyNewUnanswered, Created
    <3>4. TodoIsRead'
      <4>1. CASE job'.pc = "apply" /\ \E flags \in SUBSET Flags : PushCheck(flags)
        <5>1. /\ job.pc = "check" /\ job'.todo = ChangeSet /\ unread' = unread
              /\ ~job'.force => ~check_conflicts
          BY <2>5, <4>1 DEF history
        <5>2. job.issue = remote /\ job.comments = comments /\ local # None
          BY <3>1, <5>1 DEF FetchedIsCurrent
        <5>3. \A f \in {"body", "title"} : <<"field", f>> \in ChangeSet => local.val[f] # remote.val[f]
          BY <5>2 DEF ChangeSet, Updates, News, Deletes, changed_fields
        <5>4. \A c \in Comment : <<"update", c>> \in ChangeSet => c \in Modified(comments)
          BY <5>2 DEF ChangeSet, Updates, News, Deletes
        <5>5. ASSUME ~job'.force
              PROVE  /\ local.val["body"] # remote.val["body"] => "body" \notin unread
                     /\ local.val["title"] # remote.val["title"] => "title" \notin unread
                     /\ \A c \in Modified(comments) : c \notin unread
          BY <2>1, <3>1, <5>1, <5>2, <5>5 DEF check_conflicts, UnreadIsLater, Modified, SyncTyped, IssueType,
             CommentsType, CommentType
        <5> QED BY <5>1, <5>3, <5>4, <5>5 DEF TodoIsRead
      <4>2. CASE ~(job'.pc = "apply" /\ \E flags \in SUBSET Flags : PushCheck(flags))
        BY <2>4, <3>1, <3>3, <4>2 DEF TodoIsRead
      <4> QED BY <4>1, <4>2
    <3>5. TimesPass' /\ UnreadIsLater'
      <4> USE <2>1 DEF SyncTyped
      \* Somebody changes the issue, and the clock goes on.
      <4>1. ASSUME NEW f \in Field, NEW v \in Value,
                   remote' = Edited(remote, f, v), clock' = clock + 1,
                   unread' \subseteq unread \cup {f}, UNCHANGED <<comments, local, files>>
            PROVE  TimesPass' /\ UnreadIsLater'
        <5>1. /\ remote'.updated_at = clock + 1
              /\ remote'.last_edited_at = IF f = "body" THEN clock + 1 ELSE remote.last_edited_at
          <6>1. /\ Edited(remote, f, v).updated_at = clock + 1
                /\ Edited(remote, f, v).last_edited_at =
                     IF f = "body" THEN clock + 1 ELSE remote.last_edited_at
            <7>1. remote \in IssueType /\ clock \in Nat
              OBVIOUS
            <7> QED BY ONLY <7>1, EditedIs
          <6> QED BY <4>1, <6>1
        <5>2. f \notin Comment
          BY ItemAssumption
        <5>3. local # None => local.updated_at \in Nat /\ local.last_edited_at \in Nat
          BY DEF IssueType
        <5>4. \A c \in Comment : /\ comments[c] # None => comments[c].updated_at \in Nat
                                 /\ files[c] # None => files[c].updated_at \in Nat
          BY DEF CommentsType, CommentType
        <5>5. remote.updated_at \in Nat /\ remote.last_edited_at \in Nat /\ clock \in Nat
          BY DEF IssueType
        <5>6. TimesPass'
          BY ONLY <3>1, <4>1, <5>1, <5>3, <5>4, <5>5 DEF TimesPass
        <5>7. UnreadIsLater'
          BY ONLY <3>1, <4>1, <5>1, <5>2, <5>3, <5>4, <5>5 DEF TimesPass, UnreadIsLater
        <5> QED BY <5>6, <5>7
      \* Somebody changes a comment.
      <4>2. ASSUME NEW c \in Comment, NEW text,
                   comments' = [comments EXCEPT ![c] = text], text # None => text.updated_at = clock + 1,
                   remote' = [remote EXCEPT !.updated_at = clock + 1], clock' = clock + 1,
                   unread' \subseteq unread \cup {c}, UNCHANGED <<local, files>>
            PROVE  TimesPass' /\ UnreadIsLater'
        <5>1. /\ remote'.updated_at = clock + 1 /\ remote'.last_edited_at = remote.last_edited_at
              /\ \A x \in Comment : comments'[x] = IF x = c THEN text ELSE comments[x]
          BY <4>2 DEF IssueType, CommentsType
        <5>2. c \notin {"title", "body"}
          BY ItemAssumption DEF Field
        <5>3. local # None => local.updated_at \in Nat /\ local.last_edited_at \in Nat
          BY DEF IssueType
        <5>4. \A x \in Comment : /\ comments[x] # None => comments[x].updated_at \in Nat
                                 /\ files[x] # None => files[x].updated_at \in Nat
          BY DEF CommentsType, CommentType
        <5>5. remote.updated_at \in Nat /\ remote.last_edited_at \in Nat /\ clock \in Nat
          BY DEF IssueType
        <5>6. TimesPass'
          BY ONLY <3>1, <4>2, <5>1, <5>3, <5>4, <5>5 DEF TimesPass
        <5>7. UnreadIsLater'
          BY ONLY <3>1, <4>2, <5>1, <5>2, <5>3, <5>4, <5>5 DEF TimesPass, UnreadIsLater
        <5> QED BY <5>6, <5>7
      \* A file keeps the times it had, or takes those of GitHub.
      <4>3. ASSUME NEW c \in Comment, EditComment(c, files'[c].val) \/ DeleteFile(c)
            PROVE  TimesPass' /\ UnreadIsLater'
        <5>1. /\ \A x \in Comment : files'[x] # None => /\ files[x] # None
                                                         /\ files'[x].updated_at = files[x].updated_at
              /\ UNCHANGED <<remote, comments, local, clock, unread>>
          BY <4>3 DEF EditComment, DeleteFile, CommentsType, CommentType, github, history
        <5> QED BY ONLY <3>1, <5>1 DEF TimesPass, UnreadIsLater
      <4>4. ASSUME NEW f \in Field, NEW v \in Value, EditField(f, v)
            PROVE  TimesPass' /\ UnreadIsLater'
        <5>1. /\ local # None /\ local'.updated_at = local.updated_at
              /\ local'.last_edited_at = local.last_edited_at
              /\ UNCHANGED <<remote, comments, files, clock, unread>>
          BY <4>4 DEF EditField, IssueType, github, history
        <5> QED BY ONLY <3>1, <5>1 DEF TimesPass, UnreadIsLater
      <4>5. ASSUME NEW force \in BOOLEAN, PullSave(force), ~UNCHANGED <<directory, unread>>
            PROVE  TimesPass' /\ UnreadIsLater'
        <5>1. job.issue = remote /\ job.comments = comments
          BY <3>1, <4>5 DEF PullSave, FetchedIsCurrent
        <5>2. /\ local' = remote /\ files' = comments /\ unread' = StillUnread(remote, comments)
              /\ UNCHANGED <<remote, comments, clock>>
          BY <4>5, <5>1 DEF PullSave, save_issue_to_storage, github
        <5>3. unread' = {}
          BY <5>2 DEF StillUnread
        <5> QED BY ONLY <3>1, <5>2, <5>3 DEF TimesPass, UnreadIsLater
      <4>6. CASE PushSave
        <5>1. /\ local' = remote /\ unread' = unread \ Field
              /\ UNCHANGED <<remote, comments, files, clock>>
          BY <4>6 DEF PushSave, github
        <5> QED BY ONLY <3>1, <5>1 DEF TimesPass, UnreadIsLater, Field
      <4>7. CASE UNCHANGED <<remote, comments, local, files, clock, unread>>
        BY ONLY <3>1, <4>7 DEF TimesPass, UnreadIsLater
      \* Which step does which.
      <4>8. CASE OthersAct
        <5>1. ASSUME NEW v \in Value, NEW f \in Field, OtherEdits(f, v)
              PROVE  TimesPass' /\ UnreadIsLater'
          BY <4>1, <5>1 DEF OtherEdits, Now, directory
        <5>2. ASSUME NEW v \in Value, NEW c \in Comment, OtherComments(c, v)
              PROVE  TimesPass' /\ UnreadIsLater'
          <6> DEFINE text == [val |-> v, updated_at |-> clock + 1,
                              mine |-> IF comments[c] = None THEN FALSE ELSE comments[c].mine]
          <6>1. comments' = [comments EXCEPT ![c] = text] /\ text.updated_at = clock + 1
            BY <5>2 DEF OtherComments, Now
          <6> HIDE DEF text
          <6> QED BY <4>2, <5>2, <6>1 DEF OtherComments, Now, directory
        <5>3. ASSUME NEW c \in Comment, OtherDeletes(c)
              PROVE  TimesPass' /\ UnreadIsLater'
          <6>1. /\ comments' = [comments EXCEPT ![c] = None] /\ clock' = clock + 1
                /\ remote' = [remote EXCEPT !.updated_at = clock + 1]
                /\ unread' \subseteq unread \cup {c} /\ UNCHANGED <<local, files>>
            BY <5>3 DEF OtherDeletes, Now, directory
          <6> QED BY <4>2, <6>1
        <5> QED BY <4>8, <5>1, <5>2, <5>3 DEF OthersAct
      <4>9. CASE UserActs
        <5>1. ASSUME NEW v \in Value, NEW c \in Comment, EditComment(c, v)
              PROVE  TimesPass' /\ UnreadIsLater'
          <6>1. files'[c].val = v
            BY <5>1 DEF EditComment, CommentsType, CommentType
          <6> QED BY <4>3, <5>1, <6>1
        <5> QED BY <4>9, <4>3, <4>4, <4>7, <5>1 DEF UserActs, WriteNew, Approve, github, history
      <4>10. CASE Pull
        BY <4>10, <4>5, <4>7 DEF Pull, PullStart, PullSave, github, directory, history
      <4>11. CASE Push
        <5>1. ASSUME NEW f \in Field, ApplyField(f)
              PROVE  TimesPass' /\ UnreadIsLater'
          <6>1. job.src.issue.val[f] \in Value
            BY <5>1 DEF ApplyField, IsNext, Prepared, Source, IssueType
          <6>2. clock' = clock + 1
            BY <2>2, <5>1 DEF ApplyField
          <6> QED BY <4>1, <5>1, <6>1, <6>2 DEF ApplyField, directory
        <5>2. ASSUME NEW f \in Field, NEW v \in Value, ApplyFieldHalfway(f, v)
              PROVE  TimesPass' /\ UnreadIsLater'
          BY <4>1, <5>2 DEF ApplyFieldHalfway, Now, directory
        <5>3. ASSUME NEW c \in Comment, ApplyUpdate(c)
              PROVE  TimesPass' /\ UnreadIsLater'
          <6> DEFINE text == [[comments[c] EXCEPT !.val = job.src.files[c].val] EXCEPT
                                !.updated_at = clock + 1]
          <6>1. comments[c] \in CommentType
            BY <5>3 DEF ApplyUpdate, CommentsType
          <6>2. comments' = [comments EXCEPT ![c] = text] /\ text.updated_at = clock + 1
            BY <5>3, <6>1 DEF ApplyUpdate, Now, CommentsType, CommentType
          <6>3. clock' = clock + 1
            BY <2>2, <5>3 DEF ApplyUpdate
          <6> HIDE DEF text
          <6> QED BY <4>2, <5>3, <6>2, <6>3 DEF ApplyUpdate, Now, directory
        <5>4. ASSUME NEW c \in Comment, ApplyDelete(c)
              PROVE  TimesPass' /\ UnreadIsLater'
          <6>1. clock' = clock + 1
            BY <2>2, <5>4 DEF ApplyDelete
          <6>2. /\ comments' = [comments EXCEPT ![c] = None]
                /\ remote' = [remote EXCEPT !.updated_at = clock + 1]
                /\ unread' \subseteq unread \cup {c} /\ UNCHANGED <<local, files>>
            BY <5>4 DEF ApplyDelete, Now, directory
          <6> QED BY <4>2, <6>1, <6>2
        <5>5. ASSUME NEW c \in Comment, NEW n \in NewFile, Created(n, c)
              PROVE  TimesPass' /\ UnreadIsLater'
          <6> DEFINE text == [val |-> job.src.new[n], updated_at |-> clock + 1, mine |-> TRUE]
          <6>1. comments' = [comments EXCEPT ![c] = text] /\ text.updated_at = clock + 1
            BY <5>5 DEF Created, Now
          <6> HIDE DEF text
          <6> QED BY <4>2, <5>5, <6>1 DEF Created, Now
        <5> QED BY <4>11, <4>6, <4>7, <5>1, <5>2, <5>3, <5>4, <5>5
                DEF Push, PushStart, PushFails, PushCheck, ApplyNew, ApplyNewUnanswered, github, directory,
                    history
      <4> QED BY <4>7, <4>8, <4>9, <4>10, <4>11 DEF Next, vars, github, directory, history
    <3> QED BY <3>2, <3>4, <3>5 DEF ReadInv
  <2> QED BY <2>1, <2>6, <2>7, <2>8 DEF SyncInv
<1> QED BY <1>1, <1>2, PTL DEF Spec

\* While nobody else acts, GitHub changes by what is on the list.
LEMMA OneCallAtATime ==
  ASSUME ~Meanwhile, SyncTyped, [Next]_vars, job.pc = "apply"
  PROVE  /\ remote'.val # remote.val => \E f \in Field : <<"field", f>> \in job.todo
         /\ \A f \in {"body", "title"} : remote'.val[f] # remote.val[f] => <<"field", f>> \in job.todo
         /\ \A c \in Comment : (comments'[c] # comments[c] /\ comments'[c] # None) =>
              \/ <<"update", c>> \in job.todo
              \/ /\ comments[c] = None
                 /\ \E n \in NewFile : posts'[n] # posts[n] /\ <<"new", n>> \in job.todo
<1> USE SyncAssumption DEF SyncTyped
<1>1. ASSUME NEW f \in Field, ApplyField(f) \/ \E v \in Value : ApplyFieldHalfway(f, v)
      PROVE  /\ <<"field", f>> \in job.todo /\ UNCHANGED comments
             /\ \A g \in {"body", "title"} : remote'.val[g] # remote.val[g] => g = f
  <2>1. PICK v \in Value : remote' = Edited(remote, f, v)
    BY <1>1 DEF ApplyField, ApplyFieldHalfway, IsNext, Prepared, Source, IssueType
  <2>2. Edited(remote, f, v).val = [remote.val EXCEPT ![f] = v]
    BY EditedIs
  <2>3. \A g \in {"body", "title"} : remote'.val[g] # remote.val[g] => g = f
    BY <2>1, <2>2 DEF IssueType, Field
  <2> QED BY <1>1, <2>3 DEF ApplyField, ApplyFieldHalfway, IsNext
<1>2. ASSUME NEW c \in Comment, ApplyUpdate(c)
      PROVE  /\ <<"update", c>> \in job.todo /\ remote'.val = remote.val
             /\ \A x \in Comment : x # c => comments'[x] = comments[x]
  BY <1>2 DEF ApplyUpdate, IsNext, IssueType, CommentsType
<1>3. ASSUME NEW c \in Comment, ApplyDelete(c)
      PROVE  /\ comments'[c] = None /\ remote'.val = remote.val
             /\ \A x \in Comment : x # c => comments'[x] = comments[x]
  BY <1>3 DEF ApplyDelete, IssueType, CommentsType
<1>4. ASSUME NEW c \in Comment, NEW n \in NewFile, Created(n, c)
      PROVE  /\ comments[c] = None /\ <<"new", n>> \in job.todo /\ posts'[n] # posts[n]
             /\ remote'.val = remote.val /\ \A x \in Comment : x # c => comments'[x] = comments[x]
  BY <1>4 DEF Created, IsNext, IssueType, CommentsType
<1>5. \/ UNCHANGED github
      \/ \E f \in Field : ApplyField(f) \/ \E v \in Value : ApplyFieldHalfway(f, v)
      \/ \E c \in Comment : ApplyUpdate(c) \/ ApplyDelete(c) \/ \E n \in NewFile : Created(n, c)
  BY DEF Next, vars, OthersAct, OtherEdits, OtherComments, OtherDeletes, UserActs, EditField,
     EditComment, DeleteFile, WriteNew, Approve, MayAct, Pull, Push, PullStart, PullSave, PushStart,
     PushCheck, PushFails, PushSave, ApplyNew, ApplyNewUnanswered
<1> QED BY <1>1, <1>2, <1>3, <1>4, <1>5 DEF github

-----------------------------------------------------------------------------
(* The theorems *)

\* However often a push stops half-way and is run again, and whatever anybody
\* does in between, a new comment is posted once, or a second time if GitHub's
\* answer to the first call was lost.
THEOREM NewCommentIsPostedOnce == Spec => []PostedOnce
<1>1. SyncInv => PostedOnce
  BY DEF SyncInv, PostInv, Bound, PostedOnce
<1> QED BY <1>1, SyncInvAlways, PTL

\* When nobody acts while a push runs, it replaces without --force no body, no
\* title and no comment that somebody else wrote and that was never pulled.
THEOREM PushReplacesOnlyWhatWasRead == ~Meanwhile => (Spec => ReplacesOnlyWhatWasRead)
<1> SUFFICES ASSUME ~Meanwhile PROVE Spec => ReplacesOnlyWhatWasRead
  OBVIOUS
<1>1. SyncInv /\ [Next]_vars =>
        [(job.pc = "apply" /\ ~job.force) =>
           /\ \A f \in {"body", "title"} : remote'.val[f] # remote.val[f] => f \notin unread
           /\ \A c \in Comment :
                (comments[c] # None /\ comments'[c] # None /\ comments'[c] # comments[c]) =>
                  c \notin unread]_vars
  <2> SUFFICES ASSUME SyncInv, [Next]_vars, job.pc = "apply", ~job.force
               PROVE  /\ \A f \in {"body", "title"} : remote'.val[f] # remote.val[f] => f \notin unread
                      /\ \A c \in Comment :
                           (comments[c] # None /\ comments'[c] # None /\ comments'[c] # comments[c]) =>
                             c \notin unread
    OBVIOUS
  <2> QED BY OneCallAtATime DEF SyncInv, ReadInv, TodoIsRead
<1> QED BY <1>1, SyncInvAlways, PTL DEF Spec, ReplacesOnlyWhatWasRead

\* When nobody acts while a push runs, it sends only what the user approved.
THEOREM PushSendsOnlyApproved == ~Meanwhile => (Spec => SendsOnlyApproved)
<1> SUFFICES ASSUME ~Meanwhile PROVE Spec => SendsOnlyApproved
  OBVIOUS
<1>1. SyncInv /\ [Next]_vars =>
        [job.pc = "apply" =>
           /\ remote'.val # remote.val => "issue" \in job.src.approved
           /\ \A c \in Comment : (comments'[c] # comments[c] /\ comments'[c] # None) =>
                \/ c \in job.src.approved
                \/ \E n \in NewFile : posts'[n] # posts[n] /\ n \in job.src.approved]_vars
  <2> SUFFICES ASSUME SyncInv, [Next]_vars, job.pc = "apply"
               PROVE  /\ remote'.val # remote.val => "issue" \in job.src.approved
                      /\ \A c \in Comment : (comments'[c] # comments[c] /\ comments'[c] # None) =>
                           \/ c \in job.src.approved
                           \/ \E n \in NewFile : posts'[n] # posts[n] /\ n \in job.src.approved
    OBVIOUS
  <2> QED BY OneCallAtATime DEF SyncInv, TodoIsApproved
<1> QED BY <1>1, SyncInvAlways, PTL DEF Spec, SendsOnlyApproved
=============================================================================
