------------------------------- MODULE PrDraft -------------------------------
(***************************************************************************)
(* `a ai pr-draft new | review | submit` on the draft of one branch: an    *)
(* agent writes the draft, the user approves it in an editor (HumanReview),*)
(* and the submission sends the approved text to GitHub. src/commands/ai/  *)
(* pr_draft/{new,review,submit,common}.rs.                                 *)
(***************************************************************************)
EXTENDS HumanReview

CONSTANT Unsendable  \* texts that submit refuses: no title, or Japanese in a public repository
ASSUME UnsendableAssumption == Unsendable \subseteq Text

VARIABLES
  pr,        \* the pull request of the branch: [draft, open] or Absent
  submitter  \* the submission in progress

draftVars == <<reviewVars, pr, submitter>>

NoSubmit == [pc |-> "idle", copy |-> Absent, update |-> FALSE]

PrDraftTypeOK ==
  /\ ReviewTypeOK
  /\ pr \in [draft: Content, open: BOOLEAN] \cup {Absent}
  /\ submitter \in [pc: {"idle", "lookup", "send", "cleanup"},
                    copy: Content \cup {Absent}, update: BOOLEAN]

DraftInit == ReviewInit /\ pr = Absent /\ submitter = NoSubmit

-----------------------------------------------------------------------------
AgentMayWrite == AgentMeanwhile \/ ~UnderReview

\* new: an existing draft is only overwritten with --force.
NewDraft(t, force) ==
  /\ AgentMayWrite /\ (document = Absent \/ force)
  /\ document' = [text |-> t, submit |-> FALSE]
  /\ UNCHANGED <<approval, lock, fifo, signalled, reviewHistory, launcher, terminal, pr, submitter>>

\* The agent edits the file itself, the flag included.
AgentEdits(c) ==
  /\ AgentMayWrite /\ document # Absent
  /\ document' = c
  /\ UNCHANGED <<approval, lock, fifo, signalled, reviewHistory, launcher, terminal, pr, submitter>>

\* review: the draft is loaded, then the pre-pr-review hook runs.
ReviewBegin(r) ==
  /\ launcher[r].pc = "idle" /\ terminal[r].pc = "none" /\ document # Absent
  /\ Hasty \/ ~(InFlux \/ submitter.pc # "idle")
  /\ launcher' = [launcher EXCEPT ![r].pc = "hook", ![r].before = document]
  /\ UNCHANGED <<reviewFiles, reviewHistory, terminal, pr, submitter>>

HookFails(r) ==
  /\ launcher[r].pc = "hook" /\ Returns(r)
  /\ UNCHANGED <<reviewFiles, reviewHistory, terminal, pr, submitter>>

\* reset_approval_flags: decided on the copy that was loaded, done on the file.
reset_approval_flags(r) ==
  /\ launcher[r].pc = "hook"
  /\ IF ~launcher[r].before.submit THEN To(r, "check") /\ UNCHANGED document
     ELSE IF document # Absent /\ document.submit
       THEN /\ document' = [document EXCEPT !.submit = FALSE]
            /\ launcher' = [launcher EXCEPT ![r].pc = "check", ![r].before.submit = FALSE]
       ELSE Returns(r) /\ UNCHANGED document
  /\ UNCHANGED <<approval, lock, fifo, signalled, reviewHistory, terminal, pr, submitter>>

-----------------------------------------------------------------------------
\* submit, up to the first call that depends on the draft.
SubmitBegin_AnyApproval ==
  /\ submitter.pc = "idle" /\ ~lock /\ (Hasty \/ ~InFlux)
  /\ document # Absent /\ approval # Absent /\ document.text \notin Unsendable
  /\ submitter' = [NoSubmit EXCEPT !.pc = "lookup", !.copy = document]
  /\ UNCHANGED <<reviewVars, pr>>

SubmitBegin ==
  /\ submitter.pc = "idle" /\ ~lock /\ (Hasty \/ ~InFlux)
  /\ document # Absent /\ approval = document /\ document.text \notin Unsendable
  /\ submitter' = [NoSubmit EXCEPT !.pc = "lookup", !.copy = document]
  /\ UNCHANGED <<reviewVars, pr>>

\* get_pr_for_branch; the pre-pr-submit hook runs after it.
SubmitLookup ==
  /\ submitter.pc = "lookup"
  /\ submitter' = [submitter EXCEPT !.pc = "send", !.update = IF pr = Absent THEN FALSE ELSE pr.open]
  /\ UNCHANGED <<reviewVars, pr>>

\* GitHub refuses a second open pull request for a branch.
SubmitSend ==
  /\ submitter.pc = "send"
  /\ IF submitter.update \/ pr = Absent THEN TRUE ELSE ~pr.open
  /\ pr' = IF submitter.update THEN [pr EXCEPT !.draft = submitter.copy]
           ELSE [draft |-> submitter.copy, open |-> TRUE]
  /\ submitter' = [submitter EXCEPT !.pc = "cleanup"]
  /\ UNCHANGED reviewVars

\* DraftFile::cleanup removes the three files, whatever they are by now.
SubmitCleanup ==
  /\ submitter.pc = "cleanup"
  /\ document' = Absent /\ lock' = FALSE /\ approval' = Absent
  /\ submitter' = NoSubmit
  /\ UNCHANGED <<fifo, signalled, reviewHistory, launcher, terminal, pr>>

\* A call or the hook fails, or the process dies: also after the call that
\* opened the pull request.
SubmitFails ==
  /\ submitter.pc # "idle" /\ submitter' = NoSubmit
  /\ UNCHANGED <<reviewVars, pr>>

\* The pull request is merged or closed.
PrCloses ==
  /\ IF pr = Absent THEN FALSE ELSE pr.open
  /\ pr' = [pr EXCEPT !.open = FALSE]
  /\ UNCHANGED <<reviewVars, submitter>>

-----------------------------------------------------------------------------
DraftNext ==
  \/ \E r \in Caller : ReviewStep(r) /\ UNCHANGED <<pr, submitter>>
  \/ \E r \in Caller : ReviewBegin(r) \/ HookFails(r) \/ reset_approval_flags(r)
  \/ \E t \in Text, force \in BOOLEAN : NewDraft(t, force)
  \/ \E c \in Content : AgentEdits(c)
  \/ SubmitBegin \/ SubmitLookup \/ SubmitSend \/ SubmitCleanup \/ SubmitFails \/ PrCloses

DraftSpec == DraftInit /\ [][DraftNext]_draftVars

DraftFairness == \A r \in Caller : /\ ReviewFairness(r)
                                  /\ WF_draftVars(reset_approval_flags(r) \/ HookFails(r))

-----------------------------------------------------------------------------
Editing == {r \in Caller : terminal[r].pc = "editing"}

\* The lock file keeps a second editor away from a document that is being
\* edited, and it is there for as long as the editor is.
OneEditor == Cardinality(Editing) <= 1 /\ (Editing # {} => lock)

\* An approval record stands for a gesture: the user turned the flag on in an
\* editor that showed it off, for just this content, and has not looked at the
\* draft since without approving it.
ApprovalIsAGesture == approval # Absent => approval = standing

\* What the pull request says is, word for word, something the user approved,
\* whatever was written to the file before, between and after the steps of
\* the submission.
PrWasApproved == pr # Absent => pr.draft \in granted

\* A caller that waits is answered: the user closes the editor, or the window
\* never comes up. Only a window that is closed under the editor leaves it
\* waiting.
CallerIsAnswered ==
  \A r \in Caller : launcher[r].pc # "idle" ~>
                    (launcher[r].pc = "idle" \/ terminal[r].pc = "killed")
==============================================================================
