------------------------------- MODULE PrReview -------------------------------
(***************************************************************************)
(* `a gh pr-review reply pull | review | push`: the review threads of one  *)
(* pull request and threads.md, the file that holds the drafts of replies  *)
(* and the boxes that resolve a thread: src/commands/gh/pr_review. The     *)
(* reviewers comment at any moment; a push is a series of API calls.       *)
(*                                                                         *)
(* Time is GitHub's and chrono's: whole seconds, and many things happen in *)
(* one. The editor of `review` is reduced to its result (HumanReview has   *)
(* the whole of it) and takes the user longer than a second.               *)
(***************************************************************************)
EXTENDS Naturals

CONSTANTS
  Thread,
  Busy,       \* bound: the threads that others write to
  Draft,      \* texts of replies
  Meanwhile,  \* is threads.md edited while a command runs?
  MaxClock,   \* bound: the seconds that pass
  None

ASSUME PrReviewAssumption ==
  /\ Meanwhile \in BOOLEAN /\ MaxClock \in Nat /\ None \notin Draft
  /\ Busy \subseteq Thread

VARIABLES
  remote,    \* the threads: time of the newest comment, resolved or not
  file,      \* threads.md
  hash,      \* the content whose hash is in .threads.md.sha256
  approval,  \* the content whose MAC is in the approval record
  job,       \* the pull or push that is running
  clock,
  unread,    \* history: comments of others that are not in threads.md
  sent,      \* history: drafts posted since threads.md was last written
  granted    \* history: what was in the contents that were ever approved

vars == <<remote, file, hash, approval, job, clock, unread, sent, granted>>
history == <<unread, sent, granted>>

Time == 0 .. MaxClock
Parsed == [draft: Draft \cup {None}, resolve: BOOLEAN]
Content == [pulled_at: Time, submit: BOOLEAN, threads: [Thread -> Parsed \cup {None}]]
Wish == Thread \X (Draft \cup {"resolve"})
ASSUME ContentAssumption == None \notin Parsed /\ None \notin Content
NoJob == [pc |-> "idle", force |-> FALSE, fetched |-> None, late |-> {},
          src |-> None, replies |-> {}, resolves |-> {}]

PrReviewTypeOK ==
  /\ remote \in [Thread -> [newest: Time, resolved: BOOLEAN]]
  /\ {file, hash, approval, job.src} \subseteq Content \cup {None}
  /\ job.pc \in {"idle", "fetch", "write", "hash", "read", "detect", "apply", "refetch"}
  /\ job.force \in BOOLEAN
  /\ job.late \cup job.replies \cup job.resolves \subseteq Thread
  /\ clock \in Time
  /\ unread \in [Thread -> {"none", "gap", "new"}]
  /\ sent \cup granted \subseteq Wish

Init ==
  /\ remote = [t \in Thread |-> [newest |-> 0, resolved |-> FALSE]]
  /\ file = None /\ hash = None /\ approval = None /\ job = NoJob /\ clock = 0
  /\ unread = [t \in Thread |-> "new"] /\ sent = {} /\ granted = {}

-----------------------------------------------------------------------------
Tick == /\ clock < MaxClock /\ clock' = clock + 1
        /\ UNCHANGED <<remote, file, hash, approval, job, history>>

\* A comment that no later comparison of times can find is one in the second
\* of the stamp, or (see Written) one between the fetch and the stamp.
OtherComments(t) ==
  /\ t \in Busy
  /\ remote' = [remote EXCEPT ![t].newest = clock]
  /\ unread' = [unread EXCEPT ![t] = IF /\ @ # "new" /\ file # None
                                        /\ file.pulled_at = clock THEN "gap" ELSE "new"]
  /\ job' = [job EXCEPT !.late = IF job.pc \in {"write", "apply", "refetch"}
                                    THEN @ \cup {t} ELSE @]
  /\ UNCHANGED <<file, hash, approval, clock, sent, granted>>

OtherResolves(t, r) ==
  /\ t \in Busy /\ remote[t].resolved # r
  /\ remote' = [remote EXCEPT ![t].resolved = r]
  /\ UNCHANGED <<file, hash, approval, job, clock, history>>

\* The agent writes drafts and ticks boxes.
MayEdit(t) == (Meanwhile \/ job.pc = "idle") /\ file # None /\ file.threads[t] # None
EditDraft(t, d) ==
  /\ MayEdit(t) /\ file.threads[t].draft # d
  /\ file' = [file EXCEPT !.threads[t].draft = d]
  /\ UNCHANGED <<remote, hash, approval, job, clock, history>>

TickBox(t) ==
  /\ MayEdit(t) /\ file' = [file EXCEPT !.threads[t].resolve = ~@]
  /\ UNCHANGED <<remote, hash, approval, job, clock, history>>

Wishes(content) == {w \in Wish : /\ content.threads[w[1]] # None
                                 /\ \/ content.threads[w[1]].draft = w[2]
                                    \/ content.threads[w[1]].resolve /\ w[2] = "resolve"}

\* The user sets `submit` to what it shall be, or leaves it as it is; nothing
\* resets it before the editor opens. on_review_complete.
Review(submit) ==
  /\ job.pc = "idle" /\ file # None /\ clock < MaxClock /\ clock' = clock + 1
  /\ file' = [file EXCEPT !.submit = submit]
  /\ approval' = IF submit THEN file' ELSE None
  /\ granted' = IF submit THEN granted \cup Wishes(file) ELSE granted
  /\ UNCHANGED <<remote, hash, job, unread, sent>>

-----------------------------------------------------------------------------
\* fetch_pr_data.
Fetched(include_resolved) ==
  [t \in Thread |-> IF remote[t].resolved /\ ~include_resolved THEN "left out"
                  ELSE IF remote[t].resolved THEN "resolved" ELSE "open"]

Boxes(fetched, drafts) ==
  [t \in Thread |-> IF fetched[t] = "left out" THEN None
                    ELSE [draft |-> drafts[t], resolve |-> fetched[t] = "resolved"]]

\* The serializer: the box shows what GitHub says, the drafts are kept for the
\* threads that were fetched.
Serialized(fetched, drafts) ==
  [pulled_at |-> clock, submit |-> FALSE, threads |-> Boxes(fetched, drafts)]

NoDrafts == [t \in Thread |-> None]
DraftsIn(content) ==
  IF content = None THEN NoDrafts
  ELSE [t \in Thread |-> IF content.threads[t] = None THEN None ELSE content.threads[t].draft]

\* write_threads: the file first, its hash by a second write. The time stamp is
\* taken after the fetch.
Written(drafts) ==
  /\ file' = Serialized(job.fetched, drafts)
  /\ unread' = [t \in Thread |-> IF job.fetched[t] = "left out" THEN unread[t]
                                 ELSE IF t \in job.late THEN "gap" ELSE "none"]
  /\ sent' = {}
  /\ job' = [NoJob EXCEPT !.pc = "hash"]
  /\ UNCHANGED <<remote, hash, approval, clock, granted>>

WriteHash ==
  /\ job.pc = "hash" /\ hash' = file /\ job' = NoJob
  /\ UNCHANGED <<remote, file, approval, clock, history>>

has_local_changes == file # None /\ file # hash

PullStart(force) ==
  /\ job.pc = "idle" /\ (force \/ ~has_local_changes)
  /\ job' = [NoJob EXCEPT !.pc = "fetch", !.force = force]
  /\ UNCHANGED <<remote, file, hash, approval, clock, history>>

PullFetch(include_resolved) ==
  /\ job.pc = "fetch"
  /\ job' = [job EXCEPT !.pc = "write", !.fetched = Fetched(include_resolved), !.late = {}]
  /\ UNCHANGED <<remote, file, hash, approval, clock, history>>

\* The drafts are those in the file as it is after the fetch. A file that the
\* parser refuses has none (not modelled: nobody here breaks the markers).
PullWrite == job.pc = "write" /\ Written(DraftsIn(file))

-----------------------------------------------------------------------------
\* The file is read to verify the approval, and once more to be parsed.
PushStart_Unverified(force) ==
  /\ job.pc = "idle" /\ file # None
  /\ job' = [NoJob EXCEPT !.pc = "read", !.force = force]
  /\ UNCHANGED <<remote, file, hash, approval, clock, history>>

PushStart(force) ==
  /\ job.pc = "idle" /\ file # None /\ approval = file
  /\ job' = [NoJob EXCEPT !.pc = "read", !.force = force]
  /\ UNCHANGED <<remote, file, hash, approval, clock, history>>

PushRead ==
  /\ job.pc = "read" /\ job' = [job EXCEPT !.pc = "detect", !.src = file]
  /\ UNCHANGED <<remote, file, hash, approval, clock, history>>

has_new_comments_since_WithTolerance(t, pulled_at) == remote[t].newest > pulled_at + 1
has_new_comments_since(t, pulled_at) == remote[t].newest > pulled_at

\* Fetch, ReplyChangeSet::detect and the check for conflicts: no call between.
PushDetect ==
  LET local == {t \in Thread : job.src.threads[t] # None}
      conflicts == {t \in local : has_new_comments_since(t, job.src.pulled_at)}
      replies == {t \in local : job.src.threads[t].draft # None}
      resolves == {t \in local : job.src.threads[t].resolve /\ ~remote[t].resolved}
  IN /\ job.pc = "detect"
     /\ job' = IF (conflicts # {} /\ ~job.force) \/ replies \cup resolves = {} THEN NoJob
               ELSE [job EXCEPT !.pc = "apply", !.replies = replies, !.resolves = resolves,
                                !.late = {}]
     /\ UNCHANGED <<remote, file, hash, approval, clock, history>>

\* `answered`: a call may have been carried out although its answer is lost.
PostReply(t, answered) ==
  /\ job.pc = "apply" /\ t \in job.replies
  /\ remote' = [remote EXCEPT ![t].newest = clock]
  /\ sent' = sent \cup {<<t, job.src.threads[t].draft>>}
  /\ job' = IF answered THEN [job EXCEPT !.replies = @ \ {t}] ELSE NoJob
  /\ UNCHANGED <<file, hash, approval, clock, unread, granted>>

MayResolve_AtOnce(t) == job.pc = "apply" /\ t \in job.resolves
MayResolve(t) == job.pc = "apply" /\ t \in job.resolves /\ job.replies = {}

ResolveThread(t, answered) ==
  /\ MayResolve(t)
  /\ remote' = [remote EXCEPT ![t].resolved = TRUE]
  /\ job' = IF answered THEN [job EXCEPT !.resolves = @ \ {t}] ELSE NoJob
  /\ UNCHANGED <<file, hash, approval, clock, history>>

PushRefetch ==
  /\ job.pc = "apply" /\ job.replies = {} /\ job.resolves = {}
  /\ LET include_resolved == \E t \in Thread : /\ job.src.threads[t] # None
                                               /\ job.src.threads[t].resolve
     IN job' = [job EXCEPT !.pc = "refetch", !.fetched = Fetched(include_resolved), !.late = {}]
  /\ UNCHANGED <<remote, file, hash, approval, clock, history>>

PushWrite == job.pc = "refetch" /\ Written(NoDrafts)

\* A call fails before it has an effect, or the process is killed.
Stops == /\ job.pc # "idle" /\ job' = NoJob
         /\ UNCHANGED <<remote, file, hash, approval, clock, history>>

Next ==
  \/ Tick \/ WriteHash \/ PullWrite \/ PushRead \/ PushDetect \/ PushRefetch \/ PushWrite \/ Stops
  \/ \E b \in BOOLEAN : Review(b) \/ PullStart(b) \/ PullFetch(b) \/ PushStart(b)
  \/ \E t \in Thread : \/ OtherComments(t) \/ TickBox(t)
                       \/ \E b \in BOOLEAN : OtherResolves(t, b) \/ PostReply(t, b) \/ ResolveThread(t, b)
                       \/ \E d \in Draft \cup {None} : EditDraft(t, d)
Spec == Init /\ [][Next]_vars

\* Unless --force says so, a draft is posted once, however often pushes stop half
\* way, and never into a thread that got a comment in a second after the stamp of
\* threads.md and before the push looked.
RepliesOnceToWhatWasRead ==
  [][\A t \in Thread, b \in BOOLEAN : PostReply(t, b) /\ ~job.force =>
       /\ <<t, job.src.threads[t].draft>> \notin sent
       /\ unread[t] # "new" \/ t \in job.late]_vars

\* What a push writes to GitHub, somebody approved: each reply and each box was
\* in a content whose review ended with `submit`.
SendsOnlyApproved ==
  [][\A t \in Thread, b \in BOOLEAN :
       /\ PostReply(t, b) => <<t, job.src.threads[t].draft>> \in granted
       /\ ResolveThread(t, b) => <<t, "resolve">> \in granted]_vars

\* However a push ends, it has resolved no thread whose reply it did not post.
ResolvesWhatIsAnswered ==
  [][\A t \in Thread, b \in BOOLEAN :
       ResolveThread(t, b) => <<t, job.src.threads[t].draft>> \in sent \/ job.src.threads[t].draft = None]_vars
==============================================================================
