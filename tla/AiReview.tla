------------------------------ MODULE AiReview ------------------------------
(***************************************************************************)
(* `a ai review wait | request` (src/commands/ai/review): an agent waits   *)
(* until the bots it names have reviewed its pull request. wait joins a    *)
(* review that is under way; request asks for a new one unless the head    *)
(* has been reviewed already. Both then poll GitHub until every bot has    *)
(* answered or the time is up, while bots answer and commits are pushed.   *)
(*                                                                         *)
(* Every call to GitHub is a step. Time is counted in ticks; GitHub stamps *)
(* what happens with a whole second, and 0 stands for never.               *)
(***************************************************************************)
EXTENDS Naturals

CONSTANTS
  Reviewer,
  Requestable,  \* the reviewers with a review_command
  SECOND,       \* ticks in a second
  TIMEOUT,      \* TIMEOUT_SECS, in ticks
  INTERVAL,     \* POLL_INTERVAL_SECS, in ticks
  MaxNow,       \* bound: ticks until the last step of a command
  MaxEvents     \* bound: pushes and answers while a command runs

ASSUME AiReviewAssumption ==
  /\ Requestable \subseteq Reviewer
  /\ {SECOND, TIMEOUT, INTERVAL, MaxNow} \subseteq Nat \ {0} /\ MaxEvents \in Nat

VARIABLES
  now,
  head,      \* the committer date of the head commit
  reviewed,  \* reviewed[r]: the stamp of the latest review of r
  checks,    \* checks[r]: the check run or commit status of r on the head
  unable,    \* unable[r]: the stamp of the latest comment that r will not review
  caller,    \* the command that runs
  answered,  \* history: when r last answered
  pushed,    \* history: when the head was last pushed
  events

github == <<head, reviewed, checks, unable, answered, pushed, events>>
aiVars == <<now, github, caller>>

AiTime == 0 .. MaxNow
NoCheck == [started |-> FALSE, at |-> 0]
NoCaller == [cmd |-> "none", pc |-> "idle", asked |-> {}, waits |-> {}, todo |-> {},
             times |-> [r \in Reviewer |-> 0], done |-> {}, skipped |-> {},
             start |-> 0, since |-> 0, polled |-> 0, wake |-> 0]

Results == {"ok", "timeout", "not_started", "failed"}

AiTypeOK ==
  /\ {now, head, pushed} \subseteq AiTime /\ events \in 0 .. MaxEvents
  /\ {reviewed, unable, answered} \subseteq [Reviewer -> AiTime]
  /\ checks \in [Reviewer -> [started: BOOLEAN, at: AiTime]]
  /\ caller \in [cmd: {"none", "wait", "request"},
       pc: Results \cup {"idle", "first", "unable0", "started", "commit", "post",
                         "poll", "completed", "unable", "sleep"},
       asked: SUBSET Reviewer, waits: SUBSET Reviewer, todo: SUBSET Reviewer,
       times: [Reviewer -> AiTime], done: SUBSET Reviewer, skipped: SUBSET Reviewer,
       start: AiTime, since: AiTime, polled: AiTime, wake: 0 .. MaxNow + INTERVAL]

AiInit ==
  /\ now = 0 /\ head = 0 /\ pushed = 0 /\ events = 0 /\ caller = NoCaller
  /\ reviewed = [r \in Reviewer |-> 0] /\ unable = reviewed /\ answered = reviewed
  /\ checks = [r \in Reviewer |-> NoCheck]

-----------------------------------------------------------------------------
(* What the calls tell *)

find_latest_review(r) == reviewed[r]
completed_at(r) == checks[r].at            \* of a check run or a commit status
find_unable_comment(r, after) == unable[r] > after
get_latest_commit_time == head

is_started(r) == checks[r].started

\* A review of any age hides the check. (Two calls; a review that comes in
\* between them is what the next poll finds.)
is_completed_ReviewOnly(r) == find_latest_review(r)

is_completed(r) == IF find_latest_review(r) > 0 THEN find_latest_review(r) ELSE completed_at(r)

-----------------------------------------------------------------------------
(* The command *)

At(pc) == caller.pc = pc
Pending(c) == c.waits \ (c.done \cup c.skipped)

\* One call of a round over the reviewers in todo, which go in the order of the
\* arguments, and what comes after the last of them.
Asked == CHOOSE r \in caller.todo : TRUE
Round(c, Finish(_)) ==
  /\ LET d == [c EXCEPT !.todo = @ \ {Asked}] IN caller' = IF d.todo = {} THEN Finish(d) ELSE d
  /\ UNCHANGED <<now, github>>

Ends(c, result) == [NoCaller EXCEPT !.pc = result]
Rounds(c, pc, todo) == [c EXCEPT !.pc = pc, !.todo = todo]

\* wait_for_all_reviews begins: its own clock starts.
Waits(c, rs) == [c EXCEPT !.pc = "poll", !.waits = rs, !.todo = {}, !.skipped = {}, !.since = now,
                          !.times = NoCaller.times]

\* A command begins at the end of a second. What a reviewer has done by then, a
\* second ago: nothing, started, checked, reviewed or declined.
Before == {"nothing", "started", "checked", "reviewed", "declined"}
Begin(cmd, rs) ==
  /\ At("idle") /\ rs # {}
  /\ now' = 3 * SECOND - 1
  /\ caller' = [NoCaller EXCEPT !.cmd = cmd, !.pc = "first", !.asked = rs, !.todo = rs,
                                !.start = now']
  /\ head' \in {SECOND, 2 * SECOND}
  /\ \E did \in [Reviewer -> Before] :
       LET stamp(set) == [r \in Reviewer |-> IF did[r] \in set THEN SECOND ELSE 0] IN
       /\ \A r \in Reviewer \ rs : did[r] = "nothing"
       /\ reviewed' = stamp({"reviewed"}) /\ unable' = stamp({"declined"})
       /\ checks' = [r \in Reviewer |->
                       [started |-> did[r] \in {"started", "checked", "reviewed"},
                        at |-> stamp({"checked"})[r]]]
       /\ answered' = stamp({"checked", "reviewed", "declined"})
  /\ UNCHANGED <<pushed, events>>

\* Both ask every reviewer for the time of its last answer. wait is content
\* with any; request asks for the commit next.
AfterFirst(c) ==
  LET missing == {r \in c.asked : c.times[r] = 0} IN
  CASE c.cmd = "request" -> Rounds(c, "commit", {})
    [] missing = {}      -> Ends(c, "ok")
    [] OTHER             -> Rounds(c, "unable0", missing)
LookFirst ==
  At("first") /\ Round([caller EXCEPT !.times[Asked] = is_completed(Asked)], AfterFirst)

\* wait: a comment of any age that the reviewer will not review.
AfterUnable0(c) ==
  LET active == {r \in c.asked : c.times[r] = 0} \ c.skipped IN
  IF active = {} THEN Ends(c, "ok") ELSE [Rounds(c, "started", active) EXCEPT !.waits = active]
LookUnable0 ==
  /\ At("unable0")
  /\ Round(IF find_unable_comment(Asked, 0) THEN [caller EXCEPT !.skipped = @ \cup {Asked}]
              ELSE caller, AfterUnable0)

\* wait: somebody must have started.
NotStarted(c) == Ends(c, "not_started")
LookStarted ==
  /\ At("started")
  /\ IF is_started(Asked)
       THEN caller' = Waits(caller, caller.waits) /\ UNCHANGED <<now, github>>
       ELSE Round(caller, NotStarted)

\* request: one reviewer that has seen the head is enough. Otherwise those
\* that have an older answer and take commands are asked again.
LookCommit ==
  /\ At("commit")
  /\ LET old == {r \in caller.asked \cap Requestable : caller.times[r] > 0} IN
     caller' = IF \E r \in caller.asked :
                    caller.times[r] > 0 /\ get_latest_commit_time <= caller.times[r]
                 THEN Ends(caller, "ok")
               ELSE IF old = {} THEN Waits(caller, caller.asked)
               ELSE Rounds(caller, "post", old)
  /\ UNCHANGED <<now, github>>

AfterPost(c) == Waits(c, c.asked)
request_review == At("post") /\ Round(caller, AfterPost)

\* The loop: the deadline is looked at once a round, ...
Poll ==
  /\ At("poll")
  /\ caller' = IF now - caller.since >= TIMEOUT THEN Ends(caller, "timeout")
               ELSE [Rounds(caller, "completed", Pending(caller)) EXCEPT !.polled = now]
  /\ UNCHANGED <<now, github>>

\* ... then every reviewer that is still awaited: has it answered, ...
AllAnswered(c) == Pending(c) = {}

AfterCompleted(c) == IF AllAnswered(c) THEN Ends(c, "ok") ELSE Rounds(c, "unable", Pending(c))
LookCompleted ==
  /\ At("completed")
  /\ Round(IF is_completed(Asked) > caller.start THEN [caller EXCEPT !.done = @ \cup {Asked}]
              ELSE caller, AfterCompleted)

\* ... or declined.
AfterUnable(c) == IF AllAnswered(c) THEN Ends(c, "ok")
                  ELSE [Rounds(c, "sleep", {}) EXCEPT !.wake = now + INTERVAL]
LookUnable ==
  /\ At("unable")
  /\ Round(IF find_unable_comment(Asked, caller.start) THEN [caller EXCEPT !.skipped = @ \cup {Asked}]
              ELSE caller, AfterUnable)

Wakes ==
  /\ At("sleep") /\ (now >= caller.wake \/ now = MaxNow)
  /\ caller' = [caller EXCEPT !.pc = "poll", !.wake = 0]
  /\ UNCHANGED <<now, github>>

\* A call that fails ends the command.
CallFails ==
  /\ caller.pc \notin Results \cup {"idle", "poll", "sleep"}
  /\ caller' = Ends(caller, "failed")
  /\ UNCHANGED <<now, github>>

Return ==
  /\ caller.pc \in Results /\ caller' = NoCaller
  /\ now' = 0 /\ head' = 0 /\ pushed' = 0 /\ events' = 0
  /\ reviewed' = [r \in Reviewer |-> 0] /\ unable' = reviewed' /\ answered' = reviewed'
  /\ checks' = [r \in Reviewer |-> NoCheck]

Command ==
  \/ LookFirst \/ LookUnable0 \/ LookStarted \/ request_review \/ LookCompleted \/ LookUnable
  \/ LookCommit \/ Poll \/ Wakes \/ CallFails \/ Return

-----------------------------------------------------------------------------
(* GitHub and the clock, while a command runs *)

Runs == caller.pc \notin Results \cup {"idle"}
Happens == Runs /\ events < MaxEvents /\ events' = events + 1
Stamp == now - (now % SECOND)

AiTick == Runs /\ now < MaxNow /\ now' = now + 1 /\ UNCHANGED <<github, caller>>

\* A commit may have been made long before it is pushed. Checks are the head's.
Push ==
  /\ Happens /\ pushed' = now
  /\ \E t \in {head, Stamp} : head' = t
  /\ checks' = [r \in Reviewer |-> NoCheck]
  /\ UNCHANGED <<now, caller, reviewed, unable, answered>>

BotStarts(r) ==
  /\ Happens /\ ~checks[r].started /\ checks' = [checks EXCEPT ![r].started = TRUE]
  /\ UNCHANGED <<now, caller, head, reviewed, unable, answered, pushed>>

Answers(r) == Happens /\ answered' = [answered EXCEPT ![r] = now]
              /\ UNCHANGED <<now, caller, head, pushed>>
BotChecks(r) == /\ Answers(r) /\ checks[r] = [started |-> TRUE, at |-> 0]
                /\ checks' = [checks EXCEPT ![r].at = Stamp] /\ UNCHANGED <<reviewed, unable>>
BotReviews(r) == /\ Answers(r) /\ reviewed[r] # Stamp
                 /\ reviewed' = [reviewed EXCEPT ![r] = Stamp] /\ UNCHANGED <<checks, unable>>
BotDeclines(r) == /\ Answers(r) /\ unable[r] # Stamp
                  /\ unable' = [unable EXCEPT ![r] = Stamp] /\ UNCHANGED <<checks, reviewed>>

GitHub == AiTick \/ Push \/ \E r \in caller.asked :
            BotStarts(r) \/ BotChecks(r) \/ BotReviews(r) \/ BotDeclines(r)

AiNext == Command \/ GitHub \/ \E cmd \in {"wait", "request"}, rs \in SUBSET Reviewer : Begin(cmd, rs)

AiSpec == AiInit /\ [][AiNext]_aiVars

-----------------------------------------------------------------------------
(* Properties *)

\* A timeout is never reported over an answer that came before the last poll:
\* one of a later second than the start (GitHub's stamps are whole seconds),
\* about the head as it is (a push discards the checks), of a reviewer without
\* an older review (which would hide its check, detector.rs:195-220).
Heard(r) == /\ answered[r] - (answered[r] % SECOND) > caller.start
            /\ pushed < answered[r] /\ answered[r] < caller.polled
            /\ reviewed[r] \notin 1 .. caller.start
TimeoutMeansSilence ==
  [][Poll /\ caller'.pc = "timeout" => \A r \in Pending(caller) : ~Heard(r)]_aiVars
=============================================================================
