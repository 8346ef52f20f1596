--------------------------- MODULE PrReviewProofs ---------------------------
(***************************************************************************)
(* What a push does to the review threads of a pull request, for any       *)
(* number of threads and drafts and any number of seconds.                 *)
(*                                                                         *)
(* The second that the editor of `review` takes is what makes the stamp of *)
(* threads.md comparable: a push starts after the second of the stamp, so  *)
(* that every reply it posts is newer than the file, and the next push     *)
(* that has not pulled since takes it for a new comment.                   *)
(*                                                                         *)
(* Before it there is the wait for the bots (AiReview), with any number of *)
(* reviewers, any second, timeout and interval.                            *)
(***************************************************************************)
EXTENDS PrReview, AiReview, TLAPS

(* The types *)
Fetch == [Thread -> {"left out", "resolved", "open"}]
Job == [pc: {"idle", "fetch", "write", "hash", "read", "detect", "apply", "refetch"},
        force: BOOLEAN, fetched: Fetch \cup {None}, late: SUBSET Thread,
        src: Content \cup {None}, replies: SUBSET Thread, resolves: SUBSET Thread]

Typed ==
  /\ remote \in [Thread -> [newest: Time, resolved: BOOLEAN]]
  /\ file \in Content \cup {None} /\ hash \in Content \cup {None}
  /\ approval \in Content \cup {None} /\ job \in Job /\ clock \in Time
  /\ unread \in [Thread -> {"none", "gap", "new"}]
  /\ sent \subseteq Wish /\ granted \subseteq Wish
  /\ job.pc \in {"write", "refetch"} => job.fetched \in Fetch
  /\ job.pc \in {"read", "detect", "apply"} => file \in Content
  /\ job.pc \in {"detect", "apply"} => job.src \in Content
  /\ job.pc = "apply" => \A t \in job.replies : job.src.threads[t] # None /\ job.src.threads[t].draft # None
  /\ job.pc = "apply" => \A t \in job.resolves : job.src.threads[t] # None /\ job.src.threads[t].resolve

\* Nothing is stamped with a time to come, and what is approved, or being
\* pushed, with a time that is over.
Stamped ==
  /\ \A t \in Thread : remote[t].newest <= clock
  /\ file # None => file.pulled_at <= clock
  /\ approval # None => approval.pulled_at < clock
  /\ job.pc \in {"read", "detect", "apply"} => file.pulled_at < clock

\* What is being pushed has the stamp and the threads of the file.
SourceIsFile ==
  job.pc \in {"detect", "apply"} =>
    /\ job.src.pulled_at = file.pulled_at
    /\ \A t \in Thread : job.src.threads[t] # None => file.threads[t] # None

\* A thread with a comment that is not in the file, or with a reply from it,
\* has one that is newer than the file.
NewerThanFile ==
  \A t \in Thread :
    /\ (\E d \in Draft : <<t, d>> \in sent) => file # None /\ remote[t].newest > file.pulled_at
    /\ unread[t] = "new" /\ file # None /\ file.threads[t] # None => remote[t].newest > file.pulled_at

\* What is on the list of a push without --force is not posted yet, and was
\* seen by somebody.
ListedOnce ==
  job.pc = "apply" /\ ~job.force =>
    \A t \in job.replies : /\ <<t, job.src.threads[t].draft>> \notin sent
                           /\ unread[t] # "new" \/ t \in job.late

\* A box comes after its reply.
RepliesFirst ==
  job.pc = "apply" =>
    \A t \in job.resolves : \/ job.src.threads[t].draft = None
                            \/ t \in job.replies
                            \/ <<t, job.src.threads[t].draft>> \in sent

\* From the approval to the list.
WishesGranted ==
  /\ approval # None => Wishes(approval) \subseteq granted
  /\ job.pc = "read" => Wishes(file) \subseteq granted
  /\ job.pc \in {"detect", "apply"} => Wishes(job.src) \subseteq granted

ReplyInv == /\ Typed /\ Stamped /\ SourceIsFile /\ NewerThanFile /\ ListedOnce /\ RepliesFirst
            /\ ~Meanwhile => WishesGranted

-----------------------------------------------------------------------------
\* An edit changes one thread of the file, which stays a thread.
LEMMA EditsKeepTheStamp ==
  ASSUME Typed, NEW t \in Thread, TickBox(t) \/ \E d \in Draft \cup {None} : EditDraft(t, d)
  PROVE  /\ file \in Content /\ file' \in Content /\ file'.pulled_at = file.pulled_at
         /\ \A x \in Thread : file'.threads[x] # None <=> file.threads[x] # None
<1> USE ContentAssumption DEF Typed
<1>1. file \in Content /\ file.threads[t] \in Parsed
  BY DEF TickBox, EditDraft, MayEdit, Content
<1>2. PICK p \in Parsed : /\ file'.pulled_at = file.pulled_at /\ file' \in Content
                          /\ file'.threads = [file.threads EXCEPT ![t] = p]
  <2>1. CASE TickBox(t)
    <3>1. file' = [file EXCEPT !.threads[t].resolve = ~file.threads[t].resolve]
      BY <2>1 DEF TickBox
    <3>2. (~file.threads[t].resolve) \in BOOLEAN
      OBVIOUS
    <3>3. [file.threads[t] EXCEPT !.resolve = ~file.threads[t].resolve] \in Parsed
      BY <1>1, <3>2 DEF Parsed
    <3>4. /\ file' \in Content /\ file'.pulled_at = file.pulled_at
          /\ file'.threads = [file.threads EXCEPT ![t] =
               [file.threads[t] EXCEPT !.resolve = ~file.threads[t].resolve]]
      BY <1>1, <3>1, <3>3 DEF Content
    <3> QED BY <3>3, <3>4
  <2>2. ASSUME NEW d \in Draft \cup {None}, EditDraft(t, d)
        PROVE  \E p \in Parsed : /\ file'.pulled_at = file.pulled_at /\ file' \in Content
                                 /\ file'.threads = [file.threads EXCEPT ![t] = p]
    <3>1. file' = [file EXCEPT !.threads[t].draft = d]
      BY <2>2 DEF EditDraft
    <3>2. [file.threads[t] EXCEPT !.draft = d] \in Parsed
      BY <1>1 DEF Parsed
    <3>3. /\ file' \in Content /\ file'.pulled_at = file.pulled_at
          /\ file'.threads = [file.threads EXCEPT ![t] = [file.threads[t] EXCEPT !.draft = d]]
      BY <1>1, <3>1, <3>2 DEF Content
    <3> QED BY <3>2, <3>3
  <2> QED BY <2>1, <2>2
<1> QED BY <1>1, <1>2 DEF Content

\* The variables keep their types, and a push what it was started with.
LEMMA TypedStep ==
  ASSUME Typed, [Next]_vars
  PROVE  Typed'
<1> USE PrReviewAssumption, ContentAssumption DEF Typed, history
<1>0. NoJob \in Job /\ NoJob.pc = "idle"
  BY DEF NoJob, Job
<1>1. CASE Tick
  BY <1>1 DEF Tick, Time
<1>2. ASSUME NEW t \in Thread, OtherComments(t)
      PROVE  Typed'
  <2>1. remote' \in [Thread -> [newest: Time, resolved: BOOLEAN]]
    BY <1>2 DEF OtherComments
  <2>2. unread' \in [Thread -> {"none", "gap", "new"}]
    BY <1>2 DEF OtherComments
  <2>3. /\ job' \in Job /\ job'.pc = job.pc /\ job'.fetched = job.fetched /\ job'.src = job.src
        /\ job'.replies = job.replies /\ job'.resolves = job.resolves
    BY <1>2 DEF OtherComments, Job
  <2> QED BY <1>2, <2>1, <2>2, <2>3 DEF OtherComments
<1>3. ASSUME NEW t \in Thread, NEW r \in BOOLEAN, OtherResolves(t, r)
      PROVE  Typed'
  BY <1>3 DEF OtherResolves
<1>4. ASSUME NEW t \in Thread, TickBox(t) \/ \E d \in Draft \cup {None} : EditDraft(t, d)
      PROVE  Typed'
  BY <1>4, EditsKeepTheStamp DEF TickBox, EditDraft
<1>5. ASSUME NEW b \in BOOLEAN, Review(b)
      PROVE  Typed'
  <2>1. file' \in Content
    BY <1>5 DEF Review, Content
  <2>2. granted' \subseteq Wish
    BY <1>5 DEF Review, Wishes
  <2> QED BY <1>5, <2>1, <2>2 DEF Review, Time
<1>6. ASSUME NEW b \in BOOLEAN, PullStart(b)
      PROVE  Typed'
  <2>1. job' \in Job /\ job'.pc = "fetch"
    BY <1>6 DEF PullStart, NoJob, Job
  <2> QED BY <1>6, <2>1 DEF PullStart
<1>7. ASSUME NEW b \in BOOLEAN
      PROVE  Fetched(b) \in Fetch
  BY DEF Fetched, Fetch
<1>8. ASSUME NEW b \in BOOLEAN, PullFetch(b)
      PROVE  Typed'
  <2>1. job' \in Job /\ job'.pc = "write" /\ job'.fetched \in Fetch
    BY <1>7, <1>8 DEF PullFetch, Job
  <2> QED BY <1>8, <2>1 DEF PullFetch
<1>9. ASSUME NEW drafts \in [Thread -> Draft \cup {None}], Written(drafts), job.pc \in {"write", "refetch"}
      PROVE  Typed'
  <2>1. job' \in Job /\ job'.pc = "hash"
    BY <1>9 DEF Written, NoJob, Job
  <2>2. file' \in Content
    BY <1>9 DEF Written, Serialized, Boxes, Content, Parsed
  <2>3. unread' \in [Thread -> {"none", "gap", "new"}]
    BY <1>9 DEF Written
  <2> QED BY <1>9, <2>1, <2>2, <2>3 DEF Written
<1>10. CASE PullWrite \/ PushWrite
  <2>1. NoDrafts \in [Thread -> Draft \cup {None}] /\ DraftsIn(file) \in [Thread -> Draft \cup {None}]
    BY DEF NoDrafts, DraftsIn, Content, Parsed
  <2> QED BY <1>9, <1>10, <2>1 DEF PullWrite, PushWrite
<1>11. CASE WriteHash \/ Stops
  BY <1>0, <1>11 DEF WriteHash, Stops
<1>12. ASSUME NEW b \in BOOLEAN, PushStart(b)
       PROVE  Typed'
  <2>1. job' \in Job /\ job'.pc = "read" /\ file \in Content
    BY <1>12 DEF PushStart, NoJob, Job
  <2> QED BY <1>12, <2>1 DEF PushStart
<1>13. CASE PushRead
  <2>1. job' \in Job /\ job'.pc = "detect" /\ job'.src = file /\ file \in Content
    BY <1>13 DEF PushRead, Job
  <2> QED BY <1>13, <2>1 DEF PushRead
<1>14. CASE PushDetect
  <2>1. CASE job' = NoJob
    BY <1>0, <1>14, <2>1 DEF PushDetect
  <2>2. CASE job' # NoJob
    <3> DEFINE local == {t \in Thread : job.src.threads[t] # None}
               replies == {t \in local : job.src.threads[t].draft # None}
               resolves == {t \in local : job.src.threads[t].resolve /\ ~remote[t].resolved}
    <3>1. job' = [job EXCEPT !.pc = "apply", !.replies = replies, !.resolves = resolves, !.late = {}]
      BY <1>14, <2>2 DEF PushDetect
    <3>2. replies \in SUBSET Thread /\ resolves \in SUBSET Thread
      OBVIOUS
    <3>3. /\ \A t \in replies : job.src.threads[t] # None /\ job.src.threads[t].draft # None
          /\ \A t \in resolves : job.src.threads[t] # None /\ job.src.threads[t].resolve
      OBVIOUS
    <3> HIDE DEF replies, resolves
    <3>4. /\ job' \in Job /\ job'.pc = "apply" /\ job'.src = job.src
          /\ job'.replies = replies /\ job'.resolves = resolves
      BY <3>1, <3>2 DEF Job
    <3> QED BY <1>14, <3>3, <3>4 DEF PushDetect
  <2> QED BY <2>1, <2>2
<1>15. ASSUME NEW t \in Thread, NEW b \in BOOLEAN, PostReply(t, b)
       PROVE  Typed'
  <2>1. /\ job.pc = "apply" /\ job.src.threads[t] \in Parsed /\ job.src.threads[t].draft \in Draft
    BY <1>15 DEF PostReply, Content, Parsed
  <2>2. sent' \subseteq Wish /\ remote' \in [Thread -> [newest: Time, resolved: BOOLEAN]]
    BY <1>15, <2>1 DEF PostReply, Wish
  <2>3. \/ job' = NoJob
        \/ /\ job' \in Job /\ job'.pc = "apply" /\ job'.src = job.src
           /\ job'.replies \subseteq job.replies /\ job'.resolves = job.resolves
    BY <1>15 DEF PostReply, Job
  <2> QED BY <1>0, <1>15, <2>1, <2>2, <2>3 DEF PostReply
<1>16. ASSUME NEW t \in Thread, NEW b \in BOOLEAN, ResolveThread(t, b)
       PROVE  Typed'
  <2>1. remote' \in [Thread -> [newest: Time, resolved: BOOLEAN]]
    BY <1>16 DEF ResolveThread
  <2>2. \/ job' = NoJob
        \/ /\ job' \in Job /\ job'.pc = "apply" /\ job'.src = job.src
           /\ job'.replies = job.replies /\ job'.resolves \subseteq job.resolves
    BY <1>16 DEF ResolveThread, MayResolve, Job
  <2> QED BY <1>0, <1>16, <2>1, <2>2 DEF ResolveThread, MayResolve
<1>17. CASE PushRefetch
  <2>1. PICK b \in BOOLEAN :
          job' = [job EXCEPT !.pc = "refetch", !.fetched = Fetched(b), !.late = {}]
    BY <1>17 DEF PushRefetch
  <2>2. job' \in Job /\ job'.pc = "refetch" /\ job'.fetched \in Fetch
    BY <1>7, <2>1 DEF Job
  <2> QED BY <1>17, <2>2 DEF PushRefetch
<1>18. CASE UNCHANGED vars
  BY <1>18 DEF vars
<1> QED BY <1>1, <1>2, <1>3, <1>4, <1>5, <1>6, <1>8, <1>10, <1>11, <1>12, <1>13, <1>14, <1>15, <1>16,
           <1>17, <1>18 DEF Next

-----------------------------------------------------------------------------
\* The invariant holds in every reachable state.
LEMMA ReplyInvAlways == Spec => []ReplyInv
<1> USE PrReviewAssumption, ContentAssumption
<1>1. Init => ReplyInv
  <2> SUFFICES ASSUME Init PROVE ReplyInv
    OBVIOUS
  <2>1. NoJob \in Job /\ NoJob.pc = "idle"
    BY DEF NoJob, Job
  <2>2. Typed
    BY <2>1 DEF Init, Typed, Time
  <2> QED BY <2>1, <2>2 DEF Init, ReplyInv, Stamped, SourceIsFile, NewerThanFile, ListedOnce, RepliesFirst,
             WishesGranted
<1>2. ReplyInv /\ [Next]_vars => ReplyInv'
  <2> SUFFICES ASSUME ReplyInv, [Next]_vars PROVE ReplyInv'
    OBVIOUS
  <2>1. Typed /\ Typed'
    BY TypedStep DEF ReplyInv
  <2>2. /\ clock \in Nat /\ \A t \in Thread : remote[t].newest \in Nat
        /\ file # None => file.pulled_at \in Nat
        /\ approval # None => approval.pulled_at \in Nat
    BY <2>1 DEF Typed, Time, Content
  <2>3. NoJob.pc = "idle"
    BY DEF NoJob
  <2> DEFINE Rest == <<remote, file, approval, clock, unread, sent, granted>>
  \* Steps that only move a command, to where nothing is known about the push.
  <2>4. ASSUME UNCHANGED Rest, job'.pc \notin {"read", "detect", "apply"}
        PROVE  ReplyInv'
    BY <2>1, <2>4 DEF ReplyInv, Stamped, SourceIsFile, NewerThanFile, ListedOnce, RepliesFirst,
       WishesGranted
  <2>5. CASE Tick
    BY <2>1, <2>2, <2>5 DEF Tick, Typed, history, ReplyInv, Stamped, SourceIsFile, NewerThanFile, ListedOnce,
       RepliesFirst, WishesGranted
  <2>6. ASSUME NEW t \in Thread, OtherComments(t)
        PROVE  ReplyInv'
    <3>1. /\ \A x \in Thread : remote'[x].newest = IF x = t THEN clock ELSE remote[x].newest
          /\ \A x \in Thread : x # t => unread'[x] = unread[x]
          /\ unread'[t] = IF unread[t] # "new" /\ file # None /\ file.pulled_at = clock THEN "gap" ELSE "new"
      BY <2>1, <2>6 DEF OtherComments, Typed
    <3>2. /\ job'.pc = job.pc /\ job'.src = job.src /\ job'.force = job.force
          /\ job'.replies = job.replies /\ job'.resolves = job.resolves
          /\ job'.late = IF job.pc \in {"write", "apply", "refetch"} THEN job.late \cup {t} ELSE job.late
      BY <2>1, <2>6 DEF OtherComments, Typed, Job
    <3>3. UNCHANGED <<file, approval, clock, sent, granted>>
      BY <2>6 DEF OtherComments
    <3>4. Stamped' /\ SourceIsFile' /\ RepliesFirst' /\ (~Meanwhile => WishesGranted')
      BY <2>2, <3>1, <3>2, <3>3 DEF ReplyInv, Stamped, SourceIsFile, RepliesFirst, WishesGranted
    <3>5. NewerThanFile'
      <4> SUFFICES ASSUME NEW x \in Thread
                   PROVE  /\ (\E d \in Draft : <<x, d>> \in sent) => file # None /\ remote'[x].newest > file.pulled_at
                          /\ unread'[x] = "new" /\ file # None /\ file.threads[x] # None =>
                               remote'[x].newest > file.pulled_at
        BY <3>3 DEF NewerThanFile
      <4>1. /\ (\E d \in Draft : <<x, d>> \in sent) => file # None /\ remote[x].newest > file.pulled_at
            /\ unread[x] = "new" /\ file # None /\ file.threads[x] # None => remote[x].newest > file.pulled_at
            /\ remote[x].newest <= clock /\ (file # None => file.pulled_at <= clock)
        BY DEF ReplyInv, NewerThanFile, Stamped
      <4>2. CASE x # t BY <3>1, <4>1, <4>2
      <4>3. CASE x = t BY <2>2, <3>1, <4>1, <4>3
      <4> QED BY <4>2, <4>3
    <3>6. ListedOnce'
      <4> SUFFICES ASSUME job.pc = "apply", ~job.force, NEW x \in job.replies
                   PROVE  /\ <<x, job.src.threads[x].draft>> \notin sent
                          /\ unread'[x] # "new" \/ x \in job.late \cup {t}
        BY <3>2, <3>3 DEF ListedOnce
      <4>1. x \in Thread
        BY <2>1 DEF Typed, Job
      <4> QED BY <3>1, <4>1 DEF ReplyInv, ListedOnce
    <3> QED BY <2>1, <3>4, <3>5, <3>6 DEF ReplyInv
  <2>7. ASSUME NEW t \in Thread, NEW r \in BOOLEAN, OtherResolves(t, r)
        PROVE  ReplyInv'
    <3>1. \A x \in Thread : remote'[x].newest = remote[x].newest
      BY <2>1, <2>7 DEF OtherResolves, Typed
    <3> QED BY <2>1, <2>7, <3>1 DEF OtherResolves, history, ReplyInv, Stamped, SourceIsFile, NewerThanFile,
               ListedOnce, RepliesFirst, WishesGranted
  <2>8. ASSUME NEW t \in Thread, TickBox(t) \/ \E d \in Draft \cup {None} : EditDraft(t, d)
        PROVE  ReplyInv'
    <3>1. /\ file # None /\ file' # None /\ file'.pulled_at = file.pulled_at
          /\ \A x \in Thread : file'.threads[x] # None <=> file.threads[x] # None
      BY <2>1, <2>8, EditsKeepTheStamp
    <3>2. (Meanwhile \/ job.pc = "idle") /\ UNCHANGED <<remote, approval, job, clock, history>>
      BY <2>8 DEF TickBox, EditDraft, MayEdit
    <3> QED BY <2>1, <3>1, <3>2 DEF history, ReplyInv, Stamped, SourceIsFile, NewerThanFile, ListedOnce,
               RepliesFirst, WishesGranted
  <2>9. ASSUME NEW b \in BOOLEAN, Review(b)
        PROVE  ReplyInv'
    <3>1. /\ job.pc = "idle" /\ file # None /\ file' # None /\ clock' = clock + 1
          /\ file'.pulled_at = file.pulled_at /\ file'.threads = file.threads
          /\ approval' = IF b THEN file' ELSE None
          /\ granted' = IF b THEN granted \cup Wishes(file) ELSE granted
          /\ UNCHANGED <<remote, job, unread, sent>>
      BY <2>1, <2>9 DEF Review, Typed, Content
    <3>2. Wishes(file') = Wishes(file)
      BY <3>1 DEF Wishes
    <3>3. Stamped' /\ SourceIsFile' /\ NewerThanFile' /\ ListedOnce' /\ RepliesFirst'
      BY <2>2, <3>1 DEF ReplyInv, Stamped, SourceIsFile, NewerThanFile, ListedOnce, RepliesFirst
    <3>4. WishesGranted'
      BY <3>1, <3>2 DEF WishesGranted
    <3> QED BY <2>1, <3>3, <3>4 DEF ReplyInv
  <2>10. ASSUME NEW drafts, Written(drafts)
         PROVE  ReplyInv'
    <3>1. /\ job'.pc = "hash" /\ sent' = {} /\ UNCHANGED <<remote, approval, clock, granted>>
          /\ file'.pulled_at = clock
          /\ \A t \in Thread : unread'[t] = "new" => file'.threads[t] = None
      BY <2>10 DEF Written, NoJob, Serialized, Boxes
    <3> QED BY <2>1, <2>2, <3>1 DEF ReplyInv, Stamped, SourceIsFile, NewerThanFile, ListedOnce, RepliesFirst,
               WishesGranted
  <2>11. ASSUME NEW b \in BOOLEAN, PushStart(b)
         PROVE  ReplyInv'
    <3>1. job'.pc = "read" /\ file # None /\ approval = file /\ UNCHANGED Rest
      BY <2>11 DEF PushStart, NoJob, history
    <3> QED BY <2>1, <3>1 DEF ReplyInv, Stamped, SourceIsFile, NewerThanFile, ListedOnce, RepliesFirst,
               WishesGranted
  <2>12. CASE PushRead
    <3>1. job.pc = "read" /\ job'.pc = "detect" /\ job'.src = file /\ UNCHANGED Rest
      BY <2>1, <2>12 DEF PushRead, history, Typed, Job
    <3> QED BY <2>1, <3>1 DEF ReplyInv, Stamped, SourceIsFile, NewerThanFile, ListedOnce, RepliesFirst,
               WishesGranted
  <2>13. CASE PushDetect /\ job' # NoJob
    <3> DEFINE local == {t \in Thread : job.src.threads[t] # None}
               conflicts == {t \in local : has_new_comments_since(t, job.src.pulled_at)}
               replies == {t \in local : job.src.threads[t].draft # None}
               resolves == {t \in local : job.src.threads[t].resolve /\ ~remote[t].resolved}
    <3>1. /\ job.pc = "detect" /\ (conflicts = {} \/ job.force)
          /\ job' = [job EXCEPT !.pc = "apply", !.replies = replies, !.resolves = resolves, !.late = {}]
          /\ UNCHANGED Rest
      BY <2>13 DEF PushDetect, history
    <3>2. replies \in SUBSET Thread /\ resolves \in SUBSET Thread
      OBVIOUS
    <3>3. /\ \A t \in replies \cup resolves : t \in local
          /\ \A t \in resolves : job.src.threads[t].draft = None \/ t \in replies
      OBVIOUS
    <3>4. /\ job'.pc = "apply" /\ job'.src = job.src /\ job'.force = job.force
          /\ job'.replies = replies /\ job'.resolves = resolves
      <4> HIDE DEF replies, resolves
      <4> QED BY <2>1, <3>1, <3>2 DEF Typed, Job
    <3>5. job.src \in Content /\ job.src.pulled_at = file.pulled_at /\ file \in Content
      BY <2>1, <3>1 DEF Typed, ReplyInv, SourceIsFile
    <3>6. conflicts = {} => \A t \in local : /\ ~(remote[t].newest > file.pulled_at)
                                            /\ file.threads[t] # None
      BY <3>1, <3>5 DEF has_new_comments_since, ReplyInv, SourceIsFile
    <3>7. ListedOnce'
      <4> SUFFICES ASSUME ~job.force, NEW t \in replies
                   PROVE  <<t, job.src.threads[t].draft>> \notin sent /\ unread[t] # "new"
        BY <3>1, <3>4 DEF ListedOnce
      <4>1. t \in Thread /\ ~(remote[t].newest > file.pulled_at) /\ file.threads[t] # None /\ file # None
        BY <3>1, <3>3, <3>5, <3>6
      <4>2. job.src.threads[t].draft \in Draft
        BY <3>5, <4>1 DEF Content, Parsed
      <4> QED BY <4>1, <4>2 DEF ReplyInv, NewerThanFile
    <3>8. Stamped' /\ SourceIsFile' /\ NewerThanFile' /\ RepliesFirst' /\ (~Meanwhile => WishesGranted')
      BY <3>1, <3>3, <3>4 DEF ReplyInv, Stamped, SourceIsFile, NewerThanFile, RepliesFirst, WishesGranted
    <3> QED BY <2>1, <3>7, <3>8 DEF ReplyInv
  <2>14. ASSUME NEW t \in Thread, NEW b \in BOOLEAN, PostReply(t, b)
         PROVE  ReplyInv'
    <3>1. /\ job.pc = "apply" /\ t \in job.replies
          /\ \A x \in Thread : remote'[x].newest = IF x = t THEN clock ELSE remote[x].newest
          /\ sent' = sent \cup {<<t, job.src.threads[t].draft>>}
          /\ UNCHANGED <<file, approval, clock, unread, granted>>
      BY <2>1, <2>14 DEF PostReply, Typed
    <3>2. \/ job'.pc = "idle"
          \/ /\ job'.pc = "apply" /\ job'.src = job.src /\ job'.force = job.force /\ job'.late = job.late
             /\ job'.replies = job.replies \ {t} /\ job'.resolves = job.resolves
      BY <2>1, <2>3, <2>14 DEF PostReply, Typed, Job
    <3>3. Stamped' /\ SourceIsFile' /\ (~Meanwhile => WishesGranted')
      BY <2>2, <3>1, <3>2 DEF ReplyInv, Stamped, SourceIsFile, WishesGranted
    <3>4. NewerThanFile'
      <4>1. file # None /\ file.pulled_at < clock
        BY <2>1, <3>1 DEF ReplyInv, Stamped, Typed
      <4> QED BY <2>2, <3>1, <4>1 DEF ReplyInv, Stamped, NewerThanFile
    <3>5. ListedOnce' /\ RepliesFirst'
      BY <3>1, <3>2 DEF ReplyInv, ListedOnce, RepliesFirst
    <3> QED BY <2>1, <3>3, <3>4, <3>5 DEF ReplyInv
  <2>15. ASSUME NEW t \in Thread, NEW b \in BOOLEAN, ResolveThread(t, b)
         PROVE  ReplyInv'
    <3>1. /\ job.pc = "apply" /\ \A x \in Thread : remote'[x].newest = remote[x].newest
          /\ UNCHANGED <<file, approval, clock, unread, sent, granted>>
      BY <2>1, <2>15 DEF ResolveThread, MayResolve, Typed, history
    <3>2. \/ job'.pc = "idle"
          \/ /\ job'.pc = "apply" /\ job'.src = job.src /\ job'.force = job.force /\ job'.late = job.late
             /\ job'.replies = job.replies /\ job'.resolves = job.resolves \ {t}
      BY <2>1, <2>3, <2>15 DEF ResolveThread, MayResolve, Typed, Job
    <3> QED BY <2>1, <3>1, <3>2 DEF ReplyInv, Stamped, SourceIsFile, NewerThanFile, ListedOnce, RepliesFirst,
               WishesGranted
  <2>16. ASSUME PullWrite \/ PushWrite PROVE ReplyInv'
    BY <2>10, <2>16 DEF PullWrite, PushWrite
  <2>17. ASSUME \/ WriteHash \/ Stops \/ PushRefetch
                \/ PushDetect /\ job' = NoJob
                \/ \E b \in BOOLEAN : PullStart(b) \/ PullFetch(b)
         PROVE  ReplyInv'
    <3>1. CASE WriteHash
      BY <2>1, <2>4, <3>1 DEF WriteHash, history, NoJob, Typed, Job
    <3>2. CASE Stops
      BY <2>1, <2>4, <3>2 DEF Stops, history, NoJob, Typed, Job
    <3>3. CASE PushRefetch
      BY <2>1, <2>4, <3>3 DEF PushRefetch, history, NoJob, Typed, Job
    <3>4. CASE PushDetect /\ job' = NoJob
      <4>1. UNCHANGED Rest
        BY <3>4 DEF PushDetect, history
      <4> QED BY <2>4, <3>4, <4>1 DEF NoJob
    <3>5. CASE \E b \in BOOLEAN : PullStart(b) \/ PullFetch(b)
      BY <2>1, <2>4, <3>5 DEF PullStart, PullFetch, history, NoJob, Typed, Job
    <3> QED BY <2>17, <3>1, <3>2, <3>3, <3>4, <3>5
  <2>18. CASE UNCHANGED vars
    BY <2>1, <2>18 DEF vars, ReplyInv, Stamped, SourceIsFile, NewerThanFile, ListedOnce, RepliesFirst,
       WishesGranted
  <2>19. \/ Tick \/ PushRead \/ PushDetect \/ PullWrite \/ PushWrite
         \/ \E t \in Thread : OtherComments(t) \/ TickBox(t) \/ \E d \in Draft \cup {None} : EditDraft(t, d)
         \/ \E t \in Thread, b \in BOOLEAN : OtherResolves(t, b) \/ PostReply(t, b) \/ ResolveThread(t, b)
         \/ \E b \in BOOLEAN : Review(b) \/ PushStart(b)
         \/ WriteHash \/ Stops \/ PushRefetch \/ \E b \in BOOLEAN : PullStart(b) \/ PullFetch(b)
         \/ UNCHANGED vars
    BY DEF Next
  <2>20. CASE Tick \/ PushRead \/ PushDetect \/ PullWrite \/ PushWrite
    BY <2>5, <2>12, <2>13, <2>16, <2>17, <2>20
  <2>21. CASE \E t \in Thread : OtherComments(t) \/ TickBox(t) \/ \E d \in Draft \cup {None} : EditDraft(t, d)
    BY <2>6, <2>8, <2>21
  <2>22. CASE \E t \in Thread, b \in BOOLEAN : OtherResolves(t, b) \/ PostReply(t, b) \/ ResolveThread(t, b)
    BY <2>7, <2>14, <2>15, <2>22
  <2>23. CASE \E b \in BOOLEAN : Review(b) \/ PushStart(b)
    BY <2>9, <2>11, <2>23
  <2>24. CASE WriteHash \/ Stops \/ PushRefetch \/ \E b \in BOOLEAN : PullStart(b) \/ PullFetch(b)
    BY <2>17, <2>24
  <2> QED BY <2>18, <2>19, <2>20, <2>21, <2>22, <2>23, <2>24
<1> QED BY <1>1, <1>2, PTL DEF Spec

-----------------------------------------------------------------------------
(* The theorems *)

\* Unless --force says so, no draft is posted a second time, however often
\* pushes stop half way, and none into a thread that somebody had written to in
\* a second after the stamp of threads.md, before the push looked.
THEOREM RepliesOnce == Spec => RepliesOnceToWhatWasRead
<1>1. ReplyInv /\ [Next]_vars =>
        [\A t \in Thread, b \in BOOLEAN : PostReply(t, b) /\ ~job.force =>
           /\ <<t, job.src.threads[t].draft>> \notin sent
           /\ unread[t] # "new" \/ t \in job.late]_vars
  BY DEF ReplyInv, ListedOnce, PostReply
<1> QED BY <1>1, ReplyInvAlways, PTL DEF Spec, RepliesOnceToWhatWasRead

\* When threads.md is not edited while a command runs, a push writes to GitHub
\* only replies and boxes of a content that was approved.
THEOREM PushSendsOnlyApproved == ~Meanwhile => (Spec => SendsOnlyApproved)
<1> SUFFICES ASSUME ~Meanwhile PROVE Spec => SendsOnlyApproved
  OBVIOUS
<1>1. ReplyInv /\ [Next]_vars =>
        [\A t \in Thread, b \in BOOLEAN :
           /\ PostReply(t, b) => <<t, job.src.threads[t].draft>> \in granted
           /\ ResolveThread(t, b) => <<t, "resolve">> \in granted]_vars
  <2> SUFFICES ASSUME ReplyInv, NEW t \in Thread, NEW b \in BOOLEAN
               PROVE  /\ PostReply(t, b) => <<t, job.src.threads[t].draft>> \in granted
                      /\ ResolveThread(t, b) => <<t, "resolve">> \in granted
    OBVIOUS
  <2>1. ASSUME PostReply(t, b) PROVE <<t, job.src.threads[t].draft>> \in granted
    <3>1. /\ job.pc = "apply" /\ job.src \in Content
          /\ job.src.threads[t] # None /\ job.src.threads[t].draft # None
      BY <2>1 DEF PostReply, ReplyInv, Typed
    <3>2. job.src.threads[t].draft \in Draft
      BY <3>1 DEF Content, Parsed
    <3>3. <<t, job.src.threads[t].draft>> \in Wishes(job.src)
      BY <3>1, <3>2 DEF Wishes, Wish
    <3> QED BY <3>1, <3>3 DEF ReplyInv, WishesGranted
  <2>2. ASSUME ResolveThread(t, b) PROVE <<t, "resolve">> \in granted
    <3>1. job.pc = "apply" /\ job.src.threads[t] # None /\ job.src.threads[t].resolve
      BY <2>2 DEF ResolveThread, MayResolve, ReplyInv, Typed
    <3>2. <<t, "resolve">> \in Wishes(job.src)
      BY <3>1 DEF Wishes, Wish
    <3> QED BY <3>1, <3>2 DEF ReplyInv, WishesGranted
  <2> QED BY <2>1, <2>2
<1> QED BY <1>1, ReplyInvAlways, PTL DEF Spec, SendsOnlyApproved

\* However a push ends, it has resolved no thread whose reply it did not post.
THEOREM PushResolvesWhatIsAnswered == Spec => ResolvesWhatIsAnswered
<1>1. ReplyInv /\ [Next]_vars =>
        [\A t \in Thread, b \in BOOLEAN :
           ResolveThread(t, b) => <<t, job.src.threads[t].draft>> \in sent \/ job.src.threads[t].draft = None]_vars
  BY DEF ReplyInv, RepliesFirst, ResolveThread, MayResolve
<1> QED BY <1>1, ReplyInvAlways, PTL DEF Spec, ResolvesWhatIsAnswered

-----------------------------------------------------------------------------
(* The wait for the bots: its invariant *)

AiCaller ==
  [cmd: {"none", "wait", "request"},
   pc: Results \cup {"idle", "first", "unable0", "started", "commit", "post",
                     "poll", "completed", "unable", "sleep"},
   asked: SUBSET Reviewer, waits: SUBSET Reviewer, todo: SUBSET Reviewer,
   times: [Reviewer -> Nat], done: SUBSET Reviewer, skipped: SUBSET Reviewer,
   start: Nat, since: Nat, polled: Nat, wake: Nat]

InARound == {"first", "unable0", "started", "post", "completed", "unable"}
BeforeTheLoop == {"first", "unable0", "started", "commit", "post"}

GitHubTyped ==
  /\ now \in Nat /\ head \in Nat /\ pushed \in Nat
  /\ reviewed \in [Reviewer -> Nat] /\ unable \in [Reviewer -> Nat] /\ answered \in [Reviewer -> Nat]
  /\ checks \in [Reviewer -> [started: BOOLEAN, at: Nat]]

\* A round has somebody to ask, and the loop somebody to wait for.
CallerTyped ==
  /\ caller \in AiCaller /\ caller.polled <= now
  /\ caller.pc \in InARound => caller.todo # {}
  /\ caller.pc \in BeforeTheLoop => caller.done = {} /\ caller.polled = 0 /\ caller.asked # {}
  /\ caller.pc = "started" => caller.waits # {} /\ caller.todo \subseteq caller.waits
  /\ caller.pc \in {"poll", "sleep"} => Pending(caller) # {}

\* What a reviewer answered about the head as it is, can be found.
Late(r) == answered[r] - (answered[r] % SECOND)
AnswerInv ==
  Runs => \A r \in Reviewer :
    /\ answered[r] <= now
    /\ Late(r) > caller.start /\ pushed < answered[r] =>
         Late(r) \in {reviewed[r], checks[r].at, unable[r]}

\* What a round has missed, since it was not there or in the other call.
RoundInv ==
  \A r \in Pending(caller) :
    Heard(r) => /\ caller.pc \notin {"poll", "sleep"}
                /\ caller.pc = "completed" => r \in caller.todo \/ unable[r] > caller.start
                /\ caller.pc = "unable" => r \in caller.todo /\ unable[r] > caller.start

AiInv == GitHubTyped /\ CallerTyped /\ AnswerInv /\ RoundInv

-----------------------------------------------------------------------------
LEMMA WholeSecond ==
  ASSUME NEW t \in Nat
  PROVE  t % SECOND \in Nat /\ t - (t % SECOND) \in Nat /\ t - (t % SECOND) <= t
<1>1. SECOND \in Nat /\ SECOND > 0
  BY AiReviewAssumption
<1>2. t % SECOND \in 0 .. SECOND - 1 /\ t % SECOND <= t
  BY <1>1
<1> QED BY <1>2

LEMMA NoCallerTyped == NoCaller \in AiCaller
BY DEF NoCaller, AiCaller, Results

LEMMA AskedIsAsked ==
  ASSUME CallerTyped, caller.pc \in InARound
  PROVE  Asked \in caller.todo /\ Asked \in Reviewer
<1>1. \E r : r \in caller.todo
  BY DEF CallerTyped
<1>2. Asked \in caller.todo
  BY <1>1 DEF Asked
<1> QED BY <1>2 DEF CallerTyped, AiCaller

\* The clock and GitHub.
LEMMA GitHubStep ==
  ASSUME AiInv, GitHub
  PROVE  AiInv'
<1>0. caller' = caller /\ Runs
  BY DEF GitHub, AiTick, Push, BotStarts, BotChecks, BotReviews, BotDeclines, Answers, Happens, github
<1>1. Stamp \in Nat /\ Stamp <= now
  BY WholeSecond DEF Stamp, AiInv, GitHubTyped
<1>2. GitHubTyped'
  <2>1. CASE AiTick BY <2>1, AiReviewAssumption DEF AiTick, AiInv, GitHubTyped, github
  <2>2. CASE Push
    <3>1. head' \in Nat BY <2>2, <1>1 DEF Push, AiInv, GitHubTyped
    <3>2. checks' \in [Reviewer -> [started: BOOLEAN, at: Nat]]
      BY <2>2 DEF Push, NoCheck
    <3> QED BY <2>2, <3>1, <3>2 DEF Push, AiInv, GitHubTyped
  <2>3. ASSUME NEW r \in caller.asked, BotStarts(r) PROVE GitHubTyped'
    BY <2>3 DEF BotStarts, AiInv, GitHubTyped
  <2>4. ASSUME NEW r \in caller.asked, BotChecks(r) PROVE GitHubTyped'
    BY <2>4, <1>1 DEF BotChecks, Answers, AiInv, GitHubTyped
  <2>5. ASSUME NEW r \in caller.asked, BotReviews(r) PROVE GitHubTyped'
    BY <2>5, <1>1 DEF BotReviews, Answers, AiInv, GitHubTyped
  <2>6. ASSUME NEW r \in caller.asked, BotDeclines(r) PROVE GitHubTyped'
    BY <2>6, <1>1 DEF BotDeclines, Answers, AiInv, GitHubTyped
  <2> QED BY <2>1, <2>2, <2>3, <2>4, <2>5, <2>6 DEF GitHub
<1>3. CallerTyped'
  <2>1. now \in Nat /\ now' \in {now, now + 1}
    BY DEF GitHub, AiTick, Push, BotStarts, BotChecks, BotReviews, BotDeclines, Answers, AiInv, GitHubTyped
  <2> QED BY <1>0, <2>1 DEF AiInv, CallerTyped, AiCaller, Pending
<1>4. AnswerInv'
  <2> SUFFICES ASSUME NEW q \in Reviewer
               PROVE  /\ answered'[q] <= now'
                      /\ Late(q)' > caller.start /\ pushed' < answered'[q] =>
                           Late(q)' \in {reviewed'[q], checks'[q].at, unable'[q]}
    BY <1>0 DEF AnswerInv
  <2>0. /\ answered[q] <= now /\ answered[q] \in Nat /\ now \in Nat /\ pushed \in Nat
        /\ Late(q) > caller.start /\ pushed < answered[q] =>
             Late(q) \in {reviewed[q], checks[q].at, unable[q]}
    BY <1>0 DEF AiInv, AnswerInv, GitHubTyped
  <2>1. CASE AiTick BY <2>0, <2>1 DEF AiTick, github, Late
  <2>2. CASE Push BY <2>0, <2>2 DEF Push
  <2>3. ASSUME NEW r \in caller.asked,
               BotStarts(r) \/ BotChecks(r) \/ BotReviews(r) \/ BotDeclines(r), q # r
        PROVE  /\ answered'[q] = answered[q] /\ now' = now /\ pushed' = pushed
               /\ reviewed'[q] = reviewed[q] /\ checks'[q] = checks[q] /\ unable'[q] = unable[q]
    BY <2>3 DEF BotStarts, BotChecks, BotReviews, BotDeclines, Answers, AiInv, GitHubTyped
  <2>4. ASSUME BotStarts(q)
        PROVE  /\ answered'[q] = answered[q] /\ now' = now /\ pushed' = pushed
               /\ reviewed'[q] = reviewed[q] /\ checks'[q].at = checks[q].at /\ unable'[q] = unable[q]
    BY <2>4 DEF BotStarts, AiInv, GitHubTyped
  <2>5. ASSUME BotChecks(q) \/ BotReviews(q) \/ BotDeclines(q)
        PROVE  /\ answered'[q] = now /\ now' = now
               /\ Stamp \in {reviewed'[q], checks'[q].at, unable'[q]}
    BY <2>5 DEF BotChecks, BotReviews, BotDeclines, Answers, AiInv, GitHubTyped
  <2> QED BY <2>0, <2>1, <2>2, <2>3, <2>4, <2>5 DEF GitHub, Late, Stamp
<1>5. RoundInv'
  <2> SUFFICES ASSUME NEW q \in Pending(caller), Heard(q)'
               PROVE  Heard(q) /\ unable'[q] = unable[q]
    BY <1>0 DEF AiInv, RoundInv, Pending
  <2>0. /\ q \in Reviewer /\ answered[q] \in Nat /\ now \in Nat /\ pushed \in Nat /\ answered[q] <= now
        /\ caller.polled \in Nat /\ caller.polled <= now
    BY <1>0 DEF AiInv, AnswerInv, GitHubTyped, CallerTyped, AiCaller, Pending
  <2>1. CASE AiTick BY <1>0, <2>1 DEF AiTick, github, Heard
  <2>2. CASE Push BY <1>0, <2>0, <2>2 DEF Push, Heard
  <2>3. ASSUME NEW r \in caller.asked,
               BotStarts(r) \/ BotChecks(r) \/ BotReviews(r) \/ BotDeclines(r), q # r \/ BotStarts(r)
        PROVE  /\ answered'[q] = answered[q] /\ pushed' = pushed
               /\ reviewed'[q] = reviewed[q] /\ unable'[q] = unable[q]
    BY <2>0, <2>3 DEF BotStarts, BotChecks, BotReviews, BotDeclines, Answers, AiInv, GitHubTyped
  <2>4. ASSUME BotChecks(q) \/ BotReviews(q) \/ BotDeclines(q) PROVE FALSE
    BY <1>0, <2>0, <2>4 DEF BotChecks, BotReviews, BotDeclines, Answers, AiInv, GitHubTyped, Heard
  <2> QED BY <1>0, <2>1, <2>2, <2>3, <2>4 DEF GitHub, Heard
<1> QED BY <1>2, <1>3, <1>4, <1>5 DEF AiInv

LEMMA EndsTyped ==
  ASSUME CallerTyped, NEW c, NEW result \in Results, caller' = Ends(c, result), now' = now, now \in Nat
  PROVE  CallerTyped'
BY NoCallerTyped DEF Ends, CallerTyped, AiCaller, NoCaller, Results, InARound, BeforeTheLoop

\* What the steps make of the command's record.
Pcs == Results \cup {"idle"} \cup InARound \cup {"commit", "poll", "sleep"}
LEMMA RoundsTyped ==
  ASSUME NEW d \in AiCaller, NEW pc \in Pcs, NEW todo \in SUBSET Reviewer
  PROVE  /\ Rounds(d, pc, todo) \in AiCaller
         /\ Rounds(d, pc, todo).pc = pc /\ Rounds(d, pc, todo).todo = todo
         /\ Rounds(d, pc, todo).asked = d.asked /\ Rounds(d, pc, todo).waits = d.waits
         /\ Rounds(d, pc, todo).done = d.done /\ Rounds(d, pc, todo).skipped = d.skipped
         /\ Rounds(d, pc, todo).polled = d.polled /\ Rounds(d, pc, todo).start = d.start
<1>1. pc \in Results \cup {"idle", "first", "unable0", "started", "commit", "post",
                          "poll", "completed", "unable", "sleep"}
  BY DEF Pcs, InARound
<1> QED BY <1>1 DEF Rounds, AiCaller

LEMMA RoundNames == {"commit", "sleep"} \cup InARound \subseteq Pcs
BY DEF Pcs

LEMMA WaitsTyped ==
  ASSUME NEW d \in AiCaller, NEW rs \in SUBSET Reviewer, rs # {}, d.done = {}, d.polled = 0,
         caller' = Waits(d, rs), now' = now, now \in Nat
  PROVE  CallerTyped'
<1>1. /\ caller' \in AiCaller /\ caller'.pc = "poll" /\ caller'.waits = rs
      /\ caller'.done = {} /\ caller'.polled = 0 /\ caller'.skipped = {}
  BY DEF Waits, AiCaller, NoCaller
<1> QED BY <1>1 DEF CallerTyped, InARound, BeforeTheLoop, Pending

\* The command.
LEMMA TypedCommandStep ==
  ASSUME GitHubTyped, CallerTyped, Command
  PROVE  GitHubTyped' /\ CallerTyped'
<1>1. CASE Return
  <2>1. GitHubTyped' BY <1>1 DEF Return, NoCheck, GitHubTyped
  <2>2. CallerTyped'
    BY <1>1, NoCallerTyped DEF Return, CallerTyped, NoCaller, InARound, BeforeTheLoop
  <2> QED BY <2>1, <2>2
<1>2. CASE ~Return
  <2>1. UNCHANGED <<now, github>>
    BY <1>2 DEF Command, LookFirst, LookUnable0, LookStarted, request_review, LookCompleted,
                LookUnable, LookCommit, Poll, Wakes, CallFails, Round, github
  <2>2. GitHubTyped'
    BY <2>1 DEF GitHubTyped, github
  <2>0. now' = now /\ now \in Nat /\ caller \in AiCaller
    BY <2>1 DEF GitHubTyped, CallerTyped
  <2> USE <2>0
  <2> DEFINE Rest(c) == [c EXCEPT !.todo = @ \ {Asked}]
  <2>3. CASE LookFirst
    <3> DEFINE c == [caller EXCEPT !.times[Asked] = is_completed(Asked)]
    <3>1. Asked \in Reviewer /\ At("first")
      BY <2>3, AskedIsAsked DEF LookFirst, At, InARound
    <3>2. is_completed(Asked) \in Nat
      BY <3>1 DEF is_completed, find_latest_review, completed_at, GitHubTyped
    <3>3. Rest(c) \in AiCaller /\ Rest(c).pc = "first" /\ Rest(c).done = {} /\ Rest(c).polled = 0 /\ Rest(c).asked # {}
      BY <3>1, <3>2 DEF CallerTyped, AiCaller, BeforeTheLoop, At
    <3>4. caller' = IF Rest(c).todo = {} THEN AfterFirst(Rest(c)) ELSE Rest(c)
      BY <2>3 DEF LookFirst, Round
    <3> HIDE DEF c, Rest
    <3> DEFINE d == Rest(c)
    <3> HIDE DEF d
    <3>5. CASE d.todo # {}
      BY <2>2, <3>3, <3>4, <3>5 DEF d, CallerTyped, InARound, BeforeTheLoop
    <3>6. CASE d.todo = {}
      <4> DEFINE missing == {r \in d.asked : d.times[r] = 0}
      <4>1. caller' = CASE d.cmd = "request" -> Rounds(d, "commit", {})
                        [] missing = {}      -> Ends(d, "ok")
                        [] OTHER             -> Rounds(d, "unable0", missing)
        BY <3>4, <3>6 DEF d, AfterFirst
      <4>2. missing \subseteq Reviewer
        BY <3>3 DEF d, AiCaller
      <4> HIDE DEF missing
      <4>3. CASE caller' = Rounds(d, "commit", {})
        <5>1. /\ caller' \in AiCaller /\ caller'.pc = "commit" /\ caller'.asked = d.asked
              /\ caller'.done = d.done /\ caller'.polled = d.polled
          BY <3>3, <4>3, RoundsTyped, RoundNames DEF d
        <5> QED BY <2>2, <3>3, <5>1 DEF d, CallerTyped, InARound, BeforeTheLoop
      <4>4. CASE caller' = Ends(d, "ok")
        BY <2>2, <4>4, EndsTyped DEF Results, CallerTyped, GitHubTyped
      <4>5. CASE missing # {} /\ caller' = Rounds(d, "unable0", missing)
        <5>1. /\ caller' \in AiCaller /\ caller'.pc = "unable0" /\ caller'.asked = d.asked
              /\ caller'.done = d.done /\ caller'.polled = d.polled /\ caller'.todo = missing
          BY <3>3, <4>2, <4>5, RoundsTyped, RoundNames DEF d, InARound
        <5> QED BY <2>2, <3>3, <4>5, <5>1 DEF d, CallerTyped, InARound, BeforeTheLoop
      <4> QED BY <4>1, <4>3, <4>4, <4>5
    <3> QED BY <3>5, <3>6
  <2>4. CASE LookUnable0
    <3> DEFINE c == IF find_unable_comment(Asked, 0) THEN [caller EXCEPT !.skipped = @ \cup {Asked}]
                      ELSE caller
    <3>0. caller' = IF Rest(c).todo = {} THEN AfterUnable0(Rest(c)) ELSE Rest(c)
      BY <2>4 DEF LookUnable0, Round
    <3>1. Asked \in Reviewer /\ At("unable0")
      BY <2>4, AskedIsAsked DEF LookUnable0, At, InARound
    <3>2. c \in AiCaller /\ c.pc = "unable0" /\ c.done = {} /\ c.polled = 0 /\ c.asked # {}
      BY <3>1 DEF CallerTyped, AiCaller, BeforeTheLoop, At
    <3>3. Rest(c) \in AiCaller /\ Rest(c).pc = "unable0" /\ Rest(c).done = {} /\ Rest(c).polled = 0 /\ Rest(c).asked # {}
      BY <3>2 DEF AiCaller
    <3> HIDE DEF c, Rest
    <3> DEFINE d == Rest(c)
    <3>4. caller' = IF d.todo = {} THEN AfterUnable0(d) ELSE d
      BY <3>0
    <3> HIDE DEF d
    <3>5. CASE d.todo # {}
      BY <2>2, <3>3, <3>4, <3>5 DEF d, CallerTyped, InARound, BeforeTheLoop
    <3>6. CASE d.todo = {}
      <4> DEFINE active == {r \in d.asked : d.times[r] = 0} \ d.skipped
      <4>1. caller' = IF active = {} THEN Ends(d, "ok")
                      ELSE [Rounds(d, "started", active) EXCEPT !.waits = active]
        BY <3>4, <3>6 DEF AfterUnable0
      <4>2. active \subseteq Reviewer
        BY <3>3 DEF d, AiCaller
      <4> HIDE DEF active
      <4>3. CASE active = {}
        BY <2>2, <4>1, <4>3, EndsTyped DEF Results, CallerTyped, GitHubTyped
      <4>4. CASE active # {}
        <5> DEFINE e == Rounds(d, "started", active)
        <5>1. /\ e \in AiCaller /\ e.pc = "started" /\ e.asked = d.asked
              /\ e.done = d.done /\ e.polled = d.polled /\ e.todo = active
          BY <3>3, <4>2, RoundsTyped, RoundNames DEF d, InARound
        <5>2. caller' = [e EXCEPT !.waits = active]
          BY <4>1, <4>4
        <5> HIDE DEF e
        <5>3. /\ caller' \in AiCaller /\ caller'.pc = "started" /\ caller'.asked = d.asked
              /\ caller'.done = d.done /\ caller'.polled = d.polled
              /\ caller'.todo = active /\ caller'.waits = active
          BY <4>2, <5>1, <5>2 DEF AiCaller
        <5> QED BY <2>2, <3>3, <4>4, <5>3 DEF d, CallerTyped, InARound, BeforeTheLoop
      <4> QED BY <4>3, <4>4
    <3> QED BY <3>5, <3>6
  <2>5. CASE LookStarted
    <3>1. Asked \in Reviewer /\ At("started")
      BY <2>5, AskedIsAsked DEF LookStarted, At, InARound
    <3>2. CASE caller' = Waits(caller, caller.waits)
      BY <3>1, <3>2, WaitsTyped, <2>2 DEF CallerTyped, AiCaller, BeforeTheLoop, At
    <3>3. CASE caller' = IF Rest(caller).todo = {} THEN NotStarted(Rest(caller)) ELSE Rest(caller)
      <4>1. CASE caller' = NotStarted(Rest(caller))
        BY <2>2, <4>1, EndsTyped DEF NotStarted, Results
      <4>2. CASE Rest(caller).todo # {} /\ caller' = Rest(caller)
        <5>1. /\ caller' \in AiCaller /\ caller'.pc = "started" /\ caller'.asked = caller.asked
              /\ caller'.done = {} /\ caller'.polled = 0 /\ caller'.waits = caller.waits
              /\ caller'.todo = caller.todo \ {Asked} /\ caller'.todo # {}
          BY <3>1, <4>2 DEF CallerTyped, AiCaller, BeforeTheLoop, At
        <5> QED BY <2>2, <3>1, <5>1 DEF CallerTyped, InARound, BeforeTheLoop, At
      <4> QED BY <3>3, <4>1, <4>2
    <3> QED BY <2>5, <3>2, <3>3 DEF LookStarted, Round
  <2>6. CASE LookCommit
    <3> DEFINE old == {r \in caller.asked \cap Requestable : caller.times[r] > 0}
    <3>1. old \subseteq Reviewer /\ caller.pc = "commit"
      BY <2>6 DEF LookCommit, At, AiCaller
    <3>2. \/ caller' = Ends(caller, "ok")
          \/ caller' = Waits(caller, caller.asked)
          \/ old # {} /\ caller' = Rounds(caller, "post", old)
      BY <2>6 DEF LookCommit
    <3> HIDE DEF old
    <3>3. CASE caller' = Ends(caller, "ok")
      BY <2>2, <3>3, EndsTyped DEF Results
    <3>4. CASE caller' = Waits(caller, caller.asked)
      BY <2>2, <3>1, <3>4, WaitsTyped DEF CallerTyped, AiCaller, BeforeTheLoop
    <3>5. CASE old # {} /\ caller' = Rounds(caller, "post", old)
      <4>1. /\ caller' \in AiCaller /\ caller'.pc = "post" /\ caller'.asked = caller.asked
            /\ caller'.done = caller.done /\ caller'.polled = caller.polled /\ caller'.todo = old
        BY <3>1, <3>5, RoundsTyped, RoundNames DEF InARound
      <4> QED BY <2>2, <3>1, <3>5, <4>1 DEF CallerTyped, InARound, BeforeTheLoop
    <3> QED BY <3>2, <3>3, <3>4, <3>5
  <2>7. CASE request_review
    <3>1. Asked \in Reviewer /\ At("post")
      BY <2>7, AskedIsAsked DEF request_review, At, InARound
    <3>2. /\ Rest(caller) \in AiCaller /\ Rest(caller).pc = "post" /\ Rest(caller).asked = caller.asked
          /\ caller.asked # {} /\ Rest(caller).done = {} /\ Rest(caller).polled = 0
      BY <3>1 DEF CallerTyped, AiCaller, BeforeTheLoop, At
    <3>3. caller' = IF Rest(caller).todo = {} THEN AfterPost(Rest(caller)) ELSE Rest(caller)
      BY <2>7 DEF request_review, Round
    <3> HIDE DEF Rest
    <3>4. CASE Rest(caller).todo # {}
      BY <2>2, <3>2, <3>3, <3>4 DEF CallerTyped, InARound, BeforeTheLoop
    <3>5. CASE Rest(caller).todo = {}
      <4>1. Rest(caller).asked \in SUBSET Reviewer
        BY <3>2 DEF AiCaller
      <4> QED BY <2>2, <3>2, <3>3, <3>5, <4>1, WaitsTyped DEF AfterPost
    <3> QED BY <3>4, <3>5
  <2>8. CASE Poll
    <3>1. At("poll") /\ Pending(caller) # {} /\ Pending(caller) \subseteq Reviewer
      BY <2>8 DEF Poll, At, CallerTyped, AiCaller, Pending
    <3>2. CASE caller' = Ends(caller, "timeout")
      BY <2>2, <3>2, EndsTyped DEF Results
    <3>3. CASE caller' = [Rounds(caller, "completed", Pending(caller)) EXCEPT !.polled = now]
      <4> DEFINE e == Rounds(caller, "completed", Pending(caller))
      <4>1. e \in AiCaller /\ e.pc = "completed" /\ e.todo = Pending(caller)
        BY <3>1, RoundsTyped, RoundNames DEF InARound
      <4>2. caller' = [e EXCEPT !.polled = now]
        BY <3>3
      <4> HIDE DEF e
      <4>3. /\ caller' \in AiCaller /\ caller'.pc = "completed" /\ caller'.todo # {}
            /\ caller'.polled = now
        BY <3>1, <4>1, <4>2 DEF AiCaller
      <4> QED BY <2>2, <4>3 DEF CallerTyped, InARound, BeforeTheLoop
    <3> QED BY <2>8, <3>2, <3>3 DEF Poll
  <2>9. CASE LookCompleted
    <3> DEFINE c == IF is_completed(Asked) > caller.start THEN [caller EXCEPT !.done = @ \cup {Asked}]
                      ELSE caller
    <3>0. caller' = IF Rest(c).todo = {} THEN AfterCompleted(Rest(c)) ELSE Rest(c)
      BY <2>9 DEF LookCompleted, Round
    <3>1. Asked \in Reviewer /\ At("completed")
      BY <2>9, AskedIsAsked DEF LookCompleted, At, InARound
    <3>2. c \in AiCaller /\ c.pc = "completed" /\ c.polled = caller.polled
      BY <3>1 DEF AiCaller, At
    <3>3. Rest(c) \in AiCaller /\ Rest(c).pc = "completed" /\ Rest(c).polled = caller.polled
      BY <3>2 DEF AiCaller
    <3> HIDE DEF c, Rest
    <3>4. CASE Rest(c).todo # {}
      BY <2>2, <3>0, <3>3, <3>4 DEF CallerTyped, InARound, BeforeTheLoop
    <3>5. CASE Rest(c).todo = {}
      <4>1. CASE caller' = Ends(Rest(c), "ok")
        BY <2>2, <4>1, EndsTyped DEF Results
      <4>2. CASE Pending(Rest(c)) # {} /\ caller' = Rounds(Rest(c), "unable", Pending(Rest(c)))
        <5>1. Pending(Rest(c)) \subseteq Reviewer
          BY <3>3 DEF AiCaller, Pending
        <5>2. /\ caller' \in AiCaller /\ caller'.pc = "unable" /\ caller'.todo # {}
              /\ caller'.polled = caller.polled
          BY <3>3, <4>2, <5>1, RoundsTyped, RoundNames DEF InARound
        <5> QED BY <2>2, <5>2 DEF CallerTyped, InARound, BeforeTheLoop
      <4> QED BY <3>0, <3>5, <4>1, <4>2 DEF AfterCompleted, AllAnswered
    <3> QED BY <3>4, <3>5
  <2>10. CASE LookUnable
    <3> DEFINE c == IF find_unable_comment(Asked, caller.start)
                      THEN [caller EXCEPT !.skipped = @ \cup {Asked}] ELSE caller
    <3>0. caller' = IF Rest(c).todo = {} THEN AfterUnable(Rest(c)) ELSE Rest(c)
      BY <2>10 DEF LookUnable, Round
    <3>1. Asked \in Reviewer /\ At("unable")
      BY <2>10, AskedIsAsked DEF LookUnable, At, InARound
    <3>2. c \in AiCaller /\ c.pc = "unable" /\ c.polled = caller.polled
      BY <3>1 DEF AiCaller, At
    <3>3. Rest(c) \in AiCaller /\ Rest(c).pc = "unable" /\ Rest(c).polled = caller.polled
      BY <3>2 DEF AiCaller
    <3> HIDE DEF c, Rest
    <3>4. CASE Rest(c).todo # {}
      BY <2>2, <3>0, <3>3, <3>4 DEF CallerTyped, InARound, BeforeTheLoop
    <3>5. CASE Rest(c).todo = {}
      <4>1. CASE caller' = Ends(Rest(c), "ok")
        BY <2>2, <4>1, EndsTyped DEF Results
      <4>2. CASE Pending(Rest(c)) # {} /\ caller' = [Rounds(Rest(c), "sleep", {}) EXCEPT !.wake = now + INTERVAL]
        <5> DEFINE e == Rounds(Rest(c), "sleep", {})
        <5>1. /\ e \in AiCaller /\ e.pc = "sleep" /\ e.polled = caller.polled
              /\ e.waits = Rest(c).waits /\ e.done = Rest(c).done /\ e.skipped = Rest(c).skipped
          BY <3>3, RoundsTyped, RoundNames
        <5>2. now + INTERVAL \in Nat
          BY AiReviewAssumption
        <5>3. caller' = [e EXCEPT !.wake = now + INTERVAL]
          BY <4>2
        <5> HIDE DEF e
        <5>4. /\ caller' \in AiCaller /\ caller'.pc = "sleep" /\ caller'.polled = caller.polled
              /\ Pending(caller') = Pending(Rest(c))
          BY <5>1, <5>2, <5>3 DEF AiCaller, Pending
        <5> QED BY <2>2, <4>2, <5>4 DEF CallerTyped, InARound, BeforeTheLoop, Pending
      <4> QED BY <3>0, <3>5, <4>1, <4>2 DEF AfterUnable, AllAnswered
    <3> QED BY <3>4, <3>5
  <2>11. CASE Wakes
    <3>1. At("sleep") /\ caller' = [caller EXCEPT !.pc = "poll", !.wake = 0]
      BY <2>11 DEF Wakes
    <3>2. /\ caller' \in AiCaller /\ caller'.pc = "poll" /\ caller'.polled = caller.polled
          /\ caller'.waits = caller.waits /\ caller'.done = caller.done /\ caller'.skipped = caller.skipped
      BY <3>1 DEF AiCaller
    <3> QED BY <2>2, <3>1, <3>2 DEF CallerTyped, InARound, BeforeTheLoop, Pending, At
  <2>12. CASE CallFails
    BY <2>2, <2>12, EndsTyped DEF CallFails, Results
  <2> QED BY <1>2, <2>2, <2>3, <2>4, <2>5, <2>6, <2>7, <2>8, <2>9, <2>10, <2>11, <2>12 DEF Command
<1> QED BY <1>1, <1>2


\* A command that ends, or has not polled yet, has missed nothing.
NothingMissed(d) == d.polled = 0 /\ (d.pc \in Results \cup {"idle"} \/ d.start = caller.start)

LEMMA EndsMissesNothing == \A c : \A result \in Results : NothingMissed(Ends(c, result))
BY DEF NothingMissed, Ends, NoCaller

LEMMA EarlyMissesNothing ==
  ASSUME NEW d \in AiCaller, d.polled = 0, d.start = caller.start
  PROVE  /\ \A x \in {"ok", "not_started", "failed"} : NothingMissed(Ends(d, x))
         /\ \A pc \in Pcs, todo \in SUBSET Reviewer : NothingMissed(Rounds(d, pc, todo))
         /\ \A rs \in SUBSET Reviewer : NothingMissed(Waits(d, rs))
         /\ NothingMissed(AfterFirst(d)) /\ NothingMissed(AfterUnable0(d))
         /\ NothingMissed(NotStarted(d)) /\ NothingMissed(AfterPost(d))
<1>1. \A x \in {"ok", "not_started", "failed"} : NothingMissed(Ends(d, x))
  BY EndsMissesNothing DEF Results
<1>2. \A pc \in Pcs, todo \in SUBSET Reviewer : NothingMissed(Rounds(d, pc, todo))
  BY RoundsTyped DEF NothingMissed
<1>3. \A rs \in SUBSET Reviewer : NothingMissed(Waits(d, rs))
  BY DEF NothingMissed, Waits, AiCaller
<1>4. NothingMissed(AfterFirst(d))
  <2> DEFINE missing == {r \in d.asked : d.times[r] = 0}
  <2>1. missing \in SUBSET Reviewer
    BY DEF AiCaller
  <2>2. AfterFirst(d) \in {Rounds(d, "commit", {}), Ends(d, "ok"), Rounds(d, "unable0", missing)}
    BY DEF AfterFirst
  <2> HIDE DEF missing
  <2> QED BY <1>1, <1>2, <2>1, <2>2 DEF Pcs, InARound
<1>5. NothingMissed(AfterUnable0(d))
  <2> DEFINE active == {r \in d.asked : d.times[r] = 0} \ d.skipped
             e == Rounds(d, "started", active)
  <2>1. active \in SUBSET Reviewer
    BY DEF AiCaller
  <2>2. AfterUnable0(d) \in {Ends(d, "ok"), [e EXCEPT !.waits = active]}
    BY DEF AfterUnable0
  <2> HIDE DEF active
  <2>3. e \in AiCaller /\ NothingMissed(e)
    BY <1>2, <2>1, RoundsTyped, RoundNames DEF InARound
  <2> HIDE DEF e
  <2>4. NothingMissed([e EXCEPT !.waits = active])
    BY <2>3 DEF NothingMissed, AiCaller
  <2> QED BY <1>1, <2>2, <2>4
<1>6. d.asked \in SUBSET Reviewer
  BY DEF AiCaller
<1> QED BY <1>1, <1>2, <1>3, <1>4, <1>5, <1>6 DEF NotStarted, AfterPost

Early == LookFirst \/ LookUnable0 \/ LookStarted \/ LookCommit \/ request_review \/ CallFails
LEMMA EarlyStep ==
  ASSUME GitHubTyped, CallerTyped, Early
  PROVE  NothingMissed(caller')
<1> DEFINE Rest(c) == [c EXCEPT !.todo = @ \ {Asked}]
<1>0. \A c \in AiCaller : c.polled = 0 /\ c.start = caller.start =>
        /\ Rest(c) \in AiCaller /\ Rest(c).polled = 0 /\ Rest(c).start = caller.start
        /\ NothingMissed(Rest(c))
  BY DEF AiCaller, NothingMissed
<1>1. caller \in AiCaller /\ (caller.pc \in BeforeTheLoop => caller.polled = 0)
  BY DEF CallerTyped
<1>2. CASE CallFails
  BY <1>2, EndsMissesNothing DEF CallFails, Results
<1>3. CASE LookCommit
  <2> DEFINE old == {r \in caller.asked \cap Requestable : caller.times[r] > 0}
  <2>1. /\ caller.pc = "commit" /\ old \in SUBSET Reviewer /\ caller.asked \in SUBSET Reviewer
    BY <1>1, <1>3 DEF LookCommit, At, AiCaller
  <2>2. caller' \in {Ends(caller, "ok"), Waits(caller, caller.asked), Rounds(caller, "post", old)}
    BY <1>3 DEF LookCommit
  <2> HIDE DEF old
  <2> QED BY <1>1, <2>1, <2>2, EarlyMissesNothing DEF BeforeTheLoop, Pcs, InARound
<1>4. CASE LookFirst
  <2> DEFINE c == [caller EXCEPT !.times[Asked] = is_completed(Asked)]
  <2>1. Asked \in Reviewer /\ At("first")
    BY <1>4, AskedIsAsked DEF LookFirst, At, InARound
  <2>2. is_completed(Asked) \in Nat
    BY <2>1 DEF is_completed, find_latest_review, completed_at, GitHubTyped
  <2>3. c \in AiCaller /\ c.polled = 0 /\ c.start = caller.start
    BY <1>1, <2>1, <2>2 DEF AiCaller, BeforeTheLoop, At
  <2>4. caller' \in {AfterFirst(Rest(c)), Rest(c)}
    BY <1>4 DEF LookFirst, Round
  <2> HIDE DEF c, Rest
  <2> QED BY <1>0, <2>3, <2>4, EarlyMissesNothing
<1>5. CASE LookUnable0
  <2> DEFINE c == IF find_unable_comment(Asked, 0) THEN [caller EXCEPT !.skipped = @ \cup {Asked}]
                    ELSE caller
  <2>1. Asked \in Reviewer /\ At("unable0")
    BY <1>5, AskedIsAsked DEF LookUnable0, At, InARound
  <2>2. c \in AiCaller /\ c.polled = 0 /\ c.start = caller.start
    BY <1>1, <2>1 DEF AiCaller, BeforeTheLoop, At
  <2>3. caller' \in {AfterUnable0(Rest(c)), Rest(c)}
    BY <1>5 DEF LookUnable0, Round
  <2> HIDE DEF c, Rest
  <2> QED BY <1>0, <2>2, <2>3, EarlyMissesNothing
<1>6. CASE LookStarted
  <2>1. caller.polled = 0 /\ caller.waits \in SUBSET Reviewer
    BY <1>1, <1>6 DEF LookStarted, At, BeforeTheLoop, AiCaller
  <2>2. caller' \in {Waits(caller, caller.waits), NotStarted(Rest(caller)), Rest(caller)}
    BY <1>6 DEF LookStarted, Round
  <2> HIDE DEF Rest
  <2> QED BY <1>0, <1>1, <2>1, <2>2, EarlyMissesNothing
<1>7. CASE request_review
  <2>1. caller.polled = 0
    BY <1>1, <1>7 DEF request_review, At, BeforeTheLoop
  <2>2. caller' \in {AfterPost(Rest(caller)), Rest(caller)}
    BY <1>7 DEF request_review, Round
  <2> HIDE DEF Rest
  <2> QED BY <1>0, <1>1, <2>1, <2>2, EarlyMissesNothing
<1> QED BY <1>2, <1>3, <1>4, <1>5, <1>6, <1>7 DEF Early

LEMMA NothingMissedIsEnough ==
  ASSUME GitHubTyped', CallerTyped', caller'.polled = 0
  PROVE  RoundInv'
<1> SUFFICES ASSUME NEW q \in Pending(caller'), Heard(q)' PROVE FALSE
  BY DEF RoundInv
<1>1. q \in Reviewer
  BY DEF CallerTyped, AiCaller, Pending
<1> QED BY <1>1 DEF Heard, GitHubTyped

\* A reviewer that has answered about the head as it is, and not in a review
\* which the command may take for an old one, is found by one of two calls.
LEMMA HeardIsFound ==
  ASSUME GitHubTyped, CallerTyped, AnswerInv, Runs, NEW q \in Reviewer, Heard(q)
  PROVE  is_completed(q) > caller.start \/ find_unable_comment(q, caller.start)
<1>1. /\ Late(q) > caller.start
      /\ Late(q) \in {reviewed[q], checks[q].at, unable[q]}
      /\ reviewed[q] \notin 1 .. caller.start
  BY DEF Heard, AnswerInv, Late
<1>2. /\ reviewed[q] \in Nat /\ checks[q].at \in Nat /\ unable[q] \in Nat /\ caller.start \in Nat
  BY DEF GitHubTyped, CallerTyped, AiCaller
<1> QED BY <1>1, <1>2 DEF is_completed, find_latest_review, completed_at, find_unable_comment

LEMMA LoopStep ==
  ASSUME AiInv, CallerTyped', Poll \/ LookCompleted \/ LookUnable \/ Wakes
  PROVE  RoundInv' /\ (caller'.pc \in Results \cup {"idle"} \/ caller'.start = caller.start)
<1>0. /\ UNCHANGED <<now, github>> /\ GitHubTyped /\ GitHubTyped' /\ CallerTyped
      /\ caller \in AiCaller /\ AnswerInv /\ RoundInv
  BY DEF Poll, LookCompleted, LookUnable, Wakes, Round, github, AiInv, GitHubTyped, CallerTyped
<1>1. ASSUME NEW r, NEW x \in Results, caller' = Ends(r, x)
      PROVE  RoundInv' /\ caller'.pc \in Results
  BY <1>0, <1>1, NothingMissedIsEnough DEF Ends, NoCaller
<1>2. ASSUME caller'.start = caller.start, caller'.polled = caller.polled
      PROVE  \A q : Heard(q)' <=> Heard(q)
  BY <1>0, <1>2 DEF Heard, github
<1> DEFINE Rest(c) == [c EXCEPT !.todo = @ \ {Asked}]
<1>3. CASE Poll
  <2>1. At("poll") /\ Pending(caller) \in SUBSET Reviewer
    BY <1>0, <1>3 DEF Poll, AiCaller, Pending
  <2>2. CASE caller' = Ends(caller, "timeout")
    BY <1>1, <2>2 DEF Results
  <2>3. CASE caller' = [Rounds(caller, "completed", Pending(caller)) EXCEPT !.polled = now]
    <3> DEFINE e == Rounds(caller, "completed", Pending(caller))
    <3>1. /\ e \in AiCaller /\ e.pc = "completed" /\ e.todo = Pending(caller) /\ e.start = caller.start
          /\ e.waits = caller.waits /\ e.done = caller.done /\ e.skipped = caller.skipped
      BY <1>0, <2>1, RoundsTyped, RoundNames DEF InARound
    <3>2. caller' = [e EXCEPT !.polled = now]
      BY <2>3
    <3> HIDE DEF e
    <3>3. /\ caller'.pc = "completed" /\ caller'.todo = Pending(caller')
          /\ caller'.start = caller.start
      BY <3>1, <3>2 DEF AiCaller, Pending
    <3> QED BY <3>3 DEF RoundInv
  <2> QED BY <1>3, <2>2, <2>3 DEF Poll
<1>4. CASE LookCompleted
  <2> DEFINE c == IF is_completed(Asked) > caller.start THEN [caller EXCEPT !.done = @ \cup {Asked}]
                    ELSE caller
             d == Rest(c)
  <2>1. caller' = IF d.todo = {} THEN AfterCompleted(d) ELSE d
    BY <1>4 DEF LookCompleted, Round
  <2>2. Asked \in Reviewer /\ caller.pc = "completed" /\ Runs
    BY <1>0, <1>4, AskedIsAsked DEF LookCompleted, At, InARound, Runs, Results
  <2>3. /\ c \in AiCaller /\ c.pc = "completed" /\ c.polled = caller.polled /\ c.start = caller.start
        /\ c.waits = caller.waits /\ c.skipped = caller.skipped /\ c.todo = caller.todo
        /\ caller.done \subseteq c.done
        /\ is_completed(Asked) > caller.start => Asked \in c.done
    BY <1>0, <2>2 DEF AiCaller
  <2> HIDE DEF c
  <2>4. /\ d \in AiCaller /\ d.pc = "completed" /\ d.polled = caller.polled /\ d.start = caller.start
        /\ d.waits = c.waits /\ d.skipped = c.skipped /\ d.done = c.done
        /\ d.todo = caller.todo \ {Asked}
    BY <2>3 DEF AiCaller
  <2> HIDE DEF d
  <2>5. ASSUME NEW q \in Pending(d), Heard(q)
        PROVE  q \in d.todo \/ unable[q] > caller.start
    <3>1. q \in Pending(caller) /\ q \in Reviewer /\ q \notin d.done
      BY <2>3, <2>4, <2>5 DEF Pending, AiCaller
    <3>2. q \in caller.todo \/ unable[q] > caller.start
      BY <1>0, <2>2, <2>5, <3>1 DEF RoundInv
    <3>3. q = Asked => unable[q] > caller.start
      BY <1>0, <2>2, <2>3, <2>4, <2>5, <3>1, HeardIsFound DEF find_unable_comment
    <3> QED BY <2>4, <3>2, <3>3
  <2>6. CASE d.todo # {}
    <3>1. UNCHANGED unable
      BY <1>0 DEF github
    <3> QED BY <1>2, <2>1, <2>4, <2>5, <2>6, <3>1 DEF RoundInv
  <2>7. CASE d.todo = {} /\ Pending(d) = {}
    BY <1>1, <2>1, <2>7 DEF AfterCompleted, AllAnswered, Results
  <2>8. CASE d.todo = {} /\ Pending(d) # {}
    <3>1. caller' = Rounds(d, "unable", Pending(d)) /\ Pending(d) \in SUBSET Reviewer
      BY <2>1, <2>4, <2>8 DEF AfterCompleted, AllAnswered, AiCaller, Pending
    <3>2. /\ caller'.pc = "unable" /\ caller'.todo = Pending(d) /\ Pending(caller') = Pending(d)
          /\ caller'.start = caller.start /\ caller'.polled = caller.polled
      BY <2>4, <3>1, RoundsTyped, RoundNames DEF InARound, Pending
    <3>3. UNCHANGED unable
      BY <1>0 DEF github
    <3> QED BY <1>2, <2>5, <2>8, <3>2, <3>3 DEF RoundInv
  <2> QED BY <2>6, <2>7, <2>8
<1>5. CASE LookUnable
  <2> DEFINE c == IF find_unable_comment(Asked, caller.start)
                    THEN [caller EXCEPT !.skipped = @ \cup {Asked}] ELSE caller
             d == Rest(c)
  <2>1. caller' = IF d.todo = {} THEN AfterUnable(d) ELSE d
    BY <1>5 DEF LookUnable, Round
  <2>2. Asked \in Reviewer /\ caller.pc = "unable"
    BY <1>0, <1>5, AskedIsAsked DEF LookUnable, At, InARound
  <2>3. /\ c \in AiCaller /\ c.pc = "unable" /\ c.polled = caller.polled /\ c.start = caller.start
        /\ c.waits = caller.waits /\ c.done = caller.done /\ c.todo = caller.todo
        /\ caller.skipped \subseteq c.skipped
        /\ unable[Asked] > caller.start => Asked \in c.skipped
    BY <1>0, <2>2 DEF AiCaller, find_unable_comment
  <2> HIDE DEF c
  <2>4. /\ d \in AiCaller /\ d.pc = "unable" /\ d.polled = caller.polled /\ d.start = caller.start
        /\ d.waits = c.waits /\ d.skipped = c.skipped /\ d.done = c.done
        /\ d.todo = caller.todo \ {Asked}
    BY <2>3 DEF AiCaller
  <2> HIDE DEF d
  <2>5. ASSUME NEW q \in Pending(d), Heard(q)
        PROVE  q \in d.todo /\ unable[q] > caller.start
    <3>1. q \in Pending(caller) /\ q \notin d.skipped
      BY <2>3, <2>4, <2>5 DEF Pending
    <3>2. q \in caller.todo /\ unable[q] > caller.start
      BY <1>0, <2>2, <2>5, <3>1 DEF RoundInv
    <3> QED BY <2>3, <2>4, <3>1, <3>2
  <2>6. CASE d.todo # {}
    <3>1. UNCHANGED unable
      BY <1>0 DEF github
    <3> QED BY <1>2, <2>1, <2>4, <2>5, <2>6, <3>1 DEF RoundInv
  <2>7. CASE d.todo = {} /\ Pending(d) = {}
    BY <1>1, <2>1, <2>7 DEF AfterUnable, AllAnswered, Results
  <2>8. CASE d.todo = {} /\ Pending(d) # {}
    <3> DEFINE e == Rounds(d, "sleep", {})
    <3>1. /\ e \in AiCaller /\ e.polled = caller.polled /\ e.start = caller.start
          /\ e.waits = d.waits /\ e.done = d.done /\ e.skipped = d.skipped
      BY <2>4, RoundsTyped, RoundNames
    <3>2. caller' = [e EXCEPT !.wake = now + INTERVAL]
      BY <2>1, <2>8 DEF AfterUnable, AllAnswered
    <3> HIDE DEF e
    <3>3. /\ Pending(caller') = Pending(d)
          /\ caller'.start = caller.start /\ caller'.polled = caller.polled
      BY <3>1, <3>2 DEF AiCaller, Pending
    <3> QED BY <1>2, <2>5, <2>8, <3>3 DEF RoundInv
  <2> QED BY <2>6, <2>7, <2>8
<1>6. CASE Wakes
  <2>1. /\ caller.pc = "sleep" /\ caller'.start = caller.start /\ caller'.polled = caller.polled
        /\ caller'.pc = "poll" /\ Pending(caller') = Pending(caller)
    BY <1>0, <1>6 DEF Wakes, At, AiCaller, Pending
  <2> QED BY <1>0, <1>2, <2>1 DEF RoundInv
<1> QED BY <1>3, <1>4, <1>5, <1>6

LEMMA BeginStep ==
  ASSUME AiInv, NEW cmd \in {"wait", "request"}, NEW rs \in SUBSET Reviewer, Begin(cmd, rs)
  PROVE  AiInv'
<1>0. SECOND \in Nat /\ SECOND > 0 /\ now' = 3 * SECOND - 1 /\ now' \in Nat /\ now' >= SECOND
  BY AiReviewAssumption DEF Begin
<1>1. PICK did \in [Reviewer -> Before] :
        LET stamp(set) == [r \in Reviewer |-> IF did[r] \in set THEN SECOND ELSE 0] IN
        /\ reviewed' = stamp({"reviewed"}) /\ unable' = stamp({"declined"})
        /\ checks' = [r \in Reviewer |->
                        [started |-> did[r] \in {"started", "checked", "reviewed"},
                         at |-> stamp({"checked"})[r]]]
        /\ answered' = stamp({"checked", "reviewed", "declined"})
  BY DEF Begin
<1>2. GitHubTyped'
  BY <1>0, <1>1 DEF Begin, AiInv, GitHubTyped
<1>3. /\ caller' \in AiCaller /\ caller'.pc = "first" /\ caller'.asked = rs /\ caller'.todo = rs
      /\ caller'.start = now' /\ caller'.polled = 0 /\ caller'.done = {} /\ rs # {}
  BY <1>0 DEF Begin, AiCaller, NoCaller
<1>4. CallerTyped'
  BY <1>0, <1>3 DEF CallerTyped, InARound, BeforeTheLoop
<1>5. AnswerInv'
  <2> SUFFICES ASSUME NEW r \in Reviewer PROVE answered'[r] <= now' /\ ~(Late(r)' > caller'.start)
    BY DEF AnswerInv
  <2>1. answered'[r] \in {0, SECOND}
    BY <1>1
  <2>2. Late(r)' <= answered'[r] /\ Late(r)' \in Nat
    BY <1>0, <2>1, WholeSecond DEF Late
  <2> QED BY <1>0, <1>3, <2>1, <2>2
<1> QED BY <1>2, <1>3, <1>4, <1>5, NothingMissedIsEnough DEF AiInv

LEMMA AiInvAlways == AiSpec => []AiInv
<1>1. AiInit => AiInv
  BY NoCallerTyped DEF AiInit, AiInv, GitHubTyped, CallerTyped, AnswerInv, RoundInv, NoCaller, NoCheck,
         Runs, Results, InARound, BeforeTheLoop, Pending
<1>2. AiInv /\ [AiNext]_aiVars => AiInv'
  <2> SUFFICES ASSUME AiInv, [AiNext]_aiVars PROVE AiInv'
    OBVIOUS
  <2>1. CASE Command
    <3>1. GitHubTyped' /\ CallerTyped'
      BY <2>1, TypedCommandStep DEF AiInv
    <3>2. CASE Return
      <4>1. caller' = NoCaller
        BY <3>2 DEF Return
      <4> QED BY <3>1, <4>1, NothingMissedIsEnough DEF AiInv, AnswerInv, Runs, NoCaller, Results
    <3>3. CASE ~Return
      <4>1. UNCHANGED <<now, github>>
        BY <2>1, <3>3 DEF Command, LookFirst, LookUnable0, LookStarted, request_review, LookCompleted,
                    LookUnable, LookCommit, Poll, Wakes, CallFails, Round, github
      <4>2. RoundInv' /\ (caller'.pc \in Results \cup {"idle"} \/ caller'.start = caller.start)
        <5>1. CASE Early
          BY <3>1, <5>1, EarlyStep, NothingMissedIsEnough DEF AiInv, NothingMissed
        <5>2. CASE Poll \/ LookCompleted \/ LookUnable \/ Wakes
          BY <3>1, <5>2, LoopStep
        <5> QED BY <2>1, <3>3, <5>1, <5>2 DEF Command, Early
      <4>3. Runs
        BY <2>1, <3>3 DEF Command, LookFirst, LookUnable0, LookStarted, request_review, LookCompleted,
                    LookUnable, LookCommit, Poll, Wakes, CallFails, Runs, Results, At
      <4>4. AnswerInv'
        BY <4>1, <4>2, <4>3 DEF AiInv, AnswerInv, Runs, Late, github
      <4> QED BY <3>1, <4>2, <4>4 DEF AiInv
    <3> QED BY <3>2, <3>3
  <2>2. CASE GitHub
    BY <2>2, GitHubStep
  <2>3. ASSUME NEW cmd \in {"wait", "request"}, NEW rs \in SUBSET Reviewer, Begin(cmd, rs)
        PROVE  AiInv'
    BY <2>3, BeginStep
  <2>4. CASE UNCHANGED aiVars
    BY <2>4 DEF aiVars, github, AiInv, GitHubTyped, CallerTyped, AnswerInv, RoundInv, Heard, Runs, Late, Pending
  <2> QED BY <2>1, <2>2, <2>3, <2>4 DEF AiNext
<1> QED BY <1>1, <1>2, PTL DEF AiSpec

\* mod.rs: `wait` and `request` report a timeout only if no reviewer that is
\* still awaited had answered, about the head as it is and so that it can be
\* told from an old answer, before the last poll.
THEOREM TimeoutWasSilent == AiSpec => TimeoutMeansSilence
<1>1. AiInv /\ [AiNext]_aiVars =>
        [Poll /\ caller'.pc = "timeout" => \A r \in Pending(caller) : ~Heard(r)]_aiVars
  BY DEF AiInv, RoundInv, Poll, At
<1> QED BY <1>1, AiInvAlways, PTL DEF AiSpec, TimeoutMeansSilence
=============================================================================
