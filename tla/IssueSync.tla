------------------------------ MODULE IssueSync ------------------------------
(***************************************************************************)
(* `a gh issue-agent pull | push` between one GitHub issue and its copy in *)
(* a local directory: src/commands/gh/issue_agent. Other people edit the   *)
(* issue, the user edits the files, and a push is a series of API calls    *)
(* that may stop after any of them.                                        *)
(*                                                                         *)
(* Every change of the issue gets a time of its own (clock): two changes   *)
(* in one second, which GitHub's timestamps cannot tell apart, are left    *)
(* out. `unread` records what no file does: what other people wrote that   *)
(* the directory has never held.                                           *)
(***************************************************************************)
EXTENDS Naturals, FiniteSets

CONSTANTS
  Value,      \* bodies, titles, sets of labels, comment texts
  Links,      \* fields without a conflict check: "labels", "sub_issues", "parent_issue"
  Comment,    \* ids of comments on GitHub
  NewFile,    \* comments/new_*.md
  Meanwhile,  \* do other people and the user act while a command runs?
  MaxClock,   \* bound: no command and no remote edit starts after this many changes
  None

Field == {"body", "title"} \cup Links
Item == Field \cup Comment \cup NewFile

ASSUME SyncAssumption ==
  /\ Links \subseteq {"labels", "sub_issues", "parent_issue"}
  /\ Meanwhile \in BOOLEAN /\ MaxClock \in Nat
  /\ None \notin Value
ASSUME ItemAssumption == Field \cap Comment = {}

VARIABLES
  remote,    \* the issue on GitHub
  comments,  \* its comments
  local,     \* issue.md, or None before the first pull
  files,     \* the files of the comments that were pulled
  new,       \* the new_*.md files
  approved,  \* files whose approval record matches what is in them
  job,       \* the pull or push that is running
  clock,
  unread,    \* history: fields and comments by others that were never pulled
  posts,     \* history: comments created from each new_*.md
  lost       \* history: new_*.md whose comment was created without an answer

github == <<remote, comments>>
directory == <<local, files, new, approved>>
history == <<unread, posts, lost>>
vars == <<github, directory, job, clock, history>>

Time == 0 .. (MaxClock + Cardinality(Item) + 1)
Flags == {"force", "allow_delete", "edit_others"}

\* The issue, on GitHub and in issue.md: updatedAt is the time of the last
\* change of anything, lastEditedAt that of the body.
Issue == [val: [Field -> Value], updated_at: Time, last_edited_at: Time]
CommentText == [val: Value, updated_at: Time, mine: BOOLEAN]
NoJob == [pc |-> "idle", force |-> FALSE, issue |-> None, comments |-> None,
          src |-> None, todo |-> {}, changed |-> {}]

SyncTypeOK ==
  /\ remote \in Issue /\ comments \in [Comment -> CommentText \cup {None}]
  /\ local \in Issue \cup {None} /\ files \in [Comment -> CommentText \cup {None}]
  /\ new \in [NewFile -> Value \cup {None}]
  /\ approved \subseteq {"issue"} \cup Comment \cup NewFile
  /\ job.pc \in {"idle", "pull", "check", "apply", "save"} /\ job.force \in BOOLEAN
  /\ job.todo \subseteq {"field", "update", "new", "delete"} \X Item
  /\ clock \in Time
  /\ unread \subseteq Field \cup Comment
  /\ posts \in [NewFile -> 0 .. 2] /\ lost \subseteq NewFile

Init ==
  /\ \E v \in Value :
       remote = [val |-> [f \in Field |-> v], updated_at |-> 0, last_edited_at |-> 0]
  /\ comments = [c \in Comment |-> None]
  /\ local = None /\ files = [c \in Comment |-> None] /\ new = [n \in NewFile |-> None]
  /\ approved = {} /\ job = NoJob /\ clock = 0
  /\ unread = Field /\ posts = [n \in NewFile |-> 0] /\ lost = {}

-----------------------------------------------------------------------------
MayAct == Meanwhile \/ job.pc = "idle"
Now == clock + 1
Edited(r, f, v) ==
  [r EXCEPT !.val[f] = v, !.updated_at = Now, !.last_edited_at = IF f = "body" THEN Now ELSE @]

\* What other people do on GitHub.
OtherEdits(f, v) ==
  /\ MayAct /\ clock < MaxClock /\ remote.val[f] # v
  /\ remote' = Edited(remote, f, v) /\ clock' = Now
  /\ unread' = unread \cup {f}
  /\ UNCHANGED <<comments, directory, job, posts, lost>>

OtherComments(c, v) ==
  /\ MayAct /\ clock < MaxClock
  /\ IF comments[c] = None THEN TRUE ELSE comments[c].val # v
  /\ comments' = [comments EXCEPT ![c] =
       [val |-> v, updated_at |-> Now, mine |-> IF @ = None THEN FALSE ELSE @.mine]]
  /\ remote' = [remote EXCEPT !.updated_at = Now] /\ clock' = Now
  /\ unread' = unread \cup {c}
  /\ UNCHANGED <<directory, job, posts, lost>>

OtherDeletes(c) ==
  /\ MayAct /\ clock < MaxClock /\ comments[c] # None
  /\ comments' = [comments EXCEPT ![c] = None]
  /\ remote' = [remote EXCEPT !.updated_at = Now] /\ clock' = Now
  /\ unread' = unread \ {c}
  /\ UNCHANGED <<directory, job, posts, lost>>

\* What the user does with the files.
EditField(f, v) ==
  /\ MayAct /\ local # None /\ local.val[f] # v
  /\ local' = [local EXCEPT !.val[f] = v] /\ approved' = approved \ {"issue"}
  /\ UNCHANGED <<github, files, new, job, clock, history>>

EditComment(c, v) ==
  /\ MayAct /\ files[c] # None /\ files[c].val # v
  /\ files' = [files EXCEPT ![c].val = v] /\ approved' = approved \ {c}
  /\ UNCHANGED <<github, local, new, job, clock, history>>

DeleteFile(c) ==
  /\ MayAct /\ files[c] # None
  /\ files' = [files EXCEPT ![c] = None] /\ approved' = approved \ {c}
  /\ UNCHANGED <<github, local, new, job, clock, history>>

WriteNew(n, v) ==
  /\ MayAct /\ local # None /\ new[n] # v /\ posts[n] = 0
  /\ new' = [new EXCEPT ![n] = v] /\ approved' = approved \ {n}
  /\ UNCHANGED <<github, local, files, job, clock, history>>

\* review, reduced to its result (HumanReview has the whole of it).
Approve(f) ==
  /\ MayAct /\ local # None /\ f \notin approved
  /\ f \in Comment => files[f] # None
  /\ f \in NewFile => new[f] # None
  /\ approved' = approved \cup {f} 
  /\ UNCHANGED <<github, local, files, new, job, clock, history>>

-----------------------------------------------------------------------------
\* pull fetches first and looks at the directory after it.
PullStart ==
  /\ job.pc = "idle" /\ clock <= MaxClock
  /\ job' = [NoJob EXCEPT !.pc = "pull", !.issue = remote, !.comments = comments]
  /\ UNCHANGED <<github, directory, clock, history>>

\* The comments of one side that the other side also has, with another text.
Modified(cs) == {c \in Comment : files[c] # None /\ cs[c] # None /\ files[c].val # cs[c].val}

\* LocalChanges::has_changes compares with what was fetched: labels and links
\* are not looked at.
has_changes(issue, cs) ==
  /\ local # None
  /\ \/ \E f \in {"body", "title"} : local.val[f] # issue.val[f]
     \/ Modified(cs) # {}
     \/ \E n \in NewFile : new[n] # None

\* What is still unread once this issue and these comments are in the directory.
StillUnread(fields, cs) ==
  {f \in unread \cap Field : remote.val[f] # fields.val[f]}
    \cup {c \in unread \cap Comment : cs[c] # comments[c]}

\* save_issue, save_comments: every comment gets its file, files of comments
\* that are gone are removed, new_*.md files stay.
save_issue_to_storage(issue, cs) ==
  /\ local' = issue /\ files' = cs
  /\ approved' = approved \ ({c \in Comment : files'[c] # files[c]}
                             \cup {f \in {"issue"} : local' # local})
  /\ unread' = StillUnread(issue, cs)
  /\ UNCHANGED new

PullSave(force) ==
  /\ job.pc = "pull"
  /\ IF has_changes(job.issue, job.comments) /\ ~force THEN UNCHANGED <<directory, unread>>
     ELSE save_issue_to_storage(job.issue, job.comments)
  /\ job' = NoJob
  /\ UNCHANGED <<github, clock, posts, lost>>

-----------------------------------------------------------------------------
PushStart ==
  /\ job.pc = "idle" /\ local # None /\ clock <= MaxClock
  /\ job' = [NoJob EXCEPT !.pc = "check", !.issue = remote, !.comments = comments]
  /\ UNCHANGED <<github, directory, clock, history>>

check_conflicts_NotTheTitle ==
  \/ /\ local.val["body"] # job.issue.val["body"]
     /\ local.last_edited_at # job.issue.last_edited_at
  \/ \E c \in Modified(job.comments) : files[c].updated_at # job.comments[c].updated_at

check_conflicts ==
  \/ /\ local.val["body"] # job.issue.val["body"]
     /\ local.last_edited_at # job.issue.last_edited_at
  \/ /\ local.val["title"] # job.issue.val["title"]
     /\ local.updated_at # job.issue.updated_at
  \/ \E c \in Modified(job.comments) : files[c].updated_at # job.comments[c].updated_at

\* ChangeSet::detect.
changed_fields == {f \in Field : local.val[f] # job.issue.val[f]}
deleted_comments == {c \in Comment : job.comments[c] # None /\ files[c] = None}
Updates == {<<"update", c>> : c \in Modified(job.comments)}
News == {<<"new", n>> : n \in {m \in NewFile : new[m] # None}}
Deletes == {<<"delete", c>> : c \in deleted_comments}
ChangeSet == {<<"field", f>> : f \in changed_fields} \cup Updates \cup News \cup Deletes

MayEditAndDelete(flags) ==
  /\ \A c \in Modified(job.comments) : files[c].mine \/ "edit_others" \in flags
  /\ deleted_comments # {} => "allow_delete" \in flags

collect_approval_paths_BodyOnly ==
  {f \in {"issue"} : "body" \in changed_fields}
    \cup Modified(job.comments) \cup {n \in NewFile : new[n] # None}
collect_approval_paths ==
  {f \in {"issue"} : changed_fields # {}}
    \cup Modified(job.comments) \cup {n \in NewFile : new[n] # None}

\* Load, conflicts, detection and approval: no network call comes between.
PushCheck(flags) ==
  /\ job.pc = "check"
  /\ job' = IF \/ "force" \notin flags /\ check_conflicts
               \/ ~MayEditAndDelete(flags) \/ ChangeSet = {}
               \/ ~(collect_approval_paths \subseteq approved)
            THEN NoJob
            ELSE [job EXCEPT !.pc = "apply", !.force = "force" \in flags,
                             !.todo = ChangeSet, !.changed = collect_approval_paths,
                             !.src = [issue |-> local, files |-> files, new |-> new,
                                      approved |-> approved]]
  /\ UNCHANGED <<github, directory, clock, history>>

\* ChangeSet::apply goes through the changes in this order.
Rank(x) == CASE x = <<"field", "body">> -> 1 [] x = <<"field", "title">> -> 2
             [] x = <<"field", "labels">> -> 3 [] x[1] \in {"new", "update"} -> 4
             [] x[1] = "delete" -> 5 [] x = <<"field", "sub_issues">> -> 6
             [] x = <<"field", "parent_issue">> -> 7
IsNext(x) == job.pc = "apply" /\ x \in job.todo /\ \A y \in job.todo : Rank(x) <= Rank(y)
Done(x) == /\ job' = [job EXCEPT !.todo = @ \ {x}, !.pc = IF job.todo = {x} THEN "save" ELSE "apply"]
           /\ clock' = Now

ApplyField(f) ==
  /\ IsNext(<<"field", f>>) /\ Done(<<"field", f>>)
  /\ remote' = Edited(remote, f, job.src.issue.val[f])
  /\ unread' = unread \ {f}
  /\ UNCHANGED <<comments, directory, posts, lost>>

\* Labels and links take a call for each removal and one or more for the
\* additions: the first that fails leaves the field between old and new.
ApplyFieldHalfway(f, v) ==
  /\ IsNext(<<"field", f>>) /\ f \in Links
  /\ remote' = Edited(remote, f, v) /\ clock' = Now /\ job' = NoJob
  /\ unread' = unread \ {f}
  /\ UNCHANGED <<comments, directory, posts, lost>>

\* The call for a comment that is gone by now fails: see PushFails.
ApplyUpdate(c) ==
  /\ IsNext(<<"update", c>>) /\ comments[c] # None /\ Done(<<"update", c>>)
  /\ comments' = [comments EXCEPT ![c].val = job.src.files[c].val, ![c].updated_at = Now]
  /\ remote' = [remote EXCEPT !.updated_at = Now]
  /\ unread' = unread \ {c}
  /\ UNCHANGED <<directory, posts, lost>>

ApplyDelete(c) ==
  /\ IsNext(<<"delete", c>>) /\ comments[c] # None /\ Done(<<"delete", c>>)
  /\ comments' = [comments EXCEPT ![c] = None]
  /\ remote' = [remote EXCEPT !.updated_at = Now]
  /\ unread' = unread \ {c}
  /\ UNCHANGED <<directory, posts, lost>>

\* create_comment.
Created(n, c) ==
  /\ IsNext(<<"new", n>>) /\ comments[c] = None /\ clock' = Now
  /\ comments' = [comments EXCEPT ![c] =
                    [val |-> job.src.new[n], updated_at |-> Now, mine |-> TRUE]]
  /\ remote' = [remote EXCEPT !.updated_at = Now]
  /\ posts' = [posts EXCEPT ![n] = @ + 1]
  /\ UNCHANGED <<local, files, unread>>

ApplyNew_KeepsFile(n, c) ==
  Created(n, c) /\ Done(<<"new", n>>) /\ UNCHANGED <<new, approved, lost>>

\* The file goes as soon as its comment exists.
ApplyNew(n, c) ==
  /\ Created(n, c) /\ Done(<<"new", n>>)
  /\ new' = [new EXCEPT ![n] = None] /\ approved' = approved \ {n}
  /\ UNCHANGED lost

\* The answer is lost, or the process killed before the file is removed.
ApplyNewUnanswered(n, c) ==
  /\ n \notin lost /\ Created(n, c)
  /\ lost' = lost \cup {n} /\ job' = NoJob
  /\ UNCHANGED <<new, approved>>

\* An API call fails, or the process is killed between two calls.
PushFails ==
  /\ job.pc \in {"pull", "check", "apply", "save"} /\ job' = NoJob
  /\ UNCHANGED <<github, directory, clock, history>>

\* issue.md is written from the issue as it is now; the files of the comments
\* are left as they are. cleanup_approval_records.
PushSave ==
  /\ job.pc = "save"
  /\ local' = remote /\ approved' = approved \ (job.changed \cup {"issue"})
  /\ unread' = unread \ Field
  /\ job' = NoJob
  /\ UNCHANGED <<github, files, new, clock, posts, lost>>

-----------------------------------------------------------------------------
OthersAct == \/ \E v \in Value : \/ \E f \in Field : OtherEdits(f, v)
                                 \/ \E c \in Comment : OtherComments(c, v)
             \/ \E c \in Comment : OtherDeletes(c)
UserActs == \/ \E v \in Value : \/ \E f \in Field : EditField(f, v)
                                \/ \E c \in Comment : EditComment(c, v)
                                \/ \E n \in NewFile : WriteNew(n, v)
            \/ \E c \in Comment : DeleteFile(c)
            \/ \E f \in {"issue"} \cup Comment \cup NewFile : Approve(f)
Pull == PullStart \/ \E force \in BOOLEAN : PullSave(force)
Push == \/ PushStart \/ PushFails \/ PushSave
        \/ \E flags \in SUBSET Flags : PushCheck(flags)
        \/ \E f \in Field : ApplyField(f) \/ \E v \in Value : ApplyFieldHalfway(f, v)
        \/ \E c \in Comment : ApplyUpdate(c) \/ ApplyDelete(c) \/ \E n \in NewFile : ApplyNew(n, c) \/ ApplyNewUnanswered(n, c)
Next == OthersAct \/ UserActs \/ Pull \/ Push
Spec == Init /\ [][Next]_vars

-----------------------------------------------------------------------------
\* Without --force a push replaces no body, no title and no comment text that
\* somebody else wrote and that was never pulled.
ReplacesOnlyWhatWasRead ==
  [][(job.pc = "apply" /\ ~job.force) =>
       /\ \A f \in {"body", "title"} : remote'.val[f] # remote.val[f] => f \notin unread
       /\ \A c \in Comment :
            (comments[c] # None /\ comments'[c] # None /\ comments'[c] # comments[c]) =>
              c \notin unread]_vars

\* However often a push stops half-way and is run again, a new comment is
\* posted once more only if GitHub's answer to the first time was lost.
PostedOnce == \A n \in NewFile : posts[n] <= IF n \in lost THEN 2 ELSE 1

\* A push writes to GitHub only what is in files the user has approved as they
\* are: the whole of issue.md for any of its fields.
SendsOnlyApproved ==
  [][job.pc = "apply" =>
       /\ remote'.val # remote.val => "issue" \in job.src.approved
       /\ \A c \in Comment : (comments'[c] # comments[c] /\ comments'[c] # None) =>
            \/ c \in job.src.approved
            \/ \E n \in NewFile : posts'[n] # posts[n] /\ n \in job.src.approved]_vars
==============================================================================
