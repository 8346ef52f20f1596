------------------------------- MODULE WatchList -------------------------------
(***************************************************************************)
(* `a cc watch`: the session list of the TUI (src/commands/cc/tui).        *)
(*                                                                         *)
(* The list is a cache of the session documents. A file watcher and the    *)
(* keyboard feed one queue; the loop draws, blocks for an event, drains    *)
(* the queue (keys act at once, changes are merged by session), then reads *)
(* the changed documents. Filter, rows and cursor are positions in the     *)
(* list as it was when they were computed.                                 *)
(*                                                                         *)
(* Only the session view and its deletions are here, with the deletion of  *)
(* the worktree view as one key. A document is its status and the bucket   *)
(* of its last update, which is what the list is sorted by; its pane is    *)
(* alive or not. cleanup_worktree_resources is Worktrees' subject and is   *)
(* one step here. Reading a document of a full reload takes no lock.       *)
(***************************************************************************)
EXTENDS Naturals, Sequences, FiniteSets, SequencesExt

CONSTANTS
  Session,
  Age,        \* Age[s]: the rank of s by creation
  Ancestors,  \* Ancestors[s]: the sessions s descends from
  Tree,
  TreeOf,     \* TreeOf[s]: the worktree of its cwd, or None
  Keys,       \* the keys that are pressed
  MaxDrain,   \* MAX_DRAIN_PER_ITERATION
  MaxAt,      \* bound: the buckets of `updated_at`
  MaxWrites,  \* bound: the documents written, removed or orphaned by others
  MaxQueue,   \* bound: the events that wait when others write
  MaxKeys,    \* bound: the keys pressed
  None

Command == {"down", "up", "enter", "d", "y", "n", "p", "l", "h", "esc", "q", "W"}

ASSUME WatchListAssumption ==
  /\ IsFiniteSet(Session) /\ Age \in [Session -> Nat]
  /\ \A s, t \in Session : Age[s] = Age[t] => s = t
  /\ Ancestors \in [Session -> SUBSET Session] /\ TreeOf \in [Session -> Tree \cup {None}]
  /\ Keys \subseteq Command
  /\ MaxDrain \in Nat \ {0} /\ {MaxAt, MaxWrites, MaxQueue, MaxKeys} \subseteq Nat
  /\ None \notin Session \cup Tree \cup {"Modified", "Deleted", "Paused"}

VARIABLES
  disk,      \* the session documents
  alive,     \* alive[s]: the pane that the document of s names is there
  trees,     \* the worktrees that exist
  queue,     \* the mpsc channel of the TUI
  pc,        \* where run_app is
  app,       \* the struct App
  batch,     \* the events drained in this iteration
  load,      \* the reload of this iteration
  cleaner,   \* the thread that removes stale sessions at start
  frame,     \* what the terminal shows: the session under the cursor, the prompt;
             \* history: the sessions that some frame since a key's press lacked
  writes, keys,
  missed     \* history: changes made after App::new and before the watcher

vars == <<disk, alive, trees, queue, pc, app, batch, load, cleaner, frame,
          writes, keys, missed>>
world == <<disk, alive, trees, missed>>

Doc == [status: {"Running", "Paused"}, at: 0 .. MaxAt] \cup [status: {"Ended"}, at: {MaxAt}]
List == [Session -> Doc \cup {None}]
NoBatch == [count |-> 0, changes |-> [s \in Session |-> None], full |-> FALSE, key |-> FALSE]
NoLoad == [todo |-> {}, list |-> [s \in Session |-> None], judged |-> None]

-----------------------------------------------------------------------------
(* App: the list, the filter, the rows and the cursor. *)

\* Each element of S where as many come before it as its place says.
InOrder(S, Before(_, _)) ==
  [n \in 1 .. Cardinality(S) |-> CHOOSE x \in S : Cardinality({y \in S : Before(y, x)}) = n - 1]

\* sort_sessions: the newest bucket first, then the youngest session.
InList(list) == {s \in Session : list[s] # None}
sort_sessions(list) ==
  LET Newer(s, t) == \/ list[s].at > list[t].at
                     \/ list[s].at = list[t].at /\ Age[s] > Age[t]
  IN InOrder(InList(list), Newer)

\* Each section has a header, which is row 0 of no session.
Section(list, filtered, st) ==
  LET ids == sort_sessions(list)
      members == InOrder({i \in filtered \cap DOMAIN ids : list[ids[i]].status = st}, <)
  IN IF members = <<>> THEN <<>> ELSE <<0>> \o members
build_session_rows(a) ==
  Section(a.list, a.filtered, "Running") \o Section(a.list, a.filtered, "Paused")

SessionAt(a, row) ==
  LET ids == sort_sessions(a.list)
  IN IF row \in DOMAIN a.rows /\ a.rows[row] \in DOMAIN ids THEN ids[a.rows[row]] ELSE None

selected_session(a) == SessionAt(a, a.sel)
Displayed(a) == {SessionAt(a, row) : row \in DOMAIN a.rows} \ {None}
Selectable(a) == {row \in DOMAIN a.rows : a.rows[row] # 0}
FirstRow(rows) == IF rows = {} THEN 0 ELSE CHOOSE r \in rows : \A q \in rows : r <= q
LastRow(rows) == IF rows = {} THEN 0 ELSE CHOOSE r \in rows : \A q \in rows : q <= r

Passes(a, s) ==
  /\ a.scope # None => s = a.scope \/ a.scope \in Ancestors[s]
  /\ a.only # None => a.list[s].status = a.only

Refiltered(a) ==
  LET ids == sort_sessions(a.list)
      b == [a EXCEPT !.filtered = {i \in DOMAIN ids : Passes(a, ids[i])}]
      c == [b EXCEPT !.rows = build_session_rows(b)]
  IN [c EXCEPT !.sel = FirstRow(Selectable(c))]

\* A scope whose root has gone is given up.
apply_filter(a) ==
  Refiltered([a EXCEPT !.scope = IF @ # None /\ a.list[@] = None THEN None ELSE @])

\* By the session if it is still displayed, else by the row.
resync_selection_ByRow(a, row, s) ==
  LET below == {r \in Selectable(a) : r >= row}
  IN [a EXCEPT !.sel = IF row = 0 THEN FirstRow(Selectable(a))
                       ELSE IF below # {} THEN FirstRow(below) ELSE LastRow(Selectable(a))]
resync_selection(a, row, s) ==
  IF s \in Displayed(a) THEN [a EXCEPT !.sel = FirstRow({r \in DOMAIN a.rows : SessionAt(a, r) = s})]
  ELSE resync_selection_ByRow(a, row, s)

\* Selects s if it has a row.
Onto(a, s) == IF s \in Displayed(a) THEN resync_selection(a, a.sel, s) ELSE a

select_next(a) ==
  LET below == {r \in Selectable(a) : r > a.sel}
  IN [a EXCEPT !.sel = FirstRow(IF @ \in Selectable(a) /\ below # {} THEN below ELSE Selectable(a))]
select_previous(a) ==
  LET above == {r \in Selectable(a) : r < a.sel}
  IN [a EXCEPT !.sel = IF @ \notin Selectable(a) THEN FirstRow(Selectable(a))
                       ELSE LastRow(IF above # {} THEN above ELSE Selectable(a))]

enter_drilldown(a) ==
  LET s == selected_session(a)
  IN IF s # None /\ \E t \in Displayed(a) : s \in Ancestors[t]
     THEN Onto(apply_filter([a EXCEPT !.scope = s]), s) ELSE a

\* The nearest displayed ancestor; at the root of the scope, out of the scope.
select_parent(a) ==
  LET s == selected_session(a)
      up == IF s = None THEN {} ELSE Ancestors[s] \cap Displayed(a)
      nearest == CHOOSE t \in up : \A u \in up : u = t \/ u \in Ancestors[t]
  IN IF up # {} THEN Onto(a, nearest)
     ELSE IF s # None /\ a.scope = s THEN Onto(apply_filter([a EXCEPT !.scope = None]), s) ELSE a

toggle_status_filter(a) ==
  apply_filter([a EXCEPT !.only = IF @ = "Paused" THEN None ELSE "Paused"])

\* Esc: clear_filter, or quit when there is none.
EscapeOrQuit(a) ==
  IF a.only = None /\ a.scope = None THEN [a EXCEPT !.quit = TRUE]
  ELSE apply_filter([a EXCEPT !.only = None, !.scope = None])

has_session_in_worktree(a, t) == \E s \in Session : a.list[s] # None /\ TreeOf[s] = t

\* The worktree goes too if this is the last session of the list in it.
request_delete(a) ==
  LET s == selected_session(a)
  IN IF s = None THEN a
     ELSE [a EXCEPT !.confirm =
             [id |-> s, cleanup |-> /\ TreeOf[s] \in trees
                                    /\ ~has_session_in_worktree([a EXCEPT !.list[s] = None], TreeOf[s])]]

-----------------------------------------------------------------------------
(* The file watcher: one event per document that changed. *)
Watching == pc \notin {"new", "opening"}
Changed(S, type) ==
  /\ queue' = IF Watching
              THEN queue \o [i \in 1 .. Cardinality(S) |->
                               [what |-> "change", id |-> SetToSeq(S)[i], type |-> type]]
              ELSE queue
  /\ missed' = IF pc = "opening" THEN missed \cup S ELSE missed

Removed(S) == /\ disk' = [s \in Session |-> IF s \in S THEN None ELSE disk[s]]
              /\ Changed({s \in S : disk[s] # None}, "Deleted")

\* A hook, sweep or another `a cc` saves the document of s. (What they did
\* before the TUI started is in Init, what they do after its end is not its
\* concern.)
Others(s) == /\ pc \notin {"new", "ended"} /\ Len(queue) < MaxQueue
             /\ writes < MaxWrites /\ writes' = writes + 1
OtherWrites(s) ==
  /\ Others(s)
  /\ \E doc \in Doc : /\ disk[s] # None => doc.at >= disk[s].at
                      /\ disk' = [disk EXCEPT ![s] = doc]
  /\ alive' = [alive EXCEPT ![s] = TRUE]
  /\ Changed({s}, "Modified")
  /\ UNCHANGED <<trees, pc, app, batch, load, cleaner, frame, keys>>

OtherDeletes(s) ==
  /\ Others(s) /\ disk[s] # None
  /\ Removed({s})
  /\ UNCHANGED <<alive, trees, pc, app, batch, load, cleaner, frame, keys>>

PaneDies(s) ==
  /\ Others(s)
  /\ alive[s] /\ alive' = [alive EXCEPT ![s] = FALSE]
  /\ UNCHANGED <<disk, trees, missed, queue, pc, app, batch, load, cleaner, frame, keys>>

\* handle_stale_session_cleanup, a thread of EventHandler::new.
CleanerRuns ==
  LET stale == {s \in Session : /\ disk[s] # None /\ disk[s].status # "Ended" /\ ~alive[s]}
  IN /\ cleaner = "run" /\ pc \notin {"new", "ended"}
     /\ cleaner' = IF stale = {} THEN "done" ELSE "send"
     /\ Removed(stale)
     /\ UNCHANGED <<alive, trees, pc, app, batch, load, frame, writes, keys>>

CleanerSends ==
  /\ cleaner = "send" /\ pc # "ended" /\ cleaner' = "done"
  /\ queue' = Append(queue, [what |-> "reload"])
  /\ UNCHANGED <<world, pc, app, batch, load, frame, writes, keys>>

\* The user looks at the frame and waits for the effect of the last key.
KeyInQueue == \E i \in DOMAIN queue : queue[i].what = "key"
Press(k) ==
  /\ keys < MaxKeys /\ keys' = keys + 1 /\ k \in Keys
  /\ frame.drawn /\ pc # "ended"
  /\ ~KeyInQueue /\ ~batch.key /\ (frame.prompt # None) = (k \in {"y", "n"})
  /\ queue' = Append(queue, [what |-> "key", key |-> k,
                             seen |-> IF k = "y" THEN frame.prompt ELSE frame.cursor])
  /\ UNCHANGED <<world, pc, app, batch, load, cleaner, frame, writes>>

-----------------------------------------------------------------------------
\* App::new, then EventHandler::new, which sets the watcher.
New ==
  LET a == [app EXCEPT !.list = [s \in Session |-> IF disk[s] # None /\ disk[s].status # "Ended"
                                                   THEN disk[s] ELSE None]]
  IN /\ pc = "new" /\ pc' = "opening" /\ app' = Refiltered(a)
     /\ UNCHANGED <<world, queue, batch, load, cleaner, frame, writes, keys>>

Open == /\ pc = "opening" /\ pc' = "draw"
        /\ UNCHANGED <<world, queue, app, batch, load, cleaner, frame, writes, keys>>

\* render: the rows are built again, unless there is nothing to show; the list
\* widget keeps its selection inside the list.
Draw ==
  LET rows == build_session_rows(app)
      a == IF rows = <<>> THEN app
           ELSE [app EXCEPT !.rows = rows, !.sel = IF @ > Len(rows) THEN Len(rows) ELSE @]
  IN /\ pc = "draw" /\ pc' = "wait"
     /\ app' = a /\ batch' = NoBatch
     /\ frame' = [drawn |-> TRUE, cursor |-> selected_session(a),
                  prompt |-> IF a.confirm = None THEN None ELSE a.confirm.id,
                  lacked |-> IF KeyInQueue THEN frame.lacked \cup (Session \ Displayed(a)) ELSE {}]
     /\ UNCHANGED <<world, queue, load, cleaner, writes, keys>>

\* Takes the next event: the first one may be waited for.
Drains(what) ==
  /\ pc \in {"wait", "drain"} /\ pc' = "drain"
  /\ queue # <<>> /\ Head(queue).what = what /\ batch.count < MaxDrain

\* merge_session_changes: the last change of a session counts.
merge_session_changes_KeepsFirst(changes, e) ==
  [changes EXCEPT ![e.id] = IF @ = None THEN e.type ELSE @]
merge_session_changes(changes, e) == [changes EXCEPT ![e.id] = e.type]

DrainChange ==
  /\ Drains("change") /\ queue' = Tail(queue)
  /\ batch' = [batch EXCEPT !.count = @ + 1,
                            !.changes = merge_session_changes(@, Head(queue))]
  /\ UNCHANGED <<world, app, load, cleaner, frame, writes, keys>>

DrainReload ==
  /\ Drains("reload") /\ queue' = Tail(queue)
  /\ batch' = [batch EXCEPT !.count = @ + 1, !.full = TRUE]
  /\ UNCHANGED <<world, app, load, cleaner, frame, writes, keys>>

\* handle_key_event for the keys that only change the App.
AfterKey(k, a) ==
  IF a.confirm # None THEN IF k = "n" THEN [a EXCEPT !.confirm = None] ELSE a
  ELSE CASE k = "down" -> select_next(a)
         [] k = "up" -> select_previous(a)
         [] k = "d" -> request_delete(a)
         [] k = "p" -> toggle_status_filter(a)
         [] k = "l" -> enter_drilldown(a)
         [] k = "h" -> select_parent(a)
         [] k = "esc" -> EscapeOrQuit(a)
         [] k = "q" -> [a EXCEPT !.quit = TRUE]
         [] OTHER -> a

Key == Head(queue)
DrainsKey == Drains("key") /\ batch' = [batch EXCEPT !.count = @ + 1, !.key = TRUE]

DrainKey ==
  /\ DrainsKey /\ queue' = Tail(queue)
  /\ ~(Key.key = "y" /\ app.confirm # None) /\ ~(Key.key = "W" /\ app.confirm = None)
  /\ app' = AfterKey(Key.key, app)
  /\ UNCHANGED <<world, load, cleaner, frame, writes, keys>>

\* cleanup_worktree_resources: all sessions on disk in the tree go with it.
InTree(t) == {s \in Session : TreeOf[s] = t}
RemovedByKey(S) ==
  /\ disk' = [s \in Session |-> IF s \in S THEN None ELSE disk[s]]
  /\ queue' = Tail(queue) \o
       LET gone == SetToSeq({s \in S : disk[s] # None})
       IN [i \in DOMAIN gone |-> [what |-> "change", id |-> gone[i], type |-> "Deleted"]]

\* The session, and its worktree if there is still none but this one in it.
MayCleanUp_Unverified(a) == a.confirm.cleanup
MayCleanUp(a) == /\ a.confirm.cleanup
                 /\ ~has_session_in_worktree([a EXCEPT !.list[a.confirm.id] = None],
                                             TreeOf[a.confirm.id])
confirm_delete ==
  LET s == app.confirm.id
      t == TreeOf[app.confirm.id]
      a == [app EXCEPT !.list[s] = None, !.confirm = None]
  IN /\ DrainsKey /\ Key.key = "y" /\ app.confirm # None
     /\ app' = resync_selection(apply_filter(a), app.sel, None)
     /\ \E gone \in IF MayCleanUp(app) /\ t \in trees THEN {{}, {t}} ELSE {{}} :
          /\ trees' = trees \ gone
          /\ RemovedByKey({s} \cup UNION {InTree(w) : w \in gone})
     /\ UNCHANGED <<alive, missed, load, cleaner, frame, writes, keys>>

\* In the worktree view: the sessions leave the list, the rows stay.
worktree_view_confirm_delete ==
  \E t \in trees :
    /\ DrainsKey /\ Key.key = "W" /\ app.confirm = None
    /\ trees' = trees \ {t} /\ RemovedByKey(InTree(t))
    /\ app' = [app EXCEPT !.list = [s \in Session |-> IF TreeOf[s] = t THEN None ELSE @[s]]]
    /\ UNCHANGED <<alive, missed, load, cleaner, frame, writes, keys>>

WorktreeViewIgnores ==
  /\ DrainsKey /\ Key.key = "W" /\ app.confirm = None /\ trees = {} /\ queue' = Tail(queue)
  /\ UNCHANGED <<world, app, load, cleaner, frame, writes, keys>>

-----------------------------------------------------------------------------
EndOfIteration == pc' = IF app.quit THEN "ended" ELSE "draw"

\* try_next has nothing more, or the limit is reached.
Drained ==
  LET changed == {s \in Session : batch.changes[s] # None}
  IN /\ pc = "drain" /\ (queue = <<>> \/ batch.count = MaxDrain)
     /\ IF batch.full \/ changed # {}
        THEN /\ pc' = "load"
             /\ load' = [todo |-> IF batch.full THEN Session ELSE changed,
                         list |-> IF batch.full THEN NoLoad.list ELSE app.list,
                         judged |-> None]
        ELSE EndOfIteration /\ UNCHANGED load
     /\ UNCHANGED <<world, queue, app, batch, cleaner, frame, writes, keys>>

is_session_stale(s) == disk[s] # None /\ disk[s].status = "Running" /\ ~alive[s]
Loads(s) == pc = "load" /\ load.judged = None /\ s \in load.todo
Took(s, doc) == load' = [load EXCEPT !.todo = @ \ {s}, !.list[s] = doc]

\* One document of list_sessions or of apply_incremental_changes.
Listed_WithEnded(doc) == doc
Listed(doc) == IF doc = None THEN None ELSE IF doc.status = "Ended" THEN None ELSE doc
LoadSession(s) ==
  /\ Loads(s) /\ (batch.full \/ batch.changes[s] = "Modified")
  /\ batch.full \/ ~is_session_stale(s)
  /\ Took(s, Listed(disk[s])) /\ missed' = missed \ {s}
  /\ UNCHANGED <<disk, alive, trees, queue, pc, app, batch, cleaner, frame, writes, keys>>

DropSession(s) ==
  /\ Loads(s) /\ ~batch.full /\ batch.changes[s] = "Deleted"
  /\ Took(s, None) /\ missed' = missed \ {s}
  /\ UNCHANGED <<disk, alive, trees, queue, pc, app, batch, cleaner, frame, writes, keys>>

\* A stale one leaves the list, then the disk, with no lock in between.
JudgeStale(s) ==
  /\ Loads(s) /\ ~batch.full /\ batch.changes[s] = "Modified" /\ is_session_stale(s)
  /\ load' = [load EXCEPT !.todo = @ \ {s}, !.list[s] = None, !.judged = s]
  /\ missed' = missed \ {s}
  /\ UNCHANGED <<disk, alive, trees, queue, pc, app, batch, cleaner, frame, writes, keys>>

DeleteStale ==
  /\ pc = "load" /\ load.judged # None /\ load' = [load EXCEPT !.judged = None]
  /\ Removed({load.judged})
  /\ UNCHANGED <<alive, trees, pc, app, batch, cleaner, frame, writes, keys>>

\* load_session waits for the lock of the document; its error ends the TUI.
LockTimeout(s) ==
  /\ Loads(s) /\ ~batch.full /\ batch.changes[s] = "Modified" /\ disk[s] # None
  /\ pc' = "ended"
  /\ UNCHANGED <<world, queue, app, batch, load, cleaner, frame, writes, keys>>

\* apply_filter, then restore_selection with what was selected before.
Reloaded ==
  /\ pc = "load" /\ load.todo = {} /\ load.judged = None
  /\ app' = resync_selection(apply_filter([app EXCEPT !.list = load.list]),
                             app.sel, selected_session(app))
  /\ load' = NoLoad /\ EndOfIteration
  /\ UNCHANGED <<world, queue, batch, cleaner, frame, writes, keys>>

-----------------------------------------------------------------------------
Init ==
  /\ disk \in [Session -> [status: {"Running", "Paused"}, at: {0}]]
  /\ alive = [s \in Session |-> TRUE] /\ trees = Tree /\ queue = <<>> /\ pc = "new"
  /\ app = [list |-> NoLoad.list, filtered |-> {}, rows |-> <<>>, sel |-> 0, confirm |-> None,
            only |-> None, scope |-> None, quit |-> FALSE]
  /\ batch = NoBatch /\ load = NoLoad /\ cleaner = "run"
  /\ frame = [drawn |-> FALSE, cursor |-> None, prompt |-> None, lacked |-> {}]
  /\ writes = 0 /\ keys = 0 /\ missed = {}

World == \/ \E s \in Session : OtherWrites(s) \/ OtherDeletes(s) \/ PaneDies(s)
         \/ CleanerRuns \/ CleanerSends
         \/ \E k \in Keys : Press(k)

Tui == \/ New \/ Open \/ Draw \/ DrainChange \/ DrainReload \/ DrainKey
       \/ confirm_delete \/ worktree_view_confirm_delete \/ WorktreeViewIgnores \/ Drained
       \/ \E s \in Session : LoadSession(s) \/ DropSession(s) \/ JudgeStale(s) \/ LockTimeout(s)
       \/ DeleteStale \/ Reloaded

Next == World \/ Tui
Spec == Init /\ [][Next]_vars

-----------------------------------------------------------------------------
\* The list is what was last read, the rows lie in it, one event is one record.
WatchTypeOK ==
  /\ {disk, app.list, load.list} \subseteq List
  /\ alive \in [Session -> BOOLEAN] /\ trees \subseteq Tree /\ missed \subseteq Session
  /\ pc \in {"new", "opening", "draw", "wait", "drain", "load", "ended"}
  /\ batch.changes \in [Session -> {None, "Modified", "Deleted"}]
  /\ batch.count <= MaxDrain /\ load.todo \subseteq Session
  /\ app.filtered \subseteq 1 .. Cardinality(Session)

\* Once every event has been drained, the list holds exactly the documents that
\* are on disk and not Ended, whatever was merged, dropped, deleted or
\* re-created on the way. Only what changed before the watcher was set may be
\* missing (run_app, tui/mod.rs).
Quiet == pc = "wait" /\ queue = <<>>
ListIsFresh ==
  Quiet => \A s \in Session \ missed :
             app.list[s] = IF disk[s] = None \/ disk[s].status = "Ended" THEN None ELSE disk[s]

\* And then, with nothing missing, the rows are those that pass the filter.
QuietMeansFresh ==
  /\ ListIsFresh
  /\ Quiet /\ missed = {} =>
       Displayed(app) = {s \in Session : app.list[s] # None /\ Passes(app, s)}

\* A key acts on the session that was under the cursor in the frame the user
\* looked at, however the rows moved since; on another one only if that
\* session was away for a frame in between.
ActsOnShown ==
  [][DrainKey /\ Key.key \in {"enter", "d"} /\ app.confirm = None =>
       Key.seen \in {None, selected_session(app)} \cup frame.lacked]_vars

\* A worktree goes with its last session: whoever else is on disk in it has
\* come so late that its event has not been applied yet.
TreeGoesWithItsLast ==
  [][confirm_delete /\ trees' # trees =>
       \A s \in Session \ (missed \cup {Key.seen}) :
         TreeOf[s] \in trees \ trees' /\ disk[s] # None /\ disk[s].status # "Ended" =>
           \/ batch.changes[s] # None
           \/ \E i \in DOMAIN queue : queue[i].what = "change" /\ queue[i].id = s]_vars
================================================================================
