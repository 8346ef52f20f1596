------------------------------ MODULE CleanView ------------------------------
(***************************************************************************)
(* The worktree view and the clean view of `a cc watch` (tui/worktree_view,*)
(* tui/clean_view, tui/pr_fetch, tui/clean_progress) and the detached      *)
(* process that deletes what the clean view lists (clean_detached.rs).     *)
(*                                                                         *)
(* One thread owns the views. It draws, waits for an event and drains the  *)
(* queue: keys act at once, what they ask for (a fetch, a child process)   *)
(* starts when the queue is drained. Fetches, the tails of the log and     *)
(* their children run beside it, several at a time if the user comes back. *)
(*                                                                         *)
(* A worktree is its path, all in one repository, with at most one session.*)
(* The list of the sessions is WatchList's subject: here the list is what  *)
(* is on disk. How a worktree is removed is Worktrees'.                    *)
(***************************************************************************)
EXTENDS Naturals, Sequences, FiniteSets

CONSTANTS
  Path,       \* the linked worktrees
  Order,      \* Order[p]: the rank of p in the order of the lists
  MaxKeys,    \* bound: the keys pressed
  MaxVisits,  \* bound: the times the clean view is entered with rows
  MaxRuns,    \* bound: the children
  MaxChanges, \* bound: what happens to sessions and pull requests
  MaxNights,  \* bound: the times the log is rotated
  MaxQueue,   \* bound: the events that others have sent and nobody has taken
  Apart,      \* does the user wait for a child before coming back?
  Nothing

VARIABLES
  exists, merged, session,  \* the worktrees, those whose PR is merged, and
                            \* the session in each: "none", "idle" or "active"
  events,    \* the channel
  loop,      \* run_app: where it is, and the KeyEffects of this iteration
  list,      \* App.sessions
  view,      \* the view shown, and the one that the clean view returns to
  tree,      \* WorktreeView
  clean,     \* CleanView
  progress,  \* CleanProgress
  finder,    \* the thread that discovers the worktrees
  fetches,   \* the fetches under way
  child,     \* the detached processes, by run
  log,       \* the file of today
  tail,      \* the threads that read it, by run
  shown,     \* what the frame shows
  chosen,    \* history: where the user has moved a row in this visit
  stale,     \* history: a fetch of an earlier visit was answered in this one
  blurred,   \* history: rows were removed since the frame
  lost,      \* history: lines that no tail will read
  visits, keys, changes, nights

worldVars == <<exists, merged, session>>
viewVars == <<list, view, tree, clean, progress, chosen, stale, blurred>>
backVars == <<finder, fetches, child, log, tail, lost>>
countVars == <<visits, keys, changes, nights>>
cleanVars == <<worldVars, events, loop, viewVars, backVars, shown, countVars>>

Run == 1 .. MaxRuns
Section == {"ToDelete", "Kept"}

\* Each element of S where as many have a lower rank as its place says.
InOrder(S, rank) ==
  [n \in 1 .. Cardinality(S) |->
     CHOOSE x \in S : Cardinality({y \in S : rank[y] < rank[x]}) = n - 1]

\* CleanProgress. (The counts of its summary line are left out.)
Progress == [run : Run, done : BOOLEAN, confirmed_deleted : SUBSET Path]

ASSUME CleanViewAssumption ==
  /\ Nothing \notin Section \cup Progress
  /\ IsFiniteSet(Path) /\ MaxRuns \in Nat /\ Apart \in BOOLEAN
  /\ Order \in [Path -> Nat] /\ \A p, q \in Path : Order[p] = Order[q] => p = q

-----------------------------------------------------------------------------
(* Lists and cursors. The cursor is an index into the entries: headers,    *)
(* worktrees and the sessions under them.                                  *)

Header == [what |-> "header", path |-> Nothing]
EntriesOf(S, nested) ==
  [what : {"row"}, path : S] \cup [what : {"session"}, path : S \cap nested]
Grouped(S, nested) ==
  LET entries == EntriesOf(S, nested)
      rank == [e \in entries |-> 2 * Order[e.path] + IF e.what = "row" THEN 0 ELSE 1]
  IN IF S = {} THEN <<>> ELSE <<Header>> \o InOrder(entries, rank)

tree_entries(t) == Grouped(t.rows, {p \in Path : t.nested[p]})
refresh_session_overlay(t, sessions) ==
  [t EXCEPT !.nested = [p \in Path |-> p \in t.rows /\ sessions[p] # "none"]]

RowsOf(c) == {p \in Path : c.rows[p] # Nothing}
InSection(c, s) == {p \in RowsOf(c) : c.rows[p].section = s}
clean_entries(c) ==
  LET nested == {p \in RowsOf(c) : c.rows[p].session # "none"}
  IN IF c.state # "Ready" THEN <<>>
     ELSE <<Header>> \o Grouped(InSection(c, "ToDelete"), nested)
          \o <<Header>> \o Grouped(InSection(c, "Kept"), nested)

selectable(entries) == {i \in DOMAIN entries : entries[i].what # "header"}
Least(S) == CHOOSE i \in S : \A j \in S : i <= j
Greatest(S) == IF S = {} THEN 0 ELSE CHOOSE i \in S : \A j \in S : j <= i
EntryAt(entries, i) == IF i \in DOMAIN entries THEN entries[i] ELSE Header
FirstRow(entries) ==
  LET rows == {i \in DOMAIN entries : entries[i].what = "row"}
  IN IF rows = {} THEN 0 ELSE Least(rows)
RowOf(entries, p) ==
  LET rows == {i \in DOMAIN entries : entries[i] = [what |-> "row", path |-> p]}
  IN IF rows = {} THEN 0 ELSE Least(rows)

\* step(1): around the end, headers are skipped; a cursor that is on nothing
\* selectable starts again at the top.
Stepped(entries, i) ==
  LET sel == selectable(entries)
      below == {j \in sel : j > i}
  IN IF sel = {} THEN i ELSE Least(IF i \in sel /\ below # {} THEN below ELSE sel)

to_delete_paths(c) == InSection(c, "ToDelete")
is_pr_loading(c) == c.pr = "Loading"

-----------------------------------------------------------------------------
(* The views as the handlers change them *)

NoRows == [p \in Path |-> Nothing]
Loading == [state |-> "LoadingPr", pr |-> "Loading", rows |-> NoRows, sel |-> 0]
OntoFirst(c) == [c EXCEPT !.sel = FirstRow(clean_entries(c))]

\* Active is anything but Ended, Paused and an idle Stopped: the clean view
\* gives no grace.
build_clean_row_AnySession(p, loaded, isMerged, s) ==
  [section |-> IF loaded /\ isMerged THEN "ToDelete" ELSE "Kept", session |-> s, loaded |-> loaded]
build_clean_row(p, loaded, isMerged, s) ==
  [section |-> IF loaded /\ isMerged /\ s # "active" THEN "ToDelete" ELSE "Kept",
   session |-> s, loaded |-> loaded]
build_clean_rows(S, loaded, prs, sessions) ==
  [p \in Path |-> IF p \in S THEN build_clean_row(p, loaded, p \in prs, sessions[p]) ELSE Nothing]

\* seed_clean_view_if_pending: a clean view that waits for the worktrees gets
\* them as placeholders, and the pull requests are asked for.
Seeds(c, t) == c.state = "LoadingPr" /\ t.state = "Loaded"
AsksForPrs(c, t) == Seeds(c, t) /\ t.rows # {}
Seeded(c, t) ==
  IF ~Seeds(c, t) THEN c
  ELSE OntoFirst([c EXCEPT !.state = "Ready", !.pr = IF t.rows = {} THEN "Done" ELSE "Loading",
                           !.rows = build_clean_rows(t.rows, FALSE, {}, list)])

\* apply_pr_results: rows are replaced by path, the cursor stays on its row.
Reanchored_ByIndex(c, at) == c
Reanchored(c, at) ==
  LET i == RowOf(clean_entries(c), at.path)
  IN IF at.what = "row" /\ i # 0 THEN [c EXCEPT !.sel = i] ELSE OntoFirst(c)
apply_pr_results(c, rows) ==
  LET d == [c EXCEPT !.rows = [p \in Path |-> IF rows[p] # Nothing THEN rows[p] ELSE @[p]],
                     !.state = "Ready", !.pr = "Done"]
  IN IF c.state = "Ready" THEN Reanchored(d, EntryAt(clean_entries(c), c.sel)) ELSE OntoFirst(d)

\* What is known to be deleted is not listed again, while that is known.
filter_already_cleaned(rows) ==
  [p \in Path |-> IF progress # Nothing /\ p \in progress.confirmed_deleted THEN Nothing ELSE rows[p]]

\* toggle_selected_section: not before the pull requests are known.
MayToggle_AtOnce(c) == EntryAt(clean_entries(c), c.sel).what = "row"
MayToggle(c) == ~is_pr_loading(c) /\ EntryAt(clean_entries(c), c.sel).what = "row"
Toggled(c) ==
  LET p == EntryAt(clean_entries(c), c.sel).path
      d == [c EXCEPT !.rows[p].section = IF @ = "Kept" THEN "ToDelete" ELSE "Kept"]
  IN [d EXCEPT !.sel = RowOf(clean_entries(d), p)]

-----------------------------------------------------------------------------
(* CleanProgress *)

NewProgress(r) == [run |-> r, done |-> FALSE, confirmed_deleted |-> {}]

\* apply, of each line: nothing counts after Done.
Has(lines, what) == \E i \in DOMAIN lines : lines[i].what = what
Heard(g, lines) == {i \in DOMAIN lines : ~g.done /\ \A j \in 1 .. i - 1 : lines[j].what # "done"}
Deleted(g, lines) == {lines[i].path : i \in {j \in Heard(g, lines) : lines[j].what = "ok"}}
Applied(g, lines) ==
  [g EXCEPT !.done = @ \/ Has(lines, "done"),
            !.confirmed_deleted = @ \cup Deleted(g, lines)]

-----------------------------------------------------------------------------
(* The loop. The user looks at the frame and waits for the effect of a key. *)

Iteration == [at |-> "wait", fetch |-> FALSE, spawn |-> {}, reload |-> FALSE, key |-> FALSE]

\* render: what a frame shows of the views.
render_clean_list(c) == EntryAt(clean_entries(c), c.sel)
render_worktree_list(t) == EntryAt(tree_entries(t), t.sel)
Frame(v, t, c) ==
  [view |-> v.at, confirm |-> t.confirm # Nothing,
   row |-> IF v.at = "Clean" THEN render_clean_list(c) ELSE render_worktree_list(t)]

KeyWaits == loop.key \/ \E i \in DOMAIN events : events[i].what = "key"
KeysOf == CASE shown.view = "Session" -> {"tab", "c"}
            [] shown.view = "Clean" -> {"j", "enter", "y", "n"}
            [] shown.confirm -> {"y", "n"}
            [] OTHER -> {"tab", "c", "j", "d"}
Alone == \A r \in Run : ~tail[r].on /\ child[r].pc \in {"none", "ended"}
Press(k) ==
  /\ keys < MaxKeys /\ keys' = keys + 1 /\ ~KeyWaits /\ k \in KeysOf
  /\ shown.view = "Clean" /\ k = "y" /\ Apart => Alone
  /\ k = "c" => visits < MaxVisits
  /\ events' = Append(events, [what |-> "key", key |-> k])
  /\ UNCHANGED <<worldVars, loop, viewVars, backVars, shown, visits, changes, nights>>

Arrived == Head(events)
Takes(what) == /\ events # <<>> /\ Arrived.what = what
               /\ events' = Tail(events)
Goes(effects) == loop' = [effects EXCEPT !.at = "drain", !.key = @ \/ Arrived.what = "key"]

\* Any key takes the summary of a finished run away.
Pressed(v, k) == Takes("key") /\ view.at = v /\ Arrived.key = k
Dismisses_Always == progress' = Nothing
Dismisses == progress' = IF progress # Nothing /\ progress.done THEN Nothing ELSE progress
KeyOnly == /\ Goes(loop) /\ Dismisses
           /\ UNCHANGED <<worldVars, list, stale, blurred, backVars, shown, countVars>>

cycle_view ==
  /\ \E v \in {"Session", "Worktree"} :
       /\ Pressed(v, "tab")
       /\ view' = [view EXCEPT !.at = IF v = "Session" THEN "Worktree" ELSE "Session"]
       /\ tree' = IF v = "Session" THEN refresh_session_overlay(tree, list) ELSE tree
  /\ KeyOnly /\ UNCHANGED <<clean, chosen>>

enter_clean_view ==
  /\ \E v \in {"Session", "Worktree"} : Pressed(v, "c")
  /\ view' = [at |-> "Clean", back |-> view.at]
  /\ clean' = Seeded(Loading, tree)
  /\ Goes([loop EXCEPT !.fetch = @ \/ AsksForPrs(Loading, tree)]) /\ Dismisses
  /\ chosen' = NoRows /\ stale' = FALSE /\ visits' = visits + 1
  /\ UNCHANGED <<worldVars, list, tree, blurred, backVars, shown, keys, changes, nights>>

exit_clean_view ==
  /\ Pressed("Clean", "n") /\ view' = [view EXCEPT !.at = view.back]
  /\ KeyOnly /\ UNCHANGED <<tree, clean, chosen>>

\* `y`: the child is spawned at the end of the iteration.
confirm_clean ==
  /\ Pressed("Clean", "y") /\ view' = [view EXCEPT !.at = view.back]
  /\ Goes([loop EXCEPT !.spawn = to_delete_paths(clean)]) /\ Dismisses
  /\ UNCHANGED <<worldVars, list, tree, clean, chosen, stale, blurred, backVars, shown, countVars>>

select_next ==
  /\ \/ /\ Pressed("Clean", "j") /\ UNCHANGED tree
        /\ clean' = [clean EXCEPT !.sel = Stepped(clean_entries(clean), @)]
     \/ /\ Pressed("Worktree", "j") /\ UNCHANGED clean
        /\ tree' = [tree EXCEPT !.sel = Stepped(tree_entries(tree), @)]
  /\ KeyOnly /\ UNCHANGED <<view, chosen>>

\* Enter focuses a session, or toggles a worktree.
toggle_selected_section ==
  LET p == EntryAt(clean_entries(clean), clean.sel).path
  IN /\ Pressed("Clean", "enter")
     /\ IF MayToggle(clean)
          THEN clean' = Toggled(clean) /\ chosen' = [chosen EXCEPT ![p] = clean'.rows[p].section]
          ELSE UNCHANGED <<clean, chosen>>
     /\ KeyOnly /\ UNCHANGED <<view, tree>>

worktree_view_request_delete ==
  LET e == EntryAt(tree_entries(tree), tree.sel)
  IN /\ Pressed("Worktree", "d")
     /\ tree' = IF e.what = "row" THEN [tree EXCEPT !.confirm = e.path] ELSE tree
     /\ KeyOnly /\ UNCHANGED <<view, clean, chosen>>

worktree_view_cancel_confirm ==
  /\ Pressed("Worktree", "n") /\ tree' = [tree EXCEPT !.confirm = Nothing]
  /\ KeyOnly /\ UNCHANGED <<view, clean, chosen>>

\* cleanup_worktree_resources, in this thread: it may fail. The cursor stays,
\* or goes to the next entry below, or to the last.
Gone(S) == /\ exists' = exists \ S
           /\ session' = [p \in Path |-> IF p \in S THEN "none" ELSE session[p]]
Tells(S) == IF \E p \in S : session[p] # "none" THEN <<[what |-> "sessions"]>> ELSE <<>>
Without(S, sessions) == [p \in Path |-> IF p \in S THEN "none" ELSE sessions[p]]
worktree_view_confirm_delete ==
  /\ view.at = "Worktree" /\ events # <<>>
  /\ Arrived = [what |-> "key", key |-> "y"]
  /\ \E gone \in {{}, {tree.confirm} \cap exists} :
       LET t == refresh_session_overlay([tree EXCEPT !.rows = @ \ gone], Without(gone, list))
           sel == selectable(tree_entries(t))
           below == {i \in sel : i >= tree.sel}
           at == IF below # {} THEN Least(below) ELSE Greatest(sel)
       IN /\ Gone(gone) /\ events' = Tail(events) \o Tells(gone)
          /\ list' = Without(gone, list)
          /\ tree' = [(IF gone = {} THEN tree ELSE [t EXCEPT !.sel = at]) EXCEPT !.confirm = Nothing]
  /\ Goes(loop) /\ Dismisses
  /\ UNCHANGED <<merged, view, clean, chosen, stale, blurred, backVars, shown, countVars>>

\* WorktreesLoaded: a clean view that was opened before is filled now.
set_worktrees ==
  /\ Takes("worktrees")
  /\ tree' = IF Arrived.ok
       THEN LET t == [tree EXCEPT !.state = "Loaded", !.rows = Arrived.paths]
            IN refresh_session_overlay([t EXCEPT !.sel = FirstRow(tree_entries(t))], list)
       ELSE [tree EXCEPT !.state = "Failed"]
  /\ LET waits == view.at = "Clean" /\ clean.state = "LoadingPr"
     IN /\ clean' = IF waits THEN Seeded(clean, tree') ELSE clean
        /\ Goes([loop EXCEPT !.fetch = @ \/ (waits /\ AsksForPrs(clean, tree'))])
  /\ UNCHANGED <<worldVars, list, view, progress, chosen, stale, blurred, backVars, shown, countVars>>

\* CleanPrFetched
PrsFetched ==
  /\ Takes("prs") /\ Goes(loop)
  /\ clean' = IF Arrived.ok THEN apply_pr_results(clean, filter_already_cleaned(Arrived.rows))
              ELSE [clean EXCEPT !.pr = "Failed", !.state = IF @ = "Ready" THEN @ ELSE "Failed"]
  /\ stale' = (stale \/ Arrived.visit # visits)
  /\ UNCHANGED <<worldVars, list, view, tree, progress, chosen, blurred, backVars, shown, countVars>>

\* apply_clean_log_events: whatever run they are of.
apply_clean_log_events ==
  /\ Takes("log") /\ Goes(loop)
  /\ IF progress = Nothing THEN UNCHANGED <<tree, clean, progress, blurred>>
     ELSE LET gone == Deleted(progress, Arrived.lines)
          IN /\ progress' = Applied(progress, Arrived.lines)
             /\ tree' = [tree EXCEPT !.rows = @ \ gone]
             /\ clean' = [clean EXCEPT !.rows = [p \in Path |-> IF p \in gone THEN Nothing ELSE @[p]]]
             /\ blurred' = (blurred \/ gone # {})
  /\ UNCHANGED <<worldVars, list, view, chosen, stale, backVars, shown, countVars>>

SessionsChanged ==
  /\ Takes("sessions") /\ Goes([loop EXCEPT !.reload = TRUE])
  /\ UNCHANGED <<worldVars, viewVars, backVars, shown, countVars>>

\* The queue is empty: what the keys asked for, then the reload, then the next
\* frame. (The bound on a drain is WatchList's.)
StartFetch ==
  fetches' = IF ~loop.fetch THEN fetches
             ELSE fetches \cup {[visit |-> visits, rows |-> tree.rows, sessions |-> list]}
Unused == {r \in Run : child[r].pc = "none"}
SpawnClean ==
  LET r == Least(Unused)
  IN \/ loop.spawn = {} /\ UNCHANGED <<child, tail, progress>>
     \/ loop.spawn # {} /\ UNCHANGED <<child, tail, progress>>      \* the spawn fails
     \/ /\ loop.spawn # {} /\ Unused # {}
        /\ child' = [child EXCEPT ![r] = [pc |-> "start", todo |-> InOrder(loop.spawn, Order),
                                          ok |-> {}]]
        /\ tail' = [tail EXCEPT ![r].on = TRUE]
        /\ progress' = NewProgress(r)
Reload ==
  IF loop.reload THEN list' = session /\ tree' = refresh_session_overlay(tree, session)
  ELSE UNCHANGED <<list, tree>>
EndIteration ==
  /\ loop.at = "drain" /\ events = <<>> /\ loop' = Iteration
  /\ StartFetch /\ SpawnClean /\ Reload
  /\ shown' = Frame(view, tree', clean) /\ blurred' = FALSE
  /\ UNCHANGED <<worldVars, events, view, clean, chosen, stale, finder, log, lost, countVars>>

\* A frame that shows what the last one did.
Redraw == loop.at = "wait" /\ events = <<>> /\ UNCHANGED cleanVars

-----------------------------------------------------------------------------
(* Beside the loop *)

Sends(e) == Len(events) < MaxQueue /\ events' = Append(events, e)
Beside == UNCHANGED <<loop, viewVars, shown, visits, keys>>

\* handle_worktree_discovery
Discovers ==
  /\ finder = "runs" /\ finder' = "done"
  /\ \E ok \in BOOLEAN : Sends([what |-> "worktrees", ok |-> ok, paths |-> exists])
  /\ Beside /\ UNCHANGED <<worldVars, fetches, child, log, tail, lost, changes, nights>>

\* fetch_clean_inputs: the pull requests as they are now, of the worktrees and
\* sessions as they were when it began.
fetch_clean_inputs(f) ==
  /\ fetches' = fetches \ {f}
  /\ \E ok \in BOOLEAN :
       Sends([what |-> "prs", visit |-> f.visit, ok |-> ok,
              rows |-> build_clean_rows(f.rows, TRUE, merged, f.sessions)])
  /\ Beside /\ UNCHANGED <<worldVars, finder, child, log, tail, lost, changes, nights>>

\* clean-detached, run_with: each worktree is removed, or not, and then it says so.
Child(r, c) == child' = [child EXCEPT ![r] = c]
Logs(r, line) == log' = Append(log, [run |-> r, line |-> line])

ChildStarts(r) ==
  /\ child[r].pc = "start" /\ Child(r, [child[r] EXCEPT !.pc = "remove"])
  /\ Logs(r, [what |-> "start"])
  /\ Beside /\ UNCHANGED <<worldVars, events, finder, fetches, tail, lost, changes, nights>>

ChildRemoves(r) ==
  LET p == Head(child[r].todo)
      c == [child[r] EXCEPT !.todo = Tail(@)]
  IN /\ child[r].pc = "remove" /\ child[r].todo # <<>> /\ Len(events) < MaxQueue
     /\ \E gone \in {{}, {p} \cap exists} :
          /\ Gone(gone) /\ events' = events \o Tells(gone)
          /\ Logs(r, [what |-> IF gone = {} THEN "err" ELSE "ok", path |-> p])
          /\ Child(r, [c EXCEPT !.ok = @ \cup gone])
  /\ Beside /\ UNCHANGED <<merged, finder, fetches, tail, lost, changes, nights>>

ChildEnds(r) ==
  /\ child[r].pc = "remove" /\ child[r].todo = <<>>
  /\ Child(r, [child[r] EXCEPT !.pc = "ended"])
  /\ Logs(r, [what |-> "done"])
  /\ Beside /\ UNCHANGED <<worldVars, events, finder, fetches, tail, lost, changes, nights>>

\* start_clean_tail, one poll: the lines of its run that it has not read.
Unread(r) == LET own == {i \in tail[r].at + 1 .. Len(log) : log[i].run = r}
                 places == InOrder(own, [i \in own |-> i])
             IN [n \in DOMAIN places |-> log[places[n]].line]
TailReads(r) ==
  /\ tail[r].on /\ Unread(r) # <<>>
  /\ Sends([what |-> "log", run |-> r, lines |-> Unread(r)])
  /\ tail' = [tail EXCEPT ![r] = [on |-> ~Has(Unread(r), "done"), at |-> Len(log)]]
  /\ Beside /\ UNCHANGED <<worldVars, finder, fetches, child, log, lost, changes, nights>>

\* A log that cannot be read, or a child that is silent for a minute.
TailGivesUp(r) ==
  /\ tail[r].on /\ tail' = [tail EXCEPT ![r].on = FALSE]
  /\ lost' = TRUE
  /\ Beside /\ UNCHANGED <<worldVars, events, finder, fetches, child, log, changes, nights>>

\* Midnight: what a tail has not read of the old file it never reads. (Without
\* such a line a new file changes nothing but the cursors.)
Midnight ==
  /\ nights < MaxNights /\ nights' = nights + 1 /\ log' = <<>>
  /\ \E r \in Run : tail[r].on /\ Unread(r) # <<>>
  /\ tail' = [r \in Run |-> [tail[r] EXCEPT !.at = 0]]
  /\ lost' = TRUE
  /\ Beside /\ UNCHANGED <<worldVars, events, finder, fetches, child, changes>>

\* The world: sessions come, work and go, pull requests are merged.
SessionMoves(p) ==
  /\ changes < MaxChanges /\ changes' = changes + 1 /\ p \in exists
  /\ \E s \in {"none", "idle", "active"} \ {session[p]} : session' = [session EXCEPT ![p] = s]
  /\ Sends([what |-> "sessions"])
  /\ Beside /\ UNCHANGED <<exists, merged, backVars, nights>>

PrMerges(p) ==
  /\ changes < MaxChanges /\ changes' = changes + 1
  /\ p \notin merged /\ merged' = merged \cup {p}
  /\ Beside /\ UNCHANGED <<exists, session, events, backVars, nights>>

-----------------------------------------------------------------------------
CleanInit ==
  /\ exists = Path /\ merged \in SUBSET Path /\ session = [p \in Path |-> "none"]
  /\ events = <<>> /\ loop = Iteration /\ list = session
  /\ view = [at |-> "Session", back |-> "Session"]
  /\ tree = [state |-> "Loading", rows |-> {}, nested |-> [p \in Path |-> FALSE], sel |-> 0,
             confirm |-> Nothing]
  /\ clean = Loading /\ progress = Nothing /\ finder = "runs" /\ fetches = {}
  /\ child = [r \in Run |-> [pc |-> "none", todo |-> <<>>, ok |-> {}]]
  /\ log = <<>> /\ tail = [r \in Run |-> [on |-> FALSE, at |-> 0]]
  /\ shown = [view |-> "Session", confirm |-> FALSE, row |-> Header]
  /\ chosen = NoRows /\ stale = FALSE /\ blurred = FALSE /\ lost = FALSE
  /\ visits = 0 /\ keys = 0 /\ changes = 0 /\ nights = 0

Keys == {"tab", "c", "j", "enter", "d", "y", "n"}
Handles ==
  \/ cycle_view \/ enter_clean_view \/ exit_clean_view \/ confirm_clean \/ select_next
  \/ toggle_selected_section \/ worktree_view_request_delete \/ worktree_view_cancel_confirm
  \/ worktree_view_confirm_delete \/ set_worktrees \/ PrsFetched \/ apply_clean_log_events
  \/ SessionsChanged
Background ==
  \/ Discovers \/ \E f \in fetches : fetch_clean_inputs(f)
  \/ \E r \in Run : \/ ChildStarts(r) \/ ChildRemoves(r) \/ ChildEnds(r)
                    \/ TailReads(r) \/ TailGivesUp(r)
  \/ Midnight \/ \E p \in Path : SessionMoves(p) \/ PrMerges(p)
CleanNext == Handles \/ EndIteration \/ Redraw \/ Background \/ \E k \in Keys : Press(k)
CleanSpec == CleanInit /\ [][CleanNext]_cleanVars

-----------------------------------------------------------------------------
\* A row that the user has moved to Kept is not handed to the child, whatever
\* the fetch answers afterwards; only the fetch of an earlier visit, answered
\* in this one, opens the rows too early (clean_view.rs, toggle_selected_section).
KeptIsKept ==
  [][confirm_clean /\ ~stale => \A p \in loop'.spawn : chosen[p] # "Kept"]_cleanVars

\* Enter moves the row that was under the cursor in the frame, although rows
\* change sections while answers come in; rows that are removed may shift it.
ToggleActsOnShown ==
  [][toggle_selected_section /\ shown.view = "Clean" /\ shown.row.what = "row" /\ ~blurred =>
       chosen' \in {chosen, [chosen EXCEPT ![shown.row.path] = chosen'[shown.row.path]]}]_cleanVars

\* Once a child has told its last and nothing is under way, no worktree that it
\* removed is in the worktree view, provided that no line of it was lost.
DeletedLeaveTheList ==
  loop.at = "wait" /\ events = <<>> /\ ~lost =>
    \A r \in Run : child[r].pc = "ended" /\ ~tail[r].on => child[r].ok \cap tree.rows = {}
=============================================================================
