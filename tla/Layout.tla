------------------------------- MODULE Layout -------------------------------
(***************************************************************************)
(* The tmux commands that make a window of panes from the layout in the    *)
(* configuration, src/infra/tmux/layout.rs, and what tmux makes of them.   *)
(*                                                                         *)
(* A layout is a tree: a pane with its command, or two layouts side by     *)
(* side ("h") or one above the other ("v"). tmux numbers the panes of a    *)
(* window from 1, and puts a new pane right after the one that was split.  *)
(***************************************************************************)
EXTENDS Naturals, Sequences, SequencesExt

CONSTANTS Claude,  \* the commands that start claude
          NoRun    \* nobody

-----------------------------------------------------------------------------
(* Layouts *)

IsPane(node) == "command" \in DOMAIN node
Pane(command, focus) == [command |-> command, focus |-> focus]
Split(direction, first, second) ==
  [direction |-> direction, first |-> first, second |-> second]

DefaultLayout(nvim, claude) == Split("h", Pane(nvim, TRUE), Pane(claude, FALSE))

RECURSIVE count_panes(_)
count_panes(node) ==
  IF IsPane(node) THEN 1 ELSE count_panes(node.first) + count_panes(node.second)

RECURSIVE PaneEntries(_)
PaneEntries(node) ==
  IF IsPane(node) THEN <<node>> ELSE PaneEntries(node.first) \o PaneEntries(node.second)

\* A rectangle is its column, row, width and height.
Half(r, direction, second) ==
  LET w == r.w \div 2  h == r.h \div 2 IN
  IF direction = "h" THEN [r EXCEPT !.w = w, !.x = IF second THEN @ + w ELSE @]
                     ELSE [r EXCEPT !.h = h, !.y = IF second THEN @ + h ELSE @]

Screen == [x |-> 0, y |-> 0, w |-> 64, h |-> 64]

\* What the configuration asks for: the first child is left or above.
RECURSIVE Wanted(_, _)
Wanted(node, r) ==
  IF IsPane(node) THEN {[typed |-> node.command, rect |-> r]}
  ELSE Wanted(node.first, Half(r, node.direction, FALSE))
       \cup Wanted(node.second, Half(r, node.direction, TRUE))

-----------------------------------------------------------------------------
(* tmux. A command either succeeds or ends the invocation it is part of.   *)

Unset == [label |-> NoRun, ancestors |-> <<>>]
NoDoc == [at |-> "none"]

\* read: whether the claude in the pane was given the prompt of its launch.
NewPane(env, rect) ==
  [env |-> env, rect |-> rect, typed |-> "", rm |-> FALSE, doc |-> NoDoc, read |-> FALSE]

SplitPanes(panes, i, direction, env) ==
  InsertAt([panes EXCEPT ![i].rect = Half(@, direction, FALSE)], i + 1,
           NewPane(env, Half(panes[i].rect, direction, TRUE)))

\* tmux: the environment of the session, the panes of the window, and the
\* active one.
Exec(tmux, c) ==
  IF ~tmux.ok THEN tmux
  ELSE IF c.tmux \in {"split-window", "select-pane", "send-keys"} /\ c.t > Len(tmux.panes)
    THEN [tmux EXCEPT !.ok = FALSE]
  ELSE CASE c.tmux = "set-environment" ->
              [tmux EXCEPT !.env = [v \in DOMAIN @ |-> IF v \in c.vars THEN c.env[v] ELSE @[v]]]
         [] c.tmux = "unset-environment" ->
              [tmux EXCEPT !.env = [v \in DOMAIN @ |-> IF v \in c.vars THEN Unset[v] ELSE @[v]]]
         [] c.tmux = "new-window" ->
              [tmux EXCEPT !.panes = <<NewPane(tmux.env, Screen)>>, !.active = 1]
         [] c.tmux = "split-window" ->
              [tmux EXCEPT !.panes = SplitPanes(@, c.t, c.direction, tmux.env),
                           !.active = c.t + 1]
         [] c.tmux = "select-pane" -> [tmux EXCEPT !.active = c.t]
         [] c.tmux = "send-keys" ->
              [tmux EXCEPT !.panes[c.t].typed = c.keys, !.panes[c.t].rm = c.rm]

run_tmux(tmux, commands) == FoldLeft(Exec, [tmux EXCEPT !.ok = TRUE], commands)

-----------------------------------------------------------------------------
(* layout.rs *)

set_environment_commands(env, vars) ==
  <<[tmux |-> "set-environment", env |-> env, vars |-> vars]>>
unset_environment_commands(vars) == <<[tmux |-> "unset-environment", vars |-> vars]>>

RECURSIVE collect_layout_FirstPane(_, _)
collect_layout_FirstPane(node, pane_offset) ==
  IF IsPane(node) THEN <<>>
  ELSE collect_layout_FirstPane(node.first, pane_offset)
       \o <<[tmux |-> "split-window", direction |-> node.direction, t |-> pane_offset]>>
       \o collect_layout_FirstPane(node.second, pane_offset)

\* The first child's root pane is split when the first child is complete.
RECURSIVE collect_layout(_, _)
collect_layout(node, pane_offset) ==
  IF IsPane(node) THEN <<>>
  ELSE collect_layout(node.first, pane_offset)
       \o <<[tmux |-> "split-window", direction |-> node.direction, t |-> pane_offset]>>
       \o collect_layout(node.second, pane_offset + count_panes(node.first))

\* Only the last claude removes the prompt file.
LastClaude(entries) == SelectLastInSeq(entries, LAMBDA e : e.command \in Claude)

apply_prompt_if_claude(entries, i, prompt) == prompt /\ i = LastClaude(entries)

Sends(layout, prompt) ==
  LET entries == PaneEntries(layout)
      To(i) == <<[tmux |-> "select-pane", t |-> i],
                 [tmux |-> "send-keys", t |-> i, keys |-> entries[i].command,
                  rm |-> apply_prompt_if_claude(entries, i, prompt)]>> IN
  FlattenSeq([i \in 1 .. Len(entries) |-> To(i)])

FocusLast(layout) ==
  LET i == SelectLastInSeq(PaneEntries(layout), LAMBDA e : e.focus) IN
  IF i = 0 THEN <<>> ELSE <<[tmux |-> "select-pane", t |-> i]>>

\* The commands up to the one whose output is captured, and the rest.
build_layout_setup(env, vars) ==
  set_environment_commands(env, vars) \o <<[tmux |-> "new-window"]>>
build_layout_rest_KeepsVariables(layout, prompt, vars) ==
  collect_layout(layout, 1) \o Sends(layout, prompt) \o FocusLast(layout)
build_layout_rest(layout, prompt, vars) ==
  collect_layout(layout, 1) \o Sends(layout, prompt) \o FocusLast(layout)
    \o unset_environment_commands(vars)
build_layout_commands(layout, prompt, env, vars) ==
  build_layout_setup(env, vars) \o build_layout_rest(layout, prompt, vars)

\* The new pane of split_pane is its own window here: it has one command.
split_pane_rest(command, prompt, vars) ==
  <<[tmux |-> "send-keys", t |-> 1, keys |-> command, rm |-> prompt]>>
    \o unset_environment_commands(vars)
=============================================================================
