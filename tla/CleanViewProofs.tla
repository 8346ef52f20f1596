--------------------------- MODULE CleanViewProofs ---------------------------
(***************************************************************************)
(* Theorems about CleanView, for any number of worktrees, visits, children *)
(* and keys.                                                               *)
(*                                                                         *)
(* VisitInv is what a visit of the clean view waits for, ShowInv what its  *)
(* frame shows, DeleteInv how the run of a child is heard of to the end.   *)
(***************************************************************************)
EXTENDS CleanView, FunctionTheorems, FiniteSetTheorems, SequenceTheorems, WellFoundedInduction,
        TLAPS

(***************************************************************************)
(* In a visit the pull requests are asked for once, and rows are not moved *)
(* before the answer: so no answer of this visit undoes what was moved.    *)
(***************************************************************************)

\* A record of the clean view, and a sequence, whatever is in them.
Shape(c) == c \in [state: {c.state}, pr: {c.pr}, rows: [Path -> {c.rows[p] : p \in Path}], sel: {c.sel}]
OnPaths(f) == f \in [Path -> {f[p] : p \in Path}]
Queue(s) == s \in Seq({s[i] : i \in DOMAIN s})

Loops == [at: {"wait", "drain"}, fetch: BOOLEAN, spawn: SUBSET Path, reload: BOOLEAN, key: BOOLEAN]
Views == [at: {"Session", "Worktree", "Clean"}, back: {"Session", "Worktree", "Clean"}]

KeysIn(s) == {i \in DOMAIN s : s[i].what = "key"}
AnswersIn(s) == {i \in DOMAIN s : s[i].what = "prs"}

LoopInv ==
  /\ Shape(clean) /\ loop \in Loops /\ view \in Views /\ Queue(events) /\ visits \in Nat
  /\ OnPaths(chosen)
  /\ \A f \in fetches : f.visit \in Nat /\ f.visit <= visits
  /\ \A i \in AnswersIn(events) : events[i].visit \in Nat /\ events[i].visit <= visits
  /\ clean.state = "LoadingPr" => clean.pr = "Loading"

\* The user waits for the effect of a key: an iteration takes one at most.
OneKey ==
  /\ \A i, j \in KeysIn(events) : i = j
  /\ loop.key => KeysIn(events) = {}
  /\ loop.fetch => view.at = "Clean" \/ loop.key

\* A visit asks for the pull requests once, and waits for the answer.
OneAnswer ==
  LET due == {f \in fetches : f.visit = visits}
      come == {i \in AnswersIn(events) : events[i].visit = visits}
  IN ~stale => /\ \A f, g \in due : f = g
               /\ \A i, j \in come : i = j
               /\ due # {} => come = {}
               /\ loop.fetch => due = {} /\ come = {}
               /\ loop.fetch \/ due # {} \/ come # {} => clean.pr = "Loading" /\ clean.state = "Ready"

\* What was moved to Kept is not listed in the other section, and nothing was
\* moved before the answer.
ChosenInv ==
  ~stale => \A p \in Path : chosen[p] = "Kept" =>
              /\ clean.pr # "Loading"
              /\ clean.rows[p] = Nothing \/ clean.rows[p].section # "ToDelete"

VisitInv == LoopInv /\ OneKey /\ OneAnswer /\ ChosenInv

-----------------------------------------------------------------------------
LEMMA QueueOfSome ==
  ASSUME NEW S, NEW s \in Seq(S)
  PROVE  Queue(s)
BY DEF Queue

\* events' is events without its first k events and with others at its end.
Follows(k) ==
  /\ Queue(events')
  /\ \A i \in DOMAIN events' : \/ i + k \in DOMAIN events /\ events'[i] = events[i + k]
                               \/ events'[i].what \notin {"key", "prs"}

LEMMA Added ==
  ASSUME Queue(events), NEW e, events' = Append(events, e)
  PROVE  /\ Queue(events')
         /\ DOMAIN events' = DOMAIN events \cup {Len(events) + 1} /\ Len(events) \in Nat
         /\ events'[Len(events) + 1] = e /\ Len(events) + 1 \notin DOMAIN events
         /\ \A i \in DOMAIN events : events'[i] = events[i]
         /\ e.what \notin {"key", "prs"} => Follows(0)
<1> DEFINE S == {events[i] : i \in DOMAIN events} \cup {e}
<1>1. events \in Seq(S)
  BY DEF Queue
<1>2. events' \in Seq(S)
  BY <1>1
<1>3. /\ Len(events) \in Nat /\ DOMAIN events = 1 .. Len(events)
      /\ DOMAIN events' = 1 .. Len(events) + 1 /\ events'[Len(events) + 1] = e
      /\ \A i \in DOMAIN events : events'[i] = events[i]
  BY <1>1
<1>4. Queue(events')
  BY <1>2, QueueOfSome
<1> QED BY <1>3, <1>4 DEF Follows

LEMMA Taken ==
  ASSUME Queue(events), events # <<>>, NEW tells \in {<<>>, <<[what |-> "sessions"]>>},
         events' = Tail(events) \o tells \/ events' = Tail(events)
  PROVE  Follows(1) /\ 1 \in DOMAIN events /\ Arrived = events[1] /\ 1 \notin {i + 1 : i \in DOMAIN events'}
<1> DEFINE note == [what |-> "sessions"]
           S == {events[i] : i \in DOMAIN events} \cup {note}
<1>1. events \in Seq(S) /\ note \in S
  BY DEF Queue
<1> HIDE DEF S
<1>0. Arrived = events[1]
  BY <1>1 DEF Arrived
<1>2. Tail(events) \in Seq(S) /\ Len(Tail(events)) = Len(events) - 1 /\ Len(events) \in Nat /\ Len(events) >= 1
  BY <1>1
<1>3. \A i \in 1 .. Len(events) - 1 : Tail(events)[i] = events[i + 1]
  BY <1>1
<1>4. tells \in Seq(S)
  <2>1. <<note>> \in Seq(S) BY <1>1
  <2>2. <<>> \in Seq(S) OBVIOUS
  <2>3. tells = <<>> \/ tells = <<note>> OBVIOUS
  <2> HIDE DEF note
  <2> QED BY <2>1, <2>2, <2>3
<1>5. \A i \in DOMAIN tells : tells[i] = note
  OBVIOUS
<1> HIDE DEF note
<1>6. CASE events' = Tail(events)
  <2>1. events' \in Seq(S) BY <1>2, <1>6
  <2>2. Queue(events') BY <2>1, QueueOfSome
  <2>3. DOMAIN events' = 1 .. Len(events) - 1 /\ DOMAIN events = 1 .. Len(events)
    BY <1>1, <1>2, <1>6
  <2> QED BY <1>2, <1>3, <1>6, <2>2, <2>3 DEF Follows, Arrived
<1>7. CASE events' = Tail(events) \o tells
  <2>1. events' \in Seq(S) BY <1>2, <1>4, <1>7
  <2>2. Queue(events') BY <2>1, QueueOfSome
  <2>3. PICK n \in Nat, m \in Nat : n + 1 = Len(events) /\ n = Len(Tail(events)) /\ m = Len(tells)
    <3>1. Len(tells) \in Nat BY <1>4
    <3>2. Len(Tail(events)) \in Nat BY <1>2
    <3>3. Len(Tail(events)) + 1 = Len(events) BY <1>2
    <3> QED BY <3>1, <3>2, <3>3
  <2>4. DOMAIN events' = 1 .. n + m /\ DOMAIN events = 1 .. n + 1 /\ DOMAIN tells = 1 .. m
    <3>2. Len(events') = n + m BY <1>2, <1>4, <1>7, <2>3
    <3>3. DOMAIN events' = 1 .. Len(events') BY <2>1
    <3>4. DOMAIN events = 1 .. Len(events) BY <1>1
    <3>5. DOMAIN tells = 1 .. Len(tells) BY <1>4
    <3> QED BY <2>3, <3>2, <3>3, <3>4, <3>5
  <2>5. \A i \in 1 .. n + m : events'[i] = IF i <= n THEN Tail(events)[i] ELSE tells[i - n]
    BY <1>2, <1>4, <1>7, <2>3
  <2>6. \A i \in 1 .. n + m : \/ i + 1 \in 1 .. n + 1 /\ events'[i] = events[i + 1]
                              \/ events'[i] = note
    <3>1. \A i \in 1 .. n : Tail(events)[i] = events[i + 1] BY <1>2, <1>3, <2>3
    <3>2. \A i \in 1 .. m : tells[i] = note BY <1>5, <2>4
    <3>3. ASSUME NEW i \in 1 .. n + m, i > n PROVE i - n \in 1 .. m BY <2>3, <3>3
    <3>4. ASSUME NEW i \in 1 .. n + m, i <= n PROVE i \in 1 .. n /\ i + 1 \in 1 .. n + 1 BY <2>3, <3>4
    <3> QED BY <2>3, <2>5, <3>1, <3>2, <3>3, <3>4
  <2>7. note.what \notin {"key", "prs"}
    BY DEF note
  <2>8. Follows(1)
    BY <2>2, <2>4, <2>6, <2>7 DEF Follows
  <2>9. 1 \in DOMAIN events /\ 1 \notin {i + 1 : i \in DOMAIN events'}
    BY <2>4
  <2> QED BY <1>0, <2>8, <2>9
<1> QED BY <1>6, <1>7

\* What is known of the queue stays known when only its head is taken and what
\* is neither a key nor an answer is put at its end.
LEMMA QueueKept ==
  ASSUME OneKey, NEW k \in {0, 1}, Follows(k), Queue(events)
  PROVE  /\ Queue(events')
         /\ \A i, j \in KeysIn(events') : i = j
         /\ KeysIn(events) = {} => KeysIn(events') = {}
         /\ \A i \in AnswersIn(events') : i + k \in AnswersIn(events) /\ events'[i] = events[i + k]
         /\ \A i, j \in DOMAIN events' : i + k = j + k => i = j
<1>1. DOMAIN events' \subseteq Nat
  BY DEF Follows, Queue
<1>2. \A i \in KeysIn(events') : i + k \in KeysIn(events)
  BY DEF Follows, KeysIn
<1>3. \A i \in AnswersIn(events') : i + k \in AnswersIn(events) /\ events'[i] = events[i + k]
  BY DEF Follows, AnswersIn
<1>4. \A i, j \in DOMAIN events' : i + k = j + k => i = j
  BY <1>1
<1>5. \A i, j \in KeysIn(events') : i = j
  BY <1>2, <1>4 DEF OneKey, KeysIn
<1> QED BY <1>2, <1>3, <1>4, <1>5 DEF Follows

\* A step that asks for nothing and is no answer.
LEMMA NoAnswer ==
  ASSUME VisitInv, NEW k \in {0, 1}, Follows(k),
         fetches' = fetches, visits' = visits, stale' = stale,
         Shape(clean'), clean'.pr = clean.pr, clean'.state = clean.state,
         loop' \in Loops, loop'.fetch = loop.fetch, view' \in Views,
         loop'.key => KeysIn(events') = {},
         loop'.fetch => view'.at = "Clean" \/ loop'.key,
         OnPaths(chosen'), ChosenInv'
  PROVE  VisitInv'
<1>1. /\ Queue(events')
      /\ \A i, j \in KeysIn(events') : i = j
      /\ \A i \in AnswersIn(events') : i + k \in AnswersIn(events) /\ events'[i] = events[i + k]
      /\ \A i, j \in AnswersIn(events') : i + k = j + k => i = j
  BY QueueKept DEF VisitInv, LoopInv, AnswersIn
<1>2. LoopInv'
  BY <1>1 DEF VisitInv, LoopInv
<1>3. OneKey'
  BY <1>1 DEF OneKey
<1>4. OneAnswer'
  <2> DEFINE come == {i \in AnswersIn(events) : events[i].visit = visits}
             comes == {i \in AnswersIn(events') : events'[i].visit = visits}
  <2>1. \A i \in comes : i + k \in come
    BY <1>1
  <2>2. \A i, j \in comes : i + k = j + k => i = j
    BY <1>1
  <2> QED BY <2>1, <2>2 DEF VisitInv, OneAnswer
<1> QED BY <1>2, <1>3, <1>4 DEF VisitInv

\* The loop goes on after an event.
LEMMA GoesOn ==
  ASSUME VisitInv, NEW effects \in Loops, effects.key = loop.key, Goes(effects), events # <<>>,
         Follows(1), 1 \in DOMAIN events, Arrived = events[1], 1 \notin {i + 1 : i \in DOMAIN events'}
  PROVE  /\ loop' \in Loops /\ loop'.fetch = effects.fetch /\ loop'.spawn = effects.spawn
         /\ loop'.key <=> (loop.key \/ Arrived.what = "key")
         /\ loop'.key => KeysIn(events') = {}
<1>1. /\ loop' \in Loops /\ loop'.fetch = effects.fetch /\ loop'.spawn = effects.spawn
      /\ loop'.key <=> (loop.key \/ Arrived.what = "key")
  BY DEF Goes, Loops
<1>2. ASSUME loop.key PROVE KeysIn(events') = {}
  BY <1>2, QueueKept DEF VisitInv, LoopInv, OneKey
<1>3. ASSUME Arrived.what = "key" PROVE KeysIn(events') = {}
  <2>1. 1 \in KeysIn(events)
    BY <1>3 DEF KeysIn
  <2>2. \A i \in KeysIn(events') : i + 1 \in KeysIn(events)
    BY DEF Follows, KeysIn
  <2> QED BY <2>1, <2>2 DEF VisitInv, OneKey, KeysIn
<1> QED BY <1>1, <1>2, <1>3

\* d is c with another cursor, with another section of q, with other rows.
MovesCursor(c, d) == \E i : d = [c EXCEPT !.sel = i]
MovesRow(c, d, q) == \E s : d = [c EXCEPT !.rows[q].section = s]
MovesRows(c, d, f) == d = [c EXCEPT !.rows = f]

LEMMA CursorMoves ==
  ASSUME NEW c, Shape(c), NEW d, MovesCursor(c, d)
  PROVE  Shape(d) /\ d.rows = c.rows /\ d.pr = c.pr /\ d.state = c.state
BY DEF Shape, MovesCursor

LEMMA CursorMovesOntoFirst ==
  ASSUME NEW c, Shape(c)
  PROVE  /\ Shape(OntoFirst(c)) /\ OntoFirst(c).rows = c.rows
         /\ OntoFirst(c).pr = c.pr /\ OntoFirst(c).state = c.state
BY CursorMoves DEF OntoFirst, MovesCursor

LEMMA RowsChange ==
  ASSUME NEW c, Shape(c), NEW f, OnPaths(f),
         NEW d, MovesRows(c, d, f)
  PROVE  Shape(d) /\ d.rows = f /\ d.pr = c.pr /\ d.state = c.state
BY DEF Shape, OnPaths, MovesRows

LEMMA RowChanges ==
  ASSUME NEW c, Shape(c), NEW q, NEW d, MovesRow(c, d, q)
  PROVE  /\ Shape(d) /\ d.pr = c.pr /\ d.state = c.state
         /\ \A p \in Path : p # q => d.rows[p] = c.rows[p]
<1>0. PICK x : d = [c EXCEPT !.rows[q].section = x]
  BY DEF MovesRow
<1> DEFINE r == [c.rows[q] EXCEPT !.section = x]
           f == [c.rows EXCEPT ![q] = r]
<1>1. OnPaths(f) /\ \A p \in Path : p # q => f[p] = c.rows[p]
  BY DEF Shape, OnPaths
<1>2. MovesRows(c, d, f)
  BY <1>0 DEF MovesRows
<1> HIDE DEF r, f
<1>3. Shape(d) /\ d.rows = f /\ d.pr = c.pr /\ d.state = c.state
  BY <1>1, <1>2, RowsChange
<1> QED BY <1>1, <1>3

\* A key that asks for nothing.
LEMMA KeyStep ==
  ASSUME VisitInv, Takes("key"), view' \in Views,
         NEW effects \in Loops, effects.key = loop.key, effects.fetch = loop.fetch, Goes(effects),
         UNCHANGED <<fetches, visits, stale>>,
         Shape(clean'), clean'.pr = clean.pr, clean'.state = clean.state,
         OnPaths(chosen'), ChosenInv'
  PROVE  VisitInv'
<1>1. /\ events # <<>> /\ Arrived.what = "key" /\ events' = Tail(events)
  BY DEF Takes
<1>2. Queue(events) /\ loop \in Loops
  BY DEF VisitInv, LoopInv
<1>3. Follows(1) /\ 1 \in DOMAIN events /\ Arrived = events[1] /\ 1 \notin {i + 1 : i \in DOMAIN events'}
  BY <1>1, <1>2, Taken
<1>4. loop' \in Loops /\ loop'.fetch = loop.fetch /\ loop'.key /\ KeysIn(events') = {}
  BY <1>1, <1>2, <1>3, GoesOn
<1> QED BY <1>1, <1>3, <1>4, NoAnswer

\* An event that asks for nothing and is neither a key nor an answer.
LEMMA OtherStep ==
  ASSUME VisitInv, events # <<>>, NEW tells \in {<<>>, <<[what |-> "sessions"]>>},
         events' = Tail(events) \o tells \/ events' = Tail(events),
         NEW effects \in Loops, effects.key = loop.key, effects.fetch = loop.fetch, Goes(effects),
         UNCHANGED <<view, fetches, visits, stale, chosen>>,
         Shape(clean'), clean'.pr = clean.pr, clean'.state = clean.state, ChosenInv'
  PROVE  VisitInv'
<1>1. Queue(events) /\ view' \in Views /\ OnPaths(chosen')
  BY DEF VisitInv, LoopInv
<1>2. Follows(1) /\ 1 \in DOMAIN events /\ Arrived = events[1] /\ 1 \notin {i + 1 : i \in DOMAIN events'}
  BY <1>1, Taken
<1>3. /\ loop' \in Loops /\ loop'.fetch = loop.fetch /\ (loop.key => loop'.key)
      /\ loop'.key => KeysIn(events') = {}
  BY <1>2, GoesOn
<1>4. loop'.fetch => view'.at = "Clean" \/ loop'.key
  BY <1>3 DEF VisitInv, OneKey
<1> QED BY <1>1, <1>2, <1>3, <1>4, NoAnswer

LEMMA SeededIsReady ==
  ASSUME NEW c, Shape(c), NEW t, Seeds(c, t)
  PROVE  /\ Shape(Seeded(c, t)) /\ Seeded(c, t).state = "Ready"
         /\ Seeded(c, t).pr \in {"Done", "Loading"}
         /\ AsksForPrs(c, t) => Seeded(c, t).pr = "Loading"
<1> DEFINE rows == build_clean_rows(t.rows, FALSE, {}, list)
           next == IF t.rows = {} THEN "Done" ELSE "Loading"
           d == [c EXCEPT !.state = "Ready", !.pr = next, !.rows = rows]
<1>1. OnPaths(rows)
  BY DEF build_clean_rows, OnPaths
<1>2. Seeded(c, t) = OntoFirst(d)
  BY DEF Seeded
<1> HIDE DEF rows
<1>3. Shape(d) /\ d.state = "Ready" /\ d.pr = next
  BY <1>1 DEF Shape, OnPaths
<1> HIDE DEF d
<1> QED BY <1>2, <1>3, CursorMovesOntoFirst DEF AsksForPrs

LEMMA AnswerReplacesRows ==
  ASSUME NEW c, Shape(c), NEW rows
  PROVE  /\ Shape(apply_pr_results(c, rows))
         /\ apply_pr_results(c, rows).state = "Ready" /\ apply_pr_results(c, rows).pr = "Done"
<1> DEFINE f == [p \in Path |-> IF rows[p] # Nothing THEN rows[p] ELSE c.rows[p]]
           d == [c EXCEPT !.rows = f, !.state = "Ready", !.pr = "Done"]
<1>1. OnPaths(f)
  BY DEF OnPaths
<1>2. /\ apply_pr_results(c, rows) = IF c.state = "Ready" THEN Reanchored(d, EntryAt(clean_entries(c), c.sel))
                                     ELSE OntoFirst(d)
  BY DEF apply_pr_results
<1> HIDE DEF f
<1>3. Shape(d) /\ d.state = "Ready" /\ d.pr = "Done"
  BY <1>1 DEF Shape, OnPaths
<1> HIDE DEF d
<1>4. MovesCursor(d, OntoFirst(d))
  BY DEF MovesCursor, OntoFirst
<1>5. MovesCursor(d, Reanchored(d, EntryAt(clean_entries(c), c.sel)))
  BY <1>4 DEF MovesCursor, Reanchored
<1> QED BY <1>2, <1>3, <1>4, <1>5, CursorMoves

LEMMA AnswerStep ==
  ASSUME VisitInv, PrsFetched
  PROVE  VisitInv'
<1>0. /\ Shape(clean) /\ loop \in Loops /\ view \in Views /\ visits \in Nat /\ Queue(events)
      /\ OnPaths(chosen)
  BY DEF VisitInv, LoopInv
<1>1. /\ events # <<>> /\ Arrived.what = "prs" /\ events' = Tail(events) /\ Goes(loop)
      /\ UNCHANGED <<view, chosen, fetches, visits>>
      /\ stale' = (stale \/ Arrived.visit # visits)
  BY DEF PrsFetched, Takes, backVars, countVars
<1>2. Follows(1) /\ 1 \in DOMAIN events /\ Arrived = events[1] /\ 1 \notin {i + 1 : i \in DOMAIN events'}
  BY <1>0, <1>1, Taken
<1>3. /\ loop' \in Loops /\ loop'.fetch = loop.fetch /\ (loop.key => loop'.key)
      /\ loop'.key => KeysIn(events') = {}
  BY <1>0, <1>1, <1>2, GoesOn
<1>4. /\ Queue(events') /\ \A i, j \in KeysIn(events') : i = j
      /\ \A i \in AnswersIn(events') : i + 1 \in AnswersIn(events) /\ events'[i] = events[i + 1]
  BY <1>0, <1>2, QueueKept DEF VisitInv
<1>5. Shape(clean') /\ clean'.pr # "Loading" /\ clean'.state # "LoadingPr"
  <2>1. CASE Arrived.ok
    BY <1>0, <2>1, AnswerReplacesRows DEF PrsFetched
  <2>2. CASE ~Arrived.ok
    <3>1. clean' = [clean EXCEPT !.pr = "Failed", !.state = IF @ = "Ready" THEN @ ELSE "Failed"]
      BY <2>2 DEF PrsFetched
    <3> QED BY <1>0, <3>1 DEF Shape
  <2> QED BY <2>1, <2>2
<1>6. LoopInv'
  BY <1>0, <1>1, <1>3, <1>4, <1>5 DEF VisitInv, LoopInv
<1>7. OneKey'
  BY <1>1, <1>3, <1>4 DEF VisitInv, OneKey
<1>8. ASSUME ~stale'
      PROVE  /\ \A p \in Path : chosen[p] # "Kept"
             /\ ~loop.fetch /\ \A f \in fetches : f.visit # visits
             /\ \A i \in AnswersIn(events') : events'[i].visit # visits
  <2>1. ~stale /\ 1 \in AnswersIn(events) /\ events[1].visit = visits
    BY <1>1, <1>2, <1>8 DEF AnswersIn
  <2>2. /\ clean.pr = "Loading" /\ ~loop.fetch /\ \A f \in fetches : f.visit # visits
        /\ \A i \in AnswersIn(events) : events[i].visit = visits => i = 1
    BY <2>1 DEF VisitInv, OneAnswer
  <2>3. \A i \in AnswersIn(events') : i + 1 # 1
    BY <1>2 DEF AnswersIn
  <2> QED BY <1>4, <2>1, <2>2, <2>3 DEF VisitInv, ChosenInv
<1>9. OneAnswer' /\ ChosenInv'
  BY <1>1, <1>3, <1>8 DEF OneAnswer, ChosenInv
<1> QED BY <1>6, <1>7, <1>9 DEF VisitInv

LEMMA WorktreesStep ==
  ASSUME VisitInv, set_worktrees
  PROVE  VisitInv'
<1> DEFINE waits == view.at = "Clean" /\ clean.state = "LoadingPr"
           effects == [loop EXCEPT !.fetch = @ \/ (waits /\ AsksForPrs(clean, tree'))]
<1>0. /\ Shape(clean) /\ loop \in Loops /\ view \in Views /\ visits \in Nat /\ Queue(events)
      /\ OnPaths(chosen)
  BY DEF VisitInv, LoopInv
<1>1. /\ events # <<>> /\ Arrived.what = "worktrees" /\ events' = Tail(events) /\ Goes(effects)
      /\ UNCHANGED <<view, chosen, fetches, visits, stale>>
      /\ clean' = IF waits THEN Seeded(clean, tree') ELSE clean
  BY DEF set_worktrees, Takes, backVars, countVars
<1>2. effects \in Loops /\ effects.key = loop.key
      /\ effects.fetch = (loop.fetch \/ (waits /\ AsksForPrs(clean, tree')))
  BY <1>0 DEF Loops
<1> HIDE DEF effects
<1>3. CASE ~waits \/ ~Seeds(clean, tree')
  <2>1. clean' = clean /\ effects.fetch = loop.fetch
    BY <1>0, <1>1, <1>2, <1>3 DEF Seeded, AsksForPrs, Loops
  <2>2. ChosenInv'
    BY <1>1, <2>1 DEF VisitInv, ChosenInv
  <2> QED BY <1>0, <1>1, <1>2, <2>1, <2>2, OtherStep
<1>4. CASE waits /\ Seeds(clean, tree')
  <2>1. Follows(1) /\ 1 \in DOMAIN events /\ Arrived = events[1] /\ 1 \notin {i + 1 : i \in DOMAIN events'}
    BY <1>0, <1>1, Taken
  <2>2. /\ loop' \in Loops /\ loop'.fetch = effects.fetch
        /\ loop'.key => KeysIn(events') = {}
    BY <1>1, <1>2, <2>1, GoesOn
  <2>3. /\ Queue(events') /\ \A i, j \in KeysIn(events') : i = j
        /\ \A i \in AnswersIn(events') : i + 1 \in AnswersIn(events) /\ events'[i] = events[i + 1]
    BY <1>0, <2>1, QueueKept DEF VisitInv
  <2>4. /\ Shape(clean') /\ clean'.state = "Ready"
        /\ AsksForPrs(clean, tree') => clean'.pr = "Loading"
    BY <1>0, <1>1, <1>4, SeededIsReady
  <2>5. LoopInv'
    BY <1>0, <1>1, <2>2, <2>3, <2>4 DEF VisitInv, LoopInv
  <2>6. OneKey'
    BY <1>1, <1>4, <2>2, <2>3 DEF OneKey
  <2>7. ASSUME ~stale
        PROVE  /\ ~loop.fetch /\ \A f \in fetches : f.visit # visits
               /\ \A i \in AnswersIn(events) : events[i].visit # visits
               /\ \A p \in Path : chosen[p] # "Kept"
    <3>1. clean.state = "LoadingPr" /\ clean.pr = "Loading"
      BY <1>4 DEF VisitInv, LoopInv
    <3> QED BY <2>7, <3>1 DEF VisitInv, OneAnswer, ChosenInv
  <2>8. ASSUME ~stale
        PROVE  /\ \A f \in fetches' : f.visit # visits'
               /\ \A i \in AnswersIn(events') : events'[i].visit # visits'
    BY <1>1, <2>3, <2>7, <2>8
  <2>9. ASSUME ~stale, loop'.fetch PROVE clean'.pr = "Loading"
    <3>1. effects.fetch => loop.fetch \/ AsksForPrs(clean, tree')
      BY <1>2
    <3>2. effects.fetch
      BY <2>2, <2>9
    <3> QED BY <2>4, <2>7, <2>9, <3>1, <3>2
  <2>10. OneAnswer'
    BY <1>1, <2>4, <2>7, <2>8, <2>9 DEF OneAnswer
  <2>11. ChosenInv'
    BY <1>1, <2>7 DEF ChosenInv
  <2> QED BY <2>5, <2>6, <2>10, <2>11 DEF VisitInv
<1> QED BY <1>3, <1>4

LEMMA EnterStep ==
  ASSUME VisitInv, enter_clean_view
  PROVE  VisitInv'
<1> DEFINE effects == [loop EXCEPT !.fetch = @ \/ AsksForPrs(Loading, tree)]
<1>0. /\ loop \in Loops /\ view \in Views /\ visits \in Nat /\ Queue(events)
  BY DEF VisitInv, LoopInv
<1>1. /\ events # <<>> /\ Arrived.what = "key" /\ events' = Tail(events) /\ Goes(effects)
      /\ view.at # "Clean" /\ view' = [at |-> "Clean", back |-> view.at]
      /\ clean' = Seeded(Loading, tree) /\ chosen' = NoRows /\ stale' = FALSE
      /\ visits' = visits + 1 /\ fetches' = fetches
  BY DEF enter_clean_view, Pressed, Takes, backVars
<1>2. effects \in Loops /\ effects.key = loop.key
      /\ effects.fetch = (loop.fetch \/ AsksForPrs(Loading, tree))
  BY <1>0 DEF Loops
<1> HIDE DEF effects
<1>3. Follows(1) /\ 1 \in DOMAIN events /\ Arrived = events[1] /\ 1 \notin {i + 1 : i \in DOMAIN events'}
  BY <1>0, <1>1, Taken
<1>4. ~loop.fetch
  BY <1>1, <1>3 DEF VisitInv, OneKey, KeysIn
<1>5. /\ loop' \in Loops /\ (loop'.fetch => AsksForPrs(Loading, tree))
      /\ loop'.key => KeysIn(events') = {}
  <2>1. /\ loop' \in Loops /\ loop'.fetch = effects.fetch
        /\ loop'.key => KeysIn(events') = {}
    BY <1>1, <1>2, <1>3, GoesOn
  <2>2. effects.fetch => AsksForPrs(Loading, tree)
    BY <1>2, <1>4
  <2> QED BY <2>1, <2>2
<1>6. /\ Queue(events') /\ \A i, j \in KeysIn(events') : i = j
      /\ \A i \in AnswersIn(events') : i + 1 \in AnswersIn(events) /\ events'[i] = events[i + 1]
  BY <1>0, <1>3, QueueKept DEF VisitInv
<1>7. Shape(Loading) /\ Loading.state = "LoadingPr" /\ Loading.pr = "Loading"
  BY DEF Loading, NoRows, Shape
<1>8. /\ Shape(clean') /\ (clean'.state = "LoadingPr" => clean'.pr = "Loading")
      /\ AsksForPrs(Loading, tree) => clean'.pr = "Loading" /\ clean'.state = "Ready"
  <2>1. CASE Seeds(Loading, tree)
    BY <1>1, <1>7, <2>1, SeededIsReady
  <2>2. CASE ~Seeds(Loading, tree)
    BY <1>1, <1>7, <2>2 DEF Seeded, AsksForPrs
  <2> QED BY <2>1, <2>2
<1>9. /\ view' \in Views /\ visits' \in Nat /\ OnPaths(chosen') /\ \A p \in Path : chosen'[p] # "Kept"
  BY <1>0, <1>1, CleanViewAssumption DEF Section, Views, NoRows, OnPaths
<1>10. /\ \A f \in fetches' : f.visit \in Nat /\ f.visit <= visits' /\ f.visit # visits'
       /\ \A i \in AnswersIn(events') : /\ events'[i].visit \in Nat /\ events'[i].visit <= visits'
                                         /\ events'[i].visit # visits'
  <2>1. ASSUME NEW n \in Nat, n <= visits PROVE n <= visits' /\ n # visits'
    BY <1>0, <1>1, <2>1
  <2>2. /\ \A f \in fetches : f.visit \in Nat /\ f.visit <= visits
        /\ \A i \in AnswersIn(events) : events[i].visit \in Nat /\ events[i].visit <= visits
    BY DEF VisitInv, LoopInv
  <2>3. \A f \in fetches' : f.visit \in Nat /\ f.visit <= visits' /\ f.visit # visits'
    BY <1>1, <2>1, <2>2
  <2>4. ASSUME NEW i \in AnswersIn(events')
        PROVE  /\ events'[i].visit \in Nat /\ events'[i].visit <= visits'
               /\ events'[i].visit # visits'
    BY <1>6, <2>1, <2>2
  <2> QED BY <2>3, <2>4
<1>11. LoopInv'
  BY <1>5, <1>6, <1>8, <1>9, <1>10 DEF LoopInv
<1>12. OneKey'
  BY <1>1, <1>5, <1>6 DEF OneKey
<1>13. OneAnswer'
  BY <1>5, <1>8, <1>10 DEF OneAnswer
<1>14. ChosenInv'
  BY <1>9 DEF ChosenInv
<1> QED BY <1>11, <1>12, <1>13, <1>14 DEF VisitInv

\* The handlers.
LEMMA HandlesStep ==
  ASSUME VisitInv, Handles
  PROVE  VisitInv'
<1>0. /\ Shape(clean) /\ loop \in Loops /\ view \in Views /\ visits \in Nat /\ Queue(events)
      /\ OnPaths(chosen)
      /\ ChosenInv
  BY DEF VisitInv, LoopInv
<1>1. ASSUME KeyOnly PROVE Goes(loop) /\ UNCHANGED <<fetches, visits, stale>>
  BY <1>1 DEF KeyOnly, backVars, countVars
<1>2. ASSUME KeyOnly, Takes("key"), UNCHANGED chosen, clean'.rows = clean.rows,
             Shape(clean'), clean'.pr = clean.pr, clean'.state = clean.state, view' \in Views
      PROVE  VisitInv'
  <2>1. ChosenInv'
    BY <1>0, <1>1, <1>2 DEF ChosenInv
  <2> QED BY <1>0, <1>1, <1>2, <2>1, KeyStep
<1>3. CASE cycle_view
  <2>1. view' \in Views
    BY <1>0, <1>3 DEF cycle_view, Views
  <2> QED BY <1>0, <1>2, <1>3, <2>1 DEF cycle_view, Pressed
<1>4. CASE exit_clean_view
  <2>1. view' \in Views
    BY <1>0, <1>4 DEF exit_clean_view, Views
  <2> QED BY <1>0, <1>2, <1>4, <2>1 DEF exit_clean_view, Pressed
<1>5. CASE confirm_clean
  <2> DEFINE effects == [loop EXCEPT !.spawn = to_delete_paths(clean)]
  <2>1. view' \in Views
    BY <1>0, <1>5 DEF confirm_clean, Views
  <2>2. effects \in Loops /\ effects.key = loop.key /\ effects.fetch = loop.fetch
    BY <1>0 DEF Loops, to_delete_paths, InSection, RowsOf
  <2>3. Takes("key") /\ Goes(effects) /\ UNCHANGED <<fetches, visits, stale, clean, chosen>>
    BY <1>5 DEF confirm_clean, Pressed, backVars, countVars
  <2> HIDE DEF effects
  <2>4. ChosenInv'
    BY <1>0, <2>3 DEF ChosenInv
  <2> QED BY <1>0, <2>1, <2>2, <2>3, <2>4, KeyStep
<1>6. CASE select_next
  <2>1. /\ Shape(clean') /\ clean'.rows = clean.rows /\ clean'.pr = clean.pr /\ clean'.state = clean.state
    <3>1. clean' = clean \/ MovesCursor(clean, clean')
      BY <1>6 DEF select_next, MovesCursor
    <3> QED BY <1>0, <3>1, CursorMoves
  <2> QED BY <1>0, <1>2, <1>6, <2>1 DEF select_next, Pressed
<1>7. CASE toggle_selected_section
  <2>1. Takes("key") /\ KeyOnly /\ UNCHANGED view
    BY <1>7 DEF toggle_selected_section, Pressed
  <2>2. CASE UNCHANGED <<clean, chosen>>
    BY <1>0, <1>2, <2>1, <2>2
  <2>3. CASE MayToggle(clean) /\ clean' = Toggled(clean)
    <3> DEFINE q == EntryAt(clean_entries(clean), clean.sel).path
    <3>1. chosen' = [chosen EXCEPT ![q] = clean'.rows[q].section]
      BY <1>7, <2>3 DEF toggle_selected_section
    <3>2. PICK d : MovesRow(clean, d, q) /\ MovesCursor(d, clean')
      BY <2>3 DEF Toggled, MovesRow, MovesCursor
    <3>3. clean.pr # "Loading"
      BY <2>3 DEF MayToggle, is_pr_loading
    <3> HIDE DEF q
    <3>5. /\ Shape(d) /\ d.pr = clean.pr /\ d.state = clean.state
          /\ \A p \in Path : p # q => d.rows[p] = clean.rows[p]
      BY <1>0, <3>2, RowChanges
    <3>6. /\ Shape(clean') /\ clean'.pr = clean.pr /\ clean'.state = clean.state
          /\ \A p \in Path : p # q => clean'.rows[p] = clean.rows[p]
      BY <3>2, <3>5, CursorMoves
    <3>7. ASSUME NEW p \in Path, chosen'[p] = "Kept"
          PROVE  \/ p = q /\ clean'.rows[p].section = "Kept"
                 \/ chosen[p] = "Kept" /\ clean'.rows[p] = clean.rows[p]
      <4>1. OnPaths(chosen) /\ chosen' = [chosen EXCEPT ![q] = clean'.rows[q].section]
        BY <1>0, <3>1
      <4>2. CASE p = q BY <3>7, <4>1, <4>2 DEF OnPaths
      <4>3. CASE p # q BY <3>6, <3>7, <4>1, <4>3 DEF OnPaths
      <4> QED BY <4>2, <4>3
    <3>8. ChosenInv' /\ OnPaths(chosen')
      BY <1>0, <2>1, <1>1, <3>1, <3>3, <3>6, <3>7 DEF ChosenInv, OnPaths
    <3> QED BY <1>0, <1>1, <2>1, <3>6, <3>8, KeyStep
  <2> QED BY <1>7, <2>2, <2>3 DEF toggle_selected_section
<1>8. CASE worktree_view_request_delete
  BY <1>0, <1>2, <1>8 DEF worktree_view_request_delete, Pressed
<1>9. CASE worktree_view_cancel_confirm
  BY <1>0, <1>2, <1>9 DEF worktree_view_cancel_confirm, Pressed
<1>10. CASE worktree_view_confirm_delete
  <2>1. PICK gone : events' = Tail(events) \o Tells(gone)
    BY <1>10 DEF worktree_view_confirm_delete
  <2>2. Tells(gone) \in {<<>>, <<[what |-> "sessions"]>>}
    BY DEF Tells
  <2>3. events # <<>> /\ Goes(loop) /\ UNCHANGED <<view, fetches, visits, stale, chosen, clean>>
    BY <1>10 DEF worktree_view_confirm_delete, backVars, countVars
  <2>4. ChosenInv'
    BY <1>0, <2>3 DEF ChosenInv
  <2> QED BY <1>0, <2>1, <2>2, <2>3, <2>4, OtherStep
<1>11. CASE apply_clean_log_events
  <2>1. /\ events # <<>> /\ events' = Tail(events) /\ Goes(loop)
        /\ UNCHANGED <<view, fetches, visits, stale, chosen>>
    BY <1>11 DEF apply_clean_log_events, Takes, backVars, countVars
  <2>2. \/ clean' = clean
        \/ \E gone : clean' = [clean EXCEPT !.rows = [p \in Path |-> IF p \in gone THEN Nothing ELSE clean.rows[p]]]
    BY <1>11 DEF apply_clean_log_events
  <2>3. /\ Shape(clean') /\ clean'.pr = clean.pr /\ clean'.state = clean.state
        /\ \A p \in Path : clean'.rows[p] \in {Nothing, clean.rows[p]}
    <3>1. ASSUME NEW gone,
                 clean' = [clean EXCEPT !.rows = [p \in Path |-> IF p \in gone THEN Nothing ELSE clean.rows[p]]]
          PROVE  /\ Shape(clean') /\ clean'.pr = clean.pr /\ clean'.state = clean.state
                 /\ \A p \in Path : clean'.rows[p] \in {Nothing, clean.rows[p]}
      <4> DEFINE f == [p \in Path |-> IF p \in gone THEN Nothing ELSE clean.rows[p]]
      <4>1. OnPaths(f) /\ \A p \in Path : f[p] \in {Nothing, clean.rows[p]}
        BY DEF OnPaths
      <4> HIDE DEF f
      <4>2. MovesRows(clean, clean', f)
        BY <3>1 DEF f, MovesRows
      <4> QED BY <1>0, <4>1, <4>2, RowsChange
    <3> QED BY <1>0, <2>2, <3>1
  <2>4. ChosenInv'
    BY <1>0, <2>1, <2>3 DEF ChosenInv
  <2> QED BY <1>0, <2>1, <2>3, <2>4, OtherStep
<1>12. CASE SessionsChanged
  <2> DEFINE effects == [loop EXCEPT !.reload = TRUE]
  <2>1. effects \in Loops /\ effects.key = loop.key /\ effects.fetch = loop.fetch
    BY <1>0 DEF Loops
  <2>2. /\ events # <<>> /\ events' = Tail(events) /\ Goes(effects)
        /\ UNCHANGED <<view, fetches, visits, stale, chosen, clean>>
    BY <1>12 DEF SessionsChanged, Takes, viewVars, backVars, countVars
  <2>3. ChosenInv'
    BY <1>0, <2>2 DEF ChosenInv
  <2> HIDE DEF effects
  <2> QED BY <1>0, <2>1, <2>2, <2>3, OtherStep
<1>13. CASE PrsFetched
  BY <1>13, AnswerStep
<1>14. CASE set_worktrees
  BY <1>14, WorktreesStep
<1>15. CASE enter_clean_view
  BY <1>15, EnterStep
<1> QED BY <1>3, <1>4, <1>5, <1>6, <1>7, <1>8, <1>9, <1>10, <1>11, <1>12, <1>13, <1>14, <1>15 DEF Handles

\* What runs beside the loop, and the user.
LEMMA BesideStep ==
  ASSUME VisitInv, Background
  PROVE  VisitInv'
<1>0. /\ Shape(clean) /\ loop \in Loops /\ view \in Views /\ Queue(events) /\ OnPaths(chosen) /\ ChosenInv
      /\ loop.key => KeysIn(events) = {}
      /\ loop.fetch => view.at = "Clean" \/ loop.key
  BY DEF VisitInv, LoopInv, OneKey
<1>1. UNCHANGED <<loop, view, clean, chosen, stale, visits>>
  BY DEF Background, Discovers, fetch_clean_inputs, ChildStarts, ChildRemoves, ChildEnds, TailReads,
         TailGivesUp, Midnight, SessionMoves, PrMerges, Beside, viewVars
<1>2. ASSUME Follows(0), UNCHANGED fetches PROVE VisitInv'
  <2>1. ChosenInv'
    BY <1>0, <1>1 DEF ChosenInv
  <2>2. KeysIn(events) = {} => KeysIn(events') = {}
    BY <1>0, <1>2, QueueKept DEF VisitInv
  <2> QED BY <1>0, <1>1, <1>2, <2>1, <2>2, NoAnswer
<1>3. CASE UNCHANGED <<events, fetches>>
  <2>1. Follows(0)
    BY <1>0, <1>3 DEF Follows, Queue
  <2> QED BY <1>2, <1>3, <2>1
<1>4. CASE UNCHANGED fetches /\ \E e : e.what \notin {"key", "prs"} /\ events' = Append(events, e)
  BY <1>0, <1>2, <1>4, Added
<1>5. ASSUME NEW f \in fetches, fetch_clean_inputs(f) PROVE VisitInv'
  <2>1. PICK e : e.what = "prs" /\ e.visit = f.visit /\ events' = Append(events, e)
    BY <1>5 DEF fetch_clean_inputs, Sends
  <2>2. fetches' = fetches \ {f}
    BY <1>5 DEF fetch_clean_inputs
  <2> DEFINE n == Len(events) + 1
  <2>3. /\ Queue(events') /\ DOMAIN events' = DOMAIN events \cup {n} /\ n \notin DOMAIN events
        /\ events'[n] = e /\ \A i \in DOMAIN events : events'[i] = events[i]
    BY <1>0, <2>1, Added
  <2> HIDE DEF n
  <2>4. KeysIn(events') = KeysIn(events)
    BY <2>1, <2>3 DEF KeysIn
  <2>5. /\ AnswersIn(events') = AnswersIn(events) \cup {n}
        /\ \A i \in AnswersIn(events) : i # n /\ events'[i] = events[i]
    BY <2>1, <2>3 DEF AnswersIn
  <2>6. f.visit \in Nat /\ f.visit <= visits
    BY DEF VisitInv, LoopInv
  <2>7. LoopInv'
    BY <1>0, <1>1, <2>1, <2>2, <2>3, <2>5, <2>6 DEF VisitInv, LoopInv
  <2>8. OneKey'
    BY <1>1, <2>4 DEF VisitInv, OneKey
  <2>9. ASSUME f.visit = visits, ~stale PROVE OneAnswer'
    <3>1. /\ \A g \in fetches : g.visit = visits => g = f
          /\ \A i \in AnswersIn(events) : events[i].visit # visits
          /\ ~loop.fetch /\ clean.pr = "Loading" /\ clean.state = "Ready"
      <4> DEFINE due == {g \in fetches : g.visit = visits}
                 come == {i \in AnswersIn(events) : events[i].visit = visits}
      <4>1. f \in due
        BY <2>9
      <4>2. /\ \A g, h \in due : g = h
            /\ due # {} => come = {}
            /\ loop.fetch => due = {}
            /\ due # {} => clean.pr = "Loading" /\ clean.state = "Ready"
        BY <2>9 DEF VisitInv, OneAnswer
      <4> QED BY <4>1, <4>2
    <3>2. /\ \A g \in fetches' : g.visit # visits'
          /\ \A i \in AnswersIn(events') : events'[i].visit = visits' => i = n
      BY <1>1, <2>2, <2>5, <3>1
    <3> QED BY <1>1, <3>1, <3>2 DEF OneAnswer
  <2>10. ASSUME f.visit # visits \/ stale PROVE OneAnswer'
    <3>1. ASSUME ~stale PROVE e.visit # visits
      BY <2>1, <2>10, <3>1
    <3>2. ASSUME ~stale
          PROVE  {i \in AnswersIn(events') : events'[i].visit = visits'} =
                 {i \in AnswersIn(events) : events[i].visit = visits}
      BY <1>1, <2>3, <2>5, <3>1, <3>2
    <3>3. ASSUME ~stale
          PROVE  {g \in fetches' : g.visit = visits'} = {g \in fetches : g.visit = visits}
      BY <1>1, <2>1, <2>2, <3>1, <3>3
    <3> QED BY <1>1, <3>2, <3>3 DEF VisitInv, OneAnswer
  <2>11. ChosenInv'
    BY <1>0, <1>1 DEF ChosenInv
  <2> QED BY <2>7, <2>8, <2>9, <2>10, <2>11 DEF VisitInv
<1> DEFINE Adds == UNCHANGED fetches /\ \E e : e.what \notin {"key", "prs"} /\ events' = Append(events, e)
<1>6. CASE Discovers
  <2>1. Adds
    <3>1. PICK ok : events' = Append(events, [what |-> "worktrees", ok |-> ok, paths |-> exists])
      BY <1>6 DEF Discovers, Sends
    <3> QED BY <1>6, <3>1 DEF Discovers
  <2> QED BY <1>4, <2>1
<1>7. ASSUME NEW r \in Run, ChildStarts(r) \/ ChildEnds(r) \/ TailGivesUp(r) PROVE VisitInv'
  BY <1>3, <1>7 DEF ChildStarts, ChildEnds, TailGivesUp
<1>8. ASSUME NEW r \in Run, ChildRemoves(r) PROVE VisitInv'
  <2>1. PICK gone : events' = events \o Tells(gone)
    BY <1>8 DEF ChildRemoves
  <2>2. UNCHANGED fetches
    BY <1>8 DEF ChildRemoves
  <2>3. Adds \/ events' = events
    <3>1. events \in Seq({events[i] : i \in DOMAIN events})
      BY <1>0 DEF Queue
    <3>2. CASE Tells(gone) = <<>>
      BY <2>1, <3>1, <3>2
    <3>3. CASE Tells(gone) = <<[what |-> "sessions"]>>
      <4> DEFINE note == [what |-> "sessions"]
      <4>1. note.what \notin {"key", "prs"}
        OBVIOUS
      <4>2. events' = Append(events, note)
        <5> DEFINE S == {events[i] : i \in DOMAIN events} \cup {note}
        <5>1. events \in Seq(S) /\ note \in S
          BY <1>0 DEF Queue
        <5>2. events' = events \o <<note>>
          BY <2>1, <3>3
        <5> HIDE DEF note, S
        <5> QED BY <5>1, <5>2
      <4> QED BY <2>2, <4>1, <4>2
    <3> QED BY <3>2, <3>3 DEF Tells
  <2> QED BY <1>3, <1>4, <2>2, <2>3
<1>9. ASSUME NEW r \in Run, TailReads(r) PROVE VisitInv'
  <2>1. Adds
    <3>1. events' = Append(events, [what |-> "log", run |-> r, lines |-> Unread(r)]) /\ UNCHANGED fetches
      BY <1>9 DEF TailReads, Sends
    <3> QED BY <3>1
  <2> QED BY <1>4, <2>1
<1>10. CASE Midnight
  BY <1>3, <1>10 DEF Midnight
<1>11. ASSUME NEW p \in Path, SessionMoves(p) PROVE VisitInv'
  <2>1. Adds
    <3>1. events' = Append(events, [what |-> "sessions"]) /\ UNCHANGED fetches
      BY <1>11 DEF SessionMoves, Sends, backVars
    <3> QED BY <3>1
  <2> QED BY <1>4, <2>1
<1>12. ASSUME NEW p \in Path, PrMerges(p) PROVE VisitInv'
  BY <1>3, <1>12 DEF PrMerges, backVars
<1> QED BY <1>5, <1>6, <1>7, <1>8, <1>9, <1>10, <1>11, <1>12 DEF Background

LEMMA PressStep ==
  ASSUME VisitInv, NEW k, Press(k)
  PROVE  VisitInv'
<1> DEFINE n == Len(events) + 1
<1>0. Queue(events) /\ ChosenInv
  BY DEF VisitInv, LoopInv
<1>1. /\ UNCHANGED <<loop, view, clean, chosen, stale, visits, fetches>> /\ ~KeyWaits
      /\ events' = Append(events, [what |-> "key", key |-> k])
  BY DEF Press, viewVars, backVars
<1>2. PICK e : e.what = "key" /\ events' = Append(events, e)
  BY <1>1
<1>3. /\ Queue(events') /\ DOMAIN events' = DOMAIN events \cup {n}
      /\ events'[n] = e /\ \A i \in DOMAIN events : events'[i] = events[i]
  BY <1>0, <1>2, Added
<1> HIDE DEF n
<1>4. KeysIn(events') \subseteq {n} /\ ~loop.key
  BY <1>1, <1>3 DEF KeyWaits, KeysIn
<1>5. AnswersIn(events') = AnswersIn(events) /\ \A i \in AnswersIn(events) : events'[i] = events[i]
  BY <1>2, <1>3 DEF AnswersIn
<1>6. LoopInv'
  BY <1>1, <1>3, <1>5 DEF VisitInv, LoopInv
<1>7. OneKey'
  BY <1>1, <1>4 DEF VisitInv, OneKey
<1>8. {i \in AnswersIn(events') : events'[i].visit = visits} = {i \in AnswersIn(events) : events[i].visit = visits}
  BY <1>5
<1>9. OneAnswer'
  BY <1>1, <1>8 DEF VisitInv, OneAnswer
<1>10. ChosenInv'
  BY <1>0, <1>1 DEF ChosenInv
<1> QED BY <1>6, <1>7, <1>9, <1>10 DEF VisitInv

LEMMA EndIterationStep ==
  ASSUME VisitInv, EndIteration
  PROVE  VisitInv'
<1>0. ChosenInv /\ OnPaths(chosen) /\ visits \in Nat /\ Shape(clean) /\ view \in Views
  BY DEF VisitInv, LoopInv
<1>1. /\ events = <<>> /\ loop' = Iteration /\ StartFetch
      /\ UNCHANGED <<events, view, clean, chosen, stale, visits>>
  BY DEF EndIteration, countVars
<1>2. /\ loop' \in Loops /\ ~loop'.fetch /\ ~loop'.key
  BY <1>1 DEF Iteration, Loops
<1>3. KeysIn(events') = {} /\ AnswersIn(events') = {} /\ AnswersIn(events) = {}
  BY <1>1 DEF KeysIn, AnswersIn
<1>4. CASE ~loop.fetch
  <2>1. fetches' = fetches
    BY <1>1, <1>4 DEF StartFetch
  <2>2. LoopInv'
    BY <1>1, <1>2, <1>3, <2>1 DEF VisitInv, LoopInv
  <2>3. OneKey'
    BY <1>2, <1>3 DEF OneKey
  <2>4. OneAnswer'
    BY <1>1, <1>2, <1>3, <2>1 DEF VisitInv, OneAnswer
  <2>5. ChosenInv'
    BY <1>0, <1>1 DEF ChosenInv
  <2> QED BY <2>2, <2>3, <2>4, <2>5 DEF VisitInv
<1>5. CASE loop.fetch
  <2>1. PICK g : g.visit = visits /\ fetches' = fetches \cup {g}
    BY <1>1, <1>5 DEF StartFetch
  <2>2. LoopInv'
    BY <1>0, <1>1, <1>2, <1>3, <2>1 DEF VisitInv, LoopInv
  <2>3. OneKey'
    BY <1>2, <1>3 DEF OneKey
  <2>4. OneAnswer'
    <3>1. ASSUME ~stale
          PROVE  /\ \A f \in fetches : f.visit # visits
                 /\ clean.pr = "Loading" /\ clean.state = "Ready"
      BY <1>5, <3>1 DEF VisitInv, OneAnswer
    <3>2. ASSUME ~stale PROVE {f \in fetches' : f.visit = visits'} = {g}
      BY <1>1, <2>1, <3>1, <3>2
    <3> QED BY <1>1, <1>2, <1>3, <3>1, <3>2 DEF OneAnswer
  <2>5. ChosenInv'
    BY <1>0, <1>1 DEF ChosenInv
  <2> QED BY <2>2, <2>3, <2>4, <2>5 DEF VisitInv
<1> QED BY <1>4, <1>5

\* Hence it always holds: the clean view knows which answer it waits for.
THEOREM VisitInvAlways ==
  CleanSpec => []VisitInv
<1>1. CleanInit => VisitInv
  <2> SUFFICES ASSUME CleanInit PROVE VisitInv
    OBVIOUS
  <2>1. LoopInv
    <3>1. Shape(clean) /\ clean.state = "LoadingPr" /\ clean.pr = "Loading"
      BY DEF CleanInit, Loading, NoRows, Shape
    <3>2. Queue(events) /\ AnswersIn(events) = {}
      BY DEF CleanInit, Queue, AnswersIn
    <3>3. loop \in Loops /\ view \in Views /\ visits \in Nat /\ fetches = {}
      BY DEF CleanInit, Iteration, Loops, Views
    <3>4. OnPaths(chosen)
      BY DEF CleanInit, NoRows, OnPaths
    <3> QED BY <3>1, <3>2, <3>3, <3>4 DEF LoopInv
  <2>2. OneKey
    BY DEF CleanInit, OneKey, KeysIn, Iteration
  <2>3. OneAnswer
    BY DEF CleanInit, OneAnswer, AnswersIn, Iteration
  <2>4. ChosenInv
    BY CleanViewAssumption DEF Section, CleanInit, ChosenInv, NoRows
  <2> QED BY <2>1, <2>2, <2>3, <2>4 DEF VisitInv
<1>2. VisitInv /\ [CleanNext]_cleanVars => VisitInv'
  <2> SUFFICES ASSUME VisitInv, [CleanNext]_cleanVars PROVE VisitInv'
    OBVIOUS
  <2>1. CASE Handles
    BY <2>1, HandlesStep
  <2>2. CASE EndIteration
    BY <2>2, EndIterationStep
  <2>3. CASE Background
    BY <2>3, BesideStep
  <2>4. CASE \E k \in Keys : Press(k)
    BY <2>4, PressStep
  <2>5. CASE UNCHANGED cleanVars
    BY <2>5 DEF cleanVars, viewVars, backVars, countVars, VisitInv, LoopInv, OneKey, OneAnswer, ChosenInv,
                Shape, OnPaths, Queue, KeysIn, AnswersIn
  <2> QED BY <2>1, <2>2, <2>3, <2>4, <2>5 DEF CleanNext, Redraw
<1> QED BY <1>1, <1>2, PTL DEF CleanSpec

\* confirm_clean hands no row to the detached clean that the user has moved to
\* Kept in this visit, whatever answers, deletions and sessions come in between.
THEOREM KeptStaysKept == CleanSpec => KeptIsKept
<1>1. VisitInv /\ [CleanNext]_cleanVars =>
        [confirm_clean /\ ~stale => \A p \in loop'.spawn : chosen[p] # "Kept"]_cleanVars
  <2> SUFFICES ASSUME VisitInv, confirm_clean, ~stale, NEW p \in loop'.spawn
               PROVE  chosen[p] # "Kept"
    OBVIOUS
  <2> DEFINE effects == [loop EXCEPT !.spawn = to_delete_paths(clean)]
  <2>1. loop \in Loops /\ ChosenInv
    BY DEF VisitInv, LoopInv
  <2>2. loop' = [effects EXCEPT !.at = "drain", !.key = @ \/ Arrived.what = "key"]
    BY DEF confirm_clean, Goes
  <2>3. loop'.spawn = to_delete_paths(clean)
    BY <2>1, <2>2 DEF Loops
  <2>4. p \in Path /\ clean.rows[p] # Nothing /\ clean.rows[p].section = "ToDelete"
    BY <2>3 DEF to_delete_paths, InSection, RowsOf
  <2> QED BY <2>1, <2>4 DEF ChosenInv
<1> QED BY <1>1, VisitInvAlways, PTL DEF CleanSpec, KeptIsKept

-----------------------------------------------------------------------------
(***************************************************************************)
(* What the clean view lists. Enter moves the row of the frame, because a  *)
(* row that is listed stays listed until the log removes it, and the cursor*)
(* is put on it wherever an answer has moved it.                           *)
(***************************************************************************)

\* The elements of S stand in the order of their ranks.
LEMMA InOrderIs ==
  ASSUME NEW S, IsFiniteSet(S), NEW rank, \A x \in S : rank[x] \in Nat,
         \A x, y \in S : rank[x] = rank[y] => x = y
  PROVE  LET m == InOrder(S, rank)  n == Cardinality(S) IN
         /\ n \in Nat /\ m \in [1 .. n -> S]
         /\ \A x \in S : \E i \in 1 .. n : m[i] = x
         /\ \A i, j \in 1 .. n : i < j => rank[m[i]] < rank[m[j]]
<1> DEFINE n == Cardinality(S)
           m == InOrder(S, rank)
           B == [x \in S |-> {y \in S : rank[y] < rank[x]}]
           place == [x \in S |-> Cardinality(B[x])]
<1>1. n \in Nat
  BY FS_CardinalityType
<1>0. B \in [S -> SUBSET S] /\ \A x, y \in S : y \in B[x] <=> rank[y] < rank[x]
  OBVIOUS
<1>7. m = [k \in 1 .. n |-> CHOOSE x \in S : Cardinality({y \in S : rank[y] < rank[x]}) = k - 1]
  BY DEF InOrder
<1> HIDE DEF B, n, m
<1>2. ASSUME NEW x \in S
      PROVE  IsFiniteSet(B[x]) /\ Cardinality(B[x]) \in 0 .. n - 1
  <2>1. IsFiniteSet(S \ {x}) /\ Cardinality(S \ {x}) = n - 1
    BY FS_RemoveElement DEF n
  <2>2. B[x] \in SUBSET (S \ {x})
    BY <1>0
  <2>3. IsFiniteSet(B[x]) /\ Cardinality(B[x]) <= n - 1
    BY <2>1, <2>2, FS_Subset
  <2>4. Cardinality(B[x]) \in Nat
    BY <2>3, FS_CardinalityType
  <2> QED BY <1>1, <2>3, <2>4
<1>3. ASSUME NEW x \in S, NEW y \in S, rank[x] < rank[y]
      PROVE  Cardinality(B[x]) < Cardinality(B[y])
  <2>1. x \notin B[x] /\ B[x] \cup {x} \in SUBSET B[y]
    BY <1>0, <1>3
  <2>2. Cardinality(B[x] \cup {x}) = Cardinality(B[x]) + 1
    BY <1>2, <2>1, FS_AddElement
  <2>3. Cardinality(B[x] \cup {x}) <= Cardinality(B[y])
    BY <1>2, <2>1, FS_Subset
  <2> QED BY <1>2, <2>2, <2>3
<1>4. ASSUME NEW x \in S, NEW y \in S, Cardinality(B[x]) <= Cardinality(B[y]), x # y
      PROVE  rank[x] < rank[y]
  <2>1. Cardinality(B[x]) \in Int /\ Cardinality(B[y]) \in Int
    BY <1>2
  <2> QED BY <1>3, <1>4, <2>1
<1>5. place \in Injection(S, 0 .. n - 1)
  <2>1. \A x, y \in S : Cardinality(B[x]) = Cardinality(B[y]) => x = y
    <3>1. ASSUME NEW x \in S, NEW y \in S, Cardinality(B[x]) = Cardinality(B[y]), x # y PROVE FALSE
      <4>1. Cardinality(B[x]) \in Int /\ Cardinality(B[y]) \in Int
        BY <1>2
      <4>2. rank[x] < rank[y] /\ rank[y] < rank[x]
        BY <1>4, <3>1, <4>1
      <4> QED BY <4>2
    <3> QED BY <3>1
  <2>2. place \in [S -> 0 .. n - 1]
    BY <1>2
  <2> QED BY <2>1, <2>2 DEF Injection, IsInjective
<1>6. place \in Surjection(S, 0 .. n - 1)
  <2>1. IsFiniteSet(0 .. n - 1) /\ Cardinality(0 .. n - 1) = n
    BY <1>1, FS_Interval
  <2> QED BY <1>5, <2>1, FS_Injection DEF n
<1>8. ASSUME NEW k \in 1 .. n
      PROVE  m[k] \in S /\ Cardinality(B[m[k]]) = k - 1
  <2>1. k - 1 \in 0 .. n - 1
    BY <1>1
  <2>2. \E x \in S : Cardinality(B[x]) = k - 1
    BY <1>6, <2>1 DEF Surjection
  <2>3. \A x \in S : {y \in S : rank[y] < rank[x]} = B[x]
    BY <1>0
  <2>4. m[k] = CHOOSE x \in S : Cardinality({y \in S : rank[y] < rank[x]}) = k - 1
    BY <1>7
  <2>5. \E x \in S : Cardinality({y \in S : rank[y] < rank[x]}) = k - 1
    BY <2>2, <2>3
  <2>6. m[k] \in S /\ Cardinality({y \in S : rank[y] < rank[m[k]]}) = k - 1
    BY <2>4, <2>5
  <2> QED BY <2>3, <2>6
<1>9. m \in [1 .. n -> S]
  BY <1>7, <1>8
<1>10. ASSUME NEW x \in S PROVE \E i \in 1 .. n : m[i] = x
  <2>1. Cardinality(B[x]) \in 0 .. n - 1
    BY <1>2
  <2> DEFINE i == Cardinality(B[x]) + 1
  <2>2. i \in 1 .. n
    BY <1>1, <2>1
  <2>3. m[i] \in S /\ Cardinality(B[m[i]]) = Cardinality(B[x])
    BY <1>8, <2>1, <2>2
  <2>4. m[i] = x
    BY <1>5, <2>3 DEF Injection, IsInjective
  <2> QED BY <2>2, <2>4
<1>11. ASSUME NEW i \in 1 .. n, NEW j \in 1 .. n, i < j PROVE rank[m[i]] < rank[m[j]]
  <2>1. Cardinality(B[m[i]]) = i - 1 /\ Cardinality(B[m[j]]) = j - 1 /\ m[i] \in S /\ m[j] \in S
    BY <1>8
  <2>2. Cardinality(B[m[i]]) < Cardinality(B[m[j]])
    BY <1>1, <1>11, <2>1
  <2>3. m[i] # m[j]
    BY <1>1, <1>11, <2>1
  <2>4. Cardinality(B[m[i]]) <= Cardinality(B[m[j]])
    BY <1>1, <1>11, <2>1
  <2> QED BY <1>4, <2>1, <2>3, <2>4
<1> QED BY <1>1, <1>9, <1>10, <1>11 DEF n, m

LEMMA LeastOf ==
  ASSUME NEW T \in SUBSET Nat, T # {}
  PROVE  Least(T) \in T
<1>1. PICK x \in T : \A y \in T : <<y, x>> \notin OpToRel(<, Nat)
  <2>1. \E x \in T : \A y \in T : <<y, x>> \notin OpToRel(<, Nat)
    BY NatLessThanWellFounded, WFMin
  <2> QED BY <2>1
<1>2. ASSUME NEW y \in T, y < x PROVE FALSE
  <2>1. <<y, x>> \in Nat \X Nat /\ <<y, x>>[1] < <<y, x>>[2]
    BY <1>2
  <2>2. <<y, x>> \in OpToRel(<, Nat)
    BY <2>1 DEF OpToRel
  <2> QED BY <1>1, <2>2
<1>3. \A y \in T : x <= y
  BY <1>2
<1> QED BY <1>3 DEF Least

\* The list g shows the rows of the worktrees of S, and no others.
Row(p) == [what |-> "row", path |-> p]
Lists(g, S) ==
  /\ g \in Seq([what : {"header", "row", "session"}, path : Path \cup {Nothing}])
  /\ \A p \in S : \E i \in DOMAIN g : g[i] = Row(p)
  /\ \A i \in DOMAIN g : g[i].what = "row" => \E p \in S : g[i] = Row(p)

LEMMA ListsBoth ==
  ASSUME NEW g, NEW S, Lists(g, S), NEW h, NEW T, Lists(h, T)
  PROVE  Lists(g \o h, S \cup T)
<1> DEFINE E == [what : {"header", "row", "session"}, path : Path \cup {Nothing}]
           gh == g \o h
<1>1. g \in Seq(E) /\ h \in Seq(E)
  BY DEF Lists
<1> HIDE DEF E
<1>2. /\ gh \in Seq(E) /\ Len(gh) = Len(g) + Len(h)
      /\ \A i \in 1 .. Len(g) + Len(h) : gh[i] = IF i <= Len(g) THEN g[i] ELSE h[i - Len(g)]
  BY <1>1, ConcatProperties
<1>3. /\ Len(g) \in Nat /\ Len(h) \in Nat /\ DOMAIN g = 1 .. Len(g) /\ DOMAIN h = 1 .. Len(h)
      /\ DOMAIN gh = 1 .. Len(g) + Len(h)
  BY <1>1, <1>2, LenProperties
<1> HIDE DEF gh
<1>4. ASSUME NEW i \in DOMAIN g PROVE i \in DOMAIN gh /\ gh[i] = g[i]
  BY <1>2, <1>3
<1>5. ASSUME NEW i \in DOMAIN h PROVE i + Len(g) \in DOMAIN gh /\ gh[i + Len(g)] = h[i]
  BY <1>2, <1>3
<1>6. ASSUME NEW i \in DOMAIN gh
      PROVE  \/ i \in DOMAIN g /\ gh[i] = g[i]
             \/ i - Len(g) \in DOMAIN h /\ gh[i] = h[i - Len(g)]
  BY <1>2, <1>3
<1>7. \A p \in S \cup T : \E i \in DOMAIN gh : gh[i] = Row(p)
  BY <1>4, <1>5 DEF Lists
<1>8. \A i \in DOMAIN gh : gh[i].what = "row" => \E p \in S \cup T : gh[i] = Row(p)
  BY <1>6 DEF Lists
<1> QED BY <1>2, <1>7, <1>8 DEF Lists, E, gh

LEMMA EntriesAreFinite ==
  ASSUME NEW S \in SUBSET Path, NEW nested
  PROVE  IsFiniteSet(EntriesOf(S, nested))
<1> DEFINE N == S \cap nested
           rows == [what : {"row"}, path : S]
           sessions == [what : {"session"}, path : N]
           f == [p \in S |-> [what |-> "row", path |-> p]]
           g == [p \in N |-> [what |-> "session", path |-> p]]
<1>1. IsFiniteSet(S) /\ IsFiniteSet(N)
  BY CleanViewAssumption, FS_Subset
<1>2. IsFiniteSet(rows)
  <2>1. f \in [S -> rows] /\ \A e \in rows : e.path \in S /\ f[e.path] = e
    OBVIOUS
  <2>2. f \in Surjection(S, rows)
    BY <2>1 DEF Surjection
  <2> QED BY <1>1, <2>2, FS_Surjection
<1>3. IsFiniteSet(sessions)
  <2>1. g \in [N -> sessions] /\ \A e \in sessions : e.path \in N /\ g[e.path] = e
    OBVIOUS
  <2>2. g \in Surjection(N, sessions)
    BY <2>1 DEF Surjection
  <2> QED BY <1>1, <2>2, FS_Surjection
<1> QED BY <1>2, <1>3, FS_Union DEF EntriesOf

LEMMA Halves ==
  ASSUME NEW x \in Nat, NEW y \in Nat, NEW a \in {0, 1}, NEW b \in {0, 1}, 2 * x + a = 2 * y + b
  PROVE  x = y /\ a = b
OBVIOUS

LEMMA GroupedLists ==
  ASSUME NEW S \in SUBSET Path, NEW nested
  PROVE  Lists(Grouped(S, nested), S)
<1> DEFINE E == [what : {"header", "row", "session"}, path : Path \cup {Nothing}]
           entries == EntriesOf(S, nested)
           rank == [e \in entries |-> 2 * Order[e.path] + IF e.what = "row" THEN 0 ELSE 1]
           m == InOrder(entries, rank)
           n == Cardinality(entries)
<1>1. CASE S = {}
  BY <1>1 DEF Grouped, Lists
<1>2. CASE S # {}
  <2>1. /\ entries \subseteq E
        /\ \A e \in entries : e.path \in S /\ e.what \in {"row", "session"} /\ e = [what |-> e.what, path |-> e.path]
        /\ \A p \in S : Row(p) \in entries
    BY DEF EntriesOf, Row
  <2>2. IsFiniteSet(entries)
    BY EntriesAreFinite
  <2> HIDE DEF entries
  <2>3. \A e \in entries : rank[e] \in Nat
    BY <2>1, CleanViewAssumption
  <2>4. ASSUME NEW d \in entries, NEW e \in entries, rank[d] = rank[e] PROVE d = e
    <3> DEFINE x == Order[d.path]
               y == Order[e.path]
               a == IF d.what = "row" THEN 0 ELSE 1
               b == IF e.what = "row" THEN 0 ELSE 1
    <3>1. x \in Nat /\ y \in Nat
      BY <2>1, CleanViewAssumption
    <3>2. /\ rank[d] = 2 * x + a /\ rank[e] = 2 * y + b
          /\ a \in {0, 1} /\ b \in {0, 1}
      OBVIOUS
    <3> HIDE DEF x, y, a, b, rank
    <3>3. x = y /\ a = b
      <4>1. 2 * x + a = 2 * y + b
        BY <2>4, <3>2
      <4> QED BY <3>1, <3>2, <4>1, Halves
    <3>4. d.path = e.path
      BY <2>1, <3>3, CleanViewAssumption DEF x, y
    <3>5. d.what = e.what
      BY <2>1, <3>3 DEF a, b
    <3> QED BY <2>1, <3>4, <3>5
  <2> HIDE DEF rank
  <2>5. n \in Nat /\ m \in [1 .. n -> entries] /\ \A e \in entries : \E i \in 1 .. n : m[i] = e
    BY <2>2, <2>3, <2>4, InOrderIs
  <2> HIDE DEF m, n, E
  <2>6. m \in Seq(E) /\ DOMAIN m = 1 .. n
    <3>1. m \in [1 .. n -> E]
      BY <2>1, <2>5
    <3> QED BY <2>5, <3>1
  <2>7. Lists(m, S)
    <3>1. \A p \in S : \E i \in DOMAIN m : m[i] = Row(p)
      BY <2>1, <2>5, <2>6
    <3>2. \A i \in DOMAIN m : m[i].what = "row" => \E p \in S : m[i] = Row(p)
      BY <2>1, <2>5, <2>6 DEF Row
    <3> QED BY <2>6, <3>1, <3>2 DEF Lists, E
  <2>8. Lists(<<Header>>, {})
    BY DEF Lists, Header
  <2>9. Grouped(S, nested) = <<Header>> \o m
    BY <1>2 DEF Grouped, m, entries, rank
  <2> QED BY <2>7, <2>8, <2>9, ListsBoth
<1> QED BY <1>1, <1>2

\* While it is ready the clean view lists what has a section.
LEMMA CleanLists ==
  ASSUME NEW c, c.state = "Ready"
  PROVE  Lists(clean_entries(c), InSection(c, "ToDelete") \cup InSection(c, "Kept"))
<1> DEFINE nested == {p \in RowsOf(c) : c.rows[p].session # "none"}
           T == InSection(c, "ToDelete")
           K == InSection(c, "Kept")
<1>1. T \in SUBSET Path /\ K \in SUBSET Path
  BY DEF InSection, RowsOf
<1>2. clean_entries(c) = <<Header>> \o Grouped(T, nested) \o <<Header>> \o Grouped(K, nested)
  BY DEF clean_entries
<1> HIDE DEF T, K, nested
<1>3. /\ Lists(Grouped(T, nested), T) /\ Lists(Grouped(K, nested), K)
      /\ Lists(<<Header>>, {})
  <2>1. Lists(<<Header>>, {})
    BY DEF Lists, Header
  <2> QED BY <1>1, <2>1, GroupedLists
<1>4. Lists(<<Header>> \o Grouped(T, nested), {} \cup T)
  BY <1>3, ListsBoth
<1>5. Lists(<<Header>> \o Grouped(T, nested) \o <<Header>>, ({} \cup T) \cup {})
  BY <1>3, <1>4, ListsBoth
<1>6. Lists(<<Header>> \o Grouped(T, nested) \o <<Header>> \o Grouped(K, nested), (({} \cup T) \cup {}) \cup K)
  BY <1>3, <1>5, ListsBoth
<1> QED BY <1>2, <1>6 DEF T, K

Sectioned(c) == \A p \in RowsOf(c) : c.rows[p].section \in Section

\* The entry under the cursor is the row of a worktree, and such a row is found.
LEMMA EntryIs ==
  ASSUME NEW c, NEW i, EntryAt(clean_entries(c), i).what = "row"
  PROVE  /\ c.state = "Ready"
         /\ \E p \in RowsOf(c) : EntryAt(clean_entries(c), i) = Row(p)
<1>1. i \in DOMAIN clean_entries(c) /\ EntryAt(clean_entries(c), i) = clean_entries(c)[i]
  BY DEF EntryAt, Header
<1>2. c.state = "Ready"
  BY <1>1 DEF clean_entries
<1>3. \E p \in InSection(c, "ToDelete") \cup InSection(c, "Kept") : clean_entries(c)[i] = Row(p)
  BY <1>1, <1>2, CleanLists DEF Lists
<1> QED BY <1>1, <1>2, <1>3 DEF InSection

LEMMA RowOfIs ==
  ASSUME NEW c, c.state = "Ready", Sectioned(c), NEW p \in RowsOf(c)
  PROVE  /\ RowOf(clean_entries(c), p) # 0
         /\ EntryAt(clean_entries(c), RowOf(clean_entries(c), p)) = Row(p)
<1> DEFINE g == clean_entries(c)
           rows == {i \in DOMAIN g : g[i] = Row(p)}
<1>1. p \in InSection(c, "ToDelete") \cup InSection(c, "Kept")
  BY DEF Sectioned, Section, InSection
<1>2. rows # {}
  BY <1>1, CleanLists DEF Lists
<1>3. rows \in SUBSET (Nat \ {0})
  <2>1. \E E : g \in Seq(E)
    BY CleanLists DEF Lists
  <2>2. DOMAIN g = 1 .. Len(g) /\ Len(g) \in Nat
    BY <2>1, LenProperties
  <2> QED BY <2>2
<1>4. RowOf(g, p) = Least(rows)
  BY <1>2 DEF RowOf, Row
<1>5. Least(rows) \in rows
  BY <1>2, <1>3, LeastOf
<1> QED BY <1>3, <1>4, <1>5 DEF EntryAt

-----------------------------------------------------------------------------
\* The rows that are listed, and those that an answer brings, have a section.
RowsInv ==
  /\ Sectioned(clean)
  /\ \A i \in AnswersIn(events), p \in Path :
       events[i].rows[p] # Nothing => events[i].rows[p].section \in Section

\* Until the next key, the view is the one of the frame, and the cursor is on
\* the row that the frame shows under it.
FrameInv ==
  ~loop.key =>
    /\ shown.view = view.at
    /\ ~blurred /\ shown.view = "Clean" /\ shown.row.what = "row" => render_clean_list(clean) = shown.row

ShowInv == RowsInv /\ FrameInv

LEMMA BuiltRows ==
  ASSUME NEW S, NEW loaded, NEW prs, NEW sessions, NEW p \in Path,
         build_clean_rows(S, loaded, prs, sessions)[p] # Nothing
  PROVE  build_clean_rows(S, loaded, prs, sessions)[p].section \in Section
BY DEF build_clean_rows, build_clean_row, Section

LEMMA SeededSections ==
  ASSUME NEW c, Shape(c), Sectioned(c), NEW t
  PROVE  Sectioned(Seeded(c, t))
<1>1. CASE Seeds(c, t)
  <2> DEFINE rows == build_clean_rows(t.rows, FALSE, {}, list)
             d == [c EXCEPT !.state = "Ready", !.pr = IF t.rows = {} THEN "Done" ELSE "Loading",
                            !.rows = rows]
  <2>1. OnPaths(rows) /\ \A p \in Path : rows[p] # Nothing => rows[p].section \in Section
    <3>1. OnPaths(rows)
      BY DEF build_clean_rows, OnPaths
    <3>2. ASSUME NEW p \in Path, rows[p] # Nothing PROVE rows[p].section \in Section
      BY <3>2, BuiltRows
    <3> QED BY <3>1, <3>2
  <2>2. Seeded(c, t) = OntoFirst(d)
    BY <1>1 DEF Seeded
  <2> HIDE DEF rows
  <2>3. Shape(d) /\ d.rows = rows
    BY <2>1 DEF Shape, OnPaths
  <2> HIDE DEF d
  <2>4. OntoFirst(d).rows = rows
    BY <2>3, CursorMovesOntoFirst
  <2> QED BY <2>1, <2>2, <2>4 DEF Sectioned, RowsOf
<1>2. CASE ~Seeds(c, t)
  BY <1>2 DEF Seeded
<1> QED BY <1>1, <1>2

\* An answer gives sections to all rows, and leaves the cursor on its row.
LEMMA AnswerShows ==
  ASSUME NEW c, Shape(c), Sectioned(c), NEW rows,
         \A p \in Path : rows[p] # Nothing => rows[p].section \in Section
  PROVE  LET d == apply_pr_results(c, rows) IN
         /\ Sectioned(d)
         /\ render_clean_list(c).what = "row" => render_clean_list(d) = render_clean_list(c)
<1> DEFINE f == [p \in Path |-> IF rows[p] # Nothing THEN rows[p] ELSE c.rows[p]]
           d == [c EXCEPT !.rows = f, !.state = "Ready", !.pr = "Done"]
           at == EntryAt(clean_entries(c), c.sel)
           e == apply_pr_results(c, rows)
<1>1. OnPaths(f) /\ \A p \in Path : f[p] # Nothing => f[p].section \in Section
  BY DEF OnPaths, Sectioned, RowsOf
<1>2. \A p \in RowsOf(c) : f[p] # Nothing
  BY DEF RowsOf
<1>3. e = IF c.state = "Ready" THEN Reanchored(d, at) ELSE OntoFirst(d)
  BY DEF apply_pr_results
<1> HIDE DEF f, at, e
<1>4. Shape(d) /\ d.state = "Ready" /\ d.rows = f
  BY <1>1 DEF Shape, OnPaths
<1> HIDE DEF d
<1>5. Sectioned(d) /\ \A p \in RowsOf(c) : p \in RowsOf(d)
  BY <1>1, <1>2, <1>4 DEF Sectioned, RowsOf
<1>6. MovesCursor(d, e)
  BY <1>3 DEF MovesCursor, OntoFirst, Reanchored
<1>7. e.rows = d.rows /\ e.state = d.state
  BY <1>4, <1>6, CursorMoves
<1>8. Sectioned(e) /\ clean_entries(e) = clean_entries(d)
  BY <1>5, <1>7 DEF Sectioned, RowsOf, InSection, clean_entries
<1>9. ASSUME at.what = "row" PROVE render_clean_list(e) = at
  <2>1. PICK p \in RowsOf(c) : c.state = "Ready" /\ at = Row(p)
    BY <1>9, EntryIs DEF at
  <2> DEFINE i == RowOf(clean_entries(d), p)
  <2>2. i # 0 /\ EntryAt(clean_entries(d), i) = Row(p)
    BY <1>4, <1>5, RowOfIs
  <2>3. at.path = p
    BY <2>1 DEF Row
  <2>4. e = [d EXCEPT !.sel = i]
    BY <1>3, <1>9, <2>1, <2>2, <2>3 DEF Reanchored
  <2> HIDE DEF i
  <2>5. e.sel = i
    BY <1>4, <2>4 DEF Shape
  <2> QED BY <1>8, <2>1, <2>2, <2>5 DEF render_clean_list
<1> QED BY <1>8, <1>9 DEF render_clean_list, at, e

\* After a key the next frame is to come.
LEMMA KeySets ==
  ASSUME VisitInv, events # <<>>, Arrived.what = "key", NEW tells \in {<<>>, <<[what |-> "sessions"]>>},
         events' = Tail(events) \o tells \/ events' = Tail(events),
         NEW effects, effects.key = loop.key, effects \in Loops, Goes(effects), RowsInv
  PROVE  /\ FrameInv'
         /\ Sectioned(clean') => RowsInv'
<1>1. Queue(events)
  BY DEF VisitInv, LoopInv
<1>2. Follows(1) /\ 1 \in DOMAIN events /\ Arrived = events[1] /\ 1 \notin {i + 1 : i \in DOMAIN events'}
  BY <1>1, Taken
<1>3. loop'.key
  BY <1>2, GoesOn
<1>4. \A i \in AnswersIn(events') : i + 1 \in AnswersIn(events) /\ events'[i] = events[i + 1]
  BY <1>1, <1>2, QueueKept DEF VisitInv
<1>5. ASSUME NEW i \in AnswersIn(events'), NEW p \in Path, events'[i].rows[p] # Nothing
      PROVE  events'[i].rows[p].section \in Section
  BY <1>4, <1>5 DEF RowsInv
<1>6. Sectioned(clean') => RowsInv'
  BY <1>5 DEF RowsInv, Sectioned, RowsOf
<1> QED BY <1>3, <1>6 DEF FrameInv

LEMMA ToggledSections ==
  ASSUME Shape(clean), Sectioned(clean), MayToggle(clean)
  PROVE  Sectioned(Toggled(clean))
<1> DEFINE p == EntryAt(clean_entries(clean), clean.sel).path
           s == IF clean.rows[p].section = "Kept" THEN "ToDelete" ELSE "Kept"
           r == [clean.rows[p] EXCEPT !.section = s]
           f == [clean.rows EXCEPT ![p] = r]
           d == [clean EXCEPT !.rows[p].section = IF @ = "Kept" THEN "ToDelete" ELSE "Kept"]
<1>1. p \in RowsOf(clean)
  BY EntryIs DEF MayToggle, Row
<1>2. p \in Path /\ clean.rows[p].section \in Section
  BY <1>1 DEF Sectioned, RowsOf
<1>3. Toggled(clean) = [d EXCEPT !.sel = RowOf(clean_entries(d), p)]
  BY DEF Toggled
<1> HIDE DEF p
<1>4. d = [clean EXCEPT !.rows = f]
  OBVIOUS
<1>5. s \in Section
  BY DEF Section
<1> HIDE DEF s, d
<1>6. OnPaths(f)
  BY <1>2 DEF Shape, OnPaths
<1>7. \A q \in Path : q # p => f[q] = clean.rows[q]
  BY DEF Shape
<1>8. f[p] = r
  BY <1>2 DEF Shape
<1> HIDE DEF f
<1>9. Shape(d) /\ d.rows = f
  BY <1>4, <1>6, RowsChange DEF MovesRows
<1>10. MovesCursor(d, Toggled(clean))
  BY <1>3 DEF MovesCursor
<1>11. Toggled(clean).rows = f
  BY <1>9, <1>10, CursorMoves
<1>12. r.section \in Section
  BY <1>2, <1>5
<1> QED BY <1>7, <1>8, <1>11, <1>12 DEF Sectioned, RowsOf

LEMMA KeyShows ==
  ASSUME VisitInv, ShowInv, Handles, events # <<>>, Arrived.what = "key"
  PROVE  ShowInv'
<1>0. Shape(clean) /\ loop \in Loops /\ Sectioned(clean)
  BY DEF VisitInv, LoopInv, ShowInv, RowsInv
<1>1. ASSUME NEW effects \in Loops, effects.key = loop.key, Goes(effects), events' = Tail(events),
             Sectioned(clean')
      PROVE  ShowInv'
  BY <1>1, KeySets DEF ShowInv
<1>2. ASSUME clean'.rows = clean.rows PROVE Sectioned(clean')
  BY <1>0, <1>2 DEF Sectioned, RowsOf
<1>3. ASSUME KeyOnly, Takes("key"), Sectioned(clean') PROVE ShowInv'
  BY <1>0, <1>1, <1>3 DEF KeyOnly, Takes
<1>4. CASE cycle_view
  BY <1>2, <1>3, <1>4 DEF cycle_view, Pressed
<1>5. CASE exit_clean_view
  BY <1>2, <1>3, <1>5 DEF exit_clean_view, Pressed
<1>6. CASE worktree_view_request_delete
  BY <1>2, <1>3, <1>6 DEF worktree_view_request_delete, Pressed
<1>7. CASE worktree_view_cancel_confirm
  BY <1>2, <1>3, <1>7 DEF worktree_view_cancel_confirm, Pressed
<1>8. CASE select_next
  <2>1. clean' = clean \/ MovesCursor(clean, clean')
    BY <1>8 DEF select_next, MovesCursor
  <2>2. clean'.rows = clean.rows
    BY <1>0, <2>1, CursorMoves
  <2> QED BY <1>2, <1>3, <1>8, <2>2 DEF select_next, Pressed
<1>9. CASE toggle_selected_section
  <2>1. CASE MayToggle(clean)
    <3>1. clean' = Toggled(clean)
      BY <1>9, <2>1 DEF toggle_selected_section
    <3>2. Sectioned(clean')
      BY <1>0, <2>1, <3>1, ToggledSections
    <3> QED BY <1>3, <1>9, <3>2 DEF toggle_selected_section, Pressed
  <2>2. CASE ~MayToggle(clean)
    BY <1>2, <1>3, <1>9, <2>2 DEF toggle_selected_section, Pressed
  <2> QED BY <2>1, <2>2
<1>10. CASE enter_clean_view
  <2> DEFINE effects == [loop EXCEPT !.fetch = @ \/ AsksForPrs(Loading, tree)]
  <2>1. effects \in Loops /\ effects.key = loop.key
    BY <1>0 DEF Loops
  <2>2. Goes(effects) /\ events' = Tail(events) /\ clean' = Seeded(Loading, tree)
    BY <1>10 DEF enter_clean_view, Pressed, Takes
  <2>3. Shape(Loading) /\ Sectioned(Loading)
    BY DEF Loading, NoRows, Shape, Sectioned, RowsOf
  <2>4. Sectioned(clean')
    BY <2>2, <2>3, SeededSections
  <2> HIDE DEF effects
  <2> QED BY <1>1, <2>1, <2>2, <2>4
<1>11. CASE confirm_clean
  <2> DEFINE effects == [loop EXCEPT !.spawn = to_delete_paths(clean)]
  <2>1. effects \in Loops /\ effects.key = loop.key
    BY <1>0 DEF Loops, to_delete_paths, InSection, RowsOf
  <2>2. Goes(effects) /\ events' = Tail(events) /\ clean' = clean
    BY <1>11 DEF confirm_clean, Pressed, Takes
  <2>3. Sectioned(clean')
    BY <1>2, <2>2
  <2> HIDE DEF effects
  <2> QED BY <1>1, <2>1, <2>2, <2>3
<1>12. CASE worktree_view_confirm_delete
  <2>1. PICK gone : events' = Tail(events) \o Tells(gone)
    BY <1>12 DEF worktree_view_confirm_delete
  <2>2. Tells(gone) \in {<<>>, <<[what |-> "sessions"]>>}
    BY DEF Tells
  <2>3. Goes(loop) /\ clean' = clean
    BY <1>12 DEF worktree_view_confirm_delete
  <2>4. Sectioned(clean')
    BY <1>2, <2>3
  <2> QED BY <1>0, <2>1, <2>2, <2>3, <2>4, KeySets DEF ShowInv
<1> QED BY <1>4, <1>5, <1>6, <1>7, <1>8, <1>9, <1>10, <1>11, <1>12 
        DEF Handles, set_worktrees, PrsFetched, apply_clean_log_events, SessionsChanged, Takes

\* Other events leave the frame true, or blur it.
LEMMA EventShows ==
  ASSUME VisitInv, ShowInv, NEW what \in {"worktrees", "prs", "log", "sessions"}, Takes(what),
         NEW effects \in Loops, effects.key = loop.key, Goes(effects),
         UNCHANGED <<view, shown>>, blurred => blurred',
         Sectioned(clean'),
         ~blurred' /\ render_clean_list(clean).what = "row" => render_clean_list(clean') = render_clean_list(clean)
  PROVE  ShowInv'
<1>1. Queue(events) /\ events # <<>> /\ events' = Tail(events) /\ Arrived.what # "key"
  BY DEF VisitInv, LoopInv, Takes
<1>2. Follows(1) /\ 1 \in DOMAIN events /\ Arrived = events[1] /\ 1 \notin {i + 1 : i \in DOMAIN events'}
  BY <1>1, Taken
<1>3. loop'.key <=> loop.key
  BY <1>1, <1>2, GoesOn
<1>4. \A i \in AnswersIn(events') : i + 1 \in AnswersIn(events) /\ events'[i] = events[i + 1]
  BY <1>1, <1>2, QueueKept DEF VisitInv
<1>5. ASSUME NEW i \in AnswersIn(events'), NEW p \in Path, events'[i].rows[p] # Nothing
      PROVE  events'[i].rows[p].section \in Section
  BY <1>4, <1>5 DEF ShowInv, RowsInv
<1>6. RowsInv'
  BY <1>5 DEF RowsInv, Sectioned, RowsOf
<1>7. FrameInv'
  <2>1. render_clean_list(clean)' = render_clean_list(clean')
    BY DEF render_clean_list, EntryAt, clean_entries, InSection, RowsOf
  <2> QED BY <1>3, <2>1 DEF ShowInv, FrameInv
<1> QED BY <1>6, <1>7 DEF ShowInv

\* A child that removes a worktree says at most that a session has changed.
LEMMA AddsNote ==
  ASSUME Queue(events), NEW gone, events' = events \o Tells(gone)
  PROVE  events' = events \/ \E e : e.what = "sessions" /\ events' = Append(events, e)
<1> DEFINE note == [what |-> "sessions"]
           S == {events[i] : i \in DOMAIN events} \cup {note}
<1>1. events \in Seq(S) /\ note \in S
  BY DEF Queue
<1>2. CASE Tells(gone) = <<>>
  BY <1>1, <1>2
<1>3. CASE Tells(gone) = <<note>>
  <2>1. note.what = "sessions"
    OBVIOUS
  <2> HIDE DEF note, S
  <2>2. events' = Append(events, note)
    BY <1>1, <1>3
  <2> QED BY <2>1, <2>2
<1> QED BY <1>2, <1>3 DEF Tells

LEMMA OtherShows ==
  ASSUME VisitInv, ShowInv, set_worktrees \/ PrsFetched \/ apply_clean_log_events \/ SessionsChanged
  PROVE  ShowInv'
<1>0. Shape(clean) /\ loop \in Loops /\ Sectioned(clean) /\ Queue(events)
  BY DEF VisitInv, LoopInv, ShowInv, RowsInv
<1>1. CASE set_worktrees
  <2> DEFINE waits == view.at = "Clean" /\ clean.state = "LoadingPr"
             effects == [loop EXCEPT !.fetch = @ \/ (waits /\ AsksForPrs(clean, tree'))]
  <2>1. effects \in Loops /\ effects.key = loop.key
    BY <1>0 DEF Loops
  <2>2. /\ Takes("worktrees") /\ Goes(effects) /\ UNCHANGED <<view, shown, blurred>>
        /\ clean' = IF waits THEN Seeded(clean, tree') ELSE clean
    BY <1>1 DEF set_worktrees
  <2> HIDE DEF effects
  <2>3. Sectioned(clean')
    BY <1>0, <2>2, SeededSections
  <2>4. ASSUME render_clean_list(clean).what = "row" PROVE clean' = clean
    BY <2>2, <2>4, EntryIs DEF render_clean_list
  <2> QED BY <2>1, <2>2, <2>3, <2>4, EventShows
<1>2. CASE PrsFetched
  <2>1. Takes("prs") /\ Goes(loop) /\ UNCHANGED <<view, shown, blurred>>
    BY <1>2 DEF PrsFetched
  <2>2. CASE Arrived.ok
    <3> DEFINE rows == filter_already_cleaned(Arrived.rows)
    <3>1. clean' = apply_pr_results(clean, rows)
      BY <1>2, <2>2 DEF PrsFetched
    <3>2. 1 \in AnswersIn(events) /\ Arrived = events[1]
      <4>1. events # <<>> /\ events' = Tail(events) /\ Arrived.what = "prs"
        BY <2>1 DEF Takes
      <4> QED BY <1>0, <4>1, Taken DEF AnswersIn
    <3>3. ASSUME NEW p \in Path, rows[p] # Nothing PROVE rows[p].section \in Section
      BY <3>2, <3>3 DEF filter_already_cleaned, ShowInv, RowsInv
    <3> HIDE DEF rows
    <3>4. /\ Sectioned(clean')
          /\ render_clean_list(clean).what = "row" => render_clean_list(clean') = render_clean_list(clean)
      BY <1>0, <3>1, <3>3, AnswerShows
    <3> QED BY <1>0, <2>1, <3>4, EventShows
  <2>3. CASE ~Arrived.ok
    <3>1. clean' = [clean EXCEPT !.pr = "Failed", !.state = IF @ = "Ready" THEN @ ELSE "Failed"]
      BY <1>2, <2>3 DEF PrsFetched
    <3>2. clean'.rows = clean.rows /\ clean'.sel = clean.sel /\ (clean.state = "Ready" => clean'.state = "Ready")
      BY <1>0, <3>1 DEF Shape
    <3>3. Sectioned(clean')
      BY <1>0, <3>2 DEF Sectioned, RowsOf
    <3>4. ASSUME render_clean_list(clean).what = "row" PROVE render_clean_list(clean') = render_clean_list(clean)
      <4>1. clean.state = "Ready"
        BY <3>4, EntryIs DEF render_clean_list
      <4>2. clean_entries(clean') = clean_entries(clean)
        BY <3>2, <4>1 DEF clean_entries, InSection, RowsOf
      <4> QED BY <3>2, <4>2 DEF render_clean_list
    <3> QED BY <1>0, <2>1, <3>3, <3>4, EventShows
  <2> QED BY <2>2, <2>3
<1>3. CASE apply_clean_log_events
  <2>1. Takes("log") /\ Goes(loop) /\ UNCHANGED <<view, shown>>
    BY <1>3 DEF apply_clean_log_events
  <2>2. CASE progress = Nothing
    <3>1. UNCHANGED <<clean, blurred>>
      BY <1>3, <2>2 DEF apply_clean_log_events
    <3>2. Sectioned(clean')
      BY <1>0, <3>1
    <3> QED BY <1>0, <2>1, <3>1, <3>2, EventShows
  <2>3. CASE progress # Nothing
    <3> DEFINE gone == Deleted(progress, Arrived.lines)
               f == [p \in Path |-> IF p \in gone THEN Nothing ELSE clean.rows[p]]
    <3>1. clean' = [clean EXCEPT !.rows = f] /\ blurred' = (blurred \/ gone # {})
      BY <1>3, <2>3 DEF apply_clean_log_events
    <3> HIDE DEF gone
    <3>2. OnPaths(f) /\ \A p \in Path : f[p] # Nothing => f[p] = clean.rows[p]
      BY DEF OnPaths
    <3>3. gone = {} => f = clean.rows
      BY <1>0 DEF Shape
    <3> HIDE DEF f
    <3>4. clean'.rows = f
      BY <1>0, <3>1, <3>2, RowsChange DEF MovesRows
    <3>5. Sectioned(clean')
      BY <1>0, <3>2, <3>4 DEF Sectioned, RowsOf
    <3>6. ~blurred' => clean' = clean
      BY <1>0, <3>1, <3>3 DEF Shape
    <3> QED BY <1>0, <2>1, <3>1, <3>5, <3>6, EventShows
  <2> QED BY <2>2, <2>3
<1>4. CASE SessionsChanged
  <2> DEFINE effects == [loop EXCEPT !.reload = TRUE]
  <2>1. effects \in Loops /\ effects.key = loop.key
    BY <1>0 DEF Loops
  <2>2. Takes("sessions") /\ Goes(effects) /\ UNCHANGED <<view, shown, clean, blurred>>
    BY <1>4 DEF SessionsChanged, viewVars
  <2>3. Sectioned(clean')
    BY <1>0, <2>2
  <2> HIDE DEF effects
  <2> QED BY <2>1, <2>2, <2>3, EventShows
<1> QED BY <1>1, <1>2, <1>3, <1>4

\* What runs beside the loop, the user and the loop at its end.
LEMMA BesideShows ==
  ASSUME VisitInv, ShowInv, Background \/ \E k \in Keys : Press(k)
  PROVE  ShowInv'
<1>0. Queue(events)
  BY DEF VisitInv, LoopInv
<1>1. UNCHANGED <<loop, view, clean, shown, blurred>>
  BY DEF Background, Discovers, fetch_clean_inputs, ChildStarts, ChildRemoves, ChildEnds, TailReads,
         TailGivesUp, Midnight, SessionMoves, PrMerges, Beside, viewVars, Press
<1>2. FrameInv'
  BY <1>1 DEF ShowInv, FrameInv, render_clean_list, EntryAt, clean_entries, InSection, RowsOf
<1>3. ASSUME NEW e, events' = Append(events, e),
             e.what = "prs" => \A p \in Path : e.rows[p] # Nothing => e.rows[p].section \in Section
      PROVE  ShowInv'
  <2> DEFINE n == Len(events) + 1
  <2>1. /\ DOMAIN events' = DOMAIN events \cup {n}
        /\ events'[n] = e /\ \A i \in DOMAIN events : events'[i] = events[i]
    BY <1>0, <1>3, Added
  <2> HIDE DEF n
  <2>2. ASSUME NEW i \in AnswersIn(events'), NEW p \in Path, events'[i].rows[p] # Nothing
        PROVE  events'[i].rows[p].section \in Section
    <3>1. CASE i = n
      BY <1>3, <2>1, <2>2, <3>1 DEF AnswersIn
    <3>2. CASE i # n
      BY <2>1, <2>2, <3>2 DEF AnswersIn, ShowInv, RowsInv
    <3> QED BY <3>1, <3>2
  <2> QED BY <1>1, <1>2, <2>2 DEF ShowInv, RowsInv, Sectioned, RowsOf
<1>4. ASSUME events' = events PROVE ShowInv'
  BY <1>1, <1>2, <1>4 DEF ShowInv, RowsInv, Sectioned, RowsOf
<1>5. ASSUME NEW f \in fetches, fetch_clean_inputs(f) PROVE ShowInv'
  <2> DEFINE rows == build_clean_rows(f.rows, TRUE, merged, f.sessions)
  <2>1. PICK ok : events' = Append(events, [what |-> "prs", visit |-> f.visit, ok |-> ok, rows |-> rows])
    BY <1>5 DEF fetch_clean_inputs, Sends
  <2>2. \A p \in Path : rows[p] # Nothing => rows[p].section \in Section
    BY BuiltRows
  <2> HIDE DEF rows
  <2> QED BY <1>3, <2>1, <2>2
<1>6. CASE Discovers
  <2>1. PICK ok : events' = Append(events, [what |-> "worktrees", ok |-> ok, paths |-> exists])
    BY <1>6 DEF Discovers, Sends
  <2> QED BY <1>3, <2>1
<1>7. ASSUME NEW r \in Run, ChildStarts(r) \/ ChildEnds(r) \/ TailGivesUp(r) PROVE ShowInv'
  BY <1>4, <1>7 DEF ChildStarts, ChildEnds, TailGivesUp
<1>8. ASSUME NEW r \in Run, ChildRemoves(r) PROVE ShowInv'
  <2>1. PICK gone : events' = events \o Tells(gone)
    BY <1>8 DEF ChildRemoves
  <2>2. events' = events \/ \E e : e.what = "sessions" /\ events' = Append(events, e)
    BY <1>0, <2>1, AddsNote
  <2> QED BY <1>3, <1>4, <2>2
<1>9. ASSUME NEW r \in Run, TailReads(r) PROVE ShowInv'
  <2>1. events' = Append(events, [what |-> "log", run |-> r, lines |-> Unread(r)])
    BY <1>9 DEF TailReads, Sends
  <2> QED BY <1>3, <2>1
<1>10. CASE Midnight
  BY <1>4, <1>10 DEF Midnight
<1>11. ASSUME NEW p \in Path, SessionMoves(p) PROVE ShowInv'
  <2>1. events' = Append(events, [what |-> "sessions"])
    BY <1>11 DEF SessionMoves, Sends
  <2> QED BY <1>3, <2>1
<1>12. ASSUME NEW p \in Path, PrMerges(p) PROVE ShowInv'
  BY <1>4, <1>12 DEF PrMerges
<1>13. ASSUME NEW k \in Keys, Press(k) PROVE ShowInv'
  <2>1. events' = Append(events, [what |-> "key", key |-> k])
    BY <1>13 DEF Press
  <2> QED BY <1>3, <2>1
<1> QED BY <1>5, <1>6, <1>7, <1>8, <1>9, <1>10, <1>11, <1>12, <1>13 DEF Background

LEMMA EndIterationShows ==
  ASSUME VisitInv, ShowInv, EndIteration
  PROVE  ShowInv'
<1>1. events = <<>> /\ UNCHANGED <<events, view, clean>> /\ shown' = Frame(view, tree', clean)
  BY DEF EndIteration
<1>2. RowsInv'
  BY <1>1 DEF ShowInv, RowsInv, Sectioned, RowsOf, AnswersIn
<1>3. shown'.view = view.at /\ (view.at = "Clean" => shown'.row = render_clean_list(clean))
  BY <1>1 DEF Frame
<1>4. render_clean_list(clean)' = render_clean_list(clean)
  BY <1>1 DEF render_clean_list, EntryAt, clean_entries, InSection, RowsOf
<1> QED BY <1>1, <1>2, <1>3, <1>4 DEF ShowInv, FrameInv

\* Hence a frame stays true until a key is taken, whatever comes in between.
THEOREM ShowInvAlways ==
  CleanSpec => []ShowInv
<1>1. CleanInit => ShowInv
  BY DEF CleanInit, ShowInv, RowsInv, FrameInv, Sectioned, RowsOf, AnswersIn, Iteration, Loading, NoRows, Header
<1>2. VisitInv /\ ShowInv /\ [CleanNext]_cleanVars => ShowInv'
  <2> SUFFICES ASSUME VisitInv, ShowInv, [CleanNext]_cleanVars PROVE ShowInv'
    OBVIOUS
  <2>1. CASE Handles
    <3>1. events # <<>>
      BY <2>1 DEF Handles, cycle_view, enter_clean_view, exit_clean_view, confirm_clean, select_next,
              toggle_selected_section, worktree_view_request_delete, worktree_view_cancel_confirm,
              worktree_view_confirm_delete, set_worktrees, PrsFetched, apply_clean_log_events,
              SessionsChanged, Pressed, Takes
    <3>2. CASE Arrived.what = "key"
      BY <2>1, <3>1, <3>2, KeyShows
    <3>3. CASE Arrived.what # "key"
      <4>1. set_worktrees \/ PrsFetched \/ apply_clean_log_events \/ SessionsChanged
        BY <2>1, <3>3 DEF Handles, cycle_view, enter_clean_view, exit_clean_view, confirm_clean, select_next,
              toggle_selected_section, worktree_view_request_delete, worktree_view_cancel_confirm,
              worktree_view_confirm_delete, Pressed, Takes
      <4> QED BY <4>1, OtherShows
    <3> QED BY <3>2, <3>3
  <2>2. CASE EndIteration
    BY <2>2, EndIterationShows
  <2>3. CASE Background \/ \E k \in Keys : Press(k)
    BY <2>3, BesideShows
  <2>4. CASE UNCHANGED cleanVars
    BY <2>4 DEF cleanVars, viewVars, backVars, countVars, ShowInv, RowsInv, FrameInv, Sectioned, RowsOf,
                AnswersIn, render_clean_list, EntryAt, clean_entries, InSection
  <2> QED BY <2>1, <2>2, <2>3, <2>4 DEF CleanNext, Redraw
<1> QED BY <1>1, <1>2, VisitInvAlways, PTL DEF CleanSpec

\* Enter moves the row that the last frame showed under the cursor, or none,
\* although answers move rows and cursor in the meantime (clean_view.rs:330).
THEOREM EnterMovesShown == CleanSpec => ToggleActsOnShown
<1>1. VisitInv /\ ShowInv /\ [CleanNext]_cleanVars =>
        [toggle_selected_section /\ shown.view = "Clean" /\ shown.row.what = "row" /\ ~blurred =>
           chosen' \in {chosen, [chosen EXCEPT ![shown.row.path] = chosen'[shown.row.path]]}]_cleanVars
  <2> SUFFICES ASSUME VisitInv, ShowInv, toggle_selected_section,
                      shown.view = "Clean", shown.row.what = "row", ~blurred
               PROVE  chosen' \in {chosen, [chosen EXCEPT ![shown.row.path] = chosen'[shown.row.path]]}
    OBVIOUS
  <2> DEFINE p == EntryAt(clean_entries(clean), clean.sel).path
  <2>1. Queue(events) /\ events # <<>> /\ events' = Tail(events) /\ Arrived.what = "key" /\ OnPaths(chosen)
    BY DEF toggle_selected_section, Pressed, Takes, VisitInv, LoopInv
  <2>2. 1 \in KeysIn(events)
    BY <2>1, Taken DEF KeysIn
  <2>3. ~loop.key
    BY <2>2 DEF VisitInv, OneKey
  <2>4. shown.row.path = p
    BY <2>3 DEF ShowInv, FrameInv, render_clean_list
  <2>5. chosen' = chosen \/ \E s : chosen' = [chosen EXCEPT ![p] = s]
    BY DEF toggle_selected_section
  <2> HIDE DEF p
  <2>6. ASSUME NEW s, chosen' = [chosen EXCEPT ![p] = s]
        PROVE  chosen' \in {chosen, [chosen EXCEPT ![p] = chosen'[p]]}
    BY <2>1, <2>6 DEF OnPaths
  <2> QED BY <2>4, <2>5, <2>6
<1> QED BY <1>1, VisitInvAlways, ShowInvAlways, PTL DEF CleanSpec, ToggleActsOnShown

-----------------------------------------------------------------------------
(***************************************************************************)
(* What a child has deleted leaves the lists, if the user waits for a child*)
(* before coming back (Apart). Only one run is then ever in flight: its    *)
(* tail reads, or what it read is in the channel. CleanProgress is the one *)
(* of that run, and `done` is the last it hears. So a line that says that a*)
(* worktree is gone is either still on its way, or was applied.            *)
(***************************************************************************)

Of(s, what) == {i \in DOMAIN s : s[i].what = what}

Children == [pc : {"none", "start", "remove", "ended"}, todo : Seq(Path), ok : SUBSET Path]
TreeShape(t) == t \in [state : {"Loading", "Loaded", "Failed"}, rows : {t.rows}, nested : {t.nested},
                  sel : {t.sel}, confirm : {t.confirm}]

BackInv ==
  /\ child \in [Run -> Children] /\ tail \in [Run -> [on : BOOLEAN, at : Nat]]
  /\ progress \in Progress \cup {Nothing} /\ TreeShape(tree)
  /\ Queue(log) /\ \A r \in Run : tail[r].at <= Len(log)

\* The last line of a child is its `done`.
LogInv ==
  \A i \in DOMAIN log :
    /\ log[i].run \in Run
    /\ log[i].line.what = "ok" => log[i].line.path \in Path
    /\ log[i].line.what = "done" => /\ child[log[i].run].pc = "ended"
                                    /\ \A j \in DOMAIN log : log[j].run = log[i].run => j <= i

\* So it is in what a tail sends.
Read(lines) ==
  /\ Queue(lines)
  /\ \A n \in DOMAIN lines :
       /\ lines[n].what = "ok" => lines[n].path \in Path
       /\ lines[n].what = "done" => \A m \in DOMAIN lines : m <= n
QueueInv == \A i \in Of(events, "log") : events[i].run \in Run /\ Read(events[i].lines)

InFlight == {r \in Run : tail[r].on \/ \E i \in Of(events, "log") : events[i].run = r}
FlightInv ==
  /\ \A r, q \in InFlight : r = q
  /\ InFlight # {} => progress # Nothing /\ ~progress.done
  /\ \A i \in Of(events, "log") : Has(events[i].lines, "done") =>
       ~tail[events[i].run].on /\ \A j \in Of(events, "log") : j <= i

\* What a child deleted is still to be told, or is not listed.
OkLine(p) == [what |-> "ok", path |-> p]
Waits(r, p) == tail[r].on /\ \E i \in DOMAIN log : i > tail[r].at /\ log[i].run = r /\ log[i].line = OkLine(p)
Sent(r, p) == \E i \in Of(events, "log") :
                events[i].run = r /\ \E n \in DOMAIN events[i].lines : events[i].lines[n] = OkLine(p)
OkInv ==
  /\ \A r \in Run : child[r].pc = "none" => child[r].ok = {}
  /\ ~lost => \A r \in Run :
       /\ child[r].pc \in {"start", "remove"} => tail[r].on
       /\ \A p \in child[r].ok \cap tree.rows : Waits(r, p) \/ Sent(r, p)

TailInv == BackInv /\ LogInv /\ QueueInv /\ FlightInv /\ OkInv

\* A child that was asked for is the only one.
Confirms == \E i \in KeysIn(events) : events[i].key = "y" /\ view.at = "Clean"
AloneInv == loop.spawn # {} \/ Confirms => Alone

\* Nothing is listed and nothing was asked for before the worktrees were found,
\* which happens once.
Unstarted ==
  /\ fetches = {} /\ AnswersIn(events) = {} /\ ~loop.fetch /\ loop.spawn = {}
  /\ clean.state = "LoadingPr" /\ RowsOf(clean) = {} /\ progress = Nothing
  /\ \A r \in Run : child[r].pc = "none"
FoundInv ==
  /\ \A i, j \in Of(events, "worktrees") : i = j
  /\ finder = "runs" => Of(events, "worktrees") = {}
  /\ finder = "runs" \/ Of(events, "worktrees") # {} => tree.state = "Loading"
StartInv == FoundInv /\ (tree.state # "Loaded" => Unstarted)

-----------------------------------------------------------------------------
\* The events of a kind are the same, k places earlier.
Stay(what, k) ==
  /\ \A i \in Of(events', what) : i + k \in Of(events, what) /\ events'[i] = events[i + k]
  /\ \A i \in Of(events, what) : i - k \in Of(events', what) /\ events'[i - k] = events[i]

LEMMA Shifts ==
  ASSUME Queue(events), events # <<>>, NEW tells \in {<<>>, <<[what |-> "sessions"]>>},
         events' = Tail(events) \o tells \/ events' = Tail(events)
  PROVE  /\ \A i \in DOMAIN events' : \/ i + 1 \in DOMAIN events /\ events'[i] = events[i + 1]
                                      \/ events'[i] = [what |-> "sessions"]
         /\ \A i \in DOMAIN events : i # 1 => i - 1 \in DOMAIN events' /\ events'[i - 1] = events[i]
         /\ 1 \in DOMAIN events /\ Arrived = events[1]
         /\ DOMAIN events \subseteq Nat \ {0} /\ DOMAIN events' \subseteq Nat \ {0}
<1> DEFINE note == [what |-> "sessions"]
           S == {events[i] : i \in DOMAIN events} \cup {note}
           t == Tail(events)
           n == Len(t)
<1>1. events \in Seq(S) /\ note \in S
  BY DEF Queue
<1>2. tells \in Seq(S) /\ \A i \in DOMAIN tells : tells[i] = note
  <2>1. /\ <<note>> \in Seq(S) /\ <<>> \in Seq(S)
        /\ \A i \in DOMAIN <<note>> : <<note>>[i] = note
        /\ \A i \in DOMAIN <<>> : <<>>[i] = note
    BY <1>1
  <2>2. tells = <<>> \/ tells = <<note>>
    OBVIOUS
  <2> HIDE DEF note, S
  <2> QED BY <2>1, <2>2, Zenon
<1> HIDE DEF note, S
<1>3. /\ t \in Seq(S) /\ Len(events) = n + 1 /\ n \in Nat /\ \A i \in 1 .. n : t[i] = events[i + 1]
      /\ Arrived = events[1]
  BY <1>1 DEF Arrived
<1> HIDE DEF t, n
<1>4. PICK u \in Seq(S) : events' = t \o u /\ \A i \in DOMAIN u : u[i] = note
  <2>1. CASE events' = t \o tells
    BY <1>2, <2>1
  <2>2. CASE events' = t
    <3>1. <<>> \in Seq(S) /\ t \o <<>> = t /\ DOMAIN <<>> = {}
      BY <1>3, ConcatEmptySeq
    <3> QED BY <2>2, <3>1
  <2> QED BY <2>1, <2>2 DEF t
<1> DEFINE m == Len(u)
<1>5. m \in Nat /\ DOMAIN u = 1 .. m /\ DOMAIN events = 1 .. n + 1 /\ Len(t) = n
  BY <1>1, <1>3, LenProperties DEF n
<1> HIDE DEF m
<1>6. /\ DOMAIN events' = 1 .. n + m
      /\ \A i \in 1 .. n + m : events'[i] = IF i <= n THEN t[i] ELSE u[i - n]
  <2>1. /\ events' \in Seq(S) /\ Len(events') = Len(t) + Len(u)
        /\ \A i \in 1 .. Len(t) + Len(u) : events'[i] = IF i <= Len(t) THEN t[i] ELSE u[i - Len(t)]
    BY <1>3, <1>4, ConcatProperties
  <2>2. DOMAIN events' = 1 .. Len(events')
    BY <2>1, LenProperties
  <2> QED BY <1>5, <2>1, <2>2 DEF m
<1>7. ASSUME NEW i \in DOMAIN events'
      PROVE  \/ i + 1 \in DOMAIN events /\ events'[i] = events[i + 1]
             \/ events'[i] = note
  <2>1. CASE i <= n
    <3>1. i \in 1 .. n /\ i + 1 \in 1 .. n + 1
      BY <1>3, <1>5, <1>6, <1>7, <2>1
    <3>2. events'[i] = t[i]
      BY <1>6, <1>7, <2>1
    <3> QED BY <1>3, <1>5, <3>1, <3>2
  <2>2. CASE i > n
    <3>1. i - n \in 1 .. m /\ events'[i] = u[i - n]
      BY <1>3, <1>5, <1>6, <1>7, <2>2
    <3> QED BY <1>4, <1>5, <3>1
  <2> QED BY <1>3, <1>5, <1>6, <1>7, <2>1, <2>2
<1>8. ASSUME NEW i \in DOMAIN events, i # 1
      PROVE  i - 1 \in DOMAIN events' /\ events'[i - 1] = events[i]
  <2>1. i - 1 \in 1 .. n /\ i - 1 \in 1 .. n + m /\ (i - 1) + 1 = i /\ i - 1 <= n
    BY <1>3, <1>5, <1>8
  <2>2. events'[i - 1] = t[i - 1] /\ t[i - 1] = events[(i - 1) + 1]
    BY <1>3, <1>6, <2>1
  <2> QED BY <1>6, <2>1, <2>2
<1>9. 1 \in DOMAIN events /\ DOMAIN events \subseteq Nat \ {0} /\ DOMAIN events' \subseteq Nat \ {0}
  BY <1>3, <1>5, <1>6
<1> QED BY <1>3, <1>7, <1>8, <1>9 DEF note

LEMMA TakenStay ==
  ASSUME Queue(events), events # <<>>, NEW tells \in {<<>>, <<[what |-> "sessions"]>>},
         events' = Tail(events) \o tells \/ events' = Tail(events),
         NEW what, what # "sessions", Arrived.what # what
  PROVE  Stay(what, 1)
<1>1. [what |-> "sessions"].what # what
  OBVIOUS
<1>2. \A i \in Of(events', what) : i + 1 \in Of(events, what) /\ events'[i] = events[i + 1]
  BY <1>1, Shifts DEF Of
<1>3. \A i \in Of(events, what) : i - 1 \in Of(events', what) /\ events'[i - 1] = events[i]
  BY Shifts DEF Of
<1> QED BY <1>2, <1>3 DEF Stay

LEMMA AddedStay ==
  ASSUME Queue(events), NEW e, events' = Append(events, e), NEW what, e.what # what
  PROVE  Stay(what, 0)
<1>1. /\ DOMAIN events' = DOMAIN events \cup {Len(events) + 1} /\ events'[Len(events) + 1] = e
      /\ \A i \in DOMAIN events : events'[i] = events[i]
  BY Added
<1>2. Of(events', what) = Of(events, what) /\ \A i \in Of(events, what) : events'[i] = events[i]
  BY <1>1 DEF Of
<1>3. \A i \in Of(events, what) : i + 0 = i /\ i - 0 = i
  BY DEF Of, Queue
<1> QED BY <1>2, <1>3 DEF Stay

LEMMA SameStay ==
  ASSUME Queue(events), events' = events, NEW what
  PROVE  Stay(what, 0)
<1>1. \A i \in Of(events, what) : i + 0 = i /\ i - 0 = i
  BY DEF Of, Queue
<1> QED BY <1>1 DEF Stay, Of

\* A step that neither sends lines nor takes any, and lists nothing deleted.
LEMMA Calm ==
  ASSUME TailInv, Queue(events), Queue(events'), NEW k \in {0, 1}, Stay("log", k),
         UNCHANGED <<child, log, tail, lost>>, TreeShape(tree'),
         \A r \in Run : child[r].ok \cap tree'.rows \subseteq tree.rows,
         progress' = progress \/ (progress # Nothing /\ progress.done /\ progress' = Nothing)
  PROVE  TailInv'
<1>1. BackInv'
  BY DEF TailInv, BackInv, TreeShape, Queue
<1>2. LogInv'
  BY DEF TailInv, LogInv
<1>3. QueueInv'
  BY DEF TailInv, QueueInv, Stay
<1>4. \A r \in Run : \A p : Sent(r, p) => Sent(r, p)'
  BY DEF Sent, Stay
<1>5. InFlight' = InFlight
  BY DEF InFlight, Stay
<1>6. FlightInv'
  <2>1. \A r, q \in InFlight' : r = q
    BY <1>5 DEF TailInv, FlightInv
  <2>2. InFlight' # {} => progress' # Nothing /\ ~progress'.done
    BY <1>5 DEF TailInv, FlightInv
  <2>3. ASSUME NEW i \in Of(events', "log"), Has(events'[i].lines, "done")
        PROVE  ~tail[events'[i].run].on /\ \A j \in Of(events', "log") : j <= i
    <3>1. i + k \in Of(events, "log") /\ events'[i] = events[i + k]
      BY DEF Stay
    <3>2. ~tail[events[i + k].run].on /\ \A j \in Of(events, "log") : j <= i + k
      BY <2>3, <3>1 DEF TailInv, FlightInv
    <3>3. ASSUME NEW j \in Of(events', "log") PROVE j <= i
      <4>1. j + k <= i + k
        BY <3>2 DEF Stay
      <4>2. i \in Int /\ j \in Int
        BY DEF Of, Queue
      <4> QED BY <4>1, <4>2
    <3> QED BY <3>1, <3>2, <3>3
  <2> QED BY <2>1, <2>2, <2>3 DEF FlightInv
<1>7. OkInv'
  <2>1. ASSUME ~lost, NEW r \in Run, NEW p \in child[r].ok \cap tree'.rows
        PROVE  (Waits(r, p) \/ Sent(r, p))'
    <3>1. Waits(r, p) \/ Sent(r, p)
      BY <2>1 DEF TailInv, OkInv
    <3> QED BY <1>4, <3>1 DEF Waits
  <2> QED BY <2>1 DEF TailInv, OkInv
<1> QED BY <1>1, <1>2, <1>3, <1>6, <1>7 DEF TailInv

-----------------------------------------------------------------------------
LEMMA EventsAreNumbered ==
  ASSUME Queue(events), NEW what
  PROVE  Of(events, what) \subseteq Nat
BY DEF Of, Queue

\* What a tail sent is applied as a whole, and it was waited for.
LEMMA ApplyStep ==
  ASSUME TailInv, Queue(events), apply_clean_log_events
  PROVE  TailInv'
<1> DEFINE e == events[1]
           gone == Deleted(progress, e.lines)
<1>1. /\ events # <<>> /\ Arrived.what = "log" /\ events' = Tail(events)
      /\ UNCHANGED <<child, log, tail, lost>>
  BY DEF apply_clean_log_events, Takes, backVars
<1>2. /\ \A i \in DOMAIN events' : \/ i + 1 \in DOMAIN events /\ events'[i] = events[i + 1]
                                   \/ events'[i] = [what |-> "sessions"]
      /\ \A i \in DOMAIN events : i # 1 => i - 1 \in DOMAIN events' /\ events'[i - 1] = events[i]
      /\ 1 \in DOMAIN events /\ Arrived = e
      /\ DOMAIN events \subseteq Nat \ {0} /\ DOMAIN events' \subseteq Nat \ {0}
  BY <1>1, Shifts
<1>3. 1 \in Of(events, "log") /\ e.run \in Run /\ Read(e.lines)
  BY <1>1, <1>2 DEF Of, TailInv, QueueInv
<1>4. \A i \in Of(events', "log") : i + 1 \in Of(events, "log") /\ events'[i] = events[i + 1]
  BY <1>2 DEF Of
<1>5. \A i \in Of(events, "log") : i # 1 => i - 1 \in Of(events', "log") /\ events'[i - 1] = events[i]
  BY <1>2 DEF Of
<1>6. e.run \in InFlight /\ progress # Nothing /\ ~progress.done
  BY <1>3 DEF InFlight, TailInv, FlightInv
<1>7. /\ progress' = Applied(progress, e.lines)
      /\ tree' = [tree EXCEPT !.rows = @ \ gone]
  BY <1>2, <1>6 DEF apply_clean_log_events
<1>8. gone = {e.lines[i].path : i \in {j \in DOMAIN e.lines : e.lines[j].what = "ok"}}
  <2>1. DOMAIN e.lines = 1 .. Len(e.lines) /\ Len(e.lines) \in Nat
    BY <1>3, LenProperties DEF Read, Queue
  <2>2. ASSUME NEW i \in DOMAIN e.lines, NEW j \in 1 .. i - 1 PROVE e.lines[j].what # "done"
    <3>1. j \in DOMAIN e.lines /\ ~(i <= j)
      BY <2>1, <2>2
    <3> QED BY <1>3, <3>1 DEF Read
  <2>3. Heard(progress, e.lines) = DOMAIN e.lines
    BY <1>6, <2>2 DEF Heard
  <2> QED BY <2>3 DEF Deleted
<1>9. gone \subseteq Path
  BY <1>3, <1>8 DEF Read
<1> HIDE DEF gone
<1>10. /\ progress' \in Progress
       /\ progress'.done = Has(e.lines, "done")
  <2>1. progress \in Progress
    BY <1>6 DEF TailInv, BackInv
  <2>2. progress' = [progress EXCEPT !.done = @ \/ Has(e.lines, "done"), !.confirmed_deleted = @ \cup gone]
    BY <1>7 DEF Applied, gone
  <2>3. Has(e.lines, "done") \in BOOLEAN
    BY DEF Has
  <2> QED BY <1>6, <1>9, <2>1, <2>2, <2>3 DEF Progress
<1>11. TreeShape(tree') /\ tree'.rows = tree.rows \ gone
  BY <1>7 DEF TailInv, BackInv, TreeShape
<1>12. BackInv'
  BY <1>1, <1>10, <1>11 DEF TailInv, BackInv, TreeShape, Queue
<1>13. LogInv'
  BY <1>1 DEF TailInv, LogInv
<1>14. QueueInv'
  BY <1>4 DEF TailInv, QueueInv
<1>15. InFlight' \subseteq InFlight
  BY <1>1, <1>4 DEF InFlight
<1>16. FlightInv'
  <2>1. \A r, q \in InFlight' : r = q
    BY <1>15 DEF TailInv, FlightInv
  <2>2. ASSUME NEW r \in InFlight' PROVE progress' # Nothing /\ ~progress'.done
    <3>1. progress' # Nothing
      BY <1>10, CleanViewAssumption
    <3>2. ASSUME Has(e.lines, "done") PROVE FALSE
      <4>1. ~tail[e.run].on /\ \A j \in Of(events, "log") : j <= 1
        BY <1>3, <3>2 DEF TailInv, FlightInv
      <4>2. r = e.run
        BY <1>6, <1>15 DEF TailInv, FlightInv
      <4>3. PICK i \in Of(events', "log") : TRUE
        BY <1>1, <4>1, <4>2 DEF InFlight
      <4>4. i + 1 <= 1 /\ i \in Nat \ {0}
        BY <1>2, <1>4, <4>1 DEF Of
      <4> QED BY <4>4
    <3> QED BY <1>10, <3>1, <3>2
  <2>3. ASSUME NEW i \in Of(events', "log"), Has(events'[i].lines, "done")
        PROVE  ~tail'[events'[i].run].on /\ \A j \in Of(events', "log") : j <= i
    <3>1. ~tail[events[i + 1].run].on /\ \A j \in Of(events, "log") : j <= i + 1
      BY <1>4, <2>3 DEF TailInv, FlightInv
    <3>2. \A j \in Of(events', "log") : j + 1 <= i + 1 /\ j \in Nat /\ i \in Nat
      BY <1>2, <1>4, <3>1 DEF Of
    <3>3. \A j \in Of(events', "log") : j <= i
      BY <3>2
    <3> QED BY <1>1, <1>4, <3>1, <3>3
  <2> QED BY <2>1, <2>2, <2>3 DEF FlightInv
<1>17. OkInv'
  <2>1. ASSUME ~lost, NEW r \in Run, NEW p \in child[r].ok \cap tree'.rows
        PROVE  (Waits(r, p) \/ Sent(r, p))'
    <3>1. p \in tree.rows /\ p \notin gone
      BY <1>11, <2>1
    <3>2. CASE Waits(r, p)
      BY <1>1, <3>2 DEF Waits
    <3>3. CASE Sent(r, p)
      <4>1. PICK i \in Of(events, "log") :
              events[i].run = r /\ \E n \in DOMAIN events[i].lines : events[i].lines[n] = OkLine(p)
        BY <3>3 DEF Sent
      <4>2. i # 1
        BY <1>8, <3>1, <4>1 DEF OkLine
      <4> QED BY <1>5, <4>1, <4>2 DEF Sent
    <3> QED BY <2>1, <3>1, <3>2, <3>3 DEF TailInv, OkInv
  <2> QED BY <1>1, <2>1 DEF TailInv, OkInv
<1> QED BY <1>12, <1>13, <1>14, <1>16, <1>17 DEF TailInv

\* The child is started when no other is in flight.
LEMMA SpawnStep ==
  ASSUME TailInv, AloneInv, loop \in Loops, EndIteration
  PROVE  TailInv'
<1>1. events = <<>> /\ events' = events /\ UNCHANGED <<log, lost>>
  BY DEF EndIteration
<1>2. TreeShape(tree') /\ tree'.rows = tree.rows
  <2>1. tree' = tree \/ \E f : tree' = [tree EXCEPT !.nested = f]
    BY DEF EndIteration, Reload, refresh_session_overlay
  <2> QED BY <2>1 DEF TailInv, BackInv, TreeShape
<1>3. Queue(events) /\ Of(events, "log") = {}
  BY <1>1 DEF Queue, Of
<1>4. CASE UNCHANGED <<child, tail, progress>>
  <2>1. Stay("log", 0)
    BY <1>1, <1>3, SameStay
  <2>2. Queue(events')
    BY <1>1, <1>3
  <2> QED BY <1>1, <1>2, <1>3, <1>4, <2>1, <2>2, Calm
<1> DEFINE r == Least(Unused)
           c == [pc |-> "start", todo |-> InOrder(loop.spawn, Order), ok |-> {}]
<1>5. ASSUME loop.spawn # {}, Unused # {}, child' = [child EXCEPT ![r] = c],
             tail' = [tail EXCEPT ![r].on = TRUE], progress' = NewProgress(r)
      PROVE  TailInv'
  <2>1. r \in Run /\ child[r].pc = "none"
    <3>1. Unused \in SUBSET Nat
      BY CleanViewAssumption DEF Unused, Run
    <3>2. r \in Unused
      BY <1>5, <3>1, LeastOf
    <3> QED BY <3>2 DEF Unused
  <2>2. \A q \in Run : ~tail[q].on /\ child[q].pc \in {"none", "ended"}
    BY <1>5 DEF AloneInv, Alone
  <2>3. c \in Children
    <3> DEFINE S == loop.spawn
               m == InOrder(S, Order)
               n == Cardinality(S)
    <3>1. S \in SUBSET Path
      BY DEF Loops
    <3>2. IsFiniteSet(S) /\ \A x \in S : Order[x] \in Nat
      BY <3>1, CleanViewAssumption, FS_Subset
    <3>3. \A x, y \in S : Order[x] = Order[y] => x = y
      BY <3>1, CleanViewAssumption
    <3>4. n \in Nat /\ m \in [1 .. n -> S]
      BY <3>2, <3>3, InOrderIs
    <3> HIDE DEF S, n, m
    <3>5. m \in [1 .. n -> Path]
      BY <3>1, <3>4
    <3>6. m \in Seq(Path)
      BY <3>4, <3>5
    <3> QED BY <3>6 DEF Children, S, m
  <2> HIDE DEF r, c
  <2>4. /\ child' \in [Run -> Children] /\ child'[r] = c
        /\ \A q \in Run : q # r => child'[q] = child[q]
    BY <1>5, <2>1, <2>3 DEF TailInv, BackInv
  <2>5. /\ tail' \in [Run -> [on : BOOLEAN, at : Nat]]
        /\ \A q \in Run : tail'[q].at = tail[q].at /\ (tail'[q].on <=> q = r)
    BY <1>5, <2>1, <2>2 DEF TailInv, BackInv
  <2>6. progress' \in Progress /\ ~progress'.done
    BY <1>5, <2>1 DEF NewProgress, Progress
  <2>7. BackInv'
    BY <1>1, <1>2, <2>4, <2>5, <2>6 DEF TailInv, BackInv, TreeShape, Queue
  <2>8. LogInv'
    <3>1. ASSUME NEW i \in DOMAIN log, log[i].line.what = "done" PROVE child'[log[i].run].pc = "ended"
      BY <2>1, <2>4, <3>1 DEF TailInv, LogInv
    <3> QED BY <1>1, <3>1 DEF TailInv, LogInv
  <2>9. QueueInv'
    BY <1>1, <1>3 DEF QueueInv
  <2>10. \A q \in InFlight' : q = r
    BY <1>1, <1>3, <2>5 DEF InFlight
  <2>11. FlightInv'
    BY <1>1, <1>3, <2>6, <2>10, CleanViewAssumption DEF FlightInv
  <2>12. OkInv'
    <3>1. \A q \in Run : child'[q].pc = "none" => child'[q].ok = {}
      BY <2>4 DEF TailInv, OkInv, c
    <3>2. ASSUME ~lost, NEW q \in Run
          PROVE  /\ child'[q].pc \in {"start", "remove"} => tail'[q].on
                 /\ child'[q].ok \cap tree'.rows = {}
      <4>1. CASE q = r
        BY <2>4, <2>5, <4>1 DEF c
      <4>2. CASE q # r
        <5>1. child'[q] = child[q]
          BY <2>4, <4>2
        <5>2. ASSUME NEW p \in child[q].ok \cap tree.rows PROVE FALSE
          BY <1>3, <2>2, <3>2, <5>2 DEF TailInv, OkInv, Waits, Sent
        <5> QED BY <1>2, <2>2, <5>1, <5>2
      <4> QED BY <4>1, <4>2
    <3> QED BY <1>1, <3>1, <3>2 DEF OkInv
  <2> QED BY <2>7, <2>8, <2>9, <2>11, <2>12 DEF TailInv
<1> QED BY <1>4, <1>5 DEF EndIteration, SpawnClean

\* A child adds a line to the log.
LEMMA ChildStep ==
  ASSUME TailInv, Queue(events), Queue(events'), Stay("log", 0),
         NEW r \in Run, child[r].pc \in {"start", "remove"},
         NEW c \in Children, c.pc \in {"remove", "ended"}, Child(r, c),
         NEW line, Logs(r, line),
         line.what = "ok" => line.path \in Path,
         line.what = "done" => c.pc = "ended",
         \A p \in c.ok : p \in child[r].ok \/ line = OkLine(p),
         UNCHANGED <<tail, lost, tree, progress>>
  PROVE  TailInv'
<1> DEFINE n == Len(log) + 1
           l == [run |-> r, line |-> line]
<1>1. /\ Len(log) \in Nat /\ DOMAIN log = 1 .. Len(log) /\ Queue(log')
      /\ DOMAIN log' = 1 .. n /\ Len(log') = n /\ log'[n] = l
      /\ \A i \in DOMAIN log : i \in DOMAIN log' /\ log'[i] = log[i]
  <2> DEFINE S == {log[i] : i \in DOMAIN log} \cup {l}
  <2>1. log \in Seq(S) /\ l \in S /\ log' = Append(log, l)
    BY DEF TailInv, BackInv, Queue, Logs
  <2> HIDE DEF S, l
  <2>2. log' \in Seq(S)
    BY <2>1
  <2>3. Queue(log')
    BY <2>2, QueueOfSome
  <2>4. /\ Len(log) \in Nat /\ DOMAIN log = 1 .. Len(log)
        /\ DOMAIN log' = 1 .. n /\ Len(log') = n /\ log'[n] = l
        /\ \A i \in DOMAIN log : i \in DOMAIN log' /\ log'[i] = log[i]
    BY <2>1
  <2> QED BY <2>3, <2>4
<1>2. /\ child' \in [Run -> Children] /\ child'[r] = c
      /\ \A q \in Run : q # r => child'[q] = child[q]
  BY DEF TailInv, BackInv, Child
<1>3. \A i \in DOMAIN log' : i \in DOMAIN log \/ i = n
  BY <1>1
<1> HIDE DEF n
<1>4. BackInv'
  <2>1. \A q \in Run : tail[q].at <= n
    BY <1>1 DEF TailInv, BackInv, n
  <2> QED BY <1>1, <1>2, <2>1 DEF TailInv, BackInv, TreeShape, Queue
<1>5. LogInv'
  <2>1. ASSUME NEW i \in DOMAIN log'
        PROVE  /\ log'[i].run \in Run
               /\ log'[i].line.what = "ok" => log'[i].line.path \in Path
               /\ log'[i].line.what = "done" =>
                    /\ child'[log'[i].run].pc = "ended"
                    /\ \A j \in DOMAIN log' : log'[j].run = log'[i].run => j <= i
    <3>1. CASE i = n
      BY <1>1, <1>2, <3>1 DEF n
    <3>2. CASE i \in DOMAIN log
      <4>1. log'[i] = log[i] /\ log[i].run \in Run /\ (log[i].line.what = "ok" => log[i].line.path \in Path)
        BY <1>1, <3>2 DEF TailInv, LogInv
      <4>2. ASSUME log[i].line.what = "done"
            PROVE  /\ child'[log[i].run].pc = "ended"
                   /\ \A j \in DOMAIN log' : log'[j].run = log[i].run => j <= i
        <5>1. child[log[i].run].pc = "ended" /\ log[i].run # r
          BY <3>2, <4>2 DEF TailInv, LogInv
        <5>2. \A j \in DOMAIN log' : log'[j].run = log[i].run => j \in DOMAIN log /\ log[j].run = log[i].run
          BY <1>1, <1>3, <5>1
        <5> QED BY <1>2, <3>2, <4>1, <4>2, <5>1, <5>2 DEF TailInv, LogInv
      <4> QED BY <4>1, <4>2
    <3> QED BY <1>3, <3>1, <3>2
  <2> QED BY <2>1 DEF LogInv
<1>6. QueueInv'
  BY DEF TailInv, QueueInv, Stay
<1>7. FlightInv'
  <2>1. InFlight' = InFlight
    BY DEF InFlight, Stay
  <2>2. Of(events', "log") = Of(events, "log") /\ \A i \in Of(events, "log") : events'[i] = events[i]
    <3>1. ASSUME NEW i \in Of(events, "log") PROVE i \in Of(events', "log") /\ events'[i] = events[i]
      <4>1. i - 0 = i
        BY EventsAreNumbered
      <4> QED BY <4>1 DEF Stay
    <3>2. ASSUME NEW i \in Of(events', "log") PROVE i \in Of(events, "log")
      <4>1. i + 0 = i
        BY DEF Of, Queue
      <4> QED BY <4>1 DEF Stay
    <3> QED BY <3>1, <3>2
  <2> QED BY <2>1, <2>2 DEF TailInv, FlightInv
<1>8. OkInv'
  <2>1. \A q \in Run : child'[q].pc = "none" => child'[q].ok = {}
    BY <1>2 DEF TailInv, OkInv
  <2>2. ASSUME ~lost, NEW q \in Run
        PROVE  /\ child'[q].pc \in {"start", "remove"} => tail[q].on
               /\ \A p \in child'[q].ok \cap tree.rows : (Waits(q, p) \/ Sent(q, p))'
    <3>1. child'[q].pc \in {"start", "remove"} => tail[q].on
      BY <1>2, <2>2 DEF TailInv, OkInv
    <3>2. ASSUME NEW p \in child[q].ok \cap tree.rows PROVE (Waits(q, p) \/ Sent(q, p))'
      <4>1. Waits(q, p) \/ Sent(q, p)
        BY <2>2, <3>2 DEF TailInv, OkInv
      <4>2. Sent(q, p) => Sent(q, p)'
        BY DEF Sent, Stay
      <4>3. Waits(q, p) => Waits(q, p)'
        BY <1>1 DEF Waits
      <4> QED BY <4>1, <4>2, <4>3
    <3>3. ASSUME q = r, NEW p \in c.ok, line = OkLine(p) PROVE Waits(r, p)'
      <4>1. tail[r].on /\ n > tail[r].at
        BY <1>1, <2>2 DEF TailInv, OkInv, BackInv, n
      <4>2. n \in DOMAIN log' /\ log'[n].run = r /\ log'[n].line = OkLine(p)
        BY <1>1, <3>3 DEF n
      <4> QED BY <4>1, <4>2 DEF Waits
    <3>4. \A p \in child'[q].ok \cap tree.rows : p \in child[q].ok \/ (q = r /\ p \in c.ok /\ line = OkLine(p))
      BY <1>2
    <3> QED BY <3>1, <3>2, <3>3, <3>4
  <2> QED BY <2>1, <2>2 DEF OkInv
<1> QED BY <1>4, <1>5, <1>6, <1>7, <1>8 DEF TailInv

\* A poll reads the lines of its run that it has not read, in their order.
LEMMA UnreadIs ==
  ASSUME BackInv, LogInv, NEW r \in Run
  PROVE  /\ Read(Unread(r))
         /\ Has(Unread(r), "done") => child[r].pc = "ended"
         /\ \A i \in DOMAIN log : i > tail[r].at /\ log[i].run = r =>
              \E n \in DOMAIN Unread(r) : Unread(r)[n] = log[i].line
<1> DEFINE at == tail[r].at
           own == {i \in at + 1 .. Len(log) : log[i].run = r}
           rank == [i \in own |-> i]
           m == InOrder(own, rank)
           k == Cardinality(own)
           u == Unread(r)
<1>1. /\ at \in Nat /\ Len(log) \in Nat /\ DOMAIN log = 1 .. Len(log)
  BY LenProperties DEF BackInv, Queue
<1>2. u = [n \in DOMAIN m |-> log[m[n]].line]
  BY DEF Unread
<1> HIDE DEF at, u
<1>3. own \subseteq DOMAIN log /\ own \subseteq Nat /\ IsFiniteSet(own)
  <2>1. own \in SUBSET (1 .. Len(log))
    BY <1>1
  <2>2. IsFiniteSet(1 .. Len(log))
    BY <1>1, FS_Interval
  <2> QED BY <1>1, <2>1, <2>2, FS_Subset
<1>4. /\ \A i \in DOMAIN log : i > at /\ log[i].run = r => i \in own
      /\ \A i \in own : log[i].run = r
  BY <1>1
<1> HIDE DEF own
<1>5. \A x \in own : rank[x] = x
  OBVIOUS
<1> HIDE DEF rank
<1>6. /\ k \in Nat /\ m \in [1 .. k -> own]
      /\ \A x \in own : \E i \in 1 .. k : m[i] = x
      /\ \A i, j \in 1 .. k : i < j => rank[m[i]] < rank[m[j]]
  BY <1>3, <1>5, InOrderIs
<1> HIDE DEF k, m
<1>7. DOMAIN u = 1 .. k /\ \A n \in 1 .. k : m[n] \in own /\ u[n] = log[m[n]].line
  BY <1>2, <1>6
<1>8. Queue(u)
  BY <1>2, <1>6, <1>7 DEF Queue
<1>9. \A n \in DOMAIN u : u[n].what = "ok" => u[n].path \in Path
  BY <1>3, <1>7 DEF LogInv
<1>10. ASSUME NEW n \in DOMAIN u, u[n].what = "done"
       PROVE  child[r].pc = "ended" /\ \A j \in DOMAIN u : j <= n
  <2>1. /\ m[n] \in DOMAIN log /\ log[m[n]].run = r /\ log[m[n]].line.what = "done"
    BY <1>3, <1>4, <1>7, <1>10
  <2>2. child[r].pc = "ended" /\ \A i \in own : i <= m[n]
    BY <1>3, <1>4, <2>1 DEF LogInv
  <2>3. ASSUME NEW j \in DOMAIN u, ~(j <= n) PROVE FALSE
    <3>1. n \in 1 .. k /\ j \in 1 .. k /\ n < j
      BY <1>6, <1>7, <1>10, <2>3
    <3>2. m[n] < m[j] /\ m[j] <= m[n] /\ m[n] \in Nat /\ m[j] \in Nat
      BY <1>3, <1>5, <1>6, <1>7, <2>2, <3>1
    <3> QED BY <3>2
  <2> QED BY <2>2, <2>3
<1>11. ASSUME NEW i \in DOMAIN log, i > at, log[i].run = r PROVE \E n \in DOMAIN u : u[n] = log[i].line
  BY <1>4, <1>6, <1>7, <1>11
<1>12. Read(u)
  BY <1>8, <1>9, <1>10 DEF Read
<1> QED BY <1>10, <1>11, <1>12 DEF Has, u, at

LEMMA TailReadsStep ==
  ASSUME TailInv, Queue(events), NEW r \in Run, TailReads(r)
  PROVE  TailInv'
<1> DEFINE u == Unread(r)
           e == [what |-> "log", run |-> r, lines |-> u]
           n == Len(events) + 1
           t == [on |-> ~Has(u, "done"), at |-> Len(log)]
<1>1. /\ tail[r].on /\ events' = Append(events, e) /\ tail' = [tail EXCEPT ![r] = t]
      /\ UNCHANGED <<child, log, lost, progress, tree>>
  BY DEF TailReads, Sends, Beside, viewVars
<1>2. /\ Read(u) /\ (Has(u, "done") => child[r].pc = "ended")
      /\ \A i \in DOMAIN log : i > tail[r].at /\ log[i].run = r => \E k \in DOMAIN u : u[k] = log[i].line
  BY UnreadIs DEF TailInv
<1> HIDE DEF u
<1>3. e.what = "log" /\ e.run = r /\ e.lines = u
  OBVIOUS
<1> HIDE DEF e
<1>4. /\ DOMAIN events' = DOMAIN events \cup {n} /\ Len(events) \in Nat
      /\ events'[n] = e /\ n \notin DOMAIN events
      /\ \A i \in DOMAIN events : events'[i] = events[i]
  BY <1>1, Added
<1>5. \A i \in DOMAIN events : i \in Nat /\ i <= n
  BY <1>4 DEF Queue
<1> HIDE DEF n
<1>6. /\ Of(events', "log") = Of(events, "log") \cup {n}
      /\ \A i \in Of(events, "log") : events'[i] = events[i] /\ i <= n /\ i # n
  BY <1>3, <1>4, <1>5 DEF Of
<1>7. n \in Nat
  BY <1>4 DEF n
<1>8. /\ tail' \in [Run -> [on : BOOLEAN, at : Nat]]
      /\ tail'[r].at = Len(log) /\ (tail'[r].on <=> ~Has(u, "done"))
      /\ \A q \in Run : q # r => tail'[q] = tail[q]
  <2>1. Len(log) \in Nat
    BY LenProperties DEF TailInv, BackInv, Queue
  <2>2. t \in [on : BOOLEAN, at : Nat]
    BY <2>1 DEF Has
  <2> HIDE DEF t
  <2>3. /\ tail' \in [Run -> [on : BOOLEAN, at : Nat]] /\ tail'[r] = t
        /\ \A q \in Run : q # r => tail'[q] = tail[q]
    BY <1>1, <2>2 DEF TailInv, BackInv
  <2> QED BY <2>3 DEF t
<1> HIDE DEF t
<1>9. BackInv'
  <2>1. Len(log) \in Nat
    BY LenProperties DEF TailInv, BackInv, Queue
  <2>2. \A q \in Run : tail[q].at <= Len(log)
    BY DEF TailInv, BackInv
  <2>3. \A q \in Run : tail'[q].at <= Len(log)
    BY <1>8, <2>1, <2>2
  <2> QED BY <1>1, <1>8, <2>3 DEF TailInv, BackInv, TreeShape, Queue
<1>10. LogInv'
  BY <1>1 DEF TailInv, LogInv
<1>11. QueueInv'
  BY <1>2, <1>3, <1>4, <1>6 DEF TailInv, QueueInv
<1>12. InFlight' \subseteq InFlight /\ \A q \in InFlight : q = r
  <2>1. r \in InFlight /\ \A q \in InFlight : q = r
    BY <1>1 DEF InFlight, TailInv, FlightInv
  <2>2. \A q \in InFlight' : q = r \/ q \in InFlight
    BY <1>3, <1>4, <1>6, <1>8 DEF InFlight
  <2> QED BY <2>1, <2>2
<1>13. FlightInv'
  <2>1. ASSUME NEW i \in Of(events', "log"), Has(events'[i].lines, "done")
        PROVE  ~tail'[events'[i].run].on /\ \A j \in Of(events', "log") : j <= i
    <3>1. CASE i = n
      <4>1. events'[i] = e /\ Has(u, "done")
        BY <1>3, <1>4, <2>1, <3>1
      <4>2. ~tail'[r].on
        BY <1>8, <4>1
      <4> QED BY <1>3, <1>6, <1>7, <3>1, <4>1, <4>2
    <3>2. CASE i \in Of(events, "log")
      <4>1. events'[i] = events[i] /\ events[i].run \in InFlight /\ ~tail[events[i].run].on
        BY <1>6, <2>1, <3>2 DEF TailInv, FlightInv, QueueInv, InFlight
      <4> QED BY <1>1, <1>12, <4>1
    <3> QED BY <1>6, <3>1, <3>2
  <2> QED BY <1>1, <1>12, <2>1 DEF TailInv, FlightInv
<1>14. OkInv'
  <2>1. ASSUME ~lost, NEW q \in Run
        PROVE  /\ child[q].pc \in {"start", "remove"} => tail'[q].on
               /\ \A p \in child[q].ok \cap tree.rows : (Waits(q, p) \/ Sent(q, p))'
    <3>1. child[q].pc \in {"start", "remove"} => tail'[q].on
      BY <1>2, <1>8, <2>1 DEF TailInv, OkInv
    <3>2. ASSUME NEW p \in child[q].ok \cap tree.rows PROVE (Waits(q, p) \/ Sent(q, p))'
      <4>1. Waits(q, p) \/ Sent(q, p)
        BY <2>1, <3>2 DEF TailInv, OkInv
      <4>2. Sent(q, p) => Sent(q, p)'
        BY <1>6 DEF Sent
      <4>3. ASSUME Waits(q, p), q # r PROVE Waits(q, p)'
        BY <1>1, <1>8, <4>3 DEF Waits
      <4>4. ASSUME Waits(q, p), q = r PROVE Sent(q, p)'
        <5>1. PICK i \in DOMAIN log : i > tail[r].at /\ log[i].run = r /\ log[i].line = OkLine(p)
          BY <4>4 DEF Waits
        <5>2. PICK k \in DOMAIN u : u[k] = OkLine(p)
          BY <1>2, <5>1
        <5> QED BY <1>3, <1>4, <1>6, <4>4, <5>2 DEF Sent
      <4> QED BY <4>1, <4>2, <4>3, <4>4
    <3> QED BY <3>1, <3>2
  <2> QED BY <1>1, <2>1 DEF TailInv, OkInv
<1> QED BY <1>9, <1>10, <1>11, <1>13, <1>14 DEF TailInv

\* Lines are lost: then nothing is said of them.
LEMMA LostStep ==
  ASSUME TailInv, Queue(events), Midnight \/ \E r \in Run : TailGivesUp(r)
  PROVE  TailInv'
<1>1. UNCHANGED <<events, child, progress, tree>> /\ lost'
  BY DEF Midnight, TailGivesUp, Beside, viewVars
<1>2. /\ tail' \in [Run -> [on : BOOLEAN, at : Nat]] /\ \A q \in Run : tail'[q].on => tail[q].on
      /\ log' = log \/ log' = <<>>
      /\ \A q \in Run : tail'[q].at <= Len(log')
  <2>1. CASE Midnight
    <3>1. log' = <<>> /\ Len(log') = 0 /\ tail' = [r \in Run |-> [tail[r] EXCEPT !.at = 0]]
      BY <2>1 DEF Midnight
    <3> QED BY <3>1 DEF TailInv, BackInv
  <2>2. ASSUME NEW r \in Run, TailGivesUp(r)
        PROVE  /\ tail' \in [Run -> [on : BOOLEAN, at : Nat]] /\ \A q \in Run : tail'[q].on => tail[q].on
               /\ log' = log /\ \A q \in Run : tail'[q].at = tail[q].at
    BY <2>2 DEF TailGivesUp, TailInv, BackInv
  <2> QED BY <2>1, <2>2 DEF TailInv, BackInv
<1>3. BackInv'
  <2>1. Queue(log) /\ Queue(<<>>)
    BY DEF TailInv, BackInv, Queue
  <2>2. Queue(log')
    BY <1>2, <2>1
  <2> QED BY <1>1, <1>2, <2>2 DEF TailInv, BackInv, TreeShape
<1>4. LogInv'
  BY <1>1, <1>2 DEF TailInv, LogInv
<1>5. QueueInv'
  BY <1>1 DEF TailInv, QueueInv, Of
<1>6. InFlight' \subseteq InFlight
  BY <1>1, <1>2 DEF InFlight, Of
<1>7. FlightInv'
  BY <1>1, <1>2, <1>6 DEF TailInv, FlightInv, QueueInv, Of
<1>8. OkInv'
  BY <1>1 DEF TailInv, OkInv
<1> QED BY <1>3, <1>4, <1>5, <1>7, <1>8 DEF TailInv

LEMMA RemovesStep ==
  ASSUME TailInv, Queue(events), Queue(events'), Stay("log", 0), NEW r \in Run, ChildRemoves(r),
         child[r] \in Children, UNCHANGED <<tail, lost, tree, progress>>
  PROVE  TailInv'
<1> DEFINE p == Head(child[r].todo)
           b == [child[r] EXCEPT !.todo = Tail(@)]
<1>1. /\ child[r].pc = "remove" /\ child[r].todo # <<>>
      /\ \E gone \in {{}, {p} \cap exists} :
           /\ Logs(r, [what |-> IF gone = {} THEN "err" ELSE "ok", path |-> p])
           /\ Child(r, [b EXCEPT !.ok = @ \cup gone])
  BY DEF ChildRemoves
<1>2. p \in Path /\ b \in Children /\ b.pc = "remove" /\ b.ok = child[r].ok
  <2>1. child[r].todo \in Seq(Path)
    BY DEF Children
  <2>2. p \in Path /\ Tail(child[r].todo) \in Seq(Path)
    BY <1>1, <2>1
  <2> QED BY <1>1, <2>2 DEF Children
<1> HIDE DEF p, b
<1>3. PICK gone \in {{}, {p} \cap exists} :
        /\ Logs(r, [what |-> IF gone = {} THEN "err" ELSE "ok", path |-> p])
        /\ Child(r, [b EXCEPT !.ok = @ \cup gone])
  BY <1>1
<1> DEFINE c == [b EXCEPT !.ok = @ \cup gone]
           line == [what |-> IF gone = {} THEN "err" ELSE "ok", path |-> p]
<1>4. gone \subseteq {p}
  BY <1>3
<1>5. c \in Children /\ c.pc = "remove" /\ c.ok = child[r].ok \cup gone
  BY <1>2, <1>4 DEF Children
<1>6. line.path \in Path /\ line.what # "done" /\ (gone # {} => line = OkLine(p))
  BY <1>2 DEF OkLine
<1>7. Child(r, c) /\ Logs(r, line)
  BY <1>3
<1>8. \A x \in c.ok : x \in child[r].ok \/ line = OkLine(x)
  BY <1>4, <1>5, <1>6
<1> HIDE DEF c, line
<1> QED BY <1>1, <1>5, <1>6, <1>7, <1>8, ChildStep

LEMMA RunStep ==
  ASSUME TailInv, Queue(events), NEW r \in Run, ChildStarts(r) \/ ChildRemoves(r) \/ ChildEnds(r)
  PROVE  TailInv'
<1>1. UNCHANGED <<tail, lost, tree, progress>> /\ child[r] \in Children
  BY DEF ChildStarts, ChildRemoves, ChildEnds, Beside, viewVars, TailInv, BackInv
<1>2. ASSUME UNCHANGED events PROVE Stay("log", 0) /\ Queue(events')
  BY <1>2, SameStay DEF Queue
<1>3. CASE ChildStarts(r)
  <2> DEFINE c == [child[r] EXCEPT !.pc = "remove"]
  <2>1. c \in Children /\ c.pc = "remove" /\ c.ok = child[r].ok
    BY <1>1 DEF Children
  <2>2. child[r].pc = "start" /\ Child(r, c) /\ Logs(r, [what |-> "start"]) /\ UNCHANGED events
    BY <1>3 DEF ChildStarts
  <2> HIDE DEF c
  <2> QED BY <1>1, <1>2, <2>1, <2>2, ChildStep
<1>4. CASE ChildEnds(r)
  <2> DEFINE c == [child[r] EXCEPT !.pc = "ended"]
  <2>1. c \in Children /\ c.pc = "ended" /\ c.ok = child[r].ok
    BY <1>1 DEF Children
  <2>2. child[r].pc = "remove" /\ Child(r, c) /\ Logs(r, [what |-> "done"]) /\ UNCHANGED events
    BY <1>4 DEF ChildEnds
  <2> HIDE DEF c
  <2> QED BY <1>1, <1>2, <2>1, <2>2, ChildStep
<1>5. CASE ChildRemoves(r)
  <2>1. PICK gone : events' = events \o Tells(gone)
    BY <1>5 DEF ChildRemoves
  <2>2. events' = events \/ \E e : e.what = "sessions" /\ events' = Append(events, e)
    BY <2>1, AddsNote
  <2>3. ASSUME NEW e, e.what = "sessions", events' = Append(events, e) PROVE Stay("log", 0) /\ Queue(events')
    BY <2>3, AddedStay, Added
  <2>4. Stay("log", 0) /\ Queue(events')
    BY <1>2, <2>2, <2>3
  <2> QED BY <1>1, <1>5, <2>4, RemovesStep
<1> QED BY <1>3, <1>4, <1>5

-----------------------------------------------------------------------------
\* What a handler takes from the channel.
LEMMA HandlerTakes ==
  ASSUME Handles
  PROVE  /\ events # <<>>
         /\ \E tells \in {<<>>, <<[what |-> "sessions"]>>} :
              events' = Tail(events) \o tells \/ events' = Tail(events)
         /\ UNCHANGED backVars
         /\ Arrived.what \in {"key", "worktrees", "prs", "log", "sessions"}
         /\ Arrived.what # "key" => view' = view
         /\ Arrived.what = "log" => apply_clean_log_events
         /\ Arrived.what = "worktrees" => set_worktrees
         /\ Arrived.what = "prs" => PrsFetched
<1>1. CASE worktree_view_confirm_delete
  <2>1. PICK gone : events' = Tail(events) \o Tells(gone)
    BY <1>1 DEF worktree_view_confirm_delete
  <2>2. Tells(gone) \in {<<>>, <<[what |-> "sessions"]>>}
    BY DEF Tells
  <2>3. events # <<>> /\ UNCHANGED backVars /\ Arrived.what = "key"
    BY <1>1 DEF worktree_view_confirm_delete
  <2> QED BY <2>1, <2>2, <2>3
<1>2. CASE \/ cycle_view \/ exit_clean_view \/ select_next \/ toggle_selected_section
           \/ worktree_view_request_delete \/ worktree_view_cancel_confirm
           \/ enter_clean_view \/ confirm_clean
  <2>1. Takes("key") /\ UNCHANGED backVars
    BY <1>2 DEF cycle_view, exit_clean_view, select_next, toggle_selected_section,
                worktree_view_request_delete, worktree_view_cancel_confirm, enter_clean_view,
                confirm_clean, Pressed, KeyOnly
  <2> QED BY <2>1 DEF Takes
<1>3. CASE set_worktrees
  BY <1>3 DEF set_worktrees, Takes
<1>4. CASE PrsFetched
  BY <1>4 DEF PrsFetched, Takes
<1>5. CASE apply_clean_log_events
  BY <1>5 DEF apply_clean_log_events, Takes
<1>6. CASE SessionsChanged
  BY <1>6 DEF SessionsChanged, Takes, viewVars
<1> QED BY <1>1, <1>2, <1>3, <1>4, <1>5, <1>6 DEF Handles

\* A summary goes away with a key, once its run is done.
LEMMA HandlerKeeps ==
  ASSUME Handles, TailInv, Arrived.what \notin {"log", "worktrees"}
  PROVE  /\ TreeShape(tree') /\ tree'.state = tree.state /\ tree'.rows \subseteq tree.rows
         /\ progress' = progress \/ (progress # Nothing /\ progress.done /\ progress' = Nothing)
<1>1. TreeShape(tree)
  BY DEF TailInv, BackInv
<1>2. progress' = progress \/ (progress # Nothing /\ progress.done /\ progress' = Nothing)
  BY DEF Handles, cycle_view, exit_clean_view, select_next, toggle_selected_section,
         worktree_view_request_delete, worktree_view_cancel_confirm, enter_clean_view,
         confirm_clean, worktree_view_confirm_delete, set_worktrees, PrsFetched,
         apply_clean_log_events, SessionsChanged, viewVars, KeyOnly, Dismisses, Takes
<1>3. \/ tree' = tree
      \/ \E nested : tree' = [tree EXCEPT !.nested = nested]
      \/ \E sel : tree' = [tree EXCEPT !.sel = sel]
      \/ \E confirm : tree' = [tree EXCEPT !.confirm = confirm]
      \/ \E gone, nested, sel : tree' = [tree EXCEPT !.rows = @ \ gone, !.nested = nested, !.sel = sel,
                                                    !.confirm = Nothing]
  <2>1. CASE worktree_view_confirm_delete
    <3>1. PICK gone \in {{}, {tree.confirm} \cap exists} :
            LET t == refresh_session_overlay([tree EXCEPT !.rows = @ \ gone], Without(gone, list))
                sel == selectable(tree_entries(t))
                below == {i \in sel : i >= tree.sel}
                at == IF below # {} THEN Least(below) ELSE Greatest(sel)
            IN tree' = [(IF gone = {} THEN tree ELSE [t EXCEPT !.sel = at]) EXCEPT !.confirm = Nothing]
      BY <2>1 DEF worktree_view_confirm_delete
    <3> DEFINE t == refresh_session_overlay([tree EXCEPT !.rows = @ \ gone], Without(gone, list))
    <3>2. t = [tree EXCEPT !.rows = @ \ gone, !.nested = t.nested]
      BY <1>1 DEF refresh_session_overlay, TreeShape
    <3> HIDE DEF t
    <3>3. PICK at : tree' = [(IF gone = {} THEN tree ELSE [t EXCEPT !.sel = at]) EXCEPT !.confirm = Nothing]
      BY <3>1 DEF t
    <3>4. CASE gone = {}
      BY <3>3, <3>4
    <3>5. CASE gone # {}
      <4>1. tree' = [tree EXCEPT !.rows = @ \ gone, !.nested = t.nested, !.sel = at, !.confirm = Nothing]
        BY <1>1, <3>2, <3>3, <3>5 DEF TreeShape
      <4> QED BY <4>1
    <3> QED BY <3>4, <3>5
  <2>2. CASE ~worktree_view_confirm_delete
    <3>1. \/ tree' = tree
          \/ tree' = refresh_session_overlay(tree, list)
          \/ tree' = [tree EXCEPT !.sel = Stepped(tree_entries(tree), @)]
          \/ \E confirm : tree' = [tree EXCEPT !.confirm = confirm]
      BY <2>2 DEF Handles, cycle_view, exit_clean_view, select_next, toggle_selected_section,
         worktree_view_request_delete, worktree_view_cancel_confirm, enter_clean_view,
         confirm_clean, set_worktrees, PrsFetched, apply_clean_log_events, SessionsChanged, viewVars, Takes
    <3> QED BY <3>1 DEF refresh_session_overlay
  <2> QED BY <2>1, <2>2
<1>4. TreeShape(tree') /\ tree'.state = tree.state /\ tree'.rows \subseteq tree.rows
  BY <1>1, <1>3 DEF TreeShape
<1> QED BY <1>2, <1>4

LEMMA WorktreesFound ==
  ASSUME set_worktrees, TailInv, StartInv, Queue(events)
  PROVE  /\ TreeShape(tree') /\ progress' = progress /\ tree.state = "Loading"
         /\ tree'.state \in {"Loaded", "Failed"} /\ Unstarted
         /\ \A r \in Run : child[r].ok = {}
<1>1. events # <<>> /\ events' = Tail(events) /\ Arrived.what = "worktrees" /\ progress' = progress
  BY DEF set_worktrees, Takes
<1>2. 1 \in Of(events, "worktrees")
  BY <1>1, Shifts DEF Of
<1>3. tree.state = "Loading" /\ Unstarted
  BY <1>2 DEF StartInv, FoundInv
<1>4. \A r \in Run : child[r].ok = {}
  BY <1>3 DEF Unstarted, TailInv, OkInv
<1>5. \/ tree' = [tree EXCEPT !.state = "Failed"]
      \/ \E rows, nested, sel : tree' = [tree EXCEPT !.state = "Loaded", !.rows = rows, !.nested = nested,
                                                    !.sel = sel]
  <2> DEFINE t == [tree EXCEPT !.state = "Loaded", !.rows = Arrived.paths]
             s == [t EXCEPT !.sel = FirstRow(tree_entries(t))]
  <2>1. CASE Arrived.ok
    <3>1. tree' = refresh_session_overlay(s, list)
      BY <2>1 DEF set_worktrees
    <3>2. \E sel : s = [t EXCEPT !.sel = sel]
      OBVIOUS
    <3> HIDE DEF s
    <3>3. \E nested : tree' = [s EXCEPT !.nested = nested]
      BY <3>1 DEF refresh_session_overlay
    <3>4. PICK sel, nested : s = [t EXCEPT !.sel = sel] /\ tree' = [s EXCEPT !.nested = nested]
      BY <3>2, <3>3
    <3>5. TreeShape(tree)
      BY DEF TailInv, BackInv
    <3>6. tree' = [tree EXCEPT !.state = "Loaded", !.rows = Arrived.paths, !.nested = nested, !.sel = sel]
      BY <3>4, <3>5 DEF TreeShape
    <3> QED BY <3>6
  <2>2. CASE ~Arrived.ok
    BY <2>2 DEF set_worktrees
  <2> QED BY <2>1, <2>2
<1>6. TreeShape(tree') /\ tree'.state \in {"Loaded", "Failed"}
  BY <1>5 DEF TailInv, BackInv, TreeShape
<1> QED BY <1>1, <1>3, <1>4, <1>6

LEMMA HandlesTails ==
  ASSUME TailInv, StartInv, Queue(events), Handles
  PROVE  TailInv'
<1>1. PICK tells \in {<<>>, <<[what |-> "sessions"]>>} :
        events # <<>> /\ (events' = Tail(events) \o tells \/ events' = Tail(events))
  BY HandlerTakes
<1>2. UNCHANGED <<child, log, tail, lost>>
  BY HandlerTakes DEF backVars
<1>3. CASE Arrived.what = "log"
  BY <1>3, HandlerTakes, ApplyStep
<1>4. CASE Arrived.what # "log"
  <2>1. Stay("log", 1) /\ Queue(events')
    BY <1>1, <1>4, TakenStay, Taken DEF Follows
  <2>2. CASE Arrived.what = "worktrees"
    <3>1. TreeShape(tree') /\ progress' = progress /\ \A r \in Run : child[r].ok = {}
      BY <2>2, HandlerTakes, WorktreesFound
    <3> QED BY <1>2, <2>1, <3>1, Calm
  <2>3. CASE Arrived.what # "worktrees"
    <3>1. /\ TreeShape(tree') /\ tree'.rows \subseteq tree.rows
          /\ progress' = progress \/ (progress # Nothing /\ progress.done /\ progress' = Nothing)
      BY <1>4, <2>3, HandlerKeeps
    <3> QED BY <1>2, <2>1, <3>1, Calm
  <2> QED BY <2>2, <2>3
<1> QED BY <1>3, <1>4

LEMMA BesideTails ==
  ASSUME TailInv, Queue(events), Background \/ \E k \in Keys : Press(k)
  PROVE  TailInv'
<1>1. ASSUME NEW e, e.what # "log", events' = Append(events, e),
             UNCHANGED <<child, log, tail, lost, tree, progress>>
      PROVE  TailInv'
  <2>1. Stay("log", 0) /\ Queue(events')
    BY <1>1, AddedStay, Added
  <2> QED BY <1>1, <2>1, Calm DEF TailInv, BackInv
<1>2. ASSUME UNCHANGED <<events, child, log, tail, lost, tree, progress>> PROVE TailInv'
  <2>1. Stay("log", 0) /\ Queue(events')
    BY <1>2, SameStay DEF Queue
  <2> QED BY <1>2, <2>1, Calm DEF TailInv, BackInv
<1>3. CASE Discovers
  <2>1. PICK ok : events' = Append(events, [what |-> "worktrees", ok |-> ok, paths |-> exists])
    BY <1>3 DEF Discovers, Sends
  <2>2. UNCHANGED <<child, log, tail, lost, tree, progress>>
    BY <1>3 DEF Discovers, Beside, viewVars
  <2> QED BY <1>1, <2>1, <2>2
<1>4. ASSUME NEW f \in fetches, fetch_clean_inputs(f) PROVE TailInv'
  <2>1. PICK ok : events' = Append(events, [what |-> "prs", visit |-> f.visit, ok |-> ok,
                                            rows |-> build_clean_rows(f.rows, TRUE, merged, f.sessions)])
    BY <1>4 DEF fetch_clean_inputs, Sends
  <2>2. UNCHANGED <<child, log, tail, lost, tree, progress>>
    BY <1>4 DEF fetch_clean_inputs, Beside, viewVars
  <2> QED BY <1>1, <2>1, <2>2
<1>5. ASSUME NEW p \in Path, SessionMoves(p) PROVE TailInv'
  <2>1. events' = Append(events, [what |-> "sessions"]) /\ UNCHANGED <<child, log, tail, lost, tree, progress>>
    BY <1>5 DEF SessionMoves, Sends, Beside, viewVars, backVars
  <2> QED BY <1>1, <2>1
<1>6. ASSUME NEW p \in Path, PrMerges(p) PROVE TailInv'
  BY <1>2, <1>6 DEF PrMerges, Beside, viewVars, backVars
<1>7. ASSUME NEW k \in Keys, Press(k) PROVE TailInv'
  <2>1. events' = Append(events, [what |-> "key", key |-> k]) /\ UNCHANGED <<child, log, tail, lost, tree, progress>>
    BY <1>7 DEF Press, viewVars, backVars
  <2> QED BY <1>1, <2>1
<1> QED BY <1>3, <1>4, <1>5, <1>6, <1>7, RunStep, TailReadsStep, LostStep DEF Background

-----------------------------------------------------------------------------
\* A child that was asked for stays the only one: nothing starts before it.
LEMMA AloneStays ==
  ASSUME Apart, VisitInv, FrameInv, AloneInv, [CleanNext]_cleanVars
  PROVE  AloneInv'
<1>0. Queue(events) /\ loop \in Loops
  BY DEF VisitInv, LoopInv
<1>1. CASE Handles
  <2>1. PICK tells \in {<<>>, <<[what |-> "sessions"]>>} :
          events # <<>> /\ (events' = Tail(events) \o tells \/ events' = Tail(events))
    BY <1>1, HandlerTakes
  <2>2. UNCHANGED <<child, tail>> /\ (Arrived.what # "key" => view' = view)
    BY <1>1, HandlerTakes DEF backVars
  <2>3. Follows(1) /\ 1 \in DOMAIN events /\ Arrived = events[1] /\ 1 \notin {i + 1 : i \in DOMAIN events'}
    BY <1>0, <2>1, Taken
  <2>4. \A i \in KeysIn(events') : i + 1 \in KeysIn(events) /\ events'[i] = events[i + 1] /\ i + 1 # 1
    BY <2>3 DEF Follows, KeysIn
  <2>5. ASSUME Arrived.what = "key" PROVE KeysIn(events') = {}
    <3>1. 1 \in KeysIn(events)
      BY <2>3, <2>5 DEF KeysIn
    <3> QED BY <2>4, <3>1 DEF VisitInv, OneKey
  <2>6. Confirms' => Confirms
    BY <2>2, <2>4, <2>5 DEF Confirms
  <2>7. loop'.spawn = loop.spawn \/ Confirms
    <3>1. CASE confirm_clean
      <4>1. view.at = "Clean" /\ Arrived.what = "key" /\ Arrived.key = "y"
        BY <3>1 DEF confirm_clean, Pressed, Takes
      <4> QED BY <2>3, <4>1 DEF Confirms, KeysIn
    <3>2. CASE ~confirm_clean
      <4>1. \E effects \in Loops : effects.spawn = loop.spawn /\ Goes(effects)
        <5>1. \/ Goes(loop)
              \/ \E b \in BOOLEAN : Goes([loop EXCEPT !.fetch = b])
              \/ Goes([loop EXCEPT !.reload = TRUE])
          <6>1. CASE enter_clean_view
            <7>1. Goes([loop EXCEPT !.fetch = loop.fetch \/ AsksForPrs(Loading, tree)])
              BY <6>1 DEF enter_clean_view
            <7>2. (loop.fetch \/ AsksForPrs(Loading, tree)) \in BOOLEAN
              OBVIOUS
            <7> QED BY <7>1, <7>2
          <6>2. CASE set_worktrees
            <7> DEFINE waits == view.at = "Clean" /\ clean.state = "LoadingPr"
                       b == loop.fetch \/ (waits /\ AsksForPrs(clean, tree'))
            <7>1. Goes([loop EXCEPT !.fetch = b])
              BY <6>2 DEF set_worktrees
            <7>2. b \in BOOLEAN
              OBVIOUS
            <7> QED BY <7>1, <7>2
          <6>3. CASE ~enter_clean_view /\ ~set_worktrees
            BY <1>1, <3>2, <6>3 DEF Handles, cycle_view, exit_clean_view, select_next, toggle_selected_section,
               worktree_view_request_delete, worktree_view_cancel_confirm, worktree_view_confirm_delete,
               PrsFetched, apply_clean_log_events, SessionsChanged, KeyOnly
          <6> QED BY <6>1, <6>2, <6>3
        <5>2. \A b \in BOOLEAN : [loop EXCEPT !.fetch = b] \in Loops /\ [loop EXCEPT !.fetch = b].spawn = loop.spawn
          BY <1>0 DEF Loops
        <5>3. [loop EXCEPT !.reload = TRUE] \in Loops /\ [loop EXCEPT !.reload = TRUE].spawn = loop.spawn
          BY <1>0 DEF Loops
        <5> QED BY <1>0, <5>1, <5>2, <5>3
      <4>2. PICK effects \in Loops : effects.spawn = loop.spawn /\ Goes(effects)
        BY <4>1
      <4> QED BY <4>2 DEF Goes, Loops
    <3> QED BY <3>1, <3>2
  <2> QED BY <2>2, <2>6, <2>7 DEF AloneInv, Alone
<1>2. CASE EndIteration
  <2>1. loop'.spawn = {} /\ KeysIn(events') = {}
    BY <1>2 DEF EndIteration, Iteration, KeysIn
  <2> QED BY <2>1 DEF AloneInv, Confirms
<1>3. CASE Background
  <2>1. UNCHANGED <<loop, view>>
    BY <1>3 DEF Background, Discovers, fetch_clean_inputs, ChildStarts, ChildRemoves, ChildEnds, TailReads,
         TailGivesUp, Midnight, SessionMoves, PrMerges, Beside, viewVars
  <2>2. Confirms' => Confirms
    <3>1. \/ events' = events
          \/ \E e : e.what # "key" /\ events' = Append(events, e)
      <4>1. ASSUME NEW r \in Run, ChildRemoves(r)
            PROVE  events' = events \/ \E e : e.what # "key" /\ events' = Append(events, e)
        <5>1. PICK gone : events' = events \o Tells(gone)
          BY <4>1 DEF ChildRemoves
        <5> QED BY <1>0, <5>1, AddsNote
      <4>2. ASSUME NEW r \in Run, TailReads(r) PROVE \E e : e.what # "key" /\ events' = Append(events, e)
        <5>1. events' = Append(events, [what |-> "log", run |-> r, lines |-> Unread(r)])
          BY <4>2 DEF TailReads, Sends
        <5> QED BY <5>1
      <4>3. ASSUME NEW f \in fetches, fetch_clean_inputs(f) PROVE \E e : e.what # "key" /\ events' = Append(events, e)
        <5>1. PICK ok : events' = Append(events, [what |-> "prs", visit |-> f.visit, ok |-> ok,
                                            rows |-> build_clean_rows(f.rows, TRUE, merged, f.sessions)])
          BY <4>3 DEF fetch_clean_inputs, Sends
        <5> QED BY <5>1
      <4>4. ASSUME Discovers PROVE \E e : e.what # "key" /\ events' = Append(events, e)
        <5>1. PICK ok : events' = Append(events, [what |-> "worktrees", ok |-> ok, paths |-> exists])
          BY <4>4 DEF Discovers, Sends
        <5> QED BY <5>1
      <4>5. ASSUME NEW p \in Path, SessionMoves(p) PROVE \E e : e.what # "key" /\ events' = Append(events, e)
        <5>1. events' = Append(events, [what |-> "sessions"])
          BY <4>5 DEF SessionMoves, Sends
        <5> QED BY <5>1
      <4>6. ASSUME NEW r \in Run, ChildStarts(r) \/ ChildEnds(r) \/ TailGivesUp(r) PROVE events' = events
        BY <4>6 DEF ChildStarts, ChildEnds, TailGivesUp
      <4>7. ASSUME NEW p \in Path, PrMerges(p) PROVE events' = events
        BY <4>7 DEF PrMerges
      <4>8. Midnight => events' = events
        BY DEF Midnight
      <4> QED BY <1>3, <4>1, <4>2, <4>3, <4>4, <4>5, <4>6, <4>7, <4>8 DEF Background
    <3>2. KeysIn(events') = KeysIn(events) /\ \A i \in KeysIn(events) : events'[i] = events[i]
      BY <1>0, <3>1, Added DEF KeysIn
    <3> QED BY <2>1, <3>2 DEF Confirms
  <2>3. ASSUME Alone PROVE Alone'
    <3>1. \A r \in Run : ~tail[r].on /\ child[r].pc \in {"none", "ended"}
      BY <2>3 DEF Alone
    <3>2. \A r \in Run : ~ChildStarts(r) /\ ~ChildRemoves(r) /\ ~ChildEnds(r) /\ ~TailReads(r) /\ ~TailGivesUp(r)
      BY <3>1 DEF ChildStarts, ChildRemoves, ChildEnds, TailReads, TailGivesUp
    <3>3. ~Midnight
      BY <3>1 DEF Midnight
    <3>4. UNCHANGED <<child, tail>>
      BY <1>3, <3>2, <3>3 DEF Background, Discovers, fetch_clean_inputs, SessionMoves, PrMerges, backVars
    <3> QED BY <3>1, <3>4 DEF Alone
  <2> QED BY <2>1, <2>2, <2>3 DEF AloneInv
<1>4. ASSUME NEW k \in Keys, Press(k) PROVE AloneInv'
  <2>1. /\ UNCHANGED <<loop, view, child, tail>> /\ ~KeyWaits
        /\ events' = Append(events, [what |-> "key", key |-> k])
        /\ shown.view = "Clean" /\ k = "y" => Alone
    BY <1>4 DEF Press, viewVars, backVars
  <2>2. shown.view = view.at
    BY <2>1 DEF KeyWaits, FrameInv
  <2>3. ASSUME Confirms' PROVE Alone
    <3>1. PICK i \in KeysIn(events') : events'[i].key = "y" /\ view.at = "Clean"
      BY <2>1, <2>3 DEF Confirms
    <3> DEFINE e == [what |-> "key", key |-> k]
    <3>2. e.key = k
      OBVIOUS
    <3>3. events' = Append(events, e)
      BY <2>1
    <3> HIDE DEF e
    <3>4. i \in DOMAIN events \/ events'[i] = e
      BY <1>0, <3>1, <3>3, Added DEF KeysIn
    <3>5. i \notin DOMAIN events
      BY <1>0, <2>1, <3>1, <3>3, Added DEF KeyWaits, KeysIn
    <3> QED BY <2>1, <2>2, <3>1, <3>2, <3>4, <3>5
  <2> QED BY <2>1, <2>3 DEF AloneInv, Alone
<1>5. CASE UNCHANGED cleanVars
  BY <1>5 DEF cleanVars, viewVars, backVars, AloneInv, Alone, Confirms, KeysIn
<1> QED BY <1>1, <1>2, <1>3, <1>4, <1>5 DEF CleanNext, Redraw

-----------------------------------------------------------------------------
LEMMA FoundStays ==
  ASSUME FoundInv, NEW k \in {0, 1}, Queue(events), Queue(events'), Stay("worktrees", k),
         finder' = finder, tree'.state = tree.state
  PROVE  FoundInv'
<1>1. ASSUME NEW i \in Of(events', "worktrees"), NEW j \in Of(events', "worktrees") PROVE i = j
  <2>1. i + k \in Of(events, "worktrees") /\ j + k \in Of(events, "worktrees")
    BY DEF Stay
  <2>2. i + k = j + k
    BY <2>1 DEF FoundInv
  <2>3. i \in Nat /\ j \in Nat
    BY EventsAreNumbered DEF Of, Queue
  <2> QED BY <2>2, <2>3
<1>2. Of(events', "worktrees") # {} => Of(events, "worktrees") # {}
  BY DEF Stay
<1> QED BY <1>1, <1>2 DEF FoundInv

\* What the keys ask for.
LEMMA HandlerAsks ==
  ASSUME Handles, loop \in Loops
  PROVE  /\ loop'.spawn = loop.spawn \/ loop'.spawn = to_delete_paths(clean)
         /\ \/ loop'.fetch = loop.fetch
            \/ AsksForPrs(Loading, tree)
            \/ set_worktrees /\ AsksForPrs(clean, tree')
<1>1. ASSUME NEW effects, Goes(effects),
             effects \in Loops
      PROVE  loop'.spawn = effects.spawn /\ loop'.fetch = effects.fetch
  BY <1>1 DEF Goes, Loops
<1>2. CASE enter_clean_view
  <2> DEFINE b == loop.fetch \/ AsksForPrs(Loading, tree)
             effects == [loop EXCEPT !.fetch = b]
  <2>1. Goes(effects)
    BY <1>2 DEF enter_clean_view
  <2>2. effects \in Loops /\ effects.spawn = loop.spawn /\ effects.fetch = b
    BY DEF Loops
  <2> HIDE DEF effects
  <2>3. loop.fetch \in BOOLEAN /\ (b = loop.fetch \/ AsksForPrs(Loading, tree))
    BY DEF Loops
  <2> QED BY <1>1, <2>1, <2>2, <2>3
<1>3. CASE set_worktrees
  <2> DEFINE asks == (view.at = "Clean" /\ clean.state = "LoadingPr") /\ AsksForPrs(clean, tree')
             b == loop.fetch \/ asks
             effects == [loop EXCEPT !.fetch = b]
  <2>1. Goes(effects)
    BY <1>3 DEF set_worktrees
  <2>2. effects \in Loops /\ effects.spawn = loop.spawn /\ effects.fetch = b
    BY DEF Loops
  <2> HIDE DEF effects
  <2>3. loop.fetch \in BOOLEAN /\ (b = loop.fetch \/ asks)
    BY DEF Loops
  <2> QED BY <1>1, <1>3, <2>1, <2>2, <2>3
<1>4. CASE confirm_clean
  <2> DEFINE effects == [loop EXCEPT !.spawn = to_delete_paths(clean)]
  <2>1. Goes(effects)
    BY <1>4 DEF confirm_clean
  <2>2. effects \in Loops /\ effects.spawn = to_delete_paths(clean) /\ effects.fetch = loop.fetch
    BY DEF Loops, to_delete_paths, InSection, RowsOf
  <2> HIDE DEF effects
  <2> QED BY <1>1, <2>1, <2>2
<1>5. CASE SessionsChanged
  <2> DEFINE effects == [loop EXCEPT !.reload = TRUE]
  <2>1. Goes(effects)
    BY <1>5 DEF SessionsChanged
  <2>2. effects \in Loops /\ effects.spawn = loop.spawn /\ effects.fetch = loop.fetch
    BY DEF Loops
  <2> HIDE DEF effects
  <2> QED BY <1>1, <2>1, <2>2
<1>6. CASE ~enter_clean_view /\ ~set_worktrees /\ ~confirm_clean /\ ~SessionsChanged
  <2>1. Goes(loop)
    BY <1>6 DEF Handles, cycle_view, exit_clean_view, select_next, toggle_selected_section,
            worktree_view_request_delete, worktree_view_cancel_confirm, worktree_view_confirm_delete,
            PrsFetched, apply_clean_log_events, KeyOnly
  <2> QED BY <1>1, <2>1
<1> QED BY <1>2, <1>3, <1>4, <1>5, <1>6

\* A clean view that still waits for the worktrees lists none.
LEMMA NothingListed ==
  ASSUME Handles, Unstarted, ~PrsFetched, Shape(clean), tree.state # "Loaded", tree'.state # "Loaded"
  PROVE  clean'.state = "LoadingPr" /\ RowsOf(clean') = {} /\ progress' = Nothing
<1>1. /\ clean.state = "LoadingPr" /\ RowsOf(clean) = {} /\ progress = Nothing
  BY DEF Unstarted
<1>2. \/ clean' = clean
      \/ clean' = Loading
      \/ \E i : clean' = [clean EXCEPT !.sel = i]
  <2>1. CASE enter_clean_view
    BY <2>1 DEF enter_clean_view, Seeded, Seeds
  <2>2. CASE set_worktrees
    BY <2>2 DEF set_worktrees, Seeded, Seeds
  <2>3. CASE toggle_selected_section
    <3>1. ~MayToggle(clean)
      BY <1>1, EntryIs DEF MayToggle
    <3> QED BY <2>3, <3>1 DEF toggle_selected_section
  <2>4. CASE select_next
    BY <2>4 DEF select_next
  <2>5. CASE apply_clean_log_events
    BY <1>1, <2>5 DEF apply_clean_log_events
  <2>6. CASE /\ ~enter_clean_view /\ ~set_worktrees /\ ~toggle_selected_section
             /\ ~select_next /\ ~apply_clean_log_events
    BY <2>6 DEF Handles, cycle_view, exit_clean_view, confirm_clean, worktree_view_request_delete,
            worktree_view_cancel_confirm, worktree_view_confirm_delete, SessionsChanged, viewVars
  <2> QED BY <2>1, <2>2, <2>3, <2>4, <2>5, <2>6
<1>3. clean'.state = "LoadingPr" /\ RowsOf(clean') = {}
  BY <1>1, <1>2 DEF Loading, NoRows, RowsOf, Shape
<1>4. progress' = Nothing
  BY <1>1 DEF Handles, cycle_view, exit_clean_view, select_next, toggle_selected_section,
         worktree_view_request_delete, worktree_view_cancel_confirm, enter_clean_view,
         confirm_clean, worktree_view_confirm_delete, set_worktrees,
         apply_clean_log_events, SessionsChanged, viewVars, KeyOnly, Dismisses
<1> QED BY <1>3, <1>4

LEMMA NothingStarts ==
  ASSUME Handles, Unstarted, Queue(events), loop \in Loops, Shape(clean),
         tree.state # "Loaded", tree'.state # "Loaded"
  PROVE  Unstarted'
<1>1. PICK tells \in {<<>>, <<[what |-> "sessions"]>>} :
        events # <<>> /\ (events' = Tail(events) \o tells \/ events' = Tail(events))
  BY HandlerTakes
<1>2. UNCHANGED <<fetches, child>>
  BY HandlerTakes DEF backVars
<1>3. Arrived.what # "prs"
  <2>1. 1 \in DOMAIN events /\ Arrived = events[1]
    BY <1>1, Shifts
  <2> QED BY <2>1 DEF Unstarted, AnswersIn
<1>4. AnswersIn(events') = {}
  <2>1. Stay("prs", 1)
    BY <1>1, <1>3, TakenStay
  <2> QED BY <2>1 DEF Stay, Of, AnswersIn, Unstarted
<1>5. ~PrsFetched
  BY <1>3 DEF PrsFetched, Takes
<1>6. clean'.state = "LoadingPr" /\ RowsOf(clean') = {} /\ progress' = Nothing
  BY <1>5, NothingListed
<1>7. loop'.spawn = {} /\ ~loop'.fetch
  <2>1. to_delete_paths(clean) = {} /\ loop.spawn = {} /\ ~loop.fetch
    BY DEF Unstarted, to_delete_paths, InSection
  <2>2. ~AsksForPrs(Loading, tree) /\ ~AsksForPrs(clean, tree')
    BY DEF AsksForPrs, Seeds
  <2> QED BY <2>1, <2>2, HandlerAsks
<1> QED BY <1>2, <1>4, <1>6, <1>7 DEF Unstarted

LEMMA HandlesStarts ==
  ASSUME StartInv, TailInv, Handles, Queue(events), loop \in Loops, Shape(clean)
  PROVE  StartInv'
<1>1. PICK tells \in {<<>>, <<[what |-> "sessions"]>>} :
        events # <<>> /\ (events' = Tail(events) \o tells \/ events' = Tail(events))
  BY HandlerTakes
<1>2. finder' = finder /\ Queue(events')
  BY <1>1, HandlerTakes, Taken DEF backVars, Follows
<1>3. CASE Arrived.what = "worktrees"
  <2>1. tree.state = "Loading" /\ Unstarted
    BY <1>3, HandlerTakes, WorktreesFound
  <2>2. Of(events', "worktrees") = {}
    <3>1. /\ \A i \in DOMAIN events' : \/ i + 1 \in DOMAIN events /\ events'[i] = events[i + 1]
                                       \/ events'[i] = [what |-> "sessions"]
          /\ 1 \in DOMAIN events /\ Arrived = events[1]
          /\ DOMAIN events' \subseteq Nat \ {0}
      BY <1>1, Shifts
    <3>2. 1 \in Of(events, "worktrees")
      BY <1>3, <3>1 DEF Of
    <3>3. ASSUME NEW i \in Of(events', "worktrees") PROVE FALSE
      <4>1. i + 1 \in Of(events, "worktrees") /\ i \in Nat \ {0}
        BY <3>1 DEF Of
      <4>2. i + 1 = 1
        BY <3>2, <4>1 DEF StartInv, FoundInv
      <4> QED BY <4>1, <4>2
    <3> QED BY <3>3
  <2>3. finder # "runs"
    <3>1. 1 \in Of(events, "worktrees")
      BY <1>1, <1>3, Shifts DEF Of
    <3> QED BY <3>1 DEF StartInv, FoundInv
  <2>4. FoundInv'
    BY <1>2, <2>2, <2>3 DEF FoundInv
  <2>5. tree'.state # "Loaded" => Unstarted'
    BY <2>1, NothingStarts
  <2> QED BY <2>4, <2>5 DEF StartInv
<1>4. CASE Arrived.what # "worktrees"
  <2>1. tree'.state = tree.state
    <3>1. CASE Arrived.what = "log"
      <4>1. tree' = tree \/ \E gone : tree' = [tree EXCEPT !.rows = @ \ gone]
        BY <3>1, HandlerTakes DEF apply_clean_log_events
      <4> QED BY <4>1 DEF TailInv, BackInv, TreeShape
    <3>2. CASE Arrived.what # "log"
      BY <1>4, <3>2, HandlerKeeps
    <3> QED BY <3>1, <3>2
  <2>2. Stay("worktrees", 1)
    BY <1>1, <1>4, TakenStay
  <2>3. FoundInv'
    BY <1>2, <2>1, <2>2, FoundStays DEF StartInv
  <2>4. tree.state # "Loaded" => Unstarted'
    BY <2>1, NothingStarts DEF StartInv
  <2> QED BY <2>1, <2>3, <2>4 DEF StartInv
<1> QED BY <1>3, <1>4

LEMMA EndIterationStarts ==
  ASSUME StartInv, TailInv, EndIteration
  PROVE  StartInv'
<1>1. /\ events = <<>> /\ events' = events /\ UNCHANGED <<finder, clean>>
      /\ StartFetch /\ SpawnClean /\ Reload /\ loop' = Iteration
  BY DEF EndIteration
<1>2. tree'.state = tree.state
  <2>1. tree' = tree \/ \E f : tree' = [tree EXCEPT !.nested = f]
    BY <1>1 DEF Reload, refresh_session_overlay
  <2> QED BY <2>1 DEF TailInv, BackInv, TreeShape
<1>3. FoundInv'
  BY <1>1, <1>2 DEF StartInv, FoundInv, Of
<1>4. ASSUME tree.state # "Loaded" PROVE Unstarted'
  <2>1. Unstarted
    BY <1>4 DEF StartInv
  <2>2. UNCHANGED <<fetches, child, progress>>
    BY <1>1, <2>1 DEF Unstarted, StartFetch, SpawnClean
  <2>3. ~loop'.fetch /\ loop'.spawn = {}
    BY <1>1 DEF Iteration
  <2> QED BY <1>1, <2>1, <2>2, <2>3 DEF Unstarted, RowsOf, AnswersIn
<1> QED BY <1>2, <1>3, <1>4 DEF StartInv

LEMMA BesideStarts ==
  ASSUME StartInv, Queue(events), Background \/ \E k \in Keys : Press(k)
  PROVE  StartInv'
<1>1. UNCHANGED <<loop, clean, progress, tree>>
  BY DEF Background, Discovers, fetch_clean_inputs, ChildStarts, ChildRemoves, ChildEnds, TailReads,
         TailGivesUp, Midnight, SessionMoves, PrMerges, Press, Beside, viewVars
<1>2. ASSUME Queue(events'), Stay("prs", 0), Stay("worktrees", 0), finder' = finder,
             Unstarted => UNCHANGED <<fetches, child>>
      PROVE  StartInv'
  <2>1. FoundInv'
    BY <1>1, <1>2, FoundStays DEF StartInv
  <2>2. Unstarted => Unstarted'
    BY <1>1, <1>2 DEF Unstarted, RowsOf, AnswersIn, Stay, Of
  <2> QED BY <1>1, <2>1, <2>2 DEF StartInv
<1>3. ASSUME events' = events, finder' = finder, Unstarted => UNCHANGED <<fetches, child>>
      PROVE  StartInv'
  <2>1. Queue(events') /\ Stay("prs", 0) /\ Stay("worktrees", 0)
    BY <1>3, SameStay DEF Queue
  <2> QED BY <1>2, <1>3, <2>1
<1>4. ASSUME NEW e, e.what \notin {"prs", "worktrees"}, events' = Append(events, e), finder' = finder,
             Unstarted => UNCHANGED <<fetches, child>>
      PROVE  StartInv'
  <2>1. Queue(events') /\ Stay("prs", 0) /\ Stay("worktrees", 0)
    BY <1>4, AddedStay, Added
  <2> QED BY <1>2, <1>4, <2>1
<1>5. CASE Discovers
  <2>1. PICK e : e.what = "worktrees" /\ events' = Append(events, e)
    <3>1. PICK ok : events' = Append(events, [what |-> "worktrees", ok |-> ok, paths |-> exists])
      BY <1>5 DEF Discovers, Sends
    <3> QED BY <3>1
  <2>2. finder = "runs" /\ finder' = "done" /\ UNCHANGED <<fetches, child>>
    BY <1>5 DEF Discovers
  <2>3. Of(events, "worktrees") = {} /\ tree.state = "Loading" /\ Unstarted
    BY <2>2 DEF StartInv, FoundInv
  <2>4. DOMAIN events' = DOMAIN events \cup {Len(events) + 1}
        /\ \A i \in DOMAIN events : events'[i] = events[i]
    BY <2>1, Added
  <2>5. Of(events', "worktrees") \subseteq {Len(events) + 1}
    BY <2>3, <2>4 DEF Of
  <2>6. FoundInv'
    BY <1>1, <2>2, <2>3, <2>5 DEF FoundInv
  <2>7. Stay("prs", 0)
    BY <2>1, AddedStay
  <2>8. Unstarted'
    BY <1>1, <2>2, <2>3, <2>7 DEF Unstarted, RowsOf, AnswersIn, Stay, Of
  <2> QED BY <2>6, <2>8 DEF StartInv
<1>6. ASSUME NEW f \in fetches, fetch_clean_inputs(f) PROVE StartInv'
  <2>1. PICK e : e.what = "prs" /\ events' = Append(events, e)
    <3>1. PICK ok : events' = Append(events, [what |-> "prs", visit |-> f.visit, ok |-> ok,
                                            rows |-> build_clean_rows(f.rows, TRUE, merged, f.sessions)])
      BY <1>6 DEF fetch_clean_inputs, Sends
    <3> QED BY <3>1
  <2>2. Queue(events') /\ Stay("worktrees", 0)
    BY <2>1, AddedStay, Added
  <2>3. FoundInv'
    BY <1>1, <1>6, <2>2, FoundStays DEF StartInv, fetch_clean_inputs
  <2>4. ~Unstarted
    BY DEF Unstarted
  <2> QED BY <1>1, <2>3, <2>4 DEF StartInv
<1>7. ASSUME NEW r \in Run, ChildStarts(r) \/ ChildEnds(r) PROVE StartInv'
  <2>1. ~Unstarted /\ events' = events /\ finder' = finder
    BY <1>7 DEF ChildStarts, ChildEnds, Unstarted
  <2> QED BY <1>3, <2>1
<1>8. ASSUME NEW r \in Run, ChildRemoves(r) PROVE StartInv'
  <2>1. ~Unstarted /\ finder' = finder
    BY <1>8 DEF ChildRemoves, Unstarted
  <2>2. PICK gone : events' = events \o Tells(gone)
    BY <1>8 DEF ChildRemoves
  <2>3. events' = events \/ \E e : e.what = "sessions" /\ events' = Append(events, e)
    BY <2>2, AddsNote
  <2> QED BY <1>3, <1>4, <2>1, <2>3
<1>9. ASSUME NEW r \in Run, TailReads(r) PROVE StartInv'
  <2>1. /\ events' = Append(events, [what |-> "log", run |-> r, lines |-> Unread(r)])
        /\ UNCHANGED <<finder, fetches, child>>
    BY <1>9 DEF TailReads, Sends
  <2>2. PICK e : e.what = "log" /\ events' = Append(events, e)
    BY <2>1
  <2> QED BY <1>4, <2>1, <2>2
<1>10. ASSUME NEW r \in Run, TailGivesUp(r) PROVE StartInv'
  BY <1>3, <1>10 DEF TailGivesUp
<1>11. CASE Midnight
  BY <1>3, <1>11 DEF Midnight
<1>12. ASSUME NEW p \in Path, SessionMoves(p) PROVE StartInv'
  <2>1. events' = Append(events, [what |-> "sessions"]) /\ UNCHANGED <<finder, fetches, child>>
    BY <1>12 DEF SessionMoves, Sends, backVars
  <2> QED BY <1>4, <2>1
<1>13. ASSUME NEW p \in Path, PrMerges(p) PROVE StartInv'
  BY <1>3, <1>13 DEF PrMerges, backVars
<1>14. ASSUME NEW k \in Keys, Press(k) PROVE StartInv'
  <2>1. events' = Append(events, [what |-> "key", key |-> k]) /\ UNCHANGED <<finder, fetches, child>>
    BY <1>14 DEF Press, backVars
  <2> QED BY <1>4, <2>1
<1> QED BY <1>5, <1>6, <1>7, <1>8, <1>9, <1>10, <1>11, <1>12, <1>13, <1>14 DEF Background

-----------------------------------------------------------------------------
DeleteInv == TailInv /\ AloneInv /\ StartInv

\* So a child's run is followed from its start to its `done`.
THEOREM DeleteInvAlways ==
  Apart => (CleanSpec => []DeleteInv)
<1> SUFFICES ASSUME Apart PROVE CleanSpec => []DeleteInv
  OBVIOUS
<1>1. CleanInit => DeleteInv
  <2> SUFFICES ASSUME CleanInit PROVE DeleteInv
    OBVIOUS
  <2>1. events = <<>> /\ log = <<>> /\ DOMAIN events = {} /\ DOMAIN log = {}
    BY DEF CleanInit
  <2>2. BackInv
    <3>1. child \in [Run -> Children]
      BY DEF CleanInit, Children
    <3>2. tail \in [Run -> [on : BOOLEAN, at : Nat]] /\ \A r \in Run : tail[r].at <= Len(log)
      BY <2>1 DEF CleanInit
    <3>3. progress \in Progress \cup {Nothing} /\ TreeShape(tree) /\ Queue(log)
      BY <2>1 DEF CleanInit, TreeShape, Queue
    <3> QED BY <3>1, <3>2, <3>3 DEF BackInv
  <2>3. LogInv /\ QueueInv
    BY <2>1 DEF LogInv, QueueInv, Of
  <2>4. FlightInv /\ OkInv
    BY <2>1 DEF CleanInit, FlightInv, InFlight, OkInv, Of
  <2>5. AloneInv
    BY <2>1 DEF CleanInit, AloneInv, Confirms, KeysIn, Iteration
  <2>6. Unstarted
    BY <2>1 DEF CleanInit, Unstarted, AnswersIn, Iteration, Loading, NoRows, RowsOf
  <2>7. FoundInv
    BY <2>1 DEF CleanInit, FoundInv, Of
  <2> QED BY <2>2, <2>3, <2>4, <2>5, <2>6, <2>7 DEF DeleteInv, TailInv, StartInv
<1>2. VisitInv /\ ShowInv /\ DeleteInv /\ [CleanNext]_cleanVars => DeleteInv'
  <2> SUFFICES ASSUME VisitInv, ShowInv, DeleteInv, [CleanNext]_cleanVars PROVE DeleteInv'
    OBVIOUS
  <2>1. Queue(events) /\ loop \in Loops /\ Shape(clean)
    BY DEF VisitInv, LoopInv
  <2>2. AloneInv'
    BY AloneStays DEF DeleteInv, ShowInv
  <2>3. CASE Handles
    BY <2>1, <2>2, <2>3, HandlesTails, HandlesStarts DEF DeleteInv
  <2>4. CASE EndIteration
    BY <2>1, <2>2, <2>4, SpawnStep, EndIterationStarts DEF DeleteInv
  <2>5. CASE Background \/ \E k \in Keys : Press(k)
    BY <2>1, <2>2, <2>5, BesideTails, BesideStarts DEF DeleteInv
  <2>6. CASE UNCHANGED cleanVars
    <3>1. TailInv'
      BY <2>6 DEF cleanVars, viewVars, backVars, DeleteInv, TailInv, BackInv, LogInv, QueueInv, FlightInv, OkInv,
         InFlight, Of, Waits, Sent, TreeShape, Queue
    <3>2. StartInv'
      BY <2>6 DEF cleanVars, viewVars, backVars, DeleteInv, StartInv, FoundInv, Unstarted, Of, AnswersIn, RowsOf
    <3> QED BY <2>2, <3>1, <3>2 DEF DeleteInv
  <2> QED BY <2>3, <2>4, <2>5, <2>6 DEF CleanNext, Redraw
<1> QED BY <1>1, <1>2, VisitInvAlways, ShowInvAlways, PTL DEF CleanSpec

\* When nothing is under way and no line was lost, what a child has deleted is
\* in no list: apply_clean_log_events has heard of each worktree.
THEOREM DeletedAreNotListed ==
  Apart => (CleanSpec => []DeletedLeaveTheList)
<1>1. DeleteInv => DeletedLeaveTheList
  <2> SUFFICES ASSUME DeleteInv, events = <<>>, ~lost, NEW r \in Run, ~tail[r].on,
                      NEW p \in child[r].ok \cap tree.rows
               PROVE  FALSE
    BY DEF DeletedLeaveTheList
  <2>1. Waits(r, p) \/ Sent(r, p)
    BY DEF DeleteInv, TailInv, OkInv
  <2> QED BY <2>1 DEF Waits, Sent, Of
<1> QED BY <1>1, DeleteInvAlways, PTL
=============================================================================
