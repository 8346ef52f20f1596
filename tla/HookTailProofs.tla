--------------------------- MODULE HookTailProofs ---------------------------
(***************************************************************************)
(* Theorems about HookTail, for any number of hooks that overlap, sessions *)
(* and messages, and about Transcript, which the hooks read.               *)
(*                                                                         *)
(* A hook that runs alone is disturbed by no other tail, but the process   *)
(* in the pane, sweep and the exit hook go on beside it. What it has in    *)
(* hand stays true because whoever changes the document, the pane option   *)
(* or the open prompts has a tail of its own from that step on, and so     *)
(* ends its being alone.                                                   *)
(***************************************************************************)
EXTENDS HookTail, Transcript, ClaudePaneProofs, SequenceTheorems, WellFoundedInduction

-----------------------------------------------------------------------------
(* The steps that a hook can have left *)

MessageRest == {<<>>, <<"exit">>, <<"store", "exit">>, <<"read", "store", "exit">>}
TmuxRest    == {<<>>, <<"exit">>, <<"write", "exit">>, <<"look", "write", "exit">>,
                <<"flag", "look", "write", "exit">>, <<"load", "flag", "look", "write", "exit">>}
NoticeRest  == {<<>>, <<"exit">>, <<"clear", "exit">>, <<"permission", "exit">>,
                <<"stopped", "exit">>, <<"clear", "stopped", "exit">>}

Rest == [message |-> MessageRest, tmux |-> TmuxRest, notice |-> NoticeRest]

LEMMA AppendIs ==
  ASSUME NEW S, NEW s \in Seq(S), NEW e \in S, NEW t \in Seq(S), Len(t) = Len(s) + 1,
         t[Len(s) + 1] = e, \A i \in 1 .. Len(s) : t[i] = s[i]
  PROVE  Append(s, e) = t
<1>1. Append(s, e) \in Seq(S) /\ Len(Append(s, e)) = Len(s) + 1
  BY AppendProperties
<1>2. \A i \in 1 .. Len(s) + 1 : Append(s, e)[i] = t[i]
  BY AppendProperties
<1> QED BY <1>1, <1>2, SeqEqual

\* The sequences that Begins puts together.
LEMMA Appended ==
  /\ \A e : Append(<<>>, e) = <<e>>
  /\ \A a, e : Append(<<a>>, e) = <<a, e>>
  /\ \A a, b, e : Append(<<a, b>>, e) = <<a, b, e>>
  /\ \A a, b, c, e : Append(<<a, b, c>>, e) = <<a, b, c, e>>
  /\ \A a, b, c, d, e : Append(<<a, b, c, d>>, e) = <<a, b, c, d, e>>
<1>1. ASSUME NEW e PROVE Append(<<>>, e) = <<e>>
  OBVIOUS
<1>2. ASSUME NEW a, NEW e PROVE Append(<<a>>, e) = <<a, e>>
  <2> DEFINE S == {a, e}  s == <<a>>  t == <<a, e>>
  <2>1. /\ s \in Seq(S) /\ t \in Seq(S) /\ Len(s) = 1 /\ Len(t) = 2 /\ t[2] = e
        /\ t[1] = s[1] /\ e \in S
    OBVIOUS
  <2> HIDE DEF s, t, S
  <2>2. \A i \in 1 .. 1 : i \in {1}
    OBVIOUS
  <2>3. Len(t) = Len(s) + 1 /\ t[Len(s) + 1] = e /\ \A i \in 1 .. Len(s) : t[i] = s[i]
    BY <2>1, <2>2
  <2>4. Append(s, e) = t
    BY <2>1, <2>3, AppendIs, Zenon
  <2> QED BY <2>4, Zenon DEF s, t
<1>3. ASSUME NEW a, NEW b, NEW e PROVE Append(<<a, b>>, e) = <<a, b, e>>
  <2> DEFINE S == {a, b, e}  s == <<a, b>>  t == <<a, b, e>>
  <2>1. /\ s \in Seq(S) /\ t \in Seq(S) /\ Len(s) = 2 /\ Len(t) = 3 /\ t[3] = e
        /\ t[1] = s[1] /\ t[2] = s[2] /\ e \in S
    OBVIOUS
  <2> HIDE DEF s, t, S
  <2>2. \A i \in 1 .. 2 : i \in {1, 2}
    OBVIOUS
  <2>3. Len(t) = Len(s) + 1 /\ t[Len(s) + 1] = e /\ \A i \in 1 .. Len(s) : t[i] = s[i]
    BY <2>1, <2>2
  <2>4. Append(s, e) = t
    BY <2>1, <2>3, AppendIs, Zenon
  <2> QED BY <2>4, Zenon DEF s, t
<1>4. ASSUME NEW a, NEW b, NEW c, NEW e PROVE Append(<<a, b, c>>, e) = <<a, b, c, e>>
  <2> DEFINE S == {a, b, c, e}  s == <<a, b, c>>  t == <<a, b, c, e>>
  <2>1. /\ s \in Seq(S) /\ t \in Seq(S) /\ Len(s) = 3 /\ Len(t) = 4 /\ t[4] = e
        /\ t[1] = s[1] /\ t[2] = s[2] /\ t[3] = s[3] /\ e \in S
    OBVIOUS
  <2> HIDE DEF s, t, S
  <2>2. \A i \in 1 .. 3 : i \in {1, 2, 3}
    OBVIOUS
  <2>3. Len(t) = Len(s) + 1 /\ t[Len(s) + 1] = e /\ \A i \in 1 .. Len(s) : t[i] = s[i]
    BY <2>1, <2>2
  <2>4. Append(s, e) = t
    BY <2>1, <2>3, AppendIs, Zenon
  <2> QED BY <2>4, Zenon DEF s, t
<1>5. ASSUME NEW a, NEW b, NEW c, NEW d, NEW e PROVE Append(<<a, b, c, d>>, e) = <<a, b, c, d, e>>
  <2> DEFINE S == {a, b, c, d, e}  s == <<a, b, c, d>>  t == <<a, b, c, d, e>>
  <2>1. /\ s \in Seq(S) /\ t \in Seq(S) /\ Len(s) = 4 /\ Len(t) = 5 /\ t[5] = e
        /\ t[1] = s[1] /\ t[2] = s[2] /\ t[3] = s[3] /\ t[4] = s[4] /\ e \in S
    OBVIOUS
  <2> HIDE DEF s, t, S
  <2>2. \A i \in 1 .. 4 : i \in {1, 2, 3, 4}
    OBVIOUS
  <2>3. Len(t) = Len(s) + 1 /\ t[Len(s) + 1] = e /\ \A i \in 1 .. Len(s) : t[i] = s[i]
    BY <2>1, <2>2
  <2>4. Append(s, e) = t
    BY <2>1, <2>3, AppendIs, Zenon
  <2> QED BY <2>4, Zenon DEF s, t
<1> QED BY <1>1, <1>2, <1>3, <1>4, <1>5, Zenon

\* What removes and what sends a notification, one after the other.
LEMMA Joined ==
  ASSUME NEW a, NEW b
  PROVE  /\ <<a>> \o <<b>> = <<a, b>> /\ <<a>> \o <<>> = <<a>>
         /\ <<>> \o <<b>> = <<b>> /\ <<>> \o <<>> = <<>>
<1> DEFINE S == {a, b}
<1>1. <<a>> \in Seq(S) /\ b \in S /\ a \in S /\ <<b>> \in Seq(S)
  OBVIOUS
<1>2. <<a>> \o <<b>> = Append(<<a>>, b)
  <2> HIDE DEF S
  <2> QED BY <1>1, AppendIsConcat, Zenon
<1>3. <<a>> \o <<b>> = <<a, b>>
  BY <1>2, Appended, Zenon
<1> QED BY <1>3

\* Nothing but the steps of its part is left to a tail.
LEMMA RestIsSteps ==
  ASSUME part \in DOMAIN Part, NEW r \in Rest[part]
  PROVE  r \in Seq(Step)
<1>1. /\ {"read", "store", "load", "flag", "look", "write", "clear", "permission",
           "stopped", "exit"} \subseteq Step
      /\ part \in {"message", "tmux", "notice"}
  <2>1. DOMAIN Part = {"message", "tmux", "notice"}
    BY DEF Part
  <2>2. (\A p \in DOMAIN Part : Part[p] \subseteq Step) /\ "exit" \in Step
    BY DEF Step
  <2> QED BY <2>1, <2>2 DEF Part
<1>2. /\ <<>> \in Seq(Step) /\ <<"exit">> \in Seq(Step)
      /\ \A a \in Step : <<a, "exit">> \in Seq(Step)
      /\ \A a, b \in Step : <<a, b, "exit">> \in Seq(Step)
      /\ <<"flag", "look", "write", "exit">> \in Seq(Step)
      /\ <<"load", "flag", "look", "write", "exit">> \in Seq(Step)
  BY <1>1
<1>3. CASE part = "message"
  BY <1>1, <1>2, <1>3, Zenon DEF Rest, MessageRest
<1>4. CASE part = "tmux"
  BY <1>1, <1>2, <1>4, Zenon DEF Rest, TmuxRest
<1>5. CASE part = "notice"
  BY <1>1, <1>2, <1>5, Zenon DEF Rest, NoticeRest
<1> QED BY <1>1, <1>3, <1>4, <1>5

\* What the next step of a tail says about the steps that are left ...
LEMMA NextStep ==
  ASSUME part \in DOMAIN Part, NEW h \in HookProc, tail[h].todo \in Rest[part]
  PROVE  LET r == tail[h].todo IN
         /\ Does(h, "read")  => part = "message" /\ r = <<"read", "store", "exit">>
         /\ Does(h, "store") => part = "message" /\ r = <<"store", "exit">>
         /\ Does(h, "load")  => part = "tmux" /\ r = <<"load", "flag", "look", "write", "exit">>
         /\ Does(h, "flag")  => part = "tmux" /\ r = <<"flag", "look", "write", "exit">>
         /\ Does(h, "look")  => part = "tmux" /\ r = <<"look", "write", "exit">>
         /\ Does(h, "write") => part = "tmux" /\ r = <<"write", "exit">>
         /\ Does(h, "clear") =>
              part = "notice" /\ r \in {<<"clear", "exit">>, <<"clear", "stopped", "exit">>}
         /\ Does(h, "permission") => part = "notice" /\ r = <<"permission", "exit">>
         /\ Does(h, "stopped") => part = "notice" /\ r = <<"stopped", "exit">>
         /\ Does(h, "exit") => r = <<"exit">>
<1>1. part \in {"message", "tmux", "notice"}
  BY DEF Part
<1>2. CASE part = "message"
  BY <1>2 DEF Rest, MessageRest, Does, Busy
<1>3. CASE part = "tmux"
  BY <1>3 DEF Rest, TmuxRest, Does, Busy
<1>4. CASE part = "notice"
  BY <1>4 DEF Rest, NoticeRest, Does, Busy
<1> QED BY <1>1, <1>2, <1>3, <1>4

\* ... and what is left after it.
LEMMA AfterIs ==
  ASSUME NEW t
  PROVE  /\ t.todo = <<"exit">> => After(t) = Idle
         /\ t.todo = <<"read", "store", "exit">> => After(t) = [t EXCEPT !.todo = <<"store", "exit">>]
         /\ t.todo = <<"load", "flag", "look", "write", "exit">> =>
              After(t) = [t EXCEPT !.todo = <<"flag", "look", "write", "exit">>]
         /\ t.todo = <<"flag", "look", "write", "exit">> =>
              After(t) = [t EXCEPT !.todo = <<"look", "write", "exit">>]
         /\ t.todo = <<"look", "write", "exit">> => After(t) = [t EXCEPT !.todo = <<"write", "exit">>]
         /\ t.todo = <<"clear", "stopped", "exit">> => After(t) = [t EXCEPT !.todo = <<"stopped", "exit">>]
         /\ \A step \in {"store", "write", "clear", "permission", "stopped"} :
              t.todo = <<step, "exit">> => After(t) = [t EXCEPT !.todo = <<"exit">>]
<1>1. t.todo = <<"exit">> => After(t) = Idle
  BY DEF After
<1>2. ASSUME NEW a, NEW b, t.todo = <<a, b>>
      PROVE  After(t) = [t EXCEPT !.todo = <<b>>]
  <2>1. Len(t.todo) # 1 /\ Tail(t.todo) = <<b>>
    BY <1>2
  <2> QED BY <2>1, Zenon DEF After
<1>3. ASSUME NEW a, NEW b, NEW c, t.todo = <<a, b, c>>
      PROVE  After(t) = [t EXCEPT !.todo = <<b, c>>]
  <2>1. Len(t.todo) # 1 /\ Tail(t.todo) = <<b, c>>
    BY <1>3
  <2> QED BY <2>1, Zenon DEF After
<1>4. ASSUME NEW a, NEW b, NEW c, NEW d, t.todo = <<a, b, c, d>>
      PROVE  After(t) = [t EXCEPT !.todo = <<b, c, d>>]
  <2>1. Len(t.todo) # 1 /\ Tail(t.todo) = <<b, c, d>>
    BY <1>4
  <2> QED BY <2>1, Zenon DEF After
<1>5. ASSUME NEW a, NEW b, NEW c, NEW d, NEW e, t.todo = <<a, b, c, d, e>>
      PROVE  After(t) = [t EXCEPT !.todo = <<b, c, d, e>>]
  <2>1. Len(t.todo) # 1 /\ Tail(t.todo) = <<b, c, d, e>>
    BY <1>5
  <2> QED BY <2>1, Zenon DEF After
<1> QED BY <1>1, <1>2, <1>3, <1>4, <1>5

-----------------------------------------------------------------------------
(* The invariant *)

\* What is left belongs to the part, and somebody's session is in hand.
RestInv ==
  \A h \in HookProc : tail[h].todo \in Rest[part] /\ (Busy(h) => tail[h].sid \in Sid)

\* A tail that is alone is the only one.
AloneInv == \A h \in HookProc : Busy(h) /\ tail[h].alone => \A g \in HookProc \ {h} : ~Busy(g)

\* Nobody has a message that the transcript does not have, and a tail that is
\* about to store one has read it after the document it compares with.
MessageInv ==
  /\ \A s \in Sid : last[s] <= said[s] /\ endLast[s] <= said[s]
  /\ part = "message" => \A h \in HookProc : Busy(h) =>
       /\ tail[h].expected <= said[tail[h].sid]
       /\ tail[h].todo = <<"store", "exit">> => tail[h].expected <= tail[h].message
       /\ tail[h].message <= said[tail[h].sid]

IsPaused(d) == d # None /\ d.status = "Paused"

\* What a tail that is alone has in hand, and has written, is what the document
\* says, if its session is the one that the pane names.
TmuxInv ==
  part = "tmux" =>
    \A h \in HookProc : Busy(h) /\ tail[h].alone /\ option = tail[h].sid =>
      LET d == file[option]  r == tail[h].todo IN
      /\ r = <<"flag", "look", "write", "exit">> => (tail[h].paused <=> IsPaused(d))
      /\ r \in {<<"look", "write", "exit">>, <<"write", "exit">>, <<"exit">>} =>
           (flag <=> IsPaused(d))
      /\ r = <<"write", "exit">> => tail[h].rendered = format_window_symbol(d)
      /\ r = <<"exit">> => window = format_window_symbol(d)

\* Nobody waits in this session.
Answered(s) == proc = None \/ proc.sid # s \/ proc.waiting = {}

\* A tail that is alone removes or replaces a notification only if nobody
\* waits, from its save on.
NoticeInv ==
  part = "notice" =>
    \A h \in HookProc : Busy(h) /\ tail[h].alone =>
      tail[h].todo \in {<<"exit">>, <<"permission", "exit">>} \/ Answered(tail[h].sid)

TailInv == PaneInv /\ TailTypeOK /\ RestInv /\ AloneInv /\ MessageInv /\ TmuxInv /\ NoticeInv

-----------------------------------------------------------------------------
(* A tail begins *)

FromFlag == <<"flag", "look", "write", "exit">>
FromLoad == <<"load", "flag", "look", "write", "exit">>

\* The steps of the part that is followed.
First(todo) == Append(todo[part], "exit")

\* What has to be right when a tail of session s begins with these steps: the
\* status in its hand, if it does not load the document first, and that nobody
\* waits, if it is to remove or replace the notification.
Fits(s, todo, paused) ==
  /\ Append(todo["message"], "exit") \in {<<"exit">>, <<"read", "store", "exit">>}
  /\ Append(todo["tmux"], "exit") \in {FromFlag, FromLoad}
  /\ Append(todo["notice"], "exit") \in NoticeRest \ {<<>>}
  /\ Append(todo["tmux"], "exit") = FromFlag /\ option' = s => (paused <=> IsPaused(file'[s]))
  /\ \/ Append(todo["notice"], "exit") \in {<<"exit">>, <<"permission", "exit">>}
     \/ Answered(s)'

\* The fields of the records of the tails.
LEMMA TailFields ==
  ASSUME TailTypeOK, NEW h \in HookProc
  PROVE  /\ tail[h] \in TailRecord
         /\ tail[h].sid \in Sid \cup {None} /\ tail[h].paused \in BOOLEAN
         /\ tail[h].expected \in 0 .. MaxSaid /\ tail[h].message \in 0 .. MaxSaid
         /\ tail[h].rendered \in Symbols /\ tail[h].alone \in BOOLEAN
BY DEF TailTypeOK, TailRecord

\* The steps that a tail can begin with are steps that it can have left.
LEMMA FirstRests ==
  ASSUME NEW r
  PROVE  /\ r \in {<<"exit">>, <<"read", "store", "exit">>} =>
              r \in MessageRest /\ r # <<>> /\ r # <<"store", "exit">>
         /\ r \in {FromFlag, FromLoad} =>
              /\ r \in TmuxRest /\ r # <<>> /\ r # <<"store", "exit">>
              /\ r \notin {<<"look", "write", "exit">>, <<"write", "exit">>, <<"exit">>}
         /\ r \in NoticeRest \ {<<>>} =>
              r \in NoticeRest /\ r # <<>> /\ r # <<"store", "exit">>
<1>1. ASSUME r \in {<<"exit">>, <<"read", "store", "exit">>}
      PROVE  r \in MessageRest /\ r # <<>> /\ r # <<"store", "exit">>
  BY <1>1 DEF MessageRest
<1>2. ASSUME r \in {FromFlag, FromLoad}
      PROVE  /\ r \in TmuxRest /\ r # <<>> /\ r # <<"store", "exit">>
             /\ r \notin {<<"look", "write", "exit">>, <<"write", "exit">>, <<"exit">>}
  BY <1>2 DEF FromFlag, FromLoad, TmuxRest
<1>3. ASSUME r \in NoticeRest \ {<<>>}
      PROVE  r \in NoticeRest /\ r # <<>> /\ r # <<"store", "exit">>
  BY <1>3 DEF NoticeRest
<1> QED BY <1>1, <1>2, <1>3

\* Who begins is alone or ends the being alone of all others.
LEMMA BeginsIs ==
  ASSUME TailTypeOK, NEW h \in HookProc, NEW s \in Sid, NEW todo, NEW paused \in BOOLEAN,
         First(todo) \in Seq(Step) \ {<<>>}, Begins(h, s, todo, paused)
  PROVE  /\ tail' \in [HookProc -> TailRecord]
         /\ ~Busy(h) /\ Busy(h)'
         /\ tail'[h].todo = First(todo) /\ tail'[h].sid = s /\ tail'[h].paused = paused
         /\ tail'[h].expected = last[s] /\ tail'[h].message = 0
         /\ tail'[h].alone <=> \A f \in HookProc : ~Busy(f)
         /\ \A g \in HookProc \ {h} :
              /\ tail'[g].todo = tail[g].todo /\ tail'[g].sid = tail[g].sid
              /\ tail'[g].expected = tail[g].expected /\ tail'[g].message = tail[g].message
              /\ Busy(g)' <=> Busy(g)
              /\ Busy(g)' => ~tail'[g].alone
<1> DEFINE nobody == \A f \in HookProc : ~Busy(f)
           new == [todo |-> First(todo), sid |-> s, paused |-> paused, expected |-> last[s],
                   message |-> 0, rendered |-> "none", alone |-> nobody]
<1>1. /\ ~Busy(h)
      /\ tail' = [g \in HookProc |->
           IF g = h THEN [Idle EXCEPT !.todo = First(todo), !.sid = s, !.paused = paused,
                                      !.expected = last[s], !.alone = nobody]
           ELSE IF Busy(g) THEN [tail[g] EXCEPT !.alone = FALSE] ELSE tail[g]]
  BY Zenon DEF Begins, First
<1>2. nobody \in BOOLEAN
  OBVIOUS
<1> HIDE DEF nobody
<1>3. tail'[h] = new
  BY <1>1 DEF Idle
<1>4. new \in TailRecord
  <2>1. 0 \in 0 .. MaxSaid /\ last[s] \in 0 .. MaxSaid
    BY TailAssumption DEF TailTypeOK
  <2>2. "none" \in Symbols
    BY DEF Symbols
  <2> QED BY <1>2, <2>1, <2>2 DEF TailRecord
<1>5. ASSUME NEW g \in HookProc \ {h}
      PROVE  /\ tail'[g] \in TailRecord
             /\ tail'[g].todo = tail[g].todo /\ tail'[g].sid = tail[g].sid
             /\ tail'[g].expected = tail[g].expected /\ tail'[g].message = tail[g].message
             /\ Busy(g) => ~tail'[g].alone
  BY <1>1, TailFields DEF TailRecord
<1>6. tail' \in [HookProc -> TailRecord]
  BY <1>1, <1>3, <1>4, <1>5
<1>7. /\ tail'[h].todo = First(todo) /\ tail'[h].sid = s /\ tail'[h].paused = paused
      /\ tail'[h].expected = last[s] /\ tail'[h].message = 0 /\ tail'[h].alone = nobody
  BY <1>3
<1>8. Busy(h)' /\ \A g \in HookProc \ {h} : Busy(g)' <=> Busy(g)
  BY <1>5, <1>7 DEF Busy
<1>9. tail'[h].alone <=> \A f \in HookProc : ~Busy(f)
  BY <1>7 DEF nobody
<1> QED BY <1>1, <1>5, <1>6, <1>7, <1>8, <1>9

\* A beginning keeps what the tails know, if it fits.
LEMMA BeginKeeps ==
  ASSUME TailTypeOK, RestInv, AloneInv, MessageInv,
         NEW h \in HookProc, NEW s \in Sid, NEW todo, NEW paused \in BOOLEAN,
         Begins(h, s, todo, paused), Fits(s, todo, paused),
         part' = part, said' = said, option' \in Sid \cup {None},
         window' = window, flag' = flag, shown' = shown,
         last' \in [Sid -> 0 .. MaxSaid], endLast' \in [Sid -> 0 .. MaxSaid],
         \A t \in Sid : last'[t] <= said[t] /\ endLast'[t] <= said[t]
  PROVE  TailTypeOK' /\ RestInv' /\ AloneInv' /\ MessageInv' /\ TmuxInv' /\ NoticeInv'
<1> DEFINE r == First(todo)
<1>1. part \in {"message", "tmux", "notice"}
  BY DEF TailTypeOK, Part
<1>2. /\ part = "message" => r \in {<<"exit">>, <<"read", "store", "exit">>}
      /\ part = "tmux" => /\ r \in {FromFlag, FromLoad}
                          /\ r = FromFlag /\ option' = s => (paused <=> IsPaused(file'[s]))
      /\ part = "notice" => /\ r \in NoticeRest \ {<<>>}
                            /\ r \in {<<"exit">>, <<"permission", "exit">>} \/ Answered(s)'
  BY Zenon DEF Fits, First
<1> HIDE DEF r
<1>4. r \in Rest[part] /\ r # <<>> /\ r # <<"store", "exit">>
  <2>1. CASE part = "message"
    BY <1>2, <2>1, FirstRests, Zenon DEF Rest
  <2>2. CASE part = "tmux"
    BY <1>2, <2>2, FirstRests, Zenon DEF Rest
  <2>3. CASE part = "notice"
    BY <1>2, <2>3, FirstRests, Zenon DEF Rest
  <2> QED BY <1>1, <2>1, <2>2, <2>3
<1>5. r \in Seq(Step)
  BY <1>4, RestIsSteps DEF TailTypeOK
<1>6. /\ tail' \in [HookProc -> TailRecord]
      /\ ~Busy(h) /\ Busy(h)'
      /\ tail'[h].todo = r /\ tail'[h].sid = s /\ tail'[h].paused = paused
      /\ tail'[h].expected = last[s] /\ tail'[h].message = 0
      /\ tail'[h].alone <=> \A f \in HookProc : ~Busy(f)
      /\ \A g \in HookProc \ {h} :
           /\ tail'[g].todo = tail[g].todo /\ tail'[g].sid = tail[g].sid
           /\ tail'[g].expected = tail[g].expected /\ tail'[g].message = tail[g].message
           /\ Busy(g)' <=> Busy(g)
           /\ Busy(g)' => ~tail'[g].alone
  BY <1>4, <1>5, BeginsIs DEF r
<1>7. TailTypeOK'
  BY <1>6 DEF TailTypeOK
<1>8. RestInv'
  BY <1>4, <1>6 DEF RestInv
<1>9. AloneInv'
  BY <1>6 DEF AloneInv
<1>10. MessageInv'
  <2>1. last[s] \in 0 .. MaxSaid /\ last[s] <= said[s] /\ said[s] \in 0 .. MaxSaid
    BY DEF MessageInv, TailTypeOK
  <2>2. 0 <= said[s] /\ tail'[h].expected <= said[s] /\ tail'[h].message <= said[s]
    BY <1>6, <2>1, TailAssumption
  <2>3. ASSUME part = "message", NEW g \in HookProc, Busy(g)'
        PROVE  /\ tail'[g].expected <= said[tail'[g].sid]
               /\ tail'[g].todo = <<"store", "exit">> => tail'[g].expected <= tail'[g].message
               /\ tail'[g].message <= said[tail'[g].sid]
    <3>1. CASE g = h
      BY <1>4, <1>6, <2>2, <3>1
    <3>2. CASE g # h
      BY <1>6, <2>3, <3>2 DEF MessageInv
    <3> QED BY <3>1, <3>2
  <2> QED BY <2>3 DEF MessageInv
<1>11. \A g \in HookProc : Busy(g)' /\ tail'[g].alone => g = h
  BY <1>6
<1>12. TmuxInv'
  <2>1. part = "tmux" =>
          r \notin {<<"look", "write", "exit">>, <<"write", "exit">>, <<"exit">>}
    BY <1>2, FirstRests, Zenon
  <2> QED BY <1>2, <1>6, <1>11, <2>1 DEF TmuxInv, FromFlag
<1>13. NoticeInv'
  BY <1>2, <1>6, <1>11 DEF NoticeInv
<1> QED BY <1>7, <1>8, <1>9, <1>10, <1>12, <1>13

-----------------------------------------------------------------------------
(* A tail goes on *)

\* A tail that goes on keeps its session and its being alone until it ends.
LEMMA GoesOn ==
  ASSUME TailTypeOK, RestInv, AloneInv, NEW h \in HookProc, Busy(h), part' = part,
         NEW t \in TailRecord, tail' = [tail EXCEPT ![h] = t], t.todo \in Rest[part],
         t.todo # <<>> => t.sid = tail[h].sid /\ t.alone = tail[h].alone
  PROVE  /\ tail' \in [HookProc -> TailRecord] /\ RestInv' /\ AloneInv'
         /\ tail'[h] = t /\ Busy(h)' <=> t.todo # <<>>
         /\ \A g \in HookProc \ {h} : tail'[g] = tail[g] /\ (Busy(g)' <=> Busy(g))
<1>1. tail \in [HookProc -> TailRecord]
  BY DEF TailTypeOK
<1>2. /\ tail' \in [HookProc -> TailRecord] /\ tail'[h] = t
      /\ \A g \in HookProc \ {h} : tail'[g] = tail[g]
  BY <1>1
<1>3. /\ Busy(h)' <=> t.todo # <<>>
      /\ \A g \in HookProc \ {h} : Busy(g)' <=> Busy(g)
  BY <1>2 DEF Busy
<1>4. RestInv'
  <2>1. tail[h].sid \in Sid
    BY Zenon DEF RestInv
  <2>2. tail'[h].todo \in Rest[part] /\ (Busy(h)' => tail'[h].sid \in Sid)
    BY <1>2, <1>3, <2>1
  <2>3. ASSUME NEW g \in HookProc \ {h}
        PROVE  tail'[g].todo \in Rest[part] /\ (Busy(g)' => tail'[g].sid \in Sid)
    <3>1. tail[g].todo \in Rest[part] /\ (Busy(g) => tail[g].sid \in Sid)
      BY <2>3, Zenon DEF RestInv
    <3> QED BY <1>2, <1>3, <2>3, <3>1
  <2> QED BY <2>2, <2>3 DEF RestInv
<1>5. AloneInv'
  BY <1>2, <1>3 DEF AloneInv
<1> QED BY <1>2, <1>3, <1>4, <1>5

\* The steps that take the message over.
LEMMA MessageStep ==
  ASSUME TailTypeOK, RestInv, AloneInv, MessageInv, NEW h \in HookProc, part' = part,
         Read(h) \/ Store(h)
  PROVE  TailTypeOK' /\ RestInv' /\ AloneInv' /\ MessageInv' /\ TmuxInv' /\ NoticeInv'
<1> DEFINE s == tail[h].sid
<1>1. /\ part \in DOMAIN Part /\ tail[h].todo \in Rest[part] /\ Busy(h) /\ s \in Sid
      /\ tail[h] \in TailRecord
  <2>1. Busy(h)
    BY DEF Read, Store, Does
  <2>2. tail[h].todo \in Rest[part] /\ s \in Sid
    BY <2>1, Zenon DEF RestInv
  <2> QED BY <2>1, <2>2, TailFields DEF TailTypeOK
<1>2. part = "message"
  BY <1>1, NextStep DEF Read, Store
<1>3. TmuxInv' /\ NoticeInv'
  BY <1>2 DEF TmuxInv, NoticeInv
<1>4. /\ said \in [Sid -> 0 .. MaxSaid] /\ last \in [Sid -> 0 .. MaxSaid]
      /\ endLast \in [Sid -> 0 .. MaxSaid]
      /\ tail[h].expected \in 0 .. MaxSaid /\ tail[h].message \in 0 .. MaxSaid
      /\ 0 \in 0 .. MaxSaid /\ MaxSaid \in Nat
      /\ tail[h].expected <= said[s] /\ tail[h].message <= said[s]
      /\ \A t \in Sid : last[t] <= said[t] /\ endLast[t] <= said[t]
  BY <1>1, <1>2, TailAssumption, TailFields DEF TailTypeOK, MessageInv
<1>5. <<"exit">> \in Rest[part] /\ <<"store", "exit">> \in Rest[part]
  BY <1>2 DEF Rest, MessageRest
<1>6. <<"exit">> \in Seq(Step) /\ <<"store", "exit">> \in Seq(Step)
  BY <1>1, <1>5, RestIsSteps
<1>7. CASE Read(h)
  <2>1. tail[h].todo = <<"read", "store", "exit">>
    BY <1>1, <1>7, NextStep DEF Read
  <2>2. PICK m \in said[s] .. MaxSaid :
          /\ said' = [said EXCEPT ![s] = m]
          /\ IF m = tail[h].expected
               THEN Goes(h, [After(tail[h]) EXCEPT !.expected = 0])
               ELSE Goes(h, [tail[h] EXCEPT !.message = m])
    BY <1>7 DEF Read
  <2>3. m \in 0 .. MaxSaid /\ said[s] <= m
    BY <1>1, <1>4
  <2>4. /\ said' \in [Sid -> 0 .. MaxSaid] /\ said'[s] = m
        /\ \A t \in Sid : said[t] <= said'[t]
    BY <1>1, <1>4, <2>2, <2>3
  <2>5. /\ last' = last /\ endLast' = endLast /\ option' = option /\ window' = window
        /\ flag' = flag /\ shown' = shown
    BY <1>7 DEF Read
  <2>6. \/ tail' = [tail EXCEPT ![h] = [tail[h] EXCEPT !.todo = <<"exit">>, !.expected = 0]]
        \/ tail' = [tail EXCEPT ![h] = [tail[h] EXCEPT !.todo = <<"store", "exit">>, !.message = m]]
    <3>1. CASE m = tail[h].expected
      <4>1. After(tail[h]) = [tail[h] EXCEPT !.todo = <<"store", "exit">>]
        BY <2>1, AfterIs
      <4>2. [After(tail[h]) EXCEPT !.expected = 0].todo = <<"store", "exit">>
        BY <1>1, <4>1 DEF TailRecord
      <4>3. After([After(tail[h]) EXCEPT !.expected = 0]) =
              [[After(tail[h]) EXCEPT !.expected = 0] EXCEPT !.todo = <<"exit">>]
        BY <4>2, AfterIs
      <4>4. After([After(tail[h]) EXCEPT !.expected = 0]) =
              [tail[h] EXCEPT !.todo = <<"exit">>, !.expected = 0]
        BY <1>1, <4>1, <4>3 DEF TailRecord
      <4> QED BY <2>2, <3>1, <4>4, Zenon DEF Goes
    <3>2. CASE m # tail[h].expected
      <4>1. [tail[h] EXCEPT !.message = m].todo = <<"read", "store", "exit">>
        BY <1>1, <2>1 DEF TailRecord
      <4>2. After([tail[h] EXCEPT !.message = m]) =
              [[tail[h] EXCEPT !.message = m] EXCEPT !.todo = <<"store", "exit">>]
        BY <4>1, AfterIs
      <4>3. After([tail[h] EXCEPT !.message = m]) =
              [tail[h] EXCEPT !.todo = <<"store", "exit">>, !.message = m]
        BY <1>1, <4>2 DEF TailRecord
      <4> QED BY <2>2, <3>2, <4>3, Zenon DEF Goes
    <3> QED BY <3>1, <3>2
  <2>7. PICK t \in TailRecord :
          /\ tail' = [tail EXCEPT ![h] = t]
          /\ t.sid = s /\ t.alone = tail[h].alone
          /\ t.todo \in {<<"exit">>, <<"store", "exit">>}
          /\ t.expected <= m /\ t.message <= m
          /\ t.todo = <<"store", "exit">> => t.message = m
    <3>1. CASE tail' = [tail EXCEPT ![h] = [tail[h] EXCEPT !.todo = <<"exit">>, !.expected = 0]]
      <4> DEFINE t == [tail[h] EXCEPT !.todo = <<"exit">>, !.expected = 0]
      <4>1. t \in TailRecord
        BY <1>1, <1>4, <1>6 DEF TailRecord
      <4>2. /\ t.sid = s /\ t.alone = tail[h].alone /\ t.todo = <<"exit">>
            /\ t.expected = 0 /\ t.message = tail[h].message
        BY <1>1 DEF TailRecord
      <4>3. <<"exit">> # <<"store", "exit">>
        OBVIOUS
      <4> HIDE DEF t
      <4>4. t.expected <= m /\ t.message <= m
        BY <1>1, <1>4, <2>3, <4>2
      <4> QED BY <3>1, <4>1, <4>2, <4>3, <4>4 DEF t
    <3>2. CASE tail' = [tail EXCEPT ![h] = [tail[h] EXCEPT !.todo = <<"store", "exit">>, !.message = m]]
      <4> DEFINE t == [tail[h] EXCEPT !.todo = <<"store", "exit">>, !.message = m]
      <4>1. t \in TailRecord
        BY <1>1, <2>3, <1>6 DEF TailRecord
      <4>2. /\ t.sid = s /\ t.alone = tail[h].alone /\ t.todo = <<"store", "exit">>
            /\ t.expected = tail[h].expected /\ t.message = m
        BY <1>1 DEF TailRecord
      <4> HIDE DEF t
      <4>3. t.expected <= m /\ t.message <= m
        BY <1>1, <1>4, <2>3, <4>2
      <4> QED BY <3>2, <4>1, <4>2, <4>3 DEF t
    <3> QED BY <2>6, <3>1, <3>2
  <2>8. /\ tail' \in [HookProc -> TailRecord] /\ RestInv' /\ AloneInv' /\ tail'[h] = t
        /\ \A g \in HookProc \ {h} : tail'[g] = tail[g] /\ (Busy(g)' <=> Busy(g))
    <3>1. t.todo \in Rest[part]
      BY <1>5, <2>7
    <3> QED BY <1>1, <2>7, <3>1, GoesOn
  <2>9. TailTypeOK'
    BY <2>4, <2>5, <2>8 DEF TailTypeOK
  <2>10. MessageInv'
    <3>1. ASSUME NEW g \in HookProc, Busy(g)'
          PROVE  /\ tail'[g].expected <= said'[tail'[g].sid]
                 /\ tail'[g].todo = <<"store", "exit">> => tail'[g].expected <= tail'[g].message
                 /\ tail'[g].message <= said'[tail'[g].sid]
      <4>1. CASE g = h
        BY <2>4, <2>7, <2>8, <4>1
      <4>2. CASE g # h
        <5>0. Busy(g) /\ tail'[g] = tail[g]
          BY <2>8, <3>1, <4>2
        <5>1. /\ tail[g].sid \in Sid
              /\ tail[g].expected <= said[tail[g].sid]
              /\ tail[g].todo = <<"store", "exit">> => tail[g].expected <= tail[g].message
              /\ tail[g].message <= said[tail[g].sid]
          BY <1>2, <5>0, Zenon DEF MessageInv, RestInv
        <5>2. said[tail[g].sid] <= said'[tail[g].sid]
          BY <2>4, <5>1
        <5>3. tail[g].expected \in Nat /\ tail[g].message \in Nat /\ said[tail[g].sid] \in Nat
              /\ said'[tail[g].sid] \in Nat
          BY <1>4, <2>4, <5>1, TailFields
        <5> QED BY <5>0, <5>1, <5>2, <5>3
      <4> QED BY <4>1, <4>2
    <3>2. \A t0 \in Sid : last[t0] <= said'[t0] /\ endLast[t0] <= said'[t0]
      BY <1>4, <2>4
    <3> QED BY <2>5, <3>1, <3>2 DEF MessageInv
  <2> QED BY <1>3, <2>8, <2>9, <2>10
<1>8. CASE Store(h)
  <2>1. tail[h].todo = <<"store", "exit">>
    BY <1>1, <1>8, NextStep DEF Store
  <2>2. LastMessageAfter(tail[h]) \in 0 .. MaxSaid /\ LastMessageAfter(tail[h]) <= said[s]
    BY <1>1, <1>4 DEF LastMessageAfter
  <2>3. /\ last' \in [Sid -> 0 .. MaxSaid] /\ said' = said /\ endLast' = endLast
        /\ option' = option /\ window' = window /\ flag' = flag /\ shown' = shown
        /\ \A t \in Sid : last'[t] <= said[t]
    <3>1. /\ last' = [last EXCEPT ![s] = LastMessageAfter(tail[h])] /\ said' = said
          /\ endLast' = endLast /\ option' = option /\ window' = window /\ flag' = flag
          /\ shown' = shown
      BY <1>8 DEF Store
    <3> QED BY <1>1, <1>4, <2>2, <3>1
  <2> DEFINE b == [tail[h] EXCEPT !.expected = 0, !.message = 0]
             t == [tail[h] EXCEPT !.todo = <<"exit">>, !.expected = 0, !.message = 0]
  <2>4. tail' = [tail EXCEPT ![h] = t]
    <3>1. b.todo = <<"store", "exit">>
      BY <1>1, <2>1 DEF TailRecord
    <3>2. After(b) = [b EXCEPT !.todo = <<"exit">>]
      <4> HIDE DEF b
      <4> QED BY <3>1, AfterIs
    <3>3. After(b) = t
      BY <1>1, <3>2 DEF TailRecord
    <3> QED BY <1>8, <3>3, Zenon DEF Store, Goes
  <2>5. /\ t \in TailRecord /\ t.sid = s /\ t.alone = tail[h].alone /\ t.todo = <<"exit">>
        /\ t.expected = 0 /\ t.message = 0
    BY <1>1, <1>4, <1>6 DEF TailRecord
  <2>6. /\ tail' \in [HookProc -> TailRecord] /\ RestInv' /\ AloneInv' /\ tail'[h] = t
        /\ \A g \in HookProc \ {h} : tail'[g] = tail[g] /\ (Busy(g)' <=> Busy(g))
    <3> HIDE DEF t
    <3> QED BY <1>1, <1>5, <2>4, <2>5, GoesOn
  <2>7. TailTypeOK'
    BY <2>3, <2>6 DEF TailTypeOK
  <2>8. MessageInv'
    <3>1. <<"exit">> # <<"store", "exit">>
      OBVIOUS
    <3> HIDE DEF t
    <3> QED BY <1>1, <1>2, <1>4, <2>3, <2>5, <2>6, <3>1 DEF MessageInv
  <2> QED BY <1>3, <2>6, <2>7, <2>8
<1> QED BY <1>7, <1>8

\* The steps that set the flag and the window.
LEMMA TmuxStep ==
  ASSUME PaneTypeOK, TailTypeOK, RestInv, AloneInv, MessageInv, TmuxInv,
         NEW h \in HookProc, part' = part,
         Load(h) \/ sync_paused_flag(h) \/ Look(h) \/ WriteWindow(h)
  PROVE  TailTypeOK' /\ RestInv' /\ AloneInv' /\ MessageInv' /\ TmuxInv' /\ NoticeInv'
<1> DEFINE r == tail[h].todo
           d == file[option]
<1>1. Busy(h)
  BY DEF Load, sync_paused_flag, Look, WriteWindow, Does
<1>2. /\ part \in DOMAIN Part /\ r \in Rest[part] /\ tail[h].sid \in Sid
      /\ tail[h] \in TailRecord /\ tail[h].rendered \in Symbols
  BY <1>1, TailFields DEF RestInv, TailTypeOK
<1>3. part = "tmux"
  BY <1>2, NextStep DEF Load, sync_paused_flag, Look, WriteWindow
<1>4. /\ said' = said /\ last' = last /\ endLast' = endLast /\ option' = option
      /\ shown' = shown /\ file' = file
  BY DEF Load, sync_paused_flag, Look, WriteWindow, paneVars
<1>5. MessageInv' /\ NoticeInv'
  BY <1>3, <1>4 DEF MessageInv, NoticeInv
<1>6. /\ FromFlag \in Rest[part] /\ <<"look", "write", "exit">> \in Rest[part]
      /\ <<"write", "exit">> \in Rest[part] /\ <<"exit">> \in Rest[part]
  BY <1>3, Zenon DEF Rest, TmuxRest, FromFlag
<1>7. /\ FromFlag \in Seq(Step) /\ <<"look", "write", "exit">> \in Seq(Step)
      /\ <<"write", "exit">> \in Seq(Step) /\ <<"exit">> \in Seq(Step)
  BY <1>2, <1>6, RestIsSteps
\* What is right of the only tail that may be alone is enough.
<1>8. ASSUME NEW t \in TailRecord, tail' = [tail EXCEPT ![h] = t], t.todo \in Rest[part],
             t.sid = tail[h].sid, t.alone = tail[h].alone,
             window' \in Symbols, flag' \in BOOLEAN,
             tail[h].alone /\ option = tail[h].sid =>
               /\ t.todo = FromFlag => (t.paused <=> IsPaused(d))
               /\ t.todo \in {<<"look", "write", "exit">>, <<"write", "exit">>, <<"exit">>} =>
                    (flag' <=> IsPaused(d))
               /\ t.todo = <<"write", "exit">> => t.rendered = format_window_symbol(d)
               /\ t.todo = <<"exit">> => window' = format_window_symbol(d)
      PROVE  TailTypeOK' /\ RestInv' /\ AloneInv' /\ MessageInv' /\ TmuxInv' /\ NoticeInv'
  <2>1. /\ tail' \in [HookProc -> TailRecord] /\ RestInv' /\ AloneInv' /\ tail'[h] = t
        /\ \A g \in HookProc \ {h} : tail'[g] = tail[g] /\ (Busy(g)' <=> Busy(g))
    BY <1>1, <1>8, GoesOn
  <2>2. TailTypeOK'
    BY <1>4, <1>8, <2>1 DEF TailTypeOK
  <2>3. ASSUME NEW g \in HookProc, Busy(g)', tail'[g].alone PROVE g = h
    BY <1>1, <2>1, <2>3 DEF AloneInv
  <2>4. TmuxInv'
    BY <1>4, <1>8, <2>1, <2>3 DEF TmuxInv, FromFlag
  <2> QED BY <1>5, <2>1, <2>2, <2>4
<1>9. window \in Symbols /\ flag \in BOOLEAN
  BY DEF TailTypeOK
<1>10. tail[h].alone /\ option = tail[h].sid =>
         /\ r = FromFlag => (tail[h].paused <=> IsPaused(d))
         /\ r \in {<<"look", "write", "exit">>, <<"write", "exit">>, <<"exit">>} =>
              (flag <=> IsPaused(d))
         /\ r = <<"write", "exit">> => tail[h].rendered = format_window_symbol(d)
  BY <1>1, <1>3 DEF TmuxInv, FromFlag
<1>11. /\ FromFlag \notin {<<"look", "write", "exit">>, <<"write", "exit">>, <<"exit">>}
       /\ <<"look", "write", "exit">> \notin {FromFlag, <<"write", "exit">>, <<"exit">>}
       /\ <<"write", "exit">> \notin {FromFlag, <<"exit">>}
       /\ <<"exit">> \notin {FromFlag, <<"write", "exit">>}
  BY DEF FromFlag
<1>12. CASE Load(h)
  <2>1. r = FromLoad
    BY <1>2, <1>12, NextStep DEF Load, FromLoad
  <2> DEFINE p == IsPaused(d)
             b == [tail[h] EXCEPT !.paused = p]
             t == [tail[h] EXCEPT !.paused = p, !.todo = FromFlag]
  <2>2. p \in BOOLEAN
    BY DEF IsPaused
  <2>3. tail' = [tail EXCEPT ![h] = t]
    <3>1. Goes(h, b)
      BY <1>12, Zenon DEF Load, IsPaused
    <3> HIDE DEF p
    <3>2. b.todo = FromLoad
      BY <1>2, <2>1 DEF TailRecord
    <3>3. After(b) = [b EXCEPT !.todo = FromFlag]
      <4> HIDE DEF b
      <4> QED BY <3>2, AfterIs DEF FromFlag, FromLoad
    <3>4. After(b) = t
      BY <1>2, <3>3 DEF TailRecord
    <3> QED BY <3>1, <3>4, Zenon DEF Goes
  <2>4. /\ t \in TailRecord /\ t.todo = FromFlag /\ t.sid = tail[h].sid
        /\ t.alone = tail[h].alone /\ t.paused = p
    <3> HIDE DEF p
    <3> QED BY <1>2, <1>7, <2>2 DEF TailRecord
  <2>5. window' = window /\ flag' = flag
    BY <1>12 DEF Load
  <2> HIDE DEF t
  <2> QED BY <1>6, <1>8, <1>9, <1>11, <2>3, <2>4, <2>5
<1>13. CASE sync_paused_flag(h)
  <2>1. r = FromFlag
    BY <1>2, <1>13, NextStep DEF sync_paused_flag, FromFlag
  <2> DEFINE b == [tail[h] EXCEPT !.paused = FALSE]
             t == [tail[h] EXCEPT !.paused = FALSE, !.todo = <<"look", "write", "exit">>]
  <2>2. tail' = [tail EXCEPT ![h] = t]
    <3>1. b.todo = FromFlag
      BY <1>2, <2>1 DEF TailRecord
    <3>2. After(b) = [b EXCEPT !.todo = <<"look", "write", "exit">>]
      <4> HIDE DEF b
      <4> QED BY <3>1, AfterIs DEF FromFlag
    <3>3. After(b) = t
      BY <1>2, <3>2 DEF TailRecord
    <3> QED BY <1>13, <3>3, Zenon DEF sync_paused_flag, Goes
  <2>3. /\ t \in TailRecord /\ t.todo = <<"look", "write", "exit">> /\ t.sid = tail[h].sid
        /\ t.alone = tail[h].alone
    BY <1>2, <1>7 DEF TailRecord
  <2>4. window' = window /\ flag' = tail[h].paused /\ tail[h].paused \in BOOLEAN
    BY <1>2, <1>13 DEF sync_paused_flag, TailRecord
  <2> HIDE DEF t
  <2> QED BY <1>6, <1>8, <1>9, <1>10, <1>11, <2>1, <2>2, <2>3, <2>4
<1>14. CASE Look(h)
  <2>1. r = <<"look", "write", "exit">>
    BY <1>2, <1>14, NextStep DEF Look
  <2> DEFINE w == IF option = None THEN "none" ELSE format_window_symbol(d)
             b == [tail[h] EXCEPT !.rendered = w]
             t == [tail[h] EXCEPT !.rendered = w, !.todo = <<"write", "exit">>]
  <2>2. w \in Symbols /\ (option = tail[h].sid => w = format_window_symbol(d))
    <3>1. option # None => option \in Sid /\ d \in SessionDoc
      BY DEF TailTypeOK, PaneTypeOK, SessionDoc
    <3>2. option # None => format_window_symbol(d) \in Symbols
      BY <3>1 DEF format_window_symbol, Symbols, Status, SessionDoc, SessionRecord
    <3>3. option = tail[h].sid => option # None
      BY <1>2, SidAssumption
    <3> QED BY <3>2, <3>3 DEF Symbols
  <2>3. tail' = [tail EXCEPT ![h] = t]
    <3>1. Goes(h, b)
      BY <1>14, Zenon DEF Look
    <3> HIDE DEF w
    <3>2. b.todo = <<"look", "write", "exit">>
      BY <1>2, <2>1 DEF TailRecord
    <3>3. After(b) = [b EXCEPT !.todo = <<"write", "exit">>]
      <4> HIDE DEF b
      <4> QED BY <3>2, AfterIs
    <3>4. After(b) = t
      BY <1>2, <3>3 DEF TailRecord
    <3> QED BY <3>1, <3>4, Zenon DEF Goes
  <2>4. /\ t \in TailRecord /\ t.todo = <<"write", "exit">> /\ t.sid = tail[h].sid
        /\ t.alone = tail[h].alone /\ t.rendered = w
    <3> HIDE DEF w
    <3> QED BY <1>2, <1>7, <2>2 DEF TailRecord
  <2>5. window' = window /\ flag' = flag
    BY <1>14 DEF Look
  <2> HIDE DEF t, w
  <2> QED BY <1>6, <1>8, <1>9, <1>10, <1>11, <2>1, <2>2, <2>3, <2>4, <2>5
<1>15. CASE WriteWindow(h)
  <2>1. r = <<"write", "exit">>
    BY <1>2, <1>15, NextStep DEF WriteWindow
  <2> DEFINE b == [tail[h] EXCEPT !.rendered = "none"]
             t == [tail[h] EXCEPT !.rendered = "none", !.todo = <<"exit">>]
  <2>2. tail' = [tail EXCEPT ![h] = t]
    <3>1. b.todo = <<"write", "exit">>
      BY <1>2, <2>1 DEF TailRecord
    <3>2. After(b) = [b EXCEPT !.todo = <<"exit">>]
      <4> HIDE DEF b
      <4> QED BY <3>1, AfterIs
    <3>3. After(b) = t
      BY <1>2, <3>2 DEF TailRecord
    <3> QED BY <1>15, <3>3, Zenon DEF WriteWindow, Goes
  <2>3. /\ t \in TailRecord /\ t.todo = <<"exit">> /\ t.sid = tail[h].sid
        /\ t.alone = tail[h].alone
    <3>1. "none" \in Symbols
      BY DEF Symbols
    <3> QED BY <1>2, <1>7, <3>1 DEF TailRecord
  <2>4. window' = tail[h].rendered /\ flag' = flag
    BY <1>15 DEF WriteWindow
  <2> HIDE DEF t
  <2> QED BY <1>2, <1>6, <1>8, <1>9, <1>10, <1>11, <2>1, <2>2, <2>3, <2>4
<1> QED BY <1>12, <1>13, <1>14, <1>15

\* The steps that remove and send the notification.
LEMMA NoticeStep ==
  ASSUME TailTypeOK, RestInv, AloneInv, MessageInv, NoticeInv,
         NEW h \in HookProc, part' = part, Notifies(h)
  PROVE  TailTypeOK' /\ RestInv' /\ AloneInv' /\ MessageInv' /\ TmuxInv' /\ NoticeInv'
<1> DEFINE r == tail[h].todo
<1>1. PICK n \in {"clear", "permission", "stopped"} :
        /\ Does(h, n)
        /\ shown' = [shown EXCEPT ![tail[h].sid] = IF n = "clear" THEN "none" ELSE n]
  BY DEF Notifies
<1>2. Busy(h)
  BY <1>1 DEF Does
<1>3. /\ part \in DOMAIN Part /\ r \in Rest[part] /\ tail[h].sid \in Sid
      /\ tail[h] \in TailRecord
  BY <1>2, TailFields DEF RestInv, TailTypeOK
<1>4. /\ part = "notice"
      /\ r \in {<<"clear", "exit">>, <<"clear", "stopped", "exit">>,
                <<"permission", "exit">>, <<"stopped", "exit">>}
  BY <1>1, <1>3, NextStep
<1>5. /\ said' = said /\ last' = last /\ endLast' = endLast /\ option' = option
      /\ window' = window /\ flag' = flag /\ proc' = proc /\ Goes(h, tail[h])
  BY DEF Notifies, paneVars
<1>6. MessageInv' /\ TmuxInv'
  BY <1>4, <1>5 DEF MessageInv, TmuxInv
<1>7. <<"exit">> \in Rest[part] /\ <<"stopped", "exit">> \in Rest[part]
  BY <1>4, Zenon DEF Rest, NoticeRest
<1>8. <<"exit">> \in Seq(Step) /\ <<"stopped", "exit">> \in Seq(Step)
  BY <1>3, <1>7, RestIsSteps
<1>9. PICK q \in {<<"exit">>, <<"stopped", "exit">>} :
        /\ After(tail[h]) = [tail[h] EXCEPT !.todo = q]
        /\ q = <<"stopped", "exit">> => r = <<"clear", "stopped", "exit">>
  <2>1. <<"exit">> # <<"stopped", "exit">>
    OBVIOUS
  <2>2. CASE r = <<"clear", "stopped", "exit">>
    BY <2>2, AfterIs
  <2>3. CASE r # <<"clear", "stopped", "exit">>
    BY <1>4, <2>1, <2>3, AfterIs
  <2> QED BY <2>2, <2>3
<1> DEFINE t == [tail[h] EXCEPT !.todo = q]
<1>10. tail' = [tail EXCEPT ![h] = t]
  BY <1>5, <1>9, Zenon DEF Goes
<1>11. t \in TailRecord /\ t.todo = q /\ t.sid = tail[h].sid /\ t.alone = tail[h].alone
  BY <1>3, <1>8, <1>9 DEF TailRecord
<1> HIDE DEF t
<1>12. /\ tail' \in [HookProc -> TailRecord] /\ RestInv' /\ AloneInv' /\ tail'[h] = t
       /\ \A g \in HookProc \ {h} : tail'[g] = tail[g] /\ (Busy(g)' <=> Busy(g))
  BY <1>2, <1>7, <1>9, <1>10, <1>11, GoesOn
<1>13. TailTypeOK'
  <2>1. shown' \in [Sid -> {"none", "permission", "stopped"}]
    BY <1>1, <1>3 DEF TailTypeOK
  <2> QED BY <1>5, <1>12, <2>1 DEF TailTypeOK
<1>14. NoticeInv'
  <2>1. ASSUME NEW g \in HookProc, Busy(g)', tail'[g].alone PROVE g = h
    BY <1>2, <1>12, <2>1 DEF AloneInv
  <2>2. tail[h].alone /\ q = <<"stopped", "exit">> => Answered(tail[h].sid)
    <3>1. <<"clear", "stopped", "exit">> \notin {<<"exit">>, <<"permission", "exit">>}
      OBVIOUS
    <3> QED BY <1>2, <1>4, <1>9, <3>1 DEF NoticeInv
  <2>3. tail[h].alone => q \in {<<"exit">>, <<"permission", "exit">>} \/ Answered(tail[h].sid)'
    <3>1. Answered(tail[h].sid) => Answered(tail[h].sid)'
      <4>1. tail'[h].sid = tail[h].sid
        BY <1>11, <1>12
      <4> QED BY <1>5, <4>1 DEF Answered
    <3>2. q = <<"exit">> \/ q = <<"stopped", "exit">>
      BY <1>9
    <3> QED BY <2>2, <3>1, <3>2
  <2> QED BY <1>11, <1>12, <2>1, <2>3 DEF NoticeInv
<1> QED BY <1>6, <1>12, <1>13, <1>14

\* A tail that ends leaves nothing in hand.
LEMMA LastStep ==
  ASSUME TailTypeOK, RestInv, AloneInv, MessageInv, TmuxInv, NoticeInv,
         NEW h \in HookProc, part' = part, Exits(h)
  PROVE  TailTypeOK' /\ RestInv' /\ AloneInv' /\ MessageInv' /\ TmuxInv' /\ NoticeInv'
<1>1. Busy(h)
  BY DEF Exits, Does
<1>2. /\ part \in DOMAIN Part /\ tail[h].todo \in Rest[part]
  BY <1>1 DEF RestInv, TailTypeOK
<1>3. tail[h].todo = <<"exit">>
  BY <1>2, NextStep DEF Exits
<1>4. /\ said' = said /\ last' = last /\ endLast' = endLast /\ option' = option /\ shown' = shown
      /\ window' = window /\ flag' = flag /\ file' = file /\ proc' = proc
      /\ Goes(h, tail[h])
  BY DEF Exits, paneVars
<1>5. tail' = [tail EXCEPT ![h] = Idle]
  BY <1>3, <1>4, AfterIs, Zenon DEF Goes
<1>6. Idle \in TailRecord /\ Idle.todo = <<>> /\ <<>> \in Rest[part]
  <2>1. 0 \in 0 .. MaxSaid /\ "none" \in Symbols
    BY TailAssumption DEF Symbols
  <2>2. <<>> \in Rest[part]
    <3>1. part \in {"message", "tmux", "notice"}
      BY <1>2 DEF Part
    <3>2. <<>> \in MessageRest /\ <<>> \in TmuxRest /\ <<>> \in NoticeRest
      BY Zenon DEF MessageRest, TmuxRest, NoticeRest
    <3> QED BY <3>1, <3>2 DEF Rest
  <2> QED BY <2>1, <2>2 DEF Idle, TailRecord
<1>7. /\ tail' \in [HookProc -> TailRecord] /\ RestInv' /\ AloneInv' /\ ~Busy(h)'
      /\ \A g \in HookProc \ {h} : tail'[g] = tail[g] /\ (Busy(g)' <=> Busy(g))
  BY <1>1, <1>5, <1>6, GoesOn
<1>8. TailTypeOK'
  BY <1>4, <1>7 DEF TailTypeOK
<1>9. MessageInv'
  BY <1>4, <1>7 DEF MessageInv
<1>10. TmuxInv'
  BY <1>4, <1>7 DEF TmuxInv
<1>11. NoticeInv'
  BY <1>4, <1>7 DEF NoticeInv, Answered
<1> QED BY <1>7, <1>8, <1>9, <1>10, <1>11

-----------------------------------------------------------------------------
(* The hooks that run *)

\* The events whose hooks leave a tail: the document that they have saved, and
\* what the event says about the process.
LEMMA HookRunsIs ==
  ASSUME PaneInv, NEW h \in HookProc, HookRuns(h)
  PROVE  /\ PaneNext /\ proc.sid \in Sid /\ proc'.sid = proc.sid
         /\ file'[proc.sid] \in SessionRecord
         /\ option' \in {option, proc.sid}
         /\ \E e \in HookEvent :
              /\ Saved(h, e)
              /\ e = "Stop" => proc'.main = "idle"
              /\ e = "PermissionRequest" => has_pending_permission_requests(file'[proc.sid])
<1> DEFINE Fired(e) ==
             /\ proc # None /\ proc'.sid = proc.sid /\ e \in HookEvent
             /\ Saved(h, e)
             /\ e = "Stop" => proc'.main = "idle"
             /\ \E i \in HookInput : i.event = e /\ (Hook(i) \/ TakeoverHook(i))
<1>0. PaneTypeOK /\ (proc # None => proc \in Process /\ proc.sid \in Sid)
  BY DEF PaneInv, PaneTypeOK, Process
<1>1. ASSUME NEW e, Fired(e)
      PROVE  /\ proc.sid \in Sid /\ proc'.sid = proc.sid
             /\ file'[proc.sid] \in SessionRecord
             /\ \E f \in HookEvent :
                  /\ Saved(h, f)
                  /\ f = "Stop" => proc'.main = "idle"
                  /\ f = "PermissionRequest" =>
                       has_pending_permission_requests(file'[proc.sid])
  <2>1. PICK i \in HookInput : i.event = e /\ (Hook(i) \/ TakeoverHook(i))
    BY <1>1
  <2>2. Doc \in SessionDoc /\ proc.sid \in Sid
    BY <1>0, <1>1 DEF PaneTypeOK, SessionDoc, Doc
  <2>3. file'[proc.sid] = ApplyHook(Doc, i)
    BY <1>0, <1>1, <2>1, HookStep, TakeoverStep
  <2>4. /\ file'[proc.sid] \in SessionRecord
        /\ file'[proc.sid].pending_permission_agent_ids = PermissionsAfter(Base(Doc, i), i)
    BY <2>2, <2>3, HookResult
  <2>5. e = "PermissionRequest" => has_pending_permission_requests(file'[proc.sid])
    BY <2>1, <2>4 DEF PermissionsAfter, has_pending_permission_requests
  <2> QED BY <1>1, <2>2, <2>4, <2>5
<1>2. CASE SessionStartHook /\ Saved(h, "SessionStart") /\ TakesPane
  <2>1. Fired("SessionStart")
    <3>1. PICK i \in HookInput : i = [Event("SessionStart", Main) EXCEPT !.kind = "resume"]
      BY <1>0, <1>2, EventTyped DEF SessionStartHook
    <3>2. i.event = "SessionStart" /\ TakeoverHook(i)
      BY <1>2, <3>1 DEF SessionStartHook, Event
    <3> QED BY <1>0, <1>2, <3>2 DEF SessionStartHook, Process, HookEvent
  <2>2. PaneNext
    BY <1>2 DEF PaneNext, AgentStep, TurnStep
  <2> QED BY <1>1, <1>2, <2>1, <2>2 DEF TakesPane
<1>3. CASE Prompt /\ Saved(h, "UserPromptSubmit")
                  /\ IF file[proc.sid] = None THEN TakesPane ELSE UNCHANGED option
  <2>1. Fired("UserPromptSubmit")
    <3>1. PICK i \in HookInput : i = Event("UserPromptSubmit", Main)
      BY <1>0, <1>3, EventTyped DEF Prompt, HookEvent, AgentKey, Main
    <3>2. i.event = "UserPromptSubmit" /\ (Hook(i) \/ TakeoverHook(i))
      BY <1>3, <3>1 DEF Prompt, Event
    <3> QED BY <1>0, <1>3, <3>2 DEF Prompt, Process, HookEvent
  <2>2. PaneNext
    BY <1>3 DEF PaneNext, UserStep
  <2> QED BY <1>1, <1>3, <2>1, <2>2 DEF TakesPane
<1>4. ASSUME NEW k \in AgentKey, NEW e \in {"PreToolUse", "PostToolUse"},
             Tool(k, e), Saved(h, e), UNCHANGED option
      PROVE  Fired(e) /\ PaneNext
  <2>1. PICK i \in HookInput : i = Event(e, k)
    BY <1>0, <1>4, EventTyped DEF Tool, Running, HookEvent
  <2>2. i.event = e /\ Hook(i)
    BY <1>4, <2>1 DEF Tool, Event
  <2>3. PaneNext
    BY <1>4 DEF PaneNext, AgentStep, TurnStep
  <2> QED BY <1>0, <1>4, <2>2, <2>3 DEF Tool, Running, HookEvent
<1>5. ASSUME NEW k \in AgentKey, AskPermission(k), Saved(h, "PermissionRequest"), UNCHANGED option
      PROVE  Fired("PermissionRequest") /\ PaneNext
  <2>1. PICK i \in HookInput : i = Event("PermissionRequest", k)
    BY <1>0, <1>5, EventTyped DEF AskPermission, Running, HookEvent
  <2>2. i.event = "PermissionRequest" /\ Hook(i)
    BY <1>5, <2>1 DEF AskPermission, Event
  <2>3. PaneNext
    BY <1>5 DEF PaneNext, AgentStep, TurnStep
  <2> QED BY <1>0, <1>5, <2>2, <2>3 DEF AskPermission, Running, Process, HookEvent
<1>6. ASSUME NEW k \in AgentKey, Answer(k), Saved(h, "PostToolUse"), UNCHANGED option
      PROVE  Fired("PostToolUse") /\ PaneNext
  <2>1. PICK i \in HookInput : i = Event("PostToolUse", k)
    BY <1>0, <1>6, EventTyped DEF Answer, HookEvent
  <2>2. i.event = "PostToolUse" /\ Hook(i)
    BY <1>6, <2>1 DEF Answer, Event
  <2>3. PaneNext
    BY <1>6 DEF PaneNext, AgentStep, TurnStep
  <2> QED BY <1>0, <1>6, <2>2, <2>3 DEF Answer, Process, HookEvent
<1>7. CASE (PermissionNotification \/ IdlePrompt) /\ Saved(h, "Notification") /\ UNCHANGED option
  <2>1. PICK i \in HookInput, kind \in {"permission_prompt", "idle_prompt"} :
          i = Notify(kind) /\ Hook(i)
    BY <1>0, <1>7, EventTyped DEF PermissionNotification, IdlePrompt
  <2>2. i.event = "Notification"
    BY <2>1 DEF Notify, Event
  <2>3. PaneNext
    BY <1>7 DEF PaneNext, AgentStep, TurnStep
  <2>4. Fired("Notification")
    BY <1>0, <1>7, <2>1, <2>2 DEF PermissionNotification, IdlePrompt, Process, HookEvent
  <2> QED BY <1>1, <1>7, <2>3, <2>4
<1>8. CASE (StopHook \/ ShutdownStop) /\ Saved(h, "Stop") /\ UNCHANGED option
  <2>1. PICK i \in HookInput : i = StopEvent /\ Hook(i)
    BY <1>0, <1>8, EventTyped DEF StopHook, ShutdownStop, Running
  <2>2. i.event = "Stop"
    BY <2>1 DEF StopEvent, Event
  <2>3. PaneNext
    BY <1>8 DEF PaneNext, AgentStep
  <2>4. Fired("Stop")
    BY <1>0, <1>8, <2>1, <2>2 DEF StopHook, ShutdownStop, Running, Process, HookEvent
  <2> QED BY <1>1, <1>8, <2>3, <2>4
<1> HIDE DEF Fired
<1>9. CASE /\ UNCHANGED option
           /\ \E k \in AgentKey :
                \/ \E e \in {"PreToolUse", "PostToolUse"} : Tool(k, e) /\ Saved(h, e)
                \/ AskPermission(k) /\ Saved(h, "PermissionRequest")
                \/ Answer(k) /\ Saved(h, "PostToolUse")
  <2>1. PaneNext /\ \E e : Fired(e)
    BY <1>4, <1>5, <1>6, <1>9
  <2> QED BY <1>1, <1>9, <2>1
<1> QED BY <1>2, <1>3, <1>7, <1>8, <1>9 DEF HookRuns

\* What each kind of tail consists of.
LEMMA TodoIs ==
  /\ \A e \in HookEvent, d \in SessionRecord :
       /\ Append(Todo(e, d)["message"], "exit") = <<"read", "store", "exit">>
       /\ Append(Todo(e, d)["tmux"], "exit") = FromFlag
       /\ e = "PermissionRequest" /\ has_pending_permission_requests(d) =>
            Append(Todo(e, d)["notice"], "exit") = <<"permission", "exit">>
       /\ e # "PermissionRequest" =>
            /\ Append(Todo(e, d)["notice"], "exit") \in NoticeRest \ {<<>>}
            /\ \/ Append(Todo(e, d)["notice"], "exit") = <<"exit">>
               \/ ~has_pending_permission_requests(d)
               \/ e = "Stop" /\ ~has_pending_bg_tasks(d)
  /\ Append(OnlyTmux["message"], "exit") = <<"exit">>
  /\ Append(OnlyTmux["tmux"], "exit") = FromFlag
  /\ Append(OnlyTmux["notice"], "exit") = <<"exit">>
  /\ Append(<<"clear">>, "exit") = <<"clear", "exit">>
  /\ Append(<<"load", "flag", "look", "write">>, "exit") = FromLoad
<1>1. /\ Append(<<>>, "exit") = <<"exit">>
      /\ Append(<<"read", "store">>, "exit") = <<"read", "store", "exit">>
      /\ Append(sync_tmux, "exit") = FromFlag
      /\ Append(<<"load", "flag", "look", "write">>, "exit") = FromLoad
      /\ \A n : Append(<<n>>, "exit") = <<n, "exit">>
      /\ Append(<<"clear", "stopped">>, "exit") = <<"clear", "stopped", "exit">>
  <2>1. Append(<<>>, "exit") = <<"exit">> /\ \A n : Append(<<n>>, "exit") = <<n, "exit">>
    BY Appended, Zenon
  <2>2. /\ Append(<<"read", "store">>, "exit") = <<"read", "store", "exit">>
        /\ Append(<<"clear", "stopped">>, "exit") = <<"clear", "stopped", "exit">>
    BY Appended, Zenon
  <2>3. Append(sync_tmux, "exit") = FromFlag
    BY Appended, Zenon DEF sync_tmux, FromFlag
  <2>4. Append(<<"load", "flag", "look", "write">>, "exit") = FromLoad
    BY Appended DEF FromLoad
  <2> QED BY <2>1, <2>2, <2>3, <2>4, Zenon
<1>2. ASSUME NEW e \in HookEvent, NEW d \in SessionRecord
      PROVE  /\ Todo(e, d)["message"] = <<"read", "store">> /\ Todo(e, d)["tmux"] = sync_tmux
             /\ e = "PermissionRequest" /\ has_pending_permission_requests(d) =>
                  Todo(e, d)["notice"] = <<"permission">>
             /\ e # "PermissionRequest" =>
                  \/ Todo(e, d)["notice"] = <<>>
                  \/ /\ Todo(e, d)["notice"] \in {<<"clear">>, <<"clear", "stopped">>}
                     /\ ~has_pending_permission_requests(d)
                  \/ /\ Todo(e, d)["notice"] = <<"stopped">>
                     /\ e = "Stop" /\ ~has_pending_bg_tasks(d)
  <2> DEFINE p == IF removes_group(e, d) THEN <<"clear">> ELSE <<>>
             q == IF is_notifiable_event(e, d)
                    THEN <<IF e = "PermissionRequest" THEN "permission" ELSE "stopped">> ELSE <<>>
  <2>1. /\ Todo(e, d)["message"] = <<"read", "store">> /\ Todo(e, d)["tmux"] = sync_tmux
        /\ Todo(e, d)["notice"] = p \o q
    <3> HIDE DEF p, q
    <3>1. Todo(e, d) = [message |-> <<"read", "store">>, tmux |-> sync_tmux, notice |-> p \o q]
      BY Zenon DEF Todo, p, q
    <3> QED BY <3>1
  <2>2. /\ p = <<"clear">> \/ p = <<>>
        /\ p = <<"clear">> => e # "Notification" /\ ~has_pending_permission_requests(d)
        /\ e = "PermissionRequest" => q = <<"permission">>
        /\ e # "PermissionRequest" =>
             q = <<>> \/ (q = <<"stopped">> /\ e = "Stop" /\ ~has_pending_bg_tasks(d))
    BY DEF removes_group, is_notifiable_event
  <2> HIDE DEF p, q
  <2>3. /\ p = <<>> => p \o q = q
        /\ p = <<"clear">> /\ q = <<>> => p \o q = <<"clear">>
        /\ p = <<"clear">> /\ q = <<"stopped">> => p \o q = <<"clear", "stopped">>
    <3>1. q \in Seq({"permission", "stopped"})
      <4>1. CASE q = <<>>
        BY <4>1
      <4>2. CASE q # <<>>
        <5>1. q = <<"permission">> \/ q = <<"stopped">>
          BY <2>2, <4>2
        <5>2. \A n \in {"permission", "stopped"} : <<n>> \in Seq({"permission", "stopped"})
          OBVIOUS
        <5> QED BY <5>1, <5>2, Zenon
      <4> QED BY <4>1, <4>2
    <3>2. p = <<>> => p \o q = q
      BY <3>1, ConcatEmptySeq
    <3>3. p = <<"clear">> /\ q = <<>> => p \o q = <<"clear">>
      BY Joined, Zenon
    <3>4. p = <<"clear">> /\ q = <<"stopped">> => p \o q = <<"clear", "stopped">>
      BY Joined, Zenon
    <3> QED BY <3>2, <3>3, <3>4
  <2> QED BY <2>1, <2>2, <2>3
<1>3. ASSUME NEW e \in HookEvent, NEW d \in SessionRecord
      PROVE  /\ Append(Todo(e, d)["message"], "exit") = <<"read", "store", "exit">>
             /\ Append(Todo(e, d)["tmux"], "exit") = FromFlag
             /\ e = "PermissionRequest" /\ has_pending_permission_requests(d) =>
                  Append(Todo(e, d)["notice"], "exit") = <<"permission", "exit">>
             /\ e # "PermissionRequest" =>
                  /\ Append(Todo(e, d)["notice"], "exit") \in NoticeRest \ {<<>>}
                  /\ \/ Append(Todo(e, d)["notice"], "exit") = <<"exit">>
                     \/ ~has_pending_permission_requests(d)
                     \/ e = "Stop" /\ ~has_pending_bg_tasks(d)
  <2>1. /\ Append(Todo(e, d)["message"], "exit") = <<"read", "store", "exit">>
        /\ Append(Todo(e, d)["tmux"], "exit") = FromFlag
        /\ e = "PermissionRequest" /\ has_pending_permission_requests(d) =>
             Append(Todo(e, d)["notice"], "exit") = <<"permission", "exit">>
    BY <1>1, <1>2, Zenon
  <2>2. /\ <<"exit">> \in NoticeRest \ {<<>>} /\ <<"clear", "exit">> \in NoticeRest \ {<<>>}
        /\ <<"clear", "stopped", "exit">> \in NoticeRest \ {<<>>}
        /\ <<"stopped", "exit">> \in NoticeRest \ {<<>>}
    BY DEF NoticeRest
  <2>3. ASSUME e # "PermissionRequest"
        PROVE  /\ Append(Todo(e, d)["notice"], "exit") \in NoticeRest \ {<<>>}
               /\ \/ Append(Todo(e, d)["notice"], "exit") = <<"exit">>
                  \/ ~has_pending_permission_requests(d)
                  \/ e = "Stop" /\ ~has_pending_bg_tasks(d)
    <3>1. CASE Todo(e, d)["notice"] = <<>>
      BY <1>1, <2>2, <3>1, Zenon
    <3>2. CASE Todo(e, d)["notice"] = <<"clear">> /\ ~has_pending_permission_requests(d)
      BY <1>1, <2>2, <3>2, Zenon
    <3>3. CASE Todo(e, d)["notice"] = <<"clear", "stopped">> /\ ~has_pending_permission_requests(d)
      BY <1>1, <2>2, <3>3, Zenon
    <3>4. CASE Todo(e, d)["notice"] = <<"stopped">> /\ e = "Stop" /\ ~has_pending_bg_tasks(d)
      BY <1>1, <2>2, <3>4, Zenon
    <3> QED BY <1>2, <2>3, <3>1, <3>2, <3>3, <3>4, Zenon
  <2> QED BY <2>1, <2>3
<1>4. OnlyTmux["message"] = <<>> /\ OnlyTmux["tmux"] = sync_tmux /\ OnlyTmux["notice"] = <<>>
  BY DEF OnlyTmux
<1> QED BY <1>1, <1>3, <1>4, Zenon

-----------------------------------------------------------------------------
(* Every step keeps what the tails know *)

\* The save of a hook, and the tail that begins with it.
LEMMA HookBegins ==
  ASSUME PaneInv, PaneInv', TailTypeOK, RestInv, AloneInv, MessageInv,
         NEW h \in HookProc, HookRuns(h), part' = part
  PROVE  TailTypeOK' /\ RestInv' /\ AloneInv' /\ MessageInv' /\ TmuxInv' /\ NoticeInv'
<1> DEFINE s == proc.sid
           d == file'[proc.sid]
<1>1. /\ s \in Sid /\ proc'.sid = s /\ d \in SessionRecord /\ option' \in {option, s}
      /\ \E e \in HookEvent :
           /\ Saved(h, e)
           /\ e = "Stop" => proc'.main = "idle"
           /\ e = "PermissionRequest" => has_pending_permission_requests(d)
  BY HookRunsIs
<1>2. PICK e \in HookEvent :
        /\ Saved(h, e)
        /\ e = "Stop" => proc'.main = "idle"
        /\ e = "PermissionRequest" => has_pending_permission_requests(d)
  BY <1>1
<1> DEFINE todo == Todo(e, d)
           paused == d.status = "Paused"
<1>3. /\ Begins(h, s, todo, paused) /\ paused \in BOOLEAN
      /\ said' = said /\ last' = last /\ endLast' = endLast
      /\ window' = window /\ flag' = flag /\ shown' = shown
  BY <1>2 DEF Saved
<1>4. paused <=> IsPaused(d)
  BY <1>1, NoneAssumption DEF IsPaused
\* A prompt that is open is recorded, and a subagent that waits is in flight.
<1>5. ~has_pending_permission_requests(d) \/ (e = "Stop" /\ ~has_pending_bg_tasks(d))
        => Answered(s)'
  <2> SUFFICES ASSUME proc' # None, proc'.waiting # {},
                      \/ ~has_pending_permission_requests(d)
                      \/ e = "Stop" /\ ~has_pending_bg_tasks(d)
               PROVE  FALSE
    BY DEF Answered
  <2>1. proc'.sid = s /\ Doc' = d
    BY <1>1 DEF Doc
  <2>2. has_pending_permission_requests(d)
    BY <2>1 DEF PaneInv, PromptInv, has_pending_permission_requests
  <2>3. e = "Stop" /\ ~has_pending_bg_tasks(d) /\ proc'.main = "idle"
    BY <1>2, <2>2
  <2>4. proc'.agents = {}
    BY <2>1, <2>3 DEF PaneInv, DocInv, has_pending_bg_tasks
  <2>5. Main \notin proc'.waiting /\ proc'.waiting \subseteq proc'.agents \cup {Main}
    BY <2>3 DEF PaneInv, ProcInv, Main
  <2> QED BY <2>4, <2>5
<1>6. Fits(s, todo, paused)
  <2>1. /\ Append(todo["message"], "exit") = <<"read", "store", "exit">>
        /\ Append(todo["tmux"], "exit") = FromFlag
        /\ e = "PermissionRequest" => Append(todo["notice"], "exit") = <<"permission", "exit">>
        /\ e # "PermissionRequest" =>
             /\ Append(todo["notice"], "exit") \in NoticeRest \ {<<>>}
             /\ \/ Append(todo["notice"], "exit") = <<"exit">>
                \/ ~has_pending_permission_requests(d)
                \/ e = "Stop" /\ ~has_pending_bg_tasks(d)
    BY <1>1, <1>2, TodoIs, Zenon
  <2>2. <<"permission", "exit">> \in NoticeRest \ {<<>>}
    BY DEF NoticeRest
  <2> HIDE DEF todo, paused, d
  <2>3. /\ Append(todo["notice"], "exit") \in NoticeRest \ {<<>>}
        /\ \/ Append(todo["notice"], "exit") \in {<<"exit">>, <<"permission", "exit">>}
           \/ Answered(s)'
    BY <1>5, <2>1, <2>2, Zenon
  <2>4. paused <=> IsPaused(file'[s])
    BY <1>4 DEF d
  <2> QED BY <2>1, <2>3, <2>4, Zenon DEF Fits
<1>7. /\ option' \in Sid \cup {None}
      /\ last' \in [Sid -> 0 .. MaxSaid] /\ endLast' \in [Sid -> 0 .. MaxSaid]
      /\ \A t \in Sid : last'[t] <= said[t] /\ endLast'[t] <= said[t]
  BY <1>1, <1>3 DEF TailTypeOK, MessageInv
<1> HIDE DEF todo, paused, d
<1> QED BY <1>1, <1>3, <1>6, <1>7, BeginKeeps

\* The others that set the flag and the window, and the exit hook that also
\* removes the notification of its session.
LEMMA OthersBegin ==
  ASSUME PaneInv, PaneInv', TailTypeOK, RestInv, AloneInv, MessageInv,
         NEW h \in HookProc, part' = part, NEW s \in Sid,
         \/ SessionEndLoad(h, s) /\ tail' # tail
         \/ SessionEndSave(h, s) \/ SweepPauses(h, s) \/ Focus(h)
  PROVE  TailTypeOK' /\ RestInv' /\ AloneInv' /\ MessageInv' /\ TmuxInv' /\ NoticeInv'
<1>1. /\ said \in [Sid -> 0 .. MaxSaid] /\ last \in [Sid -> 0 .. MaxSaid]
      /\ endLast \in [Sid -> 0 .. MaxSaid] /\ option \in Sid \cup {None}
      /\ 0 \in 0 .. MaxSaid /\ MaxSaid \in Nat
      /\ \A t \in Sid : last[t] <= said[t] /\ endLast[t] <= said[t]
  BY TailAssumption DEF TailTypeOK, MessageInv
<1>2. Append(OnlyTmux["notice"], "exit") \in NoticeRest \ {<<>>}
  <2>1. <<"exit">> \in NoticeRest \ {<<>>}
    BY DEF NoticeRest
  <2> QED BY <2>1, TodoIs, Zenon
<1>3. CASE SessionEndLoad(h, s) /\ tail' # tail
  <2>1. /\ Begins(h, s, OnlyTmux, TRUE) /\ file[s] # None /\ file[s].status = "Paused"
        /\ file' = file /\ said' = said /\ last' = last /\ option' = option
        /\ window' = window /\ flag' = flag /\ shown' = shown
        /\ endLast' = [endLast EXCEPT ![s] = IF ending'[s].at = "loaded" THEN last[s] ELSE 0]
    BY <1>3 DEF SessionEndLoad, EndLoad
  <2>2. Fits(s, OnlyTmux, TRUE)
    <3>1. IsPaused(file'[s])
      BY <2>1 DEF IsPaused
    <3> QED BY <1>2, <3>1, TodoIs, Zenon DEF Fits
  <2>3. endLast' \in [Sid -> 0 .. MaxSaid] /\ \A t \in Sid : endLast'[t] <= said[t]
    BY <1>1, <2>1
  <2> QED BY <1>1, <2>1, <2>2, <2>3, BeginKeeps
<1>4. CASE SweepPauses(h, s)
  <2>1. /\ Begins(h, s, OnlyTmux, TRUE) /\ file[s] # None
        /\ file' = [file EXCEPT ![s].status = "Paused", ![s].sweep_signaled = FALSE]
        /\ said' = said /\ last' = last /\ endLast' = endLast /\ option' = option
        /\ window' = window /\ flag' = flag /\ shown' = shown
    BY <1>4 DEF SweepPauses, IsIdle
  <2>2. IsPaused(file'[s])
    <3>1. file \in [Sid -> SessionDoc] /\ file[s] \in SessionRecord
      BY <2>1 DEF PaneInv, PaneTypeOK, SessionDoc
    <3>2. file'[s] \in SessionRecord /\ file'[s].status = "Paused"
      BY <2>1, <3>1 DEF SessionRecord, Status
    <3> QED BY <3>2, NoneAssumption DEF IsPaused
  <2>3. Fits(s, OnlyTmux, TRUE)
    BY <1>2, <2>2, TodoIs, Zenon DEF Fits
  <2> QED BY <1>1, <2>1, <2>3, BeginKeeps
<1>5. CASE SessionEndSave(h, s)
  <2> DEFINE todo == [OnlyTmux EXCEPT !.notice =
                        IF file'[s].status = "Ended" THEN <<"clear">> ELSE @]
             paused == file'[s].status = "Paused"
  <2>1. /\ EndSave(s) /\ Begins(h, s, todo, paused) /\ paused \in BOOLEAN
        /\ said' = said /\ option' = option
        /\ window' = window /\ flag' = flag /\ shown' = shown
        /\ last' = [last EXCEPT ![s] = endLast[s]]
        /\ endLast' = [endLast EXCEPT ![s] = 0]
    BY <1>5 DEF SessionEndSave
  <2>2. /\ last' \in [Sid -> 0 .. MaxSaid] /\ endLast' \in [Sid -> 0 .. MaxSaid]
        /\ \A t \in Sid : last'[t] <= said[t] /\ endLast'[t] <= said[t]
    BY <1>1, <2>1
  <2>3. file'[s] # None
    <3>1. ending[s].copy \in SessionRecord /\ s \in DOMAIN file
      BY <2>1 DEF EndSave, PaneInv, EndingInv, PaneTypeOK, EndingHook
    <3> QED BY <2>1, <3>1, OtherResults, NoneAssumption DEF EndSave
  <2>4. Answered(s)'
    <3>1. proc' = proc /\ (proc = None \/ proc.main = "exiting")
      BY <2>1 DEF EndSave, PaneInv, EndingInv
    <3> QED BY <3>1 DEF PaneInv, ProcInv, Answered
  <2>5. /\ todo["message"] = OnlyTmux["message"] /\ todo["tmux"] = OnlyTmux["tmux"]
        /\ todo["notice"] = <<"clear">> \/ todo["notice"] = OnlyTmux["notice"]
    BY DEF OnlyTmux
  <2>6. paused <=> IsPaused(file'[s])
    BY <2>3 DEF IsPaused
  <2> HIDE DEF todo, paused
  <2>7. Fits(s, todo, paused)
    <3>1. <<"clear", "exit">> \in NoticeRest \ {<<>>}
      BY DEF NoticeRest
    <3>2. Append(todo["notice"], "exit") \in NoticeRest \ {<<>>}
      BY <1>2, <2>5, <3>1, TodoIs, Zenon
    <3>3. /\ Append(todo["message"], "exit") = <<"exit">>
          /\ Append(todo["tmux"], "exit") = FromFlag
      BY <2>5, TodoIs, Zenon
    <3> QED BY <2>4, <2>6, <3>2, <3>3, Zenon DEF Fits
  <2> QED BY <1>1, <2>1, <2>2, <2>7, BeginKeeps
<1>6. CASE Focus(h)
  <2> DEFINE todo == [OnlyTmux EXCEPT !.tmux = <<"load", "flag", "look", "write">>]
  <2>1. /\ Begins(h, option, todo, FALSE) /\ option \in Sid
        /\ said' = said /\ last' = last /\ endLast' = endLast /\ option' = option
        /\ window' = window /\ flag' = flag /\ shown' = shown
    BY <1>1, <1>6 DEF Focus
  <2>2. /\ todo["message"] = OnlyTmux["message"] /\ todo["notice"] = OnlyTmux["notice"]
        /\ todo["tmux"] = <<"load", "flag", "look", "write">>
    BY DEF OnlyTmux
  <2> HIDE DEF todo
  <2>3. Fits(option, todo, FALSE)
    <3>1. /\ Append(todo["message"], "exit") = <<"exit">>
          /\ Append(todo["notice"], "exit") = <<"exit">>
          /\ Append(todo["tmux"], "exit") = FromLoad
          /\ Append(todo["notice"], "exit") \in NoticeRest \ {<<>>}
      BY <1>2, <2>2, TodoIs, Zenon
    <3>2. FromLoad # FromFlag
      BY DEF FromLoad, FromFlag
    <3> QED BY <3>1, <3>2, Zenon DEF Fits
  <2> QED BY <1>1, <2>1, <2>3, BeginKeeps
<1> QED BY <1>3, <1>4, <1>5, <1>6

\* Who has no tail changes nothing that a tail which is alone relies on: the
\* process may end or be signaled, work may end, an exit hook may look.
LEMMA OthersPass ==
  ASSUME PaneInv, TailTypeOK, RestInv, AloneInv, MessageInv, TmuxInv, NoticeInv,
         part' = part, tail' = tail,
         \/ NoHookRuns
         \/ \E s \in Sid : SweepSignals(s) \/ \E h \in HookProc : SessionEndLoad(h, s)
         \/ UNCHANGED vars
  PROVE  TailTypeOK' /\ RestInv' /\ AloneInv' /\ MessageInv' /\ TmuxInv' /\ NoticeInv'
<1>1. /\ said' = said /\ last' = last /\ option' = option
      /\ window' = window /\ flag' = flag /\ shown' = shown
  BY DEF NoHookRuns, SweepSignals, SessionEndLoad, vars, tailVars
<1>2. /\ endLast' \in [Sid -> 0 .. MaxSaid]
      /\ \A t \in Sid : endLast'[t] <= said[t]
  <2>1. CASE endLast' = endLast
    BY <2>1 DEF TailTypeOK, MessageInv
  <2>2. ASSUME NEW h \in HookProc, NEW s \in Sid, SessionEndLoad(h, s)
        PROVE  /\ endLast' \in [Sid -> 0 .. MaxSaid]
               /\ \A t \in Sid : endLast'[t] <= said[t]
    <3>1. endLast' = [endLast EXCEPT ![s] = IF ending'[s].at = "loaded" THEN last[s] ELSE 0]
      BY <2>2 DEF SessionEndLoad
    <3>2. /\ endLast \in [Sid -> 0 .. MaxSaid] /\ last \in [Sid -> 0 .. MaxSaid]
          /\ said \in [Sid -> 0 .. MaxSaid] /\ MaxSaid \in Nat
          /\ \A t \in Sid : last[t] <= said[t] /\ endLast[t] <= said[t]
      BY TailAssumption DEF TailTypeOK, MessageInv
    <3> QED BY <3>1, <3>2
  <2> QED BY <2>1, <2>2 DEF NoHookRuns, SweepSignals, vars, tailVars
<1>3. \A h \in HookProc : Busy(h)' <=> Busy(h)
  BY DEF Busy
<1>4. TailTypeOK' /\ RestInv' /\ AloneInv' /\ MessageInv'
  <2>1. TailTypeOK'
    BY <1>1, <1>2 DEF TailTypeOK
  <2>2. RestInv' /\ AloneInv'
    BY <1>3 DEF RestInv, AloneInv
  <2>3. MessageInv'
    BY <1>1, <1>2, <1>3 DEF MessageInv
  <2> QED BY <2>1, <2>2, <2>3
\* sweep marks a document that it signals, which shows nowhere.
<1>5. \A t \in Sid : /\ IsPaused(file'[t]) <=> IsPaused(file[t])
                     /\ format_window_symbol(file'[t]) = format_window_symbol(file[t])
  <2>1. CASE file' = file
    BY <2>1
  <2>2. ASSUME NEW s \in Sid, SweepSignals(s), NEW t \in Sid
        PROVE  /\ IsPaused(file'[t]) <=> IsPaused(file[t])
               /\ format_window_symbol(file'[t]) = format_window_symbol(file[t])
    <3>1. /\ file \in [Sid -> SessionDoc] /\ file[s] \in SessionRecord
          /\ file' = [file EXCEPT ![s].sweep_signaled = TRUE]
      BY <2>2 DEF SweepSignals, IsIdle, PaneInv, PaneTypeOK, SessionDoc
    <3>2. CASE t # s
      BY <3>1, <3>2
    <3>3. CASE t = s
      <4>1. /\ file'[t] \in SessionRecord /\ file'[t].status = file[t].status
            /\ file'[t].read = file[t].read
        BY <3>1, <3>3 DEF SessionRecord
      <4>2. file'[t] # None /\ file[t] # None
        BY <3>1, <3>3, <4>1, NoneAssumption
      <4> QED BY <4>1, <4>2 DEF IsPaused, format_window_symbol, is_unread_stopped
    <3> QED BY <3>2, <3>3
  <2> QED BY <2>1, <2>2
      DEF NoHookRuns, StartClaude, ResumeClaude, Launch, Deny, Spawn, Finish, Quit, ObeySigterm,
          ShutDown, Exit, Crash, SessionEndLoad, EndLoad, vars, paneVars
<1>6. ASSUME part = "tmux", NEW h \in HookProc, Busy(h), tail[h].alone, option = tail[h].sid
      PROVE  /\ IsPaused(file'[option]) <=> IsPaused(file[option])
             /\ format_window_symbol(file'[option]) = format_window_symbol(file[option])
  BY <1>5, <1>6 DEF RestInv
<1>7. TmuxInv'
  BY <1>1, <1>3, <1>6 DEF TmuxInv
<1>8. \A s \in Sid : Answered(s) => Answered(s)'
  <2> SUFFICES ASSUME NEW s \in Sid, Answered(s), proc' # None PROVE proc'.sid # s \/ proc'.waiting = {}
    BY DEF Answered
  <2>1. proc # None => proc \in Process
    BY DEF PaneInv, PaneTypeOK
  <2>2. CASE \E t \in Sid : StartClaude(t) \/ ResumeClaude(t)
    BY <2>2 DEF StartClaude, ResumeClaude, Launch
  <2>3. CASE (\E a \in Agent : Deny(a)) \/ Spawn \/ Finish
    <3>1. proc # None /\ proc'.sid = proc.sid /\ proc'.waiting \subseteq proc.waiting
      <4>1. CASE Spawn
        BY <2>1, <4>1 DEF Spawn, Running, Process
      <4>2. CASE Finish
        BY <2>1, <4>2 DEF Finish, Process
      <4>3. CASE \E a \in Agent : Deny(a)
        BY <2>1, <4>3 DEF Deny, Process
      <4> QED BY <2>3, <4>1, <4>2, <4>3
    <3> QED BY <3>1 DEF Answered
  <2>4. CASE Quit \/ ObeySigterm
    BY <2>1, <2>4 DEF Quit, ObeySigterm, ShutDown, Process
  <2>5. CASE Exit \/ Crash
    BY <2>5 DEF Exit, Crash
  <2>6. CASE \E t \in Sid : SweepSignals(t)
    <3>1. proc # None /\ proc'.sid = proc.sid /\ proc'.waiting = proc.waiting
      BY <2>1, <2>6 DEF SweepSignals, Sigterm, Process
    <3> QED BY <3>1 DEF Answered
  <2>7. CASE proc' = proc
    BY <2>7 DEF Answered
  <2> QED BY <2>2, <2>3, <2>4, <2>5, <2>6, <2>7
      DEF NoHookRuns, SessionEndLoad, EndLoad, vars, paneVars
<1>9. NoticeInv'
  BY <1>3, <1>8 DEF NoticeInv, RestInv
<1> QED BY <1>4, <1>7, <1>9

\* The tails change no document, and the saves that they follow are steps of
\* ClaudePane, but for the two of sweep.
LEMMA PaneKept == PaneInv /\ TailTypeOK /\ [TailNext]_vars => PaneInv'
<1> SUFFICES ASSUME PaneInv, TailTypeOK, [TailNext]_vars PROVE PaneInv'
  OBVIOUS
<1>1. CASE [Next]_paneVars
  BY <1>1, PaneInvStep
<1>2. ASSUME NEW h \in HookProc, HookRuns(h) \/ TailStep(h) \/ Focus(h) PROVE PaneInv'
  <2>1. CASE HookRuns(h)
    BY <1>1, <2>1, HookRunsIs DEF Next
  <2>2. CASE TailStep(h)
    BY <1>1, <2>2 DEF TailStep, Read, Store, Load, sync_paused_flag, Look, WriteWindow,
                      Notifies, Exits
  <2>3. CASE Focus(h)
    <3>1. option \in Sid
      BY <2>3 DEF Focus, TailTypeOK
    <3> QED BY <1>1, <2>3, <3>1 DEF Focus, Next, PaneNext, UserStep
  <2> QED BY <1>2, <2>1, <2>2, <2>3
<1>3. ASSUME NEW h \in HookProc, NEW s \in Sid, SessionEndLoad(h, s) \/ SessionEndSave(h, s)
      PROVE  PaneInv'
  BY <1>1, <1>3 DEF SessionEndLoad, SessionEndSave, Next, PaneNext, ExitStep
\* sweep confirms the pause of a session that is idle once the process is gone ...
<1>4. ASSUME NEW h \in HookProc, NEW s \in Sid, SweepPauses(h, s) PROVE PaneInv'
  <2>1. /\ proc = None /\ file \in [Sid -> SessionDoc] /\ file[s] \in SessionRecord
        /\ file' = [file EXCEPT ![s].status = "Paused", ![s].sweep_signaled = FALSE]
        /\ proc' = proc /\ ending' = ending /\ typed' = typed /\ remembered' = remembered
    BY <1>4 DEF SweepPauses, IsIdle, PaneInv, PaneTypeOK, SessionDoc
  <2>2. file' \in [Sid -> SessionDoc] /\ file'[s].status = "Paused"
    BY <2>1 DEF SessionDoc, SessionRecord, Status
  <2>3. PaneTypeOK' /\ EndingInv'
    BY <2>1, <2>2 DEF PaneInv, PaneTypeOK, EndingInv, SessionDoc
  <2>4. StoppedMeansNoPendingWork'
    BY <2>1, <2>2 DEF PaneInv, StoppedMeansNoPendingWork
  <2> QED BY <2>1, <2>3, <2>4 DEF PaneInv, ProcInv, DocInv, PromptInv
\* ... which it has signaled before.
<1>5. ASSUME NEW s \in Sid, SweepSignals(s) PROVE PaneInv'
  <2>1. /\ proc \in Process /\ proc # None /\ file \in [Sid -> SessionDoc] /\ file[s] \in SessionRecord
        /\ file' = [file EXCEPT ![s].sweep_signaled = TRUE]
        /\ ending' = ending /\ typed' = typed /\ remembered' = remembered
        /\ proc' = proc \/ proc' = [proc EXCEPT !.term = TRUE]
    BY <1>5 DEF SweepSignals, Sigterm, IsIdle, PaneInv, PaneTypeOK, SessionDoc
  <2>2. /\ proc' \in Process /\ proc'.sid = proc.sid /\ proc'.main = proc.main
        /\ proc'.waiting = proc.waiting /\ proc'.agents = proc.agents
        /\ proc'.tasks = proc.tasks
    BY <2>1 DEF Process
  <2>3. /\ file' \in [Sid -> SessionDoc]
        /\ \A t \in Sid :
             /\ file'[t] # None <=> file[t] # None
             /\ file[t] # None =>
                  /\ file'[t].status = file[t].status
                  /\ file'[t].pending_agent_task_ids = file[t].pending_agent_task_ids
                  /\ file'[t].pending_bg_task_ids = file[t].pending_bg_task_ids
                  /\ file'[t].pending_permission_agent_ids = file[t].pending_permission_agent_ids
    <3>1. file'[s] \in SessionRecord /\ file'[s].status = file[s].status
          /\ file'[s].pending_agent_task_ids = file[s].pending_agent_task_ids
          /\ file'[s].pending_bg_task_ids = file[s].pending_bg_task_ids
          /\ file'[s].pending_permission_agent_ids = file[s].pending_permission_agent_ids
      BY <2>1 DEF SessionRecord
    <3>2. \A t \in Sid : t # s => file'[t] = file[t]
      BY <2>1
    <3> QED BY <2>1, <3>1, <3>2, NoneAssumption DEF SessionDoc
  <2>4. PaneTypeOK' /\ EndingInv'
    BY <2>1, <2>2, <2>3 DEF PaneInv, PaneTypeOK, EndingInv, SessionDoc
  <2>5. ProcInv'
    BY <2>1, <2>2 DEF PaneInv, ProcInv
  <2>6. DocInv' /\ PromptInv'
    <3>1. proc.sid \in Sid /\ Doc' = file'[proc.sid]
      BY <2>1, <2>2 DEF Process, Doc
    <3> QED BY <2>1, <2>2, <2>3, <3>1 DEF PaneInv, DocInv, PromptInv, Doc, AtRest
  <2>7. StoppedMeansNoPendingWork'
    BY <2>3 DEF PaneInv, StoppedMeansNoPendingWork, has_pending_bg_tasks
  <2> QED BY <2>4, <2>5, <2>6, <2>7 DEF PaneInv
<1>6. CASE NoHookRuns \/ UNCHANGED vars
  <2>1. [Next]_paneVars
    BY <1>6 DEF NoHookRuns, vars, Next, PaneNext, UserStep, AgentStep, TurnStep, ExitStep
  <2> QED BY <1>1, <2>1
<1> QED BY <1>2, <1>3, <1>4, <1>5, <1>6 DEF TailNext

-----------------------------------------------------------------------------
(* The theorems *)

\* Every step keeps the inductive invariant.
LEMMA TailInvStep == TailInv /\ [TailNext]_vars => TailInv'
<1> SUFFICES ASSUME TailInv, [TailNext]_vars PROVE TailInv'
  OBVIOUS
<1> DEFINE Goal == TailTypeOK' /\ RestInv' /\ AloneInv' /\ MessageInv' /\ TmuxInv' /\ NoticeInv'
<1>1. /\ PaneInv /\ PaneTypeOK /\ TailTypeOK /\ RestInv /\ AloneInv /\ MessageInv /\ TmuxInv
      /\ NoticeInv /\ PaneInv'
  BY PaneKept DEF TailInv, PaneInv
<1>2. part' = part
  BY DEF TailNext, vars, tailVars
<1>3. ASSUME NEW h \in HookProc, HookRuns(h) PROVE Goal
  BY <1>1, <1>2, <1>3, HookBegins
<1>4. ASSUME NEW h \in HookProc, TailStep(h) PROVE Goal
  BY <1>1, <1>2, <1>4, MessageStep, TmuxStep, NoticeStep, LastStep DEF TailStep
<1>5. ASSUME NEW h \in HookProc, Focus(h) PROVE Goal
  <2>1. option \in Sid
    BY <1>1, <1>5 DEF Focus, TailTypeOK
  <2> QED BY <1>1, <1>2, <1>5, <2>1, OthersBegin
<1>6. ASSUME NEW h \in HookProc, NEW s \in Sid,
             SessionEndLoad(h, s) \/ SessionEndSave(h, s) \/ SweepPauses(h, s)
      PROVE  Goal
  <2>1. CASE SessionEndLoad(h, s) /\ tail' = tail
    BY <1>1, <1>2, <2>1, OthersPass
  <2> QED BY <1>1, <1>2, <1>6, <2>1, OthersBegin
<1>7. ASSUME NoHookRuns \/ (\E s \in Sid : SweepSignals(s)) \/ UNCHANGED vars
      PROVE  Goal
  <2>1. tail' = tail
    BY <1>7 DEF NoHookRuns, SweepSignals, vars, tailVars
  <2>2. \/ NoHookRuns
        \/ \E s \in Sid : SweepSignals(s) \/ \E h \in HookProc : SessionEndLoad(h, s)
        \/ UNCHANGED vars
    BY <1>7, Zenon
  <2> QED BY <1>1, <1>2, <2>1, <2>2, OthersPass
<1> HIDE DEF Goal
<1>8. CASE TailNext
  <2>1. ASSUME \E h \in HookProc :
                  \/ HookRuns(h) \/ TailStep(h) \/ Focus(h)
                  \/ \E s \in Sid : SessionEndLoad(h, s) \/ SessionEndSave(h, s) \/ SweepPauses(h, s)
        PROVE  Goal
    BY <1>3, <1>4, <1>5, <1>6, <2>1, Zenon
  <2>2. ASSUME NoHookRuns \/ \E s \in Sid : SweepSignals(s) PROVE Goal
    BY <1>7, <2>2, Zenon
  <2>3. Goal
    BY <1>8, <2>1, <2>2, Zenon DEF TailNext
  <2> QED BY <1>1, <2>3 DEF Goal, TailInv
<1>9. CASE UNCHANGED vars
  BY <1>1, <1>7, <1>9 DEF Goal, TailInv
<1> QED BY <1>8, <1>9

LEMMA TailInvAlways == TailSpec => []TailInv
<1>1. Init => TailInv
  <2> SUFFICES ASSUME Init PROVE TailInv
    OBVIOUS
  <2>1. PaneInv
    BY DEF Init, PaneInit, PaneInv, PaneTypeOK, EndingInv, ProcInv, DocInv, PromptInv,
           StoppedMeansNoPendingWork, EndingHook, NoHook
  <2>2. \A h \in HookProc : tail[h] = Idle /\ ~Busy(h)
    BY DEF Init, Idle, Busy
  <2>3. TailTypeOK
    <3>1. <<>> \in Seq(Step) /\ 0 \in 0 .. MaxSaid /\ "none" \in Symbols
      BY TailAssumption DEF Symbols
    <3>2. Idle \in TailRecord
      BY <3>1 DEF Idle, TailRecord
    <3> QED BY <3>1, <3>2 DEF Init, TailTypeOK
  <2>4. RestInv
    <3>1. part \in {"message", "tmux", "notice"} /\ \A h \in HookProc : tail[h].todo = <<>>
      BY <2>2 DEF Init, Part, Idle
    <3>2. <<>> \in MessageRest /\ <<>> \in TmuxRest /\ <<>> \in NoticeRest
      BY DEF MessageRest, TmuxRest, NoticeRest
    <3> QED BY <2>2, <3>1, <3>2 DEF RestInv, Rest
  <2>5. AloneInv /\ TmuxInv /\ NoticeInv
    BY <2>2 DEF AloneInv, TmuxInv, NoticeInv
  <2>6. MessageInv
    BY <2>2 DEF Init, MessageInv
  <2> QED BY <2>1, <2>3, <2>4, <2>5, <2>6 DEF TailInv
<1> QED BY <1>1, TailInvStep, PTL DEF TailSpec

\* The tails, the messages, the options and the notifications stay well-formed.
THEOREM TailTypeCorrect == TailSpec => []TailTypeOK
<1>1. TailInv => TailTypeOK
  BY DEF TailInv
<1> QED BY <1>1, TailInvAlways, PTL

\* What a user or another program may conclude from a document stays true while
\* tails run beside the hooks, and sweep and mark-read write documents too: an
\* open prompt shows ...
THEOREM PromptShownBesideTails == TailSpec => []PromptIsShown
<1>1. TailInv => PromptIsShown
  BY PaneInvShows DEF TailInv
<1> QED BY <1>1, TailInvAlways, PTL

\* ... and a session with background work does not look idle.
THEOREM WorkProtectedBesideTails == TailSpec => []WorkIsProtected
<1>1. TailInv => WorkIsProtected
  BY PaneInvShows DEF TailInv
<1> QED BY <1>1, TailInvAlways, PTL

\* The compare-and-swap of the last message (hook.rs): however many hooks have
\* read the transcript, the message of a document never goes back.
THEOREM MessageNeverGoesBack == TailSpec => NeverAnOlderMessage
<1>1. TailInv /\ [TailNext]_vars =>
        [\A h \in HookProc : Store(h) => last'[tail[h].sid] >= last[tail[h].sid]]_vars
  <2> SUFFICES ASSUME TailInv, NEW h \in HookProc, Store(h)
               PROVE  last'[tail[h].sid] >= last[tail[h].sid]
    OBVIOUS
  <2>1. /\ part = "message" /\ tail[h].todo = <<"store", "exit">> /\ Busy(h)
        /\ tail[h].sid \in Sid /\ tail[h].expected <= tail[h].message
    <3>1. part \in DOMAIN Part /\ tail[h].todo \in Rest[part] /\ Does(h, "store") /\ Busy(h)
      BY DEF TailInv, TailTypeOK, RestInv, Store, Does
    <3>2. part = "message" /\ tail[h].todo = <<"store", "exit">>
      BY <3>1, NextStep
    <3> QED BY <3>1, <3>2 DEF TailInv, RestInv, MessageInv
  <2>2. last'[tail[h].sid] = LastMessageAfter(tail[h]) /\ last[tail[h].sid] \in Nat
    BY <2>1 DEF Store, TailInv, TailTypeOK
  <2>3. LastMessageAfter(tail[h]) >= last[tail[h].sid]
    BY <2>1, <2>2 DEF LastMessageAfter
  <2> QED BY <2>2, <2>3
<1> QED BY <1>1, TailInvAlways, PTL DEF TailSpec, NeverAnOlderMessage

\* Whatever hooks that overlapped have left behind, one that runs alone from
\* its save to its end leaves the window and the flag of the pane as the
\* document of its session says.
THEOREM AloneIsRight == TailSpec => AloneLeavesItRight
<1>1. TailInv /\ [TailNext]_vars =>
        [\A h \in HookProc : Exits(h) /\ part = "tmux" /\ tail[h].alone /\ option = tail[h].sid
                             => TmuxIsRight]_vars
  <2> SUFFICES ASSUME TailInv, NEW h \in HookProc, Exits(h), part = "tmux", tail[h].alone,
                      option = tail[h].sid
               PROVE  TmuxIsRight
    OBVIOUS
  <2>1. part \in DOMAIN Part /\ tail[h].todo \in Rest[part] /\ Does(h, "exit") /\ Busy(h)
    BY DEF TailInv, TailTypeOK, RestInv, Exits, Does
  <2>2. tail[h].todo = <<"exit">>
    BY <2>1, NextStep
  <2>3. /\ window = format_window_symbol(file[option])
        /\ flag <=> IsPaused(file[option])
    BY <2>1, <2>2 DEF TailInv, TmuxInv
  <2>4. flag \in BOOLEAN
    BY DEF TailInv, TailTypeOK
  <2> QED BY <2>3, <2>4 DEF TmuxIsRight, IsPaused
<1> QED BY <1>1, TailInvAlways, PTL DEF TailSpec, AloneLeavesItRight

\* A hook that runs alone never takes away or replaces the notification of a
\* permission prompt that any agent of its session still waits for.
THEOREM OpenPromptStaysNotified == TailSpec => PromptStaysNotified
<1>1. TailInv /\ [TailNext]_vars =>
        [\A h \in HookProc :
           /\ Notifies(h) /\ tail[h].alone
           /\ shown[tail[h].sid] = "permission" /\ shown'[tail[h].sid] # "permission"
           => proc = None \/ proc.sid # tail[h].sid \/ proc.waiting = {}]_vars
  <2> SUFFICES ASSUME TailInv, NEW h \in HookProc, Notifies(h), tail[h].alone,
                      shown[tail[h].sid] = "permission", shown'[tail[h].sid] # "permission"
               PROVE  Answered(tail[h].sid)
    BY DEF Answered
  <2>1. PICK n \in {"clear", "permission", "stopped"} :
          /\ Does(h, n)
          /\ shown' = [shown EXCEPT ![tail[h].sid] = IF n = "clear" THEN "none" ELSE n]
    BY DEF Notifies
  <2>2. /\ part \in DOMAIN Part /\ tail[h].todo \in Rest[part] /\ Busy(h)
        /\ tail[h].sid \in Sid /\ shown \in [Sid -> {"none", "permission", "stopped"}]
    BY <2>1 DEF TailInv, TailTypeOK, RestInv, Does
  <2>3. n # "permission"
    BY <2>1, <2>2
  <2>4. /\ part = "notice"
        /\ tail[h].todo \in {<<"clear", "exit">>, <<"clear", "stopped", "exit">>, <<"stopped", "exit">>}
    BY <2>1, <2>2, <2>3, NextStep
  <2>5. tail[h].todo \notin {<<"exit">>, <<"permission", "exit">>}
    BY <2>4
  <2> QED BY <2>2, <2>4, <2>5 DEF TailInv, NoticeInv
<1> QED BY <1>1, TailInvAlways, PTL DEF TailSpec, PromptStaysNotified

-----------------------------------------------------------------------------
(* Transcript. The last of some lines *)

LastOf(H) == IF H = {} THEN 0 ELSE Max(H)

LEMMA LeastOf ==
  ASSUME NEW T \in SUBSET Nat, T # {}
  PROVE  \E x \in T : \A y \in T : x <= y
<1>1. \E x \in T : \A y \in T : <<y, x>> \notin OpToRel(<, Nat)
  BY NatLessThanWellFounded, WFMin
<1>2. PICK x \in T : \A y \in T : <<y, x>> \notin OpToRel(<, Nat)
  BY <1>1
<1>3. ASSUME NEW y \in T, y < x PROVE FALSE
  <2>1. <<y, x>> \in Nat \X Nat /\ <<y, x>>[1] < <<y, x>>[2]
    BY <1>3
  <2>2. <<y, x>> \in OpToRel(<, Nat)
    BY <2>1 DEF OpToRel
  <2> QED BY <1>2, <2>2
<1> QED BY <1>3

LEMMA MinIs ==
  ASSUME NEW T \in SUBSET Nat, T # {}
  PROVE  Min(T) \in T
BY LeastOf DEF Min

\* The greatest is the least upper bound.
LEMMA MaxIs ==
  ASSUME NEW n \in Nat, NEW H \in SUBSET (0 .. n), H # {}
  PROVE  Max(H) \in H /\ \A h \in H : h <= Max(H)
<1> DEFINE U == {u \in Nat : \A h \in H : h <= u}
<1>1. n \in U
  OBVIOUS
<1>2. PICK u \in U : \A v \in U : u <= v
  BY <1>1, LeastOf
<1>3. u \in H
  <2> SUFFICES ASSUME u \notin H PROVE FALSE
    OBVIOUS
  <2>1. PICK h \in H : TRUE
    OBVIOUS
  <2>2. u \in Nat /\ h \in Nat /\ h <= u /\ h # u
    BY <2>1
  <2>3. u - 1 \in Nat /\ \A g \in H : g <= u - 1
    BY <2>2
  <2> QED BY <1>2, <2>3
<1>4. \A h \in H : u >= h
  BY <1>2
<1>5. Max(H) \in H /\ \A h \in H : Max(H) >= h
  BY <1>3, <1>4, Zenon DEF Max
<1> QED BY <1>5

LEMMA LastOfIs ==
  ASSUME NEW n \in Nat, NEW H \in SUBSET (1 .. n)
  PROVE  /\ LastOf(H) \in 0 .. n
         /\ LastOf(H) = 0 <=> H = {}
         /\ H # {} => LastOf(H) \in H /\ \A h \in H : h <= LastOf(H)
<1>1. H \in SUBSET (0 .. n)
  OBVIOUS
<1>2. CASE H = {}
  BY <1>2 DEF LastOf
<1>3. CASE H # {}
  <2> DEFINE m == Max(H)
             l == LastOf(H)
  <2>1. l = m
    BY <1>3 DEF LastOf
  <2>2. m \in H /\ \A h \in H : h <= m
    BY <1>1, <1>3, MaxIs
  <2> HIDE DEF m, l
  <2>3. l \in H /\ l # 0 /\ l \in 0 .. n /\ \A h \in H : h <= l
    BY <2>1, <2>2
  <2> QED BY <1>3, <2>3 DEF l
<1> QED BY <1>2, <1>3

LEMMA LastOfWith0 ==
  ASSUME NEW n \in Nat, NEW H \in SUBSET (1 .. n)
  PROVE  Max({0} \cup H) = LastOf(H)
<1>1. {0} \cup H \in SUBSET (0 .. n) /\ {0} \cup H # {}
  OBVIOUS
<1> DEFINE m == Max({0} \cup H)
<1>2. m \in {0} \cup H /\ \A h \in {0} \cup H : h <= m
  BY <1>1, MaxIs
<1> HIDE DEF m
<1>3. m = LastOf(H)
  BY <1>2, LastOfIs
<1> QED BY <1>3 DEF m

\* What is in the upper part of G and in G at all ends at the same place.
LEMMA LastOfTop ==
  ASSUME NEW n \in Nat, NEW G \in SUBSET (1 .. n), NEW H \in SUBSET G, H # {},
         \A h \in H, g \in G : h <= g => g \in H
  PROVE  LastOf(H) = LastOf(G)
<1>1. /\ LastOf(H) \in H /\ \A h \in H : h <= LastOf(H)
      /\ LastOf(G) \in G /\ \A g \in G : g <= LastOf(G)
  <2>1. H \in SUBSET (1 .. n) /\ G # {}
    OBVIOUS
  <2>2. LastOf(H) \in H /\ \A h \in H : h <= LastOf(H)
    BY <2>1, LastOfIs
  <2>3. LastOf(G) \in G /\ \A g \in G : g <= LastOf(G)
    BY <2>1, LastOfIs
  <2> QED BY <2>2, <2>3
<1> DEFINE h == LastOf(H)
           g == LastOf(G)
<1>2. h \in H /\ g \in G /\ (\A x \in H : x <= h) /\ \A x \in G : x <= g
  BY <1>1
<1> HIDE DEF h, g
<1>3. g \in H
  BY <1>2
<1>4. h = g
  BY <1>2, <1>3
<1> QED BY <1>4 DEF h, g

-----------------------------------------------------------------------------
(* The file, and what a reader sees of it *)

FileInv ==
  /\ lines \in Seq([kind : EntryType, end : Nat]) /\ torn \in Nat
  /\ \A i \in 1 .. Len(lines) : lines[i].end > 0
  /\ \A i, j \in 1 .. Len(lines) : i < j => lines[i].end < lines[j].end

\* All lines from some line on.
Upper(S) == /\ S \in SUBSET (1 .. Len(lines))
            /\ \A i \in S, j \in 1 .. Len(lines) : i <= j => j \in S

\* The lines of some kinds among the first n, and the last of them.
Among(K, n) == {i \in 1 .. n : lines[i].kind \in K}
LastAmong(K, n) == LastOf(Among(K, n))

LEMMA LineIs ==
  ASSUME FileInv
  PROVE  /\ Len(lines) \in Nat /\ DOMAIN lines = 1 .. Len(lines)
         /\ \A i \in 1 .. Len(lines) : lines[i].kind \in EntryType /\ lines[i].end \in Nat \ {0}
<1>1. Len(lines) \in Nat /\ DOMAIN lines = 1 .. Len(lines)
  BY LenProperties DEF FileInv
<1>2. \A i \in 1 .. Len(lines) : lines[i] \in [kind : EntryType, end : Nat]
  BY LenProperties DEF FileInv
<1>3. ASSUME NEW i \in 1 .. Len(lines)
      PROVE  lines[i].kind \in EntryType /\ lines[i].end \in Nat \ {0}
  <2>1. lines[i] \in [kind : EntryType, end : Nat] /\ lines[i].end > 0
    BY <1>2 DEF FileInv
  <2> QED BY <2>1
<1> QED BY <1>1, <1>3

LEMMA Starts ==
  ASSUME FileInv
  PROVE  /\ \A i \in 1 .. Len(lines) : Start(i) \in Nat
         /\ \A i, j \in 1 .. Len(lines) : i <= j => Start(i) <= Start(j)
         /\ LinesSize \in Nat /\ (LinesSize = 0 <=> Len(lines) = 0)
         /\ \A i \in 1 .. Len(lines) : lines[i].end <= LinesSize
<1>1. ASSUME NEW i \in 1 .. Len(lines) PROVE Start(i) \in Nat
  <2>1. i = 1 \/ i - 1 \in 1 .. Len(lines)
    BY LineIs
  <2> QED BY <2>1, LineIs DEF Start
<1>2. ASSUME NEW i \in 1 .. Len(lines), NEW j \in 1 .. Len(lines), i <= j
      PROVE  Start(i) <= Start(j)
  <2>1. CASE i = j \/ i = 1
    BY <1>1, <2>1 DEF Start
  <2>2. CASE i # j /\ i # 1
    <3>1. i - 1 \in 1 .. Len(lines) /\ j - 1 \in 1 .. Len(lines) /\ i - 1 < j - 1
      BY <1>2, <2>2, LineIs
    <3>2. lines[i - 1].end < lines[j - 1].end
      BY <3>1 DEF FileInv
    <3>3. lines[i - 1].end \in Nat /\ lines[j - 1].end \in Nat
      BY <3>1, LineIs
    <3> QED BY <2>2, <3>1, <3>2, <3>3 DEF Start
  <2> QED BY <2>1, <2>2
<1> DEFINE n == Len(lines)
<1>3. CASE n = 0
  BY <1>1, <1>2, <1>3 DEF LinesSize, Start
<1>4. CASE n # 0
  <2>1. n \in Nat /\ n \in 1 .. n /\ n + 1 # 1 /\ (n + 1) - 1 = n
    BY <1>4, LineIs
  <2>2. LinesSize = lines[n].end
    BY <2>1 DEF LinesSize, Start
  <2>3. ASSUME NEW i \in 1 .. n PROVE lines[i].end <= lines[n].end
    <3>1. lines[i].end \in Nat /\ lines[n].end \in Nat /\ (i < n => lines[i].end < lines[n].end)
      BY <2>1, LineIs DEF FileInv
    <3> HIDE DEF n
    <3>2. i = n \/ i < n
      BY <2>1
    <3> QED BY <3>1, <3>2
  <2> QED BY <1>1, <1>2, <2>1, <2>2, <2>3, LineIs
<1> QED BY <1>3, <1>4

LEMMA Hits ==
  ASSUME FileInv, NEW S, Upper(S), NEW K
  PROVE  LET m == LastOf({i \in S : lines[i].kind \in K}) IN
         /\ m \in 0 .. Len(lines)
         /\ m = 0 => \A i \in S : lines[i].kind \notin K
         /\ m # 0 => m \in S /\ lines[m].kind \in K /\ m = LastAmong(K, Len(lines))
<1> DEFINE n == Len(lines)
           H == {i \in S : lines[i].kind \in K}
           G == Among(K, n)
           m == LastOf(H)
<1>1. n \in Nat /\ H \in SUBSET (1 .. n) /\ G \in SUBSET (1 .. n) /\ H \in SUBSET G
  BY LineIs DEF Upper, Among
<1>2. \A h \in H, g \in G : h <= g => g \in H
  BY DEF Upper, Among
<1>3. m \in 0 .. n /\ (m = 0 <=> H = {}) /\ (H # {} => m \in H)
  BY <1>1, LastOfIs
<1>4. H # {} => m = LastOf(G)
  BY <1>1, <1>2, LastOfTop
<1>5. H = {} => \A i \in S : lines[i].kind \notin K
  OBVIOUS
<1>6. m \in H => m \in S /\ lines[m].kind \in K
  OBVIOUS
<1> HIDE DEF m, G, H
<1> QED BY <1>3, <1>4, <1>5, <1>6 DEF LastAmong, m, G, H

\* What the scans look for.
LEMMA LatestIs ==
  ASSUME NEW S
  PROVE  /\ Latest(assistant_text, S) = LastOf({i \in S : lines[i].kind \in {"text"}})
         /\ Latest(usage_total_from_line, S) = LastOf({i \in S : lines[i].kind \in {"text", "tool"}})
         /\ Latest(custom, S) = LastOf({i \in S : lines[i].kind \in {"custom-title"}})
         /\ Latest(title_from_line, S)
              = LastOf({i \in S : lines[i].kind \in {"ai-title", "custom-title"}})
<1>1. {i \in S : assistant_text(i)} = {i \in S : lines[i].kind \in {"text"}}
  BY DEF assistant_text
<1>2. {i \in S : usage_total_from_line(i)} = {i \in S : lines[i].kind \in {"text", "tool"}}
  BY DEF usage_total_from_line
<1>3. {i \in S : custom(i)} = {i \in S : lines[i].kind \in {"custom-title"}}
  BY DEF custom
<1>4. {i \in S : title_from_line(i)} = {i \in S : lines[i].kind \in {"ai-title", "custom-title"}}
  BY DEF title_from_line
<1> QED BY <1>1, <1>2, <1>3, <1>4, Zenon DEF Latest, LastOf

LEMMA TitleIsLast ==
  ASSUME FileInv, NEW S, Upper(S)
  PROVE  LET t == Title(S) IN
         /\ t \in 0 .. Len(lines)
         /\ t = 0 => \A i \in S : ~title_from_line(i)
         /\ t # 0 => t \in S /\ title_from_line(t)
         /\ t # 0 /\ custom(t) => t = LastAmong({"custom-title"}, Len(lines))
         /\ t # 0 /\ ~custom(t) => /\ lines[t].kind = "ai-title"
                                   /\ t = LastAmong({"ai-title"}, Len(lines))
         /\ ~(t # 0 /\ custom(t)) => \A i \in S : ~custom(i)
<1> DEFINE n == Len(lines)
           c == LastOf({i \in S : lines[i].kind \in {"custom-title"}})
           a == LastOf({i \in S : lines[i].kind \in {"ai-title"}})
           b == LastOf({i \in S : lines[i].kind \in {"ai-title", "custom-title"}})
           t == Title(S)
<1>1. t = IF c # 0 THEN c ELSE b
  BY LatestIs, Zenon DEF Title
<1>2. /\ c \in 0 .. n /\ (c = 0 => \A i \in S : ~custom(i))
      /\ c # 0 => c \in S /\ custom(c) /\ c = LastAmong({"custom-title"}, n)
  <2>1. /\ c \in 0 .. n /\ (c = 0 => \A i \in S : lines[i].kind \notin {"custom-title"})
        /\ c # 0 => /\ c \in S /\ lines[c].kind \in {"custom-title"}
                   /\ c = LastAmong({"custom-title"}, n)
    BY Hits
  <2> HIDE DEF c
  <2> QED BY <2>1 DEF custom
<1>3. /\ b \in 0 .. n /\ (b = 0 => \A i \in S : ~title_from_line(i))
      /\ b # 0 => b \in S /\ title_from_line(b)
  BY Hits DEF title_from_line
<1>4. c = 0 => /\ b = a
               /\ b # 0 => lines[b].kind = "ai-title" /\ b = LastAmong({"ai-title"}, n)
  <2> SUFFICES ASSUME c = 0 PROVE /\ b = a
                                  /\ b # 0 => /\ lines[b].kind = "ai-title"
                                              /\ b = LastAmong({"ai-title"}, n)
    OBVIOUS
  <2>1. {i \in S : lines[i].kind \in {"ai-title", "custom-title"}}
          = {i \in S : lines[i].kind \in {"ai-title"}}
    BY <1>2 DEF custom
  <2>2. b = a
    BY <2>1
  <2>3. a # 0 => lines[a].kind \in {"ai-title"} /\ a = LastAmong({"ai-title"}, n)
    BY Hits
  <2> QED BY <2>2, <2>3
<1>5. custom(c) => title_from_line(c)
  BY DEF custom, title_from_line
<1>6. \A i : custom(i) => title_from_line(i)
  BY DEF custom, title_from_line
<1>7. b # 0 /\ lines[b].kind = "ai-title" => ~custom(b)
  BY DEF custom
<1> HIDE DEF a, b, c, t
<1>8. CASE c # 0
  <2>1. t = c
    BY <1>1, <1>8
  <2> QED BY <1>2, <1>5, <1>8, <2>1 DEF t
<1>9. CASE c = 0
  <2>1. t = b
    BY <1>1, <1>9
  <2> QED BY <1>2, <1>3, <1>4, <1>7, <1>9, <2>1 DEF t
<1> QED BY <1>8, <1>9
-----------------------------------------------------------------------------
(* What a reader has found so far *)

ReaderType ==
  [want : Want, pc : {"idle", "window", "forward", "prompt", "done"}, size : Nat, window : Nat,
   found : Nat, pos : Nat, from : Nat]

\* A call knows how much there was when it opened the file.
CallInv ==
  /\ reader \in ReaderType /\ reader.found \in 0 .. Len(lines) /\ reader.from \in 0 .. Len(lines)
  /\ reader.pc = "idle" => reader = Resting(reader.want)
  /\ reader.pc # "idle" /\ ~Grew => reader.size = Size
  /\ reader.pc = "window" => reader.window # 0 /\ GrowsToLargest(reader.window) /\ reader.pos = 0

\* For a message or the tokens: the last hit at some moment of the call, or
\* nothing yet.
Wanted == IF reader.want = "message" THEN {"text"} ELSE {"text", "tool"}
WasLast == \E n \in reader.from .. Len(lines) : reader.found = LastAmong(Wanted, n)
LastInv ==
  reader.want \in {"message", "tokens"} =>
    /\ reader.pc # "prompt"
    /\ reader.pc = "window" => reader.found = 0
    /\ reader.pc = "forward" => (reader.pos = 0 /\ reader.found = 0) \/ WasLast
    /\ reader.pc = "done" => WasLast

\* For a title: the latest of its kind at some moment of the call. Unless
\* the file grew, a generated one that is kept is the latest and in the window.
WasTitle == \E n \in reader.from .. Len(lines) :
              reader.found \in {LastAmong({"custom-title"}, n), LastAmong({"ai-title"}, n)}
TitleInv ==
  reader.want = "title" =>
    /\ reader.pc \in {"window", "forward"} /\ reader.found # 0 =>
         WasTitle /\ title_from_line(reader.found)
    /\ reader.pc = "window" /\ reader.found # 0 => ~custom(reader.found)
    /\ reader.pc = "window" /\ reader.found # 0 /\ ~Grew =>
         /\ reader.found \in Window
         /\ reader.found = LastAmong({"ai-title"}, Len(lines))
    /\ reader.pc = "forward" => reader.size < INITIAL_READ_SIZE
    /\ reader.pc = "forward" /\ ~Grew =>
         \/ reader.pos = 0 /\ reader.found = 0
         \/ reader.pos = Size /\ reader.found = Title(1 .. Len(lines))
    /\ reader.pc = "prompt" /\ ~Grew => Title(Reach) = 0
    /\ reader.pc = "done" /\ reader.found # 0 /\ title_from_line(reader.found) => WasTitle
    /\ reader.pc = "done" /\ ~Grew =>
         reader.found = IF Title(Reach) # 0 THEN Title(Reach) ELSE FirstPrompt

TranscriptInv == FileInv /\ CallInv /\ LastInv /\ TitleInv

LEMMA Uppers ==
  ASSUME FileInv, reader \in ReaderType
  PROVE  Upper(Window) /\ Upper(LastFew) /\ Upper(Unread) /\ Upper(Reach) /\ Upper(1 .. Len(lines))
<1> DEFINE n == Len(lines)
<1>1. /\ n \in Nat /\ Size \in Nat /\ actual_read \in Nat /\ reader.pos \in Nat
      /\ MAX_READ_SIZE \in Nat /\ MAX_LINES_TO_SCAN \in Nat
      /\ \A i \in 1 .. n : Start(i) \in Nat
      /\ \A i, j \in 1 .. n : i <= j => Start(i) <= Start(j)
  BY LineIs, Starts, SizesAssumption DEF Size, FileInv, actual_read, ReaderType
<1>2. Upper(Window)
  <2> DEFINE lo == Size - actual_read
             c == actual_read >= reader.size
  <2>1. lo \in Int
    BY <1>1
  <2>2. Window = {i \in 1 .. n : IF c THEN Start(i) >= lo ELSE Start(i) > lo}
    BY DEF Window
  <2> HIDE DEF lo, c
  <2> QED BY <1>1, <2>1, <2>2 DEF Upper
<1>3. Upper(LastFew)
  <2> DEFINE t == IF torn > 0 THEN 1 ELSE 0
  <2>1. t \in Nat /\ LastFew = {i \in Window : i + MAX_LINES_TO_SCAN > n + t}
    BY DEF LastFew
  <2> HIDE DEF t
  <2>2. ASSUME NEW i \in LastFew, NEW j \in 1 .. n, i <= j PROVE j \in LastFew
    <3>1. i \in Window /\ i \in 1 .. n /\ i + MAX_LINES_TO_SCAN > n + t
      BY <1>2, <2>1 DEF Upper
    <3>2. j \in Window
      BY <1>2, <2>2, <3>1 DEF Upper
    <3> HIDE DEF n
    <3>3. j + MAX_LINES_TO_SCAN > n + t
      BY <1>1, <2>1, <2>2, <3>1
    <3> QED BY <2>1, <3>2, <3>3
  <2> QED BY <1>2, <2>1, <2>2 DEF Upper
<1>4. Upper(Unread)
  BY <1>1 DEF Upper, Unread
<1>5. Upper(Reach)
  <2> DEFINE lo == Size - MAX_READ_SIZE
             c == Size <= MAX_READ_SIZE
  <2>1. lo \in Int /\ Reach = {i \in 1 .. n : c \/ Start(i) > lo}
    BY <1>1 DEF Reach
  <2> HIDE DEF lo, c
  <2> QED BY <1>1, <2>1 DEF Upper
<1>6. Upper(1 .. n)
  BY <1>1 DEF Upper
<1> QED BY <1>2, <1>3, <1>4, <1>5, <1>6

LEMMA Grows ==
  ASSUME NEW w \in Nat \ {0}, GrowsToLargest(w)
  PROVE  /\ w <= MAX_READ_SIZE
         /\ 2 * w > MAX_READ_SIZE => w = MAX_READ_SIZE
         /\ 2 * w <= MAX_READ_SIZE => GrowsToLargest(2 * w)
<1> DEFINE M == MAX_READ_SIZE
<1>0. M \in Nat
  BY SizesAssumption
<1>n. PICK n \in 0 .. M : \E widths \in [0 .. n -> 0 .. M] :
        /\ widths[0] = w /\ widths[n] = M
        /\ \A i \in 1 .. n : widths[i] = 2 * widths[i - 1]
  BY DEF GrowsToLargest
<1>1. PICK widths \in [0 .. n -> 0 .. M] :
        /\ widths[0] = w /\ widths[n] = M
        /\ \A i \in 1 .. n : widths[i] = 2 * widths[i - 1]
  BY <1>n
<1>2. w <= M
  BY <1>0, <1>1
<1>3. CASE n = 0
  BY <1>0, <1>1, <1>3
<1>4. CASE n # 0
  <2>1. 1 \in 1 .. n /\ 1 \in 0 .. n /\ n - 1 \in 0 .. M
    BY <1>0, <1>4
  <2>2. widths[1] = 2 * w /\ widths[1] \in 0 .. M
    BY <1>1, <2>1
  <2> DEFINE rest == [i \in 0 .. (n - 1) |-> widths[i + 1]]
  <2>3. rest \in [0 .. (n - 1) -> 0 .. M]
    <3>1. \A i \in 0 .. (n - 1) : i + 1 \in 0 .. n
      OBVIOUS
    <3> QED BY <1>1, <3>1
  <2>4. rest[0] = 2 * w /\ rest[n - 1] = M
    BY <1>1, <2>1, <2>2
  <2>5. ASSUME NEW i \in 1 .. (n - 1) PROVE rest[i] = 2 * rest[i - 1]
    <3>1. i + 1 \in 1 .. n /\ i \in 0 .. (n - 1) /\ i - 1 \in 0 .. (n - 1) /\ (i + 1) - 1 = i
          /\ (i - 1) + 1 = i
      OBVIOUS
    <3>2. widths[i + 1] = 2 * widths[i]
      BY <1>1, <3>1
    <3> QED BY <3>1, <3>2
  <2> HIDE DEF rest
  <2>6. GrowsToLargest(2 * w)
    BY <2>1, <2>3, <2>4, <2>5, Zenon DEF GrowsToLargest
  <2> QED BY <1>0, <1>2, <2>2, <2>6
<1> QED BY <1>2, <1>3, <1>4

\* While the file does not grow, no window shows more than what is in reach, and
\* the last one shows it all.
LEMMA WindowReaches ==
  ASSUME FileInv, CallInv, reader.pc = "window", ~Grew
  PROVE  /\ Window \subseteq Reach
         /\ actual_read >= reader.size \/ 2 * reader.window > MAX_READ_SIZE => Window = Reach
<1> DEFINE n == Len(lines)
           w == reader.window
           s == reader.size
<1>1. /\ n \in Nat /\ s \in Nat /\ s = Size /\ w \in Nat \ {0} /\ MAX_READ_SIZE \in Nat
      /\ \A i \in 1 .. n : Start(i) \in Nat
  BY LineIs, Starts, SizesAssumption DEF CallInv, ReaderType
<1>2. w <= MAX_READ_SIZE /\ (2 * w > MAX_READ_SIZE => w = MAX_READ_SIZE)
  BY <1>1, Grows DEF CallInv
<1>3. Reach = {i \in 1 .. n : s <= MAX_READ_SIZE \/ Start(i) > s - MAX_READ_SIZE}
  BY <1>1 DEF Reach
<1>4. actual_read = IF w < s THEN w ELSE s
  BY DEF actual_read
<1>5. Window = {i \in 1 .. n : IF actual_read >= s THEN Start(i) >= s - actual_read
                               ELSE Start(i) > s - actual_read}
  BY <1>1 DEF Window
<1> HIDE DEF n, w, s
<1>6. CASE w < s
  <2>1. actual_read = w
    BY <1>4, <1>6
  <2>2. Window = {i \in 1 .. n : Start(i) > s - w}
    BY <1>1, <1>5, <1>6, <2>1
  <2> QED BY <1>1, <1>2, <1>3, <1>6, <2>1, <2>2 DEF w, s
<1>7. CASE ~(w < s)
  <2>1. actual_read = s
    BY <1>4, <1>7
  <2>2. Window = 1 .. n
    BY <1>1, <1>5, <2>1
  <2> QED BY <1>1, <1>2, <1>3, <1>7, <2>2
<1> QED BY <1>6, <1>7

-----------------------------------------------------------------------------
(* The reader's steps *)

LEMMA SameFile ==
  ASSUME UNCHANGED <<lines, torn>>
  PROVE  /\ FileInv' <=> FileInv
         /\ Len(lines)' = Len(lines) /\ Size' = Size
         /\ \A K, n : LastAmong(K, n)' = LastAmong(K, n)
         /\ \A i : (custom(i)' <=> custom(i)) /\ (title_from_line(i)' <=> title_from_line(i))
         /\ Title(Reach)' = Title(Reach) /\ FirstPrompt' = FirstPrompt
         /\ Title(1 .. Len(lines))' = Title(1 .. Len(lines))
<1>1. FileInv' <=> FileInv
  BY DEF FileInv
<1>2. Size' = Size /\ Reach' = Reach
  BY Zenon DEF Size, LinesSize, Start, Reach
<1>3. ASSUME NEW K, NEW n PROVE LastAmong(K, n)' = LastAmong(K, n)
  BY Zenon DEF LastAmong, Among, LastOf
<1>4. \A i : (custom(i)' <=> custom(i)) /\ (title_from_line(i)' <=> title_from_line(i))
  BY DEF custom, title_from_line
<1>5. FirstPrompt' = FirstPrompt
  BY Zenon DEF FirstPrompt
<1>6. Title(Reach)' = Title(Reach)
  BY <1>2, Zenon DEF Title, Latest, custom, title_from_line
<1>7. Title(1 .. Len(lines))' = Title(1 .. Len(lines))
  BY Zenon DEF Title, Latest, custom, title_from_line
<1> QED BY <1>1, <1>2, <1>3, <1>4, <1>5, <1>6, <1>7

\* A call goes on about the same file.
CallGoes == /\ UNCHANGED <<lines, torn>> /\ reader.pc # "idle" /\ reader' \in ReaderType
        /\ reader'.want = reader.want /\ reader'.size = reader.size
        /\ reader'.from = reader.from /\ reader'.pc # "idle"
        /\ reader'.found \in 0 .. Len(lines)

LEMMA CallGoesOn ==
  ASSUME TranscriptInv, CallGoes
  PROVE  /\ FileInv' /\ (Grew' <=> Grew)
         /\ reader'.pc # "window" => CallInv'
         /\ WasLast' <=> \E n \in reader.from .. Len(lines) : reader'.found = LastAmong(Wanted, n)
         /\ WasTitle' <=> \E n \in reader.from .. Len(lines) :
              reader'.found \in {LastAmong({"custom-title"}, n), LastAmong({"ai-title"}, n)}
<1>1. /\ FileInv' /\ Len(lines)' = Len(lines) /\ Size' = Size
      /\ \A K, n : LastAmong(K, n)' = LastAmong(K, n)
  BY SameFile DEF TranscriptInv, CallGoes
<1>2. Grew' <=> Grew
  BY DEF CallGoes, Grew
<1>3. reader'.pc # "window" => CallInv'
  BY <1>1, <1>2 DEF CallInv, CallGoes, TranscriptInv
<1>4. Wanted' = Wanted
  BY DEF CallGoes, Wanted
<1>5. WasLast' <=> \E n \in reader.from .. Len(lines) : reader'.found = LastAmong(Wanted, n)
  BY <1>1, <1>4 DEF WasLast, CallGoes
<1>6. WasTitle' <=> \E n \in reader.from .. Len(lines) :
        reader'.found \in {LastAmong({"custom-title"}, n), LastAmong({"ai-title"}, n)}
  BY <1>1 DEF WasTitle, CallGoes
<1> QED BY <1>1, <1>2, <1>3, <1>5, <1>6

LEMMA CallAnswered ==
  ASSUME TranscriptInv, UNCHANGED <<lines, torn>>, reader.pc # "idle",
         NEW i \in 0 .. Len(lines), Answers(i),
         reader.want \in {"message", "tokens"} =>
           \E n \in reader.from .. Len(lines) : i = LastAmong(Wanted, n),
         reader.want = "title" /\ i # 0 /\ title_from_line(i) =>
           \E n \in reader.from .. Len(lines) :
             i \in {LastAmong({"custom-title"}, n), LastAmong({"ai-title"}, n)},
         reader.want = "title" /\ ~Grew =>
           i = IF Title(Reach) # 0 THEN Title(Reach) ELSE FirstPrompt
  PROVE  TranscriptInv'
<1>0. i \in Nat
  BY LineIs DEF TranscriptInv
<1>1. CallGoes /\ reader'.pc = "done" /\ reader'.found = i
  BY <1>0 DEF Answers, CallGoes, TranscriptInv, CallInv, ReaderType
<1>2. FileInv' /\ CallInv' /\ (Grew' <=> Grew)
  BY <1>1, CallGoesOn
<1>3. LastInv'
  <2>1. reader.want \in {"message", "tokens"} => WasLast'
    BY <1>1, CallGoesOn
  <2> QED BY <1>1, <2>1 DEF LastInv, CallGoes
<1>4. TitleInv'
  <2>1. reader.want = "title" /\ i # 0 /\ title_from_line(i) => WasTitle'
    BY <1>1, CallGoesOn
  <2>2. /\ Title(Reach)' = Title(Reach) /\ FirstPrompt' = FirstPrompt
        /\ title_from_line(i)' <=> title_from_line(i)
    BY SameFile
  <2>3. title_from_line(reader.found)' <=> title_from_line(i)
    BY <1>1, <2>2 DEF title_from_line
  <2> QED BY <1>1, <1>2, <2>1, <2>2, <2>3 DEF TitleInv, CallGoes
<1> QED BY <1>2, <1>3, <1>4 DEF TranscriptInv

LEMMA SearchesOn ==
  ASSUME TranscriptInv, UNCHANGED <<lines, torn>>, reader.pc = "window", Goto("forward"),
         reader.want # "title"
  PROVE  TranscriptInv'
<1>1. CallGoes /\ reader'.pc = "forward" /\ reader'.found = reader.found /\ reader'.pos = reader.pos
  BY DEF Goto, CallGoes, TranscriptInv, CallInv, ReaderType
<1>2. FileInv' /\ CallInv'
  BY <1>1, CallGoesOn
<1>3. LastInv' /\ TitleInv'
  BY <1>1 DEF LastInv, TitleInv, CallInv, TranscriptInv, CallGoes
<1> QED BY <1>2, <1>3 DEF TranscriptInv

LEMMA GivesUp ==
  ASSUME TranscriptInv, UNCHANGED <<lines, torn>>, reader.pc # "idle", Goto("prompt"),
         reader.want = "title", ~Grew => Title(Reach) = 0
  PROVE  TranscriptInv'
<1>1. CallGoes /\ reader'.pc = "prompt"
  BY DEF Goto, CallGoes, TranscriptInv, CallInv, ReaderType
<1>2. FileInv' /\ CallInv' /\ (Grew' <=> Grew)
  BY <1>1, CallGoesOn
<1>3. LastInv' /\ TitleInv'
  BY <1>1, <1>2, SameFile DEF LastInv, TitleInv, CallGoes
<1> QED BY <1>2, <1>3 DEF TranscriptInv

LEMMA Widens ==
  ASSUME TranscriptInv, UNCHANGED <<lines, torn>>, reader.pc = "window",
         NEW f \in 0 .. Len(lines), Widen(f), 2 * reader.window <= MAX_READ_SIZE,
         reader.want # "title" => f = 0,
         reader.want = "title" => actual_read < reader.size,
         reader.want = "title" /\ f # 0 =>
           /\ lines[f].kind = "ai-title"
           /\ \E n \in reader.from .. Len(lines) :
                f \in {LastAmong({"custom-title"}, n), LastAmong({"ai-title"}, n)}
           /\ ~Grew => f \in Window /\ f = LastAmong({"ai-title"}, Len(lines))
  PROVE  TranscriptInv'
<1>1. /\ CallGoes /\ reader'.pc = "window" /\ reader'.found = f /\ reader'.pos = 0
      /\ reader'.window = 2 * reader.window /\ reader.window \in Nat \ {0}
      /\ GrowsToLargest(2 * reader.window)
  <2>1. reader \in ReaderType /\ reader.window \in Nat \ {0} /\ GrowsToLargest(reader.window)
        /\ reader.pos = 0
    BY DEF TranscriptInv, CallInv, ReaderType
  <2>2. GrowsToLargest(2 * reader.window)
    BY <2>1, Grows
  <2>3. f \in Nat /\ 2 * reader.window \in Nat
    BY <2>1, LineIs DEF TranscriptInv
  <2> QED BY <2>1, <2>2, <2>3 DEF Widen, CallGoes, ReaderType
<1>2. FileInv' /\ (Grew' <=> Grew)
  BY <1>1, CallGoesOn
<1>3. CallInv'
  <2>w. GrowsToLargest(reader'.window)
    BY <1>1
  <2>1. GrowsToLargest(reader.window)'
    BY <2>w, Zenon DEF GrowsToLargest
  <2> QED BY <1>1, <1>2, <2>1, SameFile DEF CallInv, CallGoes, TranscriptInv
<1>4. LastInv'
  BY <1>1 DEF LastInv, CallGoes
<1>5. ASSUME reader.want = "title", f # 0, ~Grew
      PROVE  f \in Window'
  <2> DEFINE w == reader.window
             s == reader.size
             n == Len(lines)
  <2>1. /\ n \in Nat /\ s \in Nat /\ w \in Nat \ {0} /\ s = Size
        /\ \A i \in 1 .. n : Start(i) \in Nat
    BY <1>5, LineIs, Starts DEF TranscriptInv, CallInv, ReaderType
  <2>2. actual_read = w /\ w < s
    BY <1>5, <2>1 DEF actual_read
  <2>3. Window = {i \in 1 .. n : Start(i) > s - w}
    BY <2>1, <2>2 DEF Window
  <2>4. f \in 1 .. n /\ Start(f) > s - w /\ Start(f) \in Nat
    BY <1>5, <2>1, <2>3
  <2>5. actual_read' = (IF 2 * w < s THEN 2 * w ELSE s) /\ Size' = s /\ reader'.size = s
        /\ Len(lines)' = n /\ Start(f)' = Start(f)
    BY <1>1, <2>1, SameFile DEF actual_read, CallGoes, Start
  <2> DEFINE a == actual_read'
             lo == s - a
             start == Start(f)
  <2>6. a \in Nat /\ (a >= s => start >= lo) /\ (~(a >= s) => start > lo)
    <3> HIDE DEF w, s, start
    <3> QED BY <2>1, <2>2, <2>4, <2>5 DEF start, w, s
  <2>7. f \in 1 .. n /\ IF a >= s THEN start >= lo ELSE start > lo
    BY <2>4, <2>6
  <2>8. Window' = {i \in 1 .. n : IF a >= s THEN Start(i)' >= lo ELSE Start(i)' > lo}
    BY <2>5 DEF Window
  <2> QED BY <2>5, <2>7, <2>8
<1>6. TitleInv'
  <2>1. reader.want = "title" /\ f # 0 => WasTitle'
    BY <1>1, CallGoesOn
  <2>2. f # 0 /\ lines[f].kind = "ai-title" =>
          ~custom(reader.found)' /\ title_from_line(reader.found)'
    BY <1>1 DEF custom, title_from_line
  <2>3. LastAmong({"ai-title"}, Len(lines))' = LastAmong({"ai-title"}, Len(lines))
    BY Zenon DEF LastAmong, Among, LastOf
  <2> QED BY <1>1, <1>2, <1>5, <2>1, <2>2, <2>3 DEF TitleInv, CallGoes
<1> QED BY <1>2, <1>3, <1>4, <1>6 DEF TranscriptInv

LEMMA WantedIs ==
  ASSUME NEW S
  PROVE  LET m == LastOf({j \in S : lines[j].kind \in Wanted}) IN
         /\ reader.want = "message" => Latest(assistant_text, S) = m
         /\ reader.want = "tokens" => Latest(usage_total_from_line, S) = m
<1>1. reader.want = "message" =>
        {j \in S : lines[j].kind \in Wanted} = {j \in S : lines[j].kind \in {"text"}}
  BY DEF Wanted
<1>2. reader.want = "tokens" =>
        {j \in S : lines[j].kind \in Wanted} = {j \in S : lines[j].kind \in {"text", "tool"}}
  BY DEF Wanted
<1> QED BY <1>1, <1>2, LatestIs, Zenon

\* A hit in all lines from some line on is the last hit of all.
LEMMA HitIsLast ==
  ASSUME TranscriptInv, reader.want \in {"message", "tokens"}, NEW S, Upper(S), NEW i,
         i = LastOf({j \in S : lines[j].kind \in Wanted}), i # 0
  PROVE  i \in 0 .. Len(lines) /\ \E n \in reader.from .. Len(lines) : i = LastAmong(Wanted, n)
<1>1. i \in 0 .. Len(lines) /\ i = LastAmong(Wanted, Len(lines))
  BY Hits DEF TranscriptInv
<1>2. Len(lines) \in reader.from .. Len(lines)
  BY LineIs DEF TranscriptInv, CallInv
<1> QED BY <1>1, <1>2

LEMMA WindowKeeps ==
  ASSUME TranscriptInv, ReadWindow
  PROVE  TranscriptInv'
<1>1. /\ UNCHANGED <<lines, torn>> /\ reader.pc = "window" /\ FileInv /\ CallInv
      /\ reader \in ReaderType /\ reader.found \in 0 .. Len(lines) /\ 0 \in 0 .. Len(lines)
  BY LineIs DEF ReadWindow, TranscriptInv, CallInv
<1>2. Upper(LastFew) /\ Upper(Window) /\ Upper(Reach)
  BY <1>1, Uppers
<1>3. ASSUME reader.want \in {"message", "tokens"}, WidenOr(Goto("forward"))
      PROVE  TranscriptInv'
  <2>1. reader.want # "title" /\ reader.found = 0
    BY <1>1, <1>3 DEF TranscriptInv, LastInv
  <2>2. CASE 2 * reader.window <= MAX_READ_SIZE
    <3>1. Widen(0)
      BY <1>3, <2>1, <2>2 DEF WidenOr
    <3> QED BY <1>1, <2>1, <2>2, <3>1, Widens
  <2>3. CASE ~(2 * reader.window <= MAX_READ_SIZE)
    <3>1. Goto("forward")
      BY <1>3, <2>3 DEF WidenOr
    <3> QED BY <1>1, <2>1, <3>1, SearchesOn
  <2> QED BY <2>2, <2>3
<1>4. ASSUME reader.want \in {"message", "tokens"}, NEW i, Answers(i), i # 0,
             i = LastOf({j \in LastFew : lines[j].kind \in Wanted})
      PROVE  TranscriptInv'
  <2>1. i \in 0 .. Len(lines) /\ \E n \in reader.from .. Len(lines) : i = LastAmong(Wanted, n)
    BY <1>2, <1>4, HitIsLast
  <2> QED BY <1>1, <1>4, <2>1, CallAnswered
<1>5. CASE read_last_assistant_message_reverse
  <2>1. try_read_last_lines = LastOf({j \in LastFew : lines[j].kind \in Wanted})
    BY <1>5, WantedIs, Zenon DEF try_read_last_lines, read_last_assistant_message_reverse
  <2>2. reader.want \in {"message", "tokens"}
    BY <1>5 DEF read_last_assistant_message_reverse
  <2>3. \/ try_read_last_lines # 0 /\ Answers(try_read_last_lines)
        \/ WidenOr(Goto("forward"))
    BY <1>5 DEF read_last_assistant_message_reverse
  <2> QED BY <1>3, <1>4, <2>1, <2>2, <2>3
<1>6. CASE read_last_context_tokens_reverse
  <2>1. try_read_last_lines_for_usage = LastOf({j \in LastFew : lines[j].kind \in Wanted})
    BY <1>6, WantedIs, Zenon DEF try_read_last_lines_for_usage, read_last_context_tokens_reverse
  <2>2. reader.want \in {"message", "tokens"}
    BY <1>6 DEF read_last_context_tokens_reverse
  <2>3. \/ try_read_last_lines_for_usage # 0 /\ Answers(try_read_last_lines_for_usage)
        \/ WidenOr(Goto("forward"))
    BY <1>6 DEF read_last_context_tokens_reverse
  <2> QED BY <1>3, <1>4, <2>1, <2>2, <2>3
<1>7. CASE read_last_title_reverse
  <2> DEFINE t == Title(Window)
             f == IF reader.found # 0 THEN reader.found ELSE t
             N == reader.from .. Len(lines)
             Was(i) == \E n \in N : i \in {LastAmong({"custom-title"}, n), LastAmong({"ai-title"}, n)}
  <2>1. /\ t \in 0 .. Len(lines)
        /\ t = 0 => \A i \in Window : ~title_from_line(i)
        /\ t # 0 => t \in Window /\ title_from_line(t)
        /\ t # 0 /\ custom(t) => t = LastAmong({"custom-title"}, Len(lines))
        /\ t # 0 /\ ~custom(t) => /\ lines[t].kind = "ai-title"
                                  /\ t = LastAmong({"ai-title"}, Len(lines))
        /\ ~(t # 0 /\ custom(t)) => \A i \in Window : ~custom(i)
    BY <1>1, <1>2, TitleIsLast
  <2>2. Len(lines) \in N
    BY <1>1, LineIs DEF CallInv
  <2>3. t # 0 => Was(t)
    BY <2>1, <2>2
  <2>4. reader.found # 0 => /\ Was(reader.found) /\ title_from_line(reader.found)
                            /\ ~custom(reader.found)
                            /\ ~Grew => /\ reader.found \in Window
                                        /\ reader.found = LastAmong({"ai-title"}, Len(lines))
    BY <1>1, <1>7 DEF TranscriptInv, TitleInv, WasTitle, read_last_title_reverse
  <2>5. reader.want = "title" /\ t = try_read_last_lines_for_title
    BY <1>7 DEF read_last_title_reverse, try_read_last_lines_for_title
  <2>6. CASE t # 0 /\ custom(t)
    <3>1. Answers(t)
      BY <1>7, <2>5, <2>6 DEF read_last_title_reverse
    <3>2. ~Grew => t = IF Title(Reach) # 0 THEN Title(Reach) ELSE FirstPrompt
      <4> SUFFICES ASSUME ~Grew PROVE Title(Reach) = t /\ t # 0
        OBVIOUS
      <4>1. t \in Reach
        BY <1>1, <2>1, <2>6, WindowReaches
      <4>2. Title(Reach) # 0 /\ custom(Title(Reach))
        BY <1>1, <1>2, <2>6, <4>1, TitleIsLast DEF custom, title_from_line
      <4>3. Title(Reach) = LastAmong({"custom-title"}, Len(lines))
        BY <1>1, <1>2, <4>2, TitleIsLast
      <4> QED BY <2>1, <2>6, <4>3
    <3> HIDE DEF t
    <3> QED BY <1>1, <2>1, <2>3, <2>5, <3>1, <3>2, CallAnswered
  <2>7. CASE ~(t # 0 /\ custom(t))
    <3>1. ~Grew => f = t
      <4> SUFFICES ASSUME ~Grew, reader.found # 0 PROVE t = reader.found
        OBVIOUS
      <4>1. t # 0
        BY <2>1, <2>4
      <4> QED BY <2>1, <2>4, <2>7, <4>1
    <3>2. f \in 0 .. Len(lines) /\ (f # 0 => Was(f) /\ title_from_line(f) /\ ~custom(f))
      BY <1>1, <2>1, <2>3, <2>4, <2>7
    <3>3. f # 0 => lines[f].kind = "ai-title"
      BY <3>2 DEF custom, title_from_line
    <3>4. CASE actual_read >= reader.size \/ 2 * reader.window > MAX_READ_SIZE
      <4>1. TitleIs(f)
        BY <1>7, <2>5, <2>7, <3>4 DEF read_last_title_reverse
      <4>2. ~Grew => f = Title(Reach)
        BY <1>1, <3>1, <3>4, WindowReaches
      <4> HIDE DEF f
      <4>3. CASE f = 0
        <5>1. Goto("prompt") /\ (~Grew => Title(Reach) = 0)
          BY <4>1, <4>2, <4>3 DEF TitleIs
        <5> QED BY <1>1, <2>5, <5>1, GivesUp
      <4>4. CASE f # 0
        <5>1. Answers(f) /\ (~Grew => f = IF Title(Reach) # 0 THEN Title(Reach) ELSE FirstPrompt)
          BY <4>1, <4>2, <4>4 DEF TitleIs
        <5> QED BY <1>1, <2>5, <3>2, <5>1, CallAnswered
      <4> QED BY <4>3, <4>4
    <3>5. CASE ~(actual_read >= reader.size \/ 2 * reader.window > MAX_READ_SIZE)
      <4>1. Widen(f)
        BY <1>7, <2>5, <2>7, <3>5 DEF read_last_title_reverse
      <4>2. actual_read < reader.size /\ 2 * reader.window <= MAX_READ_SIZE
        BY <1>1, <3>5, SizesAssumption DEF actual_read, ReaderType
      <4>3. f # 0 /\ ~Grew => f \in Window /\ f = LastAmong({"ai-title"}, Len(lines))
        BY <2>1, <2>7, <3>1
      <4> HIDE DEF f
      <4> QED BY <1>1, <2>5, <3>2, <3>3, <4>1, <4>2, <4>3, Widens
    <3> QED BY <3>4, <3>5
  <2> QED BY <2>6, <2>7
<1> QED BY <1>5, <1>6, <1>7 DEF ReadWindow

LEMMA ForwardKeeps ==
  ASSUME TranscriptInv, ReadForward
  PROVE  TranscriptInv'
<1> DEFINE n == Len(lines)
           N == reader.from .. Len(lines)
           Was(i) == \E k \in N : i \in {LastAmong({"custom-title"}, k), LastAmong({"ai-title"}, k)}
<1>1. /\ UNCHANGED <<lines, torn>> /\ reader.pc = "forward" /\ FileInv /\ CallInv
      /\ reader \in ReaderType /\ reader.found \in 0 .. n /\ n \in N /\ n \in Nat
      /\ Size \in Nat /\ reader.pos < Size
  BY LineIs, Starts DEF ReadForward, TranscriptInv, CallInv, Size, FileInv
<1>2. Upper(Unread) /\ (reader.pos = 0 => Unread = 1 .. n)
  BY <1>1, Uppers, Starts DEF Unread
<1> DEFINE m == LastOf({j \in Unread : lines[j].kind \in Wanted})
           f == reader'.found
<1>3. ASSUME reader.want \in {"message", "tokens"}
      PROVE  f \in 0 .. n /\ f \in Nat /\ \E k \in N : f = LastAmong(Wanted, k)
  <2>1. f = IF m = 0 THEN reader.found ELSE m
    <3>1. CASE reader.want = "message"
      <4>1. Latest(assistant_text, Unread) = m
        BY <3>1, WantedIs, Zenon
      <4>2. f = read_last_assistant_message_forward
        BY <1>1, <3>1 DEF ReadForward, ReaderType
      <4> QED BY <4>1, <4>2, Zenon DEF read_last_assistant_message_forward, Better
    <3>2. CASE reader.want = "tokens"
      <4>1. Latest(usage_total_from_line, Unread) = m
        BY <3>2, WantedIs, Zenon
      <4>2. f = read_last_context_tokens_forward
        BY <1>1, <3>2 DEF ReadForward, ReaderType
      <4> QED BY <4>1, <4>2, Zenon DEF read_last_context_tokens_forward, Better
    <3> QED BY <1>3, <3>1, <3>2
  <2>2. CASE m # 0
    <3>1. m \in 0 .. Len(lines) /\ \E k \in N : m = LastAmong(Wanted, k)
      <4>1. ASSUME NEW i, i = m, i # 0
            PROVE  i \in 0 .. Len(lines) /\ \E k \in N : i = LastAmong(Wanted, k)
        BY <1>2, <1>3, <4>1, HitIsLast
      <4> QED BY <2>2, <4>1
    <3> HIDE DEF m, f, N
    <3> QED BY <1>1, <2>1, <2>2, <3>1
  <2>3. CASE m = 0
    <3>1. f = reader.found
      BY <2>1, <2>3
    <3>2. CASE WasLast
      BY <1>1, <3>1, <3>2 DEF WasLast
    <3>3. CASE reader.pos = 0 /\ reader.found = 0
      <4>1. \A j \in 1 .. n : lines[j].kind \notin Wanted
        BY <1>1, <1>2, <2>3, <3>3, Hits
      <4>2. Among(Wanted, n) = {}
        BY <4>1 DEF Among
      <4>3. LastAmong(Wanted, n) = 0
        BY <4>2 DEF LastAmong, LastOf
      <4> QED BY <1>1, <3>1, <3>3, <4>3
    <3> QED BY <1>1, <1>3, <3>2, <3>3 DEF TranscriptInv, LastInv
  <2> QED BY <2>2, <2>3
<1>4. ASSUME reader.want = "title"
      PROVE  /\ f \in 0 .. n /\ f \in Nat /\ (f # 0 => Was(f) /\ title_from_line(f))
             /\ ~Grew => f = Title(1 .. n)
  <2> DEFINE t == Title(Unread)
             c == LastOf({j \in Unread : lines[j].kind \in {"custom-title"}})
             g == reader.found
  <2>1. f = IF g # 0 /\ custom(g) THEN IF c = 0 THEN g ELSE c ELSE IF t = 0 THEN g ELSE t
    <3>1. Latest(custom, Unread) = c
      BY LatestIs, Zenon
    <3>2. f = read_last_title_forward
      BY <1>1, <1>4 DEF ReadForward, ReaderType
    <3> QED BY <3>1, <3>2, Zenon DEF read_last_title_forward, Better
  <2>2. g # 0 => Was(g) /\ title_from_line(g)
    BY <1>1, <1>4 DEF TranscriptInv, TitleInv, WasTitle
  <2>3. c \in 0 .. n /\ (c # 0 => custom(c) /\ c = LastAmong({"custom-title"}, n))
    <3>1. c \in 0 .. n /\ (c # 0 => /\ lines[c].kind \in {"custom-title"}
                                    /\ c = LastAmong({"custom-title"}, n))
      BY <1>1, <1>2, Hits
    <3> HIDE DEF c
    <3> QED BY <3>1 DEF custom
  <2>4. c # 0 => Was(c) /\ title_from_line(c)
    BY <1>1, <2>3 DEF custom, title_from_line
  <2>5. t \in 0 .. n /\ (t # 0 => Was(t) /\ title_from_line(t))
    BY <1>1, <1>2, TitleIsLast
  <2>6. ~Grew => f = Title(1 .. n)
    <3> SUFFICES ASSUME ~Grew PROVE f = Title(1 .. n)
      OBVIOUS
    <3>1. reader.pos = 0 /\ g = 0
      BY <1>1, <1>4 DEF TranscriptInv, TitleInv
    <3>2. t = Title(1 .. n)
      BY <1>2, <3>1
    <3> QED BY <2>1, <3>1, <3>2
  <2> HIDE DEF c, t, f
  <2> QED BY <1>1, <2>1, <2>2, <2>3, <2>4, <2>5, <2>6
<1>5. /\ CallGoes /\ reader'.pc = "forward" /\ reader'.pos = Size
  <2>1. reader.want \in {"message", "tokens", "title"}
    BY <1>1 DEF ReaderType, Want, TellsApart
  <2>2. f \in Nat /\ f \in 0 .. n
    BY <1>3, <1>4, <2>1
  <2>3. reader' = [reader EXCEPT !.pos = Size, !.found = f]
    <3>1. PICK e : reader' = [reader EXCEPT !.pos = Size, !.found = e]
      BY <1>1, Zenon DEF ReadForward
    <3>2. f = e
      BY <1>1, <3>1 DEF ReaderType
    <3> HIDE DEF f
    <3> QED BY <3>1, <3>2, Zenon
  <2> HIDE DEF f
  <2>4. reader' \in ReaderType /\ reader'.found = f
    BY <1>1, <2>2, <2>3 DEF ReaderType
  <2> QED BY <1>1, <2>2, <2>3, <2>4 DEF CallGoes, ReaderType
<1>6. FileInv' /\ CallInv' /\ (Grew' <=> Grew)
  BY <1>5, CallGoesOn
<1>7. LastInv'
  <2>1. reader.want \in {"message", "tokens"} => WasLast'
    BY <1>3, <1>5, CallGoesOn
  <2> QED BY <1>5, <2>1 DEF LastInv, CallGoes
<1>8. TitleInv'
  <2>1. reader.want = "title" /\ f # 0 => WasTitle'
    BY <1>4, <1>5, CallGoesOn
  <2>2. title_from_line(reader.found)' <=> title_from_line(f)
    BY <1>1 DEF title_from_line
  <2>3. Size' = Size /\ Title(1 .. Len(lines))' = Title(1 .. Len(lines))
    BY <1>1, SameFile
  <2>4. reader.want = "title" => reader.size < INITIAL_READ_SIZE
    BY <1>1 DEF TranscriptInv, TitleInv
  <2> QED BY <1>4, <1>5, <1>6, <2>1, <2>2, <2>3, <2>4 DEF TitleInv, CallGoes
<1> QED BY <1>6, <1>7, <1>8 DEF TranscriptInv

LEMMA EndKeeps ==
  ASSUME TranscriptInv, ReachesEnd
  PROVE  TranscriptInv'
<1> DEFINE n == Len(lines)
           f == reader.found
<1>1. /\ UNCHANGED <<lines, torn>> /\ reader.pc = "forward" /\ reader.pos = Size
      /\ FileInv /\ CallInv /\ reader \in ReaderType /\ f \in 0 .. n /\ n \in Nat
      /\ n \in reader.from .. n
  BY LineIs DEF ReachesEnd, TranscriptInv, CallInv
<1>2. reader.pos = 0 => n = 0
  <2>1. LinesSize \in Nat /\ torn \in Nat /\ Size = LinesSize + torn
    BY <1>1, Starts DEF FileInv, Size
  <2> QED BY <1>1, <2>1, Starts
<1>3. CASE reader.want = "title"
  <2>1. TitleIs(f)
    BY <1>1, <1>3 DEF ReachesEnd
  <2>2. ~Grew => f = Title(Reach)
    <3> SUFFICES ASSUME ~Grew PROVE f = Title(Reach)
      OBVIOUS
    <3>1. Reach = 1 .. n
      <4>1. INITIAL_READ_SIZE <= MAX_READ_SIZE
        BY Grows, SizesAssumption, WindowsAssumption
      <4>2. Size < INITIAL_READ_SIZE
        BY <1>1, <1>3 DEF TranscriptInv, TitleInv, CallInv
      <4>3. Size \in Nat
        BY <1>1, Starts DEF FileInv, Size
      <4>4. Size <= MAX_READ_SIZE
        BY <4>1, <4>2, <4>3, SizesAssumption
      <4> QED BY <4>4 DEF Reach
    <3>2. CASE f = Title(1 .. n)
      BY <3>1, <3>2
    <3>3. CASE reader.pos = 0 /\ f = 0
      <4>1. Upper(1 .. n) /\ 1 .. n = {}
        BY <1>1, <1>2, <3>3, Uppers
      <4>2. Title(1 .. n) = 0
        BY <1>1, <4>1, TitleIsLast
      <4> QED BY <3>1, <3>3, <4>2
    <3> QED BY <1>1, <1>3, <3>2, <3>3 DEF TranscriptInv, TitleInv
  <2>3. CASE f = 0
    <3>1. Goto("prompt") /\ (~Grew => Title(Reach) = 0)
      BY <2>1, <2>2, <2>3 DEF TitleIs
    <3> QED BY <1>1, <1>3, <3>1, GivesUp
  <2>4. CASE f # 0
    <3>1. Answers(f) /\ (~Grew => f = IF Title(Reach) # 0 THEN Title(Reach) ELSE FirstPrompt)
      BY <2>1, <2>2, <2>4 DEF TitleIs
    <3>2. WasTitle
      BY <1>1, <1>3, <2>4 DEF TranscriptInv, TitleInv
    <3> QED BY <1>1, <1>3, <3>1, <3>2, CallAnswered DEF WasTitle
  <2> QED BY <2>3, <2>4
<1>4. CASE reader.want # "title"
  <2>1. reader.want \in {"message", "tokens"} /\ Answers(f)
    BY <1>1, <1>4 DEF ReachesEnd, ReaderType, Want, TellsApart
  <2>2. WasLast
    <3>1. CASE reader.pos = 0 /\ f = 0
      <4>1. Among(Wanted, n) = {}
        BY <1>2, <3>1 DEF Among
      <4>2. LastAmong(Wanted, n) = 0
        BY <4>1 DEF LastAmong, LastOf
      <4> QED BY <1>1, <3>1, <4>2 DEF WasLast
    <3> QED BY <1>1, <2>1, <3>1 DEF TranscriptInv, LastInv
  <2> QED BY <1>1, <1>4, <2>1, <2>2, CallAnswered DEF WasLast
<1> QED BY <1>3, <1>4

LEMMA PromptKeeps ==
  ASSUME TranscriptInv, get_title_from_jsonl
  PROVE  TranscriptInv'
<1> DEFINE prompts == {i \in 1 .. Len(lines) : lines[i].kind = "user"}
           f == FirstPrompt
<1>1. /\ UNCHANGED <<lines, torn>> /\ reader.pc = "prompt" /\ Answers(f)
      /\ Len(lines) \in Nat /\ reader.want \in Want
  BY LineIs DEF get_title_from_jsonl, TranscriptInv, CallInv, ReaderType, FirstPrompt
<1>2. f \in 0 .. Len(lines) /\ (f # 0 => lines[f].kind = "user")
  <2>1. f = IF prompts = {} THEN 0 ELSE Min(prompts)
    BY Zenon DEF FirstPrompt
  <2>2. CASE prompts = {}
    BY <1>1, <2>1, <2>2
  <2>3. CASE prompts # {}
    <3>1. prompts \in SUBSET Nat
      BY <1>1
    <3>2. Min(prompts) \in prompts
      BY <2>3, <3>1, MinIs
    <3>3. f \in prompts
      BY <2>1, <2>3, <3>2
    <3> QED BY <1>1, <3>3
  <2> QED BY <2>2, <2>3
<1>3. reader.want = "title" /\ (~Grew => Title(Reach) = 0)
  BY <1>1 DEF TranscriptInv, LastInv, TitleInv, Want, TellsApart
<1>4. f # 0 => ~title_from_line(f)
  BY <1>2 DEF title_from_line
<1> HIDE DEF f
<1>5. ~Grew => f = IF Title(Reach) # 0 THEN Title(Reach) ELSE FirstPrompt
  BY <1>3 DEF f
<1> QED BY <1>1, <1>2, <1>3, <1>4, <1>5, CallAnswered

LEMMA OpenKeeps ==
  ASSUME TranscriptInv, Open
  PROVE  TranscriptInv'
<1>1. /\ UNCHANGED <<lines, torn>> /\ FileInv /\ reader.pc = "idle" /\ reader = Resting(reader.want)
      /\ Len(lines) \in Nat /\ Size \in Nat /\ INITIAL_READ_SIZE \in Nat \ {0}
      /\ reader.want \in Want /\ Opened(reader.want)
  BY LineIs, Starts, SizesAssumption
  DEF Open, TranscriptInv, CallInv, ReaderType, Size, FileInv, Opened,
      get_last_assistant_message_in_home, get_last_context_tokens_in_home, get_last_title_in_home
<1> DEFINE pc == IF Size < INITIAL_READ_SIZE THEN "forward" ELSE "window"
<1>2. /\ reader' \in ReaderType /\ reader'.want = reader.want /\ reader'.pc = pc
      /\ reader'.size = Size /\ reader'.from = Len(lines) /\ reader'.found = 0 /\ reader'.pos = 0
      /\ reader'.window = INITIAL_READ_SIZE
  <2>1. reader \in ReaderType
    BY DEF TranscriptInv, CallInv
  <2>2. reader.found = 0 /\ reader.pos = 0
    BY <1>1 DEF Resting
  <2>3. reader' = [reader EXCEPT !.size = Size, !.from = Len(lines), !.window = INITIAL_READ_SIZE,
                                !.pc = pc]
    BY <1>1 DEF Opened
  <2>4. pc \in {"window", "forward"}
    OBVIOUS
  <2> HIDE DEF pc
  <2> QED BY <1>1, <2>1, <2>2, <2>3, <2>4 DEF ReaderType
<1>3. FileInv' /\ Len(lines)' = Len(lines) /\ Size' = Size
  BY <1>1, SameFile
<1>4. CallInv'
  <2>1. GrowsToLargest(reader'.window)
    BY <1>2, WindowsAssumption
  <2>2. GrowsToLargest(reader.window)'
    BY <2>1, Zenon DEF GrowsToLargest
  <2> QED BY <1>1, <1>2, <1>3, <2>2 DEF CallInv
<1>5. LastInv' /\ TitleInv'
  BY <1>1, <1>2, <1>3 DEF LastInv, TitleInv
<1> QED BY <1>3, <1>4, <1>5 DEF TranscriptInv

LEMMA ReturnKeeps ==
  ASSUME TranscriptInv, Return
  PROVE  TranscriptInv'
<1>1. /\ UNCHANGED <<lines, torn>> /\ reader' = Resting(reader.want) /\ reader.want \in Want
      /\ Len(lines) \in Nat
  BY LineIs DEF Return, TranscriptInv, CallInv, ReaderType
<1>2. reader' \in ReaderType /\ reader'.pc = "idle" /\ reader'.want = reader.want
      /\ reader'.found = 0 /\ reader'.from = 0
  BY <1>1 DEF Resting, ReaderType
<1>3. FileInv' /\ CallInv'
  BY <1>1, <1>2, SameFile DEF TranscriptInv, CallInv, Resting
<1>4. LastInv' /\ TitleInv'
  BY <1>2 DEF LastInv, TitleInv
<1> QED BY <1>3, <1>4 DEF TranscriptInv

-----------------------------------------------------------------------------
(* claude's steps *)

LEMMA AppendKeeps ==
  ASSUME TranscriptInv, AppendBegins \/ AppendEnds
  PROVE  TranscriptInv'
<1> DEFINE n == Len(lines)
<1>1. FileInv /\ CallInv /\ n \in Nat /\ reader' = reader /\ LinesSize \in Nat
  BY LineIs, Starts DEF TranscriptInv, AppendBegins, AppendEnds
<1>2. FileInv' /\ n <= Len(lines') /\ \A i \in 1 .. n : lines'[i] = lines[i]
  <2>1. CASE AppendBegins
    BY <1>1, <2>1 DEF AppendBegins, FileInv
  <2>2. CASE AppendEnds
    <3> DEFINE T == [kind : EntryType, end : Nat]
    <3>1. PICK kind \in TellsApart[reader.want], bytes \in 1 .. MaxBytes :
            /\ bytes > torn /\ lines' = Append(lines, [kind |-> kind, end |-> LinesSize + bytes])
      BY <2>2 DEF AppendEnds
    <3> DEFINE e == [kind |-> kind, end |-> LinesSize + bytes]
    <3>2. kind \in EntryType /\ bytes \in Nat \ {0}
      <4>1. reader.want \in Want
        BY <1>1 DEF CallInv, ReaderType
      <4> QED BY <4>1, SizesAssumption DEF TellsApart, Want, EntryType
    <3>3. e \in T /\ e.end = LinesSize + bytes /\ lines \in Seq(T)
      BY <1>1, <3>2 DEF FileInv
    <3> HIDE DEF e
    <3>4. /\ lines' \in Seq(T) /\ Len(lines') = n + 1 /\ lines'[n + 1] = e
          /\ \A i \in 1 .. n : lines'[i] = lines[i]
      <4> HIDE DEF T
      <4> QED BY <3>1, <3>3, AppendProperties DEF e
    <3>5. ASSUME NEW i \in 1 .. n + 1 PROVE i \in 1 .. n \/ i = n + 1
      BY <1>1
    <3>6. \A i \in 1 .. n : lines[i].end \in Nat \ {0} /\ lines[i].end < LinesSize + bytes
      BY <1>1, <3>2, LineIs, Starts
    <3>7. FileInv'
      <4>1. torn' \in Nat
        BY <2>2 DEF AppendEnds
      <4>2. \A i \in 1 .. Len(lines') : lines'[i].end > 0
        BY <1>1, <3>2, <3>3, <3>4, <3>5, <3>6
      <4>3. ASSUME NEW i \in 1 .. n + 1, NEW j \in 1 .. n + 1, i < j
            PROVE  lines'[i].end < lines'[j].end
        <5>1. i \in 1 .. n
          BY <1>1, <4>3
        <5>2. CASE j \in 1 .. n
          BY <1>1, <3>4, <4>3, <5>1, <5>2 DEF FileInv
        <5>3. CASE j = n + 1
          BY <3>3, <3>4, <3>6, <5>1, <5>3
        <5> QED BY <3>5, <5>2, <5>3
      <4> QED BY <3>4, <4>1, <4>2, <4>3 DEF FileInv
    <3> QED BY <1>1, <3>4, <3>7
  <2> QED BY <2>1, <2>2
<1>3. reader.pc # "idle" => Grew'
  <2>1. CASE AppendBegins
    BY <1>1, <2>1 DEF AppendBegins, Grew
  <2>2. CASE AppendEnds
    <3>1. Len(lines') = n + 1
      BY <1>1, <2>2, AppendProperties DEF AppendEnds, FileInv
    <3> QED BY <1>1, <3>1 DEF Grew, CallInv
  <2> QED BY <2>1, <2>2
<1>4. ASSUME NEW K, NEW k \in 0 .. n PROVE LastAmong(K, k)' = LastAmong(K, k)
  <2>1. Among(K, k)' = Among(K, k)
    BY <1>1, <1>2 DEF Among
  <2> QED BY <2>1, Zenon DEF LastAmong, LastOf
<1>5. Len(lines') \in Nat
  BY <1>2, LenProperties DEF FileInv
<1>6. CallInv'
  <2>1. GrowsToLargest(reader.window)' <=> GrowsToLargest(reader.window)
    BY <1>1, Zenon DEF GrowsToLargest
  <2>2. reader' = Resting(reader'.want) <=> reader = Resting(reader.want)
    BY <1>1
  <2> QED BY <1>1, <1>2, <1>3, <1>5, <2>1, <2>2 DEF CallInv, Resting
<1>7. WasLast => WasLast'
  <2> SUFFICES ASSUME WasLast PROVE WasLast'
    OBVIOUS
  <2>1. PICK k \in reader.from .. n : reader.found = LastAmong(Wanted, k)
    BY DEF WasLast
  <2>2. k \in 0 .. n /\ k \in reader.from .. Len(lines') /\ Wanted' = Wanted
    BY <1>1, <1>2, <1>5, <2>1 DEF CallInv, Wanted
  <2>3. reader.found = LastAmong(Wanted, k)'
    BY <1>4, <2>1, <2>2
  <2> QED BY <1>1, <2>2, <2>3 DEF WasLast
<1>8. WasTitle => WasTitle'
  <2> SUFFICES ASSUME WasTitle PROVE WasTitle'
    OBVIOUS
  <2>1. PICK k \in reader.from .. n :
          reader.found \in {LastAmong({"custom-title"}, k), LastAmong({"ai-title"}, k)}
    BY DEF WasTitle
  <2>2. k \in 0 .. n /\ k \in reader.from .. Len(lines')
    BY <1>1, <1>2, <1>5, <2>1 DEF CallInv
  <2>3. LastAmong({"custom-title"}, k)' = LastAmong({"custom-title"}, k)
        /\ LastAmong({"ai-title"}, k)' = LastAmong({"ai-title"}, k)
    BY <1>4, <2>2
  <2> QED BY <1>1, <2>1, <2>2, <2>3 DEF WasTitle
<1>9. LastInv'
  BY <1>1, <1>7 DEF LastInv, TranscriptInv
<1>10. TitleInv'
  <2>1. reader.found # 0 => /\ title_from_line(reader.found)' <=> title_from_line(reader.found)
                            /\ custom(reader.found)' <=> custom(reader.found)
    BY <1>1, <1>2 DEF CallInv, title_from_line, custom
  <2> QED BY <1>1, <1>3, <1>8, <2>1 DEF TitleInv, TranscriptInv
<1> QED BY <1>2, <1>6, <1>9, <1>10 DEF TranscriptInv

LEMMA TranscriptInvAlways == TranscriptSpec => []TranscriptInv
<1>1. TranscriptInit => TranscriptInv
  <2> SUFFICES ASSUME TranscriptInit PROVE TranscriptInv
    OBVIOUS
  <2>1. PICK want \in Want : reader = Resting(want)
    BY DEF TranscriptInit
  <2>2. lines = <<>> /\ torn = 0
    BY DEF TranscriptInit
  <2>3. lines \in Seq([kind : EntryType, end : Nat]) /\ Len(lines) = 0
    BY <2>2, EmptySeq
  <2>4. FileInv
    BY <2>2, <2>3 DEF FileInv
  <2>5. reader \in ReaderType /\ reader.pc = "idle" /\ reader.want = want
        /\ reader.found = 0 /\ reader.from = 0
    BY <2>1 DEF Resting, ReaderType
  <2>6. CallInv
    BY <2>1, <2>3, <2>5 DEF CallInv
  <2>7. LastInv /\ TitleInv
    BY <2>5 DEF LastInv, TitleInv
  <2> QED BY <2>4, <2>6, <2>7 DEF TranscriptInv
<1>2. TranscriptInv /\ [TranscriptNext]_transcriptVars => TranscriptInv'
  <2> SUFFICES ASSUME TranscriptInv, [TranscriptNext]_transcriptVars PROVE TranscriptInv'
    OBVIOUS
  <2>1. CASE UNCHANGED transcriptVars
    <3>1. UNCHANGED <<lines, torn>> /\ reader' = reader
      BY <2>1 DEF transcriptVars
    <3>2. /\ FileInv' /\ Size' = Size
          /\ \A K, n : LastAmong(K, n)' = LastAmong(K, n)
          /\ Title(Reach)' = Title(Reach) /\ FirstPrompt' = FirstPrompt
          /\ Title(1 .. Len(lines))' = Title(1 .. Len(lines))
      BY <3>1, SameFile DEF TranscriptInv
    <3>3. /\ GrowsToLargest(reader.window)' <=> GrowsToLargest(reader.window)
          /\ Grew' <=> Grew
          /\ Window' = Window /\ Wanted' = Wanted
          /\ title_from_line(reader.found)' <=> title_from_line(reader.found)
          /\ custom(reader.found)' <=> custom(reader.found)
      BY <3>1, Zenon DEF GrowsToLargest, Grew, Window, actual_read, Size, LinesSize, Start, Wanted,
                         title_from_line, custom
    <3>4. (WasLast' <=> WasLast) /\ (WasTitle' <=> WasTitle)
      BY <3>1, <3>2, <3>3 DEF WasLast, WasTitle
    <3>5. CallInv'
      BY <3>1, <3>2, <3>3 DEF CallInv, TranscriptInv, Resting
    <3>6. LastInv' /\ TitleInv'
      BY <3>1, <3>2, <3>3, <3>4 DEF LastInv, TitleInv, TranscriptInv
    <3> QED BY <3>2, <3>5, <3>6 DEF TranscriptInv
  <2> QED BY <2>1, AppendKeeps, OpenKeeps, WindowKeeps, ForwardKeeps, EndKeeps, PromptKeeps,
             ReturnKeeps DEF TranscriptNext
<1> QED BY <1>1, <1>2, PTL DEF TranscriptSpec

\* However the windows fall and whatever claude appends meanwhile, a reader answers
\* with the last message, the last token count or the title of some moment of
\* its call (claude_sessions.rs), for files, windows and lines of any size.
THEOREM AnswersCurrent == TranscriptSpec => []AnswersAreCurrent
<1>1. TranscriptInv => AnswersAreCurrent
  <2> SUFFICES ASSUME TranscriptInv, reader.pc = "done" PROVE AnswersAreCurrent
    BY DEF AnswersAreCurrent
  <2> DEFINE N == reader.from .. Len(lines)
             i == reader.found
  <2>1. reader.want \in {"message", "tokens", "title"} /\ N \in SUBSET Nat
    BY LineIs DEF TranscriptInv, CallInv, ReaderType, Want, TellsApart
  <2>2. ASSUME NEW k \in N
        PROVE  /\ LastMessage(k) = LastAmong({"text"}, k)
               /\ LastUsage(k) = LastAmong({"text", "tool"}, k)
               /\ Latest(custom, 1 .. k) = LastAmong({"custom-title"}, k)
               /\ Max({0} \cup {j \in 1 .. k : lines[j].kind = "ai-title"})
                    = LastAmong({"ai-title"}, k)
    <3>1. /\ LastMessage(k) = LastAmong({"text"}, k)
          /\ LastUsage(k) = LastAmong({"text", "tool"}, k)
          /\ Latest(custom, 1 .. k) = LastAmong({"custom-title"}, k)
      BY LatestIs, Zenon DEF LastMessage, LastUsage, LastAmong, Among
    <3>2. {j \in 1 .. k : lines[j].kind = "ai-title"} = Among({"ai-title"}, k)
      BY DEF Among
    <3>3. k \in Nat /\ Among({"ai-title"}, k) \in SUBSET (1 .. k)
      BY <2>1 DEF Among
    <3>4. Max({0} \cup Among({"ai-title"}, k)) = LastAmong({"ai-title"}, k)
      BY <3>3, LastOfWith0 DEF LastAmong
    <3> QED BY <3>1, <3>2, <3>4
  <2>3. CASE reader.want = "message"
    <3>1. \E k \in N : i = LastAmong({"text"}, k)
      BY <2>3 DEF TranscriptInv, LastInv, WasLast, Wanted
    <3>2. \E k \in N : i = LastMessage(k)
      BY <2>2, <3>1
    <3> QED BY <2>3, <3>2 DEF AnswersAreCurrent
  <2>4. CASE reader.want = "tokens"
    <3>1. \E k \in N : i = LastAmong({"text", "tool"}, k)
      BY <2>4 DEF TranscriptInv, LastInv, WasLast, Wanted
    <3>2. \E k \in N : i = LastUsage(k)
      BY <2>2, <3>1
    <3> QED BY <2>4, <3>2 DEF AnswersAreCurrent
  <2>5. CASE reader.want = "title"
    <3>1. i # 0 /\ title_from_line(i) => WasTitle
      BY <2>5 DEF TranscriptInv, TitleInv
    <3>2. ~Grew => i = IF Title(Reach) # 0 THEN Title(Reach) ELSE FirstPrompt
      BY <2>5 DEF TranscriptInv, TitleInv
    <3>3. WasTitle => \E k \in N :
            i \in {Latest(custom, 1 .. k), Max({0} \cup {j \in 1 .. k : lines[j].kind = "ai-title"})}
      BY <2>2 DEF WasTitle
    <3> QED BY <2>5, <3>1, <3>2, <3>3, Zenon DEF AnswersAreCurrent
  <2> QED BY <2>1, <2>3, <2>4, <2>5
<1> QED BY <1>1, TranscriptInvAlways, PTL
=============================================================================
