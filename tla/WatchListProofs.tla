---------------------------- MODULE WatchListProofs ----------------------------
(***************************************************************************)
(* What the session list of the TUI shows and deletes, for any number of   *)
(* sessions, worktrees, keys and writes by others.                         *)
(*                                                                         *)
(* The list is a cache that is brought up to date in four places: on the   *)
(* disk, in the queue, in the batch of this iteration and in the reload.   *)
(* Where the list differs from the disk, a change is on its way in one of  *)
(* the others.                                                             *)
(***************************************************************************)
EXTENDS WatchList, FunctionTheorems, FiniteSetTheorems, SequenceTheorems, WellFoundedInduction,
        TLAPS

-----------------------------------------------------------------------------
(* What a queue says *)

IsQueue(q) == q \in Seq({q[i] : i \in DOMAIN q})

Changes(e, s) == e.what = "change" /\ e.id = s
Tells(q, s) == \E i \in DOMAIN q : Changes(q[i], s)

\* The last that it tells of s is that the document is gone.
TellsGone(q, s) ==
  \E i \in DOMAIN q : /\ Changes(q[i], s) /\ q[i].type = "Deleted"
                      /\ \A j \in DOMAIN q : j > i => ~Changes(q[j], s)

HasKey(q) == \E i \in DOMAIN q : q[i].what = "key"
OneKey(q) == \A i, j \in DOMAIN q : q[i].what = "key" /\ q[j].what = "key" => i = j

\* Who presses y has read the prompt for p.
Answer(e, p) == e.what = "key" /\ e.key = "y" => e.seen = p
Answers(q, p) == \A i \in DOMAIN q : Answer(q[i], p)

\* Who pressed another key has seen one of X under the cursor.
See(e, X) == e.what = "key" /\ e.key # "y" => e.seen \in X
Sees(q, X) == \A i \in DOMAIN q : See(q[i], X)

Kind(e) == e.what = "change" => e.type \in {"Modified", "Deleted"}
Kinds(q) == \A i \in DOMAIN q : Kind(q[i])

LEMMA QueueIs ==
  ASSUME NEW q, IsQueue(q)
  PROVE  Len(q) \in Nat /\ DOMAIN q = 1 .. Len(q)
BY LenProperties DEF IsQueue

LEMMA IsQueueIf ==
  ASSUME NEW S, NEW q \in Seq(S)
  PROVE  IsQueue(q)
<1>1. Len(q) \in Nat /\ DOMAIN q = 1 .. Len(q) /\ q \in [1 .. Len(q) -> S]
  BY LenProperties
<1>2. q \in [1 .. Len(q) -> {q[i] : i \in DOMAIN q}]
  BY <1>1
<1> QED BY <1>1, <1>2 DEF IsQueue

\* The loop takes the first event.
LEMMA Takes ==
  ASSUME NEW q, IsQueue(q), q # <<>>
  PROVE  LET e == Head(q)  t == Tail(q) IN
         /\ IsQueue(t)
         /\ \A s : /\ Tells(q, s) <=> Changes(e, s) \/ Tells(t, s)
                   /\ TellsGone(t, s) => TellsGone(q, s)
                   /\ Changes(e, s) /\ e.type = "Deleted" /\ ~Tells(t, s) => TellsGone(q, s)
         /\ HasKey(q) <=> e.what = "key" \/ HasKey(t)
         /\ OneKey(q) => OneKey(t) /\ (e.what = "key" => ~HasKey(t))
         /\ \A p : Answers(q, p) => Answers(t, p) /\ Answer(e, p)
         /\ Kinds(q) => Kinds(t) /\ Kind(e)
         /\ \A X : Sees(q, X) => Sees(t, X) /\ See(e, X)
<1> DEFINE S == {q[i] : i \in DOMAIN q}
           e == Head(q)
           t == Tail(q)
<1>1. q \in Seq(S) /\ Len(q) \in Nat /\ DOMAIN q = 1 .. Len(q)
  BY LenProperties DEF IsQueue
<1> HIDE DEF S
<1>2. /\ t \in Seq(S) /\ Len(q) > 0 /\ e = q[1]
      /\ DOMAIN t = 1 .. Len(q) - 1 /\ \A i \in 1 .. Len(q) - 1 : t[i] = q[i + 1]
  BY <1>1, HeadTailProperties, LenProperties, EmptySeq
<1> HIDE DEF t, e
<1>3. /\ 1 \in DOMAIN q /\ e = q[1]
      /\ \A i \in DOMAIN t : i + 1 \in DOMAIN q /\ i + 1 # 1 /\ t[i] = q[i + 1]
      /\ \A i \in DOMAIN q : i # 1 => i - 1 \in DOMAIN t /\ q[i] = t[i - 1]
      /\ DOMAIN q \subseteq Nat /\ DOMAIN t \subseteq Nat
  BY <1>1, <1>2
<1>4. IsQueue(t)
  BY <1>2, IsQueueIf
<1>5. ASSUME NEW s
      PROVE  /\ Tells(q, s) <=> Changes(e, s) \/ Tells(t, s)
             /\ TellsGone(t, s) => TellsGone(q, s)
             /\ Changes(e, s) /\ e.type = "Deleted" /\ ~Tells(t, s) => TellsGone(q, s)
  <2>1. Tells(q, s) <=> Changes(e, s) \/ Tells(t, s)
    <3>1. ASSUME Tells(q, s) PROVE Changes(e, s) \/ Tells(t, s)
      BY <1>3, <3>1 DEF Tells
    <3>2. ASSUME Tells(t, s) PROVE Tells(q, s)
      BY <1>3, <3>2 DEF Tells
    <3>3. ASSUME Changes(e, s) PROVE Tells(q, s)
      BY <1>3, <3>3 DEF Tells
    <3> QED BY <3>1, <3>2, <3>3
  <2>2. ASSUME TellsGone(t, s) PROVE TellsGone(q, s)
    <3>1. PICK i \in DOMAIN t : /\ Changes(t[i], s) /\ t[i].type = "Deleted"
                                /\ \A j \in DOMAIN t : j > i => ~Changes(t[j], s)
      BY <2>2 DEF TellsGone
    <3>2. ASSUME NEW j \in DOMAIN q, j > i + 1 PROVE ~Changes(q[j], s)
      <4>1. j - 1 \in DOMAIN t /\ q[j] = t[j - 1] /\ j - 1 > i
        BY <1>3, <3>2
      <4> QED BY <3>1, <4>1
    <3>3. i + 1 \in DOMAIN q /\ q[i + 1] = t[i]
      BY <1>3
    <3> QED BY <3>1, <3>2, <3>3 DEF TellsGone
  <2>3. ASSUME Changes(e, s), e.type = "Deleted", ~Tells(t, s) PROVE TellsGone(q, s)
    <3>1. ASSUME NEW j \in DOMAIN q, j > 1 PROVE ~Changes(q[j], s)
      BY <1>3, <2>3, <3>1 DEF Tells
    <3> QED BY <1>3, <2>3, <3>1 DEF TellsGone
  <2> QED BY <2>1, <2>2, <2>3
<1>6. HasKey(q) <=> e.what = "key" \/ HasKey(t)
  <2>1. ASSUME HasKey(q) PROVE e.what = "key" \/ HasKey(t)
    BY <1>3, <2>1 DEF HasKey
  <2>2. ASSUME e.what = "key" \/ HasKey(t) PROVE HasKey(q)
    BY <1>3, <2>2 DEF HasKey
  <2> QED BY <2>1, <2>2
<1>7. ASSUME OneKey(q) PROVE OneKey(t) /\ (e.what = "key" => ~HasKey(t))
  <2>1. ASSUME NEW i \in DOMAIN t, NEW j \in DOMAIN t, t[i].what = "key", t[j].what = "key"
        PROVE  i = j
    <3>1. i + 1 = j + 1
      BY <1>3, <1>7, <2>1 DEF OneKey
    <3> QED BY <1>3, <3>1
  <2>2. e.what = "key" => ~HasKey(t)
    BY <1>3, <1>7 DEF OneKey, HasKey
  <2> QED BY <2>1, <2>2 DEF OneKey
<1>8. ASSUME NEW p, Answers(q, p) PROVE Answers(t, p) /\ Answer(e, p)
  BY <1>3, <1>8 DEF Answers
<1>9. ASSUME Kinds(q) PROVE Kinds(t) /\ Kind(e)
  BY <1>3, <1>9 DEF Kinds
<1>10. ASSUME NEW X, Sees(q, X) PROVE Sees(t, X) /\ See(e, X)
  BY <1>3, <1>10 DEF Sees
<1> QED BY <1>4, <1>5, <1>6, <1>7, <1>8, <1>9, <1>10 DEF t, e

\* Somebody writes at the end of it.
LEMMA Gets ==
  ASSUME NEW q, IsQueue(q), NEW more, IsQueue(more)
  PROVE  LET r == q \o more IN
         /\ IsQueue(r)
         /\ \A s : /\ Tells(r, s) <=> Tells(q, s) \/ Tells(more, s)
                   /\ TellsGone(r, s) => TellsGone(more, s) \/ (TellsGone(q, s) /\ ~Tells(more, s))
         /\ HasKey(r) <=> HasKey(q) \/ HasKey(more)
         /\ OneKey(q) /\ OneKey(more) /\ ~(HasKey(q) /\ HasKey(more)) => OneKey(r)
         /\ \A p : Answers(q, p) /\ Answers(more, p) => Answers(r, p)
         /\ Kinds(q) /\ Kinds(more) => Kinds(r)
         /\ \A X : Sees(q, X) /\ Sees(more, X) => Sees(r, X)
<1> DEFINE S == {q[i] : i \in DOMAIN q} \cup {more[i] : i \in DOMAIN more}
           r == q \o more
           n == Len(q)
           m == Len(more)
<1>1. q \in Seq(S) /\ more \in Seq(S) /\ n \in Nat /\ m \in Nat
      /\ DOMAIN q = 1 .. n /\ DOMAIN more = 1 .. m
  <2>1. /\ n \in Nat /\ DOMAIN q = 1 .. n /\ q \in [1 .. n -> {q[i] : i \in DOMAIN q}]
        /\ m \in Nat /\ DOMAIN more = 1 .. m /\ more \in [1 .. m -> {more[i] : i \in DOMAIN more}]
    BY LenProperties DEF IsQueue
  <2>2. q \in [1 .. n -> S] /\ more \in [1 .. m -> S]
    BY <2>1
  <2> QED BY <2>1, <2>2
<1> HIDE DEF S
<1>2. /\ r \in Seq(S) /\ Len(r) = n + m
      /\ \A i \in 1 .. n + m : r[i] = IF i <= n THEN q[i] ELSE more[i - n]
  BY <1>1, ConcatProperties
<1>3. IsQueue(r) /\ DOMAIN r = 1 .. n + m
  BY <1>2, IsQueueIf, LenProperties
<1> HIDE DEF r, n, m
<1>4. /\ \A i \in DOMAIN q : i \in DOMAIN r /\ r[i] = q[i]
      /\ \A i \in DOMAIN more : i + n \in DOMAIN r /\ r[i + n] = more[i]
      /\ \A i \in DOMAIN r : \/ i \in DOMAIN q /\ r[i] = q[i] /\ i <= n
                             \/ i - n \in DOMAIN more /\ r[i] = more[i - n] /\ i > n
      /\ DOMAIN q \subseteq Nat /\ DOMAIN more \subseteq Nat /\ DOMAIN r \subseteq Nat /\ n \in Nat
  BY <1>1, <1>2, <1>3
<1>5. ASSUME NEW s
      PROVE  /\ Tells(r, s) <=> Tells(q, s) \/ Tells(more, s)
             /\ TellsGone(r, s) => TellsGone(more, s) \/ (TellsGone(q, s) /\ ~Tells(more, s))
  <2>1. Tells(r, s) => Tells(q, s) \/ Tells(more, s)
    BY <1>4 DEF Tells
  <2>2. Tells(q, s) => Tells(r, s)
    BY <1>4 DEF Tells
  <2>3. Tells(more, s) => Tells(r, s)
    BY <1>4 DEF Tells
  <2>4. ASSUME TellsGone(r, s) PROVE TellsGone(more, s) \/ (TellsGone(q, s) /\ ~Tells(more, s))
    <3>1. PICK i \in DOMAIN r : /\ Changes(r[i], s) /\ r[i].type = "Deleted"
                                /\ \A j \in DOMAIN r : j > i => ~Changes(r[j], s)
      BY <2>4 DEF TellsGone
    <3>2. CASE i \in DOMAIN q /\ r[i] = q[i] /\ i <= n
      <4>1. ASSUME NEW j \in DOMAIN more PROVE ~Changes(more[j], s)
        <5>1. j + n \in DOMAIN r /\ r[j + n] = more[j] /\ j + n > i
          BY <1>1, <1>4, <3>2
        <5> QED BY <3>1, <5>1
      <4>2. ASSUME NEW j \in DOMAIN q, j > i PROVE ~Changes(q[j], s)
        BY <1>4, <3>1, <4>2
      <4> QED BY <3>1, <3>2, <4>1, <4>2 DEF Tells, TellsGone
    <3>3. CASE i - n \in DOMAIN more /\ r[i] = more[i - n] /\ i > n
      <4>1. ASSUME NEW j \in DOMAIN more, j > i - n PROVE ~Changes(more[j], s)
        <5>1. j + n \in DOMAIN r /\ r[j + n] = more[j] /\ j + n > i
          BY <1>1, <1>4, <3>3, <4>1
        <5> QED BY <3>1, <5>1
      <4>2. Changes(more[i - n], s) /\ more[i - n].type = "Deleted"
        BY <3>1, <3>3
      <4> QED BY <3>3, <4>1, <4>2 DEF TellsGone
    <3> QED BY <1>4, <3>2, <3>3
  <2> QED BY <2>1, <2>2, <2>3, <2>4
<1>6. HasKey(r) <=> HasKey(q) \/ HasKey(more)
  <2>1. HasKey(r) => HasKey(q) \/ HasKey(more)
    BY <1>4 DEF HasKey
  <2>2. HasKey(q) => HasKey(r)
    BY <1>4 DEF HasKey
  <2>3. HasKey(more) => HasKey(r)
    BY <1>4 DEF HasKey
  <2> QED BY <2>1, <2>2, <2>3
<1>7. ASSUME OneKey(q), OneKey(more), ~(HasKey(q) /\ HasKey(more)) PROVE OneKey(r)
  <2>1. ASSUME NEW i \in DOMAIN r, NEW j \in DOMAIN r, r[i].what = "key", r[j].what = "key"
        PROVE  i = j
    <3>1. CASE i \in DOMAIN q /\ r[i] = q[i] /\ j \in DOMAIN q /\ r[j] = q[j]
      BY <1>7, <2>1, <3>1 DEF OneKey
    <3>2. CASE i - n \in DOMAIN more /\ r[i] = more[i - n] /\ j - n \in DOMAIN more /\ r[j] = more[j - n]
      <4>1. i - n = j - n
        BY <1>7, <2>1, <3>2 DEF OneKey
      <4> QED BY <1>4, <4>1
    <3>3. CASE i \in DOMAIN q /\ r[i] = q[i] /\ j - n \in DOMAIN more /\ r[j] = more[j - n]
      BY <1>7, <2>1, <3>3 DEF HasKey
    <3>4. CASE j \in DOMAIN q /\ r[j] = q[j] /\ i - n \in DOMAIN more /\ r[i] = more[i - n]
      BY <1>7, <2>1, <3>4 DEF HasKey
    <3> QED BY <1>4, <3>1, <3>2, <3>3, <3>4
  <2> QED BY <2>1 DEF OneKey
<1>8. ASSUME NEW p, Answers(q, p), Answers(more, p) PROVE Answers(r, p)
  <2>1. ASSUME NEW i \in DOMAIN r PROVE Answer(r[i], p)
    BY <1>4, <1>8 DEF Answers
  <2> QED BY <2>1 DEF Answers
<1>9. ASSUME Kinds(q), Kinds(more) PROVE Kinds(r)
  <2>1. ASSUME NEW i \in DOMAIN r PROVE Kind(r[i])
    BY <1>4, <1>9 DEF Kinds
  <2> QED BY <2>1 DEF Kinds
<1>10. ASSUME NEW X, Sees(q, X), Sees(more, X) PROVE Sees(r, X)
  <2>1. ASSUME NEW i \in DOMAIN r PROVE See(r[i], X)
    BY <1>4, <1>10 DEF Sees
  <2> QED BY <2>1 DEF Sees
<1> QED BY <1>3, <1>5, <1>6, <1>7, <1>8, <1>9, <1>10 DEF r

\* One event.
LEMMA GetsOne ==
  ASSUME NEW q, IsQueue(q), NEW e, e.what # "change"
  PROVE  LET r == Append(q, e) IN
         /\ IsQueue(r)
         /\ \A s : (Tells(r, s) <=> Tells(q, s)) /\ (TellsGone(r, s) => TellsGone(q, s))
         /\ HasKey(r) <=> HasKey(q) \/ e.what = "key"
         /\ OneKey(q) /\ ~(HasKey(q) /\ e.what = "key") => OneKey(r)
         /\ \A p : Answers(q, p) /\ Answer(e, p) => Answers(r, p)
         /\ Kinds(q) => Kinds(r)
         /\ \A X : Sees(q, X) /\ See(e, X) => Sees(r, X)
<1> DEFINE S == {q[i] : i \in DOMAIN q} \cup {e}
           o == <<e>>
<1>1. DOMAIN o = {1} /\ o[1] = e /\ o \in Seq({e})
  OBVIOUS
<1> HIDE DEF o
<1>2. IsQueue(o)
  BY <1>1, IsQueueIf
<1>3. Append(q, e) = q \o o
  <2>1. Len(q) \in Nat /\ DOMAIN q = 1 .. Len(q) /\ q \in [1 .. Len(q) -> {q[i] : i \in DOMAIN q}]
    BY LenProperties DEF IsQueue
  <2>2. q \in [1 .. Len(q) -> S] /\ e \in S
    BY <2>1
  <2>3. q \in Seq(S)
    BY <2>1, <2>2
  <2> HIDE DEF S
  <2> QED BY <2>2, <2>3, AppendIsConcat DEF o
<1>4. /\ \A s : ~Tells(o, s) /\ ~TellsGone(o, s)
      /\ HasKey(o) <=> e.what = "key"
      /\ OneKey(o) /\ Kinds(o) /\ \A p : Answer(e, p) => Answers(o, p)
  BY <1>1 DEF Tells, TellsGone, Changes, HasKey, OneKey, Kinds, Kind, Answers
<1>5. \A X : See(e, X) => Sees(o, X)
  BY <1>1 DEF Sees
<1> QED BY <1>2, <1>3, <1>4, <1>5, Gets

LEMMA SetToSeqIs ==
  ASSUME NEW S, IsFiniteSet(S)
  PROVE  /\ Cardinality(S) \in Nat
         /\ SetToSeq(S) \in [1 .. Cardinality(S) -> S]
         /\ \A s \in S : \E i \in 1 .. Cardinality(S) : SetToSeq(S)[i] = s
<1> DEFINE n == Cardinality(S)
<1>1. n \in Nat /\ ExistsBijection(1 .. n, S)
  BY FS_CardinalityType
<1>2. PICK g : g \in Bijection(1 .. n, S)
  BY <1>1 DEF ExistsBijection
<1>3. g \in [1 .. n -> S] /\ IsInjective(g)
  BY <1>2 DEF Bijection, Injection
<1>4. SetToSeq(S) \in [1 .. n -> S] /\ IsInjective(SetToSeq(S))
  BY <1>3 DEF SetToSeq
<1>5. SetToSeq(S) \in Injection(1 .. n, S)
  BY <1>4 DEF Injection
<1>6. IsFiniteSet(1 .. n) /\ Cardinality(1 .. n) = n
  BY <1>1, FS_Interval
<1>7. SetToSeq(S) \in Surjection(1 .. n, S)
  BY <1>5, <1>6, FS_Injection
<1> QED BY <1>1, <1>4, <1>7 DEF Surjection

\* The events of the documents in S.
News(S, type) ==
  [i \in 1 .. Cardinality(S) |-> [what |-> "change", id |-> SetToSeq(S)[i], type |-> type]]

LEMMA NewsIs ==
  ASSUME NEW S, IsFiniteSet(S), NEW type
  PROVE  LET more == News(S, type) IN
         /\ IsQueue(more) /\ OneKey(more) /\ ~HasKey(more)
         /\ \A s : (Tells(more, s) <=> s \in S) /\ (TellsGone(more, s) => s \in S /\ type = "Deleted")
         /\ (\A p : Answers(more, p)) /\ (\A X : Sees(more, X))
         /\ type \in {"Modified", "Deleted"} => Kinds(more)
<1> DEFINE n == Cardinality(S)
           all == SetToSeq(S)
           more == News(S, type)
<1>1. n \in Nat /\ all \in [1 .. n -> S] /\ \A s \in S : \E i \in 1 .. n : all[i] = s
  BY SetToSeqIs
<1> HIDE DEF n, all
<1> DEFINE R == [what : {"change"}, id : S, type : {type}]
<1>2. /\ DOMAIN more = 1 .. n /\ more \in Seq(R)
      /\ \A i \in 1 .. n : more[i].what = "change" /\ more[i].id = all[i] /\ more[i].type = type
  <2>1. more = [i \in 1 .. n |-> [what |-> "change", id |-> all[i], type |-> type]]
    BY DEF News, n, all
  <2>2. \A i \in 1 .. n : [what |-> "change", id |-> all[i], type |-> type] \in R
    BY <1>1
  <2> HIDE DEF more, R
  <2>3. more \in [1 .. n -> R]
    BY <2>1, <2>2
  <2> QED BY <1>1, <2>1, <2>3
<1> HIDE DEF more, R
<1>3. IsQueue(more)
  BY <1>2, IsQueueIf
<1>4. ~HasKey(more) /\ OneKey(more) /\ (\A p : Answers(more, p)) /\ (\A X : Sees(more, X))
  BY <1>2 DEF HasKey, OneKey, Answers, Answer, Sees, See
<1>5. ASSUME NEW s
      PROVE  (Tells(more, s) <=> s \in S) /\ (TellsGone(more, s) => s \in S /\ type = "Deleted")
  <2>1. ASSUME Tells(more, s) PROVE s \in S
    <3>1. PICK i \in DOMAIN more : Changes(more[i], s)
      BY <2>1 DEF Tells
    <3> QED BY <1>1, <1>2, <3>1 DEF Changes
  <2>2. s \in S => Tells(more, s)
    BY <1>1, <1>2 DEF Tells, Changes
  <2>3. ASSUME TellsGone(more, s) PROVE s \in S /\ type = "Deleted"
    <3>1. PICK i \in DOMAIN more : Changes(more[i], s) /\ more[i].type = "Deleted"
      BY <2>3 DEF TellsGone
    <3> QED BY <1>1, <1>2, <3>1 DEF Changes
  <2> QED BY <2>1, <2>2, <2>3
<1>6. type \in {"Modified", "Deleted"} => Kinds(more)
  BY <1>2 DEF Kinds, Kind
<1> QED BY <1>3, <1>4, <1>5, <1>6 DEF more

-----------------------------------------------------------------------------
(* How the list is sorted and what the rows show *)

\* In a finite order, given by what comes before each element, the places are
\* taken by one element each.
LEMMA PlacesAreTaken ==
  ASSUME NEW S, IsFiniteSet(S), NEW B \in [S -> SUBSET S],
         \A x \in S : x \notin B[x],
         \A x \in S : \A y \in B[x] : B[y] \subseteq B[x],
         \A x, y \in S : x = y \/ x \in B[y] \/ y \in B[x]
  PROVE  /\ Cardinality(S) \in Nat
         /\ \A x \in S : Cardinality(B[x]) \in 0 .. Cardinality(S) - 1
         /\ \A x, y \in S : Cardinality(B[x]) = Cardinality(B[y]) => x = y
         /\ \A n \in 1 .. Cardinality(S) : \E x \in S : Cardinality(B[x]) = n - 1
<1> DEFINE n == Cardinality(S)
           place == [x \in S |-> Cardinality(B[x])]
<1>1. n \in Nat
  BY FS_CardinalityType
<1>2. ASSUME NEW x \in S
      PROVE  IsFiniteSet(B[x]) /\ Cardinality(B[x]) \in 0 .. n - 1
  <2>1. IsFiniteSet(S \ {x}) /\ Cardinality(S \ {x}) = n - 1
    BY FS_RemoveElement
  <2>2. B[x] \in SUBSET (S \ {x})
    OBVIOUS
  <2>3. IsFiniteSet(B[x]) /\ Cardinality(B[x]) <= n - 1
    BY <2>1, <2>2, FS_Subset
  <2>4. Cardinality(B[x]) \in Nat
    BY <2>3, FS_CardinalityType
  <2> QED BY <1>1, <2>3, <2>4
<1>3. ASSUME NEW x \in S, NEW y \in S, x \in B[y]
      PROVE  Cardinality(B[x]) < Cardinality(B[y])
  <2>1. x \notin B[x] /\ B[x] \cup {x} \in SUBSET B[y]
    BY <1>3
  <2>2. Cardinality(B[x] \cup {x}) = Cardinality(B[x]) + 1
    BY <1>2, <2>1, FS_AddElement
  <2>3. Cardinality(B[x] \cup {x}) <= Cardinality(B[y])
    BY <1>2, <2>1, FS_Subset
  <2> QED BY <1>2, <2>2, <2>3
<1>4. ASSUME NEW x \in S, NEW y \in S, Cardinality(B[x]) = Cardinality(B[y])
      PROVE  x = y
  <2>1. Cardinality(B[x]) \in Int /\ Cardinality(B[y]) \in Int
    BY <1>2
  <2> QED BY <1>3, <1>4, <2>1
<1>5. place \in [S -> 0 .. n - 1]
  BY <1>2
<1>6. place \in Injection(S, 0 .. n - 1)
  BY <1>4, <1>5 DEF Injection, IsInjective
<1>7. IsFiniteSet(0 .. n - 1) /\ Cardinality(0 .. n - 1) = n
  BY <1>1, FS_Interval
<1>8. place \in Surjection(S, 0 .. n - 1)
  BY <1>6, <1>7, FS_Injection
<1>9. ASSUME NEW k \in 1 .. n PROVE \E x \in S : Cardinality(B[x]) = k - 1
  <2>1. k - 1 \in 0 .. n - 1
    BY <1>1
  <2>2. \E x \in S : place[x] = k - 1
    BY <1>8, <2>1 DEF Surjection
  <2> QED BY <2>2
<1> QED BY <1>1, <1>2, <1>4, <1>9

\* The list in its order is an enumeration of what is in it.
LEMMA SortIs ==
  ASSUME NEW list \in List
  PROVE  LET ids == sort_sessions(list)  n == Cardinality(InList(list)) IN
         /\ n \in Nat /\ ids \in [1 .. n -> InList(list)]
         /\ \A s \in InList(list) : \E i \in 1 .. n : ids[i] = s
<1> DEFINE S == InList(list)
           Newer(s, t) == \/ list[s].at > list[t].at
                          \/ list[s].at = list[t].at /\ Age[s] > Age[t]
           B == [t \in S |-> {s \in S : Newer(s, t)}]
           n == Cardinality(S)
           ids == sort_sessions(list)
<1>1. /\ IsFiniteSet(S) /\ S \subseteq Session
      /\ \A s \in S : list[s].at \in Int /\ Age[s] \in Int
      /\ \A s, t \in S : Age[s] = Age[t] => s = t
  <2>1. IsFiniteSet(S) /\ S \subseteq Session
    BY WatchListAssumption, FS_Subset DEF InList
  <2>2. ASSUME NEW s \in S PROVE list[s].at \in Int
    BY WatchListAssumption DEF InList, List, Doc
  <2> QED BY <2>1, <2>2, WatchListAssumption
<1> HIDE DEF S
<1>2. B \in [S -> SUBSET S] /\ \A t \in S, s \in S : s \in B[t] <=> Newer(s, t)
  OBVIOUS
<1> HIDE DEF B
<1>3. \A x \in S : x \notin B[x]
  BY <1>1, <1>2
<1>4. ASSUME NEW x \in S, NEW y \in B[x], NEW z \in B[y] PROVE z \in B[x]
  BY <1>1, <1>2, <1>4
<1>5. \A x, y \in S : x = y \/ x \in B[y] \/ y \in B[x]
  BY <1>1, <1>2
<1>6. /\ n \in Nat /\ \A x \in S : Cardinality(B[x]) \in 0 .. n - 1
      /\ \A x, y \in S : Cardinality(B[x]) = Cardinality(B[y]) => x = y
      /\ \A k \in 1 .. n : \E x \in S : Cardinality(B[x]) = k - 1
  BY <1>1, <1>2, <1>3, <1>4, <1>5, PlacesAreTaken
<1>7. ids = [k \in 1 .. n |-> CHOOSE x \in S : Cardinality({y \in S : Newer(y, x)}) = k - 1]
  BY DEF sort_sessions, InOrder, S
<1>8. \A x \in S : {y \in S : Newer(y, x)} = B[x]
  BY <1>2
<1> HIDE DEF Newer, n, ids
<1>9. ASSUME NEW k \in 1 .. n
      PROVE  ids[k] \in S /\ Cardinality(B[ids[k]]) = k - 1
  <2>1. \E x \in S : Cardinality({y \in S : Newer(y, x)}) = k - 1
    BY <1>6, <1>8
  <2>2. ids[k] = CHOOSE x \in S : Cardinality({y \in S : Newer(y, x)}) = k - 1
    BY <1>7
  <2>3. ids[k] \in S /\ Cardinality({y \in S : Newer(y, ids[k])}) = k - 1
    BY <2>1, <2>2
  <2> QED BY <1>8, <2>3
<1>10. ids \in [1 .. n -> S]
  BY <1>7, <1>9
<1>11. ASSUME NEW s \in S PROVE \E i \in 1 .. n : ids[i] = s
  <2>1. Cardinality(B[s]) + 1 \in 1 .. n
    BY <1>6
  <2>2. Cardinality(B[ids[Cardinality(B[s]) + 1]]) = Cardinality(B[s])
    BY <1>6, <1>9, <2>1
  <2> QED BY <1>6, <1>9, <2>1, <2>2
<1> QED BY <1>6, <1>10, <1>11 DEF S, n, ids

\* So is a set of places in the list.
LEMMA InOrderIs ==
  ASSUME NEW S \in SUBSET Nat, IsFiniteSet(S)
  PROVE  LET m == InOrder(S, <)  n == Cardinality(S) IN
         /\ n \in Nat /\ m \in [1 .. n -> S]
         /\ \A s \in S : \E i \in 1 .. n : m[i] = s
<1> DEFINE B == [t \in S |-> {s \in S : s < t}]
           n == Cardinality(S)
           m == InOrder(S, <)
<1>2. B \in [S -> SUBSET S] /\ \A t \in S, s \in S : s \in B[t] <=> s < t
  OBVIOUS
<1> HIDE DEF B
<1>3. \A x \in S : x \notin B[x]
  BY <1>2
<1>4. \A x \in S : \A y \in B[x] : B[y] \subseteq B[x]
  <2>1. ASSUME NEW x \in S, NEW y \in B[x], NEW z \in B[y] PROVE z \in B[x]
    BY <1>2, <2>1
  <2> QED BY <2>1
<1>5. \A x, y \in S : x = y \/ x \in B[y] \/ y \in B[x]
  BY <1>2
<1>6. /\ n \in Nat /\ \A x \in S : Cardinality(B[x]) \in 0 .. n - 1
      /\ \A x, y \in S : Cardinality(B[x]) = Cardinality(B[y]) => x = y
      /\ \A k \in 1 .. n : \E x \in S : Cardinality(B[x]) = k - 1
  BY <1>2, <1>3, <1>4, <1>5, PlacesAreTaken
<1>7. m = [k \in 1 .. n |-> CHOOSE x \in S : Cardinality({y \in S : y < x}) = k - 1]
  BY DEF InOrder
<1>8. \A x \in S : {y \in S : y < x} = B[x]
  BY <1>2
<1> HIDE DEF n, m
<1>9. ASSUME NEW k \in 1 .. n
      PROVE  m[k] \in S /\ Cardinality(B[m[k]]) = k - 1
  <2>1. \E x \in S : Cardinality({y \in S : y < x}) = k - 1
    BY <1>6, <1>8
  <2>2. m[k] = CHOOSE x \in S : Cardinality({y \in S : y < x}) = k - 1
    BY <1>7
  <2>3. m[k] \in S /\ Cardinality({y \in S : y < m[k]}) = k - 1
    BY <2>1, <2>2
  <2> QED BY <1>8, <2>3
<1>10. m \in [1 .. n -> S]
  BY <1>7, <1>9
<1>11. ASSUME NEW s \in S PROVE \E i \in 1 .. n : m[i] = s
  <2>1. Cardinality(B[s]) + 1 \in 1 .. n
    BY <1>6
  <2>2. Cardinality(B[m[Cardinality(B[s]) + 1]]) = Cardinality(B[s])
    BY <1>6, <1>9, <2>1
  <2> QED BY <1>6, <1>9, <2>1, <2>2
<1> QED BY <1>6, <1>10, <1>11 DEF n, m

LEMMA LeastOf ==
  ASSUME NEW T \in SUBSET Nat, T # {}
  PROVE  \E x \in T : \A y \in T : x <= y
<1>1. \E x \in T : \A y \in T : <<y, x>> \notin OpToRel(<, Nat)
  BY NatLessThanWellFounded, WFMin
<1>2. PICK x \in T : \A y \in T : <<y, x>> \notin OpToRel(<, Nat)
  BY <1>1
<1>3. ASSUME NEW y \in T, y < x PROVE FALSE
  <2>1. <<y, x>> \in Nat \X Nat /\ <<y, x>>[1] < <<y, x>>[2]
    BY <1>3
  <2>2. <<y, x>> \in OpToRel(<, Nat)
    BY <2>1 DEF OpToRel
  <2> QED BY <1>2, <2>2
<1> QED BY <1>3

\* A section shows the places of the filter whose session has its status.
Of(list, filtered, st) ==
  {i \in filtered \cap DOMAIN sort_sessions(list) : list[sort_sessions(list)[i]].status = st}

LEMMA SectionIs ==
  ASSUME NEW list \in List, NEW filtered, NEW st
  PROVE  LET sec == Section(list, filtered, st) IN
         /\ sec \in Seq(Nat)
         /\ \A i \in Nat \ {0} : (\E r \in DOMAIN sec : sec[r] = i) <=> i \in Of(list, filtered, st)
<1> DEFINE S == Of(list, filtered, st)
           m == InOrder(S, <)
           n == Cardinality(S)
           sec == Section(list, filtered, st)
<1>1. S \in SUBSET (Nat \ {0}) /\ IsFiniteSet(S)
  <2>1. DOMAIN sort_sessions(list) = 1 .. Cardinality(InList(list)) /\ Cardinality(InList(list)) \in Nat
    BY SortIs
  <2>2. S \in SUBSET (1 .. Cardinality(InList(list)))
    BY <2>1 DEF Of
  <2>3. IsFiniteSet(1 .. Cardinality(InList(list)))
    BY <2>1, FS_Interval
  <2> QED BY <2>1, <2>2, <2>3, FS_Subset
<1>2. sec = IF m = <<>> THEN <<>> ELSE <<0>> \o m
  BY Zenon DEF Section, Of
<1> HIDE DEF S
<1>3. n \in Nat /\ m \in [1 .. n -> S] /\ \A s \in S : \E i \in 1 .. n : m[i] = s
  BY <1>1, InOrderIs
<1> HIDE DEF m, n, sec
<1>4. m \in Seq(Nat) /\ Len(m) = n
  <2>1. m \in [1 .. n -> Nat]
    BY <1>1, <1>3
  <2> QED BY <1>3, <2>1
<1>5. CASE m = <<>>
  <2>1. n = 0
    BY <1>4, <1>5
  <2>2. S = {}
    BY <1>3, <2>1
  <2>3. sec = <<>>
    BY <1>2, <1>5
  <2>4. sec \in Seq(Nat) /\ DOMAIN sec = {}
    BY <2>3
  <2> QED BY <2>2, <2>4 DEF S, sec
<1>6. CASE m # <<>>
  <2>1. sec = <<0>> \o m
    BY <1>2, <1>6
  <2>2. <<0>> \in Seq(Nat) /\ Len(<<0>>) = 1 /\ <<0>>[1] = 0
    OBVIOUS
  <2>3. /\ sec \in Seq(Nat) /\ Len(sec) = 1 + n
        /\ \A r \in 1 .. 1 + n : sec[r] = IF r <= 1 THEN <<0>>[r] ELSE m[r - 1]
    BY <1>4, <2>1, <2>2, ConcatProperties
  <2>4. DOMAIN sec = 1 .. 1 + n
    BY <2>3, LenProperties
  <2>5. ASSUME NEW i \in Nat \ {0}, NEW r \in DOMAIN sec, sec[r] = i PROVE i \in S
    <3>1. r # 1 /\ r \in 1 .. 1 + n
      BY <1>3, <2>2, <2>3, <2>4, <2>5
    <3>2. r - 1 \in 1 .. n /\ sec[r] = m[r - 1]
      BY <1>3, <2>3, <3>1
    <3> QED BY <1>3, <2>5, <3>2
  <2>6. ASSUME NEW i \in S PROVE \E r \in DOMAIN sec : sec[r] = i
    <3>1. PICK k \in 1 .. n : m[k] = i
      BY <1>3
    <3>2. k + 1 \in DOMAIN sec /\ sec[k + 1] = m[k]
      BY <1>3, <2>3, <2>4
    <3> QED BY <3>1, <3>2
  <2> QED BY <2>3, <2>5, <2>6 DEF S, sec
<1> QED BY <1>5, <1>6

\* The rows are those of the two sections.
LEMMA RowsAre ==
  ASSUME NEW a, a.list \in List
  PROVE  LET rows == build_session_rows(a)
             ids == sort_sessions(a.list) IN
         /\ rows \in Seq(Nat)
         /\ \A i \in Nat \ {0} :
              (\E r \in DOMAIN rows : rows[r] = i)
              <=> i \in a.filtered \cap DOMAIN ids /\ a.list[ids[i]].status \in {"Running", "Paused"}
<1> DEFINE s == Section(a.list, a.filtered, "Running")
           t == Section(a.list, a.filtered, "Paused")
           rows == build_session_rows(a)
           ids == sort_sessions(a.list)
<1>1. rows = s \o t
  BY DEF build_session_rows
<1>2. /\ s \in Seq(Nat) /\ t \in Seq(Nat)
      /\ \A i \in Nat \ {0} : (\E r \in DOMAIN s : s[r] = i) <=> i \in Of(a.list, a.filtered, "Running")
      /\ \A i \in Nat \ {0} : (\E r \in DOMAIN t : t[r] = i) <=> i \in Of(a.list, a.filtered, "Paused")
  BY SectionIs
<1> HIDE DEF s, t, rows
<1>3. /\ rows \in Seq(Nat) /\ Len(rows) = Len(s) + Len(t)
      /\ \A r \in 1 .. Len(s) + Len(t) : rows[r] = IF r <= Len(s) THEN s[r] ELSE t[r - Len(s)]
  BY <1>1, <1>2, ConcatProperties
<1>4. /\ DOMAIN rows = 1 .. Len(s) + Len(t) /\ DOMAIN s = 1 .. Len(s) /\ DOMAIN t = 1 .. Len(t)
      /\ Len(s) \in Nat /\ Len(t) \in Nat
  BY <1>2, <1>3, LenProperties
<1>5. ASSUME NEW i \in Nat \ {0}
      PROVE  (\E r \in DOMAIN rows : rows[r] = i)
             <=> (\E r \in DOMAIN s : s[r] = i) \/ (\E r \in DOMAIN t : t[r] = i)
  <2>1. ASSUME NEW r \in DOMAIN rows
        PROVE  (r \in DOMAIN s /\ rows[r] = s[r]) \/ (r - Len(s) \in DOMAIN t /\ rows[r] = t[r - Len(s)])
    BY <1>3, <1>4
  <2>2. ASSUME NEW r \in DOMAIN s PROVE r \in DOMAIN rows /\ rows[r] = s[r]
    BY <1>3, <1>4
  <2>3. ASSUME NEW r \in DOMAIN t PROVE r + Len(s) \in DOMAIN rows /\ rows[r + Len(s)] = t[r]
    BY <1>3, <1>4
  <2> QED BY <2>1, <2>2, <2>3
<1>6. ASSUME NEW i
      PROVE  i \in Of(a.list, a.filtered, "Running") \cup Of(a.list, a.filtered, "Paused")
             <=> i \in a.filtered \cap DOMAIN ids /\ a.list[ids[i]].status \in {"Running", "Paused"}
  BY DEF Of
<1> QED BY <1>2, <1>3, <1>5, <1>6 DEF rows

-----------------------------------------------------------------------------
(* The invariant *)

AppField == {"list", "filtered", "rows", "sel", "confirm", "only", "scope", "quit"}
IsApp(a) == DOMAIN a = AppField /\ a.list \in List

ShapeInv ==
  /\ IsApp(app) /\ IsQueue(queue) /\ Kinds(queue)
  /\ {disk, load.list} \subseteq List
  /\ pc \in {"new", "opening", "draw", "wait", "drain", "load", "ended"}
  /\ DOMAIN batch = {"count", "changes", "full", "key"}
  /\ batch.changes \in [Session -> {None, "Modified", "Deleted"}]
  /\ DOMAIN load = {"todo", "list", "judged"}
  /\ pc \in {"new", "opening", "wait"} => batch = NoBatch
  /\ pc \notin {"load", "ended"} => load.judged = None
  /\ load.judged # None => load.judged \in Session /\ load.list[load.judged] = None
  /\ ~Watching => \A s \in Session : ~Tells(queue, s)

\* A key was pressed at the frame that is shown, and its prompt is what waits
\* for confirmation until the key has been handled.
Prompted(a) == IF a.confirm = None THEN None ELSE a.confirm.id
KeyInv ==
  /\ OneKey(queue)
  /\ HasKey(queue) => ~batch.key /\ frame.drawn
  /\ ~batch.key /\ frame.drawn => frame.prompt = Prompted(app)
  /\ Answers(queue, frame.prompt)

\* Who is said to be gone, and by nobody to have come back since, is gone.
GoneInv ==
  \A s \in Session :
    /\ TellsGone(queue, s) => disk[s] = None
    /\ batch.changes[s] = "Deleted" /\ ~Tells(queue, s) => disk[s] = None

\* Where a list differs from the disk, a change of the session is on its way.
FreshIn(list, s) == list[s] = Listed(disk[s])
FreshInv ==
  \A s \in Session \ missed :
    /\ pc \in {"opening", "draw", "wait"} => FreshIn(app.list, s) \/ Tells(queue, s)
    /\ pc = "drain" => FreshIn(app.list, s) \/ batch.changes[s] # None \/ Tells(queue, s)
    /\ pc = "load" => \/ s \in load.todo \/ s = load.judged
                      \/ FreshIn(load.list, s) \/ Tells(queue, s)

WatchInv == ShapeInv /\ KeyInv /\ GoneInv /\ FreshInv

-----------------------------------------------------------------------------
(* What the handlers leave alone: all but request_delete, confirm_delete   *)
(* and the answer n keep the list and what waits for confirmation.         *)

Keeps(a, b) == IsApp(b) /\ b.list = a.list /\ b.confirm = a.confirm

LEMMA Sets ==
  ASSUME NEW a, IsApp(a), NEW x
  PROVE  /\ Keeps(a, a)
         /\ Keeps(a, [a EXCEPT !.filtered = x]) /\ Keeps(a, [a EXCEPT !.rows = x])
         /\ Keeps(a, [a EXCEPT !.sel = x]) /\ Keeps(a, [a EXCEPT !.scope = x])
         /\ Keeps(a, [a EXCEPT !.only = x]) /\ Keeps(a, [a EXCEPT !.quit = x])
BY DEF Keeps, IsApp, AppField

LEMMA KeepsTwice ==
  ASSUME NEW a, NEW b, NEW c, Keeps(a, b), Keeps(b, c)
  PROVE  Keeps(a, c)
BY DEF Keeps

LEMMA RefilteredKeeps ==
  ASSUME NEW a, IsApp(a)
  PROVE  Keeps(a, Refiltered(a))
<1> DEFINE b == [a EXCEPT !.filtered = {i \in DOMAIN sort_sessions(a.list) :
                                          Passes(a, sort_sessions(a.list)[i])}]
           c == [b EXCEPT !.rows = build_session_rows(b)]
           d == [c EXCEPT !.sel = FirstRow(Selectable(c))]
<1>1. Refiltered(a) = d
  BY DEF Refiltered
<1>2. Keeps(a, b)
  BY Sets
<1> HIDE DEF b
<1>3. Keeps(b, c)
  BY <1>2, Sets DEF Keeps
<1> HIDE DEF c
<1>4. Keeps(c, d)
  BY <1>3, Sets DEF Keeps
<1> HIDE DEF d
<1> QED BY <1>1, <1>2, <1>3, <1>4, KeepsTwice

LEMMA ApplyFilterKeeps ==
  ASSUME NEW a, IsApp(a)
  PROVE  Keeps(a, apply_filter(a))
<1> DEFINE b == [a EXCEPT !.scope = IF @ # None /\ a.list[@] = None THEN None ELSE @]
<1>1. apply_filter(a) = Refiltered(b)
  BY DEF apply_filter
<1>2. Keeps(a, b)
  BY Sets
<1> HIDE DEF b
<1>3. Keeps(b, Refiltered(b))
  BY <1>2, RefilteredKeeps DEF Keeps
<1> QED BY <1>1, <1>2, <1>3, KeepsTwice

LEMMA SelectionKeeps ==
  ASSUME NEW a, IsApp(a), NEW row, NEW s
  PROVE  /\ Keeps(a, resync_selection(a, row, s)) /\ Keeps(a, Onto(a, s))
         /\ Keeps(a, select_next(a)) /\ Keeps(a, select_previous(a))
<1>1. \A r, t : Keeps(a, resync_selection(a, r, t))
  BY Sets DEF resync_selection, resync_selection_ByRow
<1>2. Keeps(a, Onto(a, s))
  BY <1>1, Sets DEF Onto
<1>3. Keeps(a, select_next(a))
  BY Sets DEF select_next
<1>4. Keeps(a, select_previous(a))
  BY Sets DEF select_previous
<1> QED BY <1>1, <1>2, <1>3, <1>4

LEMMA FilterKeeps ==
  ASSUME NEW a, IsApp(a)
  PROVE  /\ Keeps(a, enter_drilldown(a)) /\ Keeps(a, select_parent(a))
         /\ Keeps(a, toggle_status_filter(a)) /\ Keeps(a, EscapeOrQuit(a))
<1>1. ASSUME NEW x, NEW s
      PROVE  Keeps(a, Onto(apply_filter([a EXCEPT !.scope = x]), s))
  <2> DEFINE b == [a EXCEPT !.scope = x]
  <2>1. Keeps(a, b)
    BY Sets
  <2> HIDE DEF b
  <2>2. Keeps(b, apply_filter(b))
    BY <2>1, ApplyFilterKeeps DEF Keeps
  <2>3. Keeps(apply_filter(b), Onto(apply_filter(b), s))
    BY <2>2, SelectionKeeps DEF Keeps
  <2> QED BY <2>1, <2>2, <2>3, KeepsTwice DEF b
<1>2. Keeps(a, enter_drilldown(a))
  BY <1>1, Sets DEF enter_drilldown
<1>3. Keeps(a, select_parent(a))
  BY <1>1, Sets, SelectionKeeps DEF select_parent
<1>4. Keeps(a, toggle_status_filter(a))
  <2> DEFINE b == [a EXCEPT !.only = IF @ = "Paused" THEN None ELSE "Paused"]
  <2>1. Keeps(a, b)
    BY Sets
  <2> HIDE DEF b
  <2>2. Keeps(b, apply_filter(b))
    BY <2>1, ApplyFilterKeeps DEF Keeps
  <2> QED BY <2>1, <2>2, KeepsTwice DEF b, toggle_status_filter
<1>5. Keeps(a, EscapeOrQuit(a))
  <2> DEFINE b == [a EXCEPT !.only = None, !.scope = None]
  <2>1. Keeps(a, b)
    BY DEF Keeps, IsApp, AppField
  <2> HIDE DEF b
  <2>2. Keeps(b, apply_filter(b))
    BY <2>1, ApplyFilterKeeps DEF Keeps
  <2>3. Keeps(a, apply_filter(b))
    BY <2>1, <2>2, KeepsTwice
  <2> QED BY <2>3, Sets DEF b, EscapeOrQuit
<1> QED BY <1>2, <1>3, <1>4, <1>5

\* A key changes the list never, the prompt only for d and n.
LEMMA KeyKeeps ==
  ASSUME NEW a, IsApp(a), NEW k
  PROVE  IsApp(AfterKey(k, a)) /\ AfterKey(k, a).list = a.list
<1>1. CASE a.confirm # None
  BY <1>1 DEF AfterKey, IsApp, AppField
<1>2. CASE a.confirm = None
  <2>1. IsApp(request_delete(a)) /\ request_delete(a).list = a.list
    <3> DEFINE c == [id |-> selected_session(a),
                     cleanup |-> /\ TreeOf[selected_session(a)] \in trees
                                 /\ ~has_session_in_worktree([a EXCEPT !.list[selected_session(a)] = None],
                                                             TreeOf[selected_session(a)])]
    <3>1. request_delete(a) = IF selected_session(a) = None THEN a ELSE [a EXCEPT !.confirm = c]
      BY DEF request_delete
    <3> HIDE DEF c
    <3> QED BY <3>1 DEF IsApp, AppField
  <2> DEFINE d == request_delete(a)  n == select_next(a)  v == select_previous(a)
             t == toggle_status_filter(a)  l == enter_drilldown(a)
             h == select_parent(a)  e == EscapeOrQuit(a)  q == [a EXCEPT !.quit = TRUE]
  <2>2. /\ Keeps(a, a) /\ Keeps(a, n) /\ Keeps(a, v) /\ Keeps(a, t)
        /\ Keeps(a, l) /\ Keeps(a, h) /\ Keeps(a, e) /\ Keeps(a, q)
    <3>1. Keeps(a, a) /\ Keeps(a, q)
      BY Sets
    <3>2. Keeps(a, n) /\ Keeps(a, v)
      BY SelectionKeeps
    <3>3. Keeps(a, t) /\ Keeps(a, l) /\ Keeps(a, h) /\ Keeps(a, e)
      BY FilterKeeps
    <3> QED BY <3>1, <3>2, <3>3
  <2>3. Keeps(a, AfterKey(k, a)) \/ AfterKey(k, a) = d
    <3>1. AfterKey(k, a) = CASE k = "down" -> n [] k = "up" -> v [] k = "d" -> d [] k = "p" -> t
                             [] k = "l" -> l [] k = "h" -> h [] k = "esc" -> e [] k = "q" -> q
                             [] OTHER -> a
      BY <1>2, Zenon DEF AfterKey
    <3> HIDE DEF d, n, v, t, l, h, e, q
    <3>2. k \in {"down", "up", "d", "p"} => AfterKey(k, a) \in {n, v, d, t}
      BY <3>1
    <3>3. k \in {"l", "h", "esc", "q"} => AfterKey(k, a) \in {l, h, e, q}
      BY <3>1
    <3>4. k \notin {"down", "up", "d", "p", "l", "h", "esc", "q"} => AfterKey(k, a) = a
      BY <3>1
    <3> QED BY <2>2, <3>2, <3>3, <3>4
  <2> QED BY <2>1, <2>3 DEF Keeps
<1> QED BY <1>1, <1>2

-----------------------------------------------------------------------------
(* What the filter and the rows fit *)

\* The filter and the rows are those of the list.
RowsFit(a) == a.rows = build_session_rows(a)
FilterFits(a) ==
  LET ids == sort_sessions(a.list) IN a.filtered = {i \in DOMAIN ids : Passes(a, ids[i])}
Fits(a) == FilterFits(a) /\ RowsFit(a)

\* Only the cursor, the prompt and the end differ.
SameView(a, b) == /\ IsApp(b) /\ b.list = a.list /\ b.filtered = a.filtered /\ b.rows = a.rows
                  /\ b.only = a.only /\ b.scope = a.scope

LEMMA SameViewFits ==
  ASSUME NEW a, NEW b, SameView(a, b)
  PROVE  /\ Fits(a) => Fits(b)
         /\ build_session_rows(b) = build_session_rows(a)
         /\ Displayed(b) = Displayed(a) /\ \A r : SessionAt(b, r) = SessionAt(a, r)
<1>1. build_session_rows(b) = build_session_rows(a)
  BY DEF SameView, build_session_rows
<1>2. \A s : Passes(b, s) <=> Passes(a, s)
  BY DEF SameView, Passes
<1>3. FilterFits(a) => FilterFits(b)
  BY <1>2 DEF SameView, FilterFits
<1>4. \A r : SessionAt(b, r) = SessionAt(a, r)
  BY DEF SameView, SessionAt
<1>5. Displayed(b) = Displayed(a)
  BY <1>4 DEF SameView, Displayed
<1> QED BY <1>1, <1>3, <1>4, <1>5 DEF SameView, Fits, RowsFit

LEMMA SetsView ==
  ASSUME NEW a, IsApp(a), NEW x
  PROVE  /\ SameView(a, a) /\ SameView(a, [a EXCEPT !.sel = x])
         /\ SameView(a, [a EXCEPT !.quit = x]) /\ SameView(a, [a EXCEPT !.confirm = x])
BY DEF SameView, IsApp, AppField

LEMMA SelectionView ==
  ASSUME NEW a, IsApp(a), NEW row, NEW s
  PROVE  /\ SameView(a, resync_selection(a, row, s)) /\ SameView(a, Onto(a, s))
         /\ SameView(a, select_next(a)) /\ SameView(a, select_previous(a))
         /\ SameView(a, request_delete(a))
<1>1. \A r, t : SameView(a, resync_selection(a, r, t))
  BY SetsView DEF resync_selection, resync_selection_ByRow
<1>2. SameView(a, Onto(a, s))
  BY <1>1, SetsView DEF Onto
<1>3. SameView(a, select_next(a))
  BY SetsView DEF select_next
<1>4. SameView(a, select_previous(a))
  BY SetsView DEF select_previous
<1>5. SameView(a, request_delete(a))
  <2> DEFINE c == [id |-> selected_session(a),
                   cleanup |-> /\ TreeOf[selected_session(a)] \in trees
                               /\ ~has_session_in_worktree([a EXCEPT !.list[selected_session(a)] = None],
                                                           TreeOf[selected_session(a)])]
  <2>1. request_delete(a) = IF selected_session(a) = None THEN a ELSE [a EXCEPT !.confirm = c]
    BY DEF request_delete
  <2> HIDE DEF c
  <2>2. SameView(a, a) /\ SameView(a, [a EXCEPT !.confirm = c])
    BY SetsView
  <2> QED BY <2>1, <2>2
<1> QED BY <1>1, <1>2, <1>3, <1>4, <1>5

\* After a reload, or with another filter, they are computed again.
LEMMA RefilteredFits ==
  ASSUME NEW a, IsApp(a)
  PROVE  Fits(Refiltered(a)) /\ Refiltered(a).list = a.list /\ IsApp(Refiltered(a))
<1> DEFINE F == {i \in DOMAIN sort_sessions(a.list) : Passes(a, sort_sessions(a.list)[i])}
           b == [a EXCEPT !.filtered = F]
           R == build_session_rows(b)
           c == [b EXCEPT !.rows = R]
           x == FirstRow(Selectable(c))
           d == [c EXCEPT !.sel = x]
<1>1. Refiltered(a) = d
  BY DEF Refiltered
<1> HIDE DEF F, x
<1>2. IsApp(b) /\ b.filtered = F /\ b.list = a.list /\ b.scope = a.scope /\ b.only = a.only
  BY DEF IsApp, AppField
<1> HIDE DEF b, R
<1>3. /\ IsApp(c) /\ c.filtered = F /\ c.list = a.list /\ c.scope = a.scope /\ c.only = a.only
      /\ c.rows = R
  BY <1>2 DEF IsApp, AppField
<1> HIDE DEF c
<1>4. R = build_session_rows(c)
  BY <1>2, <1>3 DEF R, build_session_rows
<1>5. \A s : Passes(c, s) <=> Passes(a, s)
  BY <1>3 DEF Passes
<1>6. Fits(c)
  BY <1>3, <1>4, <1>5 DEF Fits, FilterFits, RowsFit, F
<1>7. SameView(c, d)
  BY <1>3, SetsView
<1> QED BY <1>1, <1>3, <1>6, <1>7, SameViewFits DEF SameView

LEMMA ApplyFilterFits ==
  ASSUME NEW a, IsApp(a)
  PROVE  Fits(apply_filter(a)) /\ apply_filter(a).list = a.list /\ IsApp(apply_filter(a))
<1> DEFINE b == [a EXCEPT !.scope = IF @ # None /\ a.list[@] = None THEN None ELSE @]
<1>1. apply_filter(a) = Refiltered(b)
  BY DEF apply_filter
<1>2. IsApp(b) /\ b.list = a.list
  BY DEF IsApp, AppField
<1> HIDE DEF b
<1> QED BY <1>1, <1>2, RefilteredFits

\* Neither does a key leave rows that do not fit.
LEMMA KeyFits ==
  ASSUME NEW a, IsApp(a), Fits(a), NEW k
  PROVE  Fits(AfterKey(k, a))
<1>1. CASE a.confirm # None
  BY <1>1, SetsView, SameViewFits DEF AfterKey
<1>2. CASE a.confirm = None
  <2>1. ASSUME NEW x, NEW s PROVE Fits(Onto(apply_filter([a EXCEPT !.scope = x]), s))
    <3> DEFINE b == [a EXCEPT !.scope = x]
    <3>1. IsApp(b)
      BY DEF IsApp, AppField
    <3> HIDE DEF b
    <3>2. Fits(apply_filter(b)) /\ IsApp(apply_filter(b))
      BY <3>1, ApplyFilterFits
    <3>3. Fits(Onto(apply_filter(b), s))
      BY <3>2, SelectionView, SameViewFits
    <3> QED BY <3>3 DEF b
  <2> DEFINE d == request_delete(a)  n == select_next(a)  v == select_previous(a)
             t == toggle_status_filter(a)  l == enter_drilldown(a)
             h == select_parent(a)  e == EscapeOrQuit(a)  q == [a EXCEPT !.quit = TRUE]
  <2>2. Fits(d) /\ Fits(n) /\ Fits(v) /\ Fits(q)
    <3>1. SameView(a, d) /\ SameView(a, n) /\ SameView(a, v) /\ SameView(a, q)
      BY SelectionView, SetsView
    <3> HIDE DEF d, n, v, q
    <3> QED BY <3>1, SameViewFits
  <2>3. Fits(t)
    <3> DEFINE b == [a EXCEPT !.only = IF @ = "Paused" THEN None ELSE "Paused"]
    <3>1. IsApp(b)
      BY DEF IsApp, AppField
    <3>2. t = apply_filter(b)
      BY DEF toggle_status_filter
    <3> HIDE DEF b
    <3> QED BY <3>1, <3>2, ApplyFilterFits
  <2>4. Fits(l)
    BY <2>1 DEF enter_drilldown
  <2>5. Fits(h)
    <3>1. \A s : Fits(Onto(a, s))
      BY SelectionView, SameViewFits
    <3> QED BY <2>1, <3>1 DEF select_parent
  <2>6. Fits(e)
    <3> DEFINE b == [a EXCEPT !.only = None, !.scope = None]
    <3>1. IsApp(b)
      BY DEF IsApp, AppField
    <3>2. e = IF a.only = None /\ a.scope = None THEN q ELSE apply_filter(b)
      BY DEF EscapeOrQuit
    <3> HIDE DEF b, q, e
    <3> QED BY <2>2, <3>1, <3>2, ApplyFilterFits
  <2>7. AfterKey(k, a) = CASE k = "down" -> n [] k = "up" -> v [] k = "d" -> d [] k = "p" -> t
                           [] k = "l" -> l [] k = "h" -> h [] k = "esc" -> e [] k = "q" -> q
                           [] OTHER -> a
    BY <1>2, Zenon DEF AfterKey
  <2> HIDE DEF d, n, v, t, l, h, e, q
  <2>8. k \in {"down", "up", "d", "p"} => AfterKey(k, a) \in {n, v, d, t}
    BY <2>7
  <2>9. k \in {"l", "h", "esc", "q"} => AfterKey(k, a) \in {l, h, e, q}
    BY <2>7
  <2>10. k \notin {"down", "up", "d", "p", "l", "h", "esc", "q"} => AfterKey(k, a) = a
    BY <2>7
  <2> QED BY <2>2, <2>3, <2>4, <2>5, <2>6, <2>8, <2>9, <2>10
<1> QED BY <1>1, <1>2

-----------------------------------------------------------------------------
(* Where the cursor is *)

LEMMA ShownIs ==
  ASSUME NEW a, IsApp(a)
  PROVE  /\ \A r : SessionAt(a, r) \in Session \cup {None}
         /\ Displayed(a) \subseteq Session
         /\ \A r : SessionAt(a, r) # None => r \in DOMAIN a.rows /\ SessionAt(a, r) \in Displayed(a)
<1> DEFINE ids == sort_sessions(a.list)
<1>1. \A i \in DOMAIN ids : ids[i] \in Session
  BY SortIs DEF IsApp, InList
<1> HIDE DEF ids
<1>2. \A r : SessionAt(a, r) \in Session \cup {None} /\ (SessionAt(a, r) # None => r \in DOMAIN a.rows)
  BY <1>1 DEF SessionAt, ids
<1> QED BY <1>2 DEF Displayed

\* Where the rows fit, what they show is what passes the filter.
LEMMA FitsShows ==
  ASSUME NEW a, IsApp(a), Fits(a), \A s \in InList(a.list) : a.list[s].status \in {"Running", "Paused"}
  PROVE  Displayed(a) = {s \in Session : a.list[s] # None /\ Passes(a, s)}
<1> DEFINE ids == sort_sessions(a.list)
           n == Cardinality(InList(a.list))
<1>1. /\ n \in Nat /\ DOMAIN ids = 1 .. n /\ \A i \in 1 .. n : ids[i] \in InList(a.list)
      /\ \A s \in InList(a.list) : \E i \in 1 .. n : ids[i] = s
  BY SortIs DEF IsApp
<1>2. /\ a.rows \in Seq(Nat)
      /\ \A i \in Nat \ {0} :
           (\E r \in DOMAIN a.rows : a.rows[r] = i)
           <=> i \in a.filtered \cap DOMAIN ids /\ a.list[ids[i]].status \in {"Running", "Paused"}
  BY RowsAre DEF IsApp, Fits, RowsFit
<1>3. a.filtered = {i \in DOMAIN ids : Passes(a, ids[i])}
  BY DEF Fits, FilterFits
<1>4. \A s : s \in InList(a.list) <=> s \in Session /\ a.list[s] # None
  BY DEF InList
<1>5. \A r : SessionAt(a, r) = IF r \in DOMAIN a.rows /\ a.rows[r] \in DOMAIN ids THEN ids[a.rows[r]] ELSE None
  BY DEF SessionAt
<1> HIDE DEF ids, n
<1>6. ASSUME NEW s \in Displayed(a) PROVE s \in Session /\ a.list[s] # None /\ Passes(a, s)
  <2>1. PICK r \in DOMAIN a.rows : s = SessionAt(a, r) /\ s # None
    BY DEF Displayed
  <2>2. a.rows[r] \in DOMAIN ids /\ s = ids[a.rows[r]]
    BY <1>5, <2>1
  <2>3. a.rows[r] \in Nat \ {0}
    BY <1>1, <2>2
  <2>4. a.rows[r] \in a.filtered
    BY <1>2, <2>1, <2>3
  <2> QED BY <1>1, <1>3, <1>4, <2>2, <2>4
<1>7. ASSUME NEW s \in Session, a.list[s] # None, Passes(a, s) PROVE s \in Displayed(a)
  <2>1. PICK i \in 1 .. n : ids[i] = s
    BY <1>1, <1>4, <1>7
  <2>2. i \in a.filtered \cap DOMAIN ids /\ a.list[ids[i]].status \in {"Running", "Paused"} /\ i \in Nat \ {0}
    BY <1>1, <1>3, <1>4, <1>7, <2>1
  <2>3. PICK r \in DOMAIN a.rows : a.rows[r] = i
    BY <1>2, <2>2
  <2>4. SessionAt(a, r) = s
    BY <1>5, <2>1, <2>2, <2>3
  <2>5. s # None
    BY WatchListAssumption
  <2> QED BY <2>4, <2>5 DEF Displayed
<1> QED BY <1>6, <1>7

\* A session that is still displayed keeps the cursor, wherever its row went.
LEMMA Resynced ==
  ASSUME NEW a, IsApp(a), DOMAIN a.rows \subseteq Nat, NEW row, NEW s \in Displayed(a)
  PROVE  selected_session(resync_selection(a, row, s)) = s
<1> DEFINE T == {r \in DOMAIN a.rows : SessionAt(a, r) = s}
           b == resync_selection(a, row, s)
<1>1. T \in SUBSET Nat /\ T # {}
  BY DEF Displayed
<1>2. FirstRow(T) \in T
  <2>1. \E x \in T : \A y \in T : x <= y
    BY <1>1, LeastOf
  <2> HIDE DEF T
  <2> QED BY <1>1, <2>1 DEF FirstRow
<1>3. b = [a EXCEPT !.sel = FirstRow(T)]
  BY DEF resync_selection
<1>4. b.sel = FirstRow(T)
  BY <1>3 DEF IsApp, AppField
<1>5. SameView(a, b)
  BY SelectionView
<1> DEFINE r == FirstRow(T)
<1> HIDE DEF b, r
<1>6. SessionAt(b, r) = SessionAt(a, r)
  BY <1>5, SameViewFits
<1> QED BY <1>2, <1>4, <1>6 DEF selected_session, b, r

-----------------------------------------------------------------------------
(* The steps of the others *)

LEMMA ListIs ==
  /\ \A list \in List, s \in Session, doc \in Doc \cup {None} : [list EXCEPT ![s] = doc] \in List
  /\ \A doc \in Doc \cup {None} : Listed(doc) \in Doc \cup {None}
BY DEF List, Listed

LEMMA InitWatch == Init => WatchInv
<1> SUFFICES ASSUME Init PROVE WatchInv
  OBVIOUS
<1>1. IsQueue(queue) /\ DOMAIN queue = {}
  BY DEF Init, IsQueue
<1>2. ShapeInv
  <2>1. MaxAt \in Nat
    BY WatchListAssumption
  <2>2. NoLoad.list \in List /\ disk \in List
    BY <2>1 DEF Init, NoLoad, List, Doc
  <2>3. IsApp(app)
    BY <2>2 DEF Init, IsApp, AppField
  <2>4. DOMAIN batch = {"count", "changes", "full", "key"} /\ batch = NoBatch
        /\ batch.changes \in [Session -> {None, "Modified", "Deleted"}]
    BY DEF Init, NoBatch
  <2>5. DOMAIN load = {"todo", "list", "judged"} /\ load.judged = None /\ load.list = NoLoad.list
    BY DEF Init, NoLoad
  <2>6. Kinds(queue) /\ \A s : ~Tells(queue, s)
    BY <1>1 DEF Kinds, Tells
  <2>7. pc = "new"
    BY DEF Init
  <2> QED BY <1>1, <2>2, <2>3, <2>4, <2>5, <2>6, <2>7 DEF ShapeInv
<1>3. KeyInv
  <2>1. OneKey(queue) /\ ~HasKey(queue) /\ \A p : Answers(queue, p)
    BY <1>1 DEF OneKey, HasKey, Answers
  <2>2. ~frame.drawn
    BY DEF Init
  <2> QED BY <2>1, <2>2 DEF KeyInv
<1>4. GoneInv
  <2>1. batch.changes = [s \in Session |-> None] /\ None # "Deleted"
    BY WatchListAssumption DEF Init, NoBatch
  <2>2. \A s : ~TellsGone(queue, s)
    BY <1>1 DEF TellsGone
  <2> QED BY <2>1, <2>2 DEF GoneInv
<1>5. FreshInv
  BY DEF Init, FreshInv
<1> QED BY <1>2, <1>3, <1>4, <1>5 DEF WatchInv

\* What the watcher tells of a change.
LEMMA ChangedIs ==
  ASSUME IsQueue(queue), NEW S, IsFiniteSet(S), NEW type \in {"Modified", "Deleted"}, Changed(S, type)
  PROVE  /\ IsQueue(queue') /\ (Kinds(queue) => Kinds(queue')) /\ (OneKey(queue) => OneKey(queue'))
         /\ HasKey(queue') <=> HasKey(queue)
         /\ \A p : Answers(queue, p) => Answers(queue', p)
         /\ \A X : Sees(queue, X) => Sees(queue', X)
         /\ Watching => \A s : /\ Tells(queue', s) <=> Tells(queue, s) \/ s \in S
                               /\ s \in S /\ TellsGone(queue', s) => type = "Deleted"
                               /\ s \notin S /\ TellsGone(queue', s) => TellsGone(queue, s)
         /\ ~Watching => queue' = queue
<1>1. CASE Watching
  <2>1. queue' = queue \o News(S, type)
    BY <1>1 DEF Changed, News
  <2> QED BY <1>1, <2>1, NewsIs, Gets
<1>2. CASE ~Watching
  BY <1>2 DEF Changed
<1> QED BY <1>1, <1>2

\* The documents of S change on disk, and the watcher tells of it.
LEMMA OthersStep ==
  ASSUME WatchInv, NEW S, IsFiniteSet(S), NEW type \in {"Modified", "Deleted"}, Changed(S, type),
         disk' \in List, \A s \in Session \ S : disk'[s] = disk[s],
         type = "Deleted" => \A s \in Session \cap S : disk'[s] = None,
         UNCHANGED <<pc, app, batch, frame>>,
         DOMAIN load' = DOMAIN load, load'.list = load.list, load'.todo = load.todo,
         \/ load'.judged = load.judged
         \/ pc = "load" /\ load.judged # None /\ load'.judged = None /\ disk'[load.judged] = None
  PROVE  WatchInv'
<1> USE DEF WatchInv
<1>1. IsQueue(queue)
  BY DEF ShapeInv
<1>2. /\ IsQueue(queue') /\ (Kinds(queue) => Kinds(queue')) /\ (OneKey(queue) => OneKey(queue'))
      /\ HasKey(queue') <=> HasKey(queue)
      /\ \A p : Answers(queue, p) => Answers(queue', p)
      /\ Watching => \A s : /\ Tells(queue', s) <=> Tells(queue, s) \/ s \in S
                            /\ s \in S /\ TellsGone(queue', s) => type = "Deleted"
                            /\ s \notin S /\ TellsGone(queue', s) => TellsGone(queue, s)
      /\ ~Watching => queue' = queue
  BY <1>1, ChangedIs
<1>3. ShapeInv'
  BY <1>2 DEF ShapeInv, Watching
<1>4. KeyInv'
  BY <1>2 DEF KeyInv
<1>5. GoneInv'
  <2> SUFFICES ASSUME NEW s \in Session
               PROVE  /\ TellsGone(queue', s) => disk'[s] = None
                      /\ batch'.changes[s] = "Deleted" /\ ~Tells(queue', s) => disk'[s] = None
    BY DEF GoneInv
  <2>1. CASE Watching
    BY <1>2, <2>1 DEF GoneInv
  <2>2. CASE ~Watching
    <3>1. batch.changes[s] = None /\ None # "Deleted"
      BY <2>2, WatchListAssumption DEF ShapeInv, Watching, NoBatch
    <3>2. ~TellsGone(queue', s)
      BY <1>2, <2>2 DEF ShapeInv, Tells, TellsGone
    <3> QED BY <3>1, <3>2
  <2> QED BY <2>1, <2>2
<1>6. FreshInv'
  <2> SUFFICES ASSUME NEW s \in Session \ missed'
               PROVE  /\ pc \in {"opening", "draw", "wait"} => FreshIn(app.list, s)' \/ Tells(queue', s)
                      /\ pc = "drain" => \/ FreshIn(app.list, s)' \/ batch.changes[s] # None
                                         \/ Tells(queue', s)
                      /\ pc = "load" => \/ s \in load'.todo \/ s = load'.judged
                                        \/ FreshIn(load.list, s)' \/ Tells(queue', s)
    BY DEF FreshInv
  <2>1. s \in Session \ missed
    BY DEF Changed
  <2>2. CASE Watching /\ s \in S
    BY <1>2, <2>2
  <2>3. CASE Watching /\ s \notin S
    <3>1. disk'[s] = disk[s] /\ (Tells(queue', s) <=> Tells(queue, s))
      BY <1>2, <2>1, <2>3
    <3>2. (FreshIn(app.list, s)' <=> FreshIn(app.list, s)) /\ (FreshIn(load.list, s)' <=> FreshIn(load.list, s))
      BY <3>1 DEF FreshIn
    <3>3. pc = "load" /\ s = load.judged /\ s # load'.judged => FreshIn(load.list, s)'
      BY <2>1 DEF FreshIn, ShapeInv, Listed
    <3> QED BY <2>1, <3>1, <3>2, <3>3 DEF FreshInv
  <2>4. CASE pc = "opening"
    <3>1. s \notin S /\ queue' = queue /\ disk'[s] = disk[s]
      BY <1>2, <2>1, <2>4 DEF Changed, Watching
    <3> QED BY <2>1, <2>4, <3>1 DEF FreshInv, FreshIn
  <2>5. CASE pc = "new"
    BY <2>5
  <2> QED BY <2>2, <2>3, <2>4, <2>5 DEF Watching
<1> QED BY <1>3, <1>4, <1>5, <1>6

\* The cache is where it was: only what is appended to the queue differs.
LEMMA QuietStep ==
  ASSUME WatchInv, UNCHANGED <<disk, missed, pc, app, batch, load, frame>>,
         IsQueue(queue'), Kinds(queue'), OneKey(queue'), Answers(queue', frame.prompt),
         HasKey(queue') => ~batch.key /\ frame.drawn,
         \A s \in Session : /\ Tells(queue', s) <=> Tells(queue, s)
                            /\ TellsGone(queue', s) => TellsGone(queue, s)
  PROVE  WatchInv'
<1> USE DEF WatchInv
<1>1. ShapeInv'
  BY DEF ShapeInv, Watching
<1>2. KeyInv'
  BY DEF KeyInv, Prompted
<1>3. GoneInv'
  BY DEF GoneInv
<1>4. FreshInv'
  BY DEF FreshInv, FreshIn
<1> QED BY <1>1, <1>2, <1>3, <1>4

LEMMA RemovedStep ==
  ASSUME WatchInv, NEW S, S \subseteq Session, Removed(S), UNCHANGED <<pc, app, batch, frame>>,
         DOMAIN load' = DOMAIN load, load'.list = load.list, load'.todo = load.todo,
         \/ load'.judged = load.judged
         \/ pc = "load" /\ load.judged # None /\ load'.judged = None /\ load.judged \in S
  PROVE  WatchInv'
<1> DEFINE T == {s \in S : disk[s] # None}
<1>1. disk \in List /\ (load.judged # None => load.judged \in Session) /\ IsFiniteSet(Session)
  BY WatchListAssumption DEF WatchInv, ShapeInv
<1>2. IsFiniteSet(T)
  BY <1>1, FS_Subset
<1>3. disk' = [s \in Session |-> IF s \in S THEN None ELSE disk[s]] /\ Changed(T, "Deleted")
  BY DEF Removed
<1>4. disk' \in List
  BY <1>1, <1>3 DEF List
<1>5. (\A s \in Session \ T : disk'[s] = disk[s]) /\ (\A s \in Session \cap T : disk'[s] = None)
      /\ \A s \in S : disk'[s] = None
  BY <1>3
<1> HIDE DEF T
<1>6. "Deleted" \in {"Modified", "Deleted"}
  OBVIOUS
<1> QED BY <1>1, <1>2, <1>3, <1>4, <1>5, <1>6, OthersStep

LEMMA WorldStep ==
  ASSUME WatchInv, World
  PROVE  WatchInv'
<1>1. ASSUME NEW s \in Session, OtherWrites(s) PROVE WatchInv'
  <2>1. PICK doc \in Doc : disk' = [disk EXCEPT ![s] = doc]
    BY <1>1 DEF OtherWrites
  <2>2. disk \in List /\ IsFiniteSet({s})
    BY FS_Singleton DEF WatchInv, ShapeInv
  <2>3. disk' \in List /\ \A t \in Session \ {s} : disk'[t] = disk[t]
    BY <2>1, <2>2, ListIs DEF List
  <2>4. UNCHANGED <<pc, app, batch, frame>> /\ load' = load /\ Changed({s}, "Modified")
    BY <1>1 DEF OtherWrites
  <2>5. "Modified" # "Deleted"
    OBVIOUS
  <2> QED BY <2>2, <2>3, <2>4, <2>5, OthersStep
<1>2. ASSUME NEW S, S \subseteq Session, Removed(S), UNCHANGED <<pc, app, batch, frame, load>>
      PROVE  WatchInv'
  BY <1>2, RemovedStep
<1>3. ASSUME NEW s \in Session, OtherDeletes(s) PROVE WatchInv'
  BY <1>2, <1>3 DEF OtherDeletes
<1>4. ASSUME CleanerRuns PROVE WatchInv'
  BY <1>2, <1>4 DEF CleanerRuns
<1>5. ASSUME NEW s \in Session, PaneDies(s) PROVE WatchInv'
  BY <1>5, QuietStep DEF PaneDies, WatchInv, ShapeInv, KeyInv
<1>6. ASSUME CleanerSends PROVE WatchInv'
  <2>1. queue' = Append(queue, [what |-> "reload"]) /\ UNCHANGED <<disk, missed, pc, app, batch, load, frame>>
    BY <1>6 DEF CleanerSends, world
  <2>2. LET e == [what |-> "reload"] IN e.what = "reload" /\ e.what # "change" /\ \A p : Answer(e, p)
    BY DEF Answer
  <2> DEFINE e == [what |-> "reload"]
  <2> HIDE DEF e
  <2>3. e.what = "reload" /\ e.what # "change" /\ e.what # "key" /\ (\A p : Answer(e, p)) /\ queue' = Append(queue, e)
    BY <2>1, <2>2 DEF e
  <2>4. IsQueue(queue) /\ Kinds(queue) /\ OneKey(queue) /\ Answers(queue, frame.prompt)
        /\ (HasKey(queue) => ~batch.key /\ frame.drawn)
    BY DEF WatchInv, ShapeInv, KeyInv
  <2> QED BY <2>1, <2>3, <2>4, GetsOne, QuietStep
<1>7. ASSUME NEW k \in Keys, Press(k) PROVE WatchInv'
  <2> DEFINE e == [what |-> "key", key |-> k, seen |-> IF k = "y" THEN frame.prompt ELSE frame.cursor]
  <2>1. queue' = Append(queue, e) /\ UNCHANGED <<disk, missed, pc, app, batch, load, frame>>
        /\ frame.drawn /\ ~KeyInQueue /\ ~batch.key
    BY <1>7 DEF Press, world
  <2>2. e.what = "key" /\ e.what # "change" /\ Answer(e, frame.prompt)
    BY DEF Answer
  <2> HIDE DEF e
  <2>3. ~HasKey(queue)
    BY <2>1 DEF KeyInQueue, HasKey
  <2>4. IsQueue(queue) /\ Kinds(queue) /\ OneKey(queue) /\ Answers(queue, frame.prompt)
    BY DEF WatchInv, ShapeInv, KeyInv
  <2> QED BY <2>1, <2>2, <2>3, <2>4, GetsOne, QuietStep
<1> QED BY <1>1, <1>3, <1>4, <1>5, <1>6, <1>7 DEF World

-----------------------------------------------------------------------------
(* The steps of the TUI *)

LEMMA NewStep == WatchInv /\ New => WatchInv'
<1> SUFFICES ASSUME WatchInv, New PROVE WatchInv'
  OBVIOUS
<1> USE DEF WatchInv
<1> DEFINE fresh == [s \in Session |-> IF disk[s] # None /\ disk[s].status # "Ended"
                                       THEN disk[s] ELSE None]
           a == [app EXCEPT !.list = fresh]
<1>1. /\ pc = "new" /\ pc' = "opening" /\ app' = Refiltered(a)
      /\ UNCHANGED <<disk, missed, queue, batch, load, frame>>
  BY DEF New, world
<1>2. IsApp(app) /\ disk \in List
  BY DEF ShapeInv
<1>3. fresh \in List /\ \A s \in Session : FreshIn(fresh, s)
  BY <1>2 DEF FreshIn, Listed, List
<1> HIDE DEF fresh
<1>4. IsApp(a) /\ a.list = fresh /\ a.confirm = app.confirm
  BY <1>2, <1>3 DEF IsApp, AppField
<1> HIDE DEF a
<1>5. IsApp(app') /\ app'.list = fresh /\ app'.confirm = app.confirm
  BY <1>1, <1>4, RefilteredKeeps DEF Keeps
<1>6. ShapeInv'
  BY <1>1, <1>5 DEF ShapeInv, Watching
<1>7. KeyInv'
  BY <1>1, <1>5 DEF KeyInv, Prompted
<1>8. GoneInv'
  BY <1>1 DEF GoneInv
<1>9. FreshInv'
  <2> SUFFICES ASSUME NEW s \in Session PROVE FreshIn(app.list, s)'
    BY <1>1 DEF FreshInv
  <2> QED BY <1>1, <1>3, <1>5 DEF FreshIn
<1> QED BY <1>6, <1>7, <1>8, <1>9

LEMMA OpenStep == WatchInv /\ Open => WatchInv'
<1> SUFFICES ASSUME WatchInv, Open PROVE WatchInv'
  OBVIOUS
<1> USE DEF WatchInv
<1>1. /\ pc = "opening" /\ pc' = "draw"
      /\ UNCHANGED <<disk, missed, queue, app, batch, load, frame>>
  BY DEF Open, world
<1>2. ShapeInv'
  BY <1>1 DEF ShapeInv, Watching
<1>3. KeyInv'
  BY <1>1 DEF KeyInv, Prompted
<1>4. GoneInv'
  BY <1>1 DEF GoneInv
<1>5. FreshInv'
  BY <1>1 DEF FreshInv, FreshIn
<1> QED BY <1>2, <1>3, <1>4, <1>5

LEMMA DrawStep == WatchInv /\ Draw => WatchInv'
<1> SUFFICES ASSUME WatchInv, Draw PROVE WatchInv'
  OBVIOUS
<1> USE DEF WatchInv
<1>1. /\ pc = "draw" /\ pc' = "wait" /\ batch' = NoBatch
      /\ UNCHANGED <<disk, missed, queue, load>>
  BY DEF Draw, world
<1>2. app' = app \/ \E rows, sel : app' = [app EXCEPT !.rows = rows, !.sel = sel]
  BY DEF Draw
<1>3. Keeps(app, app')
  <2>1. IsApp(app)
    BY DEF ShapeInv
  <2>2. ASSUME NEW rows, NEW sel PROVE Keeps(app, [app EXCEPT !.rows = rows, !.sel = sel])
    BY <2>1 DEF Keeps, IsApp, AppField
  <2>3. Keeps(app, app)
    BY <2>1, Sets
  <2>4. CASE \E rows, sel : app' = [app EXCEPT !.rows = rows, !.sel = sel]
    <3>1. PICK rows, sel : app' = [app EXCEPT !.rows = rows, !.sel = sel]
      BY <2>4
    <3> QED BY <2>2, <3>1
  <2> QED BY <1>2, <2>3, <2>4
<1>4. frame'.drawn /\ frame'.prompt = Prompted(app')
  BY DEF Draw, Prompted
<1>5. DOMAIN NoBatch = {"count", "changes", "full", "key"} /\ ~NoBatch.key
      /\ NoBatch.changes = [s \in Session |-> None] /\ None # "Deleted"
  BY WatchListAssumption DEF NoBatch
<1>6. ShapeInv'
  BY <1>1, <1>3, <1>5 DEF ShapeInv, Watching, Keeps
<1>7. KeyInv'
  <2>1. Prompted(app') = Prompted(app)
    BY <1>3 DEF Keeps, Prompted
  <2>2. Answers(queue, frame'.prompt)
    <3>1. CASE HasKey(queue)
      BY <1>4, <2>1, <3>1 DEF KeyInv
    <3>2. CASE ~HasKey(queue)
      BY <3>2 DEF HasKey, Answers, Answer
    <3> QED BY <3>1, <3>2
  <2>3. OneKey(queue') /\ Answers(queue', frame'.prompt) /\ ~batch'.key
    BY <1>1, <1>5, <2>2 DEF KeyInv
  <2> QED BY <1>4, <2>3 DEF KeyInv, Prompted
<1>8. GoneInv'
  BY <1>1, <1>5 DEF GoneInv
<1>9. FreshInv'
  BY <1>1, <1>3 DEF FreshInv, FreshIn, Keeps
<1> QED BY <1>6, <1>7, <1>8, <1>9

LEMMA DrainChangeStep == WatchInv /\ DrainChange => WatchInv'
<1> SUFFICES ASSUME WatchInv, DrainChange PROVE WatchInv'
  OBVIOUS
<1> USE DEF WatchInv
<1> DEFINE e == Head(queue)
<1>1. /\ pc \in {"wait", "drain"} /\ pc' = "drain" /\ queue # <<>> /\ e.what = "change"
      /\ queue' = Tail(queue) /\ UNCHANGED <<disk, missed, app, load, frame>>
      /\ batch' = [batch EXCEPT !.count = batch.count + 1,
                                !.changes = [batch.changes EXCEPT ![e.id] = e.type]]
  BY DEF DrainChange, Drains, merge_session_changes, world
<1> HIDE DEF e
<1>2. IsQueue(queue) /\ Kinds(queue) /\ OneKey(queue)
      /\ DOMAIN batch = {"count", "changes", "full", "key"}
      /\ batch.changes \in [Session -> {None, "Modified", "Deleted"}]
  BY DEF ShapeInv, KeyInv
<1>3. /\ DOMAIN batch' = {"count", "changes", "full", "key"} /\ batch'.key = batch.key
      /\ batch'.changes = [batch.changes EXCEPT ![e.id] = e.type]
  BY <1>1, <1>2
<1>4. /\ IsQueue(queue') /\ Kinds(queue') /\ OneKey(queue') /\ (HasKey(queue') => HasKey(queue))
      /\ \A p : Answers(queue, p) => Answers(queue', p)
      /\ Kind(e)
      /\ \A s : /\ Tells(queue, s) <=> Changes(e, s) \/ Tells(queue', s)
                /\ TellsGone(queue', s) => TellsGone(queue, s)
                /\ Changes(e, s) /\ e.type = "Deleted" /\ ~Tells(queue', s) => TellsGone(queue, s)
  BY <1>1, <1>2, Takes DEF e
<1>5. e.type \in {"Modified", "Deleted"} /\ e.type # None /\ \A s : Changes(e, s) <=> s = e.id
  BY <1>1, <1>4, WatchListAssumption DEF Kind, Changes
<1>6. batch'.changes \in [Session -> {None, "Modified", "Deleted"}]
      /\ \A s \in Session : batch'.changes[s] = IF Changes(e, s) THEN e.type ELSE batch.changes[s]
  BY <1>2, <1>3, <1>5
<1>7. ShapeInv'
  BY <1>1, <1>3, <1>4, <1>6 DEF ShapeInv, Watching
<1>8. KeyInv'
  BY <1>1, <1>3, <1>4 DEF KeyInv
<1>9. GoneInv'
  BY <1>1, <1>4, <1>6 DEF GoneInv
<1>10. FreshInv'
  BY <1>1, <1>4, <1>5, <1>6 DEF FreshInv, FreshIn
<1> QED BY <1>7, <1>8, <1>9, <1>10

LEMMA DrainReloadStep == WatchInv /\ DrainReload => WatchInv'
<1> SUFFICES ASSUME WatchInv, DrainReload PROVE WatchInv'
  OBVIOUS
<1> USE DEF WatchInv
<1>1. /\ pc \in {"wait", "drain"} /\ pc' = "drain" /\ queue # <<>> /\ Head(queue).what = "reload"
      /\ queue' = Tail(queue) /\ UNCHANGED <<disk, missed, app, load, frame>>
      /\ batch' = [batch EXCEPT !.count = batch.count + 1, !.full = TRUE]
  BY DEF DrainReload, Drains, world
<1>2. IsQueue(queue) /\ Kinds(queue) /\ OneKey(queue) /\ DOMAIN batch = {"count", "changes", "full", "key"}
  BY DEF ShapeInv, KeyInv
<1>3. /\ DOMAIN batch' = {"count", "changes", "full", "key"} /\ batch'.key = batch.key
      /\ batch'.changes = batch.changes
  BY <1>1, <1>2
<1>4. /\ IsQueue(queue') /\ Kinds(queue') /\ OneKey(queue') /\ (HasKey(queue') => HasKey(queue))
      /\ \A p : Answers(queue, p) => Answers(queue', p)
      /\ \A s : /\ Tells(queue, s) <=> Changes(Head(queue), s) \/ Tells(queue', s)
                /\ TellsGone(queue', s) => TellsGone(queue, s)
  BY <1>1, <1>2, Takes
<1>5. \A s : Tells(queue, s) <=> Tells(queue', s)
  BY <1>1, <1>4 DEF Changes
<1>6. ShapeInv'
  BY <1>1, <1>3, <1>4 DEF ShapeInv, Watching
<1>7. KeyInv'
  BY <1>1, <1>3, <1>4 DEF KeyInv
<1>8. GoneInv'
  BY <1>1, <1>3, <1>4, <1>5 DEF GoneInv
<1>9. FreshInv'
  BY <1>1, <1>3, <1>5 DEF FreshInv, FreshIn
<1> QED BY <1>6, <1>7, <1>8, <1>9

\* The user pressed the key at the frame that is shown: y confirms what waits.
LEMMA KeyTaken ==
  ASSUME WatchInv, DrainsKey
  PROVE  /\ pc \in {"wait", "drain"} /\ pc' = "drain"
         /\ DOMAIN batch' = {"count", "changes", "full", "key"} /\ batch'.key
         /\ batch'.changes = batch.changes
         /\ Key.key = "y" => Key.seen = Prompted(app)
         /\ IsQueue(Tail(queue)) /\ Kinds(Tail(queue)) /\ OneKey(Tail(queue)) /\ ~HasKey(Tail(queue))
         /\ Answers(Tail(queue), frame.prompt)
         /\ \A s : /\ Tells(queue, s) <=> Tells(Tail(queue), s)
                   /\ TellsGone(Tail(queue), s) => TellsGone(queue, s)
<1> USE DEF WatchInv
<1>1. /\ pc \in {"wait", "drain"} /\ pc' = "drain" /\ queue # <<>> /\ Key.what = "key"
      /\ batch' = [batch EXCEPT !.count = batch.count + 1, !.key = TRUE]
  BY DEF DrainsKey, Drains, Key
<1>2. /\ IsQueue(queue) /\ Kinds(queue) /\ OneKey(queue) /\ Answers(queue, frame.prompt)
      /\ DOMAIN batch = {"count", "changes", "full", "key"}
  BY DEF ShapeInv, KeyInv
<1>3. /\ DOMAIN batch' = {"count", "changes", "full", "key"} /\ batch'.key
      /\ batch'.changes = batch.changes
  BY <1>1, <1>2
<1>4. /\ IsQueue(Tail(queue)) /\ Kinds(Tail(queue)) /\ OneKey(Tail(queue)) /\ ~HasKey(Tail(queue))
      /\ HasKey(queue) /\ Answers(Tail(queue), frame.prompt) /\ Answer(Key, frame.prompt)
      /\ \A s : /\ Tells(queue, s) <=> Changes(Key, s) \/ Tells(Tail(queue), s)
                /\ TellsGone(Tail(queue), s) => TellsGone(queue, s)
  BY <1>1, <1>2, Takes DEF Key
<1>5. frame.prompt = Prompted(app)
  BY <1>4 DEF KeyInv
<1>6. \A s : ~Changes(Key, s)
  BY <1>1 DEF Changes
<1>7. Key.key = "y" => Key.seen = Prompted(app)
  BY <1>1, <1>4, <1>5 DEF Answer
<1> QED BY <1>1, <1>3, <1>4, <1>6, <1>7

\* A key may take sessions from the disk and from the list.
LEMMA KeyStep ==
  ASSUME WatchInv, DrainsKey, UNCHANGED <<missed, load, frame>>, IsApp(app'), disk' \in List,
         IsQueue(queue'), Kinds(queue'), OneKey(queue'), ~HasKey(queue'), Answers(queue', frame.prompt),
         \A s \in Session :
           /\ Tells(queue, s) => Tells(queue', s)
           /\ TellsGone(queue', s) => disk'[s] = None
           /\ disk'[s] = disk[s] \/ (disk'[s] = None /\ (app'.list[s] = None \/ Tells(queue', s)))
           /\ app'.list[s] = app.list[s] \/ (app'.list[s] = None /\ disk'[s] = None)
  PROVE  WatchInv'
<1> USE DEF WatchInv
<1>1. /\ pc \in {"wait", "drain"} /\ pc' = "drain"
      /\ DOMAIN batch' = {"count", "changes", "full", "key"} /\ batch'.key
      /\ batch'.changes = batch.changes
  BY KeyTaken
<1>2. ShapeInv'
  BY <1>1 DEF ShapeInv, Watching
<1>3. KeyInv'
  BY <1>1 DEF KeyInv
<1>4. GoneInv'
  BY <1>1 DEF GoneInv
<1>5. FreshInv'
  <2> SUFFICES ASSUME NEW s \in Session \ missed
               PROVE  FreshIn(app.list, s)' \/ batch.changes[s] # None \/ Tells(queue', s)
    BY <1>1 DEF FreshInv
  <2>1. FreshIn(app.list, s) \/ batch.changes[s] # None \/ Tells(queue, s)
    BY <1>1 DEF FreshInv
  <2>2. Listed(None) = None
    BY DEF Listed
  <2>3. FreshIn(app.list, s) => FreshIn(app.list, s)' \/ Tells(queue', s)
    BY <2>2 DEF FreshIn
  <2> QED BY <2>1, <2>3
<1> QED BY <1>2, <1>3, <1>4, <1>5

LEMMA DrainKeyStep ==
  ASSUME WatchInv, DrainKey \/ WorktreeViewIgnores
  PROVE  WatchInv'
<1>1. DrainsKey /\ queue' = Tail(queue) /\ UNCHANGED <<disk, missed, load, frame>>
      /\ (app' = app \/ app' = AfterKey(Key.key, app))
  BY DEF DrainKey, WorktreeViewIgnores, world
<1>2. IsApp(app) /\ disk \in List
  BY DEF WatchInv, ShapeInv
<1>3. IsApp(app') /\ app'.list = app.list
  BY <1>1, <1>2, KeyKeeps
<1>4. /\ IsQueue(queue') /\ Kinds(queue') /\ OneKey(queue') /\ ~HasKey(queue') /\ Answers(queue', frame.prompt)
      /\ \A s : (Tells(queue, s) => Tells(queue', s)) /\ (TellsGone(queue', s) => TellsGone(queue, s))
  BY <1>1, KeyTaken
<1>5. \A s \in Session : TellsGone(queue', s) => disk'[s] = None
  BY <1>1, <1>4 DEF WatchInv, GoneInv
<1> QED BY <1>1, <1>2, <1>3, <1>4, <1>5, KeyStep

\* The watcher tells of every document that a key has removed.
LEMMA RemovedByKeyTells ==
  ASSUME WatchInv, DrainsKey, NEW S, IsFiniteSet(S), RemovedByKey(S)
  PROVE  LET T == {s \in S : disk[s] # None} IN
         /\ IsQueue(queue') /\ Kinds(queue') /\ OneKey(queue') /\ ~HasKey(queue')
         /\ Answers(queue', frame.prompt)
         /\ \A s : /\ Tells(queue', s) <=> Tells(queue, s) \/ s \in T
                   /\ TellsGone(queue', s) => s \in T \/ TellsGone(queue, s)
<1> DEFINE T == {s \in S : disk[s] # None}
<1>1. IsFiniteSet(T)
  BY FS_Subset
<1>3. queue' = Tail(queue) \o News(T, "Deleted")
  <2> DEFINE gone == SetToSeq(T)
  <2>1. queue' = Tail(queue) \o [i \in DOMAIN gone |-> [what |-> "change", id |-> gone[i], type |-> "Deleted"]]
    BY DEF RemovedByKey
  <2>2. DOMAIN gone = 1 .. Cardinality(T)
    BY <1>1, SetToSeqIs
  <2> QED BY <2>1, <2>2 DEF News
<1>6. /\ IsQueue(Tail(queue)) /\ Kinds(Tail(queue)) /\ OneKey(Tail(queue)) /\ ~HasKey(Tail(queue))
      /\ Answers(Tail(queue), frame.prompt)
      /\ \A s : /\ Tells(queue, s) <=> Tells(Tail(queue), s)
                /\ TellsGone(Tail(queue), s) => TellsGone(queue, s)
  BY KeyTaken
<1> HIDE DEF T
<1> DEFINE more == News(T, "Deleted")
<1>7. /\ IsQueue(more) /\ OneKey(more) /\ ~HasKey(more) /\ Kinds(more) /\ (\A p : Answers(more, p))
      /\ \A s : (Tells(more, s) <=> s \in T) /\ (TellsGone(more, s) => s \in T)
  BY <1>1, NewsIs
<1> HIDE DEF more
<1>8. /\ IsQueue(queue') /\ Kinds(queue') /\ OneKey(queue') /\ ~HasKey(queue') /\ Answers(queue', frame.prompt)
      /\ \A s : /\ Tells(queue', s) <=> Tells(queue, s) \/ s \in T
                /\ TellsGone(queue', s) => s \in T \/ TellsGone(queue, s)
  <2>1. queue' = Tail(queue) \o more
    BY <1>3 DEF more
  <2> QED BY <1>6, <1>7, <2>1, Gets
<1> QED BY <1>8 DEF T

LEMMA RemovedByKeyStep ==
  ASSUME WatchInv, DrainsKey, NEW S, IsFiniteSet(S), RemovedByKey(S), UNCHANGED <<missed, load, frame>>,
         IsApp(app'),
         \A s \in Session : app'.list[s] = app.list[s] \/ (s \in S /\ app'.list[s] = None)
  PROVE  WatchInv'
<1> DEFINE T == {s \in S : disk[s] # None}
<1>1. disk' = [s \in Session |-> IF s \in S THEN None ELSE disk[s]]
  BY DEF RemovedByKey
<1>2. disk \in List
  BY DEF WatchInv, ShapeInv
<1>3. disk' \in List
  BY <1>1, <1>2 DEF List
<1>4. /\ IsQueue(queue') /\ Kinds(queue') /\ OneKey(queue') /\ ~HasKey(queue') /\ Answers(queue', frame.prompt)
      /\ \A s : /\ Tells(queue', s) <=> Tells(queue, s) \/ s \in T
                /\ TellsGone(queue', s) => s \in T \/ TellsGone(queue, s)
  BY RemovedByKeyTells
<1> HIDE DEF T
<1>5. ASSUME NEW s \in Session
      PROVE  /\ Tells(queue, s) => Tells(queue', s)
             /\ TellsGone(queue', s) => disk'[s] = None
             /\ disk'[s] = disk[s] \/ (disk'[s] = None /\ (app'.list[s] = None \/ Tells(queue', s)))
             /\ app'.list[s] = app.list[s] \/ (app'.list[s] = None /\ disk'[s] = None)
  <2>1. TellsGone(queue, s) => disk[s] = None
    BY DEF WatchInv, GoneInv
  <2> QED BY <1>1, <1>4, <2>1 DEF T
<1> QED BY <1>3, <1>4, <1>5, KeyStep

LEMMA ConfirmDeleteStep ==
  ASSUME WatchInv, confirm_delete
  PROVE  WatchInv'
<1> DEFINE s == app.confirm.id
           t == TreeOf[s]
           a == [app EXCEPT !.list[s] = None, !.confirm = None]
           b == apply_filter(a)
<1>1. /\ DrainsKey /\ app' = resync_selection(b, app.sel, None)
      /\ UNCHANGED <<missed, load, frame>>
      /\ \E gone \in SUBSET {t} : RemovedByKey({s} \cup UNION {InTree(w) : w \in gone})
  BY DEF confirm_delete
<1>2. IsApp(app) /\ IsFiniteSet(Session)
  BY WatchListAssumption DEF WatchInv, ShapeInv
<1>3. PICK gone \in SUBSET {t} : RemovedByKey({s} \cup UNION {InTree(w) : w \in gone})
  BY <1>1
<1> DEFINE S == {s} \cup UNION {InTree(w) : w \in gone}
<1>4. IsFiniteSet(S)
  <2>1. IsFiniteSet(Session \cup {s})
    BY <1>2, FS_AddElement
  <2>2. S \subseteq Session \cup {s}
    BY DEF InTree
  <2> QED BY <2>1, <2>2, FS_Subset
<1>5. s \in S /\ RemovedByKey(S)
  BY <1>3
<1> HIDE DEF S, s
<1>6. IsApp(a) /\ a.list = [app.list EXCEPT ![s] = None]
  BY <1>2 DEF IsApp, AppField, List
<1> HIDE DEF a
<1>7. IsApp(b) /\ b.list = a.list
  BY <1>6, ApplyFilterKeeps DEF Keeps
<1> HIDE DEF b
<1>8. IsApp(app') /\ app'.list = [app.list EXCEPT ![s] = None]
  BY <1>1, <1>6, <1>7, SelectionKeeps DEF Keeps
<1>9. \A u \in Session : app'.list[u] = app.list[u] \/ (u \in S /\ app'.list[u] = None)
  BY <1>2, <1>5, <1>8 DEF IsApp, List
<1> QED BY <1>1, <1>4, <1>5, <1>8, <1>9, RemovedByKeyStep

LEMMA WorktreeViewStep ==
  ASSUME WatchInv, worktree_view_confirm_delete
  PROVE  WatchInv'
<1>1. PICK t \in trees :
        /\ DrainsKey /\ RemovedByKey(InTree(t)) /\ UNCHANGED <<missed, load, frame>>
        /\ app' = [app EXCEPT !.list = [s \in Session |-> IF TreeOf[s] = t THEN None ELSE app.list[s]]]
  BY DEF worktree_view_confirm_delete
<1>2. IsApp(app) /\ IsFiniteSet(Session)
  BY WatchListAssumption DEF WatchInv, ShapeInv
<1>3. IsFiniteSet(InTree(t))
  BY <1>2, FS_Subset DEF InTree
<1>4. IsApp(app') /\ app'.list = [s \in Session |-> IF TreeOf[s] = t THEN None ELSE app.list[s]]
  BY <1>1, <1>2 DEF IsApp, AppField, List
<1>5. \A s \in Session : app'.list[s] = app.list[s] \/ (s \in InTree(t) /\ app'.list[s] = None)
  BY <1>4 DEF InTree
<1> QED BY <1>1, <1>3, <1>4, <1>5, RemovedByKeyStep

LEMMA DrainedStep ==
  ASSUME WatchInv, Drained
  PROVE  WatchInv'
<1> USE DEF WatchInv
<1> DEFINE changed == {s \in Session : batch.changes[s] # None}
           todo == IF batch.full THEN Session ELSE changed
           list == IF batch.full THEN NoLoad.list ELSE app.list
<1>1. pc = "drain" /\ UNCHANGED <<disk, missed, queue, app, batch, frame>>
  BY DEF Drained, world
<1>2. /\ NoLoad.list \in List /\ app.list \in List /\ DOMAIN load = {"todo", "list", "judged"}
      /\ load.judged = None
  BY <1>1 DEF ShapeInv, NoLoad, List, IsApp
<1>3. KeyInv' /\ GoneInv'
  BY <1>1 DEF KeyInv, GoneInv, Prompted
<1>4. CASE batch.full \/ changed # {}
  <2>1. pc' = "load" /\ load' = [todo |-> todo, list |-> list, judged |-> None]
    BY <1>4 DEF Drained
  <2>2. DOMAIN load' = {"todo", "list", "judged"} /\ load'.todo = todo /\ load'.list = list
        /\ load'.judged = None
    BY <2>1
  <2>3. ShapeInv'
    BY <1>1, <1>2, <2>1, <2>2 DEF ShapeInv, Watching
  <2>4. FreshInv'
    BY <1>1, <2>1, <2>2 DEF FreshInv, FreshIn
  <2> QED BY <1>3, <2>3, <2>4
<1>5. CASE ~batch.full /\ changed = {}
  <2>1. load' = load /\ pc' \in {"ended", "draw"}
    BY <1>5 DEF Drained, EndOfIteration
  <2>2. ShapeInv'
    BY <1>1, <1>2, <2>1 DEF ShapeInv, Watching
  <2>3. FreshInv'
    BY <1>1, <1>5, <2>1 DEF FreshInv, FreshIn
  <2> QED BY <1>3, <2>2, <2>3
<1> QED BY <1>4, <1>5

\* A document has been read, or found to be gone or stale.
LEMMA TookStep ==
  ASSUME WatchInv, pc = "load", load.judged = None, NEW s \in Session, NEW doc \in Doc \cup {None},
         missed' = missed \ {s}, UNCHANGED <<disk, queue, pc, app, batch, frame>>,
         DOMAIN load' = DOMAIN load, load'.todo = load.todo \ {s},
         load'.list = [load.list EXCEPT ![s] = doc],
         \/ load'.judged = None /\ (doc = Listed(disk[s]) \/ Tells(queue, s))
         \/ load'.judged = s /\ doc = None
  PROVE  WatchInv'
<1> USE DEF WatchInv
<1>1. load.list \in List
  BY DEF ShapeInv
<1>2. load'.list \in List /\ load'.list[s] = doc /\ \A t \in Session \ {s} : load'.list[t] = load.list[t]
  BY <1>1, ListIs DEF List
<1>3. ShapeInv'
  BY <1>2 DEF ShapeInv, Watching
<1>4. KeyInv' /\ GoneInv'
  BY DEF KeyInv, GoneInv, Prompted
<1>5. FreshInv'
  <2> SUFFICES ASSUME NEW t \in Session \ missed'
               PROVE  \/ t \in load'.todo \/ t = load'.judged
                      \/ FreshIn(load.list, t)' \/ Tells(queue, t)
    BY DEF FreshInv
  <2>1. CASE t = s
    BY <1>2, <2>1 DEF FreshIn
  <2>2. CASE t # s
    <3>1. t \in load.todo \/ FreshIn(load.list, t) \/ Tells(queue, t) \/ t = None
      BY <2>2 DEF FreshInv
    <3>2. t # None
      BY WatchListAssumption
    <3> QED BY <1>2, <2>2, <3>1, <3>2 DEF FreshIn
  <2> QED BY <2>1, <2>2
<1> QED BY <1>3, <1>4, <1>5

LEMMA LoadStep ==
  ASSUME WatchInv, NEW s \in Session, LoadSession(s) \/ DropSession(s) \/ JudgeStale(s)
  PROVE  WatchInv'
<1>1. pc = "load" /\ load.judged = None /\ missed' = missed \ {s}
      /\ UNCHANGED <<disk, queue, pc, app, batch, frame>>
  BY DEF LoadSession, DropSession, JudgeStale, Loads
<1>2. disk[s] \in Doc \cup {None} /\ DOMAIN load = {"todo", "list", "judged"}
  BY DEF WatchInv, ShapeInv, List
<1>3. CASE LoadSession(s)
  <2>1. load' = [load EXCEPT !.todo = load.todo \ {s}, !.list = [load.list EXCEPT ![s] = Listed(disk[s])]]
    BY <1>3 DEF LoadSession, Took
  <2>2. /\ DOMAIN load' = DOMAIN load /\ load'.todo = load.todo \ {s} /\ load'.judged = None
        /\ load'.list = [load.list EXCEPT ![s] = Listed(disk[s])]
    BY <1>1, <1>2, <2>1
  <2> QED BY <1>1, <1>2, <2>2, ListIs, TookStep
<1>4. CASE DropSession(s)
  <2>1. load' = [load EXCEPT !.todo = load.todo \ {s}, !.list = [load.list EXCEPT ![s] = None]]
        /\ batch.changes[s] = "Deleted"
    BY <1>4 DEF DropSession, Took
  <2>2. /\ DOMAIN load' = DOMAIN load /\ load'.todo = load.todo \ {s} /\ load'.judged = None
        /\ load'.list = [load.list EXCEPT ![s] = None]
    BY <1>1, <1>2, <2>1
  <2>3. Tells(queue, s) \/ None = Listed(disk[s])
    BY <2>1 DEF WatchInv, GoneInv, Listed
  <2> QED BY <1>1, <1>2, <2>2, <2>3, TookStep
<1>5. CASE JudgeStale(s)
  <2>1. load' = [load EXCEPT !.todo = load.todo \ {s}, !.list = [load.list EXCEPT ![s] = None], !.judged = s]
    BY <1>5 DEF JudgeStale
  <2>2. /\ DOMAIN load' = DOMAIN load /\ load'.todo = load.todo \ {s} /\ load'.judged = s
        /\ load'.list = [load.list EXCEPT ![s] = None]
    BY <1>2, <2>1
  <2> QED BY <1>1, <1>2, <2>2, TookStep
<1> QED BY <1>3, <1>4, <1>5

LEMMA DeleteStaleStep ==
  ASSUME WatchInv, DeleteStale
  PROVE  WatchInv'
<1>1. pc = "load" /\ load.judged # None /\ load' = [load EXCEPT !.judged = None] /\ Removed({load.judged})
      /\ UNCHANGED <<pc, app, batch, frame>>
  BY DEF DeleteStale
<1>2. load.judged \in Session /\ DOMAIN load = {"todo", "list", "judged"}
  BY <1>1 DEF WatchInv, ShapeInv
<1>3. DOMAIN load' = DOMAIN load /\ load'.list = load.list /\ load'.todo = load.todo /\ load'.judged = None
  BY <1>1, <1>2
<1> DEFINE j == load.judged
<1>4. {j} \subseteq Session /\ j \in {j}
  BY <1>2
<1> QED BY <1>1, <1>3, <1>4, RemovedStep

LEMMA ReloadedStep ==
  ASSUME WatchInv, Reloaded
  PROVE  WatchInv'
<1> USE DEF WatchInv
<1> DEFINE a == [app EXCEPT !.list = load.list]
           b == apply_filter(a)
<1>1. /\ pc = "load" /\ load.todo = {} /\ load.judged = None /\ load' = NoLoad
      /\ app' = resync_selection(b, app.sel, selected_session(app))
      /\ pc' \in {"ended", "draw"} /\ UNCHANGED <<disk, missed, queue, batch, frame>>
  BY DEF Reloaded, EndOfIteration, world
<1>2. IsApp(a) /\ a.list = load.list /\ a.confirm = app.confirm
  BY DEF ShapeInv, IsApp, AppField
<1> HIDE DEF a
<1>3. IsApp(b) /\ b.list = load.list /\ b.confirm = app.confirm
  BY <1>2, ApplyFilterKeeps DEF Keeps
<1> HIDE DEF b
<1>4. IsApp(app') /\ app'.list = load.list /\ app'.confirm = app.confirm
  BY <1>1, <1>3, SelectionKeeps DEF Keeps
<1>5. DOMAIN NoLoad = {"todo", "list", "judged"} /\ NoLoad.judged = None /\ NoLoad.list \in List
  BY DEF NoLoad, List
<1>6. ShapeInv'
  BY <1>1, <1>4, <1>5 DEF ShapeInv, Watching
<1>7. KeyInv'
  BY <1>1, <1>4 DEF KeyInv, Prompted
<1>8. GoneInv'
  BY <1>1 DEF GoneInv
<1>9. FreshInv'
  <2> SUFFICES ASSUME NEW s \in Session \ missed PROVE FreshIn(app.list, s)' \/ Tells(queue, s)
    BY <1>1 DEF FreshInv
  <2>1. s # None
    BY WatchListAssumption
  <2>2. FreshIn(load.list, s) \/ Tells(queue, s)
    BY <1>1, <2>1 DEF FreshInv
  <2> QED BY <1>1, <1>4, <2>2 DEF FreshIn
<1> QED BY <1>6, <1>7, <1>8, <1>9

LEMMA LockTimeoutStep ==
  ASSUME WatchInv, NEW s \in Session, LockTimeout(s)
  PROVE  WatchInv'
<1> USE DEF WatchInv
<1>1. pc = "load" /\ pc' = "ended" /\ UNCHANGED <<disk, missed, queue, app, batch, load, frame>>
  BY DEF LockTimeout, Loads, world
<1>2. ShapeInv'
  BY <1>1 DEF ShapeInv, Watching
<1>3. KeyInv' /\ GoneInv'
  BY <1>1 DEF KeyInv, GoneInv, Prompted
<1>4. FreshInv'
  BY <1>1 DEF FreshInv
<1> QED BY <1>2, <1>3, <1>4

LEMMA TuiStep ==
  ASSUME WatchInv, Tui
  PROVE  WatchInv'
BY NewStep, OpenStep, DrawStep, DrainChangeStep, DrainReloadStep, DrainKeyStep, ConfirmDeleteStep,
   WorktreeViewStep, DrainedStep, LoadStep, LockTimeoutStep, DeleteStaleStep, ReloadedStep DEF Tui

LEMMA WatchStep == WatchInv /\ [Next]_vars => WatchInv'
<1> SUFFICES ASSUME WatchInv, [Next]_vars PROVE WatchInv'
  OBVIOUS
<1>1. CASE World
  BY <1>1, WorldStep
<1>2. CASE Tui
  BY <1>2, TuiStep
<1>3. CASE UNCHANGED vars
  BY <1>3 DEF vars, WatchInv, ShapeInv, KeyInv, GoneInv, FreshInv, FreshIn, Watching, Prompted
<1> QED BY <1>1, <1>2, <1>3 DEF Next

LEMMA WatchInvAlways == Spec => []WatchInv
<1> QED BY InitWatch, WatchStep, PTL DEF Spec

-----------------------------------------------------------------------------
(* What is displayed: the rows are those of the list and the filter, unless *)
(* the list is going to be filtered again; and who pressed a key has seen   *)
(* under the cursor what is under it now, or a frame has lacked it since.   *)

Refilters ==
  \/ pc = "load"
  \/ \E s \in Session : Tells(queue, s) \/ (pc = "drain" /\ batch.changes[s] # None)
FitInv ==
  /\ pc \notin {"new", "ended"} /\ missed = {} => Fits(app) \/ Refilters
  /\ pc # "new" /\ ~batch.key => RowsFit(app) \/ build_session_rows(app) = <<>>

Allowed == {None, selected_session(app)} \cup frame.lacked
             \cup (IF pc = "draw" THEN Session \ Displayed(app) ELSE {})
CursorInv ==
  /\ pc \in {"new", "opening"} => ~frame.drawn
  /\ frame.cursor \in Session \cup {None}
  /\ pc \in {"wait", "drain", "load"} /\ ~batch.key => frame.cursor = selected_session(app)
  /\ pc = "draw" /\ frame.drawn /\ ~batch.key =>
       frame.cursor \in {None, selected_session(app)} \cup (Session \ Displayed(app))
  /\ Sees(queue, Session \cup {None})
  /\ pc # "ended" => Sees(queue, Allowed)

ViewInv == FitInv /\ CursorInv

LEMMA SeesMore ==
  ASSUME NEW q, NEW X, NEW Y, X \subseteq Y, Sees(q, X)
  PROVE  Sees(q, Y)
BY DEF Sees, See

LEMMA NoKeySees ==
  ASSUME NEW q, ~HasKey(q), NEW X
  PROVE  Sees(q, X)
BY DEF HasKey, Sees, See

LEMMA InitView == Init => ViewInv
<1> SUFFICES ASSUME Init PROVE ViewInv
  OBVIOUS
<1>1. \A X : Sees(queue, X)
  BY DEF Init, Sees
<1> QED BY <1>1 DEF Init, ViewInv, FitInv, CursorInv

\* The view is where it was: no other than the queue and the disk differ.
LEMMA ViewStays ==
  ASSUME ViewInv, UNCHANGED <<pc, app, batch, frame>>,
         Sees(queue', Session \cup {None}), pc # "ended" => Sees(queue', Allowed),
         \A s \in Session : Tells(queue, s) => Tells(queue', s),
         pc # "load" /\ missed' = {} => missed = {}
  PROVE  ViewInv'
<1>1. Refilters => Refilters'
  BY DEF Refilters
<1>2. Allowed' = Allowed
  BY DEF Allowed, selected_session, SessionAt, Displayed
<1>3. (Fits(app)' <=> Fits(app)) /\ (RowsFit(app)' <=> RowsFit(app))
      /\ build_session_rows(app)' = build_session_rows(app)
      /\ selected_session(app)' = selected_session(app) /\ Displayed(app)' = Displayed(app)
  OBVIOUS
<1>4. FitInv'
  BY <1>1, <1>3 DEF ViewInv, FitInv, Refilters
<1>5. CursorInv'
  BY <1>2, <1>3 DEF ViewInv, CursorInv
<1> QED BY <1>4, <1>5 DEF ViewInv

LEMMA WorldView ==
  ASSUME WatchInv, ViewInv, World
  PROVE  ViewInv'
<1>1. IsQueue(queue) /\ Sees(queue, Session \cup {None}) /\ (pc # "ended" => Sees(queue, Allowed))
  BY DEF WatchInv, ShapeInv, ViewInv, CursorInv
<1>2. ASSUME NEW S, IsFiniteSet(S), NEW type \in {"Modified", "Deleted"}, Changed(S, type),
             UNCHANGED <<pc, app, batch, frame>>
      PROVE  ViewInv'
  <2>1. /\ \A X : Sees(queue, X) => Sees(queue', X)
        /\ \A s : Tells(queue, s) => Tells(queue', s)
    BY <1>1, <1>2, ChangedIs
  <2>2. missed' = {} => missed = {}
    BY <1>2 DEF Changed
  <2> QED BY <1>1, <1>2, <2>1, <2>2, ViewStays
<1>3. ASSUME NEW S, S \subseteq Session, Removed(S), UNCHANGED <<pc, app, batch, frame>>
      PROVE  ViewInv'
  <2>1. IsFiniteSet({s \in S : disk[s] # None})
    BY <1>3, WatchListAssumption, FS_Subset
  <2> QED BY <1>2, <1>3, <2>1 DEF Removed
<1>4. ASSUME NEW s \in Session, OtherWrites(s) PROVE ViewInv'
  <2>1. IsFiniteSet({s})
    BY FS_Singleton
  <2> QED BY <1>2, <1>4, <2>1 DEF OtherWrites
<1>5. ASSUME NEW s \in Session, OtherDeletes(s) PROVE ViewInv'
  BY <1>3, <1>5 DEF OtherDeletes
<1>6. ASSUME CleanerRuns PROVE ViewInv'
  BY <1>3, <1>6 DEF CleanerRuns
<1>7. ASSUME NEW s \in Session, PaneDies(s) PROVE ViewInv'
  BY <1>1, <1>7, ViewStays DEF PaneDies
<1>8. ASSUME CleanerSends PROVE ViewInv'
  <2> DEFINE e == [what |-> "reload"]
  <2>1. queue' = Append(queue, e) /\ UNCHANGED <<missed, pc, app, batch, frame>>
    BY <1>8 DEF CleanerSends, world
  <2>2. e.what # "change" /\ \A X : See(e, X)
    BY DEF See
  <2> HIDE DEF e
  <2>3. /\ \A X : Sees(queue, X) => Sees(queue', X)
        /\ \A s : Tells(queue, s) => Tells(queue', s)
    BY <1>1, <2>1, <2>2, GetsOne
  <2> QED BY <1>1, <2>1, <2>3, ViewStays
<1>9. ASSUME NEW k \in Keys, Press(k) PROVE ViewInv'
  <2> DEFINE e == [what |-> "key", key |-> k, seen |-> IF k = "y" THEN frame.prompt ELSE frame.cursor]
  <2>1. queue' = Append(queue, e) /\ UNCHANGED <<missed, pc, app, batch, frame>>
        /\ frame.drawn /\ ~batch.key /\ pc # "ended"
    BY <1>9 DEF Press, world
  <2>2. e.what # "change" /\ \A X : frame.cursor \in X => See(e, X)
    BY DEF See
  <2> HIDE DEF e
  <2>3. frame.cursor \in Session \cup {None} /\ frame.cursor \in Allowed
    BY <2>1 DEF WatchInv, ShapeInv, ViewInv, CursorInv, Allowed
  <2>4. /\ \A X : Sees(queue, X) /\ See(e, X) => Sees(queue', X)
        /\ \A s : Tells(queue, s) => Tells(queue', s)
    BY <1>1, <2>1, <2>2, GetsOne
  <2> QED BY <1>1, <2>1, <2>2, <2>3, <2>4, ViewStays
<1> QED BY <1>4, <1>5, <1>6, <1>7, <1>8, <1>9 DEF World

LEMMA ReadView ==
  ASSUME WatchInv, ViewInv,
         \/ \E s \in Session : LoadSession(s) \/ DropSession(s) \/ JudgeStale(s)
         \/ DeleteStale
  PROVE  ViewInv'
<1>1. IsQueue(queue) /\ Sees(queue, Session \cup {None}) /\ (pc # "ended" => Sees(queue, Allowed))
  BY DEF WatchInv, ShapeInv, ViewInv, CursorInv
<1>2. ASSUME NEW s \in Session, LoadSession(s) \/ DropSession(s) \/ JudgeStale(s) PROVE ViewInv'
  <2>1. pc = "load" /\ UNCHANGED <<queue, pc, app, batch, frame>>
    BY <1>2 DEF LoadSession, DropSession, JudgeStale, Loads
  <2> QED BY <1>1, <2>1, ViewStays
<1>3. ASSUME DeleteStale PROVE ViewInv'
  <2> DEFINE S == {s \in {load.judged} : disk[s] # None}
  <2>1. pc = "load" /\ UNCHANGED <<pc, app, batch, frame>> /\ Changed(S, "Deleted")
    BY <1>3 DEF DeleteStale, Removed
  <2>2. IsFiniteSet(S)
    <3>1. IsFiniteSet({load.judged}) /\ S \in SUBSET {load.judged}
      BY FS_Singleton
    <3> QED BY <3>1, FS_Subset
  <2> HIDE DEF S
  <2>3. /\ \A X : Sees(queue, X) => Sees(queue', X)
        /\ \A s : Tells(queue, s) => Tells(queue', s)
    BY <1>1, <2>1, <2>2, ChangedIs
  <2> QED BY <1>1, <2>1, <2>3, ViewStays
<1> QED BY <1>2, <1>3

LEMMA NewView ==
  ASSUME WatchInv, ViewInv, New
  PROVE  ViewInv'
<1>1. /\ pc = "new" /\ pc' = "opening" /\ UNCHANGED <<missed, queue, batch, frame>>
      /\ app' = Refiltered([app EXCEPT !.list = [s \in Session |-> IF disk[s] # None /\ disk[s].status # "Ended"
                                                                   THEN disk[s] ELSE None]])
  BY DEF New, world
<1>2. ~frame.drawn /\ ~HasKey(queue)
  BY <1>1 DEF ViewInv, CursorInv, WatchInv, KeyInv
<1> DEFINE l == [s \in Session |-> IF disk[s] # None /\ disk[s].status # "Ended" THEN disk[s] ELSE None]
           a == [app EXCEPT !.list = l]
<1>3. l \in List
  BY DEF List, WatchInv, ShapeInv
<1> HIDE DEF l
<1>4. IsApp(a)
  BY <1>3 DEF WatchInv, ShapeInv, IsApp, AppField
<1>5. app' = Refiltered(a)
  BY <1>1 DEF l
<1> HIDE DEF a
<1>6. Fits(app')
  BY <1>4, <1>5, RefilteredFits
<1>7. \A X : Sees(queue', X)
  BY <1>1, <1>2, NoKeySees
<1>8. FitInv'
  BY <1>6 DEF FitInv, Fits
<1>9. CursorInv'
  BY <1>1, <1>2, <1>7 DEF ViewInv, CursorInv
<1> QED BY <1>8, <1>9 DEF ViewInv

LEMMA OpenView ==
  ASSUME WatchInv, ViewInv, Open
  PROVE  ViewInv'
<1>1. pc = "opening" /\ pc' = "draw" /\ UNCHANGED <<missed, queue, app, batch, frame>>
  BY DEF Open, world
<1>2. ~frame.drawn /\ ~HasKey(queue)
  BY <1>1 DEF ViewInv, CursorInv, WatchInv, KeyInv
<1>3. \A X : Sees(queue', X)
  BY <1>1, <1>2, NoKeySees
<1>4. FitInv'
  BY <1>1 DEF ViewInv, FitInv, Refilters
<1>5. CursorInv'
  BY <1>1, <1>2, <1>3 DEF ViewInv, CursorInv
<1> QED BY <1>4, <1>5 DEF ViewInv

\* The rows are built again; a key that waits is for what is shown anyway, or
\* the new frame lacks it.
LEMMA DrawView ==
  ASSUME WatchInv, ViewInv, Draw
  PROVE  ViewInv'
<1> DEFINE rows == build_session_rows(app)
           sel == IF app.sel > Len(rows) THEN Len(rows) ELSE app.sel
           a == IF rows = <<>> THEN app ELSE [app EXCEPT !.rows = rows, !.sel = sel]
           lacked == IF KeyInQueue THEN frame.lacked \cup (Session \ Displayed(a)) ELSE {}
<1>1. /\ pc = "draw" /\ pc' = "wait" /\ app' = a /\ batch' = NoBatch /\ UNCHANGED <<missed, queue>>
      /\ frame' = [drawn |-> TRUE, cursor |-> selected_session(a),
                   prompt |-> IF a.confirm = None THEN None ELSE a.confirm.id, lacked |-> lacked]
  BY DEF Draw, world
<1>2. IsApp(app)
  BY DEF WatchInv, ShapeInv
<1> HIDE DEF rows, sel
<1>3. /\ IsApp(a) /\ a.list = app.list /\ a.filtered = app.filtered
      /\ a.only = app.only /\ a.scope = app.scope
      /\ rows = <<>> => a = app
      /\ rows # <<>> => a.rows = rows /\ a.sel = sel
  BY <1>2 DEF IsApp, AppField
<1> HIDE DEF a, lacked
<1>4. build_session_rows(a) = rows
  BY <1>3 DEF build_session_rows, rows
<1>5. rows # <<>> => RowsFit(a)
  BY <1>3, <1>4 DEF RowsFit
<1>6. RowsFit(app) => SameView(app, a)
  BY <1>3 DEF RowsFit, SameView, rows
<1>7. frame'.cursor = selected_session(app') /\ frame'.lacked = lacked /\ ~batch'.key
  BY <1>1 DEF NoBatch
<1>8. FitInv'
  <2>1. Fits(app) => Fits(a)
    BY <1>6, SameViewFits DEF Fits
  <2>2. Refilters /\ pc = "draw" => Refilters'
    BY <1>1 DEF Refilters
  <2>3. rows = <<>> => build_session_rows(a) = <<>>
    BY <1>4
  <2>4. missed = {} => Fits(a) \/ Refilters'
    BY <1>1, <2>1, <2>2 DEF ViewInv, FitInv
  <2>5. RowsFit(a) \/ build_session_rows(a) = <<>>
    BY <1>5, <2>3
  <2> QED BY <1>1, <2>4, <2>5 DEF FitInv
<1>9. selected_session(a) \in Session \cup {None}
  BY <1>3, ShownIs DEF selected_session
<1>10. Sees(queue, {None, selected_session(a)} \cup lacked)
  <2>1. CASE HasKey(queue)
    <3>1. ~batch.key /\ KeyInQueue
      BY <2>1 DEF WatchInv, KeyInv, HasKey, KeyInQueue
    <3>2. RowsFit(app) \/ rows = <<>>
      BY <1>1, <3>1 DEF ViewInv, FitInv, rows
    <3>3. SameView(app, a)
      <4>1. SameView(app, app)
        BY <1>2, SetsView
      <4> QED BY <1>3, <1>6, <3>2, <4>1
    <3>4. Displayed(a) = Displayed(app) /\ \A r : SessionAt(a, r) = SessionAt(app, r)
      BY <3>3, SameViewFits
    <3>5. selected_session(app) \in {None, selected_session(a)}
      <4>1. CASE rows = <<>>
        BY <1>3, <4>1
      <4>2. CASE rows # <<>> /\ selected_session(app) # None
        <5>1. app.rows = rows
          BY <3>2, <4>2 DEF RowsFit, rows
        <5>2. rows \in Seq(Nat)
          BY <1>2, RowsAre DEF rows, IsApp
        <5>3. app.sel \in 1 .. Len(rows) /\ Len(rows) \in Nat
          BY <1>2, <4>2, <5>1, <5>2, ShownIs, LenProperties DEF selected_session
        <5>4. a.sel = app.sel
          BY <1>3, <4>2, <5>3 DEF sel
        <5> QED BY <3>4, <5>4 DEF selected_session
      <4> QED BY <4>1, <4>2
    <3>6. Sees(queue, Allowed) /\ Sees(queue, Session \cup {None})
      BY <1>1 DEF ViewInv, CursorInv
    <3>7. Allowed \subseteq {None, selected_session(a)} \cup lacked
      BY <1>1, <3>1, <3>4, <3>5 DEF Allowed, lacked
    <3> QED BY <3>6, <3>7, SeesMore
  <2>2. CASE ~HasKey(queue)
    BY <2>2, NoKeySees
  <2> QED BY <2>1, <2>2
<1>11. Allowed' = {None, selected_session(a)} \cup lacked
  BY <1>1, <1>7 DEF Allowed
<1>12. Sees(queue', Session \cup {None}) /\ Sees(queue', Allowed')
  BY <1>1, <1>10, <1>11 DEF ViewInv, CursorInv
<1>13. CursorInv'
  BY <1>1, <1>7, <1>9, <1>12 DEF CursorInv
<1> QED BY <1>8, <1>13 DEF ViewInv

\* The batch takes what is not a key.
LEMMA DrainView ==
  ASSUME WatchInv, ViewInv, DrainChange \/ DrainReload
  PROVE  ViewInv'
<1> DEFINE e == Head(queue)
<1>1. /\ pc \in {"wait", "drain"} /\ pc' = "drain" /\ queue # <<>>
      /\ queue' = Tail(queue) /\ UNCHANGED <<missed, app, frame>>
  BY DEF DrainChange, DrainReload, Drains, world
<1>2. IsQueue(queue) /\ Kinds(queue) /\ DOMAIN batch = {"count", "changes", "full", "key"}
      /\ batch.changes \in [Session -> {None, "Modified", "Deleted"}]
  BY DEF WatchInv, ShapeInv
<1>3. /\ \A s : Tells(queue, s) <=> Changes(e, s) \/ Tells(queue', s)
      /\ \A X : Sees(queue, X) => Sees(queue', X)
      /\ Kind(e)
  BY <1>1, <1>2, Takes
<1>4. batch'.key = batch.key /\ \A s \in Session : batch.changes[s] # None \/ Changes(e, s) => batch'.changes[s] # None
  <2>1. CASE DrainChange
    <3>1. e.what = "change"
          /\ batch' = [batch EXCEPT !.count = batch.count + 1,
                                    !.changes = [batch.changes EXCEPT ![e.id] = e.type]]
      BY <2>1 DEF DrainChange, Drains, merge_session_changes
    <3> HIDE DEF e
    <3>2. batch'.key = batch.key /\ batch'.changes = [batch.changes EXCEPT ![e.id] = e.type]
      BY <1>2, <3>1
    <3>3. e.type # None /\ \A s : Changes(e, s) => s = e.id
      BY <1>3, <3>1, WatchListAssumption DEF Kind, Changes
    <3> QED BY <1>2, <3>2, <3>3
  <2>2. CASE DrainReload
    <3>1. e.what = "reload" /\ batch' = [batch EXCEPT !.count = batch.count + 1, !.full = TRUE]
      BY <2>2 DEF DrainReload, Drains
    <3>2. batch'.key = batch.key /\ batch'.changes = batch.changes
      BY <1>2, <3>1
    <3> QED BY <3>1, <3>2 DEF Changes
  <2> QED BY <2>1, <2>2
<1> HIDE DEF e
<1>5. Refilters => Refilters'
  BY <1>1, <1>3, <1>4 DEF Refilters
<1>6. FitInv'
  BY <1>1, <1>4, <1>5 DEF ViewInv, FitInv
<1>7. Allowed' = Allowed
  BY <1>1 DEF Allowed
<1>8. Sees(queue', Session \cup {None}) /\ Sees(queue', Allowed')
  BY <1>1, <1>3, <1>7 DEF ViewInv, CursorInv
<1>9. CursorInv'
  BY <1>1, <1>4, <1>8 DEF ViewInv, CursorInv
<1> QED BY <1>6, <1>9 DEF ViewInv

\* A key has been taken: nothing that was seen waits, until the next frame.
LEMMA KeyView ==
  ASSUME WatchInv, WatchInv', ViewInv, DrainsKey, UNCHANGED <<missed, frame>>,
         \/ Fits(app')
         \/ \E s \in Session : Tells(queue', s) \/ batch.changes[s] # None
         \/ missed # {}
  PROVE  ViewInv'
<1>1. pc' = "drain" /\ batch'.key /\ batch'.changes = batch.changes
  BY KeyTaken
<1>2. ~HasKey(queue')
  BY <1>1 DEF WatchInv, KeyInv
<1>3. \A X : Sees(queue', X)
  BY <1>2, NoKeySees
<1>4. FitInv'
  BY <1>1 DEF FitInv, Refilters
<1>5. CursorInv'
  BY <1>1, <1>3 DEF ViewInv, CursorInv
<1> QED BY <1>4, <1>5 DEF ViewInv

LEMMA DrainKeyView ==
  ASSUME WatchInv, WatchInv', ViewInv, DrainKey \/ WorktreeViewIgnores
  PROVE  ViewInv'
<1>1. DrainsKey /\ queue' = Tail(queue) /\ UNCHANGED <<missed, frame>>
      /\ (app' = app \/ app' = AfterKey(Key.key, app))
  BY DEF DrainKey, WorktreeViewIgnores, world
<1>2. IsApp(app)
  BY DEF WatchInv, ShapeInv
<1>3. Fits(app) => Fits(app')
  BY <1>1, <1>2, KeyFits
<1>4. pc \in {"wait", "drain"} /\ \A s : Tells(queue, s) => Tells(queue', s)
  BY <1>1, KeyTaken
<1>5. missed = {} => Fits(app) \/ Refilters
  BY <1>4 DEF ViewInv, FitInv
<1> QED BY <1>1, <1>3, <1>4, <1>5, KeyView DEF Refilters

LEMMA ConfirmDeleteView ==
  ASSUME WatchInv, WatchInv', ViewInv, confirm_delete
  PROVE  ViewInv'
<1> DEFINE s == app.confirm.id
           a == [app EXCEPT !.list[s] = None, !.confirm = None]
           b == apply_filter(a)
<1>1. DrainsKey /\ app' = resync_selection(b, app.sel, None) /\ UNCHANGED <<missed, frame>>
  BY DEF confirm_delete
<1>2. IsApp(app)
  BY DEF WatchInv, ShapeInv
<1> HIDE DEF s
<1>3. IsApp(a)
  BY <1>2 DEF IsApp, AppField, List
<1> HIDE DEF a
<1>4. IsApp(b) /\ Fits(b)
  BY <1>3, ApplyFilterFits
<1> HIDE DEF b
<1>5. Fits(app')
  BY <1>1, <1>4, SelectionView, SameViewFits
<1> QED BY <1>1, <1>5, KeyView

\* The sessions of the tree leave the list and the rows do not know, but the
\* change of each of them is on its way.
LEMMA WorktreeViewView ==
  ASSUME WatchInv, WatchInv', ViewInv, worktree_view_confirm_delete
  PROVE  ViewInv'
<1>1. PICK t \in trees :
        /\ DrainsKey /\ RemovedByKey(InTree(t)) /\ UNCHANGED <<missed, frame>>
        /\ app' = [app EXCEPT !.list = [s \in Session |-> IF TreeOf[s] = t THEN None ELSE app.list[s]]]
  BY DEF worktree_view_confirm_delete
<1>2. IsApp(app) /\ IsFiniteSet(InTree(t))
  BY WatchListAssumption, FS_Subset DEF WatchInv, ShapeInv, InTree
<1>3. pc \in {"wait", "drain"} /\ (pc = "wait" => batch = NoBatch)
  BY <1>1, KeyTaken DEF WatchInv, ShapeInv
<1>4. \A s : Tells(queue', s) <=> Tells(queue, s) \/ (s \in InTree(t) /\ disk[s] # None)
  BY <1>1, <1>2, RemovedByKeyTells
<1>5. CASE missed # {}
  BY <1>1, <1>5, KeyView
<1>6. CASE missed = {} /\ \E s \in InTree(t) : app.list[s] # None
  <2>1. PICK s \in InTree(t) : app.list[s] # None
    BY <1>6
  <2>2. s \in Session \ missed
    BY <1>6 DEF InTree
  <2>3. FreshIn(app.list, s) \/ batch.changes[s] # None \/ Tells(queue, s)
    BY <1>3, <2>2 DEF WatchInv, FreshInv
  <2>4. FreshIn(app.list, s) => disk[s] # None
    BY <2>1 DEF FreshIn, Listed
  <2>5. Tells(queue', s) \/ batch.changes[s] # None
    BY <1>4, <2>1, <2>3, <2>4
  <2> QED BY <1>1, <2>2, <2>5, KeyView
<1>7. CASE missed = {} /\ \A s \in InTree(t) : app.list[s] = None
  <2>1. [s \in Session |-> IF TreeOf[s] = t THEN None ELSE app.list[s]] = app.list
    BY <1>2, <1>7 DEF IsApp, List, InTree
  <2>2. app' = [app EXCEPT !.list = app.list]
    BY <1>1, <2>1
  <2>3. SameView(app, app')
    BY <1>2, <2>2 DEF SameView, IsApp, AppField
  <2>4. Fits(app) => Fits(app')
    BY <2>3, SameViewFits
  <2>5. Fits(app) \/ Refilters
    BY <1>3, <1>7 DEF ViewInv, FitInv
  <2>6. Fits(app') \/ \E s \in Session : Tells(queue', s) \/ batch.changes[s] # None
    BY <1>3, <1>4, <2>4, <2>5 DEF Refilters
  <2> QED BY <1>1, <2>6, KeyView
<1> QED BY <1>5, <1>6, <1>7

LEMMA DrainedView ==
  ASSUME WatchInv, ViewInv, Drained
  PROVE  ViewInv'
<1>1. pc = "drain" /\ UNCHANGED <<missed, queue, app, batch, frame>>
  BY DEF Drained, world
<1>2. pc' \in {"load", "ended", "draw"} /\ (pc' # "load" => \A s \in Session : batch.changes[s] = None)
  BY DEF Drained, EndOfIteration
<1>3. pc' \in {"ended", "load"} \/ (Refilters => Refilters')
  BY <1>1, <1>2 DEF Refilters
<1>4. FitInv'
  <2>1. pc' = "load" => Refilters'
    BY DEF Refilters
  <2>2. missed = {} => Fits(app) \/ Refilters
    BY <1>1 DEF ViewInv, FitInv
  <2> QED BY <1>1, <1>2, <1>3, <2>1, <2>2 DEF ViewInv, FitInv
<1>5. Allowed \subseteq Allowed'
  BY <1>1 DEF Allowed
<1>6. Sees(queue', Session \cup {None}) /\ Sees(queue', Allowed')
  BY <1>1, <1>5, SeesMore DEF ViewInv, CursorInv
<1>7. CursorInv'
  BY <1>1, <1>2, <1>6 DEF ViewInv, CursorInv
<1> QED BY <1>4, <1>7 DEF ViewInv

\* The cursor stays on its session, unless that is displayed no more.
LEMMA ReloadedView ==
  ASSUME WatchInv, ViewInv, Reloaded
  PROVE  ViewInv'
<1> DEFINE a == [app EXCEPT !.list = load.list]
           b == apply_filter(a)
           s == selected_session(app)
<1>1. /\ pc = "load" /\ app' = resync_selection(b, app.sel, s)
      /\ pc' \in {"ended", "draw"} /\ UNCHANGED <<missed, queue, batch, frame>>
  BY DEF Reloaded, EndOfIteration, world
<1>2. IsApp(app) /\ IsApp(a)
  BY DEF WatchInv, ShapeInv, IsApp, AppField
<1> HIDE DEF a
<1>3. IsApp(b) /\ Fits(b)
  BY <1>2, ApplyFilterFits
<1> HIDE DEF b
<1>4. b.rows \in Seq(Nat)
  BY <1>3, RowsAre DEF IsApp, Fits, RowsFit
<1>5. DOMAIN b.rows \subseteq Nat
  BY <1>4, LenProperties
<1>6. s \in Session \cup {None}
  BY <1>2, ShownIs DEF selected_session
<1> HIDE DEF s
<1>7. SameView(b, app')
  BY <1>1, <1>3, SelectionView
<1>8. Fits(app') /\ Displayed(app') = Displayed(b)
  BY <1>3, <1>7, SameViewFits
<1>9. s \in {None, selected_session(app')} \cup (Session \ Displayed(app'))
  <2>1. s \in Displayed(b) => selected_session(app') = s
    BY <1>1, <1>3, <1>5, Resynced
  <2> QED BY <1>6, <1>8, <2>1
<1>10. FitInv'
  BY <1>8 DEF FitInv, Fits
<1>11. Sees(queue', Session \cup {None}) /\ (pc' = "draw" => Sees(queue', Allowed'))
  <2>1. Allowed = {None, s} \cup frame.lacked
    BY <1>1 DEF Allowed, s
  <2>2. pc' = "draw" => Allowed \subseteq Allowed'
    BY <1>1, <1>9, <2>1 DEF Allowed
  <2> QED BY <1>1, <2>2, SeesMore DEF ViewInv, CursorInv
<1>12. CursorInv'
  BY <1>1, <1>9, <1>11 DEF ViewInv, CursorInv, s
<1> QED BY <1>10, <1>12 DEF ViewInv

LEMMA LockTimeoutView ==
  ASSUME WatchInv, ViewInv, NEW s \in Session, LockTimeout(s)
  PROVE  ViewInv'
<1>1. pc = "load" /\ pc' = "ended" /\ UNCHANGED <<missed, queue, app, batch, frame>>
  BY DEF LockTimeout, Loads, world
<1>2. FitInv'
  BY <1>1 DEF ViewInv, FitInv
<1>3. CursorInv'
  BY <1>1 DEF ViewInv, CursorInv
<1> QED BY <1>2, <1>3 DEF ViewInv

LEMMA ViewStep == WatchInv /\ WatchInv' /\ ViewInv /\ [Next]_vars => ViewInv'
<1> SUFFICES ASSUME WatchInv, WatchInv', ViewInv, [Next]_vars PROVE ViewInv'
  OBVIOUS
<1>1. CASE World
  BY <1>1, WorldView
<1>2. CASE Tui
  BY <1>2, NewView, OpenView, DrawView, DrainView, DrainKeyView, ConfirmDeleteView, WorktreeViewView,
     DrainedView, ReadView, LockTimeoutView, ReloadedView DEF Tui
<1>3. CASE UNCHANGED vars
  BY <1>3, ViewStays DEF vars, ViewInv, CursorInv
<1> QED BY <1>1, <1>2, <1>3 DEF Next

LEMMA ViewInvAlways == Spec => []ViewInv
<1> QED BY InitWatch, WatchStep, InitView, ViewStep, PTL DEF Spec

-----------------------------------------------------------------------------
(* The theorems *)

\* Whenever the TUI waits and nothing is in the queue, its list shows what is
\* on disk of every session but those that changed between App::new and the
\* watcher: no merge, drop, re-creation, stale session or key loses a change.
THEOREM ListFresh == Spec => []ListIsFresh
<1>1. WatchInv => ListIsFresh
  <2> SUFFICES ASSUME WatchInv, Quiet, NEW s \in Session \ missed
               PROVE  app.list[s] = IF disk[s] = None \/ disk[s].status = "Ended" THEN None ELSE disk[s]
    BY DEF ListIsFresh
  <2>1. ~Tells(queue, s)
    BY DEF Quiet, Tells
  <2>2. FreshIn(app.list, s)
    BY <2>1 DEF WatchInv, FreshInv, Quiet
  <2> QED BY <2>2 DEF FreshIn, Listed
<1> QED BY <1>1, WatchInvAlways, PTL

\* confirm_delete takes a worktree only with the last session that the user
\* could know of: who else is on disk in it has come so late that its change
\* is still in the queue or in the batch.
THEOREM LastTakesTheTree == Spec => TreeGoesWithItsLast
<1>1. ASSUME WatchInv, confirm_delete, trees' # trees,
             NEW s \in Session \ (missed \cup {Key.seen}),
             TreeOf[s] \in trees \ trees', disk[s] # None, disk[s].status # "Ended"
      PROVE  batch.changes[s] # None \/ Tells(queue, s)
  <2> DEFINE d == app.confirm.id
  <2>1. /\ DrainsKey /\ Key.key = "y" /\ app.confirm # None
        /\ \E gone \in IF MayCleanUp(app) /\ TreeOf[d] \in trees THEN {{}, {TreeOf[d]}} ELSE {{}} :
              trees' = trees \ gone
    BY <1>1 DEF confirm_delete
  <2>2. MayCleanUp(app) /\ TreeOf[s] = TreeOf[d]
    BY <1>1, <2>1
  <2>3. s # d
    BY <1>1, <2>1, KeyTaken DEF Prompted
  <2>4. app.list[s] = None
    <3>1. IsApp(app)
      BY <1>1 DEF WatchInv, ShapeInv
    <3>2. [app EXCEPT !.list[d] = None].list[s] = app.list[s]
      BY <2>3, <3>1 DEF IsApp, AppField, List
    <3> QED BY <2>2, <3>2 DEF MayCleanUp, has_session_in_worktree
  <2>5. Listed(disk[s]) = disk[s]
    BY <1>1 DEF Listed
  <2>6. pc \in {"wait", "drain"}
    BY <1>1, <2>1, KeyTaken
  <2> QED BY <1>1, <2>4, <2>5, <2>6 DEF WatchInv, FreshInv, FreshIn
<1>2. WatchInv /\ [Next]_vars => [confirm_delete /\ trees' # trees =>
       \A s \in Session \ (missed \cup {Key.seen}) :
         TreeOf[s] \in trees \ trees' /\ disk[s] # None /\ disk[s].status # "Ended" =>
           \/ batch.changes[s] # None
           \/ \E i \in DOMAIN queue : queue[i].what = "change" /\ queue[i].id = s]_vars
  BY <1>1 DEF Tells, Changes
<1> QED BY <1>2, WatchInvAlways, PTL DEF Spec, TreeGoesWithItsLast

\* The rows too: when the TUI waits, nothing is in the queue and nothing was
\* missed, exactly the sessions that pass the filter have a row, however the
\* filter, the deletions and the reloads of the way came about.
THEOREM RowsAreFresh == Spec => []QuietMeansFresh
<1>1. WatchInv /\ ViewInv /\ ListIsFresh => QuietMeansFresh
  <2> SUFFICES ASSUME WatchInv, ViewInv, ListIsFresh, Quiet, missed = {}
               PROVE  Displayed(app) = {s \in Session : app.list[s] # None /\ Passes(app, s)}
    BY DEF QuietMeansFresh
  <2>1. IsApp(app) /\ disk \in List
    BY DEF WatchInv, ShapeInv
  <2>2. ~Refilters
    BY DEF Refilters, Quiet, Tells
  <2>3. Fits(app)
    BY <2>2 DEF ViewInv, FitInv, Quiet
  <2>4. ASSUME NEW s \in InList(app.list) PROVE app.list[s].status \in {"Running", "Paused"}
    <3>1. s \in Session \ missed /\ app.list[s] # None
      BY DEF InList
    <3>2. app.list[s] = disk[s] /\ disk[s].status # "Ended" /\ disk[s] # None
      BY <3>1 DEF ListIsFresh
    <3> QED BY <2>1, <3>1, <3>2 DEF List, Doc
  <2> QED BY <2>1, <2>3, <2>4, FitsShows
<1> QED BY <1>1, WatchInvAlways, ViewInvAlways, ListFresh, PTL

\* enter and d act on the session that the user saw under the cursor, whatever
\* was reloaded between the frame and the key; or a frame has shown since that
\* it was gone.
THEOREM KeysActOnShown == Spec => ActsOnShown
<1>1. ASSUME WatchInv, ViewInv, DrainKey, Key.key \in {"enter", "d"}
      PROVE  Key.seen \in {None, selected_session(app)} \cup frame.lacked
  <2>1. pc \in {"wait", "drain"} /\ queue # <<>> /\ Key.what = "key" /\ IsQueue(queue)
    BY <1>1 DEF DrainKey, DrainsKey, Drains, Key, WatchInv, ShapeInv
  <2>2. Sees(queue, Allowed)
    BY <1>1, <2>1 DEF ViewInv, CursorInv
  <2>3. See(Key, Allowed)
    BY <2>1, <2>2, Takes DEF Key
  <2> QED BY <1>1, <2>1, <2>3 DEF See, Allowed
<1>2. WatchInv /\ ViewInv /\ [Next]_vars =>
        [DrainKey /\ Key.key \in {"enter", "d"} /\ app.confirm = None =>
           Key.seen \in {None, selected_session(app)} \cup frame.lacked]_vars
  BY <1>1
<1> QED BY <1>2, WatchInvAlways, ViewInvAlways, PTL DEF Spec, ActsOnShown
=============================================================================
