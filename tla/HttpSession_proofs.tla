-------------------------- MODULE HttpSession_proofs --------------------------
(***************************************************************************)
(* Proofs about HttpSession, for any streams, routes and limits: pipelined *)
(* requests are answered in order, and none is forgotten.  What the parser *)
(* makes of the bytes does not matter here; the argument is about who owes *)
(* which answer: the connection has the answers 1..m, the executor owes    *)
(* the next ones in their order, and a session that stopped has left a     *)
(* closing answer as the last of them.                                     *)
(***************************************************************************)
EXTENDS HttpSession, FiniteSetTheorems, TLAPS

IsSeq(a) == \E S : a \in Seq(S)

\* The positions of the final answers in a, which are numbered from 1.
FinalsOf(a) == {i \in DOMAIN a : a[i].code # 100}

Numbered(a) ==
    \A i \in FinalsOf(a) : a[i].answer = Cardinality({j \in FinalsOf(a) : j <= i})

\* What the executor owes.
PendingOf(running, tasks) ==
    IF running = NoTask THEN tasks ELSE <<running>> \o tasks

Pending == PendingOf(executor.running, executor.tasks)

------------------------------------------------------------------------------
(* Sequences *)

LEMMA SeqAppend ==
    ASSUME NEW a, NEW x, IsSeq(a)
    PROVE  /\ IsSeq(Append(a, x)) /\ Len(a) \in Nat /\ Len(Append(a, x)) = Len(a) + 1
           /\ DOMAIN Append(a, x) = 1..Len(a) + 1 /\ DOMAIN a = 1..Len(a)
           /\ \A i \in 1..Len(a) : Append(a, x)[i] = a[i]
           /\ Append(a, x)[Len(a) + 1] = x
<1>1. PICK S : a \in Seq(S)
  BY DEF IsSeq
<1> DEFINE T == S \cup {x}
<1>2. a \in Seq(T) /\ x \in T
  BY <1>1
<1> HIDE DEF T
<1>3. Append(a, x) \in Seq(T)
  BY <1>2
<1> QED BY <1>2, <1>3 DEF IsSeq

LEMMA SeqConcat ==
    ASSUME NEW a, NEW b, IsSeq(a), IsSeq(b)
    PROVE  /\ IsSeq(a \o b) /\ Len(a) \in Nat /\ Len(b) \in Nat
           /\ Len(a \o b) = Len(a) + Len(b)
           /\ DOMAIN (a \o b) = 1..Len(a) + Len(b)
           /\ DOMAIN a = 1..Len(a) /\ DOMAIN b = 1..Len(b)
           /\ \A i \in 1..Len(a) : (a \o b)[i] = a[i]
           /\ \A i \in 1..Len(b) : (a \o b)[Len(a) + i] = b[i]
<1>1. PICK S : a \in Seq(S)
  BY DEF IsSeq
<1>2. PICK T : b \in Seq(T)
  BY DEF IsSeq
<1> DEFINE U == S \cup T
<1>3. a \in Seq(U) /\ b \in Seq(U)
  BY <1>1, <1>2
<1> HIDE DEF U
<1>4. a \o b \in Seq(U)
  BY <1>3
<1> QED BY <1>3, <1>4 DEF IsSeq

LEMMA SeqTail ==
    ASSUME NEW a, IsSeq(a), a # <<>>
    PROVE  /\ IsSeq(Tail(a)) /\ Len(a) \in Nat \ {0} /\ Len(Tail(a)) = Len(a) - 1
           /\ DOMAIN Tail(a) = 1..(Len(a) - 1) /\ DOMAIN a = 1..Len(a)
           /\ \A i \in 1..(Len(a) - 1) : Tail(a)[i] = a[i + 1]
           /\ Head(a) = a[1]
<1>1. PICK S : a \in Seq(S)
  BY DEF IsSeq
<1>2. Tail(a) \in Seq(S)
  BY <1>1
<1> QED BY <1>1, <1>2 DEF IsSeq

LEMMA SameSeq ==
    ASSUME NEW a, NEW b, IsSeq(a), IsSeq(b), Len(a) = Len(b),
           \A i \in 1..Len(a) : a[i] = b[i]
    PROVE  a = b
<1>1. PICK S : a \in Seq(S)
  BY DEF IsSeq
<1>2. PICK T : b \in Seq(T)
  BY DEF IsSeq
<1>4. a = [i \in 1..Len(a) |-> a[i]] /\ b = [i \in 1..Len(b) |-> b[i]]
  BY <1>1, <1>2
<1>5. [i \in 1..Len(a) |-> a[i]] = [i \in 1..Len(b) |-> b[i]]
  OBVIOUS
<1> QED BY <1>4, <1>5

LEMMA EmptyIsSeq == IsSeq(<<>>) /\ Len(<<>>) = 0 /\ DOMAIN <<>> = {}
<1>1. <<>> \in Seq({})
  OBVIOUS
<1> QED BY <1>1 DEF IsSeq

LEMMA SingletonIsSeq == ASSUME NEW x PROVE IsSeq(<<x>>) /\ Len(<<x>>) = 1 /\ <<x>>[1] = x
<1>1. <<x>> \in Seq({x})
  OBVIOUS
<1> QED BY <1>1 DEF IsSeq

\* Sending moves the head of the queue behind what was sent.
LEMMA ConcatShift ==
    ASSUME NEW a, NEW b, IsSeq(a), IsSeq(b), b # <<>>
    PROVE  Append(a, Head(b)) \o Tail(b) = a \o b
<1> DEFINE c == Append(a, Head(b))
           d == Tail(b)
           l == c \o d
           r == a \o b
           n == Len(a)
           m == Len(b)
<1>1. /\ IsSeq(c) /\ Len(c) = n + 1 /\ n \in Nat /\ c[n + 1] = Head(b)
      /\ \A i \in 1..n : c[i] = a[i]
  BY SeqAppend
<1>2. /\ IsSeq(d) /\ m \in Nat \ {0} /\ Len(d) = m - 1 /\ Head(b) = b[1]
      /\ \A i \in 1..(m - 1) : d[i] = b[i + 1]
  BY SeqTail
<1>3. /\ IsSeq(r) /\ Len(r) = n + m /\ \A i \in 1..n : r[i] = a[i]
      /\ \A i \in 1..m : r[n + i] = b[i]
  BY SeqConcat
<1> HIDE DEF c, d
<1>0. IsSeq(c) /\ IsSeq(d)
  BY <1>1, <1>2
<1>4. /\ IsSeq(l) /\ Len(l) = Len(c) + Len(d) /\ \A i \in 1..Len(c) : l[i] = c[i]
      /\ \A i \in 1..Len(d) : l[Len(c) + i] = d[i]
  BY <1>0, SeqConcat
<1> HIDE DEF l, r, n, m
<1>5. Len(l) = Len(r) /\ Len(l) = n + m
  BY <1>1, <1>2, <1>3, <1>4
<1>6. ASSUME NEW i \in 1..Len(l) PROVE l[i] = r[i]
  <2>1. CASE i \in 1..n
    <3>1. i \in 1..(n + 1)
      BY <1>1, <2>1
    <3> QED BY <1>1, <1>3, <1>4, <2>1, <3>1
  <2>2. CASE i = n + 1
    <3>1. 1 \in 1..m /\ n + 1 \in 1..(n + 1)
      BY <1>1, <1>2
    <3>2. r[n + 1] = b[1]
      BY <1>3, <3>1
    <3> QED BY <1>1, <1>2, <1>4, <2>2, <3>1, <3>2
  <2>3. CASE i > n + 1
    <3>1. PICK k \in 1..(m - 1) : k = i - (n + 1)
      BY <1>1, <1>2, <1>5, <2>3
    <3>2. /\ k + 1 \in 1..m /\ i = n + (k + 1) /\ i = Len(c) + k /\ k \in 1..Len(d)
      BY <1>1, <1>2, <3>1
    <3>3. l[i] = d[k]
      BY <1>4, <3>2
    <3>4. r[i] = b[k + 1]
      BY <1>3, <3>2
    <3> QED BY <1>2, <3>1, <3>3, <3>4
  <2> QED BY <1>1, <1>5, <2>1, <2>2, <2>3
<1>7. IsSeq(l) /\ IsSeq(r) /\ Len(l) = Len(r) /\ \A i \in 1..Len(l) : l[i] = r[i]
  BY <1>3, <1>4, <1>5, <1>6
<1>8. l = r
  BY <1>7, SameSeq
<1> QED BY <1>8 DEF l, r, c, d

\* What is queued comes last.
LEMMA ConcatAppend ==
    ASSUME NEW a, NEW b, NEW x, IsSeq(a), IsSeq(b)
    PROVE  a \o Append(b, x) = Append(a \o b, x)
<1> DEFINE c == Append(b, x)
           l == a \o c
           r == a \o b
           s == Append(r, x)
           n == Len(a)
           m == Len(b)
<1>1. /\ IsSeq(c) /\ Len(c) = m + 1 /\ m \in Nat /\ c[m + 1] = x
      /\ \A i \in 1..m : c[i] = b[i]
  BY SeqAppend
<1>2. /\ IsSeq(r) /\ Len(r) = n + m /\ n \in Nat /\ \A i \in 1..n : r[i] = a[i]
      /\ \A i \in 1..m : r[n + i] = b[i]
  BY SeqConcat
<1> HIDE DEF c, r
<1>3. /\ IsSeq(l) /\ Len(l) = n + Len(c) /\ \A i \in 1..n : l[i] = a[i]
      /\ \A i \in 1..Len(c) : l[n + i] = c[i]
  BY <1>1, SeqConcat
<1>4. /\ IsSeq(s) /\ Len(s) = Len(r) + 1 /\ s[Len(r) + 1] = x
      /\ \A i \in 1..Len(r) : s[i] = r[i]
  BY <1>2, SeqAppend
<1> HIDE DEF l, s, n, m
<1>5. Len(l) = Len(s) /\ Len(l) = n + m + 1
  BY <1>1, <1>2, <1>3, <1>4
<1>6. ASSUME NEW i \in 1..Len(l) PROVE l[i] = s[i]
  <2>1. CASE i \in 1..n
    <3>1. i \in 1..(n + m)
      BY <1>1, <1>2, <2>1
    <3> QED BY <1>2, <1>3, <1>4, <2>1, <3>1
  <2>2. CASE i = n + m + 1
    <3>1. m + 1 \in 1..Len(c) /\ i = n + (m + 1)
      BY <1>1, <1>2, <2>2
    <3>2. l[i] = c[m + 1]
      BY <1>3, <3>1
    <3> QED BY <1>1, <1>2, <1>4, <2>2, <3>2
  <2>3. CASE i > n /\ i # n + m + 1
    <3>1. PICK k \in 1..m : k = i - n
      BY <1>1, <1>2, <1>5, <2>3
    <3>2. k \in 1..Len(c) /\ i = n + k /\ i \in 1..Len(r)
      BY <1>1, <1>2, <3>1
    <3>3. l[n + k] = b[k] /\ r[n + k] = b[k]
      BY <1>1, <1>2, <1>3, <3>1, <3>2
    <3> QED BY <1>4, <3>2, <3>3
  <2> QED BY <1>1, <1>2, <1>5, <2>1, <2>2, <2>3
<1>7. IsSeq(l) /\ IsSeq(s) /\ Len(l) = Len(s) /\ \A i \in 1..Len(l) : l[i] = s[i]
  BY <1>3, <1>4, <1>5, <1>6
<1>8. l = s
  BY <1>7, SameSeq
<1> QED BY <1>8 DEF l, s, r, c

------------------------------------------------------------------------------
(* The numbers of the final answers *)

LEMMA FinalsAreFinite ==
    ASSUME NEW a, IsSeq(a)
    PROVE  /\ IsFiniteSet(FinalsOf(a)) /\ Cardinality(FinalsOf(a)) \in Nat
           /\ FinalsOf(a) \subseteq 1..Len(a) /\ Len(a) \in Nat
<1>1. DOMAIN a = 1..Len(a) /\ Len(a) \in Nat
  BY SeqAppend
<1>2. IsFiniteSet(1..Len(a)) /\ FinalsOf(a) \subseteq 1..Len(a)
  BY <1>1, FS_Interval DEF FinalsOf
<1> QED BY <1>1, <1>2, FS_Subset, FS_CardinalityType

\* An answer that is not final changes no number, a final one takes the next.
LEMMA NumbersAppend ==
    ASSUME NEW a, NEW x, IsSeq(a), Numbered(a),
           x.code # 100 => x.answer = Cardinality(FinalsOf(a)) + 1
    PROVE  /\ Numbered(Append(a, x))
           /\ FinalsOf(Append(a, x)) =
                  FinalsOf(a) \cup (IF x.code # 100 THEN {Len(a) + 1} ELSE {})
           /\ Cardinality(FinalsOf(Append(a, x))) =
                  Cardinality(FinalsOf(a)) + (IF x.code # 100 THEN 1 ELSE 0)
<1> DEFINE b == Append(a, x)
           n == Len(a) + 1
           F == FinalsOf(a)
           G == FinalsOf(b)
<1>1. /\ DOMAIN b = 1..n /\ DOMAIN a = 1..Len(a) /\ n \in Nat /\ Len(a) \in Nat
      /\ \A i \in 1..Len(a) : b[i] = a[i]
      /\ b[n] = x
  BY SeqAppend
<1>2. IsFiniteSet(F) /\ Cardinality(F) \in Nat /\ F \subseteq 1..Len(a)
  BY FinalsAreFinite
<1>3. \A i \in F : i \in Nat /\ i < n
  BY <1>1, <1>2
<1> HIDE DEF n, b
<1>4. \A i \in 1..n : i \in 1..Len(a) \/ i = n
  BY <1>1 DEF n
<1>5. 1..Len(a) \subseteq 1..n /\ n \in 1..n /\ n \notin 1..Len(a)
  BY <1>1 DEF n
<1>6. G = F \cup (IF x.code # 100 THEN {n} ELSE {})
  BY <1>1, <1>4, <1>5 DEF FinalsOf
<1>7. n \notin F
  BY <1>2, <1>5
<1>8. Cardinality(F \cup {n}) = Cardinality(F) + 1
  BY <1>2, <1>7, FS_AddElement
<1>9. Cardinality(G) = Cardinality(F) + (IF x.code # 100 THEN 1 ELSE 0)
  <2>1. CASE x.code # 100
    <3>1. G = F \cup {n}
      BY <1>6, <2>1
    <3> QED BY <1>8, <2>1, <3>1
  <2>2. CASE ~(x.code # 100)
    <3>1. G = F
      BY <1>6, <2>2
    <3> QED BY <1>2, <2>2, <3>1
  <2> QED BY <2>1, <2>2
<1>10. ASSUME NEW i \in G PROVE b[i].answer = Cardinality({j \in G : j <= i})
  <2>1. CASE i \in F
    <3>1. ~(n <= i)
      BY <1>1, <1>3, <2>1
    <3>2. {j \in G : j <= i} = {j \in F : j <= i}
      BY <1>6, <3>1
    <3>3. b[i] = a[i]
      BY <1>1, <1>2, <2>1
    <3> QED BY <2>1, <3>2, <3>3 DEF Numbered
  <2>2. CASE i \notin F
    <3>1. i = n /\ x.code # 100 /\ G = F \cup {n}
      BY <1>6, <2>2
    <3>2. \A j \in G : j <= n
      BY <1>1, <1>3, <3>1
    <3>3. {j \in G : j <= n} = F \cup {n}
      BY <3>1, <3>2
    <3> QED BY <1>1, <1>8, <3>1, <3>3
  <2> QED BY <2>1, <2>2
<1>11. Numbered(b)
  BY <1>10 DEF Numbered
<1> QED BY <1>6, <1>9, <1>11 DEF b, n

\* What was sent keeps its numbers when the queue is dropped.
LEMMA NumbersPrefix ==
    ASSUME NEW a, NEW b, IsSeq(a), IsSeq(b), Numbered(a \o b)
    PROVE  Numbered(a)
<1> DEFINE c == a \o b
<1>1. /\ Len(a) \in Nat /\ Len(b) \in Nat /\ DOMAIN c = 1..Len(a) + Len(b)
      /\ DOMAIN a = 1..Len(a) /\ \A i \in 1..Len(a) : c[i] = a[i]
  BY SeqConcat
<1> HIDE DEF c
<1>2. 1..Len(a) \subseteq 1..Len(a) + Len(b)
  BY <1>1
<1> SUFFICES ASSUME NEW i \in FinalsOf(a)
             PROVE  a[i].answer = Cardinality({j \in FinalsOf(a) : j <= i})
  BY DEF Numbered
<1>3. i \in 1..Len(a) /\ i \in FinalsOf(c) /\ c[i] = a[i]
  BY <1>1, <1>2 DEF FinalsOf
<1>4. \A j \in 1..Len(a) + Len(b) : j <= i => j \in 1..Len(a)
  BY <1>1, <1>3
<1>5. {j \in FinalsOf(c) : j <= i} = {j \in FinalsOf(a) : j <= i}
  BY <1>1, <1>2, <1>4 DEF FinalsOf
<1> QED BY <1>3, <1>5 DEF Numbered, c

------------------------------------------------------------------------------
(* What the executor owes *)

LEMMA PendingIsSeq ==
    ASSUME NEW r, NEW q, IsSeq(q)
    PROVE  /\ IsSeq(PendingOf(r, q))
           /\ r = NoTask => PendingOf(r, q) = q
           /\ r # NoTask => PendingOf(r, q) # <<>> /\ PendingOf(r, q)[1] = r
                              /\ Tail(PendingOf(r, q)) = q
<1>1. CASE r = NoTask
  BY <1>1 DEF PendingOf
<1>2. CASE r # NoTask
  <2> DEFINE p == <<r>> \o q
             t == Tail(p)
  <2>1. PendingOf(r, q) = p
    BY <1>2 DEF PendingOf
  <2>2. /\ IsSeq(p) /\ Len(p) = 1 + Len(q) /\ Len(q) \in Nat /\ p[1] = r
        /\ \A i \in 1..Len(q) : p[1 + i] = q[i]
    BY SingletonIsSeq, SeqConcat
  <2> HIDE DEF p
  <2>3. p # <<>>
    BY <2>2, EmptyIsSeq
  <2>4. /\ IsSeq(t) /\ Len(t) = Len(p) - 1
        /\ \A i \in 1..(Len(p) - 1) : t[i] = p[i + 1]
    BY <2>2, <2>3, SeqTail
  <2> HIDE DEF t
  <2>5. Len(t) = Len(q) /\ \A i \in 1..Len(t) : t[i] = q[i]
    BY <2>2, <2>4
  <2>6. t = q
    BY <2>4, <2>5, SameSeq
  <2> QED BY <1>2, <2>1, <2>2, <2>3, <2>6 DEF t
<1> QED BY <1>1, <1>2

\* A task that begins is still owed.
LEMMA PendingBegins ==
    ASSUME NEW q, IsSeq(q), q # <<>>, Head(q) # NoTask
    PROVE  PendingOf(Head(q), Tail(q)) = PendingOf(NoTask, q)
<1>1. IsSeq(<<>>) /\ IsSeq(<<Head(q)>>) /\ IsSeq(Tail(q))
  BY EmptyIsSeq, SingletonIsSeq, SeqTail
<1>2. Append(<<>>, Head(q)) \o Tail(q) = <<>> \o q
  BY <1>1, ConcatShift
<1>3. Append(<<>>, Head(q)) = <<Head(q)>>
  OBVIOUS
<1>4. <<>> \o q = q
  <2>1. PICK S : q \in Seq(S)
    BY DEF IsSeq
  <2> QED BY <2>1
<1> QED BY <1>2, <1>3, <1>4 DEF PendingOf

\* A task that is posted is owed last.
LEMMA PendingPosts ==
    ASSUME NEW r, NEW q, NEW x, IsSeq(q)
    PROVE  PendingOf(r, Append(q, x)) = Append(PendingOf(r, q), x)
BY SingletonIsSeq, ConcatAppend DEF PendingOf

------------------------------------------------------------------------------
(* The inductive invariant *)

\* Answer a fits when p was parsed, d requests of it dispatched, s says whether
\* the session stopped and e is the parser's error.
FitsIn(a, p, d, s, e) ==
    /\ a.answer \in Nat \ {0}
    /\ a.answer <= d => a.code \in RouteCodes(p[a.answer].line)
    /\ ~(a.answer <= d) => s /\ a.code \in {413, StatusCodeFor(e)}

TaskFitsIn(t, p, d, s, e) ==
    /\ t.answer \in Nat \ {0}
    /\ t.answer <= d => t.code = Route(p[t.answer].line)
    /\ ~(t.answer <= d) => s /\ t.code \in {413, StatusCodeFor(e)}

Fits(a) == FitsIn(a, parsed, ses.dispatched, ses.stopped, ses.parser.error)
TaskFits(t) == TaskFitsIn(t, parsed, ses.dispatched, ses.stopped, ses.parser.error)

\* m final answers are out and the tasks q owe the next ones, up to the last
\* of d requests or to the error after it; the last answer of a session that
\* stopped will close the connection.
OwedIn(m, q, d, s) ==
    /\ \A k \in DOMAIN q : q[k].answer = m + k
    /\ \/ m + Len(q) = d
       \/ m + Len(q) = d + 1 /\ s
    /\ s => q # <<>> /\ q[Len(q)].close

Owed == OwedIn(Cardinality(FinalsOf(All)), Pending, ses.dispatched, ses.stopped)

ConnInv ==
    /\ IsSeq(wire) /\ IsSeq(queue) /\ conn \in {"Active", "Draining", "Closed"}
    /\ Numbered(All)
    /\ \A i \in DOMAIN All : All[i].close => i = Len(All) /\ conn # "Active"
    /\ conn = "Draining" => queue # <<>>
    /\ conn = "Closed" => queue = <<>>

\* The fields of the records, and what the receive callback is about.
ShapeInv ==
    /\ ses = [buffer |-> ses.buffer, parser |-> ses.parser, stopped |-> ses.stopped,
              timed_out |-> ses.timed_out, timer |-> ses.timer,
              dispatched |-> ses.dispatched]
    /\ executor = [state |-> executor.state, tasks |-> executor.tasks,
                   running |-> executor.running]
    /\ boot = [pending |-> boot.pending, selected |-> boot.selected]
    /\ ses.dispatched \in Nat /\ IsSeq(executor.tasks)
    /\ boot.selected \in {"none", "http1", "h2"}
    /\ in_loop => ~ses.stopped /\ boot.selected = "http1"
    /\ chunks # <<>> => boot.selected = "http1"
    /\ boot.selected # "http1" => ses.dispatched = 0
    /\ boot.selected # "h2" => IsSeq(parsed) /\ Len(parsed) = ses.dispatched

AInv ==
    /\ ShapeInv /\ ConnInv
    /\ \A k \in DOMAIN Pending : TaskFits(Pending[k])
    /\ \A i \in FinalsOf(All) : Fits(All[i])
    /\ conn = "Active" => Owed

------------------------------------------------------------------------------
(* Sending and closing *)

\* Final answers of the next state are old ones, or x.
OldOr(x) ==
    \A i \in FinalsOf(All') :
        \/ All'[i] = x
        \/ \E j \in FinalsOf(All) : All'[i] = All[j]

LEMMA CloseEffect ==
    ASSUME ConnInv, BeginClose, wire' = wire
    PROVE  ConnInv' /\ conn' = "Closed" /\ \A x : OldOr(x)
<1>1. /\ IsSeq(wire) /\ IsSeq(queue) /\ queue' = <<>> /\ conn' = "Closed"
      /\ Numbered(wire \o queue)
  BY DEF ConnInv, BeginClose, All
<1>2. wire \o <<>> = wire
  <2>1. PICK S : wire \in Seq(S)
    BY <1>1 DEF IsSeq
  <2> QED BY <2>1
<1>3. All' = wire
  BY <1>1, <1>2 DEF All
<1>4. Numbered(All')
  BY <1>1, <1>3, NumbersPrefix
<1>5. /\ Len(wire) \in Nat /\ Len(queue) \in Nat /\ DOMAIN wire = 1..Len(wire)
      /\ Len(All) = Len(wire) + Len(queue) /\ DOMAIN All = 1..Len(wire) + Len(queue)
      /\ \A i \in 1..Len(wire) : All[i] = wire[i]
  BY <1>1, SeqConcat DEF All
<1>6. \A i \in DOMAIN wire : i \in DOMAIN All /\ All[i] = wire[i]
  BY <1>5
<1>7. \A i \in DOMAIN wire : wire[i].close => i = Len(wire)
  <2> SUFFICES ASSUME NEW i \in DOMAIN wire, wire[i].close PROVE i = Len(wire)
    OBVIOUS
  <2>1. i = Len(All)
    BY <1>6 DEF ConnInv
  <2> DEFINE n == Len(wire)
             m == Len(queue)
  <2>2. n \in Nat /\ m \in Nat /\ i \in 1..n /\ i = n + m
    BY <1>5, <2>1
  <2> HIDE DEF n, m
  <2>3. i = n
    BY <2>2
  <2> QED BY <2>3 DEF n
<1>8. ConnInv'
  BY <1>1, <1>3, <1>4, <1>7, EmptyIsSeq DEF ConnInv
<1>9. FinalsOf(wire) \subseteq FinalsOf(All)
  BY <1>6 DEF FinalsOf
<1>10. \A x : OldOr(x)
  BY <1>3, <1>6, <1>9 DEF OldOr, FinalsOf
<1> QED BY <1>1, <1>8, <1>10

LEMMA SendEffect ==
    ASSUME ConnInv, NEW x, Send(x), wire' = wire,
           conn = "Active" /\ x.code # 100 => x.answer = Cardinality(FinalsOf(All)) + 1
    PROVE  /\ ConnInv' /\ OldOr(x)
           /\ conn' = "Active" =>
                  /\ conn = "Active" /\ ~x.close
                  /\ Cardinality(FinalsOf(All')) =
                         Cardinality(FinalsOf(All)) + (IF x.code # 100 THEN 1 ELSE 0)
<1>1. CASE conn # "Active" /\ UNCHANGED <<conn, queue>>
  <2>1. All' = All
    BY <1>1 DEF All
  <2> QED BY <1>1, <2>1 DEF ConnInv, OldOr
<1>2. CASE BeginClose
  BY <1>2, CloseEffect
<1>3. CASE /\ conn = "Active" /\ queue' = Append(queue, x)
           /\ conn' = IF x.close THEN "Draining" ELSE conn
  <2>1. IsSeq(wire) /\ IsSeq(queue) /\ Numbered(All) /\ IsSeq(All)
    BY SeqConcat DEF ConnInv, All
  <2>2. All' = Append(All, x)
    BY <1>3, <2>1, ConcatAppend DEF All
  <2>3. /\ Numbered(Append(All, x))
        /\ FinalsOf(Append(All, x)) =
               FinalsOf(All) \cup (IF x.code # 100 THEN {Len(All) + 1} ELSE {})
        /\ Cardinality(FinalsOf(Append(All, x))) =
               Cardinality(FinalsOf(All)) + (IF x.code # 100 THEN 1 ELSE 0)
    BY <1>3, <2>1, NumbersAppend
  <2>4. /\ IsSeq(queue') /\ queue' # <<>>
    <3>1. IsSeq(queue') /\ Len(queue') = Len(queue) + 1 /\ Len(queue) \in Nat
      BY <1>3, <2>1, SeqAppend
    <3> QED BY <3>1, EmptyIsSeq
  <2>5. /\ Len(All) \in Nat /\ Len(All') = Len(All) + 1 /\ DOMAIN All = 1..Len(All)
        /\ DOMAIN All' = 1..Len(All) + 1 /\ All'[Len(All) + 1] = x
        /\ \A i \in 1..Len(All) : All'[i] = All[i]
    BY <2>1, <2>2, SeqAppend
  <2>6. \A i \in DOMAIN All' : i \in DOMAIN All \/ i = Len(All) + 1
    BY <2>5
  <2>7. \A i \in DOMAIN All : ~All[i].close
    BY <1>3 DEF ConnInv
  <2>8. \A i \in DOMAIN All' : All'[i].close => i = Len(All') /\ conn' # "Active"
    BY <1>3, <2>5, <2>6, <2>7
  <2>9. conn' \in {"Active", "Draining"}
    BY <1>3
  <2>10. ConnInv'
    BY <2>1, <2>2, <2>3, <2>4, <2>8, <2>9, wire' = wire DEF ConnInv
  <2>11. OldOr(x)
    <3> SUFFICES ASSUME NEW i \in FinalsOf(All'), All'[i] # x
                 PROVE  \E j \in FinalsOf(All) : All'[i] = All[j]
      BY DEF OldOr
    <3>1. i \in DOMAIN All /\ All'[i] = All[i] /\ i \in DOMAIN All'
      BY <2>5, <2>6 DEF FinalsOf
    <3>2. i \in FinalsOf(All)
      BY <3>1 DEF FinalsOf
    <3> QED BY <3>1, <3>2
  <2>12. conn' = "Active" => ~x.close
    BY <1>3
  <2> QED BY <1>3, <2>2, <2>3, <2>10, <2>11, <2>12
<1> QED BY <1>1, <1>2, <1>3 DEF Send

LEMMA SendCompletesEffect ==
    ASSUME ConnInv, SendCompletes
    PROVE  ConnInv' /\ All' = All /\ (conn' = "Active" => conn = "Active")
<1>1. /\ IsSeq(wire) /\ IsSeq(queue) /\ queue # <<>>
      /\ wire' = Append(wire, Head(queue)) /\ queue' = Tail(queue)
      /\ conn' = IF conn = "Draining" /\ Len(queue) = 1 THEN "Closed" ELSE conn
      /\ conn \in {"Active", "Draining"}
  BY DEF ConnInv, SendCompletes
<1>2. All' = All
  BY <1>1, ConcatShift DEF All
<1>3. /\ IsSeq(wire') /\ IsSeq(queue') /\ Len(queue') = Len(queue) - 1
      /\ Len(queue) \in Nat \ {0}
  BY <1>1, SeqAppend, SeqTail
<1>4. conn' = "Draining" => queue' # <<>>
  <2>1. conn' = "Draining" => Len(queue') # 0
    BY <1>1, <1>3
  <2> QED BY <2>1, EmptyIsSeq
<1>5. conn' = "Closed" => queue' = <<>>
  <2>1. conn' = "Closed" => Len(queue') = 0
    BY <1>1, <1>3
  <2>2. PICK S : queue' \in Seq(S)
    BY <1>3 DEF IsSeq
  <2> QED BY <2>1, <2>2
<1>6. /\ conn' \in {"Active", "Draining", "Closed"}
      /\ conn' = "Active" <=> conn = "Active"
  BY <1>1
<1> QED BY <1>2, <1>3, <1>4, <1>5, <1>6 DEF ConnInv

------------------------------------------------------------------------------
(* Answers and tasks keep fitting *)

\* Requests are only added, and after the session stopped nothing is.
StaysIn(p, d, s, e, p2, d2, s2, e2) ==
    /\ d \in Nat /\ d2 \in Nat /\ d <= d2 /\ \A n \in 1..d : p2[n] = p[n]
    /\ \/ ~s
       \/ d2 = d /\ s2 /\ e2 = e

Stays ==
    StaysIn(parsed, ses.dispatched, ses.stopped, ses.parser.error,
            parsed', ses'.dispatched, ses'.stopped, ses'.parser.error)

LEMMA FitsStays ==
    ASSUME NEW a, NEW p, NEW d, NEW s, NEW e, NEW p2, NEW d2, NEW s2, NEW e2,
           StaysIn(p, d, s, e, p2, d2, s2, e2)
    PROVE  /\ FitsIn(a, p, d, s, e) => FitsIn(a, p2, d2, s2, e2)
           /\ TaskFitsIn(a, p, d, s, e) => TaskFitsIn(a, p2, d2, s2, e2)
<1> DEFINE n == a.answer
<1>1. CASE n \in Nat \ {0} /\ n <= d
  <2>1. n <= d2 /\ p2[n] = p[n]
    BY <1>1 DEF StaysIn
  <2> QED BY <1>1, <2>1 DEF FitsIn, TaskFitsIn
<1>2. CASE n \in Nat \ {0} /\ ~(n <= d) /\ s
  <2>1. d2 = d /\ s2 /\ e2 = e
    BY <1>2 DEF StaysIn
  <2> QED BY <1>2, <2>1 DEF FitsIn, TaskFitsIn
<1>3. CASE \/ n \notin Nat \ {0}
           \/ ~(n <= d) /\ ~s
  BY <1>3 DEF FitsIn, TaskFitsIn
<1> QED BY <1>1, <1>2, <1>3

LEMMA FitsCarry ==
    ASSUME AInv, Stays, NEW x, OldOr(x),
           x.code # 100 => FitsIn(x, parsed', ses'.dispatched, ses'.stopped,
                                  ses'.parser.error)
    PROVE  \A i \in FinalsOf(All') : Fits(All[i])'
<1> SUFFICES ASSUME NEW i \in FinalsOf(All') PROVE Fits(All[i])'
  OBVIOUS
<1>0. PICK a : a = All'[i]
  OBVIOUS
<1>1. a.code # 100
  BY <1>0 DEF FinalsOf
<1>2. CASE a = x
  BY <1>0, <1>1, <1>2 DEF Fits
<1>3. CASE \E j \in FinalsOf(All) : a = All[j]
  <2>1. FitsIn(a, parsed, ses.dispatched, ses.stopped, ses.parser.error)
    BY <1>3 DEF AInv, Fits
  <2>2. FitsIn(a, parsed', ses'.dispatched, ses'.stopped, ses'.parser.error)
    BY <2>1, FitsStays DEF Stays
  <2> QED BY <1>0, <2>2 DEF Fits
<1> QED BY <1>0, <1>2, <1>3 DEF OldOr

\* Tasks of the next state are old ones, or x.
TasksOldOr(x) ==
    \A k \in DOMAIN Pending' :
        \/ Pending'[k] = x
        \/ \E j \in DOMAIN Pending : Pending'[k] = Pending[j]

LEMMA TasksCarry ==
    ASSUME AInv, Stays, NEW x, TasksOldOr(x),
           TaskFitsIn(x, parsed', ses'.dispatched, ses'.stopped, ses'.parser.error)
    PROVE  \A k \in DOMAIN Pending' : TaskFits(Pending[k])'
<1> SUFFICES ASSUME NEW k \in DOMAIN Pending' PROVE TaskFits(Pending[k])'
  OBVIOUS
<1>0. PICK a : a = Pending'[k]
  OBVIOUS
<1>1. CASE a = x
  BY <1>0, <1>1 DEF TaskFits
<1>2. CASE \E j \in DOMAIN Pending : a = Pending[j]
  <2>1. TaskFitsIn(a, parsed, ses.dispatched, ses.stopped, ses.parser.error)
    BY <1>2 DEF AInv, TaskFits
  <2>2. TaskFitsIn(a, parsed', ses'.dispatched, ses'.stopped, ses'.parser.error)
    BY <2>1, FitsStays DEF Stays
  <2> QED BY <1>0, <2>2 DEF TaskFits
<1> QED BY <1>0, <1>1, <1>2 DEF TasksOldOr

\* Without new tasks.
LEMMA OldTasksCarry ==
    ASSUME AInv, Stays, \A k \in DOMAIN Pending' : \E j \in DOMAIN Pending : Pending'[k] = Pending[j]
    PROVE  \A k \in DOMAIN Pending' : TaskFits(Pending[k])'
<1> SUFFICES ASSUME NEW k \in DOMAIN Pending' PROVE TaskFits(Pending[k])'
  OBVIOUS
<1>0. PICK j \in DOMAIN Pending : Pending'[k] = Pending[j]
  OBVIOUS
<1>1. PICK a : a = Pending[j] /\ a = Pending'[k]
  BY <1>0
<1>2. TaskFitsIn(a, parsed, ses.dispatched, ses.stopped, ses.parser.error)
  BY <1>1 DEF AInv, TaskFits
<1>3. TaskFitsIn(a, parsed', ses'.dispatched, ses'.stopped, ses'.parser.error)
  BY <1>2, FitsStays DEF Stays
<1> QED BY <1>1, <1>3 DEF TaskFits

\* The answer of a task that returns fits; it is final.
LEMMA TaskAnswerFits ==
    ASSUME NEW t, NEW p, NEW d, NEW s, NEW e, TaskFitsIn(t, p, d, s, e),
           NEW code, t.code # 0 => code = t.code,
           t.code = 0 => code \in {200, 500}, NEW close
    PROVE  /\ FitsIn(Answer(t.answer, code, close), p, d, s, e) /\ code # 100
           /\ Answer(t.answer, code, close).code = code
           /\ Answer(t.answer, code, close).answer = t.answer
           /\ Answer(t.answer, code, close).close = close
<1> DEFINE a == Answer(t.answer, code, close)
<1>1. a.answer = t.answer /\ a.code = code /\ a.close = close
  BY DEF Answer
<1> HIDE DEF a
<1>2. t.answer \in Nat \ {0}
  BY DEF TaskFitsIn
<1>3. StatusCodeFor(e) \in {400, 413, 414, 431}
  BY DEF StatusCodeFor
<1>4. CASE t.answer <= d
  <2> DEFINE line == p[t.answer].line
  <2>1. t.code = Route(line)
    BY <1>4 DEF TaskFitsIn
  <2> HIDE DEF line
  <2>2. code \in RouteCodes(line) /\ code # 100
    <3>1. Route(line) \in {0, 404, 405}
      BY DEF Route
    <3> QED BY <2>1, <3>1 DEF RouteCodes
  <2> QED BY <1>1, <1>2, <1>4, <2>2 DEF FitsIn, a, line
<1>5. CASE ~(t.answer <= d)
  <2>1. s /\ t.code \in {413, StatusCodeFor(e)}
    BY <1>5 DEF TaskFitsIn
  <2>2. t.code # 0 /\ t.code # 100 /\ code = t.code
    BY <1>3, <2>1
  <2> QED BY <1>1, <1>2, <1>5, <2>1, <2>2 DEF FitsIn, a
<1> QED BY <1>4, <1>5

------------------------------------------------------------------------------
(* What is owed *)

LEMMA OwedPosts ==
    ASSUME NEW m \in Nat, NEW q, IsSeq(q), NEW d \in Nat, NEW s, OwedIn(m, q, d, s), ~s,
           NEW x, x.answer = d + 1, NEW d2, NEW s2,
           (d2 = d /\ s2) \/ d2 = d + 1, s2 => x.close
    PROVE  OwedIn(m, Append(q, x), d2, s2)
<1> DEFINE b == Append(q, x)
           n == Len(q)
<1>1. /\ n \in Nat /\ Len(b) = n + 1 /\ DOMAIN b = 1..(n + 1) /\ DOMAIN q = 1..n
      /\ \A i \in 1..n : b[i] = q[i]
      /\ b[n + 1] = x /\ b # <<>>
  BY SeqAppend, EmptyIsSeq
<1>2. m + n = d /\ \A k \in 1..n : q[k].answer = m + k
  BY <1>1 DEF OwedIn
<1> HIDE DEF b, n
<1>3. \A k \in 1..(n + 1) : k \in 1..n \/ k = n + 1
  BY <1>1
<1>4. \A k \in 1..(n + 1) : b[k].answer = m + k
  BY <1>1, <1>2, <1>3
<1>5. m + Len(b) = d + 1
  BY <1>1, <1>2
<1>6. \/ m + Len(b) = d2
      \/ m + Len(b) = d2 + 1 /\ s2
  BY <1>5
<1>7. s2 => b # <<>> /\ b[Len(b)].close
  BY <1>1
<1>8. OwedIn(m, b, d2, s2)
  BY <1>1, <1>4, <1>6, <1>7 DEF OwedIn
<1> QED BY <1>8 DEF b

LEMMA OwedReturns ==
    ASSUME NEW m \in Nat, NEW q, IsSeq(q), q # <<>>, NEW d \in Nat, NEW s,
           OwedIn(m, q, d, s), ~q[1].close
    PROVE  OwedIn(m + 1, Tail(q), d, s)
<1> DEFINE b == Tail(q)
           n == Len(q)
<1>1. /\ n \in Nat \ {0} /\ Len(b) = n - 1 /\ DOMAIN b = 1..(n - 1) /\ DOMAIN q = 1..n
      /\ \A i \in 1..(n - 1) : b[i] = q[i + 1]
      /\ IsSeq(b)
  BY SeqTail
<1>2. /\ \A k \in 1..n : q[k].answer = m + k
      /\ \/ m + n = d
         \/ m + n = d + 1 /\ s
      /\ s => q[n].close
  BY <1>1 DEF OwedIn
<1> HIDE DEF b, n
<1>3. \A k \in 1..(n - 1) : b[k].answer = (m + 1) + k
  BY <1>1, <1>2
<1>4. (m + 1) + Len(b) = m + n
  BY <1>1
<1>5. ASSUME s PROVE b # <<>> /\ b[Len(b)].close
  <2>1. n # 1
    BY <1>2, <1>5
  <2>2. Len(b) \in 1..(n - 1) /\ Len(b) + 1 = n
    BY <1>1, <2>1
  <2>3. b[Len(b)] = q[n]
    BY <1>1, <2>2
  <2>4. b # <<>>
    BY <1>1, <2>2, EmptyIsSeq
  <2> QED BY <1>2, <1>5, <2>3, <2>4
<1>6. OwedIn(m + 1, b, d, s)
  BY <1>1, <1>2, <1>3, <1>4, <1>5 DEF OwedIn
<1> QED BY <1>6 DEF b

------------------------------------------------------------------------------
(* Steps beside the receive callback *)

LEMMA InitAInv == Init => AInv
<1> SUFFICES ASSUME Init PROVE AInv
  OBVIOUS
<1>1. /\ wire = <<>> /\ queue = <<>> /\ parsed = <<>> /\ conn = "Active" /\ chunks = <<>>
      /\ ~in_loop /\ boot = [pending |-> <<>>, selected |-> "none"]
      /\ executor = [state |-> "Running", tasks |-> <<>>, running |-> NoTask]
      /\ ses = [buffer |-> <<>>, parser |-> Fresh, stopped |-> FALSE,
                timed_out |-> FALSE, timer |-> "idle", dispatched |-> 0]
  BY DEF Init
<1>2. ShapeInv
  BY <1>1, EmptyIsSeq DEF ShapeInv
<1>3. All = <<>> /\ Pending = <<>>
  BY <1>1 DEF All, Pending, PendingOf
<1>4. FinalsOf(All) = {}
  BY <1>3, EmptyIsSeq DEF FinalsOf
<1>5. ConnInv
  BY <1>1, <1>3, <1>4, EmptyIsSeq DEF ConnInv, Numbered
<1>6. Cardinality(FinalsOf(All)) = 0
  BY <1>4, FS_EmptySet
<1>7. Owed
  BY <1>1, <1>3, <1>6, EmptyIsSeq DEF Owed, OwedIn
<1> QED BY <1>2, <1>3, <1>4, <1>5, <1>7, EmptyIsSeq DEF AInv

\* A step that leaves what was parsed and dispatched alone.
LEMMA SameStays ==
    ASSUME AInv, parsed' = parsed, ses'.dispatched = ses.dispatched,
           ses.stopped => ses'.stopped, ses'.parser = ses.parser
    PROVE  Stays
BY DEF AInv, ShapeInv, Stays, StaysIn

LEMMA SameTasks ==
    ASSUME Pending' = Pending
    PROVE  \A k \in DOMAIN Pending' : \E j \in DOMAIN Pending : Pending'[k] = Pending[j]
OBVIOUS

LEMMA SameAll ==
    ASSUME All' = All
    PROVE  \A x : OldOr(x)
BY DEF OldOr

LEMMA SendCompletesKeeps == ASSUME AInv, SendCompletes PROVE AInv'
<1>1. /\ UNCHANGED <<boot, chunks, in_loop, ses, executor, parsed>>
  BY DEF SendCompletes
<1>2. ConnInv' /\ All' = All /\ (conn' = "Active" => conn = "Active")
  BY SendCompletesEffect DEF AInv
<1>3. ShapeInv' /\ Pending' = Pending
  BY <1>1 DEF AInv, ShapeInv, Pending
<1> QED BY <1>1, <1>2, <1>3 DEF AInv, Fits, TaskFits, Owed

LEMMA PeerClosesKeeps == ASSUME AInv, PeerCloses PROVE AInv'
<1>1. /\ UNCHANGED <<boot, chunks, in_loop, ses, executor, parsed, wire>> /\ BeginClose
  BY DEF PeerCloses
<1>2. ConnInv' /\ conn' = "Closed" /\ OldOr(NoTask) /\ OldOr(Answer(0, 100, FALSE))
  BY <1>1, CloseEffect DEF AInv
<1>3. ShapeInv' /\ Pending' = Pending /\ Stays
  BY <1>1, SameStays DEF AInv, ShapeInv, Pending
<1>4. \A i \in FinalsOf(All') : Fits(All[i])'
  <2>1. Answer(0, 100, FALSE).code = 100
    BY DEF Answer
  <2> QED BY <1>2, <1>3, <2>1, FitsCarry
<1> QED BY <1>1, <1>2, <1>3, <1>4 DEF AInv, TaskFits

LEMMA ExecutorStateKeeps == ASSUME AInv, StopExecutor \/ PoolChanges PROVE AInv'
<1>1. PICK state :
          /\ UNCHANGED <<boot, chunks, in_loop, ses, conn, queue, wire, parsed>>
          /\ executor' = [executor EXCEPT !.state = state]
  BY DEF StopExecutor, PoolChanges
<1>2. /\ executor'.tasks = executor.tasks /\ executor'.running = executor.running
      /\ executor' = [state |-> executor'.state, tasks |-> executor'.tasks,
                      running |-> executor'.running]
  BY <1>1 DEF AInv, ShapeInv
<1>3. ShapeInv' /\ Pending' = Pending
  BY <1>1, <1>2 DEF AInv, ShapeInv, Pending
<1>4. ConnInv' /\ All' = All
  BY <1>1 DEF AInv, ConnInv, All
<1> QED BY <1>1, <1>3, <1>4 DEF AInv, Fits, TaskFits, Owed

LEMMA TimerFiresKeeps == ASSUME AInv, TimerFires PROVE AInv'
<1>1. /\ UNCHANGED <<boot, chunks, in_loop, executor, conn, queue, wire, parsed>>
      /\ ses' = [ses EXCEPT !.timed_out = TRUE, !.timer = "idle"]
  BY DEF TimerFires
<1>2. /\ ses'.parser = ses.parser /\ ses'.stopped = ses.stopped
      /\ ses'.dispatched = ses.dispatched
      /\ ses' = [buffer |-> ses'.buffer, parser |-> ses'.parser,
                 stopped |-> ses'.stopped, timed_out |-> ses'.timed_out,
                 timer |-> ses'.timer, dispatched |-> ses'.dispatched]
  BY <1>1 DEF AInv, ShapeInv
<1>3. ShapeInv' /\ Pending' = Pending
  BY <1>1, <1>2 DEF AInv, ShapeInv, Pending
<1>4. ConnInv' /\ All' = All
  BY <1>1 DEF AInv, ConnInv, All
<1> QED BY <1>1, <1>2, <1>3, <1>4 DEF AInv, Fits, TaskFits, Owed

LEMMA TaskBeginsKeeps == ASSUME AInv, TaskBegins PROVE AInv'
<1> DEFINE q == executor.tasks
<1>1. /\ UNCHANGED <<boot, chunks, in_loop, ses, conn, queue, wire, parsed>>
      /\ executor.running = NoTask /\ q # <<>> /\ IsSeq(q)
      /\ executor' = [executor EXCEPT !.running = Head(q), !.tasks = Tail(q)]
  BY DEF TaskBegins, AInv, ShapeInv
<1>2. /\ executor'.tasks = Tail(q) /\ executor'.running = Head(q)
      /\ executor' = [state |-> executor'.state, tasks |-> executor'.tasks,
                      running |-> executor'.running]
  BY <1>1 DEF AInv, ShapeInv
<1>3. Pending = q
  BY <1>1 DEF Pending, PendingOf
<1>4. Head(q) = q[1] /\ 1 \in DOMAIN q /\ IsSeq(Tail(q))
  BY <1>1, SeqTail
<1>5. Head(q) # NoTask
  <2>1. TaskFits(Pending[1])
    BY <1>3, <1>4 DEF AInv
  <2>2. Pending[1].answer # 0
    BY <2>1 DEF TaskFits, TaskFitsIn
  <2> QED BY <1>3, <1>4, <2>2 DEF NoTask
<1>6. Pending' = Pending
  BY <1>1, <1>2, <1>5, PendingBegins DEF Pending
<1>7. ShapeInv'
  BY <1>1, <1>2, <1>4 DEF AInv, ShapeInv
<1>8. ConnInv' /\ All' = All
  BY <1>1 DEF AInv, ConnInv, All
<1> QED BY <1>1, <1>6, <1>7, <1>8 DEF AInv, Fits, TaskFits, Owed

LEMMA TaskReturnsKeeps ==
    ASSUME AInv, NEW outcome, TaskReturns(outcome)
    PROVE  AInv'
<1> DEFINE task == executor.running
           q == Pending
           m == Cardinality(FinalsOf(All))
<1>1. PICK code : code = IF task.code # 0 THEN task.code
                         ELSE IF outcome = "throws" THEN 500 ELSE 200
  OBVIOUS
<1>2. PICK x : x = Answer(task.answer, code,
                          task.close \/ outcome \in {"closes", "throws"})
  OBVIOUS
<1>3. /\ task # NoTask /\ IsSeq(executor.tasks)
      /\ \/ outcome = "unencodable" /\ BeginClose
         \/ Send(x)
      /\ executor' = [executor EXCEPT !.running = NoTask]
      /\ UNCHANGED <<boot, chunks, in_loop, ses, wire, parsed>>
  BY <1>1, <1>2 DEF TaskReturns, AInv, ShapeInv
<1>4. /\ executor'.tasks = executor.tasks /\ executor'.running = NoTask
      /\ executor' = [state |-> executor'.state, tasks |-> executor'.tasks,
                      running |-> executor'.running]
  BY <1>3 DEF AInv, ShapeInv
<1>5. ShapeInv'
  BY <1>3, <1>4 DEF AInv, ShapeInv
<1>6. IsSeq(q) /\ q # <<>> /\ q[1] = task /\ Tail(q) = executor.tasks
  BY <1>3, PendingIsSeq DEF Pending
<1>7. Pending' = Tail(q)
  BY <1>4, <1>6 DEF Pending, PendingOf
<1>8. /\ Len(q) \in Nat \ {0} /\ DOMAIN q = 1..Len(q) /\ DOMAIN Tail(q) = 1..(Len(q) - 1)
      /\ \A i \in 1..(Len(q) - 1) : Tail(q)[i] = q[i + 1]
  BY <1>6, SeqTail
<1>9. Stays
  BY <1>3, SameStays
<1>10. \A k \in DOMAIN Pending' : TaskFits(Pending[k])'
  <2>1. \A k \in 1..(Len(q) - 1) : k + 1 \in 1..Len(q)
    BY <1>8
  <2>2. \A k \in DOMAIN Pending' : \E j \in DOMAIN Pending : Pending'[k] = Pending[j]
    BY <1>7, <1>8, <2>1
  <2> QED BY <1>9, <2>2, OldTasksCarry
<1>11. TaskFits(task)
  <2>1. 1 \in DOMAIN q
    BY <1>8
  <2> QED BY <1>6, <2>1 DEF AInv
<1>12. /\ Fits(x) /\ x.code # 100 /\ x.answer = task.answer
       /\ ~x.close => ~task.close
  <2>1. task.code # 0 => code = task.code
    BY <1>1
  <2>2. task.code = 0 => code \in {200, 500}
    BY <1>1
  <2>3. PICK t, close : t = task /\ close = (task.close \/ outcome \in {"closes", "throws"})
    OBVIOUS
  <2>4. TaskFitsIn(t, parsed, ses.dispatched, ses.stopped, ses.parser.error)
    BY <1>11, <2>3 DEF TaskFits
  <2>5. (t.code # 0 => code = t.code) /\ (t.code = 0 => code \in {200, 500})
    BY <2>1, <2>2, <2>3
  <2>6. /\ FitsIn(Answer(t.answer, code, close),
                  parsed, ses.dispatched, ses.stopped, ses.parser.error)
        /\ code # 100 /\ Answer(t.answer, code, close).code = code
        /\ Answer(t.answer, code, close).answer = t.answer
        /\ Answer(t.answer, code, close).close = close
    BY <2>4, <2>5, TaskAnswerFits
  <2>7. x = Answer(t.answer, code, close)
    BY <1>2, <2>3
  <2> QED BY <2>3, <2>6, <2>7 DEF Fits
<1>13. FitsIn(x, parsed', ses'.dispatched, ses'.stopped, ses'.parser.error)
  BY <1>3, <1>12 DEF Fits
<1>14. conn = "Active" => OwedIn(m, q, ses.dispatched, ses.stopped)
  BY DEF AInv, Owed
<1>15. m \in Nat /\ ses.dispatched \in Nat
  <2>1. IsSeq(All)
    BY SeqConcat DEF AInv, ConnInv, All
  <2> QED BY <2>1, FinalsAreFinite DEF AInv, ShapeInv
<1>16. CASE outcome = "unencodable" /\ BeginClose
  <2>1. ConnInv' /\ conn' = "Closed" /\ OldOr(x)
    BY <1>3, <1>16, CloseEffect DEF AInv
  <2>2. \A i \in FinalsOf(All') : Fits(All[i])'
    BY <1>9, <1>13, <2>1, FitsCarry
  <2> QED BY <1>5, <1>10, <2>1, <2>2 DEF AInv
<1>17. CASE Send(x)
  <2>1. conn = "Active" => x.answer = m + 1
    <3>1. 1 \in DOMAIN q
      BY <1>8
    <3> QED BY <1>6, <1>12, <1>14, <3>1 DEF OwedIn
  <2>2. /\ ConnInv' /\ OldOr(x)
        /\ conn' = "Active" =>
               /\ conn = "Active" /\ ~x.close
               /\ Cardinality(FinalsOf(All')) = m + (IF x.code # 100 THEN 1 ELSE 0)
    BY <1>3, <1>17, <2>1, SendEffect DEF AInv
  <2>3. \A i \in FinalsOf(All') : Fits(All[i])'
    BY <1>9, <1>13, <2>2, FitsCarry
  <2>4. ASSUME conn' = "Active" PROVE Owed'
    <3>1. conn = "Active" /\ ~task.close /\ Cardinality(FinalsOf(All')) = m + 1
      BY <1>12, <2>2, <2>4
    <3> HIDE DEF m, q
    <3>2. OwedIn(m + 1, Tail(q), ses.dispatched, ses.stopped)
      BY <1>6, <1>14, <1>15, <3>1, OwedReturns
    <3> QED BY <1>3, <1>7, <3>1, <3>2 DEF Owed
  <2> QED BY <1>5, <1>10, <2>2, <2>3, <2>4 DEF AInv
<1> QED BY <1>3, <1>16, <1>17

------------------------------------------------------------------------------
(* The receive callback *)

LEMMA PostedShape ==
    ASSUME ShapeInv, NEW x, executor' = Posted(x)
    PROVE  /\ executor' = [state |-> executor'.state, tasks |-> executor'.tasks,
                           running |-> executor'.running]
           /\ IsSeq(executor'.tasks)
           /\ PostStatus = "Ready" => Pending' = Append(Pending, x)
           /\ PostStatus # "Ready" => Pending' = Pending
<1>1. IsSeq(executor.tasks)
  BY DEF ShapeInv
<1>2. CASE PostStatus = "Ready"
  <2>1. /\ executor'.tasks = Append(executor.tasks, x) /\ executor'.running = executor.running
        /\ executor' = [state |-> executor'.state, tasks |-> executor'.tasks,
                        running |-> executor'.running]
    BY <1>2 DEF Posted, ShapeInv
  <2>2. IsSeq(executor'.tasks)
    BY <1>1, <2>1, SeqAppend
  <2>3. Pending' = Append(Pending, x)
    BY <1>1, <2>1, PendingPosts DEF Pending
  <2> QED BY <1>2, <2>1, <2>2, <2>3
<1>3. CASE PostStatus # "Ready"
  BY <1>1, <1>3 DEF Posted, ShapeInv, Pending
<1> QED BY <1>2, <1>3

\* A task for the next answer is posted; a refusal closes the connection.
LEMMA PostKeeps ==
    ASSUME AInv, NEW x, executor' = Posted(x), ~ses.stopped, Stays, wire' = wire,
           ShapeInv', x.answer = ses.dispatched + 1,
           (ses'.dispatched = ses.dispatched /\ ses'.stopped)
               \/ ses'.dispatched = ses.dispatched + 1,
           ses'.stopped /\ PostStatus = "Ready" => x.close,
           TaskFitsIn(x, parsed', ses'.dispatched, ses'.stopped, ses'.parser.error),
           (UNCHANGED <<conn, queue>> /\ PostStatus = "Ready") \/ BeginClose
    PROVE  AInv'
<1> DEFINE q == Pending
           m == Cardinality(FinalsOf(All))
           none == Answer(0, 100, FALSE)
<1>1. IsSeq(q) /\ IsSeq(All)
  BY PendingIsSeq, SeqConcat DEF AInv, ShapeInv, ConnInv, Pending, All
<1>2. m \in Nat /\ ses.dispatched \in Nat
  BY <1>1, FinalsAreFinite DEF AInv, ShapeInv
<1>3. Pending' = (IF PostStatus = "Ready" THEN Append(q, x) ELSE q)
  BY PostedShape DEF AInv
<1>4. TasksOldOr(x)
  <2>1. /\ DOMAIN Append(q, x) = 1..Len(q) + 1 /\ Len(q) \in Nat /\ DOMAIN q = 1..Len(q)
        /\ \A i \in 1..Len(q) : Append(q, x)[i] = q[i]
        /\ Append(q, x)[Len(q) + 1] = x
    BY <1>1, SeqAppend
  <2>2. \A k \in 1..Len(q) + 1 : k \in 1..Len(q) \/ k = Len(q) + 1
    BY <2>1
  <2>3. \A k \in DOMAIN Append(q, x) : Append(q, x)[k] = x \/ \E j \in DOMAIN q : Append(q, x)[k] = q[j]
    BY <2>1, <2>2
  <2> QED BY <1>3, <2>3 DEF TasksOldOr
<1>5. \A k \in DOMAIN Pending' : TaskFits(Pending[k])'
  BY <1>4, TasksCarry
<1>6. none.code = 100
  BY DEF Answer
<1>7. CASE UNCHANGED <<conn, queue>> /\ PostStatus = "Ready"
  <2>1. ConnInv' /\ All' = All /\ OldOr(none)
    BY <1>7, SameAll DEF AInv, ConnInv, All
  <2>2. \A i \in FinalsOf(All') : Fits(All[i])'
    BY <1>6, <2>1, FitsCarry
  <2>3. ASSUME conn' = "Active" PROVE Owed'
    <3>1. OwedIn(m, q, ses.dispatched, ses.stopped)
      BY <1>7, <2>3 DEF AInv, Owed
    <3> HIDE DEF m, q
    <3>2. PICK d, s, d2, s2 : /\ d = ses.dispatched /\ s = ses.stopped
                              /\ d2 = ses'.dispatched /\ s2 = ses'.stopped
      OBVIOUS
    <3>3. /\ d \in Nat /\ OwedIn(m, q, d, s) /\ ~s /\ x.answer = d + 1
          /\ (d2 = d /\ s2) \/ d2 = d + 1
          /\ s2 => x.close
      BY <1>2, <1>7, <3>1, <3>2
    <3>4. OwedIn(m, Append(q, x), d2, s2)
      BY <1>1, <1>2, <3>3, OwedPosts
    <3> QED BY <1>3, <1>7, <2>1, <3>2, <3>4 DEF Owed, m, q
  <2> QED BY <1>5, <2>1, <2>2, <2>3 DEF AInv
<1>8. CASE BeginClose
  <2>1. ConnInv' /\ conn' = "Closed" /\ OldOr(none)
    BY <1>8, CloseEffect DEF AInv
  <2>2. \A i \in FinalsOf(All') : Fits(All[i])'
    BY <1>6, <2>1, FitsCarry
  <2> QED BY <1>5, <2>1, <2>2 DEF AInv
<1> QED BY <1>7, <1>8

\* Steps that post nothing.
LEMMA QuietKeeps ==
    ASSUME AInv, Stays, ShapeInv', UNCHANGED <<executor, wire>>,
           \/ UNCHANGED <<conn, queue>> /\ ses'.stopped = ses.stopped
                  /\ ses'.dispatched = ses.dispatched
           \/ BeginClose
    PROVE  AInv'
<1> DEFINE none == Answer(0, 100, FALSE)
<1>1. none.code = 100 /\ Pending' = Pending
  BY DEF Answer, Pending
<1>2. \A k \in DOMAIN Pending' : TaskFits(Pending[k])'
  BY <1>1, SameTasks, OldTasksCarry
<1>3. CASE UNCHANGED <<conn, queue>> /\ ses'.stopped = ses.stopped
             /\ ses'.dispatched = ses.dispatched
  <2>1. ConnInv' /\ All' = All /\ OldOr(none)
    BY <1>3, SameAll DEF AInv, ConnInv, All
  <2>2. \A i \in FinalsOf(All') : Fits(All[i])'
    BY <1>1, <2>1, FitsCarry
  <2> QED BY <1>1, <1>2, <1>3, <2>1, <2>2 DEF AInv, Owed
<1>4. CASE BeginClose
  <2>1. ConnInv' /\ conn' = "Closed" /\ OldOr(none)
    BY <1>4, CloseEffect DEF AInv
  <2>2. \A i \in FinalsOf(All') : Fits(All[i])'
    BY <1>1, <2>1, FitsCarry
  <2> QED BY <1>2, <2>1, <2>2 DEF AInv
<1> QED BY <1>3, <1>4

\* Feed is entered or fed on only for HTTP/1.1.
LEMMA SelectedShape ==
    ASSUME ShapeInv, NEW bytes
    PROVE  LET s == Selected(bytes)
           IN  /\ s.boot = [pending |-> s.boot.pending, selected |-> s.boot.selected]
               /\ s.boot.selected \in {"none", "http1", "h2"}
               /\ s.chunks # <<>> => s.boot.selected \in {"http1", "h2"}
               /\ boot.selected # "none" => s.boot.selected = boot.selected
<1> DEFINE all   == boot.pending \o bytes
           same  == Max({n \in 0..Min({Len(all), Len(Preface)}) :
                            SubSeq(all, 1, n) = SubSeq(Preface, 1, n)})
           first == Min({same + 1, Len(Preface)})
           rest  == SubSeq(all, first + 1, Len(all))
           one   == SubSeq(all, 1, first)
           two   == IF rest = <<>> THEN <<>> ELSE <<rest>>
           wait  == Len(all) = same /\ same < Len(Preface)
<1> HIDE DEF all, same, first, rest, one, two, wait
<1>1. Selected(bytes) =
          CASE boot.selected # "none" -> [boot |-> boot, chunks |-> <<bytes>>]
            [] boot.selected = "none" /\ wait ->
                  [boot |-> [boot EXCEPT !.pending = all], chunks |-> <<>>]
            [] OTHER ->
                  [boot |-> [pending |-> <<>>,
                             selected |-> IF same = Len(Preface) THEN "h2" ELSE "http1"],
                   chunks |-> <<one>> \o two]
  BY DEF Selected, all, same, first, rest, one, two, wait
<1>2. CASE boot.selected # "none"
  BY <1>1, <1>2 DEF ShapeInv
<1>3. CASE boot.selected = "none" /\ wait
  BY <1>1, <1>3 DEF ShapeInv
<1>4. CASE boot.selected = "none" /\ ~wait
  BY <1>1, <1>4 DEF ShapeInv
<1> QED BY <1>2, <1>3, <1>4

LEMMA ReceiveKeeps == ASSUME AInv, NEW k, Receive(k) PROVE AInv'
<1>1. PICK bytes : bytes = SubSeq(stream.bytes, fed + 1, fed + k)
  OBVIOUS
<1>2. PICK s : s = Selected(bytes)
  OBVIOUS
<1>3. /\ chunks = <<>> /\ boot' = s.boot
      /\ \/ s.boot.selected = "h2" /\ chunks' = <<>>
         \/ s.boot.selected # "h2" /\ parsed' = parsed /\ chunks' = s.chunks
      /\ UNCHANGED <<in_loop, ses, executor, conn, queue, wire>>
  BY <1>1, <1>2 DEF Receive
<1>4. /\ s.boot = [pending |-> s.boot.pending, selected |-> s.boot.selected]
      /\ s.boot.selected \in {"none", "http1", "h2"}
      /\ s.chunks # <<>> => s.boot.selected \in {"http1", "h2"}
      /\ boot.selected # "none" => s.boot.selected = boot.selected
  BY <1>2, SelectedShape DEF AInv
<1>5. ShapeInv'
  BY <1>3, <1>4 DEF AInv, ShapeInv
<1>6. Stays
  <2>1. CASE parsed' = parsed
    BY <1>3, <2>1, SameStays
  <2>2. CASE s.boot.selected = "h2"
    <3>1. ses.dispatched = 0
      BY <1>4, <2>2 DEF AInv, ShapeInv
    <3> QED BY <1>3, <3>1 DEF Stays, StaysIn
  <2> QED BY <1>3, <2>1, <2>2
<1> QED BY <1>3, <1>5, <1>6, QuietKeeps

\* The statuses the executor may answer a Post with, and what Feed's caller
\* does for them.
LEMMA ReturnsEffect ==
    ASSUME NEW status, Returns(status)
    PROVE  /\ ~in_loop'
           /\ status \in {"Stopped", "ExecutorStopped", "ExecutorSaturated"} => BeginClose
           /\ status \notin {"Stopped", "ExecutorStopped", "ExecutorSaturated"} =>
                  UNCHANGED <<conn, queue>>
           /\ status # "Ready" => chunks' = <<>>
BY DEF Returns

LEMMA PostStatuses == PostStatus \in {"Ready", "ExecutorStopped", "ExecutorSaturated"}
BY DEF PostStatus

\* PostErrorResponse for a session s that the parser has just left.
LEMMA ErrorKeeps ==
    ASSUME AInv, NEW s, NEW code, NEW failure,
           PostErrorResponse(code, s, failure), ~ses.stopped,
           failure \in {"BufferLimitExceeded", "ProtocolError"},
           s = [buffer |-> s.buffer, parser |-> s.parser, stopped |-> s.stopped,
                timed_out |-> s.timed_out, timer |-> s.timer,
                dispatched |-> s.dispatched],
           s.dispatched = ses.dispatched, code \in {413, StatusCodeFor(s.parser.error)},
           UNCHANGED <<boot, wire, parsed>>
    PROVE  AInv'
<1>1. PICK x : x = [answer |-> s.dispatched + 1, code |-> code, close |-> TRUE]
  OBVIOUS
<1>2. PICK status : status = IF PostStatus = "Ready" THEN failure ELSE PostStatus
  OBVIOUS
<1>3. /\ ses' = [s EXCEPT !.stopped = TRUE] /\ executor' = Posted(x) /\ Returns(status)
  BY <1>1, <1>2 DEF PostErrorResponse
<1>4. /\ ses'.stopped = TRUE /\ ses'.dispatched = ses.dispatched /\ ses'.parser = s.parser
      /\ ses' = [buffer |-> ses'.buffer, parser |-> ses'.parser, stopped |-> ses'.stopped,
                 timed_out |-> ses'.timed_out, timer |-> ses'.timer,
                 dispatched |-> ses'.dispatched]
  BY <1>3
<1>5. /\ status # "Ready"
      /\ PostStatus = "Ready" =>
             status \notin {"Stopped", "ExecutorStopped", "ExecutorSaturated"}
      /\ PostStatus # "Ready" => status \in {"ExecutorStopped", "ExecutorSaturated"}
  BY <1>2, PostStatuses
<1>6. /\ ~in_loop' /\ chunks' = <<>>
      /\ (UNCHANGED <<conn, queue>> /\ PostStatus = "Ready") \/ BeginClose
  BY <1>3, <1>5, ReturnsEffect
<1>7. /\ IsSeq(executor'.tasks)
      /\ executor' = [state |-> executor'.state, tasks |-> executor'.tasks,
                      running |-> executor'.running]
  BY <1>3, PostedShape DEF AInv
<1>8. ShapeInv'
  BY <1>4, <1>6, <1>7 DEF AInv, ShapeInv
<1>9. ses.dispatched \in Nat
  BY DEF AInv, ShapeInv
<1>10. Stays
  BY <1>4, <1>9 DEF Stays, StaysIn
<1>11. x.answer = ses.dispatched + 1 /\ x.code = code /\ x.close = TRUE
  BY <1>1
<1>12. TaskFitsIn(x, parsed', ses'.dispatched, ses'.stopped, ses'.parser.error)
  BY <1>4, <1>9, <1>11 DEF TaskFitsIn
<1> QED BY <1>3, <1>4, <1>6, <1>8, <1>10, <1>11, <1>12, PostKeeps

LEMMA FeedBeginsKeeps == ASSUME AInv, FeedBegins PROVE AInv'
<1>0. /\ chunks # <<>> /\ UNCHANGED <<boot, wire, parsed>> /\ boot.selected = "http1"
      /\ ses = [buffer |-> ses.buffer, parser |-> ses.parser, stopped |-> ses.stopped,
                timed_out |-> ses.timed_out, timer |-> ses.timer,
                dispatched |-> ses.dispatched]
  BY DEF FeedBegins, AInv, ShapeInv
<1>1. CASE /\ ses' = [ses EXCEPT !.stopped = TRUE,
                                 !.timer = IF ses.timer = "armed" /\ ~ses.timed_out
                                           THEN "idle" ELSE ses.timer]
           /\ Returns("Stopped") /\ UNCHANGED executor
  <2>1. /\ ses'.stopped = TRUE /\ ses'.dispatched = ses.dispatched /\ ses'.parser = ses.parser
        /\ ses' = [buffer |-> ses'.buffer, parser |-> ses'.parser,
                   stopped |-> ses'.stopped, timed_out |-> ses'.timed_out,
                   timer |-> ses'.timer, dispatched |-> ses'.dispatched]
    BY <1>0, <1>1
  <2>2. ~in_loop' /\ BeginClose /\ chunks' = <<>>
    BY <1>1, ReturnsEffect
  <2>3. ShapeInv'
    BY <1>0, <1>1, <2>1, <2>2 DEF AInv, ShapeInv
  <2>4. Stays
    BY <1>0, <2>1, SameStays
  <2> QED BY <1>0, <1>1, <2>2, <2>3, <2>4, QuietKeeps
<1>2. CASE ~ses.stopped /\ PostErrorResponse(413, ses, "BufferLimitExceeded")
  BY <1>0, <1>2, ErrorKeeps
<1>3. CASE /\ ~ses.stopped /\ ses' = [ses EXCEPT !.buffer = ses.buffer \o Head(chunks)]
           /\ in_loop' = TRUE /\ UNCHANGED <<chunks, conn, queue, executor>>
  <2>1. /\ ses'.stopped = ses.stopped /\ ses'.dispatched = ses.dispatched
        /\ ses'.parser = ses.parser
        /\ ses' = [buffer |-> ses'.buffer, parser |-> ses'.parser,
                   stopped |-> ses'.stopped, timed_out |-> ses'.timed_out,
                   timer |-> ses'.timer, dispatched |-> ses'.dispatched]
    BY <1>0, <1>3
  <2>2. ShapeInv'
    BY <1>0, <1>3, <2>1 DEF AInv, ShapeInv
  <2>3. Stays
    BY <1>0, <2>1, SameStays
  <2> QED BY <1>0, <1>3, <2>1, <2>2, <2>3, QuietKeeps
<1> QED BY <1>1, <1>2, <1>3 DEF FeedBegins

LEMMA FeedTurnKeeps == ASSUME AInv, FeedTurn PROVE AInv'
<1>1. PICK r : r = Parse(ses.parser, ses.buffer)
  OBVIOUS
<1>2. PICK s : s = [ses EXCEPT !.parser = r.p]
  OBVIOUS
<1>3. PICK t : t = [s EXCEPT !.dispatched = s.dispatched + 1,
                             !.buffer = SubSeq(s.buffer, r.consumed + 1, Len(s.buffer))]
  OBVIOUS
<1>4. PICK close \in BOOLEAN :
          close = (~r.request.keep_alive \/ t.dispatched >= MaximumRequests)
  OBVIOUS
<1>5. /\ in_loop /\ UNCHANGED <<boot, wire>> /\ ~ses.stopped /\ boot.selected = "http1"
      /\ ses = [buffer |-> ses.buffer, parser |-> ses.parser, stopped |-> ses.stopped,
                timed_out |-> ses.timed_out, timer |-> ses.timer,
                dispatched |-> ses.dispatched]
      /\ ses.dispatched \in Nat /\ IsSeq(parsed) /\ Len(parsed) = ses.dispatched
  BY DEF FeedTurn, AInv, ShapeInv
<1>6. /\ s = [buffer |-> s.buffer, parser |-> s.parser, stopped |-> s.stopped,
              timed_out |-> s.timed_out, timer |-> s.timer, dispatched |-> s.dispatched]
      /\ s.dispatched = ses.dispatched /\ s.stopped = ses.stopped /\ s.parser = r.p
  BY <1>2, <1>5
<1>7. ASSUME ses'.dispatched \in Nat, ses'.dispatched >= ses.dispatched,
             \A n \in 1..ses.dispatched : parsed'[n] = parsed[n]
      PROVE  Stays
  BY <1>5, <1>7 DEF Stays, StaysIn
<1>8. CASE ses' = s /\ UNCHANGED <<chunks, in_loop, executor, conn, queue, parsed>>
  <2>1. ShapeInv'
    BY <1>5, <1>6, <1>8 DEF AInv, ShapeInv
  <2>2. Stays
    BY <1>5, <1>6, <1>7, <1>8
  <2> QED BY <1>5, <1>6, <1>8, <2>1, <2>2, QuietKeeps
<1>9. CASE /\ ses' = s /\ Send(Answer(s.dispatched + 1, 100, FALSE))
           /\ UNCHANGED <<chunks, in_loop, executor, parsed>>
  <2>1. PICK x : x = Answer(s.dispatched + 1, 100, FALSE)
    OBVIOUS
  <2>2. x.code = 100 /\ x.close = FALSE
    BY <2>1 DEF Answer
  <2>3. ShapeInv' /\ Pending' = Pending
    BY <1>5, <1>6, <1>9 DEF AInv, ShapeInv, Pending
  <2>4. Stays
    BY <1>5, <1>6, <1>7, <1>9
  <2>5. /\ ConnInv' /\ OldOr(x)
        /\ conn' = "Active" =>
               /\ conn = "Active"
               /\ Cardinality(FinalsOf(All')) = Cardinality(FinalsOf(All)) + 0
    BY <1>5, <1>9, <2>1, <2>2, SendEffect DEF AInv
  <2>6. Cardinality(FinalsOf(All)) \in Nat
    <3>1. IsSeq(All)
      BY SeqConcat DEF AInv, ConnInv, All
    <3> QED BY <3>1, FinalsAreFinite
  <2>7. \A i \in FinalsOf(All') : Fits(All[i])'
    BY <2>2, <2>4, <2>5, FitsCarry
  <2>8. \A k \in DOMAIN Pending' : TaskFits(Pending[k])'
    BY <2>3, <2>4, SameTasks, OldTasksCarry
  <2>9. conn' = "Active" => Owed'
    <3>1. conn' = "Active" => Cardinality(FinalsOf(All')) = Cardinality(FinalsOf(All))
      BY <2>5, <2>6
    <3> QED BY <1>6, <1>9, <2>3, <2>5, <3>1 DEF AInv, Owed
  <2> QED BY <2>3, <2>5, <2>7, <2>8, <2>9 DEF AInv
<1>10. CASE /\ ses' = [s EXCEPT !.timer = IF s.timed_out THEN s.timer ELSE "armed"]
            /\ Returns("Ready") /\ UNCHANGED <<executor, parsed>>
  <2>1. /\ ses' = [buffer |-> ses'.buffer, parser |-> ses'.parser,
                   stopped |-> ses'.stopped, timed_out |-> ses'.timed_out,
                   timer |-> ses'.timer, dispatched |-> ses'.dispatched]
        /\ ses'.dispatched = ses.dispatched /\ ses'.stopped = ses.stopped
    BY <1>6, <1>10
  <2>2. ~in_loop' /\ UNCHANGED <<conn, queue>>
    BY <1>10, ReturnsEffect
  <2>3. ShapeInv'
    BY <1>5, <1>10, <2>1, <2>2 DEF AInv, ShapeInv
  <2>4. Stays
    BY <1>5, <1>7, <1>10, <2>1
  <2> QED BY <1>5, <1>10, <2>1, <2>2, <2>3, <2>4, QuietKeeps
<1>11. CASE /\ PostErrorResponse(StatusCodeFor(r.p.error),
                   [s EXCEPT !.timer = IF s.timer = "armed" THEN "idle" ELSE s.timer],
                   "ProtocolError")
            /\ UNCHANGED parsed
  <2>1. PICK u : u = [s EXCEPT !.timer = IF s.timer = "armed" THEN "idle" ELSE s.timer]
    OBVIOUS
  <2>2. /\ u = [buffer |-> u.buffer, parser |-> u.parser, stopped |-> u.stopped,
                timed_out |-> u.timed_out, timer |-> u.timer, dispatched |-> u.dispatched]
        /\ u.dispatched = ses.dispatched /\ u.parser = r.p
    BY <1>6, <2>1
  <2>3. PostErrorResponse(StatusCodeFor(r.p.error), u, "ProtocolError")
    BY <1>11, <2>1
  <2> QED BY <1>5, <1>11, <2>2, <2>3, ErrorKeeps
<1>12. CASE /\ Dispatch(t, r.request, close)
            /\ ses' = [t EXCEPT !.stopped = close \/ PostStatus # "Ready"]
            /\ IF close \/ PostStatus # "Ready" THEN Returns(PostStatus)
               ELSE UNCHANGED <<chunks, in_loop, conn, queue>>
            /\ parsed' = Append(parsed, r.request)
  <2>1. /\ t = [buffer |-> t.buffer, parser |-> t.parser, stopped |-> t.stopped,
                timed_out |-> t.timed_out, timer |-> t.timer, dispatched |-> t.dispatched]
        /\ t.dispatched = ses.dispatched + 1
    BY <1>3, <1>6
  <2>2. /\ ses' = [buffer |-> ses'.buffer, parser |-> ses'.parser,
                   stopped |-> ses'.stopped, timed_out |-> ses'.timed_out,
                   timer |-> ses'.timer, dispatched |-> ses'.dispatched]
        /\ ses'.dispatched = ses.dispatched + 1
        /\ ses'.stopped = (close \/ PostStatus # "Ready")
    BY <1>12, <2>1
  <2>3. /\ IsSeq(parsed') /\ Len(parsed') = ses.dispatched + 1
        /\ \A n \in 1..ses.dispatched : parsed'[n] = parsed[n]
        /\ parsed'[ses.dispatched + 1] = r.request
    BY <1>5, <1>12, SeqAppend
  <2>4. PICK x : x = [answer |-> t.dispatched, code |-> Route(r.request.line),
                      close |-> close]
    OBVIOUS
  <2>5. executor' = Posted(x)
    BY <1>12, <2>4 DEF Dispatch
  <2>6. /\ (UNCHANGED <<conn, queue>> /\ PostStatus = "Ready") \/ BeginClose
        /\ in_loop' => ~ses'.stopped
    <3>1. CASE close \/ PostStatus # "Ready"
      BY <1>12, <3>1, ReturnsEffect, PostStatuses
    <3>2. CASE ~(close \/ PostStatus # "Ready")
      BY <1>12, <2>2, <3>2
    <3> QED BY <3>1, <3>2
  <2>7. /\ IsSeq(executor'.tasks)
        /\ executor' = [state |-> executor'.state, tasks |-> executor'.tasks,
                        running |-> executor'.running]
    BY <2>5, PostedShape DEF AInv
  <2>8. ShapeInv'
    <3>1. boot' = [pending |-> boot'.pending, selected |-> boot'.selected]
      BY <1>5 DEF AInv, ShapeInv
    <3>2. boot'.selected = "http1" /\ ses'.dispatched \in Nat
      BY <1>5, <2>2
    <3> QED BY <2>2, <2>3, <2>6, <2>7, <3>1, <3>2 DEF ShapeInv
  <2>9. Stays
    BY <1>5, <1>7, <2>2, <2>3
  <2>10. /\ x.answer = ses.dispatched + 1 /\ x.code = Route(r.request.line)
         /\ ses'.stopped /\ PostStatus = "Ready" => x.close
    BY <2>1, <2>2, <2>4
  <2>11. TaskFitsIn(x, parsed', ses'.dispatched, ses'.stopped, ses'.parser.error)
    <3>1. x.answer \in Nat \ {0} /\ x.answer <= ses'.dispatched
      BY <1>5, <2>2, <2>10
    <3> QED BY <2>3, <2>10, <3>1 DEF TaskFitsIn
  <2> QED BY <1>5, <2>2, <2>5, <2>6, <2>8, <2>9, <2>10, <2>11, PostKeeps
<1>13. CASE ses' = s /\ HandlerThrows /\ UNCHANGED <<executor, parsed>>
  <2>1. ~in_loop' /\ chunks' = <<>> /\ BeginClose
    BY <1>13 DEF HandlerThrows
  <2>2. ShapeInv'
    BY <1>5, <1>6, <1>13, <2>1 DEF AInv, ShapeInv
  <2>3. Stays
    BY <1>5, <1>6, <1>7, <1>13
  <2> QED BY <1>5, <1>13, <2>1, <2>2, <2>3, QuietKeeps
<1> QED BY <1>1, <1>2, <1>3, <1>4, <1>8, <1>9, <1>10, <1>11, <1>12, <1>13 DEF FeedTurn

------------------------------------------------------------------------------
(* Theorems *)

LEMMA AInvInductive == ASSUME AInv, [Next]_vars PROVE AInv'
<1>1. CASE UNCHANGED vars
  <2>1. UNCHANGED <<boot, chunks, in_loop, ses, executor, conn, queue, wire, parsed>>
    BY <1>1 DEF vars
  <2> QED BY <2>1 DEF AInv, ShapeInv, ConnInv, Pending, All, Fits, TaskFits, Owed
<1>2. CASE \E k \in 1..Len(stream.bytes) : Receive(k)
  BY <1>2, ReceiveKeeps
<1>3. CASE FeedBegins \/ FeedTurn \/ TimerFires
  BY <1>3, FeedBeginsKeeps, FeedTurnKeeps, TimerFiresKeeps
<1>4. CASE TaskBegins \/ StopExecutor \/ PoolChanges \/ SendCompletes \/ PeerCloses
  BY <1>4, TaskBeginsKeeps, ExecutorStateKeeps, SendCompletesKeeps, PeerClosesKeeps
<1>5. CASE \E outcome \in {"returns", "closes", "throws", "unencodable"} : TaskReturns(outcome)
  BY <1>5, TaskReturnsKeeps
<1> QED BY <1>1, <1>2, <1>3, <1>4, <1>5 DEF Next

\* The inductive invariant of one HTTP/1.1 connection: who owes which answer.
THEOREM AnswerInvariance == Spec => []AInv
<1>1. Init => AInv
  BY InitAInv
<1>2. AInv /\ [Next]_vars => AInv'
  BY AInvInductive
<1> QED BY <1>1, <1>2, PTL DEF Spec

\* However the bytes are cut, whatever the handlers do and whenever executor,
\* peer or timer end the connection: the answers that leave are those to
\* requests 1, 2, 3, ... in this order, each by its own route, and nothing
\* follows a closing one.
THEOREM PipelinedAnswersInOrder == Spec => []AnswersInOrder
<1>1. AInv => AnswersInOrder
  <2> SUFFICES ASSUME AInv, NEW i \in Finals
               PROVE  /\ All[i].answer = Cardinality({j \in Finals : j <= i})
                      /\ All[i].close => i = Len(All)
                      /\ IF All[i].answer <= ses.dispatched
                         THEN All[i].code \in RouteCodes(parsed[All[i].answer].line)
                         ELSE All[i].code \in {413, StatusCodeFor(ses.parser.error)}
    BY DEF AnswersInOrder
  <2>1. Finals = FinalsOf(All) /\ i \in DOMAIN All
    BY DEF Finals, FinalsOf
  <2>2. Fits(All[i])
    BY <2>1 DEF AInv
  <2>3. All[i].answer = Cardinality({j \in Finals : j <= i})
    BY <2>1 DEF AInv, ConnInv, Numbered
  <2>4. All[i].close => i = Len(All)
    BY <2>1 DEF AInv, ConnInv
  <2>5. IF All[i].answer <= ses.dispatched
        THEN All[i].code \in RouteCodes(parsed[All[i].answer].line)
        ELSE All[i].code \in {413, StatusCodeFor(ses.parser.error)}
    BY <2>2 DEF Fits, FitsIn
  <2> QED BY <2>3, <2>4, <2>5
<1> QED BY <1>1, AnswerInvariance, PTL

\* A connection that is open when callback, executor and send queue are idle
\* has answered every request it dispatched, and its session has not stopped.
THEOREM NoAnswerIsForgotten == Spec => []QuietIsAnswered
<1>1. AInv => QuietIsAnswered
  <2> SUFFICES ASSUME AInv, queue = <<>>, executor.tasks = <<>>,
                      executor.running = NoTask, conn # "Closed"
               PROVE  ~ses.stopped /\ Cardinality(Finals) = ses.dispatched
    BY DEF QuietIsAnswered
  <2>1. conn = "Active"
    BY DEF AInv, ConnInv
  <2>2. Pending = <<>>
    BY DEF Pending, PendingOf
  <2>3. Finals = FinalsOf(All)
    BY DEF Finals, FinalsOf
  <2>4. OwedIn(Cardinality(Finals), <<>>, ses.dispatched, ses.stopped)
    BY <2>1, <2>2, <2>3 DEF AInv, Owed
  <2>5. ~ses.stopped /\ Cardinality(Finals) + 0 = ses.dispatched
    BY <2>4, EmptyIsSeq DEF OwedIn
  <2>6. Cardinality(Finals) \in Nat
    <3>1. IsSeq(All)
      BY SeqConcat DEF AInv, ConnInv, All
    <3> QED BY <2>3, <3>1, FinalsAreFinite
  <2> QED BY <2>5, <2>6
<1> QED BY <1>1, AnswerInvariance, PTL
==============================================================================
