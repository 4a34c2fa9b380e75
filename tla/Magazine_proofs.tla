-------------------------- MODULE Magazine_proofs --------------------------
(***************************************************************************)
(* The page of the magazine implements ColumnPromise, and its columns show *)
(* what they promise: the programmes of the span they cover, in order, and *)
(* in step.                                                                *)
(***************************************************************************)
EXTENDS Magazine, SequenceTheorems, Recursion, TLAPS

-----------------------------------------------------------------------------
(* The page covers a span of time, and every column one within which its   *)
(* requests lie side by side.                                              *)
PageInv == start \in Nat /\ end \in Nat /\ start <= end

ColTypes ==
  /\ col \in [Columns -> Span \cup {None}]
  /\ load \in [Columns -> Seq(Request)]

Apart(p, q) == p.hi <= q.lo \/ q.hi <= p.lo

Within(x, L) ==
  IF x = None THEN L = <<>>
  ELSE /\ x.from <= x.to
       /\ \A i \in 1..Len(L) : x.from <= L[i].lo /\ L[i].hi <= x.to

SideBySide(L) == \A i, j \in 1..Len(L) : i # j => Apart(L[i], L[j])

ColInv == \A c \in Columns : Within(col[c], load[c]) /\ SideBySide(load[c])

IInv == PageInv /\ ColTypes /\ ColInv

-----------------------------------------------------------------------------
LEMMA HoursToNat ==
  ASSUME NEW a \in Nat, NEW b \in Nat
  PROVE  HoursTo(a, b) \in Nat
<1> DEFINE d == Greatest(a, b) - Least(a, b) + Hour - 1
<1>0. Hour \in Nat /\ Hour > 0
  BY NumbersAssumption
<1>1. d \in Nat BY <1>0 DEF Greatest, Least
<1>2. d \div Hour \in Nat BY <1>0, <1>1
<1>3. \A x \in Nat : Hour * x \in Nat BY <1>0
<1> QED BY <1>2, <1>3 DEF HoursTo

LEMMA TwoRequests ==
  ASSUME NEW x \in Request, NEW y \in Request
  PROVE  LET A == <<x>> \o <<y>> IN A \in Seq(Request) /\ Len(A) = 2 /\ A[1] = x /\ A[2] = y
<1>1. /\ <<x>> \in Seq(Request) /\ Len(<<x>>) = 1 /\ <<x>>[1] = x
      /\ <<y>> \in Seq(Request) /\ Len(<<y>>) = 1 /\ <<y>>[1] = y
  OBVIOUS
<1>2. /\ <<x>> \o <<y>> \in Seq(Request)
      /\ Len(<<x>> \o <<y>>) = 1 + 1
      /\ \A i \in 1..(1 + 1) : (<<x>> \o <<y>>)[i] = IF i <= 1 THEN x ELSE <<y>>[i - 1]
  BY <1>1, ConcatProperties
<1> QED BY <1>1, <1>2

LEMMA SpanTypes ==
  ASSUME NEW x \in Span
  PROVE  x # None /\ x.from \in Nat /\ x.to \in Nat
BY NoneAssumption DEF Span

LEMMA CoveredFacts ==
  ASSUME NEW x \in Span \cup {None}, NEW s \in Nat, NEW e \in Nat, s <= e,
         x # None => x.from <= x.to
  PROVE  LET V == Covered(x, s, e) IN
         /\ V \in Span /\ V # None
         /\ V.from <= V.to
         /\ x = None => V.from = s /\ V.to = e
         /\ x # None => V.from = Least(s, x.from) /\ V.to = Greatest(e, x.to)
<1>1. CASE x = None BY <1>1, NoneAssumption DEF Covered, Span
<1>2. CASE x # None
  <2>1. x.from \in Nat /\ x.to \in Nat BY <1>2, SpanTypes
  <2>2. Least(s, x.from) \in Nat /\ Greatest(e, x.to) \in Nat BY <2>1 DEF Least, Greatest
  <2>3. Least(s, x.from) <= Greatest(e, x.to) BY <2>1 DEF Least, Greatest
  <2>4. Covered(x, s, e) = [from |-> Least(s, x.from), to |-> Greatest(e, x.to)]
    BY <1>2 DEF Covered
  <2> QED BY <1>2, <2>2, <2>3, <2>4, NoneAssumption DEF Span
<1> QED BY <1>1, <1>2

(* The requests A ask for what V has beyond x, in pieces. *)
Beyond(x, V, A) ==
  /\ A \in Seq(Request)
  /\ \A i \in 1..Len(A) :
        /\ A[i].st = "out" /\ A[i].lo \in Nat /\ A[i].hi \in Nat
        /\ V.from <= A[i].lo /\ A[i].lo <= A[i].hi /\ A[i].hi <= V.to
        /\ x # None => A[i].hi <= x.from \/ x.to <= A[i].lo
  /\ \A i, j \in 1..Len(A) : i # j => Apart(A[i], A[j])
  /\ \A t \in Nat : V.from <= t /\ t < V.to =>
        \/ x # None /\ x.from <= t /\ t < x.to
        \/ \E i \in 1..Len(A) : A[i].lo <= t /\ t < A[i].hi

(* A column that covers x asks for what s..e has beyond x.                 *)
LEMMA AskedFacts ==
  ASSUME NEW x \in Span \cup {None}, NEW s \in Nat, NEW e \in Nat, s <= e,
         x # None => x.from <= x.to,
         NEW A, A = Asked(x, s, e), NEW V, V = Covered(x, s, e)
  PROVE  Beyond(x, V, A)
<1>1. CASE x = None
  <2>1. A = <<Ask(s, e, FALSE)>> BY <1>1 DEF Asked
  <2>2. A[1] = Ask(s, e, FALSE) /\ Len(A) = 1 BY <2>1
  <2>3. V = [from |-> s, to |-> e] BY <1>1 DEF Covered
  <2>4. A \in Seq(Request) BY <2>1 DEF Ask, Request
  <2>5. A[1].lo = s /\ A[1].hi = e /\ A[1].st = "out" BY <2>2 DEF Ask
  <2>6. V.from = s /\ V.to = e BY <2>3
  <2>7. \A i \in 1..Len(A) : i = 1 BY <2>2
  <2>8. 1 \in 1..Len(A) BY <2>2
  <2> QED BY <1>1, <2>4, <2>5, <2>6, <2>7, <2>8 DEF Apart, Beyond
<1>2. CASE x # None
  <2> DEFINE p == Ask(s, x.from, FALSE)
             q == Ask(x.to, e, TRUE)
  <2>1. x.from \in Nat /\ x.to \in Nat /\ x.from <= x.to BY <1>2, SpanTypes
  <2>2. A = (IF s < x.from THEN <<p>> ELSE <<>>) \o (IF e > x.to THEN <<q>> ELSE <<>>)
    BY <1>2 DEF Asked
  <2>3. V.from = Least(s, x.from) /\ V.to = Greatest(e, x.to) BY <1>2, CoveredFacts
  <2>4. p \in Request /\ q \in Request BY <2>1 DEF Ask, Request
  <2>5. /\ p.lo = s /\ p.hi = x.from /\ p.st = "out"
        /\ q.lo = x.to /\ q.hi = e /\ q.st = "out"
    BY DEF Ask
  <2> HIDE DEF p, q
  <2>6. <<p>> \in Seq(Request) /\ <<q>> \in Seq(Request) BY <2>4
  <2>7. CASE s < x.from /\ e > x.to
    <3>1. Len(A) = 2 /\ A[1] = p /\ A[2] = q /\ A \in Seq(Request)
      BY <2>2, <2>4, <2>7, TwoRequests
    <3>2. V.from = s /\ V.to = e BY <2>1, <2>3, <2>7 DEF Least, Greatest
    <3> QED BY <1>2, <2>1, <2>5, <2>7, <3>1, <3>2 DEF Apart, Beyond
  <2>8. CASE s < x.from /\ ~(e > x.to)
    <3>1. A = <<p>> BY <2>2, <2>6, <2>8, ConcatEmptySeq
    <3>2. Len(A) = 1 /\ A[1] = p /\ A \in Seq(Request) BY <2>6, <3>1
    <3>3. V.from = s /\ V.to = x.to BY <2>1, <2>3, <2>8 DEF Least, Greatest
    <3> QED BY <1>2, <2>1, <2>5, <2>8, <3>2, <3>3 DEF Apart, Beyond
  <2>9. CASE ~(s < x.from) /\ e > x.to
    <3>1. A = <<q>> BY <2>2, <2>6, <2>9, ConcatEmptySeq
    <3>2. Len(A) = 1 /\ A[1] = q /\ A \in Seq(Request) BY <2>6, <3>1
    <3>3. V.from = x.from /\ V.to = e BY <2>1, <2>3, <2>9 DEF Least, Greatest
    <3> QED BY <1>2, <2>1, <2>5, <2>9, <3>2, <3>3 DEF Apart, Beyond
  <2>10. CASE ~(s < x.from) /\ ~(e > x.to)
    <3>1. A = <<>> BY <2>2, <2>10
    <3>2. Len(A) = 0 /\ A \in Seq(Request) BY <3>1
    <3>3. V.from = x.from /\ V.to = x.to BY <2>1, <2>3, <2>10 DEF Least, Greatest
    <3> QED BY <1>2, <2>1, <2>5, <2>10, <3>2, <3>3 DEF Apart, Beyond
  <2> QED BY <2>7, <2>8, <2>9, <2>10
<1> QED BY <1>1, <1>2

LEMMA ApartFrom ==
  ASSUME NEW p, p.lo \in Nat, p.hi \in Nat, NEW q, q.lo \in Nat, q.hi \in Nat,
         NEW x, x.from \in Nat, x.to \in Nat,
         x.from <= p.lo, p.hi <= x.to, q.hi <= x.from \/ x.to <= q.lo
  PROVE  Apart(p, q) /\ Apart(q, p)
BY DEF Apart

LEMMA RequestTypes ==
  ASSUME NEW L \in Seq(Request)
  PROVE  /\ Len(L) \in Nat
         /\ \A i \in 1..Len(L) : L[i] \in Request /\ L[i].lo \in Nat /\ L[i].hi \in Nat
<1>1. \A i \in 1..Len(L) : L[i] \in Request OBVIOUS
<1>2. \A q \in Request : q.lo \in Nat /\ q.hi \in Nat BY DEF Request
<1> QED BY <1>1, <1>2

LEMMA PiecesFacts ==
  ASSUME NEW L \in Seq(Request)
  PROVE  /\ \A t : t \in Pieces(L, "out") <=>
                 /\ t \in Nat
                 /\ \E i \in 1..Len(L) : L[i].st = "out" /\ L[i].lo <= t /\ t < L[i].hi
         /\ \A t : t \in Pieces(L, "in") <=>
                 /\ t \in Nat
                 /\ \E i \in 1..Len(L) : L[i].st = "in" /\ L[i].lo <= t /\ t < L[i].hi
BY RequestTypes, SMTT(30) DEF Pieces, Answers, Stretch

LEMMA SpanFacts ==
  ASSUME NEW x \in Span \cup {None}, NEW t
  PROVE  t \in SpanOf(x) <=> t \in Nat /\ x # None /\ x.from <= t /\ t < x.to
BY SpanTypes DEF SpanOf, Stretch

(* A column grows from x with the requests L to V with M: what it newly    *)
(* covers is asked for, once.                                              *)
Grown(x, L, V, M) ==
  /\ V \in Span \cup {None} /\ M \in Seq(Request)
  /\ Within(V, M) /\ SideBySide(M)
  /\ SpanOf(x) \subseteq SpanOf(V)
  /\ Pieces(M, "out") = Pieces(L, "out") \cup (SpanOf(V) \ SpanOf(x))
  /\ Pieces(M, "in") = Pieces(L, "in")

LEMMA AskOne ==
  ASSUME NEW x \in Span \cup {None}, NEW L \in Seq(Request), Within(x, L), SideBySide(L),
         NEW s \in Nat, NEW e \in Nat, s <= e,
         NEW A, A = Asked(x, s, e), NEW V, V = Covered(x, s, e),
         NEW M, M = L \o A
  PROVE  Grown(x, L, V, M)
<1>0. x # None => x.from <= x.to BY DEF Within
<1>1. /\ V \in Span /\ V # None /\ V.from <= V.to
      /\ V.from \in Nat /\ V.to \in Nat
      /\ x # None => /\ x.from \in Nat /\ x.to \in Nat /\ x.from <= x.to
                     /\ V.from <= x.from /\ x.to <= V.to
  <2>1. x # None => x.from \in Nat /\ x.to \in Nat /\ x.from <= x.to
    BY <1>0, SpanTypes
  <2>2. /\ V \in Span /\ V # None /\ V.from <= V.to
        /\ x # None => V.from = Least(s, x.from) /\ V.to = Greatest(e, x.to)
    BY <1>0, CoveredFacts, ZenonT(30)
  <2> QED BY <2>1, <2>2, SpanTypes DEF Least, Greatest
<1>11. Beyond(x, V, A) BY <1>0, AskedFacts
<1>2. /\ A \in Seq(Request)
      /\ \A i \in 1..Len(A) :
            /\ A[i].st = "out" /\ A[i].lo \in Nat /\ A[i].hi \in Nat
            /\ V.from <= A[i].lo /\ A[i].lo <= A[i].hi /\ A[i].hi <= V.to
            /\ x # None => A[i].hi <= x.from \/ x.to <= A[i].lo
      /\ \A i, j \in 1..Len(A) : i # j => Apart(A[i], A[j])
      /\ \A t \in Nat : V.from <= t /\ t < V.to =>
            \/ x # None /\ x.from <= t /\ t < x.to
            \/ \E i \in 1..Len(A) : A[i].lo <= t /\ t < A[i].hi
  BY <1>11 DEF Beyond
<1>3. /\ Len(L) \in Nat
      /\ \A i \in 1..Len(L) :
            /\ L[i].lo \in Nat /\ L[i].hi \in Nat
            /\ x # None /\ x.from <= L[i].lo /\ L[i].hi <= x.to
  BY RequestTypes DEF Within
<1>4. /\ M \in Seq(Request)
      /\ Len(A) \in Nat
      /\ Len(M) = Len(L) + Len(A)
      /\ \A i \in 1..Len(L) : i \in 1..Len(M) /\ M[i] = L[i]
      /\ \A i \in 1..Len(A) : Len(L) + i \in 1..Len(M) /\ M[Len(L) + i] = A[i]
  BY <1>2, <1>3, ConcatProperties
<1>5. \A k \in 1..Len(M) :
         (k \in 1..Len(L) /\ M[k] = L[k]) \/ \E i \in 1..Len(A) : k = Len(L) + i /\ M[k] = A[i]
  <2>1. SUFFICES ASSUME NEW k \in 1..Len(M), k \notin 1..Len(L)
                 PROVE  \E i \in 1..Len(A) : k = Len(L) + i /\ M[k] = A[i]
    BY <1>4
  <2>2. k - Len(L) \in 1..Len(A) /\ k = Len(L) + (k - Len(L)) BY <1>3, <1>4, <2>1
  <2> QED BY <1>4, <2>2
<1>6. Within(V, M)
  <2>1. SUFFICES ASSUME NEW k \in 1..Len(M) PROVE V.from <= M[k].lo /\ M[k].hi <= V.to
    BY <1>1 DEF Within
  <2>2. CASE k \in 1..Len(L) /\ M[k] = L[k]
    <3>1. /\ L[k].lo \in Nat /\ L[k].hi \in Nat
          /\ x # None /\ x.from <= L[k].lo /\ L[k].hi <= x.to
      BY <1>3, <2>2
    <3> QED BY <1>1, <2>2, <3>1
  <2>3. CASE \E i \in 1..Len(A) : k = Len(L) + i /\ M[k] = A[i]
    <3>1. PICK i \in 1..Len(A) : M[k] = A[i] BY <2>3
    <3>2. A[i].lo \in Nat /\ V.from <= A[i].lo /\ A[i].hi <= V.to BY <1>2
    <3> QED BY <3>1, <3>2
  <2> QED BY <1>5, <2>2, <2>3
<1>7. SideBySide(M)
  <2>1. SUFFICES ASSUME NEW i \in 1..Len(M), NEW j \in 1..Len(M), i # j
                 PROVE  Apart(M[i], M[j])
    BY DEF SideBySide
  <2>2. CASE i \in 1..Len(L) /\ j \in 1..Len(L) BY <1>4, <2>1, <2>2 DEF SideBySide
  <2>3. CASE i \in 1..Len(L) /\ j \notin 1..Len(L)
    <3>1. PICK b \in 1..Len(A) : M[j] = A[b] BY <1>5, <2>3
    <3>2. M[i] = L[i] BY <1>4, <2>3
    <3>3. /\ A[b].lo \in Nat /\ A[b].hi \in Nat
          /\ x # None => A[b].hi <= x.from \/ x.to <= A[b].lo
      BY <1>2
    <3>4. /\ L[i].lo \in Nat /\ L[i].hi \in Nat
          /\ x # None /\ x.from <= L[i].lo /\ L[i].hi <= x.to
      BY <1>3, <2>3
    <3>5. x.from \in Nat /\ x.to \in Nat BY <1>1, <3>4
    <3>6. Apart(L[i], A[b]) BY <3>3, <3>4, <3>5, ApartFrom
    <3> QED BY <3>1, <3>2, <3>6
  <2>4. CASE i \notin 1..Len(L) /\ j \in 1..Len(L)
    <3>1. PICK a \in 1..Len(A) : M[i] = A[a] BY <1>5, <2>4
    <3>2. M[j] = L[j] BY <1>4, <2>4
    <3>3. /\ A[a].lo \in Nat /\ A[a].hi \in Nat
          /\ x # None => A[a].hi <= x.from \/ x.to <= A[a].lo
      BY <1>2
    <3>4. /\ L[j].lo \in Nat /\ L[j].hi \in Nat
          /\ x # None /\ x.from <= L[j].lo /\ L[j].hi <= x.to
      BY <1>3, <2>4
    <3>5. x.from \in Nat /\ x.to \in Nat BY <1>1, <3>4
    <3>6. Apart(A[a], L[j]) BY <3>3, <3>4, <3>5, ApartFrom
    <3> QED BY <3>1, <3>2, <3>6
  <2>5. CASE i \notin 1..Len(L) /\ j \notin 1..Len(L)
    <3>1. PICK a \in 1..Len(A) : i = Len(L) + a /\ M[i] = A[a] BY <1>5, <2>5
    <3>2. PICK b \in 1..Len(A) : j = Len(L) + b /\ M[j] = A[b] BY <1>5, <2>5
    <3> QED BY <1>2, <2>1, <3>1, <3>2
  <2> QED BY <2>2, <2>3, <2>4, <2>5
<1>8. SpanOf(x) \subseteq SpanOf(V)
  <2>1. SUFFICES ASSUME NEW t, t \in SpanOf(x) PROVE t \in SpanOf(V) OBVIOUS
  <2>2. t \in Nat /\ x # None /\ x.from <= t /\ t < x.to BY <2>1, SpanFacts
  <2>3. V.from <= t /\ t < V.to BY <1>1, <2>2
  <2> QED BY <1>1, <2>2, <2>3, SpanFacts
<1>9. Pieces(M, "in") = Pieces(L, "in")
  <2>1. SUFFICES ASSUME NEW t, t \in Nat
                 PROVE  (\E i \in 1..Len(M) : M[i].st = "in" /\ M[i].lo <= t /\ t < M[i].hi)
                          <=> \E i \in 1..Len(L) : L[i].st = "in" /\ L[i].lo <= t /\ t < L[i].hi
    <3>1. \A t \in Nat : t \in Pieces(M, "in") <=> t \in Pieces(L, "in")
      <4>1. TAKE t \in Nat
      <4> QED BY <1>4, <2>1, PiecesFacts, ZenonT(30)
    <3>2. \A t : t \in Pieces(M, "in") \/ t \in Pieces(L, "in") => t \in Nat
      BY <1>4, PiecesFacts
    <3> QED BY <3>1, <3>2, Zenon
  <2>2. ASSUME NEW i \in 1..Len(M), M[i].st = "in" PROVE i \in 1..Len(L) /\ M[i] = L[i]
    <3>1. \A k \in 1..Len(A) : A[k].st # "in" BY <1>2
    <3> QED BY <1>5, <2>2, <3>1
  <2> QED BY <1>4, <2>2
<1>10. Pieces(M, "out") = Pieces(L, "out") \cup (SpanOf(V) \ SpanOf(x))
  <2>1. SUFFICES ASSUME NEW t PROVE t \in Pieces(M, "out") <=>
                                    t \in Pieces(L, "out") \/ (t \in SpanOf(V) /\ t \notin SpanOf(x))
    OBVIOUS
  <2>2. ASSUME t \in Pieces(M, "out")
        PROVE  t \in Pieces(L, "out") \/ (t \in SpanOf(V) /\ t \notin SpanOf(x))
    <3>0. M \in Seq(Request) BY <1>4
    <3>1. PICK k \in 1..Len(M) : M[k].st = "out" /\ M[k].lo <= t /\ t < M[k].hi
      BY <2>2, <3>0, PiecesFacts
    <3>2. t \in Nat BY <2>2, <3>0, PiecesFacts
    <3>3. CASE k \in 1..Len(L) /\ M[k] = L[k] BY <3>1, <3>2, <3>3, PiecesFacts
    <3>4. CASE \E i \in 1..Len(A) : k = Len(L) + i /\ M[k] = A[i]
      <4>1. PICK i \in 1..Len(A) : M[k] = A[i] BY <3>4
      <4>0. /\ A[i].lo \in Nat /\ A[i].hi \in Nat
            /\ V.from <= A[i].lo /\ A[i].hi <= V.to
            /\ x # None => A[i].hi <= x.from \/ x.to <= A[i].lo
        BY <1>2
      <4>2. V.from <= t /\ t < V.to BY <1>1, <3>1, <3>2, <4>0, <4>1
      <4>3. ~(x # None /\ x.from <= t /\ t < x.to) BY <1>1, <3>1, <3>2, <4>0, <4>1, SMTT(30)
      <4> QED BY <1>1, <3>2, <4>2, <4>3, SpanFacts
    <3> QED BY <1>5, <3>3, <3>4
  <2>3. ASSUME t \in Pieces(L, "out") PROVE t \in Pieces(M, "out")
    <3>1. PICK i \in 1..Len(L) : L[i].st = "out" /\ L[i].lo <= t /\ t < L[i].hi
      BY <2>3, PiecesFacts
    <3>2. t \in Nat BY <2>3, PiecesFacts
    <3>3. M \in Seq(Request) BY <1>4
    <3>4. i \in 1..Len(M) /\ M[i] = L[i] BY <1>4
    <3>5. \E k \in 1..Len(M) : M[k].st = "out" /\ M[k].lo <= t /\ t < M[k].hi BY <3>1, <3>4
    <3> QED BY <3>2, <3>3, <3>5, PiecesFacts
  <2>4. ASSUME t \in SpanOf(V), t \notin SpanOf(x) PROVE t \in Pieces(M, "out")
    <3>1. t \in Nat /\ V.from <= t /\ t < V.to BY <1>1, <2>4, SpanFacts
    <3>2. ~(x # None /\ x.from <= t /\ t < x.to) BY <2>4, <3>1, SpanFacts
    <3>3. PICK i \in 1..Len(A) : A[i].lo <= t /\ t < A[i].hi BY <1>2, <3>1, <3>2
    <3>4. M \in Seq(Request) BY <1>4
    <3>5. Len(L) + i \in 1..Len(M) /\ M[Len(L) + i] = A[i] BY <1>4
    <3>6. A[i].st = "out" BY <1>2
    <3>7. \E k \in 1..Len(M) : M[k].st = "out" /\ M[k].lo <= t /\ t < M[k].hi BY <3>3, <3>5, <3>6
    <3> QED BY <3>1, <3>4, <3>7, PiecesFacts
  <2> QED BY <2>2, <2>3, <2>4
<1> QED BY <1>1, <1>4, <1>6, <1>7, <1>8, <1>9, <1>10 DEF Grown

(* The requests L of a column that covers x become M, when one for the     *)
(* stretch P is answered or fails.                                         *)
Taken(x, L, M, P, u) ==
  /\ M \in Seq(Request) /\ Within(x, M) /\ SideBySide(M)
  /\ Pieces(M, "out") = Pieces(L, "out") \ P
  /\ P \subseteq Pieces(L, "out")
  /\ u = "in" => Pieces(M, "in") = Pieces(L, "in") \cup P
  /\ u = "lost" => Pieces(M, "in") = Pieces(L, "in")

(* No other request is for any part of the stretch. *)
LEMMA TakeOne ==
  ASSUME NEW L \in Seq(Request), SideBySide(L), NEW x, Within(x, L),
         NEW i \in 1..Len(L), L[i].st = "out",
         NEW u \in {"in", "lost"}, NEW M, M = [L EXCEPT ![i].st = u]
  PROVE  Taken(x, L, M, Stretch(L[i].lo, L[i].hi), u)
<1>1. /\ Len(L) \in Nat
      /\ \A j \in 1..Len(L) : L[j] \in Request /\ L[j].lo \in Nat /\ L[j].hi \in Nat
  BY RequestTypes
<1>2. [L[i] EXCEPT !.st = u] \in Request
  <2>1. L[i] \in Request BY <1>1
  <2> QED BY <2>1 DEF Request
<1>3. M = [L EXCEPT ![i] = [L[i] EXCEPT !.st = u]] OBVIOUS
<1>4. M \in Seq(Request) /\ Len(M) = Len(L) BY <1>2, <1>3
<1>5. \A j \in 1..Len(L) : M[j].lo = L[j].lo /\ M[j].hi = L[j].hi
  <2>1. TAKE j \in 1..Len(L)
  <2>2. CASE j = i
    <3>1. M[i] = [L[i] EXCEPT !.st = u] BY <1>3
    <3>2. L[i] \in Request BY <1>1
    <3> QED BY <2>2, <3>1, <3>2 DEF Request
  <2>3. CASE j # i BY <1>3, <2>3
  <2> QED BY <2>2, <2>3
<1>6. M[i].st = u
  <2>1. M[i] = [L[i] EXCEPT !.st = u] BY <1>3
  <2>2. L[i] \in Request BY <1>1
  <2> QED BY <2>1, <2>2 DEF Request
<1>7. \A j \in 1..Len(L) : j # i => M[j].st = L[j].st BY <1>3
<1>8. Within(x, M)
  <2>1. CASE x = None BY <2>1 DEF Within
  <2>2. CASE x # None BY <1>4, <1>5, <2>2 DEF Within
  <2> QED BY <2>1, <2>2
<1>9. SideBySide(M) BY <1>4, <1>5 DEF SideBySide, Apart
<1>10. \A t : t \in Stretch(L[i].lo, L[i].hi) <=> t \in Nat /\ L[i].lo <= t /\ t < L[i].hi
  BY <1>1 DEF Stretch
<1>11. ASSUME NEW j \in 1..Len(L), j # i, NEW t \in Nat, L[j].lo <= t, t < L[j].hi
       PROVE  ~(L[i].lo <= t /\ t < L[i].hi)
  <2>1. Apart(L[j], L[i]) BY <1>11 DEF SideBySide
  <2>2. L[j].lo \in Nat /\ L[j].hi \in Nat /\ L[i].lo \in Nat /\ L[i].hi \in Nat BY <1>1
  <2> QED BY <1>11, <2>1, <2>2 DEF Apart
<1>12. \A t : t \in Pieces(M, "out") <=>
                 t \in Pieces(L, "out") /\ t \notin Stretch(L[i].lo, L[i].hi)
  <2>1. TAKE t
  <2>2. ASSUME t \in Pieces(M, "out")
        PROVE  t \in Pieces(L, "out") /\ t \notin Stretch(L[i].lo, L[i].hi)
    <3>1. t \in Nat BY <1>4, <2>2, PiecesFacts
    <3>2. PICK j \in 1..Len(L) : M[j].st = "out" /\ M[j].lo <= t /\ t < M[j].hi
      BY <1>4, <2>2, PiecesFacts
    <3>3. j # i BY <1>6, <3>2
    <3>4. L[j].st = "out" /\ L[j].lo <= t /\ t < L[j].hi BY <1>5, <1>7, <3>2, <3>3
    <3>5. t \in Pieces(L, "out") BY <3>1, <3>4, PiecesFacts
    <3> QED BY <1>10, <1>11, <3>1, <3>3, <3>4, <3>5
  <2>3. ASSUME t \in Pieces(L, "out"), t \notin Stretch(L[i].lo, L[i].hi)
        PROVE  t \in Pieces(M, "out")
    <3>1. t \in Nat BY <2>3, PiecesFacts
    <3>2. PICK j \in 1..Len(L) : L[j].st = "out" /\ L[j].lo <= t /\ t < L[j].hi
      BY <2>3, PiecesFacts
    <3>3. j # i BY <1>10, <2>3, <3>1, <3>2
    <3>4. j \in 1..Len(M) /\ M[j].st = "out" /\ M[j].lo <= t /\ t < M[j].hi
      BY <1>4, <1>5, <1>7, <3>2, <3>3
    <3> QED BY <1>4, <3>1, <3>4, PiecesFacts
  <2> QED BY <2>2, <2>3
<1>13. \A t : t \in Stretch(L[i].lo, L[i].hi) => t \in Pieces(L, "out")
  BY <1>10, PiecesFacts
<1>14. ASSUME u = "in"
       PROVE  \A t : t \in Pieces(M, "in") <=>
                       t \in Pieces(L, "in") \/ t \in Stretch(L[i].lo, L[i].hi)
  <2>1. TAKE t
  <2>2. ASSUME t \in Pieces(M, "in")
        PROVE  t \in Pieces(L, "in") \/ t \in Stretch(L[i].lo, L[i].hi)
    <3>1. t \in Nat BY <1>4, <2>2, PiecesFacts
    <3>2. PICK j \in 1..Len(L) : M[j].st = "in" /\ M[j].lo <= t /\ t < M[j].hi
      BY <1>4, <2>2, PiecesFacts
    <3>3. L[j].lo <= t /\ t < L[j].hi BY <1>5, <3>2
    <3>4. CASE j = i BY <1>10, <3>1, <3>3, <3>4
    <3>5. CASE j # i
      <4>1. L[j].st = "in" BY <1>7, <3>2, <3>5
      <4> QED BY <3>1, <3>3, <4>1, PiecesFacts
    <3> QED BY <3>4, <3>5
  <2>3. ASSUME t \in Pieces(L, "in") PROVE t \in Pieces(M, "in")
    <3>1. t \in Nat BY <2>3, PiecesFacts
    <3>2. PICK j \in 1..Len(L) : L[j].st = "in" /\ L[j].lo <= t /\ t < L[j].hi
      BY <2>3, PiecesFacts
    <3>3. j # i BY <3>2
    <3>4. j \in 1..Len(M) /\ M[j].st = "in" /\ M[j].lo <= t /\ t < M[j].hi
      BY <1>4, <1>5, <1>7, <3>2, <3>3
    <3> QED BY <1>4, <3>1, <3>4, PiecesFacts
  <2>4. ASSUME t \in Stretch(L[i].lo, L[i].hi) PROVE t \in Pieces(M, "in")
    <3>1. t \in Nat /\ L[i].lo <= t /\ t < L[i].hi BY <1>10, <2>4
    <3>2. i \in 1..Len(M) /\ M[i].st = "in" /\ M[i].lo <= t /\ t < M[i].hi
      BY <1>4, <1>5, <1>6, <1>14, <3>1
    <3> QED BY <1>4, <3>1, <3>2, PiecesFacts
  <2> QED BY <2>2, <2>3, <2>4
<1>15. ASSUME u = "lost"
       PROVE  \A t : t \in Pieces(M, "in") <=> t \in Pieces(L, "in")
  <2>1. \A j \in 1..Len(L) : M[j].st = "in" <=> L[j].st = "in" BY <1>6, <1>7, <1>15
  <2>2. TAKE t
  <2>3. (\E j \in 1..Len(M) : M[j].st = "in" /\ M[j].lo <= t /\ t < M[j].hi)
          <=> \E j \in 1..Len(L) : L[j].st = "in" /\ L[j].lo <= t /\ t < L[j].hi
    BY <1>4, <1>5, <2>1
  <2> QED BY <1>4, <2>3, PiecesFacts
<1>16. Pieces(M, "out") = Pieces(L, "out") \ Stretch(L[i].lo, L[i].hi) BY <1>12
<1>17. Stretch(L[i].lo, L[i].hi) \subseteq Pieces(L, "out") BY <1>13
<1>18. u = "in" => Pieces(M, "in") = Pieces(L, "in") \cup Stretch(L[i].lo, L[i].hi) BY <1>14
<1>19. u = "lost" => Pieces(M, "in") = Pieces(L, "in") BY <1>15
<1> QED BY <1>4, <1>8, <1>9, <1>16, <1>17, <1>18, <1>19 DEF Taken

-----------------------------------------------------------------------------
(* Columns ask for the span s..e: the step Ask of the promise.             *)
LEMMA AskStep ==
  ASSUME ColTypes, ColInv, NEW S, NEW s \in Nat, NEW e \in Nat, s <= e,
         UpdateColumns(S, s, e)
  PROVE  ColTypes' /\ ColInv' /\ Promise!Ask
<1>1. ASSUME NEW c \in Columns
      PROVE  Grown(col[c], load[c], col'[c], load'[c])
  <2>1. /\ col[c] \in Span \cup {None} /\ load[c] \in Seq(Request)
        /\ Within(col[c], load[c]) /\ SideBySide(load[c])
    BY DEF ColTypes, ColInv
  <2>2. CASE c \in S
    <3>1. PICK A : A = Asked(col[c], s, e) OBVIOUS
    <3>2. PICK V : V = Covered(col[c], s, e) OBVIOUS
    <3>3. PICK M : M = load[c] \o A OBVIOUS
    <3>4. col'[c] = V /\ load'[c] = M BY <2>2, <3>1, <3>2, <3>3 DEF UpdateColumns
    <3>5. Grown(col[c], load[c], V, M) BY <2>1, <3>1, <3>2, <3>3, AskOne
    <3> QED BY <3>4, <3>5
  <2>3. CASE c \notin S
    <3>1. col'[c] = col[c] /\ load'[c] = load[c] BY <2>3 DEF UpdateColumns
    <3> QED BY <2>1, <3>1 DEF Grown
  <2> QED BY <2>2, <2>3
<1>2. ColTypes' /\ ColInv'
  <2>1. DOMAIN col' = Columns /\ DOMAIN load' = Columns BY DEF UpdateColumns
  <2> QED BY <1>1, <2>1 DEF UpdateColumns, ColTypes, ColInv, Grown
<1>3. Promise!Ask
  <2>1. \A c \in Columns : SpanOf(col'[c]) \in SUBSET Nat
    BY <1>1, SpanFacts DEF Grown
  <2> QED BY <1>1, <2>1 DEF Promise!Ask, Grown
<1> QED BY <1>2, <1>3

(* A request of column c is answered, or fails: the steps Arrive and       *)
(* GiveUp of the promise.                                                  *)
LEMMA TakeStep ==
  ASSUME ColTypes, ColInv, NEW c \in Columns, NEW i \in 1..Len(load[c]),
         load[c][i].st = "out", NEW u \in {"in", "lost"},
         load' = [load EXCEPT ![c][i].st = u], UNCHANGED col
  PROVE  /\ ColTypes' /\ ColInv'
         /\ u = "in" => Promise!Arrive(c)
         /\ u = "lost" => Promise!GiveUp(c)
<1>1. /\ load[c] \in Seq(Request) /\ Within(col[c], load[c]) /\ SideBySide(load[c])
      /\ DOMAIN load = Columns
  BY DEF ColTypes, ColInv
<1>2. PICK M : M = [load[c] EXCEPT ![i].st = u] OBVIOUS
<1>3. PICK P : P = Stretch(load[c][i].lo, load[c][i].hi) OBVIOUS
<1>4. /\ M \in Seq(Request) /\ Within(col[c], M) /\ SideBySide(M)
      /\ Pieces(M, "out") = Pieces(load[c], "out") \ P
      /\ P \subseteq Pieces(load[c], "out")
      /\ u = "in" => Pieces(M, "in") = Pieces(load[c], "in") \cup P
      /\ u = "lost" => Pieces(M, "in") = Pieces(load[c], "in")
  <2>1. Taken(col[c], load[c], M, P, u) BY <1>1, <1>2, <1>3, TakeOne
  <2> QED BY <2>1 DEF Taken
<1>5. /\ load'[c] = M /\ DOMAIN load' = Columns /\ col' = col
      /\ \A d \in Columns \ {c} : load'[d] = load[d]
      /\ load' = [load EXCEPT ![c] = M]
  BY <1>1, <1>2
<1>6. ColTypes' BY <1>4, <1>5 DEF ColTypes
<1>7. ColInv' BY <1>4, <1>5 DEF ColInv
<1>8. Promise!Fewer(c)
  <2>1. \A d \in Columns : Pieces(load'[d], "out") \in SUBSET Nat
    BY <1>6, PiecesFacts DEF ColTypes
  <2> QED BY <1>4, <1>5, <2>1 DEF Promise!Fewer
<1>9. ASSUME u = "in" PROVE Promise!Arrive(c)
  <2>1. Pieces(load[c], "out") \ Pieces(load'[c], "out") = P BY <1>4, <1>5
  <2>2. Pieces(load'[c], "in") =
          Pieces(load[c], "in") \cup (Pieces(load[c], "out") \ Pieces(load'[c], "out"))
    BY <1>4, <1>5, <1>9, <2>1
  <2> QED BY <1>5, <1>8, <2>2 DEF Promise!Arrive
<1>10. ASSUME u = "lost" PROVE Promise!GiveUp(c)
  <2>1. \A d \in Columns : Pieces(load'[d], "in") = Pieces(load[d], "in")
    BY <1>4, <1>5, <1>10
  <2> QED BY <1>5, <1>8, <2>1 DEF Promise!GiveUp
<1> QED BY <1>6, <1>7, <1>9, <1>10

-----------------------------------------------------------------------------
LEMMA InitIInv == Init => IInv /\ Promise!Init
<1> SUFFICES ASSUME Init PROVE IInv /\ Promise!Init OBVIOUS
<1>1. PageInv
  <2>1. HoursTo(0, Half) \in Nat BY HoursToNat, NumbersAssumption
  <2>2. Hour \in Nat /\ Opening \in Nat /\ Opening >= 2 * Hour BY NumbersAssumption
  <2> QED BY <2>1, <2>2 DEF Init, PageInv
<1>2. ColTypes BY DEF Init, ColTypes
<1>3. ColInv BY DEF Init, ColInv, Within, SideBySide
<1>4. Promise!Init
  <2>1. SpanOf(None) = {} BY DEF SpanOf
  <2>2. Pieces(<<>>, "out") = {} /\ Pieces(<<>>, "in") = {} BY DEF Pieces, Answers
  <2> QED BY <2>1, <2>2 DEF Init, Promise!Init
<1> QED BY <1>1, <1>2, <1>3, <1>4 DEF IInv

(* update asks in the visible columns, or fails. *)
LEMMA UpdateStep ==
  ASSUME IInv, NEW m, NEW v, NEW s \in Nat, NEW e \in Nat, s <= e,
         Update(m, v, s, e)
  PROVE  ColTypes' /\ ColInv' /\ (Promise!Ask \/ UNCHANGED <<load, col>>)
<1>1. CASE UpdateColumns(InView(m, v), s, e) BY <1>1, AskStep DEF IInv
<1>2. CASE UNCHANGED <<load, col>> BY <1>2 DEF IInv, ColTypes, ColInv
<1> QED BY <1>1, <1>2 DEF Update

LEMMA Stutter ==
  ASSUME UNCHANGED <<load, col>>
  PROVE  UNCHANGED Promise!vars
BY DEF Promise!vars

LEMMA NextStep ==
  ASSUME IInv, [Next]_vars
  PROVE  IInv' /\ [Promise!Next]_Promise!vars
<1>1. ASSUME NEW w \in 1..MaxView, Resize(w) PROVE IInv' /\ [Promise!Next]_Promise!vars
  <2>1. PageInv' /\ PageInv BY <1>1 DEF Resize, IInv, PageInv
  <2>2. PICK v : v = view' OBVIOUS
  <2>3. Update(main, v, start, end) BY <1>1, <2>2 DEF Resize
  <2>4. ColTypes' /\ ColInv' /\ (Promise!Ask \/ UNCHANGED <<load, col>>)
    BY <2>1, <2>3, UpdateStep DEF PageInv
  <2> QED BY <2>1, <2>4, Stutter DEF IInv, Promise!Next
<1>2. ASSUME NEW i \in 0..Count, SetMain(i) PROVE IInv' /\ [Promise!Next]_Promise!vars
  <2>1. PageInv' /\ PageInv BY <1>2 DEF SetMain, IInv, PageInv
  <2>2. PICK m : m = main' OBVIOUS
  <2>3. Update(m, view, start, end) BY <1>2, <2>2 DEF SetMain
  <2>4. ColTypes' /\ ColInv' /\ (Promise!Ask \/ UNCHANGED <<load, col>>)
    BY <2>1, <2>3, UpdateStep DEF PageInv
  <2> QED BY <2>1, <2>4, Stutter DEF IInv, Promise!Next
<1>3. ASSUME NEW t \in JumpTimes, SetTime(t) PROVE IInv' /\ [Promise!Next]_Promise!vars
  <2>1. PICK s : s = start' OBVIOUS
  <2>2. PICK e : e = end' OBVIOUS
  <2>3. t \in Nat /\ Half \in Nat /\ start \in Nat /\ end \in Nat /\ start <= end
    BY NumbersAssumption DEF IInv, PageInv
  <2>4. s \in Nat /\ s <= start
    <3>1. HoursTo(start, t) \in Nat BY <2>3, HoursToNat
    <3>2. s = Earlier(t) /\ Earlier(t) >= 0 BY <1>3, <2>1 DEF SetTime
    <3> QED BY <2>3, <3>1, <3>2 DEF Earlier
  <2>5. e \in Nat /\ end <= e
    <3>1. Greatest(t + Half, end + Half) \in Nat BY <2>3 DEF Greatest
    <3>2. HoursTo(end, Greatest(t + Half, end + Half)) \in Nat BY <2>3, <3>1, HoursToNat
    <3>3. e = Later(t) BY <1>3, <2>2 DEF SetTime
    <3> QED BY <2>3, <3>2, <3>3 DEF Later
  <2>6. s <= e BY <2>3, <2>4, <2>5
  <2>7. PageInv' BY <2>1, <2>2, <2>4, <2>5, <2>6 DEF PageInv
  <2>8. Update(main, view, s, e) \/ UNCHANGED <<load, col>> BY <1>3, <2>1, <2>2 DEF SetTime
  <2>9. ColTypes' /\ ColInv' /\ (Promise!Ask \/ UNCHANGED <<load, col>>)
    <3>1. CASE Update(main, view, s, e) BY <2>4, <2>5, <2>6, <3>1, UpdateStep
    <3>2. CASE UNCHANGED <<load, col>> BY <3>2 DEF IInv, ColTypes, ColInv
    <3> QED BY <2>8, <3>1, <3>2
  <2> QED BY <2>7, <2>9, Stutter DEF IInv, Promise!Next
<1>4. ASSUME LaterUpdate PROVE IInv' /\ [Promise!Next]_Promise!vars
  <2>1. PageInv' /\ PageInv BY <1>4 DEF LaterUpdate, IInv, PageInv
  <2>2. ColTypes' /\ ColInv' /\ Promise!Ask
    BY <1>4, <2>1, AskStep DEF LaterUpdate, IInv, PageInv
  <2> QED BY <2>1, <2>2 DEF IInv, Promise!Next
<1>5. ASSUME NEW c \in Columns, NEW i \in 1..Len(load[c]), Answer(c, i)
      PROVE  IInv' /\ [Promise!Next]_Promise!vars
  <2>1. PageInv' BY <1>5 DEF Answer, IInv, PageInv
  <2>2. /\ load[c][i].st = "out" /\ load' = [load EXCEPT ![c][i].st = "in"]
        /\ UNCHANGED col
    BY <1>5 DEF Answer
  <2>3. ColTypes' /\ ColInv' /\ Promise!Arrive(c) BY <2>2, TakeStep DEF IInv
  <2> QED BY <2>1, <2>3 DEF IInv, Promise!Next
<1>6. ASSUME NEW c \in Columns, NEW i \in 1..Len(load[c]), Fail(c, i)
      PROVE  IInv' /\ [Promise!Next]_Promise!vars
  <2>1. PageInv' BY <1>6 DEF Fail, IInv, PageInv
  <2>2. /\ load[c][i].st = "out" /\ load' = [load EXCEPT ![c][i].st = "lost"]
        /\ UNCHANGED col
    BY <1>6 DEF Fail
  <2>3. ColTypes' /\ ColInv' /\ Promise!GiveUp(c) BY <2>2, TakeStep DEF IInv
  <2> QED BY <2>1, <2>3 DEF IInv, Promise!Next
<1>7. ASSUME UNCHANGED vars PROVE IInv' /\ [Promise!Next]_Promise!vars
  BY <1>7, Stutter DEF vars, IInv, PageInv, ColTypes, ColInv
<1> QED BY <1>1, <1>2, <1>3, <1>4, <1>5, <1>6, <1>7 DEF Next

(* The page and what it has asked for stay consistent. *)
THEOREM Invariance == Spec => []IInv
<1>1. Init => IInv BY InitIInv
<1>2. IInv /\ [Next]_vars => IInv' BY NextStep
<1> QED BY <1>1, <1>2, PTL DEF Spec

(* Whatever the user does and in whatever order the answers come, every    *)
(* moment a column covers is requested once, when it first covers it, and  *)
(* arrives or is lost (updateTime and loadData of the columns).            *)
THEOREM KeepsPromise == Spec => Promised
<1>1. Init => Promise!Init BY InitIInv
<1>2. IInv /\ [Next]_vars => [Promise!Next]_Promise!vars BY NextStep
<1> QED BY <1>1, <1>2, Invariance, PTL DEF Spec, Promised, Promise!Spec

-----------------------------------------------------------------------------
(* Column c covers what the page does, or more. *)
Covers(c, s, e) == col[c] # None /\ col[c].from <= s /\ e <= col[c].to

LEMMA Reaches ==
  ASSUME IInv, NEW c \in Columns, NEW S, c \in S, NEW s \in Nat, NEW e \in Nat, s <= e,
         UpdateColumns(S, s, e)
  PROVE  Covers(c, s, e)'
<1>1. PICK V : V = Covered(col[c], s, e) OBVIOUS
<1>2. col[c] \in Span \cup {None} /\ (col[c] # None => col[c].from <= col[c].to)
  BY DEF IInv, ColTypes, ColInv, Within
<1>3. PICK x : x = col[c] OBVIOUS
<1>4. x \in Span \cup {None} /\ (x # None => x.from <= x.to) /\ V = Covered(x, s, e)
  BY <1>1, <1>2, <1>3
<1>5. V # None /\ V.from <= s /\ e <= V.to
  <2>1. CASE x = None BY <1>4, <2>1, NoneAssumption DEF Covered, Span
  <2>2. CASE x # None
    <3>1. V # None /\ V.from = Least(s, x.from) /\ V.to = Greatest(e, x.to)
      BY <1>4, <2>2, CoveredFacts
    <3>2. x.from \in Nat /\ x.to \in Nat BY <1>4, <2>2, SpanTypes
    <3> QED BY <3>1, <3>2 DEF Least, Greatest
  <2> QED BY <2>1, <2>2
<1>6. col'[c] = V BY <1>1 DEF UpdateColumns
<1> QED BY <1>5, <1>6 DEF Covers

(* What was covered stays covered. *)
LEMMA Stays ==
  ASSUME IInv, NEW c \in Columns, NEW S, NEW s \in Nat, NEW e \in Nat, s <= e,
         UpdateColumns(S, s, e), NEW a \in Nat, NEW b \in Nat, Covers(c, a, b)
  PROVE  Covers(c, a, b)'
<1>1. CASE c \notin S BY <1>1 DEF Covers, UpdateColumns
<1>2. CASE c \in S
  <2>1. PICK V : V = Covered(col[c], s, e) OBVIOUS
  <2>2. /\ col[c] \in Span \cup {None} /\ (col[c] # None => col[c].from <= col[c].to)
        /\ col[c] # None /\ col[c].from <= a /\ b <= col[c].to
    BY DEF IInv, ColTypes, ColInv, Within, Covers
  <2>3. V # None /\ V.from = Least(s, col[c].from) /\ V.to = Greatest(e, col[c].to)
    BY <2>1, <2>2, CoveredFacts
  <2>4. col[c].from \in Nat /\ col[c].to \in Nat BY <2>2, SpanTypes
  <2>5. V.from <= a /\ b <= V.to BY <2>2, <2>3, <2>4 DEF Least, Greatest
  <2>6. col'[c] = V BY <1>2, <2>1 DEF UpdateColumns
  <2> QED BY <2>3, <2>5, <2>6 DEF Covers
<1> QED BY <1>1, <1>2

(* update leaves every column in view covered. *)
LEMMA UpdateCovers ==
  ASSUME IInv, NEW m, NEW v, NEW s \in Nat, NEW e \in Nat, s <= e,
         Update(m, v, s, e), m > 0, NEW c \in InView(m, v)
  PROVE  Covers(c, s, e)'
<1>1. m # 0
  <2> SUFFICES ASSUME m = 0 PROVE FALSE OBVIOUS
  <2> QED OBVIOUS
<1>2. UpdateColumns(InView(m, v), s, e) BY <1>1 DEF Update
<1>3. c \in Columns BY DEF InView
<1> QED BY <1>2, <1>3, Reaches

(* Whatever way the user scrolled, jumped and resized the window, every    *)
(* column in view covers the span of the page (update, setMain, setTime).  *)
THEOREM InViewCovered == Spec => []VisibleCovered
<1>1. Init => VisibleCovered BY DEF Init, VisibleCovered, InView, Columns
<1>2. ASSUME IInv, VisibleCovered, [Next]_vars PROVE VisibleCovered'
  <2> SUFFICES ASSUME NEW c \in InView(main', view'), main' > 0
               PROVE  col'[c] # None /\ col'[c].from <= start' /\ end' <= col'[c].to
    BY DEF VisibleCovered
  <2>1. start \in Nat /\ end \in Nat /\ start <= end BY <1>2 DEF IInv, PageInv
  <2>2. IInv' BY <1>2, NextStep
  <2>3. start' \in Nat /\ end' \in Nat /\ start' <= end' BY <2>2 DEF IInv, PageInv
  <2>4. c \in Columns BY DEF InView
  <2>5. PICK m : m = main' OBVIOUS
  <2>6. PICK v : v = view' OBVIOUS
  <2>7. PICK s : s = start' OBVIOUS
  <2>8. PICK e : e = end' OBVIOUS
  <2>9. ASSUME Update(m, v, s, e)
        PROVE  col'[c] # None /\ col'[c].from <= start' /\ end' <= col'[c].to
    <3>1. Covers(c, s, e)' BY <1>2, <2>3, <2>5, <2>6, <2>7, <2>8, <2>9, UpdateCovers
    <3> QED BY <2>7, <2>8, <3>1 DEF Covers
  <2>10. ASSUME UNCHANGED <<start, end, main, view>>
         PROVE  Covers(c, start, end)
    BY <1>2, <2>10 DEF VisibleCovered, Covers
  <2>11. ASSUME UNCHANGED <<start, end, main, view, col>>
         PROVE  col'[c] # None /\ col'[c].from <= start' /\ end' <= col'[c].to
    BY <2>10, <2>11 DEF Covers
  <2>12. ASSUME NEW w \in 1..MaxView, Resize(w) PROVE Update(m, v, s, e)
    BY <2>12, <2>5, <2>6, <2>7, <2>8 DEF Resize
  <2>13. ASSUME NEW i \in 0..Count, SetMain(i) PROVE Update(m, v, s, e)
    BY <2>13, <2>5, <2>6, <2>7, <2>8 DEF SetMain
  <2>14. ASSUME NEW t \in JumpTimes, SetTime(t)
         PROVE  Update(m, v, s, e) \/ UNCHANGED <<start, end, main, view, col>>
    BY <2>14, <2>5, <2>6, <2>7, <2>8 DEF SetTime
  <2>15. ASSUME LaterUpdate
         PROVE  col'[c] # None /\ col'[c].from <= start' /\ end' <= col'[c].to
    <3>1. UNCHANGED <<start, end, main, view>> BY <2>15 DEF LaterUpdate
    <3>2. Covers(c, s, e) BY <2>7, <2>8, <2>10, <3>1
    <3>3. UpdateColumns(Beside(main, view), s, e) BY <2>7, <2>8, <2>15, <3>1 DEF LaterUpdate
    <3>4. PICK S : S = Beside(main, view) OBVIOUS
    <3>5. Covers(c, s, e)' BY <1>2, <2>3, <2>4, <2>7, <2>8, <3>2, <3>3, <3>4, Stays
    <3> QED BY <2>7, <2>8, <3>5 DEF Covers
  <2>16. ASSUME NEW d \in Columns, NEW i \in 1..Len(load[d]), Answer(d, i) \/ Fail(d, i)
         PROVE  UNCHANGED <<start, end, main, view, col>>
    BY <2>16 DEF Answer, Fail
  <2>17. ASSUME UNCHANGED vars PROVE UNCHANGED <<start, end, main, view, col>>
    BY <2>17 DEF vars
  <2> QED BY <1>2, <2>9, <2>11, <2>12, <2>13, <2>14, <2>15, <2>16, <2>17 DEF Next
<1> QED BY <1>1, <1>2, Invariance, PTL DEF Spec

(* The numbers of programmes in a stretch of time follow each other. *)
LEMMA MinMax ==
  ASSUME NEW N \in Nat, NEW S \in SUBSET (1..N), S # {}
  PROVE  /\ Min(S) \in S /\ \A n \in S : Min(S) <= n
         /\ Max(S) \in S /\ \A n \in S : n <= Max(S)
<1>1. S \in SUBSET Nat /\ S \in SUBSET (0..N)
  OBVIOUS
<1>2. \E m \in S : \A n \in S : m <= n
  BY <1>1, LeastNatural
<1>3. \E m \in S : \A n \in S : n <= m
  BY <1>1, GreatestUpTo
<1>4. \E m \in S : \A n \in S : m >= n
  <2>1. \A m, n \in S : n <= m => m >= n
    OBVIOUS
  <2> QED  BY <1>3, <2>1
<1>5. Min(S) \in S /\ \A n \in S : Min(S) <= n
  BY <1>2, Zenon DEF Min
<1>6. Max(S) \in S /\ \A n \in S : Max(S) >= n
  BY <1>4, Zenon DEF Max
<1>7. \A m, n \in S : m >= n => n <= m
  OBVIOUS
<1> QED  BY <1>5, <1>6, <1>7

LEMMA SpanOfProgramme ==
  ASSUME NEW p \in Programme
  PROVE  p.start \in Nat /\ p.end \in Nat
BY DEF Programme

(* The programmes of channel c, in order of their beginning. *)
LEMMA EpgFacts ==
  ASSUME NEW c \in Columns
  PROVE  /\ Epg[c] \in Seq(Programme)
         /\ Len(Epg[c]) \in Nat
         /\ \A n \in 1..Len(Epg[c]) :
              /\ Epg[c][n] \in Programme /\ Epg[c][n].start \in Nat /\ Epg[c][n].end \in Nat
              /\ Epg[c][n] \in Range(Epg[c])
         /\ \A p \in Range(Epg[c]) : p \in Programme /\ \E n \in 1..Len(Epg[c]) : p = Epg[c][n]
         /\ \A i, j \in 1..Len(Epg[c]) : i < j => Epg[c][i].start < Epg[c][j].start
<1>1. PICK E : E = Epg[c]
  OBVIOUS
<1>2. E \in Seq(Programme) /\ Len(E) \in Nat
  BY <1>1, NumbersAssumption
<1>3. \A n \in 1..Len(E) : E[n] \in Programme /\ E[n].start \in Nat /\ E[n].end \in Nat
  BY <1>2, SpanOfProgramme
<1>4. /\ \A n \in 1..Len(E) : E[n] \in Range(E)
      /\ \A p \in Range(E) : \E n \in 1..Len(E) : p = E[n]
  BY <1>2 DEF Range
<1>5. \A i, j \in 1..Len(E) : i < j => E[i].start < E[j].start
  BY <1>1, EpgAssumption
<1> QED  BY <1>1, <1>2, <1>3, <1>4, <1>5

(* What channel c shows from lo to hi. *)
Answered(c, q, es) ==
  /\ es \in Seq(Programme)
  /\ \A n \in 1..Len(es) : q.lo <= es[n].start /\ es[n].start <= q.hi /\ es[n] \in Range(Epg[c])
  /\ \A i, j \in 1..Len(es) : i < j => es[i].start < es[j].start
  /\ \A p \in Range(Epg[c]) :
       q.lo <= p.start /\ p.start <= q.hi => \E n \in 1..Len(es) : es[n] = p

LEMMA InRangeFacts ==
  ASSUME NEW c \in Columns, NEW q, q.lo \in Nat, q.hi \in Nat
  PROVE  Answered(c, q, InRange(c, q))
<1> DEFINE E == Epg[c]
           N == {n \in 1..Len(E) : q.lo <= E[n].start /\ E[n].start <= q.hi}
<1>1. /\ E \in Seq(Programme) /\ Len(E) \in Nat
      /\ \A n \in 1..Len(E) : E[n] \in Programme /\ E[n].start \in Nat /\ E[n] \in Range(E)
      /\ \A p \in Range(E) : \E n \in 1..Len(E) : p = E[n]
      /\ \A i, j \in 1..Len(E) : i < j => E[i].start < E[j].start
  BY EpgFacts
<1>2. InRange(c, q) = IF N = {} THEN <<>> ELSE SubSeq(E, Min(N), Max(N))
  BY DEF InRange, Consecutive
<1>3. \A n \in 1..Len(E) : n \in N <=> q.lo <= E[n].start /\ E[n].start <= q.hi
  OBVIOUS
<1>4. N \in SUBSET (1..Len(E))
  OBVIOUS
<1>5. PICK es : es = InRange(c, q)
  OBVIOUS
<1> HIDE DEF E, N
<1>6. CASE N = {}
  <2>1. es = <<>>
    BY <1>2, <1>5, <1>6
  <2>2. es \in Seq(Programme) /\ 1..Len(es) = {}
    BY <2>1
  <2> QED  BY <1>1, <1>3, <1>5, <1>6, <2>2 DEF Answered, E
<1>7. CASE N # {}
  <2>1. PICK a, b : a = Min(N) /\ b = Max(N)
    OBVIOUS
  <2>2. /\ a \in 1..Len(E) /\ b \in 1..Len(E) /\ a \in N /\ b \in N
        /\ \A n \in N : a <= n /\ n <= b
    BY <1>1, <1>4, <1>7, <2>1, MinMax
  <2>3. es = SubSeq(E, a, b)
    BY <1>2, <1>5, <1>7, <2>1
  <2>4. /\ es \in Seq(Programme)
        /\ Len(es) = b - a + 1
        /\ \A n \in 1..Len(es) : es[n] = E[a + n - 1] /\ a + n - 1 \in 1..Len(E)
                                 /\ a <= a + n - 1 /\ a + n - 1 <= b
    <3>1. a <= b /\ a \in Nat /\ b \in Nat
      BY <2>2
    <3>2. \A i \in a..b : E[i] \in Programme
      BY <1>1, <2>2
    <3>3. /\ Len(es) = b - a + 1
          /\ \A n \in 1..(b - a + 1) : es[n] = E[a + n - 1]
          /\ es \in Seq(Programme)
      BY <1>1, <2>2, <2>3, <3>1, <3>2, SubSeqProperties
    <3>4. ASSUME NEW n \in 1..(b - a + 1)
          PROVE  a + n - 1 \in 1..Len(E) /\ a <= a + n - 1 /\ a + n - 1 <= b
      BY <1>1, <2>2, <3>1
    <3> QED  BY <3>3, <3>4
  <2>5. ASSUME NEW n \in 1..Len(E), a <= n, n <= b PROVE n \in N
    <3>1. q.lo <= E[a].start /\ E[b].start <= q.hi
      BY <1>3, <2>2
    <3>2. E[a].start <= E[n].start /\ E[n].start <= E[b].start
      <4>1. a = n \/ a < n
        BY <2>2, <2>5
      <4>2. n = b \/ n < b
        BY <2>2, <2>5
      <4> QED  BY <1>1, <2>2, <4>1, <4>2
    <3>3. E[a].start \in Nat /\ E[n].start \in Nat /\ E[b].start \in Nat
      BY <1>1, <2>2
    <3> QED  BY <1>3, <3>1, <3>2, <3>3, SMTT(30)
  <2>6. ASSUME NEW n \in 1..Len(es)
        PROVE  q.lo <= es[n].start /\ es[n].start <= q.hi /\ es[n] \in Range(E)
    <3>1. a + n - 1 \in N
      BY <2>4, <2>5
    <3> QED  BY <1>1, <1>3, <2>4, <3>1
  <2>7. ASSUME NEW i \in 1..Len(es), NEW j \in 1..Len(es), i < j
        PROVE  es[i].start < es[j].start
    <3>1. a + i - 1 < a + j - 1
      BY <2>2, <2>4, <2>7
    <3> QED  BY <1>1, <2>4, <3>1
  <2>8. ASSUME NEW p \in Range(E), q.lo <= p.start, p.start <= q.hi
        PROVE  \E n \in 1..Len(es) : es[n] = p
    <3>1. PICK m \in 1..Len(E) : p = E[m]
      BY <1>1
    <3>2. a <= m /\ m <= b
      BY <1>3, <2>2, <2>8, <3>1
    <3>3. m - a + 1 \in 1..Len(es) /\ a + (m - a + 1) - 1 = m
      BY <2>2, <2>4, <3>2
    <3> QED  BY <2>4, <3>1, <3>3
  <2> QED  BY <1>5, <2>4, <2>6, <2>7, <2>8 DEF Answered, E
<1> QED  BY <1>6, <1>7

LEMMA HeightNat ==
  ASSUME NEW p \in Programme, NEW t \in Nat
  PROVE  Height(p, t) \in Nat
BY NumbersAssumption, SpanOfProgramme DEF Height, Greatest

(* What the programmes es reach down to, one after the other. *)
LEMMA ReachValues ==
  ASSUME NEW es \in Seq(Programme), NEW t \in Nat
  PROVE  /\ Reach(es, t) \in [0..Len(es) -> Nat]
         /\ Reach(es, t)[0] = t
         /\ \A n \in 1..Len(es) :
              Reach(es, t)[n] = Reach(es, t)[n-1] + Height(es[n], Reach(es, t)[n-1])
<1> DEFINE N == Len(es)
           step == [x \in (1..N) \X Nat |-> x[2] + Height(es[x[1]], x[2])]
<1>1. N \in Nat /\ \A n \in 1..N : es[n] \in Programme
  OBVIOUS
<1>2. step \in [(1..N) \X Nat -> Nat]
  <2>1. ASSUME NEW x \in (1..N) \X Nat PROVE x[2] + Height(es[x[1]], x[2]) \in Nat
    <3>1. x[1] \in 1..N /\ x[2] \in Nat
      OBVIOUS
    <3>2. Height(es[x[1]], x[2]) \in Nat
      BY <1>1, <3>1, HeightNat
    <3> QED  BY <3>1, <3>2
  <2> QED  BY <2>1
<1>3. \A n \in 1..N, k \in Nat : step[<<n, k>>] = k + Height(es[n], k)
  OBVIOUS
<1> HIDE DEF N, step
<1>4. PICK g \in [0..N -> Nat] : g[0] = t /\ \A n \in 1..N : g[n] = step[<<n, g[n-1]>>]
  BY <1>1, <1>2, RecursiveFunction
<1>5. \A n \in 1..N : g[n] = g[n-1] + Height(es[n], g[n-1])
  <2>1. \A n \in 1..N : n - 1 \in 0..N
    BY <1>1
  <2> QED  BY <1>3, <1>4, <2>1
<1>6. g = [n \in 0..N |-> IF n = 0 THEN t ELSE g[n-1] + Height(es[n], g[n-1])]
  <2>1. \A n \in 0..N : n # 0 => n \in 1..N
    BY <1>1
  <2> QED  BY <1>4, <1>5, <2>1
<1>7. PICK f : f = Reach(es, t)
  OBVIOUS
<1>8. f = [n \in 0..N |-> IF n = 0 THEN t ELSE f[n-1] + Height(es[n], f[n-1])]
  BY <1>6, <1>7, Zenon DEF Reach, N
<1>9. f[0] = t /\ \A n \in 1..N : f[n] = f[n-1] + Height(es[n], f[n-1])
  <2>1. 0 \in 0..N /\ \A n \in 1..N : n \in 0..N /\ n # 0
    BY <1>1
  <2> QED  BY <1>8, <2>1
<1>10. 0..N \subseteq {n \in 0..N : f[n] \in Nat}
  <2> DEFINE T == {n \in 0..N : f[n] \in Nat}
  <2>1. 0 \in T
    BY <1>1, <1>9
  <2>2. ASSUME NEW n \in T, n \in 0..(N - 1) PROVE n + 1 \in T
    <3>1. n + 1 \in 1..N /\ n + 1 \in 0..N /\ (n + 1) - 1 = n
      BY <1>1, <2>2
    <3>2. f[n + 1] = f[n] + Height(es[n + 1], f[n])
      BY <1>9, <3>1
    <3>3. f[n] \in Nat /\ Height(es[n + 1], f[n]) \in Nat
      BY <1>1, <3>1, HeightNat
    <3> QED  BY <3>1, <3>2, <3>3
  <2> HIDE DEF T
  <2> QED  BY <1>1, <2>1, <2>2, BoundedInduction DEF T
<1>11. f \in [0..N -> Nat]
  BY <1>8, <1>10
<1> QED  BY <1>7, <1>9, <1>11 DEF N

(* How far down boxes reach. *)
LEMMA BottomValues ==
  ASSUME NEW bs \in Seq(Box), NEW t \in Nat
  PROVE  /\ Bottom(bs, t) \in [0..Len(bs) -> Nat]
         /\ Bottom(bs, t)[0] = t
         /\ \A n \in 1..Len(bs) : Bottom(bs, t)[n] = Bottom(bs, t)[n-1] + bs[n].height
<1> DEFINE N == Len(bs)
           step == [x \in (1..N) \X Nat |-> x[2] + bs[x[1]].height]
<1>1. N \in Nat /\ \A n \in 1..N : bs[n].height \in Nat
  <2>1. \A n \in 1..N : bs[n] \in Box
    OBVIOUS
  <2>2. \A b \in Box : b.height \in Nat
    BY DEF Box
  <2> QED  BY <2>1, <2>2
<1>2. step \in [(1..N) \X Nat -> Nat]
  <2>1. ASSUME NEW x \in (1..N) \X Nat PROVE x[2] + bs[x[1]].height \in Nat
    <3>1. x[1] \in 1..N /\ x[2] \in Nat
      OBVIOUS
    <3> QED  BY <1>1, <3>1
  <2> QED  BY <2>1
<1>3. \A n \in 1..N, k \in Nat : step[<<n, k>>] = k + bs[n].height
  OBVIOUS
<1> HIDE DEF N, step
<1>4. PICK g \in [0..N -> Nat] : g[0] = t /\ \A n \in 1..N : g[n] = step[<<n, g[n-1]>>]
  BY <1>1, <1>2, RecursiveFunction
<1>5. \A n \in 1..N : g[n] = g[n-1] + bs[n].height
  <2>1. \A n \in 1..N : n - 1 \in 0..N
    BY <1>1
  <2> QED  BY <1>3, <1>4, <2>1
<1>6. g = [n \in 0..N |-> IF n = 0 THEN t ELSE g[n-1] + bs[n].height]
  <2>1. \A n \in 0..N : n # 0 => n \in 1..N
    BY <1>1
  <2> QED  BY <1>4, <1>5, <2>1
<1>7. PICK f : f = Bottom(bs, t)
  OBVIOUS
<1>8. f = [n \in 0..N |-> IF n = 0 THEN t ELSE f[n-1] + bs[n].height]
  BY <1>6, <1>7, Zenon DEF Bottom, N
<1>9. f[0] = t /\ \A n \in 1..N : f[n] = f[n-1] + bs[n].height
  <2>1. 0 \in 0..N /\ \A n \in 1..N : n \in 0..N /\ n # 0
    BY <1>1
  <2> QED  BY <1>8, <2>1
<1>10. 0..N \subseteq {n \in 0..N : f[n] \in Nat}
  <2> DEFINE T == {n \in 0..N : f[n] \in Nat}
  <2>1. 0 \in T
    BY <1>1, <1>9
  <2>2. ASSUME NEW n \in T, n \in 0..(N - 1) PROVE n + 1 \in T
    <3>1. n + 1 \in 1..N /\ n + 1 \in 0..N /\ (n + 1) - 1 = n
      BY <1>1, <2>2
    <3>2. f[n + 1] = f[n] + bs[n + 1].height
      BY <1>9, <3>1
    <3> QED  BY <1>1, <3>1, <3>2
  <2> HIDE DEF T
  <2> QED  BY <1>1, <2>1, <2>2, BoundedInduction DEF T
<1>11. f \in [0..N -> Nat]
  BY <1>8, <1>10
<1> QED  BY <1>7, <1>9, <1>11 DEF N

(* The boxes of the programmes es, from t downwards. *)
LEMMA BoxesFacts ==
  ASSUME NEW es \in Seq(Programme), NEW t \in Nat
  PROVE  /\ Boxes(es, t) \in Seq(Box)
         /\ Len(Boxes(es, t)) = Len(es)
         /\ \A n \in 1..Len(es) :
              /\ Boxes(es, t)[n].at = es[n].start
              /\ es[n].start \in Nat /\ ~IsGap(Boxes(es, t)[n])
              /\ Boxes(es, t)[n].height = Height(es[n], Reach(es, t)[n-1])
<1>1. Len(es) \in Nat /\ \A n \in 1..Len(es) : es[n] \in Programme /\ es[n].start \in Nat
  BY SpanOfProgramme
<1>2. ASSUME NEW n \in 1..Len(es)
      PROVE  [at |-> es[n].start, height |-> Height(es[n], Reach(es, t)[n-1])] \in Box
  <2>1. n - 1 \in 0..Len(es)
    BY <1>1
  <2>2. Reach(es, t)[n-1] \in Nat
    BY <2>1, ReachValues
  <2>3. Height(es[n], Reach(es, t)[n-1]) \in Nat
    BY <1>1, <2>2, HeightNat
  <2> QED  BY <1>1, <2>3 DEF Box
<1>3. PICK B : B = Boxes(es, t)
  OBVIOUS
<1>4. B = [n \in 1..Len(es) |-> [at |-> es[n].start, height |-> Height(es[n], Reach(es, t)[n-1])]]
  BY <1>3 DEF Boxes
<1>5. B \in Seq(Box) /\ Len(B) = Len(es)
  BY <1>1, <1>2, <1>4
<1>6. \A n \in 1..Len(es) :
        /\ B[n].at = es[n].start
        /\ B[n].height = Height(es[n], Reach(es, t)[n-1])
  BY <1>4
<1> QED  BY <1>1, <1>3, <1>5, <1>6, NoneAssumption DEF IsGap

(* They reach down as far as the programmes do. *)
LEMMA BottomOfBoxes ==
  ASSUME NEW es \in Seq(Programme), NEW t \in Nat
  PROVE  \A n \in 0..Len(es) : Bottom(Boxes(es, t), t)[n] = Reach(es, t)[n]
<1>1. PICK B : B = Boxes(es, t)
  OBVIOUS
<1>2. PICK f : f = Bottom(B, t)
  OBVIOUS
<1>3. PICK r : r = Reach(es, t)
  OBVIOUS
<1>4. /\ Len(es) \in Nat /\ B \in Seq(Box) /\ Len(B) = Len(es)
      /\ \A n \in 1..Len(es) : B[n].height = Height(es[n], r[n-1])
  BY <1>1, <1>3, BoxesFacts
<1>5. f[0] = t /\ \A n \in 1..Len(es) : f[n] = f[n-1] + B[n].height
  BY <1>2, <1>4, BottomValues
<1>6. r[0] = t /\ \A n \in 1..Len(es) : r[n] = r[n-1] + Height(es[n], r[n-1])
  BY <1>3, ReachValues
<1> DEFINE T == {n \in 0..Len(es) : f[n] = r[n]}
<1>7. 0 \in T
  BY <1>4, <1>5, <1>6
<1>8. ASSUME NEW n \in T, n \in 0..(Len(es) - 1) PROVE n + 1 \in T
  <2>1. n + 1 \in 1..Len(es) /\ n + 1 \in 0..Len(es) /\ (n + 1) - 1 = n
    BY <1>4, <1>8
  <2>2. f[n + 1] = f[n] + B[n + 1].height /\ r[n + 1] = r[n] + Height(es[n + 1], r[n])
    BY <1>5, <1>6, <2>1
  <2>3. B[n + 1].height = Height(es[n + 1], r[n]) /\ f[n] = r[n]
    BY <1>4, <2>1
  <2> QED  BY <2>1, <2>2, <2>3
<1>9. 0..Len(es) \subseteq T
  <2> HIDE DEF T
  <2> QED  BY <1>4, <1>7, <1>8, BoundedInduction
<1> QED  BY <1>1, <1>2, <1>3, <1>9

(* Boxes put below others do not move those, and begin where they end. *)
LEMMA BottomOfConcat ==
  ASSUME NEW a \in Seq(Box), NEW b \in Seq(Box), NEW t \in Nat
  PROVE  LET f == Bottom(a \o b, t)
             u == Bottom(a, t)[Len(a)]
         IN /\ \A n \in 0..Len(a) : f[n] = Bottom(a, t)[n]
            /\ u \in Nat
            /\ \A n \in 0..Len(b) : f[Len(a) + n] = Bottom(b, u)[n]
<1>1. PICK f : f = Bottom(a \o b, t)
  OBVIOUS
<1>2. PICK g : g = Bottom(a, t)
  OBVIOUS
<1>3. /\ a \o b \in Seq(Box) /\ Len(a) \in Nat /\ Len(b) \in Nat
      /\ Len(a \o b) = Len(a) + Len(b)
      /\ \A i \in 1..Len(a) + Len(b) : (a \o b)[i] = IF i <= Len(a) THEN a[i] ELSE b[i - Len(a)]
  BY ConcatProperties
<1>4. f[0] = t /\ \A n \in 1..(Len(a) + Len(b)) : f[n] = f[n-1] + (a \o b)[n].height
  <2>1. PICK h : h = a \o b
    OBVIOUS
  <2>2. h \in Seq(Box) /\ Len(h) = Len(a) + Len(b) /\ f = Bottom(h, t)
    BY <1>1, <1>3, <2>1
  <2>3. f[0] = t /\ \A n \in 1..Len(h) : f[n] = f[n-1] + h[n].height
    BY <2>2, BottomValues
  <2> QED  BY <2>1, <2>2, <2>3
<1>5. g \in [0..Len(a) -> Nat] /\ g[0] = t /\ \A n \in 1..Len(a) : g[n] = g[n-1] + a[n].height
  BY <1>2, BottomValues
<1>6. \A n \in 0..Len(a) : f[n] = g[n]
  <2> DEFINE T == {n \in 0..Len(a) : f[n] = g[n]}
  <2>1. 0 \in T
    BY <1>3, <1>4, <1>5
  <2>2. ASSUME NEW n \in T, n \in 0..(Len(a) - 1) PROVE n + 1 \in T
    <3>1. /\ n + 1 \in 1..Len(a) /\ n + 1 \in 0..Len(a) /\ (n + 1) - 1 = n
          /\ n + 1 \in 1..(Len(a) + Len(b)) /\ n + 1 <= Len(a)
      BY <1>3, <2>2
    <3>2. (a \o b)[n + 1] = a[n + 1]
      BY <1>3, <3>1
    <3>3. f[n + 1] = f[n] + a[n + 1].height /\ g[n + 1] = g[n] + a[n + 1].height
      BY <1>4, <1>5, <3>1, <3>2
    <3> QED  BY <3>1, <3>3
  <2>3. 0..Len(a) \subseteq T
    <3> HIDE DEF T
    <3> QED  BY <1>3, <2>1, <2>2, BoundedInduction
  <2> QED  BY <2>3
<1>7. PICK u : u = g[Len(a)]
  OBVIOUS
<1>8. u \in Nat /\ f[Len(a)] = u
  <2>1. Len(a) \in 0..Len(a)
    BY <1>3
  <2> QED  BY <1>5, <1>6, <1>7, <2>1
<1>9. PICK h : h = Bottom(b, u)
  OBVIOUS
<1>10. h[0] = u /\ \A n \in 1..Len(b) : h[n] = h[n-1] + b[n].height
  BY <1>8, <1>9, BottomValues
<1>11. \A n \in 0..Len(b) : f[Len(a) + n] = h[n]
  <2> DEFINE T == {n \in 0..Len(b) : f[Len(a) + n] = h[n]}
  <2>1. 0 \in T
    <3>1. Len(a) + 0 = Len(a) /\ 0 \in 0..Len(b)
      BY <1>3
    <3> QED  BY <1>8, <1>10, <3>1
  <2>2. ASSUME NEW n \in T, n \in 0..(Len(b) - 1) PROVE n + 1 \in T
    <3>1. /\ n + 1 \in 1..Len(b) /\ n + 1 \in 0..Len(b) /\ (n + 1) - 1 = n
          /\ Len(a) + (n + 1) \in 1..(Len(a) + Len(b)) /\ ~(Len(a) + (n + 1) <= Len(a))
          /\ Len(a) + (n + 1) - Len(a) = n + 1
          /\ Len(a) + (n + 1) - 1 = Len(a) + n
      BY <1>3, <2>2
    <3>2. (a \o b)[Len(a) + (n + 1)] = b[n + 1]
      BY <1>3, <3>1
    <3>3. f[Len(a) + (n + 1)] = f[Len(a) + n] + b[n + 1].height
      BY <1>4, <3>1, <3>2
    <3>4. h[n + 1] = h[n] + b[n + 1].height /\ f[Len(a) + n] = h[n]
      BY <1>10, <3>1
    <3> QED  BY <3>1, <3>3, <3>4
  <2>3. 0..Len(b) \subseteq T
    <3> HIDE DEF T
    <3> QED  BY <1>3, <2>1, <2>2, BoundedInduction
  <2> QED  BY <2>3
<1> QED  BY <1>1, <1>2, <1>6, <1>7, <1>8, <1>9, <1>11

-----------------------------------------------------------------------------
(* What a column shows.  Of the requests L of a column a later one is      *)
(* above or below all before it, as `after' says, and together they cover  *)
(* what the column does.                                                   *)
Outward(L) ==
  \A i, j \in 1..Len(L) : i < j =>
    IF L[j].after THEN L[i].hi <= L[j].lo ELSE L[j].hi <= L[i].lo

Whole(x, L) ==
  x # None =>
    /\ Len(L) > 0 /\ ~L[1].after
    /\ \A i \in 1..Len(L) : L[i].lo <= L[i].hi
    /\ \A t \in Nat : x.from <= t /\ t <= x.to =>
         \E i \in 1..Len(L) : L[i].lo <= t /\ t <= L[i].hi

(* A moment t of column c has been answered. *)
Here(L, t) == \E i \in 1..Len(L) : L[i].st = "in" /\ L[i].lo <= t /\ t <= L[i].hi

(* No answer came before that of an earlier request. *)
Arrived(L) == \A i, j \in 1..Len(L) : i < j /\ L[j].st = "in" => L[i].st # "out"

(* Nothing was lost, no programme starts where two requests meet, and none *)
(* of the requests is without programmes.                                  *)
Joint(q) == IF q.after THEN q.lo ELSE q.hi

Calm(c, L) ==
  \A i \in 1..Len(L) :
    /\ L[i].st # "lost"
    /\ \E p \in Range(Epg[c]) : L[i].lo <= p.start /\ p.start <= L[i].hi
    /\ i > 1 => \A p \in Range(Epg[c]) : p.start # Joint(L[i])

(* The boxes B show programmes of what was answered, in order, *)
Placed(c, L, B) ==
  \A n \in 1..Len(B) : ~IsGap(B[n]) =>
    B[n].at \in Nat /\ Here(L, B[n].at) /\ \E p \in Range(Epg[c]) : p.start = B[n].at

Ordered(B) ==
  \A i, j \in 1..Len(B) : i < j /\ ~IsGap(B[i]) /\ ~IsGap(B[j]) => B[i].at < B[j].at

(* all of them, *)
Filled(c, L, B) ==
  Calm(c, L) =>
    /\ \A n \in 1..Len(B) : ~IsGap(B[n])
    /\ \A p \in Range(Epg[c]) : Here(L, p.start) => \E n \in 1..Len(B) : B[n].at = p.start

(* and downwards at their place: d is how far down they reach. *)
Down(c, L) == Calm(c, L) /\ \A i \in 2..Len(L) : L[i].after

Stepping(c, x, L, B, m, d) ==
  Down(c, L) /\ B # <<>> =>
    /\ \A n \in 1..Len(B) : \E p \in Range(Epg[c]) :
         /\ p.start = B[n].at
         /\ B[n].height = Height(p, Bottom(B, x.from + m)[n-1])
    /\ d = Bottom(B, x.from + m)[Len(B)]

ColumnInv(c, x, L, B, m, d, late) ==
  /\ Outward(L) /\ Whole(x, L) /\ Placed(c, L, B)
  /\ ~late => Arrived(L) /\ Ordered(B) /\ Filled(c, L, B) /\ Stepping(c, x, L, B, m, d)

BoxInv ==
  \A c \in Columns :
    ColumnInv(c, col[c], load[c], box[c], margin[c], eTime[c], c \in overtaken)

BoxTypes ==
  /\ main \in 0..Count /\ view \in Nat
  /\ later \in 0..MaxLater
  /\ box \in [Columns -> Seq(Box)]
  /\ margin \in [Columns -> Nat]
  /\ eTime \in [Columns -> Nat]
  /\ overtaken \subseteq Columns
  /\ lost \in 0..MaxLost

-----------------------------------------------------------------------------
(* What a column that covers x asks for is above or below it.             *)
AskedBeyond(x, V, A) ==
  /\ x = None => Len(A) = 1 /\ ~A[1].after
  /\ x # None => \A j \in 1..Len(A) : IF A[j].after THEN x.to <= A[j].lo ELSE A[j].hi <= x.from
  /\ \A j, k \in 1..Len(A) : j < k => A[k].after /\ A[j].hi <= A[k].lo
  /\ \A t \in Nat : V.from <= t /\ t <= V.to =>
       \/ x # None /\ x.from <= t /\ t <= x.to
       \/ \E j \in 1..Len(A) : A[j].lo <= t /\ t <= A[j].hi

LEMMA AskedOutward ==
  ASSUME NEW x \in Span \cup {None}, NEW s \in Nat, NEW e \in Nat, s <= e,
         x # None => x.from <= x.to,
         NEW A, A = Asked(x, s, e), NEW V, V = Covered(x, s, e)
  PROVE  AskedBeyond(x, V, A)
<1>1. CASE x = None
  <2>1. A = <<Ask(s, e, FALSE)>> BY <1>1 DEF Asked
  <2>2. A[1] = Ask(s, e, FALSE) /\ Len(A) = 1 BY <2>1
  <2>3. V = [from |-> s, to |-> e] BY <1>1 DEF Covered
  <2>4. A[1].lo = s /\ A[1].hi = e /\ ~A[1].after BY <2>2 DEF Ask
  <2>5. V.from = s /\ V.to = e BY <2>3
  <2>6. 1 \in 1..Len(A) /\ \A j \in 1..Len(A) : j = 1 BY <2>2
  <2> QED BY <1>1, <2>2, <2>4, <2>5, <2>6 DEF AskedBeyond
<1>2. CASE x # None
  <2> DEFINE p == Ask(s, x.from, FALSE)
             q == Ask(x.to, e, TRUE)
  <2>1. x.from \in Nat /\ x.to \in Nat /\ x.from <= x.to BY <1>2, SpanTypes
  <2>2. A = (IF s < x.from THEN <<p>> ELSE <<>>) \o (IF e > x.to THEN <<q>> ELSE <<>>)
    BY <1>2 DEF Asked
  <2>3. V.from = Least(s, x.from) /\ V.to = Greatest(e, x.to) BY <1>2, CoveredFacts
  <2>4. p \in Request /\ q \in Request BY <2>1 DEF Ask, Request
  <2>5. /\ p.lo = s /\ p.hi = x.from /\ ~p.after
        /\ q.lo = x.to /\ q.hi = e /\ q.after
    BY DEF Ask
  <2> HIDE DEF p, q
  <2>6. <<p>> \in Seq(Request) /\ <<q>> \in Seq(Request) BY <2>4
  <2>7. CASE s < x.from /\ e > x.to
    <3>1. Len(A) = 2 /\ A[1] = p /\ A[2] = q
      BY <2>2, <2>4, <2>7, TwoRequests
    <3>2. V.from = s /\ V.to = e BY <2>1, <2>3, <2>7 DEF Least, Greatest
    <3>3. 1 \in 1..Len(A) /\ 2 \in 1..Len(A) /\ \A j \in 1..Len(A) : j = 1 \/ j = 2 BY <3>1
    <3> QED BY <1>2, <2>1, <2>5, <2>7, <3>1, <3>2, <3>3 DEF AskedBeyond
  <2>8. CASE s < x.from /\ ~(e > x.to)
    <3>1. A = <<p>> BY <2>2, <2>6, <2>8, ConcatEmptySeq
    <3>2. Len(A) = 1 /\ A[1] = p BY <2>6, <3>1
    <3>3. V.from = s /\ V.to = x.to BY <2>1, <2>3, <2>8 DEF Least, Greatest
    <3>4. 1 \in 1..Len(A) /\ \A j \in 1..Len(A) : j = 1 BY <3>2
    <3> QED BY <1>2, <2>1, <2>5, <2>8, <3>2, <3>3, <3>4 DEF AskedBeyond
  <2>9. CASE ~(s < x.from) /\ e > x.to
    <3>1. A = <<q>> BY <2>2, <2>6, <2>9, ConcatEmptySeq
    <3>2. Len(A) = 1 /\ A[1] = q BY <2>6, <3>1
    <3>3. V.from = x.from /\ V.to = e BY <2>1, <2>3, <2>9 DEF Least, Greatest
    <3>4. 1 \in 1..Len(A) /\ \A j \in 1..Len(A) : j = 1 BY <3>2
    <3> QED BY <1>2, <2>1, <2>5, <2>9, <3>2, <3>3, <3>4 DEF AskedBeyond
  <2>10. CASE ~(s < x.from) /\ ~(e > x.to)
    <3>1. A = <<>> BY <2>2, <2>10
    <3>2. Len(A) = 0 BY <3>1
    <3>3. V.from = x.from /\ V.to = x.to BY <2>1, <2>3, <2>10 DEF Least, Greatest
    <3> QED BY <1>2, <2>1, <3>2, <3>3 DEF AskedBeyond
  <2> QED BY <2>7, <2>8, <2>9, <2>10
<1> QED BY <1>1, <1>2

(* A column that was only continued downwards begins with its first request. *)
LEMMA FirstRequest ==
  ASSUME NEW x \in Span, NEW L \in Seq(Request), Within(x, L), Outward(L), Whole(x, L),
         \A i \in 2..Len(L) : L[i].after
  PROVE  x.from = L[1].lo
<1>1. x # None /\ x.from \in Nat /\ x.to \in Nat /\ x.from <= x.to
  BY SpanTypes DEF Within
<1>2. Len(L) \in Nat /\ \A i \in 1..Len(L) : L[i].lo \in Nat /\ L[i].hi \in Nat
  BY RequestTypes
<1>3. PICK i \in 1..Len(L) : L[i].lo <= x.from
  BY <1>1 DEF Whole
<1>4. L[i].lo = x.from
  BY <1>1, <1>2, <1>3 DEF Within
<1>5. CASE i = 1
  BY <1>4, <1>5
<1>6. CASE i # 1
  <2>1. 1 \in 1..Len(L) /\ 1 < i /\ i \in 2..Len(L)
    BY <1>2, <1>6
  <2>2. L[1].hi <= L[i].lo
    BY <2>1 DEF Outward
  <2>3. x.from <= L[1].lo /\ L[1].lo <= L[1].hi
    BY <1>1, <2>1 DEF Within, Whole
  <2> QED  BY <1>1, <1>2, <1>4, <2>1, <2>2, <2>3
<1> QED  BY <1>5, <1>6

(* The requests of a column that asks for more. *)
Continued(L, M) ==
  /\ Len(L) \in Nat /\ Len(M) \in Nat /\ Len(L) <= Len(M)
  /\ \A i \in 1..Len(L) : M[i] = L[i]
  /\ \A i \in 1..Len(M) : i \in 1..Len(L) \/ M[i].st = "out"

LEMMA ContinuedCalm ==
  ASSUME NEW c, NEW L, NEW M, Continued(L, M)
  PROVE  /\ Calm(c, M) => Calm(c, L)
         /\ Down(c, M) => Down(c, L)
         /\ \A t : Here(M, t) <=> Here(L, t)
         /\ Arrived(L) => Arrived(M)
<1>1. \A i \in 1..Len(L) : i \in 1..Len(M) /\ M[i] = L[i]
  BY DEF Continued
<1>2. \A i \in 2..Len(L) : i \in 2..Len(M) /\ M[i] = L[i]
  BY DEF Continued
<1>3. \A i \in 1..Len(M) : M[i].st = "in" => i \in 1..Len(L) /\ M[i] = L[i]
  BY DEF Continued
<1>4. Calm(c, M) => Calm(c, L)
  BY <1>1 DEF Calm
<1>5. Down(c, M) => Down(c, L)
  BY <1>2, <1>4 DEF Down
<1>6. \A t : Here(M, t) <=> Here(L, t)
  BY <1>1, <1>3 DEF Here
<1>7. Arrived(L) => Arrived(M)
  <2>1. SUFFICES ASSUME Arrived(L), NEW i \in 1..Len(M), NEW j \in 1..Len(M),
                        i < j, M[j].st = "in"
                 PROVE  M[i].st # "out"
    BY DEF Arrived
  <2>2. j \in 1..Len(L) /\ M[j] = L[j]
    BY <1>3, <2>1
  <2>3. i \in 1..Len(L) /\ M[i] = L[i]
    BY <1>1, <2>1, <2>2 DEF Continued
  <2> QED  BY <2>1, <2>2, <2>3 DEF Arrived
<1> QED  BY <1>4, <1>5, <1>6, <1>7

(* A column asks for more. *)
GrownOut(L, V, M) ==
  Outward(M) /\ Whole(V, M) /\ Continued(L, M) /\ V \in Span /\ M \in Seq(Request)

LEMMA AskedColumn ==
  ASSUME NEW x \in Span \cup {None}, NEW L \in Seq(Request), Within(x, L),
         NEW s \in Nat, NEW e \in Nat, s <= e,
         NEW A, A = Asked(x, s, e), NEW V, V = Covered(x, s, e), NEW M, M = L \o A,
         Outward(L), Whole(x, L)
  PROVE  GrownOut(L, V, M)
<1>0. x # None => x.from <= x.to BY DEF Within
<1>1. Beyond(x, V, A) BY <1>0, AskedFacts
<1>2. AskedBeyond(x, V, A) BY <1>0, AskedOutward
<1>3. A \in Seq(Request) /\ Len(A) \in Nat
      /\ \A j \in 1..Len(A) : A[j].st = "out" /\ A[j].lo \in Nat /\ A[j].hi \in Nat /\ A[j].lo <= A[j].hi
  BY <1>1 DEF Beyond
<1>4. Len(L) \in Nat /\ \A i \in 1..Len(L) : L[i].lo \in Nat /\ L[i].hi \in Nat
  BY RequestTypes
<1>5. V \in Span /\ V # None
  BY <1>0, CoveredFacts, ZenonT(30)
<1>6. /\ M \in Seq(Request)
      /\ Len(M) = Len(L) + Len(A)
      /\ \A i \in 1..Len(L) : i \in 1..Len(M) /\ M[i] = L[i]
      /\ \A i \in 1..Len(A) : Len(L) + i \in 1..Len(M) /\ M[Len(L) + i] = A[i]
  BY <1>3, <1>4, ConcatProperties
<1>7. \A k \in 1..Len(M) :
         (k \in 1..Len(L) /\ M[k] = L[k]) \/ \E i \in 1..Len(A) : k = Len(L) + i /\ M[k] = A[i]
  <2>1. SUFFICES ASSUME NEW k \in 1..Len(M), k \notin 1..Len(L)
                 PROVE  \E i \in 1..Len(A) : k = Len(L) + i /\ M[k] = A[i]
    BY <1>6
  <2>2. PICK h \in 1..Len(A) : k = Len(L) + h
    <3>1. k - Len(L) \in 1..Len(A) /\ k = Len(L) + (k - Len(L))
      BY <1>3, <1>4, <1>6, <2>1
    <3> QED  BY <3>1
  <2>3. M[Len(L) + h] = A[h]
    BY <1>6
  <2> QED  BY <2>2, <2>3
<1>8. Continued(L, M)
  <2>1. Len(M) \in Nat /\ Len(L) <= Len(M)
    BY <1>3, <1>4, <1>6
  <2>2. \A i \in 1..Len(M) : i \in 1..Len(L) \/ M[i].st = "out"
    BY <1>3, <1>7, SMTT(30)
  <2> QED  BY <1>4, <1>6, <2>1, <2>2 DEF Continued
<1>9. Outward(M)
  <2>1. SUFFICES ASSUME NEW i \in 1..Len(M), NEW j \in 1..Len(M), i < j
                 PROVE  IF M[j].after THEN M[i].hi <= M[j].lo ELSE M[j].hi <= M[i].lo
    BY DEF Outward
  <2>2. CASE j \in 1..Len(L) /\ M[j] = L[j]
    <3>1. i \in 1..Len(L) /\ M[i] = L[i]
      BY <1>4, <1>6, <2>1, <2>2
    <3> QED  BY <2>1, <2>2, <3>1 DEF Outward
  <2>3. ASSUME NEW k \in 1..Len(A), j = Len(L) + k, M[j] = A[k], i \in 1..Len(L), M[i] = L[i]
        PROVE  IF M[j].after THEN M[i].hi <= M[j].lo ELSE M[j].hi <= M[i].lo
    <3>1. x # None /\ x.from <= L[i].lo /\ L[i].hi <= x.to
      BY <1>4, <2>3 DEF Within
    <3>2. IF A[k].after THEN x.to <= A[k].lo ELSE A[k].hi <= x.from
      BY <1>2, <3>1 DEF AskedBeyond
    <3>3. x.from \in Nat /\ x.to \in Nat
      BY <3>1, SpanTypes
    <3> QED  BY <1>3, <1>4, <2>3, <3>1, <3>2, <3>3, SMTT(30)
  <2>4. ASSUME NEW k \in 1..Len(A), j = Len(L) + k, M[j] = A[k],
               NEW h \in 1..Len(A), i = Len(L) + h, M[i] = A[h]
        PROVE  IF M[j].after THEN M[i].hi <= M[j].lo ELSE M[j].hi <= M[i].lo
    <3>1. h < k
      BY <1>4, <2>1, <2>4
    <3> QED  BY <1>2, <2>4, <3>1 DEF AskedBeyond
  <2> QED  BY <1>7, <2>2, <2>3, <2>4
<1>10. Whole(V, M)
  <2>1. Len(M) > 0 /\ ~M[1].after
    <3>1. CASE x = None
      <4>1. L = <<>> /\ Len(A) = 1 /\ ~A[1].after
        BY <1>2, <3>1 DEF Within, AskedBeyond
      <4>2. Len(L) = 0
        BY <4>1
      <4>3. 1 \in 1..Len(A) /\ Len(L) + 1 = 1
        BY <4>1, <4>2
      <4>4. M[Len(L) + 1] = A[1]
        BY <1>6, <4>3
      <4> QED  BY <1>6, <4>1, <4>2, <4>3, <4>4
    <3>2. CASE x # None
      <4>1. Len(L) > 0 /\ ~L[1].after
        BY <3>2 DEF Whole
      <4>2. 1 \in 1..Len(L)
        BY <1>4, <4>1
      <4> QED  BY <1>3, <1>4, <1>6, <4>1, <4>2
    <3> QED  BY <3>1, <3>2
  <2>2. ASSUME NEW k \in 1..Len(M) PROVE M[k].lo <= M[k].hi
    <3>1. CASE k \in 1..Len(L) /\ M[k] = L[k]
      <4>1. x # None
        <5>1. SUFFICES ASSUME x = None PROVE FALSE
          OBVIOUS
        <5>2. Len(L) = 0
          BY <5>1 DEF Within
        <5> QED  BY <3>1, <5>2
      <4> QED  BY <3>1, <4>1 DEF Whole
    <3> QED  BY <1>3, <1>7, <3>1
  <2>3. ASSUME NEW t \in Nat, V.from <= t, t <= V.to
        PROVE  \E k \in 1..Len(M) : M[k].lo <= t /\ t <= M[k].hi
    <3>1. CASE x # None /\ x.from <= t /\ t <= x.to
      <4>1. PICK i \in 1..Len(L) : L[i].lo <= t /\ t <= L[i].hi
        BY <3>1 DEF Whole
      <4> QED  BY <1>6, <4>1
    <3>2. CASE \E j \in 1..Len(A) : A[j].lo <= t /\ t <= A[j].hi
      BY <1>6, <3>2
    <3> QED  BY <1>2, <2>3, <3>1, <3>2 DEF AskedBeyond
  <2> QED  BY <2>1, <2>2, <2>3 DEF Whole
<1> QED  BY <1>5, <1>6, <1>8, <1>9, <1>10 DEF GrownOut

LEMMA ColumnAsks ==
  ASSUME NEW c \in Columns, NEW x \in Span \cup {None}, NEW L \in Seq(Request), Within(x, L),
         NEW s \in Nat, NEW e \in Nat, s <= e, SideBySide(L),
         NEW B \in Seq(Box), NEW m \in Nat, NEW d, NEW late,
         ColumnInv(c, x, L, B, m, d, late),
         NEW A, A = Asked(x, s, e), NEW V, V = Covered(x, s, e), NEW M, M = L \o A
  PROVE  ColumnInv(c, V, M, B, m, d, late)
<1>1. Outward(L) /\ Whole(x, L) /\ Placed(c, L, B)
  BY DEF ColumnInv
<1>2. Outward(M) /\ Whole(V, M) /\ Continued(L, M) /\ V \in Span /\ M \in Seq(Request)
  <2>1. GrownOut(L, V, M)
    BY <1>1, AskedColumn
  <2> QED  BY <2>1 DEF GrownOut
<1>3. Within(V, M)
  BY AskOne DEF Grown
<1>4. /\ Calm(c, M) => Calm(c, L)
      /\ Down(c, M) => Down(c, L)
      /\ \A t : Here(M, t) <=> Here(L, t)
      /\ Arrived(L) => Arrived(M)
  BY <1>2, ContinuedCalm
<1>5. Placed(c, M, B)
  BY <1>1, <1>4 DEF Placed
<1>6. Filled(c, L, B) => Filled(c, M, B)
  BY <1>4 DEF Filled
<1>7. Filled(c, L, B) /\ Stepping(c, x, L, B, m, d) => Stepping(c, V, M, B, m, d)
  <2>1. SUFFICES ASSUME Filled(c, L, B), Stepping(c, x, L, B, m, d), Down(c, M), B # <<>>
                 PROVE  V.from = x.from
    BY <1>4 DEF Stepping
  <2>2. Down(c, L) /\ Calm(c, L)
    BY <1>4, <2>1 DEF Down
  <2>3. Len(B) \in Nat /\ 1 \in 1..Len(B)
    BY <2>1
  <2>4. Here(L, B[1].at)
    BY <1>1, <2>1, <2>2, <2>3 DEF Filled, Placed
  <2>5. x # None
    <3>1. SUFFICES ASSUME x = None PROVE FALSE
      OBVIOUS
    <3>2. Len(L) = 0
      BY <3>1 DEF Within
    <3> QED  BY <2>4, <3>2 DEF Here
  <2>6. x.from = L[1].lo
    BY <1>1, <2>2, <2>5, FirstRequest DEF Down
  <2>7. V.from = M[1].lo
    BY <1>2, <1>3, <2>1, FirstRequest DEF Down
  <2>8. 1 \in 1..Len(L) /\ M[1] = L[1]
    BY <1>1, <1>2, <2>5 DEF Whole, Continued
  <2> QED  BY <2>6, <2>7, <2>8
<1> QED  BY <1>2, <1>4, <1>5, <1>6, <1>7 DEF ColumnInv

(* Request i of L is answered or lost. *)
TakenAt(L, M, i, u) ==
  /\ L[i].st = "out" /\ M[i].st = u
  /\ M \in Seq(Request) /\ Len(M) = Len(L)
  /\ \A j \in 1..Len(L) : M[j].lo = L[j].lo /\ M[j].hi = L[j].hi /\ M[j].after = L[j].after
  /\ \A j \in 1..Len(L) : j # i => M[j].st = L[j].st

LEMMA TakenRequest ==
  ASSUME NEW L \in Seq(Request), NEW i \in 1..Len(L), L[i].st = "out",
         NEW u \in {"in", "lost"}, NEW M, M = [L EXCEPT ![i].st = u]
  PROVE  TakenAt(L, M, i, u)
<1>1. Len(L) \in Nat /\ \A j \in 1..Len(L) : L[j] \in Request
  OBVIOUS
<1>2. PICK r : r = [L[i] EXCEPT !.st = u]
  OBVIOUS
<1>3. r \in Request /\ r.lo = L[i].lo /\ r.hi = L[i].hi /\ r.after = L[i].after /\ r.st = u
  BY <1>1, <1>2 DEF Request
<1>4. M = [L EXCEPT ![i] = r]
  BY <1>2
<1>5. M \in Seq(Request) /\ Len(M) = Len(L) /\ M[i] = r
  BY <1>3, <1>4
<1>6. \A j \in 1..Len(L) : j # i => M[j] = L[j]
  BY <1>4
<1>7. \A j \in 1..Len(L) : M[j].lo = L[j].lo /\ M[j].hi = L[j].hi /\ M[j].after = L[j].after
  BY <1>3, <1>5, <1>6
<1> QED  BY <1>3, <1>5, <1>6, <1>7 DEF TakenAt

(* What became of the other requests is not touched. *)
LEMMA TakenCalm ==
  ASSUME NEW c, NEW x, NEW L \in Seq(Request), NEW M, NEW i \in 1..Len(L),
         NEW u \in {"in", "lost"}, TakenAt(L, M, i, u)
  PROVE  /\ Outward(L) => Outward(M)
         /\ Whole(x, L) => Whole(x, M)
         /\ Calm(c, M) => Calm(c, L)
         /\ Down(c, M) => Down(c, L)
         /\ \A t : Here(L, t) => Here(M, t)
         /\ \A t : Here(M, t) => Here(L, t) \/ (u = "in" /\ L[i].lo <= t /\ t <= L[i].hi)
         /\ u = "in" => \A t : L[i].lo <= t /\ t <= L[i].hi => Here(M, t)
<1>1. /\ Len(L) \in Nat /\ Len(M) = Len(L) /\ L[i].st = "out" /\ M[i].st = u
      /\ \A j \in 1..Len(L) : M[j].lo = L[j].lo /\ M[j].hi = L[j].hi /\ M[j].after = L[j].after
      /\ \A j \in 1..Len(L) : j # i => M[j].st = L[j].st
  BY DEF TakenAt
<1>2. Outward(L) => Outward(M)
  BY <1>1 DEF Outward
<1>3. Whole(x, L) => Whole(x, M)
  <2>1. Len(L) > 0 => 1 \in 1..Len(L)
    BY <1>1
  <2> QED  BY <1>1, <2>1 DEF Whole
<1>4. Calm(c, M) => Calm(c, L)
  <2>1. \A j \in 1..Len(L) : Joint(M[j]) = Joint(L[j])
    BY <1>1 DEF Joint
  <2>2. \A j \in 1..Len(L) : M[j].st # "lost" => L[j].st # "lost"
    BY <1>1
  <2> QED  BY <1>1, <2>1, <2>2 DEF Calm
<1>5. Down(c, M) => Down(c, L)
  <2>1. \A j \in 2..Len(L) : M[j].after = L[j].after
    BY <1>1
  <2> QED  BY <1>1, <1>4, <2>1 DEF Down
<1>6. \A t : Here(L, t) => Here(M, t)
  BY <1>1 DEF Here
<1>7. \A t : Here(M, t) => Here(L, t) \/ (u = "in" /\ L[i].lo <= t /\ t <= L[i].hi)
  BY <1>1 DEF Here
<1>8. u = "in" => \A t : L[i].lo <= t /\ t <= L[i].hi => Here(M, t)
  BY <1>1 DEF Here
<1> QED  BY <1>2, <1>3, <1>4, <1>5, <1>6, <1>7, <1>8

LEMMA PlacedMore ==
  ASSUME NEW c, NEW L, NEW M, NEW B, \A t : Here(L, t) => Here(M, t), Placed(c, L, B)
  PROVE  Placed(c, M, B)
BY DEF Placed

(* A column does without what is lost. *)
LEMMA ColumnFails ==
  ASSUME NEW c \in Columns, NEW x, NEW L \in Seq(Request), NEW i \in 1..Len(L), NEW M,
         TakenAt(L, M, i, "lost"), NEW B, NEW m, NEW d, NEW late,
         ColumnInv(c, x, L, B, m, d, late)
  PROVE  ColumnInv(c, x, M, B, m, d, late)
<1>1. /\ Outward(M) /\ Whole(x, M)
      /\ \A t : Here(L, t) => Here(M, t)
  BY TakenCalm DEF ColumnInv
<1>2. Placed(c, M, B)
  BY <1>1, PlacedMore DEF ColumnInv
<1>3. ~Calm(c, M)
  BY DEF Calm, TakenAt
<1>4. Arrived(L) => Arrived(M)
  <2>1. SUFFICES ASSUME Arrived(L), NEW k \in 1..Len(M), NEW j \in 1..Len(M), k < j,
                        M[j].st = "in"
                 PROVE  M[k].st # "out"
    BY DEF Arrived
  <2>2. L[j].st = "in" /\ k \in 1..Len(L) /\ j \in 1..Len(L)
    BY <2>1 DEF TakenAt
  <2>3. L[k].st # "out"
    BY <2>1, <2>2 DEF Arrived
  <2> QED  BY <2>2, <2>3 DEF TakenAt
<1> QED  BY <1>1, <1>2, <1>3, <1>4 DEF ColumnInv, Filled, Stepping, Down

-----------------------------------------------------------------------------
(* The boxes of a column are those above and those below. *)
Joined(a, b, B) ==
  /\ B \in Seq(Box) /\ Len(a) \in Nat /\ Len(b) \in Nat /\ Len(B) = Len(a) + Len(b)
  /\ \A n \in 1..Len(a) : n \in 1..Len(B) /\ B[n] = a[n]
  /\ \A k \in 1..Len(b) : Len(a) + k \in 1..Len(B) /\ B[Len(a) + k] = b[k]
  /\ \A n \in 1..Len(B) : \/ n \in 1..Len(a) /\ B[n] = a[n]
                          \/ \E k \in 1..Len(b) : n = Len(a) + k /\ B[n] = b[k]

LEMMA BoxesJoined ==
  ASSUME NEW a \in Seq(Box), NEW b \in Seq(Box), NEW B, B = a \o b
  PROVE  Joined(a, b, B)
<1>1. Len(a) \in Nat /\ Len(b) \in Nat
  OBVIOUS
<1>2. /\ B \in Seq(Box)
      /\ Len(B) = Len(a) + Len(b)
      /\ \A n \in 1..(Len(a) + Len(b)) : B[n] = IF n <= Len(a) THEN a[n] ELSE b[n - Len(a)]
  BY ConcatProperties
<1>3. \A n \in 1..Len(a) : n \in 1..Len(B) /\ B[n] = a[n]
  BY <1>1, <1>2
<1>4. ASSUME NEW k \in 1..Len(b) PROVE Len(a) + k \in 1..Len(B) /\ B[Len(a) + k] = b[k]
  <2>1. Len(a) + k \in 1..(Len(a) + Len(b)) /\ ~(Len(a) + k <= Len(a)) /\ Len(a) + k - Len(a) = k
    BY <1>1
  <2> QED  BY <1>2, <2>1
<1>5. ASSUME NEW n \in 1..Len(B), n \notin 1..Len(a)
      PROVE  \E k \in 1..Len(b) : n = Len(a) + k /\ B[n] = b[k]
  <2>1. n - Len(a) \in 1..Len(b) /\ n = Len(a) + (n - Len(a))
    BY <1>1, <1>2, <1>5
  <2> QED  BY <1>4, <2>1
<1> QED  BY <1>1, <1>2, <1>3, <1>4, <1>5 DEF Joined

LEMMA PlacedConcat ==
  ASSUME NEW c, NEW M, NEW a \in Seq(Box), NEW b \in Seq(Box), Placed(c, M, a), Placed(c, M, b)
  PROVE  Placed(c, M, a \o b)
<1>1. PICK B : B = a \o b
  OBVIOUS
<1>2. SUFFICES ASSUME NEW n \in 1..Len(B), ~IsGap(B[n])
               PROVE  B[n].at \in Nat /\ Here(M, B[n].at) /\ \E p \in Range(Epg[c]) : p.start = B[n].at
  BY <1>1 DEF Placed
<1>3. (n \in 1..Len(a) /\ B[n] = a[n]) \/ \E k \in 1..Len(b) : n = Len(a) + k /\ B[n] = b[k]
  <2>1. Joined(a, b, B)
    BY <1>1, BoxesJoined
  <2> QED  BY <2>1 DEF Joined
<1>4. CASE n \in 1..Len(a) /\ B[n] = a[n]
  BY <1>2, <1>4 DEF Placed
<1>5. CASE \E k \in 1..Len(b) : n = Len(a) + k /\ B[n] = b[k]
  BY <1>2, <1>5 DEF Placed
<1> QED  BY <1>3, <1>4, <1>5

LEMMA OrderedConcat ==
  ASSUME NEW a \in Seq(Box), NEW b \in Seq(Box), Ordered(a), Ordered(b),
         \A n \in 1..Len(a), k \in 1..Len(b) :
           ~IsGap(a[n]) /\ ~IsGap(b[k]) => a[n].at < b[k].at
  PROVE  Ordered(a \o b)
<1>1. PICK B : B = a \o b
  OBVIOUS
<1>2. SUFFICES ASSUME NEW i \in 1..Len(B), NEW j \in 1..Len(B), i < j,
                      ~IsGap(B[i]), ~IsGap(B[j])
               PROVE  B[i].at < B[j].at
  BY <1>1 DEF Ordered
<1>3. \A n \in 1..Len(B) : \/ n \in 1..Len(a) /\ B[n] = a[n]
                           \/ \E k \in 1..Len(b) : n = Len(a) + k /\ B[n] = b[k]
  <2>1. Joined(a, b, B)
    BY <1>1, BoxesJoined
  <2> QED  BY <2>1 DEF Joined
<1>4. Len(a) \in Nat /\ Len(b) \in Nat
  OBVIOUS
<1>5. CASE j \in 1..Len(a) /\ B[j] = a[j]
  <2>1. i \in 1..Len(a) /\ B[i] = a[i]
    BY <1>2, <1>3, <1>4, <1>5
  <2> QED  BY <1>2, <1>5, <2>1 DEF Ordered
<1>6. ASSUME NEW k \in 1..Len(b), j = Len(a) + k, B[j] = b[k] PROVE B[i].at < B[j].at
  <2>1. CASE i \in 1..Len(a) /\ B[i] = a[i]
    BY <1>2, <1>6, <2>1
  <2>2. ASSUME NEW h \in 1..Len(b), i = Len(a) + h, B[i] = b[h] PROVE B[i].at < B[j].at
    <3>1. h < k
      BY <1>2, <1>4, <1>6, <2>2
    <3> QED  BY <1>2, <1>6, <2>2, <3>1 DEF Ordered
  <2> QED  BY <1>3, <2>1, <2>2
<1> QED  BY <1>3, <1>5, <1>6

(* The boxes of an answer. *)
LEMMA AnsweredBoxes ==
  ASSUME NEW c, NEW L \in Seq(Request), NEW M, NEW i \in 1..Len(L), TakenAt(L, M, i, "in"),
         NEW es, Answered(c, L[i], es), NEW t \in Nat
  PROVE  Placed(c, M, Boxes(es, t)) /\ Ordered(Boxes(es, t))
<1>1. PICK b : b = Boxes(es, t)
  OBVIOUS
<1>2. /\ es \in Seq(Programme)
      /\ \A n \in 1..Len(es) : L[i].lo <= es[n].start /\ es[n].start <= L[i].hi /\ es[n] \in Range(Epg[c])
      /\ \A k, n \in 1..Len(es) : k < n => es[k].start < es[n].start
  BY DEF Answered
<1>3. /\ Len(b) = Len(es)
      /\ \A n \in 1..Len(es) : b[n].at = es[n].start /\ es[n].start \in Nat
  BY <1>1, <1>2, BoxesFacts
<1>4. \A n \in 1..Len(es) : Here(M, es[n].start)
  BY <1>2, TakenCalm
<1>5. Placed(c, M, b)
  BY <1>2, <1>3, <1>4 DEF Placed
<1>6. Ordered(b)
  BY <1>2, <1>3 DEF Ordered
<1> QED  BY <1>1, <1>5, <1>6

LEMMA GapBoxes ==
  ASSUME NEW c, NEW M, NEW q \in Request, q.lo <= q.hi
  PROVE  Gap(q) \in Seq(Box) /\ Placed(c, M, Gap(q)) /\ Ordered(Gap(q)) /\ Gap(q) # <<>>
         /\ \A n \in 1..Len(Gap(q)) : IsGap(Gap(q)[n])
<1>1. q.lo \in Nat /\ q.hi \in Nat
  BY DEF Request
<1>2. PICK g : g = [at |-> None, height |-> q.hi - q.lo]
  OBVIOUS
<1>3. q.hi - q.lo \in Nat
  BY <1>1
<1>4. g \in Box /\ IsGap(g)
  BY <1>2, <1>3 DEF Box, IsGap
<1>5. PICK b : b = <<g>>
  OBVIOUS
<1>6. b \in Seq(Box) /\ Len(b) = 1 /\ b[1] = g /\ b # <<>>
  BY <1>4, <1>5
<1>7. \A n \in 1..Len(b) : IsGap(b[n])
  BY <1>4, <1>6
<1>8. Gap(q) = b
  BY <1>2, <1>5 DEF Gap
<1> QED  BY <1>6, <1>7, <1>8 DEF Placed, Ordered

-----------------------------------------------------------------------------
(* Column c gets the answer es to its request i. *)
Reply(c, x, L, i, M, es) ==
  /\ x \in Span /\ L \in Seq(Request) /\ Within(x, L)
  /\ i \in 1..Len(L) /\ TakenAt(L, M, i, "in")
  /\ Answered(c, L[i], es)

InTime(L, i) == Arrived(L) /\ \A j \in 1..(i-1) : L[j].st # "out"

(* An answer that overtook none is above or below all that came before. *)
LEMMA NextToAll ==
  ASSUME NEW c, NEW x, NEW L, NEW i, NEW M, NEW es, Reply(c, x, L, i, M, es),
         Outward(L), InTime(L, i)
  PROVE  /\ Arrived(M)
         /\ \A j \in 1..Len(L) : L[j].st = "in" => j < i
         /\ \A t \in Nat : Here(L, t) => /\ i > 1
                                         /\ IF L[i].after THEN t <= L[i].lo ELSE L[i].hi <= t
<1>1. /\ L \in Seq(Request) /\ Len(L) \in Nat /\ i \in 1..Len(L)
      /\ Len(M) = Len(L) /\ L[i].st = "out" /\ M[i].st = "in"
      /\ \A j \in 1..Len(L) : j # i => M[j].st = L[j].st
  BY DEF Reply, TakenAt
<1>2. \A j \in 1..Len(L) : L[j].lo \in Nat /\ L[j].hi \in Nat
  BY <1>1, RequestTypes
<1>3. ASSUME NEW j \in 1..Len(L), L[j].st = "in" PROVE j < i
  <2>1. j # i
    BY <1>1, <1>3
  <2>2. ~(i < j)
    BY <1>1, <1>3 DEF InTime, Arrived
  <2> QED  BY <1>1, <2>1, <2>2
<1>4. Arrived(M)
  <2>1. SUFFICES ASSUME NEW k \in 1..Len(M), NEW j \in 1..Len(M), k < j, M[j].st = "in"
                 PROVE  M[k].st # "out"
    BY DEF Arrived
  <2>2. CASE j = i
    <3>1. k \in 1..(i-1) /\ k # i /\ k \in 1..Len(L)
      BY <1>1, <2>1, <2>2
    <3> QED  BY <1>1, <3>1 DEF InTime
  <2>3. CASE j # i
    <3>1. L[j].st = "in" /\ j < i
      BY <1>1, <1>3, <2>1, <2>3
    <3>2. k \in 1..(i-1) /\ k # i /\ k \in 1..Len(L)
      BY <1>1, <2>1, <3>1
    <3> QED  BY <1>1, <3>2 DEF InTime
  <2> QED  BY <2>2, <2>3
<1>5. ASSUME NEW t \in Nat, Here(L, t)
      PROVE  i > 1 /\ IF L[i].after THEN t <= L[i].lo ELSE L[i].hi <= t
  <2>1. PICK j \in 1..Len(L) : L[j].st = "in" /\ L[j].lo <= t /\ t <= L[j].hi
    BY <1>5 DEF Here
  <2>2. j < i
    BY <1>3, <2>1
  <2>3. IF L[i].after THEN L[j].hi <= L[i].lo ELSE L[i].hi <= L[j].lo
    BY <1>1, <2>2 DEF Outward
  <2>4. i > 1
    BY <1>1, <2>2
  <2> QED  BY <1>1, <1>2, <2>1, <2>3, <2>4
<1> QED  BY <1>3, <1>4, <1>5

Shows(B) == {n \in 1..Len(B) : ~IsGap(B[n])}

KnownIn(B, q, es) ==
  /\ Shows(B) # {}
  /\ IF q.after THEN B[Max(Shows(B))].at = First(es).start
                ELSE B[Min(Shows(B))].at = Last(es).start

LEMMA ReplyFacts ==
  ASSUME NEW c, NEW x, NEW L, NEW i, NEW M, NEW es, Reply(c, x, L, i, M, es), Whole(x, L)
  PROVE  /\ L \in Seq(Request) /\ Len(L) \in Nat /\ i \in 1..Len(L) /\ TakenAt(L, M, i, "in")
         /\ L[i] \in Request /\ L[i].lo \in Nat /\ L[i].hi \in Nat /\ L[i].lo <= L[i].hi
         /\ x # None /\ x.from \in Nat /\ x.to \in Nat
         /\ es \in Seq(Programme) /\ Len(es) \in Nat /\ (es # <<>> => 1 \in 1..Len(es) /\ Len(es) \in 1..Len(es))
         /\ \A n \in 1..Len(es) : /\ es[n].start \in Nat /\ es[n] \in Range(Epg[c])
                                  /\ L[i].lo <= es[n].start /\ es[n].start <= L[i].hi
         /\ \A k, n \in 1..Len(es) : k < n => es[k].start < es[n].start
         /\ \A p \in Range(Epg[c]) : L[i].lo <= p.start /\ p.start <= L[i].hi =>
              \E n \in 1..Len(es) : es[n] = p
<1>1. L \in Seq(Request) /\ Len(L) \in Nat /\ i \in 1..Len(L) /\ TakenAt(L, M, i, "in") /\ x \in Span
  BY DEF Reply
<1>2. L[i] \in Request /\ L[i].lo \in Nat /\ L[i].hi \in Nat
  BY <1>1, RequestTypes
<1>3. x # None /\ x.from \in Nat /\ x.to \in Nat
  BY <1>1, SpanTypes
<1>4. L[i].lo <= L[i].hi
  BY <1>1, <1>3 DEF Whole
<1>5. es \in Seq(Programme)
  BY DEF Reply, Answered
<1>6. Len(es) \in Nat /\ (es # <<>> => 1 \in 1..Len(es) /\ Len(es) \in 1..Len(es))
  BY <1>5
<1>7. \A n \in 1..Len(es) : es[n].start \in Nat
  BY <1>5, SpanOfProgramme
<1> QED  BY <1>1, <1>2, <1>3, <1>4, <1>5, <1>6, <1>7 DEF Reply, Answered

LEMMA NoCalm ==
  ASSUME NEW c, NEW x, NEW L, NEW i, NEW M, Reply(c, x, L, i, M, <<>>), Whole(x, L)
  PROVE  ~Calm(c, M)
<1>1. /\ i \in 1..Len(M) /\ M[i].lo = L[i].lo /\ M[i].hi = L[i].hi
  BY DEF Reply, TakenAt
<1>2. PICK es : es = <<>>
  OBVIOUS
<1>3. Len(es) = 0
  BY <1>2
<1>4. Answered(c, L[i], es)
  BY <1>2 DEF Reply
<1>5. ~ \E p \in Range(Epg[c]) : L[i].lo <= p.start /\ p.start <= L[i].hi
  BY <1>3, <1>4 DEF Answered
<1> QED  BY <1>1, <1>5 DEF Calm

(* An answer without programmes puts a gap. *)
GapPut(B, q, B2) == B2 = B \o Gap(q) \/ B2 = Gap(q) \o B

LEMMA ColumnGap ==
  ASSUME NEW c \in Columns, NEW x, NEW L, NEW i, NEW M, NEW es, Reply(c, x, L, i, M, es),
         es = <<>>,
         NEW B \in Seq(Box), NEW m, NEW d, NEW late,
         ColumnInv(c, x, L, B, m, d, late),
         NEW late2, ~late2 => ~late /\ \A j \in 1..(i-1) : L[j].st # "out",
         NEW B2, GapPut(B, L[i], B2), NEW m2, NEW d2
  PROVE  ColumnInv(c, x, M, B2, m2, d2, late2)
<1>0. B2 = B \o Gap(L[i]) \/ B2 = Gap(L[i]) \o B
  BY DEF GapPut
<1>1. Outward(L) /\ Whole(x, L) /\ Placed(c, L, B)
  BY DEF ColumnInv
<1>2. /\ L \in Seq(Request) /\ i \in 1..Len(L) /\ TakenAt(L, M, i, "in")
      /\ L[i] \in Request /\ L[i].lo <= L[i].hi
  BY <1>1, ReplyFacts
<1>3. Outward(M) /\ Whole(x, M) /\ Placed(c, M, B)
  BY <1>1, <1>2, TakenCalm, PlacedMore
<1>4. PICK g : g = Gap(L[i])
  OBVIOUS
<1>5. /\ g \in Seq(Box) /\ Placed(c, M, g) /\ Ordered(g)
      /\ \A n \in 1..Len(g) : IsGap(g[n])
  BY <1>2, <1>4, GapBoxes
<1>6. Placed(c, M, B2)
  BY <1>0, <1>3, <1>4, <1>5, PlacedConcat
<1>7. ~Calm(c, M)
  BY <1>1, NoCalm
<1>8. ASSUME ~late2 PROVE Arrived(M) /\ Ordered(B2)
  <2>1. InTime(L, i) /\ Ordered(B)
    BY <1>8 DEF ColumnInv, InTime
  <2>2. Arrived(M)
    BY <1>1, <2>1, NextToAll
  <2>3. Ordered(B \o g) /\ Ordered(g \o B)
    BY <1>5, <2>1, OrderedConcat
  <2> QED  BY <1>0, <1>4, <2>2, <2>3
<1> QED  BY <1>3, <1>6, <1>7, <1>8 DEF ColumnInv, Filled, Stepping, Down

(* An answer of which nothing is shown meets a programme where requests    *)
(* meet, or no programme above it.                                         *)
LEMMA ColumnTrips ==
  ASSUME NEW c \in Columns, NEW x, NEW L, NEW i, NEW M, NEW es, Reply(c, x, L, i, M, es),
         es # <<>>,
         NEW B \in Seq(Box), NEW m, NEW d, NEW late,
         KnownIn(B, L[i], es) \/ (L[i].after /\ Shows(B) = {}),
         ColumnInv(c, x, L, B, m, d, late),
         NEW late2, ~late2 => ~late /\ \A j \in 1..(i-1) : L[j].st # "out"
  PROVE  ColumnInv(c, x, M, B, m, d, late2)
<1>1. Outward(L) /\ Whole(x, L) /\ Placed(c, L, B)
  BY DEF ColumnInv
<1>2. /\ L \in Seq(Request) /\ Len(L) \in Nat /\ i \in 1..Len(L) /\ TakenAt(L, M, i, "in")
      /\ L[i].lo \in Nat /\ L[i].hi \in Nat
      /\ 1 \in 1..Len(es) /\ Len(es) \in 1..Len(es)
      /\ \A n \in 1..Len(es) : /\ es[n].start \in Nat /\ es[n] \in Range(Epg[c])
                               /\ L[i].lo <= es[n].start /\ es[n].start <= L[i].hi
  BY <1>1, ReplyFacts
<1>3. /\ Outward(M) /\ Whole(x, M) /\ Placed(c, M, B)
      /\ Calm(c, M) => Calm(c, L)
  BY <1>1, <1>2, TakenCalm, PlacedMore
<1>4. ASSUME ~late2 PROVE Arrived(M) /\ Ordered(B) /\ ~Calm(c, M)
  <2>1. InTime(L, i) /\ Ordered(B) /\ Filled(c, L, B)
    BY <1>4 DEF ColumnInv, InTime
  <2>2. /\ Arrived(M)
        /\ \A t \in Nat : Here(L, t) => /\ i > 1
                                        /\ IF L[i].after THEN t <= L[i].lo ELSE L[i].hi <= t
    BY <1>1, <2>1, NextToAll
  <2>3. SUFFICES ASSUME Calm(c, M) PROVE FALSE
    BY <2>1, <2>2
  <2>4. ASSUME KnownIn(B, L[i], es) PROVE FALSE
    <3>1. PICK S : S = Shows(B)
      OBVIOUS
    <3>2. S \in SUBSET (1..Len(B)) /\ S # {} /\ Len(B) \in Nat
      BY <2>4, <3>1 DEF KnownIn, Shows
    <3>3. Max(S) \in S /\ Min(S) \in S
      BY <3>2, MinMax
    <3>4. \A n \in S : B[n].at \in Nat /\ Here(L, B[n].at)
      BY <1>1, <3>1 DEF Shows, Placed
    <3>5. /\ i > 1
          /\ M[i].lo = L[i].lo /\ M[i].hi = L[i].hi /\ M[i].after = L[i].after /\ i \in 1..Len(M)
      BY <1>2, <2>2, <3>3, <3>4 DEF TakenAt
    <3>6. \A p \in Range(Epg[c]) : p.start # Joint(L[i])
      BY <2>3, <3>5 DEF Calm, Joint
    <3>7. CASE L[i].after
      <4>1. B[Max(S)].at = es[1].start
        BY <2>4, <3>1, <3>7 DEF KnownIn, First
      <4>2. B[Max(S)].at <= L[i].lo
        BY <2>2, <3>3, <3>4, <3>7
      <4>3. es[1].start = L[i].lo
        BY <1>2, <4>1, <4>2
      <4> QED  BY <1>2, <3>6, <3>7, <4>3 DEF Joint
    <3>8. CASE ~L[i].after
      <4>1. B[Min(S)].at = es[Len(es)].start
        BY <2>4, <3>1, <3>8 DEF KnownIn, Last
      <4>2. L[i].hi <= B[Min(S)].at
        BY <2>2, <3>3, <3>4, <3>8
      <4>3. es[Len(es)].start = L[i].hi
        BY <1>2, <4>1, <4>2
      <4> QED  BY <1>2, <3>6, <3>8, <4>3 DEF Joint
    <3> QED  BY <3>7, <3>8
  <2>5. ASSUME L[i].after, Shows(B) = {} PROVE FALSE
    <3>1. 1 \in 1..Len(L) /\ ~L[1].after
      <4>1. x # None
        BY <1>1, ReplyFacts
      <4> QED  BY <1>2, <4>1, <1>1 DEF Whole
    <3>2. i # 1 /\ 1 \in 1..(i-1)
      BY <1>2, <2>5, <3>1
    <3>3. M[1].st = L[1].st /\ M[1].st # "lost" /\ M[1].lo = L[1].lo /\ M[1].hi = L[1].hi
      BY <1>2, <2>3, <3>1, <3>2 DEF TakenAt, Calm
    <3>4. L[1].st # "out"
      BY <2>1, <3>2 DEF InTime
    <3>5. L[1].st \in {"out", "in", "lost"}
      <4>1. L[1] \in Request
        BY <1>2, <3>1
      <4> QED  BY <4>1 DEF Request
    <3>6. PICK p \in Range(Epg[c]) : L[1].lo <= p.start /\ p.start <= L[1].hi
      BY <1>3, <2>3, <3>1 DEF Calm
    <3>7. Here(L, p.start)
      BY <3>1, <3>3, <3>4, <3>5, <3>6 DEF Here
    <3>8. PICK n \in 1..Len(B) : ~IsGap(B[n])
      BY <1>3, <2>1, <2>3, <3>7 DEF Filled
    <3> QED  BY <2>5, <3>8 DEF Shows
  <2> QED  BY <2>4, <2>5
<1> QED  BY <1>3, <1>4 DEF ColumnInv, Filled, Stepping, Down

(* B has the boxes a and b and no others. *)
AllOf(a, b, B) ==
  /\ \A n \in 1..Len(a) : \E k \in 1..Len(B) : B[k] = a[n]
  /\ \A n \in 1..Len(b) : \E k \in 1..Len(B) : B[k] = b[n]
  /\ \A k \in 1..Len(B) : \/ \E n \in 1..Len(a) : B[k] = a[n]
                          \/ \E n \in 1..Len(b) : B[k] = b[n]

LEMMA BoxesAllOf ==
  ASSUME NEW a \in Seq(Box), NEW b \in Seq(Box), NEW B, B = a \o b
  PROVE  AllOf(a, b, B)
<1>1. /\ \A n \in 1..Len(a) : n \in 1..Len(B) /\ B[n] = a[n]
      /\ \A k \in 1..Len(b) : Len(a) + k \in 1..Len(B) /\ B[Len(a) + k] = b[k]
      /\ \A n \in 1..Len(B) : \/ n \in 1..Len(a) /\ B[n] = a[n]
                              \/ \E k \in 1..Len(b) : n = Len(a) + k /\ B[n] = b[k]
  BY BoxesJoined DEF Joined
<1>2. ASSUME NEW n \in 1..Len(a) PROVE \E k \in 1..Len(B) : B[k] = a[n]
  BY <1>1
<1>3. ASSUME NEW n \in 1..Len(b) PROVE \E k \in 1..Len(B) : B[k] = b[n]
  BY <1>1
<1>4. ASSUME NEW k \in 1..Len(B)
      PROVE  (\E n \in 1..Len(a) : B[k] = a[n]) \/ \E n \in 1..Len(b) : B[k] = b[n]
  <2>1. CASE k \in 1..Len(a) /\ B[k] = a[k]
    BY <2>1
  <2>2. CASE \E n \in 1..Len(b) : k = Len(a) + n /\ B[k] = b[n]
    BY <2>2
  <2> QED  BY <1>1, <2>1, <2>2
<1> QED  BY <1>2, <1>3, <1>4 DEF AllOf

(* All the programmes of a column are among its boxes and those added. *)
FilledWith(B, es, t, B2) == B2 = B \o Boxes(es, t) \/ B2 = Boxes(es, t) \o B

LEMMA FilledConcat ==
  ASSUME NEW c, NEW x, NEW L, NEW i, NEW M, NEW es, Reply(c, x, L, i, M, es), Whole(x, L),
         NEW B \in Seq(Box), Filled(c, L, B), NEW t \in Nat,
         NEW B2, FilledWith(B, es, t, B2)
  PROVE  Filled(c, M, B2)
<1>1. PICK b : b = Boxes(es, t)
  OBVIOUS
<1>2. /\ L \in Seq(Request) /\ i \in 1..Len(L) /\ TakenAt(L, M, i, "in")
      /\ es \in Seq(Programme)
      /\ \A p \in Range(Epg[c]) : L[i].lo <= p.start /\ p.start <= L[i].hi =>
           \E n \in 1..Len(es) : es[n] = p
  BY ReplyFacts
<1>3. /\ b \in Seq(Box) /\ Len(b) = Len(es)
      /\ \A n \in 1..Len(es) : b[n].at = es[n].start /\ ~IsGap(b[n])
  BY <1>1, <1>2, BoxesFacts
<1>4. /\ \A n \in 1..Len(B) : \E k \in 1..Len(B2) : B2[k] = B[n]
      /\ \A n \in 1..Len(b) : \E k \in 1..Len(B2) : B2[k] = b[n]
      /\ \A k \in 1..Len(B2) : \/ \E n \in 1..Len(B) : B2[k] = B[n]
                               \/ \E n \in 1..Len(b) : B2[k] = b[n]
  <2>1. CASE B2 = B \o b
    <3>1. AllOf(B, b, B2)
      BY <1>3, <2>1, BoxesAllOf
    <3> QED  BY <3>1 DEF AllOf
  <2>2. CASE B2 = b \o B
    <3>1. AllOf(b, B, B2)
      BY <1>3, <2>2, BoxesAllOf
    <3> QED  BY <3>1, Zenon DEF AllOf
  <2> QED  BY <1>1, <2>1, <2>2 DEF FilledWith
<1>5. SUFFICES ASSUME Calm(c, M)
               PROVE  /\ \A n \in 1..Len(B2) : ~IsGap(B2[n])
                      /\ \A p \in Range(Epg[c]) : Here(M, p.start) => \E n \in 1..Len(B2) : B2[n].at = p.start
  BY DEF Filled
<1>6. /\ Calm(c, L)
      /\ \A s : Here(M, s) => Here(L, s) \/ (L[i].lo <= s /\ s <= L[i].hi)
  BY <1>2, <1>5, TakenCalm
<1>7. \A n \in 1..Len(B2) : ~IsGap(B2[n])
  BY <1>3, <1>4, <1>6 DEF Filled
<1>8. ASSUME NEW p \in Range(Epg[c]), Here(M, p.start)
      PROVE  \E n \in 1..Len(B2) : B2[n].at = p.start
  <2>1. CASE Here(L, p.start)
    <3>1. PICK n \in 1..Len(B) : B[n].at = p.start
      BY <1>6, <2>1 DEF Filled
    <3>2. PICK k \in 1..Len(B2) : B2[k] = B[n]
      BY <1>4
    <3> QED  BY <3>1, <3>2
  <2>2. CASE L[i].lo <= p.start /\ p.start <= L[i].hi
    <3>1. PICK n \in 1..Len(es) : es[n] = p
      BY <1>2, <2>2
    <3>2. n \in 1..Len(b) /\ b[n].at = p.start
      BY <1>3, <3>1
    <3>3. PICK k \in 1..Len(B2) : B2[k] = b[n]
      BY <1>4, <3>2
    <3> QED  BY <3>2, <3>3
  <2> QED  BY <1>6, <1>8, <2>1, <2>2
<1> QED  BY <1>7, <1>8

(* An answer is appended to the programmes of a column. *)
Appended(B, d, es, B2, d2) ==
  Shows(B) # {} /\ B2 = B \o Boxes(es, d) /\ d2 = Reach(es, d)[Len(es)]

LEMMA ColumnAppends ==
  ASSUME NEW c \in Columns, NEW x, NEW L, NEW i, NEW M, NEW es, Reply(c, x, L, i, M, es),
         es # <<>>, L[i].after,
         NEW B \in Seq(Box), ~KnownIn(B, L[i], es),
         NEW m \in Nat, NEW d \in Nat, NEW late,
         ColumnInv(c, x, L, B, m, d, late),
         NEW late2, ~late2 => ~late /\ \A j \in 1..(i-1) : L[j].st # "out",
         NEW B2, NEW d2, Appended(B, d, es, B2, d2)
  PROVE  ColumnInv(c, x, M, B2, m, d2, late2)
<1>0. Shows(B) # {} /\ B2 = B \o Boxes(es, d) /\ d2 = Reach(es, d)[Len(es)]
  BY DEF Appended
<1>1. Outward(L) /\ Whole(x, L) /\ Placed(c, L, B)
  BY DEF ColumnInv
<1>2. /\ L \in Seq(Request) /\ Len(L) \in Nat /\ i \in 1..Len(L) /\ TakenAt(L, M, i, "in")
      /\ L[i].lo \in Nat /\ L[i].hi \in Nat /\ x # None /\ x.from \in Nat
      /\ es \in Seq(Programme) /\ Len(es) \in Nat /\ 1 \in 1..Len(es)
      /\ \A n \in 1..Len(es) : /\ es[n].start \in Nat /\ es[n] \in Range(Epg[c])
                               /\ L[i].lo <= es[n].start /\ es[n].start <= L[i].hi
      /\ \A k, n \in 1..Len(es) : k < n => es[k].start < es[n].start
  BY <1>1, ReplyFacts
<1>3. Outward(M) /\ Whole(x, M) /\ Placed(c, M, B)
  BY <1>1, <1>2, TakenCalm, PlacedMore
<1>4. PICK b : b = Boxes(es, d)
  OBVIOUS
<1>5. /\ b \in Seq(Box) /\ Len(b) = Len(es)
      /\ \A n \in 1..Len(es) : /\ b[n].at = es[n].start /\ ~IsGap(b[n])
                               /\ b[n].height = Height(es[n], Reach(es, d)[n-1])
  BY <1>2, <1>4, BoxesFacts
<1>6. Placed(c, M, b) /\ Ordered(b)
  <2>1. Answered(c, L[i], es)
    BY DEF Reply
  <2> QED  BY <1>2, <1>4, <2>1, AnsweredBoxes
<1>7. Placed(c, M, B2)
  BY <1>0, <1>3, <1>4, <1>5, <1>6, PlacedConcat
<1>8. SUFFICES ASSUME ~late2
               PROVE  Arrived(M) /\ Ordered(B2) /\ Filled(c, M, B2) /\ Stepping(c, x, M, B2, m, d2)
  BY <1>3, <1>7 DEF ColumnInv
<1>9. InTime(L, i) /\ Ordered(B) /\ Filled(c, L, B) /\ Stepping(c, x, L, B, m, d)
  BY <1>8 DEF ColumnInv, InTime
<1>10. Arrived(M) /\ \A t \in Nat : Here(L, t) => t <= L[i].lo
  BY <1>1, <1>9, NextToAll
<1>11. Ordered(B2)
  <2>1. PICK S : S = Shows(B)
    OBVIOUS
  <2>2. S \in SUBSET (1..Len(B)) /\ S # {} /\ Len(B) \in Nat
    BY <1>0, <2>1 DEF Shows
  <2>3. Max(S) \in S /\ \A n \in S : n <= Max(S)
    BY <2>2, MinMax
  <2>4. \A n \in S : n \in 1..Len(B) /\ B[n].at \in Nat /\ ~IsGap(B[n]) /\ B[n].at <= L[i].lo
    <3>1. \A n \in S : n \in 1..Len(B) /\ B[n].at \in Nat /\ ~IsGap(B[n]) /\ Here(L, B[n].at)
      BY <1>1, <2>1 DEF Shows, Placed
    <3> QED  BY <1>10, <3>1
  <2>5. B[Max(S)].at # es[1].start
    BY <1>0, <2>1 DEF KnownIn, First
  <2>6. ASSUME NEW n \in S PROVE B[n].at <= B[Max(S)].at
    <3>1. n = Max(S) \/ n < Max(S)
      <4>1. \A k \in S : k \in Nat
        BY <2>2
      <4>2. Max(S) \in S /\ n <= Max(S)
        BY <2>3
      <4> QED  BY <4>1, <4>2
    <3>2. n < Max(S) => B[n].at < B[Max(S)].at
      BY <1>9, <2>3, <2>4 DEF Ordered
    <3> QED  BY <2>3, <2>4, <3>1, <3>2
  <2>7. ASSUME NEW n \in S PROVE B[n].at < es[1].start
    <3>1. /\ B[n].at <= B[Max(S)].at /\ B[Max(S)].at <= L[i].lo
          /\ L[i].lo <= es[1].start /\ B[Max(S)].at \in Nat /\ B[n].at \in Nat
      BY <1>2, <2>3, <2>4, <2>6
    <3> QED  BY <1>2, <2>5, <3>1, SMTT(30)
  <2>8. ASSUME NEW n \in 1..Len(B), NEW k \in 1..Len(b), ~IsGap(B[n])
        PROVE  B[n].at < b[k].at
    <3>1. n \in S
      BY <2>1, <2>8 DEF Shows
    <3>2. B[n].at < es[1].start /\ B[n].at \in Nat
      BY <2>4, <2>7, <3>1
    <3>3. k \in 1..Len(es) /\ b[k].at = es[k].start /\ es[k].start \in Nat /\ es[1].start \in Nat
      BY <1>2, <1>5
    <3>4. es[1].start <= es[k].start
      <4>1. k = 1 \/ 1 < k
        BY <3>3
      <4> QED  BY <1>2, <3>3, <4>1
    <3> QED  BY <3>2, <3>3, <3>4
  <2> QED  BY <1>0, <1>4, <1>5, <1>6, <1>9, <2>8, OrderedConcat
<1>12. Filled(c, M, B2)
  <2>1. FilledWith(B, es, d, B2)
    BY <1>0 DEF FilledWith
  <2> QED  BY <1>1, <1>9, <2>1, FilledConcat
<1>13. Stepping(c, x, M, B2, m, d2)
  <2>1. SUFFICES ASSUME Down(c, M)
                 PROVE  /\ \A n \in 1..Len(B2) : \E p \in Range(Epg[c]) :
                             /\ p.start = B2[n].at
                             /\ B2[n].height = Height(p, Bottom(B2, x.from + m)[n-1])
                        /\ d2 = Bottom(B2, x.from + m)[Len(B2)]
    BY DEF Stepping
  <2>2. Down(c, L)
    BY <1>2, <2>1, TakenCalm
  <2>3. B # <<>>
    <3>1. PICK n \in 1..Len(B) : TRUE
      BY <1>0 DEF Shows
    <3> QED  OBVIOUS
  <2>4. PICK t : t = x.from + m
    OBVIOUS
  <2>5. t \in Nat
    BY <1>2, <2>4
  <2>6. /\ \A n \in 1..Len(B) : \E p \in Range(Epg[c]) :
             p.start = B[n].at /\ B[n].height = Height(p, Bottom(B, t)[n-1])
        /\ d = Bottom(B, t)[Len(B)]
    BY <1>9, <2>2, <2>3, <2>4 DEF Stepping
  <2>7. /\ \A n \in 0..Len(B) : Bottom(B2, t)[n] = Bottom(B, t)[n]
        /\ \A n \in 0..Len(b) : Bottom(B2, t)[Len(B) + n] = Bottom(b, d)[n]
    BY <1>0, <1>4, <1>5, <2>5, <2>6, BottomOfConcat
  <2>8. \A n \in 0..Len(es) : Bottom(b, d)[n] = Reach(es, d)[n]
    BY <1>2, <1>4, BottomOfBoxes
  <2>9. /\ Len(B) \in Nat /\ Len(B2) = Len(B) + Len(b)
        /\ \A n \in 1..Len(B2) : \/ n \in 1..Len(B) /\ B2[n] = B[n]
                                 \/ \E k \in 1..Len(b) : n = Len(B) + k /\ B2[n] = b[k]
    <3>1. B2 = B \o b /\ b \in Seq(Box) /\ B \in Seq(Box)
      BY <1>0, <1>4, <1>5
    <3>2. Joined(B, b, B2)
      BY <3>1, BoxesJoined
    <3> QED  BY <3>2 DEF Joined
  <2>10. ASSUME NEW n \in 1..Len(B), B2[n] = B[n]
         PROVE  \E p \in Range(Epg[c]) : p.start = B2[n].at /\ B2[n].height = Height(p, Bottom(B2, t)[n-1])
    <3>1. n - 1 \in 0..Len(B)
      BY <2>9
    <3> QED  BY <2>6, <2>7, <2>10, <3>1
  <2>11. ASSUME NEW n \in 1..Len(B2), NEW k \in 1..Len(b), n = Len(B) + k, B2[n] = b[k]
         PROVE  \E p \in Range(Epg[c]) : p.start = B2[n].at /\ B2[n].height = Height(p, Bottom(B2, t)[n-1])
    <3>1. k \in 1..Len(es) /\ k - 1 \in 0..Len(es) /\ n - 1 = Len(B) + (k - 1)
      BY <1>2, <1>5, <2>9, <2>11
    <3>2. Bottom(B2, t)[n-1] = Reach(es, d)[k-1]
      BY <1>5, <2>7, <2>8, <3>1
    <3>3. b[k].at = es[k].start /\ b[k].height = Height(es[k], Reach(es, d)[k-1]) /\ es[k] \in Range(Epg[c])
      BY <1>2, <1>5, <3>1
    <3> QED  BY <2>11, <3>2, <3>3
  <2>12. d2 = Bottom(B2, t)[Len(B2)]
    <3>1. Len(es) \in 0..Len(es)
      BY <1>2
    <3> QED  BY <1>0, <1>5, <2>7, <2>8, <2>9, <3>1
  <2> QED  BY <2>4, <2>9, <2>10, <2>11, <2>12
<1> QED  BY <1>10, <1>11, <1>12, <1>13

(* An answer is put above the programmes of a column. *)
Prepended(B, q, es, B2, m2, d2) ==
  /\ B2 = Boxes(es, First(es).start) \o B /\ m2 = First(es).start - q.lo
  /\ Shows(B) = {} => d2 = Reach(es, First(es).start)[Len(es)]

LEMMA ColumnPrepends ==
  ASSUME NEW c \in Columns, NEW x, NEW L, NEW i, NEW M, NEW es, Reply(c, x, L, i, M, es),
         es # <<>>, ~L[i].after,
         NEW B \in Seq(Box), ~KnownIn(B, L[i], es),
         NEW m, NEW d, NEW late,
         ColumnInv(c, x, L, B, m, d, late),
         NEW late2, ~late2 => ~late /\ \A j \in 1..(i-1) : L[j].st # "out",
         NEW B2, NEW m2, NEW d2, Prepended(B, L[i], es, B2, m2, d2)
  PROVE  ColumnInv(c, x, M, B2, m2, d2, late2)
<1>0. /\ B2 = Boxes(es, First(es).start) \o B /\ m2 = First(es).start - L[i].lo
      /\ Shows(B) = {} => d2 = Reach(es, First(es).start)[Len(es)]
  BY DEF Prepended
<1>1. Outward(L) /\ Whole(x, L) /\ Placed(c, L, B)
  BY DEF ColumnInv
<1>2. /\ L \in Seq(Request) /\ Len(L) \in Nat /\ i \in 1..Len(L) /\ TakenAt(L, M, i, "in")
      /\ L[i].lo \in Nat /\ L[i].hi \in Nat /\ x # None /\ x.from \in Nat
      /\ es \in Seq(Programme) /\ Len(es) \in Nat /\ 1 \in 1..Len(es) /\ Len(es) \in 1..Len(es)
      /\ \A n \in 1..Len(es) : /\ es[n].start \in Nat /\ es[n] \in Range(Epg[c])
                               /\ L[i].lo <= es[n].start /\ es[n].start <= L[i].hi
      /\ \A k, n \in 1..Len(es) : k < n => es[k].start < es[n].start
  BY <1>1, ReplyFacts
<1>3. Outward(M) /\ Whole(x, M) /\ Placed(c, M, B)
  BY <1>1, <1>2, TakenCalm, PlacedMore
<1>4. PICK t : t = First(es).start
  OBVIOUS
<1>5. t \in Nat /\ t = es[1].start
  BY <1>2, <1>4 DEF First
<1>6. PICK b : b = Boxes(es, t)
  OBVIOUS
<1>7. /\ b \in Seq(Box) /\ Len(b) = Len(es)
      /\ \A n \in 1..Len(es) : /\ b[n].at = es[n].start /\ ~IsGap(b[n])
                               /\ b[n].height = Height(es[n], Reach(es, t)[n-1])
  BY <1>2, <1>5, <1>6, BoxesFacts
<1>8. Placed(c, M, b) /\ Ordered(b)
  <2>1. Answered(c, L[i], es)
    BY DEF Reply
  <2> QED  BY <1>2, <1>5, <1>6, <2>1, AnsweredBoxes
<1>9. B2 = b \o B
  BY <1>0, <1>4, <1>6
<1>10. Placed(c, M, B2)
  BY <1>3, <1>7, <1>8, <1>9, PlacedConcat
<1>11. SUFFICES ASSUME ~late2
                PROVE  Arrived(M) /\ Ordered(B2) /\ Filled(c, M, B2) /\ Stepping(c, x, M, B2, m2, d2)
  BY <1>3, <1>10 DEF ColumnInv
<1>12. InTime(L, i) /\ Ordered(B) /\ Filled(c, L, B)
  BY <1>11 DEF ColumnInv, InTime
<1>13. Arrived(M) /\ \A s \in Nat : Here(L, s) => i > 1 /\ L[i].hi <= s
  BY <1>1, <1>12, NextToAll
<1>14. Ordered(B2)
  <2>1. PICK S : S = Shows(B)
    OBVIOUS
  <2>2. S \in SUBSET (1..Len(B)) /\ Len(B) \in Nat
    BY <2>1 DEF Shows
  <2>3. \A n \in S : n \in 1..Len(B) /\ B[n].at \in Nat /\ ~IsGap(B[n]) /\ L[i].hi <= B[n].at
    <3>1. \A n \in S : n \in 1..Len(B) /\ B[n].at \in Nat /\ ~IsGap(B[n]) /\ Here(L, B[n].at)
      BY <1>1, <2>1 DEF Shows, Placed
    <3> QED  BY <1>13, <3>1
  <2>4. ASSUME NEW n \in S PROVE es[Len(es)].start < B[n].at
    <3>1. S # {}
      OBVIOUS
    <3>2. Min(S) \in S /\ Min(S) <= n
      BY <2>2, <3>1, MinMax
    <3>3. B[Min(S)].at # es[Len(es)].start
      BY <2>1, <3>1 DEF KnownIn, Last
    <3>4. B[Min(S)].at <= B[n].at
      <4>1. n = Min(S) \/ Min(S) < n
        <5>1. \A k \in S : k \in Nat
          BY <2>2
        <5> QED  BY <3>2, <5>1
      <4> QED  BY <1>12, <2>3, <3>2, <4>1 DEF Ordered
    <3>5. /\ es[Len(es)].start <= L[i].hi /\ L[i].hi <= B[Min(S)].at
          /\ B[Min(S)].at \in Nat /\ B[n].at \in Nat /\ es[Len(es)].start \in Nat
      BY <1>2, <2>3, <3>2
    <3> QED  BY <1>2, <3>3, <3>4, <3>5
  <2>5. ASSUME NEW k \in 1..Len(b), NEW n \in 1..Len(B), ~IsGap(B[n])
        PROVE  b[k].at < B[n].at
    <3>1. n \in S
      BY <2>1, <2>5 DEF Shows
    <3>2. es[Len(es)].start < B[n].at /\ B[n].at \in Nat
      BY <2>3, <2>4, <3>1
    <3>3. k \in 1..Len(es) /\ b[k].at = es[k].start /\ es[k].start \in Nat /\ es[Len(es)].start \in Nat
      BY <1>2, <1>7
    <3>4. es[k].start <= es[Len(es)].start
      <4>1. k = Len(es) \/ k < Len(es)
        BY <1>2, <3>3
      <4>2. k < Len(es) => es[k].start < es[Len(es)].start
        BY <1>2, <3>3
      <4> QED  BY <3>3, <4>1, <4>2
    <3> QED  BY <3>2, <3>3, <3>4
  <2>6. \A k \in 1..Len(b), n \in 1..Len(B) :
          ~IsGap(b[k]) /\ ~IsGap(B[n]) => b[k].at < B[n].at
    BY <2>5
  <2>7. Ordered(b \o B)
    BY <1>7, <1>8, <1>12, <2>6, OrderedConcat
  <2> QED  BY <1>9, <2>7, Zenon
<1>15. Filled(c, M, B2)
  <2>1. FilledWith(B, es, t, B2)
    BY <1>0, <1>4 DEF FilledWith
  <2> QED  BY <1>1, <1>5, <1>12, <2>1, FilledConcat
<1>16. Stepping(c, x, M, B2, m2, d2)
  <2>1. SUFFICES ASSUME Down(c, M)
                 PROVE  /\ \A n \in 1..Len(B2) : \E p \in Range(Epg[c]) :
                             /\ p.start = B2[n].at
                             /\ B2[n].height = Height(p, Bottom(B2, x.from + m2)[n-1])
                        /\ d2 = Bottom(B2, x.from + m2)[Len(B2)]
    BY DEF Stepping
  <2>2. Down(c, L)
    BY <1>2, <2>1, TakenCalm
  <2>3. i = 1
    <3>1. i # 1 => i \in 2..Len(L)
      BY <1>2
    <3> QED  BY <2>2, <3>1 DEF Down
  <2>4. B = <<>>
    <3>1. ASSUME NEW n \in 1..Len(B) PROVE FALSE
      <4>1. ~IsGap(B[n])
        BY <1>12, <2>2 DEF Filled, Down
      <4>2. B[n].at \in Nat /\ Here(L, B[n].at)
        BY <1>1, <4>1 DEF Placed
      <4> QED  BY <1>13, <2>3, <4>2
    <3> QED  BY <3>1
  <2>5. B2 = b /\ Shows(B) = {}
    <3>1. B2 = b
      BY <1>7, <1>9, <2>4, ConcatEmptySeq
    <3>2. Len(B) = 0
      BY <2>4
    <3> QED  BY <3>1, <3>2 DEF Shows
  <2>6. x.from + m2 = t
    <3>1. x.from = L[1].lo
      BY <1>1, <2>2, FirstRequest DEF Down, Reply
    <3> QED  BY <1>0, <1>2, <1>4, <1>5, <2>3, <3>1
  <2>7. \A n \in 0..Len(es) : Bottom(b, t)[n] = Reach(es, t)[n]
    BY <1>2, <1>5, <1>6, BottomOfBoxes
  <2>8. ASSUME NEW n \in 1..Len(b)
        PROVE  \E p \in Range(Epg[c]) : p.start = b[n].at /\ b[n].height = Height(p, Bottom(b, t)[n-1])
    <3>1. n \in 1..Len(es) /\ n - 1 \in 0..Len(es)
      BY <1>2, <1>7
    <3> QED  BY <1>2, <1>7, <2>7, <3>1
  <2>9. d2 = Bottom(b, t)[Len(b)]
    <3>1. Len(es) \in 0..Len(es)
      BY <1>2
    <3> QED  BY <1>0, <1>4, <1>7, <2>5, <2>7, <3>1
  <2> QED  BY <2>5, <2>6, <2>8, <2>9
<1> QED  BY <1>13, <1>14, <1>15, <1>16

-----------------------------------------------------------------------------
LEMMA InitBoxes == Init => BoxTypes /\ BoxInv
<1> SUFFICES ASSUME Init PROVE BoxTypes /\ BoxInv
  OBVIOUS
<1>1. BoxTypes
  BY NumbersAssumption DEF Init, BoxTypes
<1>2. ASSUME NEW c \in Columns
      PROVE  ColumnInv(c, col[c], load[c], box[c], margin[c], eTime[c], c \in overtaken)
  <2>1. col[c] = None /\ load[c] = <<>> /\ box[c] = <<>>
    BY DEF Init
  <2>2. Len(load[c]) = 0 /\ Len(box[c]) = 0
    BY <2>1
  <2>3. Outward(load[c]) /\ Whole(col[c], load[c]) /\ Placed(c, load[c], box[c])
    BY <2>1, <2>2 DEF Outward, Whole, Placed
  <2>4. Arrived(load[c]) /\ Ordered(box[c])
    BY <2>2 DEF Arrived, Ordered
  <2>5. Filled(c, load[c], box[c])
    BY <2>2 DEF Filled, Here
  <2>6. Stepping(c, col[c], load[c], box[c], margin[c], eTime[c])
    BY <2>1 DEF Stepping
  <2> QED  BY <2>3, <2>4, <2>5, <2>6 DEF ColumnInv
<1> QED  BY <1>1, <1>2 DEF BoxInv

(* Columns ask for the span s..e; what they show stays. *)
LEMMA AskBoxes ==
  ASSUME IInv, BoxTypes, BoxInv, NEW S, NEW s \in Nat, NEW e \in Nat, s <= e,
         UpdateColumns(S, s, e), UNCHANGED <<box, margin, eTime, overtaken>>
  PROVE  BoxInv'
<1>1. SUFFICES ASSUME NEW c \in Columns
               PROVE  ColumnInv(c, col'[c], load'[c], box[c], margin[c], eTime[c], c \in overtaken)
  BY DEF BoxInv
<1>2. /\ col[c] \in Span \cup {None} /\ load[c] \in Seq(Request)
      /\ Within(col[c], load[c]) /\ SideBySide(load[c])
      /\ box[c] \in Seq(Box) /\ margin[c] \in Nat
      /\ ColumnInv(c, col[c], load[c], box[c], margin[c], eTime[c], c \in overtaken)
  BY DEF IInv, ColTypes, ColInv, BoxTypes, BoxInv
<1>3. PICK x, L, B, m, d, late : /\ x = col[c] /\ L = load[c] /\ B = box[c]
                                 /\ m = margin[c] /\ d = eTime[c] /\ late = (c \in overtaken)
  OBVIOUS
<1>4. CASE c \in S
  <2>1. PICK A, V, M : A = Asked(x, s, e) /\ V = Covered(x, s, e) /\ M = L \o A
    OBVIOUS
  <2>2. col'[c] = V /\ load'[c] = M
    BY <1>3, <1>4, <2>1 DEF UpdateColumns
  <2>3. ColumnInv(c, V, M, B, m, d, late)
    BY <1>2, <1>3, <2>1, ColumnAsks
  <2> QED  BY <1>3, <2>2, <2>3
<1>5. CASE c \notin S
  <2>1. col'[c] = x /\ load'[c] = L
    BY <1>3, <1>5 DEF UpdateColumns
  <2> QED  BY <1>2, <1>3, <2>1
<1> QED  BY <1>4, <1>5

LEMMA UpdateBoxes ==
  ASSUME IInv, BoxTypes, BoxInv, NEW m, NEW v, NEW s \in Nat, NEW e \in Nat, s <= e,
         Update(m, v, s, e), UNCHANGED <<box, margin, eTime, overtaken>>
  PROVE  BoxInv' /\ later' \in 0..MaxLater
<1>1. CASE m = 0 /\ v > 0
  BY <1>1 DEF Update, BoxInv, BoxTypes
<1>2. CASE ~(m = 0 /\ v > 0)
  <2>1. PICK S : S = InView(m, v)
    OBVIOUS
  <2>2. UpdateColumns(S, s, e) /\ later < MaxLater /\ later' = later + 1
    BY <1>2, <2>1 DEF Update
  <2>3. later' \in 0..MaxLater
    BY <2>2, NumbersAssumption DEF BoxTypes
  <2> QED  BY <2>2, <2>3, AskBoxes
<1> QED  BY <1>1, <1>2

(* Request i of column c is answered, or lost. *)
LEMMA RequestOf ==
  ASSUME IInv, NEW c \in Columns, NEW i \in 1..Len(load[c]), load[c][i].st = "out",
         NEW u \in {"in", "lost"}, load' = [load EXCEPT ![c][i].st = u]
  PROVE  /\ TakenAt(load[c], load'[c], i, u)
         /\ load[c] \in Seq(Request) /\ load[c][i].lo \in Nat /\ load[c][i].hi \in Nat
         /\ col[c] \in Span /\ Within(col[c], load[c])
         /\ \A b \in Columns : b # c => load'[b] = load[b]
<1>1. DOMAIN load = Columns /\ load[c] \in Seq(Request)
  BY DEF IInv, ColTypes
<1>2. PICK L, M : L = load[c] /\ M = load'[c]
  OBVIOUS
<1>3. M = [L EXCEPT ![i].st = u]
  BY <1>1, <1>2
<1>4. TakenAt(L, M, i, u)
  BY <1>1, <1>2, <1>3, TakenRequest
<1>5. load[c][i].lo \in Nat /\ load[c][i].hi \in Nat
  BY <1>1, RequestTypes
<1>6. Within(col[c], load[c]) /\ col[c] \in Span \cup {None}
  BY DEF IInv, ColInv, ColTypes
<1>7. col[c] # None
  <2>1. SUFFICES ASSUME col[c] = None PROVE FALSE
    OBVIOUS
  <2>2. Len(load[c]) = 0
    BY <1>6, <2>1 DEF Within
  <2> QED  BY <2>2
<1>8. \A b \in Columns : b # c => load'[b] = load[b]
  BY <1>1
<1> QED  BY <1>1, <1>2, <1>4, <1>5, <1>6, <1>7, <1>8

(* What is left of a column when it is answered. *)
Changed(c, B, m, d) ==
  /\ B \in Seq(Box) /\ m \in Nat /\ d \in Nat
  /\ box' = [box EXCEPT ![c] = B]
  /\ margin' = [margin EXCEPT ![c] = m]
  /\ eTime' = [eTime EXCEPT ![c] = d]

LEMMA AnswerBoxes ==
  ASSUME IInv, BoxTypes, BoxInv, NEW c \in Columns, NEW i \in 1..Len(load[c]), Answer(c, i)
  PROVE  BoxTypes' /\ BoxInv'
<1>1. PICK x, L, B, m, d, late, q, es, M, late2 :
         /\ x = col[c] /\ L = load[c] /\ B = box[c] /\ m = margin[c] /\ d = eTime[c]
         /\ late = (c \in overtaken) /\ q = load[c][i] /\ es = InRange(c, q)
         /\ M = load'[c] /\ late2 = (c \in overtaken')
  OBVIOUS
<1>2. /\ q.st = "out" /\ load' = [load EXCEPT ![c][i].st = "in"]
      /\ overtaken' = IF \E j \in 1..(i-1) : L[j].st = "out" THEN overtaken \cup {c} ELSE overtaken
      /\ UNCHANGED <<start, end, main, view, later, col, lost>>
  BY <1>1 DEF Answer
<1>3. IF es = <<>> THEN PutGap(c, q)
      ELSE IF Known(c, q, es) THEN UNCHANGED <<box, margin, eTime>>
      ELSE IF q.after THEN AppendBoxes(c, es)
      ELSE PrependBoxes(c, q, es)
  BY <1>1, Zenon DEF Answer
<1>4. /\ TakenAt(L, M, i, "in") /\ L \in Seq(Request) /\ q.lo \in Nat /\ q.hi \in Nat
      /\ x \in Span /\ Within(x, L) /\ i \in 1..Len(L) /\ q = L[i]
      /\ \A b \in Columns : b # c => load'[b] = load[b]
  BY <1>1, <1>2, RequestOf
<1>5. Answered(c, q, es)
  BY <1>1, <1>4, InRangeFacts
<1>6. Reply(c, x, L, i, M, es)
  BY <1>4, <1>5 DEF Reply
<1>7. /\ B \in Seq(Box) /\ m \in Nat /\ d \in Nat
      /\ ColumnInv(c, x, L, B, m, d, late)
      /\ Programmes(c) = Shows(B)
      /\ box = [box EXCEPT ![c] = B] /\ margin = [margin EXCEPT ![c] = m]
      /\ eTime = [eTime EXCEPT ![c] = d]
  BY <1>1 DEF BoxTypes, BoxInv, Programmes, Shows
<1>8. ~late2 => ~late /\ \A j \in 1..(i-1) : L[j].st # "out"
  BY <1>1, <1>2
<1>9. Known(c, q, es) <=> KnownIn(B, L[i], es)
  BY <1>1, <1>4, <1>7 DEF Known, KnownIn
<1>10. Whole(x, L)
  BY <1>7 DEF ColumnInv
<1>11. /\ L[i] \in Request /\ L[i].lo <= L[i].hi
       /\ es \in Seq(Programme) /\ Len(es) \in Nat
       /\ es # <<>> => 1 \in 1..Len(es) /\ Len(es) \in 1..Len(es)
       /\ \A n \in 1..Len(es) : es[n].start \in Nat /\ L[i].lo <= es[n].start
  BY <1>6, <1>10, ReplyFacts
<1>12. \E B2, m2, d2 : Changed(c, B2, m2, d2) /\ ColumnInv(c, x, M, B2, m2, d2, late2)
  <2>1. CASE es = <<>>
    <3>1. PICK B2 : B2 = IF q.after THEN B \o Gap(q) ELSE Gap(q) \o B
      OBVIOUS
    <3>2. B2 \in Seq(Box)
      <4>1. Gap(q) \in Seq(Box)
        BY <1>4, <1>11, GapBoxes
      <4> QED  BY <1>7, <3>1, <4>1, ConcatProperties
    <3>3. box' = [box EXCEPT ![c] = B2]
      BY <1>1, <1>3, <2>1, <3>1 DEF PutGap
    <3>4. PICK m2 \in Nat, d2 \in Nat : margin' = [margin EXCEPT ![c] = m2] /\ eTime' = [eTime EXCEPT ![c] = d2]
      <4>1. \/ UNCHANGED <<margin, eTime>>
            \/ eTime' = [eTime EXCEPT ![c] = q.lo] /\ UNCHANGED margin
            \/ eTime' = [eTime EXCEPT ![c] = q.lo] /\ margin' = [margin EXCEPT ![c] = 0]
        BY <1>3, <2>1 DEF PutGap
      <4> QED  BY <1>4, <1>7, <4>1
    <3>5. GapPut(B, L[i], B2)
      BY <1>4, <3>1 DEF GapPut
    <3>6. ColumnInv(c, x, M, B2, m2, d2, late2)
      BY <1>6, <1>7, <1>8, <2>1, <3>5, ColumnGap
    <3> QED  BY <3>2, <3>3, <3>4, <3>6 DEF Changed
  <2>2. CASE /\ es # <<>> /\ UNCHANGED <<box, margin, eTime>>
             /\ KnownIn(B, L[i], es) \/ (L[i].after /\ Shows(B) = {})
    <3>1. ColumnInv(c, x, M, B, m, d, late2)
      BY <1>6, <1>7, <1>8, <2>2, ColumnTrips
    <3>2. Changed(c, B, m, d)
      BY <1>7, <2>2 DEF Changed
    <3> QED  BY <3>1, <3>2
  <2>3. CASE es # <<>> /\ ~KnownIn(B, L[i], es) /\ L[i].after /\ Shows(B) # {}
    <3>1. PICK B2, d2 : B2 = B \o Boxes(es, d) /\ d2 = Reach(es, d)[Len(es)]
      OBVIOUS
    <3>2. AppendBoxes(c, es)
      BY <1>3, <1>4, <1>9, <2>3
    <3>3. box' = [box EXCEPT ![c] = B2] /\ eTime' = [eTime EXCEPT ![c] = d2] /\ UNCHANGED margin
      BY <1>1, <1>7, <2>3, <3>1, <3>2 DEF AppendBoxes
    <3>4. B2 \in Seq(Box) /\ d2 \in Nat
      <4>1. Boxes(es, d) \in Seq(Box)
        BY <1>7, <1>11, BoxesFacts
      <4>2. Len(es) \in 0..Len(es)
        BY <1>11
      <4>3. d2 \in Nat
        BY <1>7, <1>11, <3>1, <4>2, ReachValues
      <4> QED  BY <1>7, <3>1, <4>1, <4>3, ConcatProperties
    <3>5. ColumnInv(c, x, M, B2, m, d2, late2)
      <4>1. Appended(B, d, es, B2, d2)
        BY <2>3, <3>1 DEF Appended
      <4>2. B \in Seq(Box) /\ m \in Nat /\ d \in Nat /\ ColumnInv(c, x, L, B, m, d, late)
        BY <1>7
      <4>3. ~KnownIn(B, L[i], es) /\ L[i].after /\ es # <<>>
        BY <2>3
      <4> QED  BY <1>6, <1>8, <4>1, <4>2, <4>3, ColumnAppends, SMTT(20)
    <3> QED  BY <1>7, <3>3, <3>4, <3>5 DEF Changed
  <2>4. CASE es # <<>> /\ ~KnownIn(B, L[i], es) /\ ~L[i].after
    <3>1. PICK B2, m2, d2 :
             /\ B2 = Boxes(es, First(es).start) \o B
             /\ m2 = First(es).start - L[i].lo
             /\ d2 = IF Shows(B) = {} THEN Reach(es, First(es).start)[Len(es)] ELSE d
      OBVIOUS
    <3>2. PrependBoxes(c, q, es)
      BY <1>3, <1>4, <1>9, <2>4
    <3>3. /\ box' = [box EXCEPT ![c] = B2] /\ eTime' = [eTime EXCEPT ![c] = d2]
          /\ margin' = [margin EXCEPT ![c] = m2]
      BY <1>1, <1>4, <1>7, <3>1, <3>2 DEF PrependBoxes
    <3>4. First(es).start \in Nat /\ m2 \in Nat
      <4>1. First(es).start = es[1].start
        BY DEF First
      <4> QED  BY <1>4, <1>11, <2>4, <3>1, <4>1
    <3>5. B2 \in Seq(Box) /\ d2 \in Nat
      <4>1. Boxes(es, First(es).start) \in Seq(Box)
        BY <1>11, <3>4, BoxesFacts
      <4>2. Len(es) \in 0..Len(es)
        BY <1>11
      <4>3. Reach(es, First(es).start)[Len(es)] \in Nat
        BY <1>11, <3>4, <4>2, ReachValues
      <4> QED  BY <1>7, <3>1, <4>1, <4>3, ConcatProperties
    <3>6. ColumnInv(c, x, M, B2, m2, d2, late2)
      <4>1. Prepended(B, L[i], es, B2, m2, d2)
        BY <3>1 DEF Prepended
      <4> QED  BY <1>6, <1>7, <1>8, <2>4, <4>1, ColumnPrepends
    <3> QED  BY <3>3, <3>4, <3>5, <3>6 DEF Changed
  <2>5. (es # <<>> /\ KnownIn(B, L[i], es)) => UNCHANGED <<box, margin, eTime>>
    BY <1>3, <1>9
  <2>6. (es # <<>> /\ ~KnownIn(B, L[i], es) /\ L[i].after /\ Shows(B) = {}) =>
            UNCHANGED <<box, margin, eTime>>
    BY <1>3, <1>4, <1>7, <1>9 DEF AppendBoxes
  <2> QED  BY <2>1, <2>2, <2>3, <2>4, <2>5, <2>6
<1>13. PICK B2, m2, d2 : Changed(c, B2, m2, d2) /\ ColumnInv(c, x, M, B2, m2, d2, late2)
  BY <1>12
<1>14. BoxTypes'
  BY <1>2, <1>13 DEF BoxTypes, Changed
<1>15. ASSUME NEW b \in Columns
       PROVE  ColumnInv(b, col'[b], load'[b], box'[b], margin'[b], eTime'[b], b \in overtaken')
  <2>1. CASE b = c
    <3>1. box'[c] = B2 /\ margin'[c] = m2 /\ eTime'[c] = d2
      BY <1>13 DEF Changed, BoxTypes
    <3>2. col'[c] = x /\ load'[c] = M /\ late2 = (c \in overtaken')
      BY <1>1, <1>2
    <3> QED  BY <1>13, <2>1, <3>1, <3>2
  <2>2. CASE b # c
    <3>1. box'[b] = box[b] /\ margin'[b] = margin[b] /\ eTime'[b] = eTime[b]
      BY <1>13, <2>2 DEF Changed, BoxTypes
    <3>2. col'[b] = col[b] /\ load'[b] = load[b] /\ ((b \in overtaken') <=> (b \in overtaken))
      BY <1>2, <1>4, <2>2
    <3>3. ColumnInv(b, col[b], load[b], box[b], margin[b], eTime[b], b \in overtaken)
      BY DEF BoxInv
    <3> QED  BY <3>1, <3>2, <3>3 DEF ColumnInv
  <2> QED  BY <2>1, <2>2
<1> QED  BY <1>14, <1>15 DEF BoxInv

-----------------------------------------------------------------------------
LEMMA FailBoxes ==
  ASSUME IInv, BoxTypes, BoxInv, NEW c \in Columns, NEW i \in 1..Len(load[c]), Fail(c, i)
  PROVE  BoxTypes' /\ BoxInv'
<1>1. /\ load[c][i].st = "out" /\ load' = [load EXCEPT ![c][i].st = "lost"]
      /\ lost < MaxLost /\ lost' = lost + 1
      /\ UNCHANGED <<start, end, main, view, later, col, box, margin, eTime, overtaken>>
  BY DEF Fail
<1>2. BoxTypes'
  <2>1. lost' \in 0..MaxLost
    <3>1. lost \in Nat /\ MaxLost \in Nat
      BY NumbersAssumption DEF BoxTypes
    <3> QED  BY <1>1, <3>1
  <2> QED  BY <1>1, <2>1 DEF BoxTypes
<1>3. /\ TakenAt(load[c], load'[c], i, "lost") /\ load[c] \in Seq(Request)
      /\ \A b \in Columns : b # c => load'[b] = load[b]
  <2>1. PICK u \in {"in", "lost"} : u = "lost"
    OBVIOUS
  <2>2. load[c][i].st = "out" /\ load' = [load EXCEPT ![c][i].st = u]
    BY <1>1, <2>1
  <2> QED  BY <2>1, <2>2, RequestOf
<1>4. ASSUME NEW b \in Columns
      PROVE  ColumnInv(b, col[b], load'[b], box[b], margin[b], eTime[b], b \in overtaken)
  <2>1. ColumnInv(b, col[b], load[b], box[b], margin[b], eTime[b], b \in overtaken)
    BY DEF BoxInv
  <2>2. CASE b = c
    <3>1. PICK M : M = load'[c]
      OBVIOUS
    <3>2. TakenAt(load[c], M, i, "lost")
      BY <1>3, <3>1
    <3>3. ColumnInv(c, col[c], M, box[c], margin[c], eTime[c], c \in overtaken)
      BY <1>3, <2>1, <2>2, <3>2, ColumnFails
    <3> QED  BY <2>2, <3>1, <3>3
  <2> QED  BY <1>3, <2>1, <2>2
<1>5. BoxInv'
  BY <1>1, <1>4 DEF BoxInv
<1> QED  BY <1>2, <1>5

LEMMA FirstInViewType ==
  ASSUME NEW i \in 0..Count, view \in Nat, view > 0
  PROVE  FirstInView(i) \in 0..Count
BY NumbersAssumption DEF FirstInView, Greatest

(* The span of the page after setTime. *)
LEMMA SetTimeSpan ==
  ASSUME IInv, NEW t \in JumpTimes, SetTime(t)
  PROVE  start' \in Nat /\ end' \in Nat /\ start' <= end'
<1>1. IInv'
  BY NextStep DEF Next
<1> QED  BY <1>1 DEF IInv, PageInv

LEMMA BoxStep ==
  ASSUME IInv, BoxTypes, BoxInv, [Next]_vars
  PROVE  BoxTypes' /\ BoxInv'
<1>1. start \in Nat /\ end \in Nat /\ start <= end
  BY DEF IInv, PageInv
<1>2. ASSUME NEW w \in 1..MaxView, Resize(w) PROVE BoxTypes' /\ BoxInv'
  <2>1. PICK v : v = view'
    OBVIOUS
  <2>2. Update(main, v, start, end) /\ UNCHANGED <<main, box, margin, eTime, overtaken, lost>>
    BY <1>2, <2>1 DEF Resize
  <2>3. BoxInv' /\ later' \in 0..MaxLater
    BY <1>1, <2>2, UpdateBoxes
  <2>4. view' \in Nat
    BY <1>2, NumbersAssumption DEF Resize
  <2> QED  BY <2>2, <2>3, <2>4 DEF BoxTypes
<1>3. ASSUME NEW i \in 0..Count, SetMain(i) PROVE BoxTypes' /\ BoxInv'
  <2>1. PICK m : m = main'
    OBVIOUS
  <2>2. /\ Update(m, view, start, end) /\ UNCHANGED <<view, box, margin, eTime, overtaken, lost>>
        /\ m = FirstInView(i) /\ view > 0
    BY <1>3, <2>1 DEF SetMain
  <2>3. BoxInv' /\ later' \in 0..MaxLater
    BY <1>1, <2>2, UpdateBoxes
  <2>4. main' \in 0..Count
    <3>1. view \in Nat
      BY DEF BoxTypes
    <3> QED  BY <2>1, <2>2, <3>1, FirstInViewType
  <2> QED  BY <2>2, <2>3, <2>4 DEF BoxTypes
<1>4. ASSUME NEW t \in JumpTimes, SetTime(t) PROVE BoxTypes' /\ BoxInv'
  <2>1. PICK s, e : s = start' /\ e = end'
    OBVIOUS
  <2>2. s \in Nat /\ e \in Nat /\ s <= e
    BY <1>4, <2>1, SetTimeSpan
  <2>3. /\ Update(main, view, s, e) \/ UNCHANGED <<load, col, later>>
        /\ UNCHANGED <<main, view, box, margin, eTime, overtaken, lost>>
    BY <1>4, <2>1 DEF SetTime
  <2>4. BoxInv' /\ later' \in 0..MaxLater
    <3>1. CASE Update(main, view, s, e)
      BY <2>2, <2>3, <3>1, UpdateBoxes
    <3>2. CASE UNCHANGED <<load, col, later>>
      BY <2>3, <3>2 DEF BoxInv, BoxTypes
    <3> QED  BY <2>3, <3>1, <3>2
  <2> QED  BY <2>3, <2>4 DEF BoxTypes
<1>5. ASSUME LaterUpdate PROVE BoxTypes' /\ BoxInv'
  <2>1. PICK S : S = Beside(main, view)
    OBVIOUS
  <2>2. /\ UpdateColumns(S, start, end) /\ later > 0 /\ later' = later - 1
        /\ UNCHANGED <<main, view, box, margin, eTime, overtaken, lost>>
    BY <1>5, <2>1 DEF LaterUpdate
  <2>3. BoxInv'
    BY <1>1, <2>2, AskBoxes
  <2>4. later' \in 0..MaxLater
    BY <2>2, NumbersAssumption DEF BoxTypes
  <2> QED  BY <2>2, <2>3, <2>4 DEF BoxTypes
<1>6. ASSUME NEW c \in Columns, NEW i \in 1..Len(load[c]), Answer(c, i)
      PROVE  BoxTypes' /\ BoxInv'
  BY <1>6, AnswerBoxes
<1>7. ASSUME NEW c \in Columns, NEW i \in 1..Len(load[c]), Fail(c, i)
      PROVE  BoxTypes' /\ BoxInv'
  BY <1>7, FailBoxes
<1>8. ASSUME UNCHANGED vars PROVE BoxTypes' /\ BoxInv'
  BY <1>8 DEF vars, BoxTypes, BoxInv
<1> QED  BY <1>2, <1>3, <1>4, <1>5, <1>6, <1>7, <1>8 DEF Next

(* And so do the boxes of the columns, with the heights and margins. *)
THEOREM BoxInvariance == Spec => [](IInv /\ BoxTypes /\ BoxInv)
<1>1. Init => IInv /\ BoxTypes /\ BoxInv
  BY InitIInv, InitBoxes
<1>2. (IInv /\ BoxTypes /\ BoxInv) /\ [Next]_vars => (IInv /\ BoxTypes /\ BoxInv)'
  BY NextStep, BoxStep
<1> QED  BY <1>1, <1>2, PTL DEF Spec

(* Every variable keeps its type: what the answers find and in whatever    *)
(* order they come, no height and no margin is ever negative (loadData).   *)
THEOREM TypeCorrect == Spec => []TypeOK
<1>1. IInv /\ BoxTypes => TypeOK
  BY DEF IInv, PageInv, ColTypes, BoxTypes, TypeOK
<1> QED  BY <1>1, BoxInvariance, PTL

(* A column whose answers came in the order of its requests shows its      *)
(* programmes in order, wherever it grew (loadData, the callback).         *)
THEOREM ShownInOrder == Spec => []InOrder
<1>1. ASSUME BoxInv, NEW c \in Columns \ overtaken,
             NEW i \in Programmes(c), NEW j \in Programmes(c), i < j
      PROVE  box[c][i].at < box[c][j].at
  <2>1. ColumnInv(c, col[c], load[c], box[c], margin[c], eTime[c], c \in overtaken)
    BY <1>1 DEF BoxInv
  <2>2. Ordered(box[c])
    BY <2>1 DEF ColumnInv
  <2> QED  BY <1>1, <2>2 DEF Ordered, Programmes
<1>2. BoxInv => InOrder
  BY <1>1 DEF InOrder
<1> QED  BY <1>2, BoxInvariance, PTL

-----------------------------------------------------------------------------
(* A clean column, as the properties have it. *)
LEMMA CleanCalm ==
  ASSUME IInv, NEW c \in Columns, Clean(c)
  PROVE  /\ Calm(c, load[c]) /\ col[c] \in Span /\ c \notin overtaken
         /\ \A i \in 1..Len(load[c]) : load[c][i].st = "in"
<1>1. PICK L : L = load[c]
  OBVIOUS
<1>2. col[c] \in Span \cup {None} /\ L \in Seq(Request)
  BY <1>1 DEF IInv, ColTypes
<1>3. /\ col[c] # None /\ c \notin overtaken
      /\ Answers(L, "out") = {} /\ Answers(L, "lost") = {}
      /\ ~OnTheHour(c) /\ ~HasGap(c)
  BY <1>1 DEF Clean, AllIn
<1>4. \A i \in 1..Len(L) : L[i].lo \in Nat /\ L[i].hi \in Nat /\ L[i].st \in {"out", "in", "lost"}
  <2>1. \A i \in 1..Len(L) : L[i] \in Request
    BY <1>2
  <2> QED  BY <2>1 DEF Request
<1>5. \A i \in 1..Len(L) : L[i].st = "in"
  BY <1>3, <1>4 DEF Answers
<1>6. ASSUME NEW i \in 1..Len(L)
      PROVE  \E p \in Range(Epg[c]) : L[i].lo <= p.start /\ p.start <= L[i].hi
  <2>1. PICK es : es = InRange(c, L[i])
    OBVIOUS
  <2>2. Answered(c, L[i], es)
    BY <1>4, <2>1, InRangeFacts
  <2>3. L[i] \in Range(L)
    BY <1>2 DEF Range
  <2>4. es # <<>>
    BY <1>1, <1>3, <2>1, <2>3 DEF HasGap
  <2>5. 1 \in 1..Len(es)
    <3>1. es \in Seq(Programme)
      BY <2>2 DEF Answered
    <3> QED  BY <2>4, <3>1
  <2> QED  BY <2>2, <2>5 DEF Answered
<1>7. ASSUME NEW i \in 1..Len(L), i > 1, NEW p \in Range(Epg[c])
      PROVE  p.start # Joint(L[i])
  <2>1. i \in 2..Len(L)
    BY <1>7
  <2> QED  BY <1>1, <1>3, <2>1 DEF OnTheHour, Joint
<1>8. Calm(c, L)
  BY <1>5, <1>6, <1>7 DEF Calm
<1> QED  BY <1>1, <1>2, <1>3, <1>5, <1>8

(* A clean column shows exactly the programmes of the span it covers, in   *)
(* whatever pieces it asked for them (loadData and updateTime).            *)
THEOREM ShownAll == Spec => []NothingMissing
<1>1. ASSUME IInv, BoxTypes, BoxInv, NEW c \in Columns, Clean(c)
      PROVE  {b.at : b \in Range(box[c])} =
                {p.start : p \in {p \in Range(Epg[c]) : col[c].from <= p.start /\ p.start <= col[c].to}}
  <2>1. PICK x, L, B : x = col[c] /\ L = load[c] /\ B = box[c]
    OBVIOUS
  <2>2. /\ Calm(c, L) /\ x \in Span /\ c \notin overtaken
        /\ \A i \in 1..Len(L) : L[i].st = "in"
    BY <1>1, <2>1, CleanCalm
  <2>3. x # None /\ x.from \in Nat /\ x.to \in Nat
    BY <2>2, SpanTypes
  <2>4. ColumnInv(c, x, L, B, margin[c], eTime[c], c \in overtaken)
    BY <1>1, <2>1 DEF BoxInv
  <2>5. Whole(x, L) /\ Placed(c, L, B) /\ Filled(c, L, B)
    BY <2>2, <2>4 DEF ColumnInv
  <2>6. /\ L \in Seq(Request)
        /\ \A i \in 1..Len(L) : x.from <= L[i].lo /\ L[i].hi <= x.to
    BY <1>1, <2>1, <2>3 DEF IInv, ColTypes, ColInv, Within
  <2>7. \A i \in 1..Len(L) : L[i].lo \in Nat /\ L[i].hi \in Nat
    BY <2>6, RequestTypes
  <2>8. ASSUME NEW b \in Range(B)
        PROVE  \E p \in Range(Epg[c]) : p.start = b.at /\ x.from <= p.start /\ p.start <= x.to
    <3>1. PICK n \in 1..Len(B) : b = B[n]
      <4>1. B \in Seq(Box)
        BY <1>1, <2>1 DEF BoxTypes
      <4> QED  BY <4>1 DEF Range
    <3>2. B[n].at \in Nat /\ Here(L, B[n].at) /\ \E p \in Range(Epg[c]) : p.start = B[n].at
      BY <2>2, <2>5 DEF Filled, Placed
    <3>3. PICK i \in 1..Len(L) : L[i].lo <= B[n].at /\ B[n].at <= L[i].hi
      BY <3>2 DEF Here
    <3>4. x.from <= B[n].at /\ B[n].at <= x.to
      BY <2>3, <2>6, <2>7, <3>2, <3>3
    <3> QED  BY <3>1, <3>2, <3>4
  <2>9. ASSUME NEW p \in Range(Epg[c]), x.from <= p.start, p.start <= x.to
        PROVE  \E b \in Range(B) : b.at = p.start
    <3>1. p.start \in Nat
      BY EpgFacts
    <3>2. PICK i \in 1..Len(L) : L[i].lo <= p.start /\ p.start <= L[i].hi
      BY <2>3, <2>5, <2>9, <3>1 DEF Whole
    <3>3. Here(L, p.start)
      BY <2>2, <3>2 DEF Here
    <3>4. PICK n \in 1..Len(B) : B[n].at = p.start
      BY <2>2, <2>5, <3>3 DEF Filled
    <3>5. B[n] \in Range(B)
      <4>1. B \in Seq(Box)
        BY <1>1, <2>1 DEF BoxTypes
      <4> QED  BY <4>1 DEF Range
    <3> QED  BY <3>4, <3>5
  <2> QED  BY <2>1, <2>8, <2>9
<1>2. IInv /\ BoxTypes /\ BoxInv => NothingMissing
  BY <1>1 DEF NothingMissing
<1> QED  BY <1>2, BoxInvariance, PTL

(* Of a clean column that only grew downwards every box reaches down to    *)
(* the end of its programme or has the least height, over all the answers  *)
(* (the delta the callback of loadData keeps in eTime).                    *)
THEOREM DownInStep == Spec => []BackInStepDown
<1>1. ASSUME IInv, BoxInv, NEW c \in Columns, Clean(c),
             \A i \in 2..Len(load[c]) : load[c][i].after,
             NEW n \in 1..Len(box[c])
      PROVE  box[c][n].height = Height(Shown(c, box[c][n]), Bottoms(c)[n-1])
  <2>1. Down(c, load[c]) /\ c \notin overtaken
    BY <1>1, CleanCalm DEF Down
  <2>2. ColumnInv(c, col[c], load[c], box[c], margin[c], eTime[c], c \in overtaken)
    BY <1>1 DEF BoxInv
  <2>3. box[c] # <<>>
    OBVIOUS
  <2>4. PICK p \in Range(Epg[c]) :
           /\ p.start = box[c][n].at
           /\ box[c][n].height = Height(p, Bottom(box[c], col[c].from + margin[c])[n-1])
    BY <2>1, <2>2, <2>3 DEF ColumnInv, Stepping
  <2>5. Shown(c, box[c][n]) = p
    <3>1. ASSUME NEW r \in Range(Epg[c]), r.start = p.start PROVE r = p
      <4>1. PICK i \in 1..Len(Epg[c]), j \in 1..Len(Epg[c]) : r = Epg[c][i] /\ p = Epg[c][j]
        BY EpgFacts
      <4>2. i = j \/ i < j \/ j < i
        BY EpgFacts
      <4>3. Epg[c][i].start = Epg[c][j].start /\ Epg[c][i].start \in Nat
        BY <3>1, <4>1, EpgFacts
      <4>4. ~(i < j) /\ ~(j < i)
        BY <4>3, EpgFacts
      <4> QED  BY <4>1, <4>2, <4>4
    <3> QED  BY <2>4, <3>1 DEF Shown
  <2> QED  BY <2>4, <2>5 DEF Bottoms
<1>2. IInv /\ BoxInv => BackInStepDown
  BY <1>1 DEF BackInStepDown, InStep
<1> QED  BY <1>2, BoxInvariance, PTL

=============================================================================
