------------------------------ MODULE DownloadProofs ------------------------------
(***************************************************************************)
(* Proofs about the HTTP client and the unpacking of what it returns, for  *)
(* all framed answers, all sizes of the receive buffer and every way in    *)
(* which the answer is split into pieces and the connection ends.          *)
(***************************************************************************)
EXTENDS Download, SequenceTheorems, WellFoundedInduction, TLAPS

-----------------------------------------------------------------------------
(* Least numbers; sequences and their pieces.                                *)

\* A non-empty set of natural numbers has a least element, which Min picks.
LEMMA MinNat ==
    ASSUME NEW S \in SUBSET Nat, S # {}
    PROVE  Min(S) \in S /\ \A y \in S : Min(S) <= y
<1>1. PICK x \in S : \A y \in S : ~(<<y, x>> \in OpToRel(<, Nat))
  BY WFMin, NatLessThanWellFounded
<1>2. OpToRel(<, Nat) = {ss \in Nat \X Nat : ss[1] < ss[2]}
  BY DEF OpToRel
<1>3. ASSUME NEW y \in S PROVE x <= y
  <2>1. y < x => <<y, x>> \in {ss \in Nat \X Nat : ss[1] < ss[2]}
    OBVIOUS
  <2>2. ~(y < x)
    BY <1>1, <1>2, <2>1
  <2> QED
    BY <2>2
<1> QED
  BY <1>3 DEF Min

\* A concatenation, element by element.
LEMMA AppendElements ==
    ASSUME NEW S, NEW s \in Seq(S), NEW t \in Seq(S)
    PROVE  /\ s \o t \in Seq(S) /\ Len(s \o t) = Len(s) + Len(t)
           /\ Len(s) \in Nat /\ Len(t) \in Nat
           /\ DOMAIN s = 1..Len(s) /\ DOMAIN t = 1..Len(t)
           /\ DOMAIN (s \o t) = 1..(Len(s) + Len(t))
           /\ \A i \in 1..(Len(s) + Len(t)) :
                 (s \o t)[i] = IF i <= Len(s) THEN s[i] ELSE t[i - Len(s)]
<1>1. s \o t \in Seq(S) /\ Len(s \o t) = Len(s) + Len(t)
  BY ConcatProperties
<1>2. /\ Len(s) \in Nat /\ Len(t) \in Nat
      /\ DOMAIN s = 1..Len(s) /\ DOMAIN t = 1..Len(t)
  BY LenProperties
<1>3. DOMAIN (s \o t) = 1..Len(s \o t)
  BY <1>1, LenProperties
<1> QED
  BY <1>1, <1>2, <1>3, ConcatProperties

\* A piece of a sequence, which may be empty.
LEMMA PieceProperties ==
    ASSUME NEW S, NEW s \in Seq(S), NEW i \in 1..(Len(s) + 1), NEW j \in (i - 1)..Len(s)
    PROVE  /\ SubSeq(s, i, j) \in Seq(S) /\ Len(SubSeq(s, i, j)) = j - i + 1
           /\ DOMAIN SubSeq(s, i, j) = 1..(j - i + 1)
           /\ \A k \in 1..(j - i + 1) : SubSeq(s, i, j)[k] = s[i + k - 1]
<1>1. Len(s) \in Nat
  BY LenProperties
<1>2. i \in Int /\ j \in Int /\ i <= j + 1
  BY <1>1
<1>3. \A k \in i..j : s[k] \in S
  BY <1>1, ElementOfSeq
<1>4. /\ SubSeq(s, i, j) \in Seq(S) /\ Len(SubSeq(s, i, j)) = IF i <= j THEN j - i + 1 ELSE 0
      /\ \A k \in 1..(j - i + 1) : SubSeq(s, i, j)[k] = s[i + k - 1]
  BY <1>2, <1>3, SubSeqProperties
<1>5. Len(SubSeq(s, i, j)) = j - i + 1
  BY <1>2, <1>4
<1> QED
  BY <1>4, <1>5, LenProperties

\* The end of a piece is a piece.
LEMMA PieceOfPiece ==
    ASSUME NEW S, NEW s \in Seq(S), NEW i \in 1..(Len(s) + 1), NEW j \in (i - 1)..Len(s),
           NEW k \in 0..(j - i + 1)
    PROVE  SubSeq(SubSeq(s, i, j), k + 1, j - i + 1) = SubSeq(s, i + k, j)
<1> DEFINE t == SubSeq(s, i, j)
           n == j - i + 1
           u == SubSeq(t, k + 1, n)
           v == SubSeq(s, i + k, j)
<1>1. Len(s) \in Nat /\ i \in Int /\ j \in Int
  BY LenProperties
<1>2. t \in Seq(S) /\ Len(t) = n /\ \A m \in 1..n : t[m] = s[i + m - 1]
  BY PieceProperties
<1>3. i + k \in 1..(Len(s) + 1) /\ j \in ((i + k) - 1)..Len(s) /\ j - (i + k) + 1 = n - k
  BY <1>1
<1>4. v \in Seq(S) /\ Len(v) = n - k /\ \A m \in 1..(n - k) : v[m] = s[(i + k) + m - 1]
  BY <1>3, PieceProperties
<1> HIDE DEF t, v
<1>5. n \in Nat /\ k + 1 \in 1..(n + 1) /\ n \in ((k + 1) - 1)..n /\ n - (k + 1) + 1 = n - k
  BY <1>1
<1> HIDE DEF n
<1>6. u \in Seq(S) /\ Len(u) = n - k /\ \A m \in 1..(n - k) : u[m] = t[(k + 1) + m - 1]
  BY <1>2, <1>5, PieceProperties
<1> HIDE DEF u
<1>7. ASSUME NEW m \in 1..(n - k) PROVE u[m] = v[m]
  <2>1. (k + 1) + m - 1 = k + m /\ k + m \in 1..n /\ i + (k + m) - 1 = (i + k) + m - 1
    BY <1>1, <1>5
  <2> QED
    BY <1>2, <1>4, <1>6, <2>1
<1>8. u = v
  BY <1>4, <1>6, <1>7, SeqEqual
<1> QED
  BY <1>8 DEF n, t, u, v

\* A sequence of length one.
LEMMA SeqOfOne ==
    ASSUME NEW S, NEW s \in Seq(S), Len(s) = 1
    PROVE  s = <<s[1]>>
<1>1. s[1] \in S
  BY ElementOfSeq
<1> DEFINE e == s[1]
<1>2. <<e>> \in Seq(S) /\ Len(<<e>>) = 1 /\ <<e>>[1] = e
  BY <1>1
<1> DEFINE t == <<e>>
<1>3. t \in Seq(S) /\ Len(s) = Len(t) /\ \A i \in 1..Len(s) : s[i] = t[i]
  BY <1>2
<1> HIDE DEF t
<1>4. s = t
  BY <1>3, SeqEqual
<1> QED
  BY <1>4 DEF t

\* A sequence of length two.
LEMMA SeqOfTwo ==
    ASSUME NEW S, NEW s \in Seq(S), Len(s) = 2
    PROVE  s = <<s[1], s[2]>>
<1>1. s[1] \in S /\ s[2] \in S
  BY ElementOfSeq
<1> DEFINE e == s[1]
           f == s[2]
           t == <<e, f>>
<1>2. t \in Seq(S) /\ Len(t) = 2 /\ t[1] = e /\ t[2] = f
  BY <1>1
<1>3. t \in Seq(S) /\ Len(s) = Len(t) /\ \A i \in 1..Len(s) : s[i] = t[i]
  BY <1>2
<1> HIDE DEF t
<1>4. s = t
  BY <1>3, SeqEqual
<1> QED
  BY <1>4 DEF t

-----------------------------------------------------------------------------
(* Loops that walk forward over the positions 0..n: at p they stop or go on  *)
(* at J[p], behind p.  The provers cannot use the library's theorems about   *)
(* recursive functions, which have operators as parameters; least            *)
(* counterexamples take the place of induction.                              *)

Forward(n, Stop, J) == \A p \in 0..n : p \in Stop \/ J[p] \in (p + 1)..n

\* f[p] is what a loop returns that begins at p and returns R[p] where it stops.
IsWalk(f, n, Stop, R, J) == f = [p \in 0..n |-> IF p \in Stop THEN R[p] ELSE f[J[p]]]

\* What holds where the loop stops, and at p if it holds where the loop goes on
\* from p, holds everywhere.
LEMMA WalkInduction ==
    ASSUME NEW n \in Nat, NEW Stop, NEW J, NEW Good, Forward(n, Stop, J),
           \A p \in 0..n : p \in Good \/ (p \notin Stop /\ J[p] \notin Good)
    PROVE  \A p \in 0..n : p \in Good
<1> USE DEF Forward
<1> DEFINE B == {k \in 0..n : n - k \notin Good}
<1>1. B = {}
  <2> SUFFICES ASSUME B # {} PROVE FALSE
    OBVIOUS
  <2> DEFINE k == Min(B)
  <2>1. k \in B /\ \A y \in B : k <= y
    <3>1. B \in SUBSET Nat
      OBVIOUS
    <3> HIDE DEF B
    <3> QED
      BY <3>1, MinNat
  <2> HIDE DEF k
  <2> DEFINE p == n - k
             j == J[p]
  <2>2. k \in 0..n /\ p \in 0..n /\ p \notin Good
    BY <2>1
  <2> HIDE DEF p
  <2>3. j \in (p + 1)..n /\ j \notin Good
    BY <2>2
  <2> HIDE DEF j
  <2>4. n - j \in 0..n /\ n - (n - j) = j /\ ~(k <= n - j)
    BY <2>2, <2>3 DEF p
  <2>5. n - j \in B
    BY <2>3, <2>4
  <2> QED
    BY <2>1, <2>4, <2>5
<1>2. ASSUME NEW p \in 0..n PROVE p \in Good
  <2>1. n - p \in 0..n /\ n - (n - p) = p
    OBVIOUS
  <2> QED
    BY <1>1, <2>1
<1> QED
  BY <1>2

\* The function such a loop defines exists.
LEMMA WalkExists ==
    \A n \in Nat : \A Stop, R, J : Forward(n, Stop, J) => \E f : IsWalk(f, n, Stop, R, J)
<1> SUFFICES ASSUME NEW n \in Nat, NEW Stop, NEW R, NEW J, Forward(n, Stop, J)
             PROVE  \E f : IsWalk(f, n, Stop, R, J)
  OBVIOUS
<1>0. \A p \in 0..n : p \in Stop \/ J[p] \in (p + 1)..n
  BY DEF Forward
<1> DEFINE Ok(k, f) == f = [p \in (n - k)..n |-> IF p \in Stop THEN R[p] ELSE f[J[p]]]
           B == {k \in 0..n : ~\E f : Ok(k, f)}
<1>1. B = {}
  <2> SUFFICES ASSUME B # {} PROVE FALSE
    OBVIOUS
  <2> DEFINE k == Min(B)
  <2>1. k \in B /\ \A y \in B : k <= y
    <3>1. B \in SUBSET Nat
      OBVIOUS
    <3> HIDE DEF B
    <3> QED
      BY <3>1, MinNat
  <2> HIDE DEF k
  <2>2. k \in 0..n /\ ~\E f : Ok(k, f)
    BY <2>1
  <2>3. CASE k = 0
    <3>1. n - 0 = n /\ n \in 0..n
      OBVIOUS
    <3>2. n \in Stop
      BY <1>0, <3>1
    <3> DEFINE f == [p \in n..n |-> R[p]]
    <3>3. f = [p \in n..n |-> IF p \in Stop THEN R[p] ELSE f[J[p]]]
      BY <3>1, <3>2
    <3>4. Ok(0, f)
      <4> HIDE DEF f
      <4> QED
        BY <3>1, <3>3
    <3> QED
      BY <2>2, <2>3, <3>4
  <2>4. CASE k # 0
    <3>1. k - 1 \in 0..n /\ ~(k <= k - 1)
      BY <2>2, <2>4
    <3>2. k - 1 \notin B
      BY <2>1, <3>1
    <3>3. PICK f : Ok(k - 1, f)
      BY <3>1, <3>2
    <3> DEFINE m == n - k
               first == IF m \in Stop THEN R[m] ELSE f[J[m]]
               g == [p \in m..n |-> IF p = m THEN first ELSE f[p]]
    <3>4. m \in 0..n /\ n - (k - 1) = m + 1
      BY <2>2, <2>4
    <3> HIDE DEF m
    <3>5. \A p \in (m + 1)..n : f[p] = IF p \in Stop THEN R[p] ELSE f[J[p]]
      BY <3>3, <3>4
    <3>6. \A p \in m..n : (p = m \/ p \in (m + 1)..n) /\ p \in 0..n
      BY <3>4
    <3>7. ASSUME NEW p \in m..n PROVE g[p] = IF p \in Stop THEN R[p] ELSE g[J[p]]
      <4>1. p \in Stop \/ J[p] \in (p + 1)..n
        BY <1>0, <3>6
      <4>2. J[p] \in (p + 1)..n => J[p] \in m..n /\ J[p] # m
        BY <3>4
      <4>3. CASE p = m
        BY <4>1, <4>2, <4>3
      <4>4. CASE p # m
        BY <3>5, <3>6, <4>1, <4>2, <4>4
      <4> QED
        BY <4>3, <4>4
    <3>8. g = [p \in m..n |-> IF p \in Stop THEN R[p] ELSE g[J[p]]]
      <4>1. g = [p \in m..n |-> g[p]]
        OBVIOUS
      <4> HIDE DEF g
      <4> QED
        BY <3>7, <4>1
    <3>9. Ok(k, g)
      BY <3>8 DEF m
    <3> QED
      BY <2>2, <3>9
  <2> QED
    BY <2>3, <2>4
<1>2. n \in 0..n /\ n - n = 0
  OBVIOUS
<1>3. \E f : Ok(n, f)
  BY <1>1, <1>2
<1> QED
  BY <1>2, <1>3 DEF IsWalk

-----------------------------------------------------------------------------
(* A loop that computes a value in n steps: T[k] is what step k makes of the *)
(* value before.                                                             *)

IsIteration(f, n, S, first, T) ==
    f \in [0..n -> S] /\ f[0] = first /\ \A k \in 1..n : f[k] = T[k][f[k - 1]]

\* The values exist.
LEMMA IterationExists ==
    \A n \in Nat : \A S, first, T :
        first \in S /\ T \in [1..n -> [S -> S]] => \E f : IsIteration(f, n, S, first, T)
<1> SUFFICES ASSUME NEW n \in Nat, NEW S, NEW first \in S, NEW T \in [1..n -> [S -> S]]
             PROVE  \E f : IsIteration(f, n, S, first, T)
  OBVIOUS
<1> DEFINE Ok(k, f) == f[0] = first /\ \A j \in 1..k : f[j] = T[j][f[j - 1]]
           B == {k \in 0..n : ~\E f \in [0..k -> S] : Ok(k, f)}
<1>1. B = {}
  <2> SUFFICES ASSUME B # {} PROVE FALSE
    OBVIOUS
  <2> DEFINE k == Min(B)
  <2>1. k \in B /\ \A y \in B : k <= y
    <3>1. B \in SUBSET Nat
      OBVIOUS
    <3> HIDE DEF B
    <3> QED
      BY <3>1, MinNat
  <2> HIDE DEF k
  <2>2. k \in 0..n /\ ~\E f \in [0..k -> S] : Ok(k, f)
    BY <2>1
  <2>3. CASE k = 0
    <3> DEFINE f == [j \in 0..0 |-> first]
    <3>1. f \in [0..0 -> S] /\ Ok(0, f)
      OBVIOUS
    <3> QED
      BY <2>2, <2>3, <3>1
  <2>4. CASE k # 0
    <3>1. k - 1 \in 0..n /\ ~(k <= k - 1)
      BY <2>2, <2>4
    <3>2. k - 1 \notin B
      BY <2>1, <3>1
    <3>3. PICK f \in [0..(k - 1) -> S] : Ok(k - 1, f)
      BY <3>1, <3>2
    <3> DEFINE g == [j \in 0..k |-> IF j = k THEN T[k][f[k - 1]] ELSE f[j]]
    <3>4. k \in 1..n /\ k - 1 \in 0..(k - 1) /\ T[k] \in [S -> S] /\ f[k - 1] \in S
      BY <2>2, <2>4
    <3>5. g \in [0..k -> S]
      BY <3>4
    <3>6. g[0] = first
      BY <3>3, <3>4
    <3>7. ASSUME NEW j \in 1..k PROVE g[j] = T[j][g[j - 1]]
      <4>1. j \in 0..k /\ j - 1 \in 0..k /\ j - 1 # k
        BY <3>4
      <4>2. CASE j = k
        BY <4>1, <4>2
      <4>3. CASE j # k
        <5>1. j \in 1..(k - 1)
          BY <3>4, <4>3
        <5> QED
          BY <3>3, <4>1, <4>3, <5>1
      <4> QED
        BY <4>2, <4>3
    <3>8. Ok(k, g)
      BY <3>6, <3>7
    <3> HIDE DEF g
    <3> QED
      BY <2>2, <3>5, <3>8
  <2> QED
    BY <2>3, <2>4
<1>2. n \notin B /\ n \in 0..n
  BY <1>1
<1>3. PICK f \in [0..n -> S] : Ok(n, f)
  BY <1>2
<1>4. IsIteration(f, n, S, first, T)
  BY <1>3 DEF IsIteration
<1> QED
  BY <1>4

\* What holds of the first value and is kept by each step holds of all of them.
LEMMA IterationInduction ==
    ASSUME NEW n \in Nat, NEW Good, 0 \in Good, \A k \in 1..n : k - 1 \in Good => k \in Good
    PROVE  \A k \in 0..n : k \in Good
<1> DEFINE B == {k \in 0..n : k \notin Good}
<1>1. B = {}
  <2> SUFFICES ASSUME B # {} PROVE FALSE
    OBVIOUS
  <2> DEFINE k == Min(B)
  <2>1. k \in B /\ \A y \in B : k <= y
    <3>1. B \in SUBSET Nat
      OBVIOUS
    <3> HIDE DEF B
    <3> QED
      BY <3>1, MinNat
  <2> HIDE DEF k
  <2>2. k \in 1..n /\ k - 1 \in 0..n /\ ~(k <= k - 1) /\ k \notin Good
    BY <2>1
  <2> QED
    BY <2>1, <2>2
<1> QED
  BY <1>1

-----------------------------------------------------------------------------
(* The frame of an answer: where its lines begin, and where its body does.   *)

\* The cells of the line end characters are cells.
LEMMA EndCells == CR \in Cell /\ LF \in Cell /\ CR # LF /\ Ends = {CR, LF}
<1>1. CR \in Cell
  BY DEF CR, Char, Cell, Kinds, Names
<1>2. LF \in Cell
  BY DEF LF, Char, Cell, Kinds, Names
<1>3. CR # LF
  <2>1. CR.kind = "cr" /\ LF.kind = "lf"
    BY DEF CR, LF, Char
  <2> QED
    BY <2>1
<1> QED
  BY <1>1, <1>2, <1>3 DEF Ends

\* Sequences of cells, in the form the provers can use.
LEMMA CellsAppended ==
    \A s, t \in Seq(Cell) :
        /\ s \o t \in Seq(Cell) /\ Len(s \o t) = Len(s) + Len(t)
        /\ Len(s) \in Nat /\ Len(t) \in Nat
        /\ \A i \in 1..(Len(s) + Len(t)) :
              (s \o t)[i] = IF i <= Len(s) THEN s[i] ELSE t[i - Len(s)]
<1> TAKE s \in Seq(Cell), t \in Seq(Cell)
<1> QED
  BY AppendElements

\* A framed answer, as a sequence of cells.
LEMMA CellsOf ==
    ASSUME NEW r, Framed(r)
    PROVE  /\ Cells(r) \in Seq(Cell) /\ r.body \in Seq(Cell)
           /\ HeaderLength(r) \in Nat /\ Len(r.body) \in Nat
           /\ Len(Cells(r)) = HeaderLength(r) + Len(r.body)
           /\ Cells(r)[1] \notin Ends
           /\ \A i \in 1..Len(r.body) : Cells(r)[HeaderLength(r) + i] = r.body[i]
<1> DEFINE one == <<Char(r.status)>>
           hd  == r.header
           bd  == r.body
           two == one \o hd
<1>1. hd \in Seq(Cell) /\ bd \in Seq(Cell) /\ Char(r.status) \in Cell \ Ends
  BY DEF Framed, hd, bd
<1>2. one \in Seq(Cell) /\ Len(one) = 1 /\ one[1] \notin Ends
  BY <1>1
<1> HIDE DEF one, hd, bd
<1>3. /\ two \in Seq(Cell) /\ Len(two) = 1 + Len(hd) /\ two[1] = one[1]
      /\ Len(hd) \in Nat /\ Len(bd) \in Nat
  <2>1. /\ two \in Seq(Cell) /\ Len(two) = Len(one) + Len(hd)
        /\ Len(one) \in Nat /\ Len(hd) \in Nat
        /\ \A i \in 1..(Len(one) + Len(hd)) :
              two[i] = IF i <= Len(one) THEN one[i] ELSE hd[i - Len(one)]
    BY <1>1, <1>2, CellsAppended, Zenon
  <2>2. Len(bd) \in Nat
    BY <1>1, LenProperties
  <2> HIDE DEF two
  <2> QED
    BY <1>2, <2>1, <2>2
<1> HIDE DEF two
<1> DEFINE c == two \o bd
           h == Len(two)
<1>4. /\ c \in Seq(Cell) /\ Len(c) = h + Len(bd) /\ h \in Nat \ {0}
      /\ \A i \in 1..(h + Len(bd)) : c[i] = IF i <= h THEN two[i] ELSE bd[i - h]
  <2>1. /\ c \in Seq(Cell) /\ Len(c) = h + Len(bd)
        /\ \A i \in 1..(h + Len(bd)) : c[i] = IF i <= h THEN two[i] ELSE bd[i - h]
    BY <1>1, <1>3, CellsAppended, Zenon
  <2> QED
    BY <1>3, <2>1
<1>5. Cells(r) = c /\ HeaderLength(r) = h
  BY <1>3 DEF Cells, HeaderLength, two, one, hd, bd
<1> HIDE DEF c, h
<1>6. c[1] = two[1]
  BY <1>3, <1>4
<1>7. ASSUME NEW i \in 1..Len(bd) PROVE c[h + i] = bd[i]
  <2>1. h + i \in 1..(h + Len(bd)) /\ ~(h + i <= h) /\ (h + i) - h = i
    BY <1>3, <1>4
  <2> QED
    BY <1>4, <2>1
<1> QED
  BY <1>1, <1>2, <1>3, <1>4, <1>5, <1>6, <1>7 DEF bd

\* The empty line is the first line that begins with a line end; the body, which
\* does not begin with one, follows its LF.
LEMMA Frame ==
    ASSUME NEW r, Framed(r)
    PROVE  /\ BlankLine(r) \in 2..HeaderLength(r)
           /\ Cells(r)[BlankLine(r) - 1] = LF /\ Cells(r)[BlankLine(r)] \in Ends
           /\ \A i \in 2..(BlankLine(r) - 1) : Cells(r)[i - 1] = LF => Cells(r)[i] \notin Ends
           /\ \/ BlankLine(r) = HeaderLength(r) /\ Cells(r)[BlankLine(r)] = LF
              \/ /\ BlankLine(r) = HeaderLength(r) - 1 /\ Cells(r)[BlankLine(r)] = CR
                 /\ Cells(r)[HeaderLength(r)] = LF
           /\ r.body # <<>> => Cells(r)[HeaderLength(r) + 1] \notin Ends
<1> DEFINE c == Cells(r)
           h == HeaderLength(r)
           S == {i \in LineStarts(r) : c[i] \in Ends}
           s == BlankLine(r)
<1>1. /\ c \in Seq(Cell) /\ h \in Nat /\ Len(c) = h + Len(r.body) /\ Len(r.body) \in Nat
  BY CellsOf
<1>2. s \in S /\ \A y \in S : s <= y
  <2>1. S \in SUBSET Nat /\ S # {} /\ s = Min(S)
    BY DEF Framed, LineStarts, BlankLine
  <2> HIDE DEF S, s
  <2> QED
    BY <2>1, MinNat
<1>3. s \in 2..h /\ c[s - 1] = LF /\ c[s] \in Ends
  BY <1>2 DEF LineStarts
<1>4. ASSUME NEW i \in 2..(s - 1), c[i - 1] = LF PROVE c[i] \notin Ends
  <2>1. i \in 2..h /\ ~(s <= i)
    BY <1>1, <1>3
  <2>2. i \notin S
    BY <1>2, <2>1
  <2> QED
    BY <1>4, <2>1, <2>2 DEF LineStarts
<1> DEFINE e == SubSeq(c, s, h)
<1>5. e \in {<<LF>>, <<CR, LF>>}
  BY DEF Framed
<1> HIDE DEF c, h, s
<1>6. Len(e) = h - s + 1 /\ Len(e) \in Nat /\ \A k \in 1..(h - s + 1) : e[k] = c[s + k - 1]
  <2>1. s \in 1..(Len(c) + 1) /\ h \in (s - 1)..Len(c)
    BY <1>1, <1>3
  <2> QED
    BY <1>1, <2>1, PieceProperties, LenProperties
<1> HIDE DEF e
<1>7. (s = h /\ c[s] = LF) \/ (s = h - 1 /\ c[s] = CR /\ c[h] = LF)
  <2>1. CASE e = <<LF>>
    <3>1. Len(e) = 1 /\ e[1] = LF
      BY <2>1
    <3>0. h - s + 1 = 1
      BY <1>6, <3>1, Zenon
    <3>2. s = h /\ 1 \in 1..(h - s + 1) /\ s + 1 - 1 = s
      BY <1>1, <1>3, <3>0
    <3> QED
      BY <1>6, <3>1, <3>2
  <2>2. CASE e = <<CR, LF>>
    <3>1. Len(e) = 2 /\ e[1] = CR /\ e[2] = LF
      BY <2>2
    <3>0. h - s + 1 = 2
      BY <1>6, <3>1, Zenon
    <3>2. /\ s = h - 1 /\ 1 \in 1..(h - s + 1) /\ 2 \in 1..(h - s + 1)
          /\ s + 1 - 1 = s /\ s + 2 - 1 = h
      BY <1>1, <1>3, <3>0
    <3> QED
      BY <1>6, <3>1, <3>2
  <2> QED
    BY <1>5, <2>1, <2>2
<1>8. ASSUME r.body # <<>> PROVE c[h + 1] \notin Ends
  <2>1. r.body[1] \notin Ends /\ 1 \in 1..Len(r.body)
    BY <1>8, CellsOf, EmptySeq DEF Framed
  <2> QED
    BY <2>1, CellsOf DEF c, h
<1> QED
  BY <1>3, <1>4, <1>7, <1>8 DEF c, h, s

-----------------------------------------------------------------------------
(* httprecv: what is in the receive buffer and in the result.                *)

\* The buffer holds what has arrived from the beginning of a line of the header on.
Pending(p) ==
    /\ p \in 0..(BlankLine(response) - 1) /\ p <= got
    /\ p = 0 \/ Cells(response)[p] = LF
    /\ b = SubSeq(Cells(response), p + 1, got)

\* The result is what has arrived from somewhere in the empty line on.
Collected(q) ==
    /\ q \in BlankLine(response)..(HeaderLength(response) + 1) /\ q <= got + 1
    /\ archive = SubSeq(Cells(response), q, got)

\* An answer is being received or was received without an error.
Answered == pc \in {"header", "body"} \/ (pc \in {"unpack", "done"} /\ retval = "EOK")

RecvInv ==
    /\ b \in Seq(Cell) /\ Len(b) <= BufSize
    /\ pc \in {"url", "resolve", "connect"} => got = 0 /\ b = <<>> /\ isfirsthdr = TRUE
    /\ Answered => /\ response \in Responses
                   /\ cut \in 0..Len(Cells(response)) /\ got \in 0..cut
    /\ pc = "header" => /\ \E p \in Nat : Pending(p)
                        /\ b = <<>> => isfirsthdr = TRUE
    /\ pc = "body" => \E q \in Nat : Collected(q)
    /\ pc \in {"unpack", "done"} /\ retval = "EOK" => got = cut /\ \E q \in Nat : Collected(q)

\* What the label finished makes of the buffer begins in the empty line, or behind it.
LEMMA FinishedKeeps ==
    ASSUME NEW r, Framed(r), NEW g \in Nat, BlankLine(r) <= g, g <= Len(Cells(r)),
           NEW buf, buf = SubSeq(Cells(r), BlankLine(r), g)
    PROVE  \E q \in BlankLine(r)..(HeaderLength(r) + 1) :
              q <= g + 1 /\ SubSeq(buf, LineEnd(buf) + 1, Len(buf)) = SubSeq(Cells(r), q, g)
<1> DEFINE c == Cells(r)
           h == HeaderLength(r)
           s == BlankLine(r)
           n == g - s + 1
           k == LineEnd(buf)
<1>1. c \in Seq(Cell) /\ h \in Nat /\ Len(c) = h + Len(r.body) /\ Len(r.body) \in Nat
  BY CellsOf
<1>2. s \in 2..h /\ (s = h \/ s = h - 1) /\ (r.body # <<>> => c[h + 1] \notin Ends)
  BY Frame
<1>3. Len(r.body) > 0 => r.body # <<>>
  BY CellsOf, EmptySeq
<1>4. buf = SubSeq(c, s, g) /\ g <= Len(c) /\ s <= g
  OBVIOUS
<1> HIDE DEF c, h, s
<1>5. s \in 1..(Len(c) + 1) /\ g \in (s - 1)..Len(c) /\ n \in Nat \ {0}
  BY <1>1, <1>2, <1>4
<1>6. /\ buf \in Seq(Cell) /\ Len(buf) = n /\ \A i \in 1..n : buf[i] = c[s + i - 1]
  BY <1>1, <1>4, <1>5, PieceProperties
<1>7. k \in 0..n /\ k <= n /\ s + k \in s..(h + 1) /\ s + k <= g + 1
  <2>1. k \in {0, 1, 2} /\ (k # 0 => n > 2) /\ (k = 2 => buf[2] \in Ends)
    BY <1>6 DEF LineEnd
  <2>2. k \in 0..n /\ s + k <= g + 1
    BY <1>2, <1>5, <2>1
  <2>3. CASE k = 2
    <3>1. 2 \in 1..n /\ s + 2 - 1 = s + 1
      BY <1>2, <1>5, <2>1, <2>3
    <3>2. c[s + 1] \in Ends
      BY <1>6, <2>1, <2>3, <3>1
    <3>3. ~(s = h)
      <4>1. SUFFICES ASSUME s = h PROVE FALSE
        OBVIOUS
      <4>2. Len(r.body) > 0
        BY <1>1, <1>2, <1>4, <1>5, <2>1, <2>3, <4>1
      <4> QED
        BY <1>2, <1>3, <3>2, <4>1, <4>2
    <3> QED
      BY <1>1, <1>2, <2>2, <2>3, <3>3
  <2>4. CASE k # 2
    BY <1>1, <1>2, <2>1, <2>2, <2>4
  <2> QED
    BY <2>3, <2>4
<1> HIDE DEF k
<1>8. SubSeq(SubSeq(c, s, g), k + 1, g - s + 1) = SubSeq(c, s + k, g)
  BY <1>1, <1>5, <1>7, PieceOfPiece
<1>9. SubSeq(buf, k + 1, Len(buf)) = SubSeq(c, s + k, g)
  BY <1>4, <1>6, <1>8
<1> QED
  BY <1>7, <1>9 DEF c, h, k, s

\* A buffer that begins with a line of the header: the line is the empty one if it
\* begins with a line end.
LEMMA LineBegins ==
    ASSUME NEW r, Framed(r), NEW p \in 0..(BlankLine(r) - 1), NEW g \in Nat, p < g,
           g <= Len(Cells(r)), p = 0 \/ Cells(r)[p] = LF
    PROVE  /\ SubSeq(Cells(r), p + 1, g) \in Seq(Cell)
           /\ Len(SubSeq(Cells(r), p + 1, g)) = g - p
           /\ DOMAIN SubSeq(Cells(r), p + 1, g) = 1..(g - p)
           /\ \A i \in 1..(g - p) : SubSeq(Cells(r), p + 1, g)[i] = Cells(r)[p + i]
           /\ Cells(r)[p + 1] \in Ends => p + 1 = BlankLine(r)
           /\ BlankLine(r) \in Nat /\ p \in Nat /\ Len(Cells(r)) \in Nat
<1> DEFINE c == Cells(r)
           s == BlankLine(r)
           n == g - p
           buf == SubSeq(c, p + 1, g)
<1>1. c \in Seq(Cell) /\ Len(c) \in Nat /\ c[1] \notin Ends
  BY CellsOf
<1>2. /\ s \in 2..HeaderLength(r) /\ HeaderLength(r) \in Nat
      /\ \A i \in 2..(s - 1) : c[i - 1] = LF => c[i] \notin Ends
  BY CellsOf, Frame
<1>3. g <= Len(c) /\ p \in 0..(s - 1) /\ (p = 0 \/ c[p] = LF)
  OBVIOUS
<1> HIDE DEF c, s
<1>4. /\ p + 1 \in 1..(Len(c) + 1) /\ g \in ((p + 1) - 1)..Len(c) /\ g - (p + 1) + 1 = n
      /\ n \in Nat \ {0} /\ p \in Nat /\ s \in Nat
  BY <1>1, <1>2, <1>3
<1>5. /\ buf \in Seq(Cell) /\ Len(buf) = n /\ DOMAIN buf = 1..n
      /\ \A i \in 1..n : buf[i] = c[(p + 1) + i - 1]
  BY <1>1, <1>4, PieceProperties
<1> HIDE DEF buf
<1>6. \A i \in 1..n : buf[i] = c[p + i]
  <2>1. \A i \in 1..n : (p + 1) + i - 1 = p + i
    BY <1>4
  <2> QED
    BY <1>5, <2>1
<1>7. ASSUME c[p + 1] \in Ends PROVE p + 1 = s
  <2>1. p # 0
    BY <1>1, <1>7
  <2>2. p + 1 \in 2..s /\ (p + 1) - 1 = p
    BY <1>3, <1>4, <2>1
  <2>3. ~(p + 1 \in 2..(s - 1))
    BY <1>2, <1>3, <1>7, <2>1, <2>2
  <2> QED
    BY <1>4, <2>2, <2>3
<1> QED
  BY <1>1, <1>4, <1>5, <1>6, <1>7 DEF buf, c, s

\* What follows a line of the header that is not empty begins with a line, too.
LEMMA LineTaken ==
    ASSUME NEW r, Framed(r), NEW p \in 0..(BlankLine(r) - 1), NEW g \in Nat, p < g,
           g <= Len(Cells(r)), p = 0 \/ Cells(r)[p] = LF, Cells(r)[p + 1] \notin Ends,
           NEW end \in 1..(g - p), Cells(r)[p + end] = LF,
           \A y \in 1..(g - p) : Cells(r)[p + y] = LF => end <= y
    PROVE  /\ p + end \in 0..(BlankLine(r) - 1)
           /\ SubSeq(SubSeq(Cells(r), p + 1, g), end + 1, g - p) = SubSeq(Cells(r), p + end + 1, g)
<1> DEFINE c == Cells(r)
           s == BlankLine(r)
           n == g - p
<1>1. c \in Seq(Cell) /\ Len(c) \in Nat
  BY CellsOf
<1>2. s \in 2..HeaderLength(r) /\ HeaderLength(r) \in Nat /\ c[s - 1] = LF /\ c[s] \in Ends
  BY CellsOf, Frame
<1>3. /\ g <= Len(c) /\ p \in 0..(s - 1) /\ c[p + 1] \notin Ends /\ end \in 1..n
      /\ \A y \in 1..n : c[p + y] = LF => end <= y
  OBVIOUS
<1> HIDE DEF c, s
<1>4. /\ p + 1 \in 1..(Len(c) + 1) /\ g \in ((p + 1) - 1)..Len(c) /\ g - (p + 1) + 1 = n
      /\ n \in Nat \ {0} /\ p \in Nat /\ s \in Nat /\ end \in Nat /\ end <= n
  BY <1>1, <1>2, <1>3
<1>5. p + 1 < s
  <2>1. p + 1 # s
    BY <1>2, <1>3
  <2> QED
    BY <1>3, <1>4, <2>1
<1>6. p + end <= s - 1
  <2>1. CASE s - 1 <= g
    <3>1. (s - 1) - p \in 1..n /\ p + ((s - 1) - p) = s - 1
      BY <1>4, <1>5, <2>1
    <3>2. end <= (s - 1) - p
      BY <1>2, <1>3, <3>1
    <3> QED
      BY <1>4, <3>2
  <2>2. CASE s - 1 > g
    BY <1>4, <2>2
  <2> QED
    BY <1>4, <2>1, <2>2
<1>7. SubSeq(SubSeq(c, p + 1, g), end + 1, g - (p + 1) + 1) = SubSeq(c, (p + 1) + end, g)
  <2>1. end \in 0..(g - (p + 1) + 1)
    BY <1>4
  <2> QED
    BY <1>1, <1>4, <2>1, PieceOfPiece
<1>8. (p + 1) + end = p + end + 1
  BY <1>4
<1> QED
  BY <1>4, <1>6, <1>7, <1>8 DEF c, s

\* The four ways through one turn of the loop.
LEMMA TakeLineCases ==
    ASSUME NEW buf, TakeLine(buf), NEW E, E = {i \in DOMAIN buf : buf[i] = LF},
           Min(E) < Len(buf) \/ Min(E) = Len(buf) \/ E = {}
    PROVE  \/ buf[1] \in Ends /\ Finished(buf)
           \/ buf[1] \notin Ends /\ E = {} /\ b' = buf /\ pc' = pc
           \/ /\ buf[1] \notin Ends /\ E # {} /\ Min(E) = Len(buf) /\ b' = buf
              /\ pc' = "unpack" /\ retval' = "ESRVERR"
           \/ /\ buf[1] \notin Ends /\ E # {} /\ Min(E) < Len(buf)
              /\ b' = SubSeq(buf, Min(E) + 1, Len(buf))
              /\ pc' = pc \/ (pc' = "unpack" /\ retval' = "ESRVERR")
<1>1. CASE buf[1] \in Ends
  BY <1>1 DEF TakeLine
<1>2. CASE buf[1] \notin Ends /\ E = {}
  BY <1>2 DEF TakeLine
<1>3. CASE buf[1] \notin Ends /\ E # {} /\ Min(E) = Len(buf)
  BY <1>3 DEF TakeLine, Fail
<1>4. CASE buf[1] \notin Ends /\ E # {} /\ Min(E) < Len(buf)
  BY <1>4 DEF TakeLine, Fail
<1> QED
  BY <1>1, <1>2, <1>3, <1>4

\* One turn of the loop: a line is taken, or more of it is waited for, or the header
\* is over, or httprecv gives up.
LEMMA TakeLineKeeps ==
    ASSUME NEW p \in Nat, NEW g \in Nat, response \in Responses, UNCHANGED response,
           pc = "header", got' = g, p \in 0..(BlankLine(response) - 1), p < g,
           g <= Len(Cells(response)), p = 0 \/ Cells(response)[p] = LF,
           NEW buf, buf = SubSeq(Cells(response), p + 1, g), TakeLine(buf)
    PROVE  /\ b' \in Seq(Cell) /\ Len(b') <= g - p
           /\ \/ pc' = "header" /\ (\E x \in Nat : Pending(x))' /\ b' # <<>>
              \/ pc' = "body" /\ (\E x \in Nat : Collected(x))'
              \/ pc' = "unpack" /\ retval' # "EOK"
<1> DEFINE c == Cells(response)
           s == BlankLine(response)
           n == g - p
           E == {i \in DOMAIN buf : buf[i] = LF}
           end == Min(E)
<1>1. Framed(response)
  BY ResponsesAssumption
<1>2. /\ buf \in Seq(Cell) /\ Len(buf) = n /\ DOMAIN buf = 1..n
      /\ \A i \in 1..n : buf[i] = c[p + i]
      /\ c[p + 1] \in Ends => p + 1 = s
      /\ s \in Nat /\ Len(c) \in Nat
  BY <1>1, LineBegins
<1>3. n \in Nat \ {0} /\ buf[1] = c[p + 1] /\ buf # <<>>
  <2>1. n \in Nat \ {0}
    OBVIOUS
  <2> QED
    BY <1>2, <2>1, EmptySeq
<1>4. <<>> \in Seq(Cell) /\ Len(<<>>) = 0
  BY EmptySeq
<1>5. E # {} => end \in E /\ end \in 1..n /\ \A y \in E : end <= y
  <2>1. E \in SUBSET Nat /\ end = Min(E) /\ E \subseteq 1..n
    BY <1>2
  <2> HIDE DEF E
  <2> QED
    BY <2>1, MinNat
<1>6. CASE buf[1] \in Ends /\ Finished(buf)
  <2>2. CASE isfirsthdr
    <3>1. b' = buf /\ pc' = "unpack" /\ retval' = "ESRVERR"
      BY <1>6, <2>2 DEF Finished, Fail
    <3> QED
      BY <1>2, <1>3, <3>1
  <2>3. CASE ~isfirsthdr
    <3>1. b' = <<>> /\ pc' = "body" /\ archive' = SubSeq(buf, LineEnd(buf) + 1, Len(buf))
      BY <1>6, <2>3 DEF Finished
    <3>2. s = p + 1 /\ s <= g /\ buf = SubSeq(c, s, g)
      BY <1>2, <1>3, <1>6
    <3>3. PICK q \in s..(HeaderLength(response) + 1) :
             q <= g + 1 /\ SubSeq(buf, LineEnd(buf) + 1, Len(buf)) = SubSeq(c, q, g)
      BY <1>1, <3>2, FinishedKeeps
    <3>4. q \in Nat
      BY <1>1, <1>2, CellsOf
    <3>5. Collected(q)'
      BY <3>1, <3>3 DEF Collected
    <3> QED
      BY <1>3, <1>4, <3>1, <3>4, <3>5
  <2> QED
    BY <2>2, <2>3
<1>7. CASE b' = buf /\ pc' = pc
  <2>1. Pending(p)'
    BY <1>7 DEF Pending
  <2> QED
    BY <1>2, <1>3, <1>7, <2>1
<1>8. CASE b' = buf /\ pc' = "unpack" /\ retval' = "ESRVERR"
  BY <1>2, <1>3, <1>8
<1>9. CASE /\ buf[1] \notin Ends /\ E # {} /\ end < Len(buf)
           /\ b' = SubSeq(buf, end + 1, Len(buf))
           /\ pc' = pc \/ (pc' = "unpack" /\ retval' = "ESRVERR")
  <2>1. end \in 1..n /\ c[p + end] = LF /\ \A y \in 1..n : c[p + y] = LF => end <= y
    BY <1>2, <1>5, <1>9
  <2>2. /\ b' = SubSeq(buf, end + 1, n) /\ end < n /\ c[p + 1] \notin Ends
        /\ pc' = pc \/ (pc' = "unpack" /\ retval' = "ESRVERR")
    BY <1>2, <1>3, <1>9
  <2> HIDE DEF end
  <2>3. /\ p + end \in 0..(s - 1)
        /\ SubSeq(SubSeq(c, p + 1, g), end + 1, g - p) = SubSeq(c, p + end + 1, g)
    BY <1>1, <2>1, <2>2, LineTaken
  <2>4. b' = SubSeq(c, (p + end) + 1, g)
    BY <2>2, <2>3
  <2>5. p + end < g /\ p + end \in Nat
    BY <2>1, <2>2
  <2>6. b' \in Seq(Cell) /\ Len(b') = g - (p + end)
    BY <1>1, <2>1, <2>3, <2>4, <2>5, LineBegins
  <2>7. b' # <<>> /\ Len(b') <= g - p
    BY <1>4, <2>1, <2>5, <2>6
  <2>8. Pending(p + end)'
    <3> DEFINE x == p + end
    <3>1. x \in 0..(s - 1) /\ x <= g /\ c[x] = LF /\ b' = SubSeq(c, x + 1, g)
      BY <2>1, <2>3, <2>4, <2>5
    <3> HIDE DEF x
    <3>2. Pending(x)'
      BY <3>1 DEF Pending
    <3> QED
      BY <3>2 DEF x
  <2> QED
    BY <2>2, <2>5, <2>6, <2>7, <2>8
<1> HIDE DEF E, end
<1>10. end < Len(buf) \/ end = Len(buf) \/ E = {}
  BY <1>2, <1>3, <1>5
<1>11. \/ buf[1] \in Ends /\ Finished(buf)
       \/ b' = buf /\ pc' = pc
       \/ b' = buf /\ pc' = "unpack" /\ retval' = "ESRVERR"
       \/ /\ buf[1] \notin Ends /\ E # {} /\ end < Len(buf)
          /\ b' = SubSeq(buf, end + 1, Len(buf))
          /\ pc' = pc \/ (pc' = "unpack" /\ retval' = "ESRVERR")
  BY <1>10, TakeLineCases DEF E, end
<1> QED
  BY <1>6, <1>7, <1>8, <1>9, <1>11

\* Before the request is sent nothing has been received.
LEMMA InitRecv == Init => RecvInv
  BY EmptySeq, DownloadAssumption DEF Init, RecvInv, Answered

\* recv() returns no more than the buffer has room for and the server sends.
LEMMA RecvHeaderKeeps ==
    ASSUME RecvInv, RecvHeader PROVE RecvInv' /\ pc' \in {"header", "body", "unpack"}
<1> DEFINE c == Cells(response)
<1>1. PICK n \in 1..Min({cut - got, BufSize - Len(b)}) :
         got' = got + n /\ TakeLine(b \o Arriving(n))
  BY DEF RecvHeader
<1>2. /\ pc = "header" /\ UNCHANGED <<response, cut>>
      /\ response \in Responses /\ cut \in 0..Len(c) /\ got \in 0..cut
      /\ b \in Seq(Cell) /\ Len(b) <= BufSize
  BY DEF RecvInv, Answered, RecvHeader, recvUnchanged, netVars
<1>3. PICK p \in Nat : Pending(p)
  BY <1>2 DEF RecvInv
<1>4. Framed(response) /\ c \in Seq(Cell) /\ Len(c) \in Nat /\ BlankLine(response) \in Nat
  BY <1>2, CellsOf, Frame, ResponsesAssumption
<1>5. n \in Nat \ {0} /\ n <= cut - got /\ n <= BufSize - Len(b)
  <2> DEFINE S == {cut - got, BufSize - Len(b)}
  <2>1. S \in SUBSET Nat /\ S # {} /\ n \in 1..Min(S)
    BY <1>1, <1>2, <1>4, DownloadAssumption, LenProperties
  <2>2. Min(S) \in S /\ \A y \in S : Min(S) <= y
    <3> HIDE DEF S
    <3> QED
      BY <2>1, MinNat
  <2> DEFINE m == Min(S)
  <2>3. m \in Nat /\ m <= cut - got /\ m <= BufSize - Len(b) /\ n \in 1..m
    BY <2>1, <2>2
  <2>4. cut - got \in Int /\ BufSize - Len(b) \in Int
    BY <2>1
  <2> HIDE DEF m
  <2> QED
    BY <2>3, <2>4
<1> DEFINE g == got + n
           buf == SubSeq(c, p + 1, g)
<1>6. /\ g \in Nat /\ p < g /\ g <= Len(c) /\ g <= cut /\ p \in 0..(BlankLine(response) - 1)
      /\ p <= got /\ got \in Nat /\ (p = 0 \/ c[p] = LF) /\ b = SubSeq(c, p + 1, got)
  BY <1>2, <1>3, <1>4, <1>5 DEF Pending
<1>7. b \o Arriving(n) = buf
  <2>1. p + 1 \in 1..(Len(c) + 1) /\ got \in ((p + 1) - 1)..Len(c) /\ g \in got..Len(c)
    BY <1>4, <1>5, <1>6
  <2> HIDE DEF c, g
  <2>2. SubSeq(c, p + 1, got) \o SubSeq(c, got + 1, g) = SubSeq(c, p + 1, g)
    BY <1>4, <2>1, ConcatAdjacentSubSeq
  <2> QED
    BY <1>6, <2>2 DEF Arriving, c, g
<1>8. Len(b) = got - p
  <2>1. p + 1 \in 1..(Len(c) + 1) /\ got \in ((p + 1) - 1)..Len(c) /\ got - (p + 1) + 1 = got - p
    BY <1>4, <1>5, <1>6
  <2> HIDE DEF c
  <2> QED
    BY <1>4, <1>6, <2>1, PieceProperties
<1>9. /\ b' \in Seq(Cell) /\ Len(b') <= g - p
      /\ \/ pc' = "header" /\ (\E x \in Nat : Pending(x))' /\ b' # <<>>
         \/ pc' = "body" /\ (\E x \in Nat : Collected(x))'
         \/ pc' = "unpack" /\ retval' # "EOK"
  <2>1. got' = g /\ TakeLine(buf)
    BY <1>1, <1>7
  <2> HIDE DEF g, buf
  <2> QED
    BY <1>2, <1>6, <2>1, TakeLineKeeps DEF buf
<1>10. Len(b') <= BufSize
  BY <1>2, <1>5, <1>6, <1>8, <1>9, DownloadAssumption, LenProperties
<1>11. got' \in 0..cut'
  BY <1>1, <1>2, <1>6
<1> HIDE DEF g, buf
<1> QED
  BY <1>2, <1>9, <1>10, <1>11 DEF RecvInv, Answered

\* recv() returns 0: what is in the buffer is looked at once more.
LEMMA RecvNothingKeeps ==
    ASSUME RecvInv, RecvNothing PROVE RecvInv' /\ pc' \in {"header", "body", "unpack"}
<1> DEFINE c == Cells(response)
<1>1. /\ pc = "header" /\ UNCHANGED <<response, cut, got>>
      /\ response \in Responses /\ cut \in 0..Len(c) /\ got \in 0..cut
      /\ b \in Seq(Cell) /\ Len(b) <= BufSize
      /\ IF b = <<>> THEN Finished(b) ELSE TakeLine(b)
  BY DEF RecvInv, Answered, RecvNothing, recvUnchanged, netVars
<1>2. CASE b = <<>>
  <2>1. isfirsthdr
    BY <1>1, <1>2 DEF RecvInv
  <2>2. b' = b /\ pc' = "unpack" /\ retval' = "ESRVERR"
    BY <1>1, <1>2, <2>1 DEF Finished, Fail
  <2> QED
    BY <1>1, <2>2 DEF RecvInv, Answered
<1>3. CASE b # <<>>
  <2>1. PICK p \in Nat : Pending(p)
    BY <1>1 DEF RecvInv
  <2>2. Framed(response) /\ c \in Seq(Cell) /\ Len(c) \in Nat /\ BlankLine(response) \in Nat
    BY <1>1, CellsOf, Frame, ResponsesAssumption
  <2>3. /\ p <= got /\ got \in Nat /\ got <= Len(c) /\ p \in 0..(BlankLine(response) - 1)
        /\ (p = 0 \/ c[p] = LF) /\ b = SubSeq(c, p + 1, got)
    BY <1>1, <2>1, <2>2 DEF Pending
  <2>4. Len(b) = got - p
    <3>1. p + 1 \in 1..(Len(c) + 1) /\ got \in ((p + 1) - 1)..Len(c) /\ got - (p + 1) + 1 = got - p
      BY <2>2, <2>3
    <3> HIDE DEF c
    <3> QED
      BY <2>2, <2>3, <3>1, PieceProperties
  <2>5. p < got
    BY <1>1, <1>3, <2>3, <2>4, EmptySeq
  <2>6. /\ b' \in Seq(Cell) /\ Len(b') <= got - p
        /\ \/ pc' = "header" /\ (\E x \in Nat : Pending(x))' /\ b' # <<>>
           \/ pc' = "body" /\ (\E x \in Nat : Collected(x))'
           \/ pc' = "unpack" /\ retval' # "EOK"
    BY <1>1, <1>3, <2>3, <2>5, TakeLineKeeps
  <2>7. Len(b') <= BufSize
    BY <1>1, <2>4, <2>6, DownloadAssumption, LenProperties
  <2> QED
    BY <1>1, <2>6, <2>7 DEF RecvInv, Answered
<1> QED
  BY <1>2, <1>3

\* In the body every piece is added to the result.
LEMMA RecvBodyKeeps == ASSUME RecvInv, RecvBody PROVE RecvInv'
<1> DEFINE c == Cells(response)
<1>1. PICK n \in 1..Min({cut - got, BufSize}) :
         got' = got + n /\ archive' = archive \o Arriving(n)
  BY DEF RecvBody
<1>2. /\ pc = "body" /\ UNCHANGED <<pc, b, response, cut>>
      /\ response \in Responses /\ cut \in 0..Len(c) /\ got \in 0..cut
  BY DEF RecvInv, Answered, RecvBody, recvUnchanged, netVars
<1>3. PICK q \in Nat : Collected(q)
  BY <1>2 DEF RecvInv
<1>4. /\ c \in Seq(Cell) /\ Len(c) \in Nat /\ BlankLine(response) \in Nat \ {0}
      /\ HeaderLength(response) \in Nat /\ HeaderLength(response) <= Len(c)
  BY <1>2, CellsOf, Frame, ResponsesAssumption
<1>5. n \in Nat \ {0} /\ n <= cut - got
  <2> DEFINE S == {cut - got, BufSize}
             m == Min(S)
  <2>1. S \in SUBSET Nat /\ S # {} /\ n \in 1..Min(S)
    BY <1>1, <1>2, <1>4, DownloadAssumption
  <2>2. Min(S) \in S /\ \A y \in S : Min(S) <= y
    <3> HIDE DEF S
    <3> QED
      BY <2>1, MinNat
  <2>3. m \in Nat /\ m <= cut - got /\ n \in 1..m /\ cut - got \in Int
    BY <2>1, <2>2
  <2> HIDE DEF m
  <2> QED
    BY <2>3
<1> DEFINE g == got + n
<1>6. /\ q \in BlankLine(response)..(HeaderLength(response) + 1) /\ q <= got + 1
      /\ archive = SubSeq(c, q, got)
  BY <1>3 DEF Collected
<1>7. /\ q \in 1..(Len(c) + 1) /\ got \in (q - 1)..Len(c) /\ g \in got..Len(c) /\ g <= cut
      /\ g \in Nat /\ q <= g + 1
  BY <1>2, <1>4, <1>5, <1>6
<1>8. SubSeq(c, q, got) \o SubSeq(c, got + 1, g) = SubSeq(c, q, g)
  <2> HIDE DEF c, g
  <2> QED
    BY <1>4, <1>7, ConcatAdjacentSubSeq
<1>9. Collected(q)'
  <2>1. archive' = SubSeq(c, q, g) /\ got' = g
    BY <1>1, <1>6, <1>8 DEF Arriving
  <2> HIDE DEF g
  <2> QED
    BY <1>2, <1>6, <1>7, <2>1 DEF Collected
<1>10. got' \in 0..cut'
  BY <1>1, <1>2, <1>7
<1> QED
  BY <1>2, <1>9, <1>10 DEF RecvInv, Answered

\* Every step keeps track of what was received.
LEMMA NextRecv == ASSUME RecvInv, [Next]_vars PROVE RecvInv'
<1> USE DEF RecvInv, Answered
<1>1. CASE ParseUrl
  BY <1>1 DEF ParseUrl
<1>2. CASE Resolve
  BY <1>2 DEF Resolve
<1>3. CASE ConnectFails
  BY <1>3 DEF ConnectFails
<1>4. CASE SendFails
  BY <1>4 DEF SendFails
<1>5. CASE Send
  <2>1. /\ pc' = "header" /\ response' \in Responses /\ cut' \in 0..Len(Cells(response'))
        /\ got' = 0 /\ b' = <<>> /\ isfirsthdr' = TRUE
    BY <1>5 DEF Send
  <2>2. Framed(response') /\ Cells(response') \in Seq(Cell)
    BY <2>1, CellsOf, ResponsesAssumption
  <2>3. BlankLine(response') \in Nat \ {0}
    BY <2>2, CellsOf, Frame
  <2>4. SubSeq(Cells(response'), 1, 0) = <<>>
    BY SubSeqEmpty
  <2>5. Pending(0)'
    BY <2>1, <2>3, <2>4 DEF Pending
  <2>6. got' \in 0..cut'
    BY <2>1, <2>2, LenProperties
  <2> QED
    BY <1>5, <2>1, <2>5, <2>6, EmptySeq, DownloadAssumption DEF Send
<1>6. CASE RecvHeader
  BY <1>6, RecvHeaderKeeps
<1>7. CASE RecvNothing
  BY <1>7, RecvNothingKeeps
<1>8. CASE RecvFails
  BY <1>8 DEF RecvFails, Fail, recvUnchanged, netVars
<1>9. CASE RecvBody
  BY <1>9, RecvBodyKeeps
<1>10. CASE RecvEnd
  BY <1>10 DEF RecvEnd, recvUnchanged, netVars, Collected
<1>11. CASE main_request_config
  BY <1>11 DEF main_request_config, netVars, Collected
<1>12. CASE UNCHANGED vars
  BY <1>12 DEF vars, Collected, Pending
<1> QED
  BY <1>1, <1>2, <1>3, <1>4, <1>5, <1>6, <1>7, <1>8, <1>9, <1>10, <1>11, <1>12 DEF Next

\* The receive buffer never holds more than BUFSIZE cells, whatever recv() returns.
THEOREM ReceiveBufferFits == Spec => [](Len(b) <= BufSize)
<1>1. RecvInv => Len(b) <= BufSize
  BY DEF RecvInv
<1> QED
  BY <1>1, InitRecv, NextRecv, PTL DEF Spec

\* What lies between a position in the empty line and the end of what has arrived: the
\* rest of that line, and the body as far as it has arrived.
LEMMA BehindTheHeader ==
    ASSUME NEW r, Framed(r), NEW q \in BlankLine(r)..(HeaderLength(r) + 1),
           NEW g \in 0..Len(Cells(r)), q <= g + 1
    PROVE  \E lead \in {<<>>, <<CR>>, <<LF>>, <<CR, LF>>} :
              SubSeq(Cells(r), q, g) = lead \o SubSeq(r.body, 1, g - HeaderLength(r))
<1> DEFINE c == Cells(r)
           h == HeaderLength(r)
           s == BlankLine(r)
           body == r.body
<1>1. /\ c \in Seq(Cell) /\ h \in Nat /\ Len(c) = h + Len(body) /\ Len(body) \in Nat
      /\ body \in Seq(Cell) /\ \A i \in 1..Len(body) : c[h + i] = body[i]
  BY CellsOf
<1>2. /\ s \in 2..h
      /\ \/ s = h /\ c[s] = LF
         \/ s = h - 1 /\ c[s] = CR /\ c[h] = LF
  BY Frame
<1>3. q \in s..(h + 1) /\ g \in 0..Len(c) /\ q <= g + 1
  OBVIOUS
<1> HIDE DEF c, h, s, body
<1>4. /\ <<>> \in Seq(Cell) /\ <<CR>> \in Seq(Cell) /\ <<LF>> \in Seq(Cell) /\ <<CR, LF>> \in Seq(Cell)
  BY EndCells
<1>5. CASE g < h
  <2>1. SubSeq(body, 1, g - h) = <<>>
    <3>1. g - h \in Int /\ g - h < 1
      BY <1>1, <1>3, <1>5
    <3> QED
      BY <3>1, SubSeqEmpty
  <2>2. q = g + 1 \/ (q = h - 1 /\ g = h - 1 /\ c[q] = CR)
    <3>1. s <= q /\ q <= g + 1 /\ g < h /\ (s = h \/ s = h - 1) /\ q \in Int /\ g \in Int
      BY <1>1, <1>2, <1>3, <1>5
    <3>2. q = g + 1 \/ (q = h - 1 /\ g = h - 1 /\ s = h - 1 /\ s = q)
      BY <1>1, <3>1
    <3> QED
      BY <1>1, <1>2, <3>2
  <2>3. CASE q = g + 1
    <3>1. SubSeq(c, q, g) = <<>>
      BY <1>1, <1>3, <2>3, SubSeqEmpty
    <3>2. <<>> \o <<>> = <<>>
      BY <1>4, ConcatEmptySeq
    <3> QED
      BY <2>1, <3>1, <3>2 DEF c, h, body
  <2>4. CASE q = h - 1 /\ g = h - 1 /\ c[q] = CR
    <3>1. q \in 1..(Len(c) + 1) /\ g \in (q - 1)..Len(c) /\ g - q + 1 = 1 /\ q + 1 - 1 = q
      BY <1>1, <1>2, <1>3, <2>2, <2>4
    <3>2. SubSeq(c, q, g) \in Seq(Cell) /\ Len(SubSeq(c, q, g)) = 1 /\ SubSeq(c, q, g)[1] = c[q]
      <4>1. /\ SubSeq(c, q, g) \in Seq(Cell) /\ Len(SubSeq(c, q, g)) = g - q + 1
            /\ \A k \in 1..(g - q + 1) : SubSeq(c, q, g)[k] = c[q + k - 1]
        BY <1>1, <3>1, PieceProperties
      <4>2. 1 \in 1..(g - q + 1)
        BY <3>1
      <4>3. SubSeq(c, q, g)[1] = c[q + 1 - 1]
        BY <4>1, <4>2
      <4> QED
        BY <3>1, <4>1, <4>3
    <3>3. SubSeq(c, q, g) = <<CR>>
      <4>1. c[q] = CR
        BY <2>4
      <4>2. SubSeq(c, q, g) = <<SubSeq(c, q, g)[1]>>
        <5> DEFINE t == SubSeq(c, q, g)
        <5>1. t \in Seq(Cell) /\ Len(t) = 1
          BY <3>2
        <5> HIDE DEF t
        <5>2. t = <<t[1]>>
          BY <5>1, SeqOfOne
        <5> QED
          BY <5>2 DEF t
      <4> QED
        BY <3>2, <4>1, <4>2
    <3>4. <<CR>> \o <<>> = <<CR>>
      BY <1>4, ConcatEmptySeq
    <3> QED
      BY <2>1, <3>3, <3>4 DEF c, h, body
  <2> QED
    BY <2>2, <2>3, <2>4
<1>6. CASE g >= h
  <2> DEFINE lead == SubSeq(c, q, h)
             rest == SubSeq(c, h + 1, g)
             part == SubSeq(body, 1, g - h)
  <2>1. /\ q \in 1..(Len(c) + 1) /\ h \in (q - 1)..Len(c) /\ g \in h..Len(c) /\ g - h \in Nat
        /\ h + 1 \in 1..(Len(c) + 1) /\ g \in ((h + 1) - 1)..Len(c) /\ g - (h + 1) + 1 = g - h
        /\ 1 \in 1..(Len(body) + 1) /\ g - h \in (1 - 1)..Len(body) /\ (g - h) - 1 + 1 = g - h
        /\ h - q + 1 \in {0, 1, 2} /\ q \in Nat
    BY <1>1, <1>2, <1>3, <1>6
  <2>2. lead \o rest = SubSeq(c, q, g)
    BY <1>1, <2>1, ConcatAdjacentSubSeq
  <2>3. /\ rest \in Seq(Cell) /\ Len(rest) = g - h
        /\ \A i \in 1..(g - h) : rest[i] = c[(h + 1) + i - 1]
    BY <1>1, <2>1, PieceProperties
  <2>4. /\ part \in Seq(Cell) /\ Len(part) = g - h
        /\ \A i \in 1..(g - h) : part[i] = body[1 + i - 1]
    BY <1>1, <2>1, PieceProperties
  <2>5. lead \in Seq(Cell) /\ Len(lead) = h - q + 1 /\ \A i \in 1..(h - q + 1) : lead[i] = c[q + i - 1]
    BY <1>1, <2>1, PieceProperties
  <2> HIDE DEF lead, rest, part
  <2>6. ASSUME NEW i \in 1..(g - h) PROVE rest[i] = part[i]
    <3>1. (h + 1) + i - 1 = h + i /\ 1 + i - 1 = i /\ i \in 1..Len(body)
      BY <1>1, <2>1
    <3> QED
      BY <1>1, <2>3, <2>4, <3>1
  <2>7. rest = part
    BY <2>3, <2>4, <2>6, SeqEqual
  <2>8. lead \in {<<>>, <<CR>>, <<LF>>, <<CR, LF>>}
    <3>1. CASE h - q + 1 = 0
      BY <2>5, <3>1, EmptySeq
    <3>2. CASE h - q + 1 = 1
      <4>1. q = h /\ q + 1 - 1 = q /\ 1 \in 1..(h - q + 1) /\ c[h] = LF
        BY <1>1, <1>2, <2>1, <3>2
      <4>2. lead[1] = LF /\ Len(lead) = 1
        BY <2>5, <3>2, <4>1
      <4>3. lead = <<lead[1]>>
        BY <2>5, <4>2, SeqOfOne
      <4> QED
        BY <4>2, <4>3
    <3>3. CASE h - q + 1 = 2
      <4>1. /\ q = h - 1 /\ s = q /\ q + 1 - 1 = q /\ q + 2 - 1 = h
            /\ 1 \in 1..(h - q + 1) /\ 2 \in 1..(h - q + 1) /\ c[h] = LF /\ c[q] = CR
        <5>1. s \in Nat /\ q \in Nat /\ h \in Nat /\ s <= q /\ (s = h \/ s = h - 1)
          BY <1>1, <1>2, <1>3, <2>1
        <5>2. /\ q = h - 1 /\ s = q /\ s # h /\ q + 1 - 1 = q /\ q + 2 - 1 = h
              /\ 1 \in 1..(h - q + 1) /\ 2 \in 1..(h - q + 1)
          BY <3>3, <5>1
        <5>3. c[h] = LF /\ c[q] = CR
          BY <1>2, <5>2
        <5> QED
          BY <5>2, <5>3
      <4>2. lead[1] = CR /\ lead[2] = LF /\ Len(lead) = 2
        BY <2>5, <3>3, <4>1
      <4>3. lead = <<lead[1], lead[2]>>
        BY <2>5, <4>2, SeqOfTwo
      <4> QED
        BY <4>2, <4>3
    <3> QED
      BY <2>1, <3>1, <3>2, <3>3
  <2> QED
    BY <2>2, <2>7, <2>8 DEF c, h, body, part
<1>7. g < h \/ g >= h
  BY <1>1, <1>3
<1> QED
  BY <1>5, <1>6, <1>7

\* However the answer was split into pieces, what http_get returns as the body is the
\* body up to the end of the connection, possibly behind the line end of the blank
\* line: httprecv neither loses nor repeats a cell at the border of two pieces.
THEOREM BodyStaysIntact == Spec => []BodyIntact
<1>1. RecvInv => BodyIntact
  <2> SUFFICES ASSUME RecvInv, pc \in {"unpack", "done"}, retval = "EOK"
               PROVE  \E lead \in {<<>>, <<CR>>, <<LF>>, <<CR, LF>>} : archive = lead \o ReceivedBody
    BY DEF BodyIntact
  <2>1. response \in Responses /\ cut \in 0..Len(Cells(response)) /\ got = cut
    BY DEF RecvInv, Answered
  <2>2. PICK q \in Nat : Collected(q)
    BY DEF RecvInv
  <2>3. /\ q \in BlankLine(response)..(HeaderLength(response) + 1) /\ q <= cut + 1
        /\ archive = SubSeq(Cells(response), q, cut)
    BY <2>1, <2>2 DEF Collected
  <2> QED
    BY <2>1, <2>3, BehindTheHeader, ResponsesAssumption DEF ReceivedBody
<1> QED
  BY <1>1, InitRecv, NextRecv, PTL DEF Spec

-----------------------------------------------------------------------------
(* ar_extract: a loop that walks forward over the members of an archive.     *)

Extraction == [ok : BOOLEAN, data : Seq(Cell)]

\* The function that ar_extract computes, from every position.
Walk(a, m) == LET find[pos \in 0..Len(a)] == ar_member(a, m, find, pos) IN find

\* Where the member at p ends, and the positions at which the loop stops.
NextMember(a) == [p \in 0..Len(a) |-> p + HdrCells + Padded(a[p + 1].num)]
Broken(a, p) ==
    LET rest == Len(a) - p - HdrCells
        size == a[p + 1].num
    IN  rest < 0 \/ a[p + 2] # Fmag \/ size = BadSize \/ Padded(size) > rest
StopsAt(a, m, p) ==
    \/ Broken(a, p)
    \/ ar_compare_name(a[p + 1].name, m)
    \/ Padded(a[p + 1].num) = Len(a) - p - HdrCells
Stops(a, m) == {p \in 0..Len(a) : StopsAt(a, m, p)}

\* The length in the header of a member that is not broken fits into the archive.
LEMMA MemberFits ==
    ASSUME NEW a \in Seq(Cell), NEW p \in 0..Len(a), ~Broken(a, p)
    PROVE  /\ Len(a) \in Nat /\ p + 2 <= Len(a) /\ a[p + 1].num \in Nat
           /\ Padded(a[p + 1].num) \in Nat
           /\ a[p + 1].num <= Padded(a[p + 1].num) /\ p + 2 + Padded(a[p + 1].num) <= Len(a)
<1>1. Len(a) \in Nat
  BY LenProperties
<1>2. ~(Len(a) - p - 2 < 0) /\ a[p + 1].num # BadSize /\ ~(Padded(a[p + 1].num) > Len(a) - p - 2)
  BY DEF Broken, HdrCells
<1>3. p + 1 \in 1..Len(a)
  BY <1>1, <1>2
<1>4. a[p + 1] \in Cell
  BY <1>3, ElementOfSeq
<1>5. \A c \in Cell : c.num \in Nat \cup {BadSize}
  BY DEF Cell
<1> DEFINE size == a[p + 1].num
<1>6. size \in Nat
  BY <1>2, <1>4, <1>5
<1> HIDE DEF size
<1>7. Padded(size) \in Nat /\ size <= Padded(size)
  BY <1>6 DEF Padded
<1>8. ~(Padded(size) > Len(a) - p - 2)
  BY <1>2 DEF size
<1> DEFINE pad == Padded(size)
<1> HIDE DEF pad
<1>9. p + 2 <= Len(a) /\ p + 2 + pad <= Len(a)
  BY <1>1, <1>2, <1>7, <1>8 DEF pad
<1> QED
  BY <1>1, <1>6, <1>7, <1>9 DEF pad, size

\* The loop goes forward.
LEMMA GoesForward ==
    ASSUME NEW a \in Seq(Cell), NEW m, NEW p \in 0..Len(a)
    PROVE  p \in Stops(a, m) \/ NextMember(a)[p] \in (p + 1)..Len(a)
<1> SUFFICES ASSUME ~StopsAt(a, m, p) PROVE NextMember(a)[p] \in (p + 1)..Len(a)
  BY DEF Stops
<1> DEFINE pad == Padded(a[p + 1].num)
<1>1. ~Broken(a, p)
  BY DEF StopsAt
<1>2. Len(a) \in Nat /\ pad \in Nat /\ p + 2 + pad <= Len(a)
  BY <1>1, MemberFits
<1>3. NextMember(a)[p] = p + 2 + pad
  BY DEF NextMember, HdrCells
<1> HIDE DEF pad
<1> QED
  BY <1>2, <1>3

\* What one turn of the loop returns: a piece of the archive where it stops, and
\* otherwise what the rest of the loop returns.
LEMMA MemberStops ==
    ASSUME NEW a \in Seq(Cell), NEW m, NEW f, NEW p \in 0..Len(a), p \in Stops(a, m)
    PROVE  /\ ar_member(a, m, f, p) \in Extraction
           /\ \A i \in DOMAIN ar_member(a, m, f, p).data :
                 \E k \in 1..Len(a) : ar_member(a, m, f, p).data[i] = a[k]
<1> DEFINE r == ar_member(a, m, f, p)
<1>1. <<>> \in Seq(Cell) /\ DOMAIN <<>> = {}
  BY EmptySeq
<1>2. CASE Broken(a, p)
  <2> DEFINE rest == Len(a) - p - HdrCells
  <2>1. rest < 0 \/ rest >= 0
    BY LenProperties DEF HdrCells
  <2>2. r = Failed
    BY <1>2, <2>1 DEF ar_member, Broken
  <2> QED
    BY <1>1, <2>2 DEF Failed, Extraction
<1>3. CASE ~Broken(a, p) /\ ar_compare_name(a[p + 1].name, m)
  <2> DEFINE size == a[p + 1].num
             d == SubSeq(a, p + 3, p + 2 + size)
  <2>1. r = [ok |-> TRUE, data |-> SubSeq(a, p + HdrCells + 1, p + HdrCells + size)]
    BY <1>3 DEF ar_member, Broken
  <2>2. p + HdrCells + 1 = p + 3 /\ p + HdrCells + size = p + 2 + size
    BY DEF HdrCells
  <2>3. Len(a) \in Nat /\ size \in Nat /\ p + 2 + size <= Len(a)
    BY <1>3, MemberFits
  <2> HIDE DEF size
  <2>4. /\ p + 3 \in 1..(Len(a) + 1) /\ p + 2 + size \in ((p + 3) - 1)..Len(a)
        /\ (p + 2 + size) - (p + 3) + 1 = size
    BY <2>3
  <2>5. d \in Seq(Cell) /\ DOMAIN d = 1..size /\ \A i \in 1..size : d[i] = a[(p + 3) + i - 1]
    BY <2>4, PieceProperties
  <2> HIDE DEF d
  <2>6. \A i \in 1..size : (p + 3) + i - 1 \in 1..Len(a)
    BY <2>3
  <2>7. r = [ok |-> TRUE, data |-> d]
    BY <2>1, <2>2 DEF d
  <2> QED
    BY <2>5, <2>6, <2>7 DEF Extraction
<1>4. CASE ~Broken(a, p) /\ ~ar_compare_name(a[p + 1].name, m)
  <2>1. Padded(a[p + 1].num) = Len(a) - p - HdrCells
    BY <1>4 DEF Stops, StopsAt
  <2>2. r = [ok |-> TRUE, data |-> <<>>]
    BY <1>4, <2>1 DEF ar_member, Broken
  <2> QED
    BY <1>1, <2>2 DEF Extraction
<1> QED
  BY <1>2, <1>3, <1>4

\* Where the walk over the members of an archive goes on.
LEMMA MemberGoesOn ==
    ASSUME NEW a \in Seq(Cell), NEW m, NEW f, NEW p \in 0..Len(a), p \notin Stops(a, m)
    PROVE  ar_member(a, m, f, p) = f[NextMember(a)[p]]
<1>1. ~StopsAt(a, m, p)
  BY DEF Stops
<1>2. NextMember(a)[p] = p + HdrCells + Padded(a[p + 1].num)
  BY DEF NextMember
<1> QED
  BY <1>1, <1>2 DEF ar_member, StopsAt, Broken

\* The recursive function of ar_extract exists and satisfies its equation.
LEMMA WalkEquation ==
    ASSUME NEW a \in Seq(Cell), NEW m
    PROVE  \A p \in 0..Len(a) : Walk(a, m)[p] = ar_member(a, m, Walk(a, m), p)
<1> DEFINE n == Len(a)
           S == Stops(a, m)
           J == NextMember(a)
           R == [p \in 0..n |-> ar_member(a, m, <<>>, p)]
<1>1. n \in Nat
  BY LenProperties
<1>2. Forward(n, S, J)
  BY GoesForward DEF Forward
<1>3. PICK f : IsWalk(f, n, S, R, J)
  <2> HIDE DEF n, S, J, R
  <2> QED
    BY <1>1, <1>2, WalkExists, Zenon
<1>4. f = [p \in 0..n |-> IF p \in S THEN R[p] ELSE f[J[p]]]
  BY <1>3 DEF IsWalk
<1>5. \A p \in 0..n : f[p] = IF p \in S THEN R[p] ELSE f[J[p]]
  BY <1>4
<1>6. ASSUME NEW p \in 0..n PROVE f[p] = ar_member(a, m, f, p)
  <2>1. CASE p \in S
    <3>1. f[p] = ar_member(a, m, <<>>, p)
      BY <1>5, <2>1
    <3>2. ar_member(a, m, <<>>, p) = ar_member(a, m, f, p)
      <4>1. \/ Broken(a, p)
            \/ ~Broken(a, p) /\ ar_compare_name(a[p + 1].name, m)
            \/ /\ ~Broken(a, p) /\ ~ar_compare_name(a[p + 1].name, m)
               /\ Padded(a[p + 1].num) = Len(a) - p - HdrCells
        BY <2>1 DEF Stops, StopsAt
      <4>2. Len(a) - p - HdrCells < 0 \/ Len(a) - p - HdrCells >= 0
        BY <1>1 DEF HdrCells
      <4> QED
        BY <4>1, <4>2 DEF ar_member, Broken
    <3> QED
      BY <3>1, <3>2
  <2>2. CASE p \notin S
    <3>1. f[p] = f[J[p]]
      BY <1>5, <2>2
    <3> QED
      BY <2>2, <3>1, MemberGoesOn
  <2> QED
    BY <2>1, <2>2
<1>7. f = [p \in 0..n |-> ar_member(a, m, f, p)]
  <2>1. f = [p \in 0..n |-> f[p]]
    BY <1>4
  <2> QED
    BY <1>6, <2>1
<1> DEFINE W == CHOOSE g : g = [p \in 0..n |-> ar_member(a, m, g, p)]
<1>8. W = [p \in 0..n |-> ar_member(a, m, W, p)]
  BY <1>7
<1>9. Walk(a, m) = W
  BY DEF Walk
<1> HIDE DEF W
<1> QED
  BY <1>8, <1>9

\* The two forms of ar_extract.
LEMMA ExtractIsWalk ==
    ASSUME NEW a, NEW m
    PROVE  ar_extract(a, m) = IF ar_is_ar_file(a) THEN Walk(a, m)[1] ELSE Failed
  BY DEF ar_extract, Walk

\* Whatever archive arrives, what ar_extract returns consists of cells of it.
LEMMA ExtractedFromArchive ==
    ASSUME NEW a \in Seq(Cell), NEW m
    PROVE  /\ ar_extract(a, m) \in Extraction
           /\ \A i \in DOMAIN ar_extract(a, m).data :
                 \E k \in 1..Len(a) : ar_extract(a, m).data[i] = a[k]
<1> DEFINE n == Len(a)
           W == Walk(a, m)
           S == Stops(a, m)
           J == NextMember(a)
           Fine(v) == v \in Extraction /\ \A i \in DOMAIN v.data : \E k \in 1..n : v.data[i] = a[k]
           Good == {p \in 0..n : Fine(W[p])}
<1>1. n \in Nat
  BY LenProperties
<1>2. Forward(n, S, J)
  BY GoesForward DEF Forward
<1>3. ASSUME NEW p \in 0..n PROVE p \in Good \/ (p \notin S /\ J[p] \notin Good)
  <2>1. W[p] = ar_member(a, m, W, p)
    BY WalkEquation
  <2>2. CASE p \in S
    <3>1. Fine(ar_member(a, m, W, p))
      BY <2>2, MemberStops
    <3> QED
      BY <2>1, <3>1
  <2>3. CASE p \notin S /\ J[p] \in Good
    <3>1. W[p] = W[J[p]]
      BY <2>1, <2>3, MemberGoesOn
    <3> QED
      BY <2>3, <3>1
  <2> QED
    BY <2>2, <2>3
<1>4. \A p \in 0..n : p \in Good
  <2> HIDE DEF n, S, J, Good
  <2> QED
    BY <1>1, <1>2, <1>3, WalkInduction
<1>5. CASE ar_is_ar_file(a)
  <2>1. 1 \in 0..n
    BY <1>1, <1>5 DEF ar_is_ar_file
  <2>2. Fine(W[1])
    BY <1>4, <2>1
  <2> QED
    BY <1>5, <2>2, ExtractIsWalk
<1>6. CASE ~ar_is_ar_file(a)
  <2>1. ar_extract(a, m) = Failed
    BY <1>6, ExtractIsWalk
  <2> QED
    BY <2>1, EmptySeq DEF Failed, Extraction
<1> QED
  BY <1>5, <1>6

\* As long as the archive is cut between two of its members or within one, ar_extract
\* finds the same as in the whole archive, or nothing, or reports an error.
LEMMA ExtractFromPart ==
    ASSUME NEW A \in Seq(Cell), NEW g \in 0..Len(A), NEW m,
           ar_extract(SubSeq(A, 1, g), m).ok, ar_extract(SubSeq(A, 1, g), m).data # <<>>
    PROVE  ar_extract(A, m).data = ar_extract(SubSeq(A, 1, g), m).data /\ ar_is_ar_file(A)
<1> DEFINE a == SubSeq(A, 1, g)
           W == Walk(a, m)
           V == Walk(A, m)
           S == Stops(a, m)
           J == NextMember(a)
           Good == {p \in 0..g : W[p].ok /\ W[p].data # <<>> => V[p] = W[p]}
<1>1. /\ Len(A) \in Nat /\ g \in Nat /\ g <= Len(A)
  BY LenProperties
<1>2. /\ a \in Seq(Cell) /\ Len(a) = g /\ \A i \in 1..g : a[i] = A[i]
  <2>1. 1 \in 1..(Len(A) + 1) /\ g \in (1 - 1)..Len(A) /\ g - 1 + 1 = g /\ \A i \in 1..g : 1 + i - 1 = i
    BY <1>1
  <2>2. /\ a \in Seq(Cell) /\ Len(a) = g - 1 + 1 /\ \A i \in 1..(g - 1 + 1) : a[i] = A[1 + i - 1]
    BY <2>1, PieceProperties
  <2> QED
    BY <2>1, <2>2
<1>3. ar_extract(a, m).ok /\ ar_extract(a, m).data # <<>>
  OBVIOUS
<1> HIDE DEF a
<1>4. Forward(g, S, J)
  BY <1>2, GoesForward DEF Forward
<1>5. ASSUME NEW p \in 0..g PROVE p \in Good \/ (p \notin S /\ J[p] \notin Good)
  <2>1. W[p] = ar_member(a, m, W, p) /\ V[p] = ar_member(A, m, V, p)
    BY <1>1, <1>2, WalkEquation
  <2>2. CASE Broken(a, p)
    <3>1. g - p - HdrCells < 0 \/ g - p - HdrCells >= 0
      BY <1>1 DEF HdrCells
    <3>2. ar_member(a, m, W, p) = Failed
      BY <1>2, <2>2, <3>1 DEF ar_member, Broken
    <3> QED
      BY <2>1, <3>2 DEF Failed
  <2>3. CASE ~Broken(a, p)
    <3> DEFINE size == A[p + 1].num
               pad == Padded(size)
    <3>1. p + 2 <= g /\ p + 1 \in 1..g /\ p + 2 \in 1..g
      BY <1>1, <1>2, <2>3, MemberFits
    <3>2. a[p + 1] = A[p + 1] /\ a[p + 2] = A[p + 2]
      BY <1>2, <3>1
    <3>3. size \in Nat /\ pad \in Nat /\ size <= pad /\ p + 2 + pad <= g
      BY <1>2, <2>3, <3>2, MemberFits
    <3>4. A[p + 2] = Fmag /\ size # BadSize
      BY <2>3, <3>2 DEF Broken
    <3>5. ~Broken(A, p)
      <4> HIDE DEF size, pad
      <4>1. ~(Len(A) - p - HdrCells < 0) /\ ~(pad > Len(A) - p - HdrCells)
        BY <1>1, <3>1, <3>3 DEF HdrCells
      <4> QED
        BY <3>4, <4>1 DEF Broken, size, pad
    <3>6. CASE ar_compare_name(A[p + 1].name, m)
      <4>1. /\ W[p] = [ok |-> TRUE, data |-> SubSeq(a, p + HdrCells + 1, p + HdrCells + size)]
            /\ V[p] = [ok |-> TRUE, data |-> SubSeq(A, p + HdrCells + 1, p + HdrCells + size)]
        BY <2>1, <2>3, <3>2, <3>5, <3>6 DEF ar_member, Broken
      <4>2. SubSeq(a, p + HdrCells + 1, p + HdrCells + size) = SubSeq(A, p + HdrCells + 1, p + HdrCells + size)
        <5> HIDE DEF size, pad
        <5> DEFINE x == SubSeq(a, p + 3, p + 2 + size)
                   y == SubSeq(A, p + 3, p + 2 + size)
        <5>1. /\ p + 3 \in 1..(g + 1) /\ p + 2 + size \in ((p + 3) - 1)..g
              /\ p + 3 \in 1..(Len(A) + 1) /\ p + 2 + size \in ((p + 3) - 1)..Len(A)
              /\ (p + 2 + size) - (p + 3) + 1 = size
              /\ \A i \in 1..size : (p + 3) + i - 1 \in 1..g
          BY <1>1, <3>3
        <5>2. x \in Seq(Cell) /\ Len(x) = size /\ \A i \in 1..size : x[i] = a[(p + 3) + i - 1]
          <6> DEFINE lo == p + 3
                     hi == p + 2 + size
          <6>1. lo \in 1..(Len(a) + 1) /\ hi \in (lo - 1)..Len(a) /\ hi - lo + 1 = size
            BY <1>2, <5>1
          <6> HIDE DEF lo, hi
          <6>2. /\ SubSeq(a, lo, hi) \in Seq(Cell) /\ Len(SubSeq(a, lo, hi)) = hi - lo + 1
                /\ \A i \in 1..(hi - lo + 1) : SubSeq(a, lo, hi)[i] = a[lo + i - 1]
            BY <1>2, <6>1, PieceProperties
          <6>3. \A i \in 1..size : SubSeq(a, lo, hi)[i] = a[lo + i - 1]
            BY <6>1, <6>2
          <6> QED
            BY <6>1, <6>2, <6>3 DEF lo, hi
        <5>3. y \in Seq(Cell) /\ Len(y) = size /\ \A i \in 1..size : y[i] = A[(p + 3) + i - 1]
          BY <5>1, PieceProperties
        <5> HIDE DEF x, y
        <5>4. \A i \in 1..size : x[i] = y[i]
          BY <1>2, <5>1, <5>2, <5>3
        <5>5. x = y
          BY <5>2, <5>3, <5>4, SeqEqual
        <5>6. p + HdrCells + 1 = p + 3 /\ p + HdrCells + size = p + 2 + size
          BY DEF HdrCells
        <5> QED
          BY <5>5, <5>6 DEF x, y
      <4> QED
        BY <4>1, <4>2
    <3>7. CASE ~ar_compare_name(A[p + 1].name, m) /\ pad = g - p - HdrCells
      <4>1. W[p] = [ok |-> TRUE, data |-> <<>>]
        BY <1>2, <2>1, <2>3, <3>2, <3>7 DEF ar_member, Broken
      <4> QED
        BY <4>1
    <3>8. CASE ~ar_compare_name(A[p + 1].name, m) /\ pad # g - p - HdrCells
      <4>1. p \notin S /\ p \in 0..Len(a)
        BY <1>2, <2>3, <3>2, <3>8 DEF Stops, StopsAt
      <4>2. W[p] = W[J[p]]
        BY <1>2, <2>1, <4>1, MemberGoesOn
      <4>3. pad # Len(A) - p - HdrCells
        <5> HIDE DEF pad, size
        <5> QED
          BY <1>1, <3>3, <3>8 DEF HdrCells
      <4>4. p \notin Stops(A, m) /\ p \in 0..Len(A)
        BY <1>1, <3>5, <3>8, <4>3 DEF Stops, StopsAt
      <4>5. V[p] = V[NextMember(A)[p]]
        BY <2>1, <4>4, MemberGoesOn
      <4>6. NextMember(A)[p] = J[p]
        BY <3>2, <4>1, <4>4 DEF NextMember
      <4>7. J[p] \in 0..g
        BY <1>1, <1>4, <4>1 DEF Forward
      <4> QED
        BY <4>1, <4>2, <4>5, <4>6, <4>7
    <3> QED
      BY <3>6, <3>7, <3>8
  <2> QED
    BY <2>2, <2>3
<1>6. \A p \in 0..g : p \in Good
  <2> HIDE DEF S, J, Good
  <2> QED
    BY <1>1, <1>4, <1>5, WalkInduction
<1>7. ar_is_ar_file(a)
  BY <1>3, ExtractIsWalk DEF Failed
<1>8. 1 \in 0..g /\ 1 \in 1..g
  BY <1>1, <1>2, <1>7 DEF ar_is_ar_file
<1>9. ar_is_ar_file(A)
  BY <1>1, <1>2, <1>7, <1>8 DEF ar_is_ar_file
<1>10. V[1] = W[1]
  BY <1>3, <1>6, <1>7, <1>8, ExtractIsWalk
<1>11. ar_extract(A, m) = ar_extract(a, m)
  BY <1>7, <1>9, <1>10, ExtractIsWalk
<1> QED
  BY <1>9, <1>11 DEF a

\* An archive that is laid out properly is walked member by member, up to the one that
\* is searched for, and ar_extract returns its contents.
LEMMA ExtractLaidOut ==
    ASSUME NEW a \in Seq(Cell), LaidOut(a), NEW name, name # ZeroName, NEW c \in Named(a, name)
    PROVE  ar_extract(a, name).ok /\ ar_extract(a, name).data = c
<1> DEFINE n == Len(a)
           W == Walk(a, name)
           S == Stops(a, name)
           J == NextMember(a)
           M == Members(a)
<1>1. n \in Nat /\ M \in SUBSET (1..n)
  BY LenProperties DEF Members
<1>2. PICK q \in M : a[q + 1].name = name /\ c = Contents(a, q)
  BY DEF Named
<1>3. ASSUME NEW p \in M
      PROVE  /\ p \in 0..n /\ ~ Broken(a, p) /\ a[p + 1].name # ZeroName
             /\ MemberEnd(a, p) = p + HdrCells + Padded(a[p + 1].num)
             /\ MemberEnd(a, p) \in M \cup {n} /\ p < n
  <2> DEFINE size == a[p + 1].num
             cell == a[p + 1]
  <2>1. /\ p + 2 <= n /\ a[p + 2] = Fmag /\ size # BadSize /\ a[p + 1].name # ZeroName
        /\ MemberEnd(a, p) = n \/ MemberEnd(a, p) \in M
    BY <1>3 DEF LaidOut, HdrCells
  <2>2. p \in 1..n /\ p + 1 \in 1..n
    BY <1>1, <2>1
  <2>3. cell \in Cell
    BY <2>2, ElementOfSeq
  <2>4. \A d \in Cell : d.num \in Nat \cup {BadSize}
    BY DEF Cell
  <2>5. size \in Nat
    BY <2>1, <2>3, <2>4
  <2> HIDE DEF size, cell
  <2>6. Padded(size) = 2 * ((size + 1) \div 2) /\ Padded(size) \in Nat
    BY <2>5 DEF Padded
  <2>7. MemberEnd(a, p) = p + 2 + Padded(size)
    BY <2>6 DEF MemberEnd, HdrCells, size
  <2>8. MemberEnd(a, p) <= n
    BY <1>1, <2>1
  <2>9. ~(n - p - 2 < 0) /\ ~(Padded(size) > n - p - 2) /\ p \in 0..n /\ p < n
    BY <1>1, <2>1, <2>2, <2>6, <2>7, <2>8
  <2> QED
    BY <2>1, <2>7, <2>9 DEF Broken, HdrCells, size
<1>4. Forward(n, S, J)
  BY GoesForward DEF Forward
<1> DEFINE found == [ok |-> TRUE, data |-> c]
           Good == {p \in 0..n : p \in M /\ p <= q => W[p] = found}
<1>5. W[q] = found
  <2>1. W[q] = ar_member(a, name, W, q)
    BY <1>2, <1>3, WalkEquation
  <2>2. ~ Broken(a, q) /\ ar_compare_name(a[q + 1].name, name)
    BY <1>2, <1>3 DEF ar_compare_name
  <2>3. ar_member(a, name, W, q) =
          [ok |-> TRUE, data |-> SubSeq(a, q + HdrCells + 1, q + HdrCells + a[q + 1].num)]
    BY <2>2 DEF ar_member, Broken
  <2> QED
    BY <1>2, <2>1, <2>3 DEF Contents
<1>6. ASSUME NEW p \in M, p < q
      PROVE  p \in 0..n /\ p \notin S /\ J[p] \in M /\ J[p] <= q /\ J[p] \in 0..n
  <2>1. MemberEnd(a, p) <= q /\ a[p + 1].name # name
    BY <1>2, <1>6 DEF LaidOut
  <2>2. /\ p \in 0..n /\ ~ Broken(a, p) /\ a[p + 1].name # ZeroName /\ q < n
        /\ MemberEnd(a, p) = p + HdrCells + Padded(a[p + 1].num)
        /\ MemberEnd(a, p) \in M \cup {n}
    BY <1>2, <1>3
  <2>3. J[p] = MemberEnd(a, p)
    BY <2>2 DEF NextMember
  <2>4. J[p] \in M
    BY <1>1, <1>2, <2>1, <2>2, <2>3
  <2>5. ~ ar_compare_name(a[p + 1].name, name)
    BY <2>1, <2>2 DEF ar_compare_name
  <2>6. Padded(a[p + 1].num) # n - p - HdrCells
    <3> DEFINE pad == Padded(a[p + 1].num)
    <3>1. pad \in Nat
      BY <2>2, MemberFits
    <3> HIDE DEF pad
    <3>2. p + 2 + pad < n
      <4>1. p + 2 + pad = MemberEnd(a, p)
        BY <2>2 DEF HdrCells, pad
      <4> QED
        BY <1>1, <1>2, <2>1, <2>2, <3>1, <4>1
    <3>3. pad # n - p - 2
      BY <1>1, <2>2, <3>1, <3>2
    <3> QED
      BY <3>3 DEF HdrCells, pad
  <2>7. p \notin S
    BY <2>2, <2>5, <2>6 DEF Stops, StopsAt
  <2> QED
    BY <1>1, <2>1, <2>2, <2>3, <2>4, <2>7
<1>7. ASSUME NEW p \in 0..n PROVE p \in Good \/ (p \notin S /\ J[p] \notin Good)
  <2>1. CASE p \in M /\ p <= q
    <3>1. CASE p = q
      BY <1>5, <3>1
    <3>2. CASE p < q
      <4>1. p \notin S /\ J[p] \in M /\ J[p] <= q /\ J[p] \in 0..n
        BY <1>6, <2>1, <3>2
      <4>2. W[p] = W[J[p]]
        <5>1. W[p] = ar_member(a, name, W, p)
          BY WalkEquation
        <5> QED
          BY <4>1, <5>1, MemberGoesOn
      <4> QED
        BY <4>1, <4>2
    <3> QED
      BY <1>1, <1>2, <2>1, <3>1, <3>2
  <2>2. CASE ~(p \in M /\ p <= q)
    BY <2>2
  <2> QED
    BY <2>1, <2>2
<1>8. \A p \in 0..n : p \in Good
  <2> HIDE DEF n, S, J, Good
  <2> QED
    BY <1>1, <1>4, <1>7, WalkInduction
<1>9. W[1] = found
  <2>1. 1 \in M /\ 1 \in 0..n /\ 1 <= q
    BY <1>1, <1>2 DEF LaidOut
  <2> QED
    BY <1>8, <2>1
<1> QED
  BY <1>9, ExtractIsWalk DEF LaidOut

-----------------------------------------------------------------------------
(* main_request_config.                                                      *)

\* A configuration is accepted only at the end, and as it was unpacked; when http_get
\* succeeds, the result is that of unpacking.
ResultInv ==
    /\ pc # "done" => result = -1
    /\ result = 1 => retval = "EOK" /\ Unpacked.result = 1 /\ http_response = Unpacked.data
    /\ pc = "done" /\ retval = "EOK" =>
          result = Unpacked.result /\ http_response = Unpacked.data

\* Nothing is accepted at the start.
LEMMA InitResult == Init => ResultInv
  BY DEF Init, ResultInv

\* Every step keeps what is known of an accepted answer.
LEMMA NextResult == ASSUME RecvInv, ResultInv, [Next]_vars PROVE ResultInv'
<1>1. CASE main_request_config
  <2>1. pc' = "done" /\ UNCHANGED <<archive, retval, signed, response>>
    BY <1>1 DEF main_request_config, netVars
  <2>2. Unpacked' = Unpacked
    BY <2>1 DEF Unpacked, crypto_rsa_verify_signature
  <2>3. CASE retval = "EOK"
    <3>1. result' = Unpacked.result /\ http_response' = Unpacked.data
      BY <1>1, <2>3 DEF main_request_config
    <3> QED
      BY <2>1, <2>2, <2>3, <3>1 DEF ResultInv
  <2>4. CASE retval # "EOK"
    <3>1. result' # 1
      BY <1>1, <2>4 DEF main_request_config
    <3> QED
      BY <2>1, <2>4, <3>1 DEF ResultInv
  <2> QED
    BY <2>3, <2>4
<1>2. ASSUME pc # "done", pc' # "done", result' = result PROVE ResultInv'
  BY <1>2 DEF ResultInv
<1>3. CASE ParseUrl \/ Resolve \/ ConnectFails \/ SendFails \/ Send
  BY <1>2, <1>3 DEF ParseUrl, Resolve, ConnectFails, SendFails, Send
<1>4. CASE RecvHeader
  BY <1>2, <1>4, RecvHeaderKeeps DEF RecvHeader, recvUnchanged
<1>5. CASE RecvNothing
  BY <1>2, <1>5, RecvNothingKeeps DEF RecvNothing, recvUnchanged
<1>6. CASE RecvFails \/ RecvBody \/ RecvEnd
  BY <1>2, <1>6 DEF RecvFails, RecvBody, RecvEnd, Fail, recvUnchanged
<1>7. CASE UNCHANGED vars
  <2>1. Unpacked' = Unpacked
    BY <1>7 DEF vars, Unpacked, crypto_rsa_verify_signature
  <2> QED
    BY <1>7, <2>1 DEF vars, ResultInv
<1> QED
  BY <1>1, <1>3, <1>4, <1>5, <1>6, <1>7 DEF Next

\* What an accepted answer has gone through.
LEMMA AcceptedSigned ==
    ASSUME signed, Unpacked.result = 1
    PROVE  /\ ar_extract(archive, "signature").data = Signature
           /\ Unpacked.data = response.carries
  BY DEF Unpacked, crypto_rsa_verify_signature

\* An archive without a signature is accepted for its cleartext.
LEMMA AcceptedClear ==
    ASSUME ~signed, ar_is_ar_file(archive), Unpacked.result = 1
    PROVE  /\ ar_extract(archive, "cleartext").ok
           /\ Unpacked.data = ar_extract(archive, "cleartext").data
  BY DEF Unpacked

\* What was received when a configuration is accepted.
LEMMA AcceptedArchive ==
    ASSUME RecvInv, ResultInv, result = 1
    PROVE  /\ response \in Responses /\ Framed(response) /\ Published(response)
           /\ archive \in Seq(Cell)
           /\ \A i \in 1..Len(archive) : \E k \in DOMAIN Cells(response) : archive[i] = Cells(response)[k]
           /\ BodyIntact /\ pc = "done" /\ retval = "EOK"
           /\ cut \in 0..Len(Cells(response))
<1> DEFINE c == Cells(response)
<1>1. pc = "done" /\ retval = "EOK"
  BY DEF ResultInv
<1>2. response \in Responses /\ cut \in 0..Len(c) /\ got = cut
  BY <1>1 DEF RecvInv, Answered
<1>3. Framed(response) /\ Published(response)
  BY <1>2, ResponsesAssumption, PublishedAssumption
<1>4. PICK q \in Nat : Collected(q)
  BY <1>1 DEF RecvInv
<1>5. /\ q \in BlankLine(response)..(HeaderLength(response) + 1) /\ q <= cut + 1
      /\ archive = SubSeq(c, q, cut)
  BY <1>2, <1>4 DEF Collected
<1>6. /\ c \in Seq(Cell) /\ Len(c) \in Nat /\ BlankLine(response) \in Nat \ {0}
      /\ HeaderLength(response) \in Nat /\ HeaderLength(response) <= Len(c) /\ DOMAIN c = 1..Len(c)
  BY <1>3, CellsOf, Frame, LenProperties
<1>7. BodyIntact
  BY <1>2, <1>3, <1>5, BehindTheHeader DEF BodyIntact, ReceivedBody
<1>8. q \in 1..(Len(c) + 1) /\ cut \in (q - 1)..Len(c) /\ \A i \in 1..(cut - q + 1) : q + i - 1 \in 1..Len(c)
  BY <1>2, <1>5, <1>6
<1> HIDE DEF c
<1>9. /\ archive \in Seq(Cell) /\ Len(archive) = cut - q + 1
      /\ \A i \in 1..(cut - q + 1) : archive[i] = c[q + i - 1]
  BY <1>5, <1>6, <1>8, PieceProperties
<1>10. \A i \in 1..Len(archive) : \E k \in DOMAIN c : archive[i] = c[k]
  BY <1>6, <1>8, <1>9
<1> QED
  BY <1>1, <1>2, <1>3, <1>7, <1>9, <1>10 DEF c

\* Both invariants hold in every reachable state.
LEMMA DownloadInvariant == Spec => [](RecvInv /\ ResultInv)
  BY InitRecv, NextRecv, InitResult, NextResult, PTL DEF Spec

\* With a signkey nothing is accepted but what the server has signed, whatever archive
\* arrives and wherever it is cut or damaged.
THEOREM SignedConfigIsGenuine == Spec => []SignedIsGenuine
<1>1. RecvInv /\ ResultInv => SignedIsGenuine
  <2> SUFFICES ASSUME RecvInv, ResultInv, result = 1, signed
               PROVE  http_response = response.carries /\ response.protected
    BY DEF SignedIsGenuine
  <2>1. /\ ar_extract(archive, "signature").data = Signature
        /\ http_response = response.carries
    BY AcceptedSigned DEF ResultInv
  <2>2. 1 \in DOMAIN Signature /\ Signature[1] = Byte("signature", 1)
    BY DEF Signature, Content
  <2>3. PICK k \in 1..Len(archive) : Signature[1] = archive[k]
    BY <2>1, <2>2, AcceptedArchive, ExtractedFromArchive
  <2>4. PICK j \in DOMAIN Cells(response) : archive[k] = Cells(response)[j]
    BY AcceptedArchive
  <2>5. response.protected
    BY <2>2, <2>3, <2>4, AcceptedArchive DEF Published
  <2> QED
    BY <2>1, <2>5
<1> QED
  BY <1>1, DownloadInvariant, PTL

\* Without a signkey an archive of which only a part arrives is accepted with all of
\* its cleartext or with none of it.
THEOREM NoPartOfAnArchive == Spec => []ArchiveNeverPartial
<1>1. RecvInv /\ ResultInv => ArchiveNeverPartial
  <2> SUFFICES ASSUME RecvInv, ResultInv, result = 1, ~signed, ar_is_ar_file(archive),
                      http_response # <<>>
               PROVE  http_response = response.carries
    BY DEF ArchiveNeverPartial
  <2> DEFINE body == response.body
             g == cut - HeaderLength(response)
  <2>1. /\ ar_extract(archive, "cleartext").ok
        /\ http_response = ar_extract(archive, "cleartext").data
    BY AcceptedClear DEF ResultInv
  <2>2. PICK lead \in {<<>>, <<CR>>, <<LF>>, <<CR, LF>>} : archive = lead \o SubSeq(body, 1, g)
    BY AcceptedArchive DEF BodyIntact, ReceivedBody
  <2>3. /\ body \in Seq(Cell) /\ Len(body) \in Nat /\ HeaderLength(response) \in Nat
        /\ cut \in 0..(HeaderLength(response) + Len(body))
    BY AcceptedArchive, CellsOf
  <2> DEFINE part == SubSeq(body, 1, g)
  <2>4. part \in Seq(Cell)
    <3>1. CASE g < 1
      BY <2>3, <3>1, SubSeqEmpty, EmptySeq
    <3>2. CASE g >= 1
      BY <2>3, <3>2, PieceProperties
    <3> QED
      BY <2>3, <3>1, <3>2
  <2>5. archive = part
    <3>1. archive[1] = Magic /\ Magic \notin Ends
      BY DEF ar_is_ar_file, Magic, Ends, CR, LF, Char
    <3>2. CASE lead = <<>>
      BY <2>2, <2>4, <3>2, ConcatEmptySeq
    <3>3. CASE lead # <<>>
      <4> HIDE DEF part
      <4>1. lead \in Seq(Cell) /\ Len(lead) \in Nat \ {0} /\ lead[1] \in Ends
        <5>1. CASE lead = <<CR>>
          <6>1. Len(<<CR>>) = 1 /\ <<CR>>[1] = CR /\ <<CR>> \in Seq(Cell)
            BY EndCells
          <6> QED
            BY <5>1, <6>1, EndCells
        <5>2. CASE lead = <<LF>>
          <6>1. Len(<<LF>>) = 1 /\ <<LF>>[1] = LF /\ <<LF>> \in Seq(Cell)
            BY EndCells
          <6> QED
            BY <5>2, <6>1, EndCells
        <5>3. CASE lead = <<CR, LF>>
          <6>1. Len(<<CR, LF>>) = 2 /\ <<CR, LF>>[1] = CR /\ <<CR, LF>> \in Seq(Cell)
            BY EndCells
          <6> QED
            BY <5>3, <6>1, EndCells
        <5> QED
          BY <3>3, <5>1, <5>2, <5>3
      <4>2. (lead \o part)[1] = lead[1]
        BY <2>4, <4>1, CellsAppended
      <4> QED
        BY <2>2, <3>1, <4>1, <4>2 DEF part
    <3> QED
      BY <3>2, <3>3
  <2>6. g \in 0..Len(body)
    <3>1. g < 0 => part = <<>>
      BY <2>3, SubSeqEmpty
    <3>2. part # <<>>
      <4> HIDE DEF part
      <4>1. Len(part) > 0
        BY <2>5 DEF ar_is_ar_file
      <4> QED
        BY <4>1, EmptySeq
    <3> QED
      BY <2>3, <3>1, <3>2
  <2> HIDE DEF g
  <2>7. ar_extract(body, "cleartext").data = http_response /\ ar_is_ar_file(body)
    BY <2>1, <2>3, <2>5, <2>6, ExtractFromPart
  <2> QED
    BY <2>7, AcceptedArchive DEF Published
<1> QED
  BY <1>1, DownloadInvariant, PTL

\* A configuration that has arrived completely is accepted: of an archive whose members
\* are laid out properly, every member is found and the signature fits.
THEOREM GoodIsAccepted == Spec => []GoodDownloadAccepted
<1>1. RecvInv /\ ResultInv => GoodDownloadAccepted
  <2> SUFFICES ASSUME RecvInv, ResultInv, pc = "done", retval = "EOK", archive = response.body,
                      Wellformed(response), response.protected = signed
               PROVE  Unpacked.result = 1 /\ Unpacked.data = response.carries
    BY DEF GoodDownloadAccepted, ResultInv
  <2> DEFINE a == response.body
  <2>1. response \in Responses
    BY DEF RecvInv, Answered
  <2>2. a \in Seq(Cell)
    BY <2>1, ResponsesAssumption DEF Framed
  <2>3. CASE ~ ar_is_ar_file(a) /\ ~ response.protected /\ response.carries = a
    BY <2>3 DEF Unpacked
  <2>4. ASSUME LaidOut(a), NEW name, name # ZeroName, NEW c \in Named(a, name)
        PROVE  ar_extract(a, name).ok /\ ar_extract(a, name).data = c
    BY <2>2, <2>4, ExtractLaidOut
  <2>5. CASE ~ (~ ar_is_ar_file(a) /\ ~ response.protected /\ response.carries = a)
    <3>1. LaidOut(a) /\ Version3 \in Named(a, "chaosvpn-version") /\ ar_is_ar_file(a)
      BY <2>5 DEF Wellformed, LaidOut
    <3>2. ar_extract(a, "chaosvpn-version").ok /\ ar_extract(a, "chaosvpn-version").data = Version3
      BY <2>4, <3>1 DEF ZeroName
    <3>3. CASE ~ signed
      <4>1. response.carries \in Named(a, "cleartext")
        BY <2>5, <3>3 DEF Wellformed
      <4>2. ar_extract(a, "cleartext").ok /\ ar_extract(a, "cleartext").data = response.carries
        BY <2>4, <3>1, <4>1 DEF ZeroName
      <4> QED
        BY <3>1, <3>2, <3>3, <4>2 DEF Unpacked
    <3>4. CASE signed
      <4>1. /\ RsaBlock \in Named(a, "rsa") /\ Signature \in Named(a, "signature")
            /\ \E c \in Named(a, "encrypted") : Compressed(c) /\ uncompress_inflate(c) = response.carries
        BY <2>5, <3>4 DEF Wellformed
      <4>2. PICK c \in Named(a, "encrypted") : Compressed(c) /\ uncompress_inflate(c) = response.carries
        BY <4>1
      <4>3. /\ ar_extract(a, "rsa").ok /\ ar_extract(a, "rsa").data = RsaBlock
            /\ ar_extract(a, "signature").ok /\ ar_extract(a, "signature").data = Signature
            /\ ar_extract(a, "encrypted").ok /\ ar_extract(a, "encrypted").data = c
        BY <2>4, <3>1, <4>1, <4>2 DEF ZeroName
      <4>4. Signature # <<>> /\ c # <<>>
        BY <4>2 DEF Signature, Content, Compressed
      <4> QED
        BY <3>1, <3>2, <3>4, <4>2, <4>3, <4>4
           DEF Unpacked, crypto_rsa_decrypt, KeyLengths, crypto_aes_decrypt, crypto_rsa_verify_signature
    <3> QED
      BY <3>3, <3>4
  <2> QED
    BY <2>3, <2>5
<1> QED
  BY <1>1, DownloadInvariant, PTL

-----------------------------------------------------------------------------
(* http_parseurl: a loop over the cells of the URL.                          *)

UrlStates(X) ==
    [urlpart : {"host", "port", "path", "end", "error"}, host : Seq(X), port : Seq(X), path : Seq(X)]

\* One turn of the loop, by what it finds.
LEMMA UrlCellCases ==
    ASSUME NEW X, NEW s \in UrlStates(X), NEW u, NEW i
    PROVE  /\ s.urlpart = "host" /\ u[i] \in {":", "/"} =>
                 UrlCell(u, i, s) =
                    [urlpart |-> IF s.host = <<>> THEN "error"
                                 ELSE IF u[i] = ":" THEN "port" ELSE "path",
                     host |-> s.host, port |-> s.port, path |-> s.path]
           /\ s.urlpart = "host" /\ u[i] \notin {":", "/"} =>
                 UrlCell(u, i, s) = [urlpart |-> "host", host |-> Append(s.host, u[i]),
                                     port |-> s.port, path |-> s.path]
           /\ s.urlpart = "port" /\ u[i] = "/" =>
                 UrlCell(u, i, s) = [urlpart |-> "path", host |-> s.host, port |-> s.port,
                                     path |-> s.path]
           /\ s.urlpart = "port" /\ u[i] # "/" /\ u[i] = "digit" =>
                 UrlCell(u, i, s) = [urlpart |-> "port", host |-> s.host,
                                     port |-> Append(s.port, u[i]), path |-> s.path]
           /\ s.urlpart = "port" /\ u[i] # "/" /\ u[i] # "digit" =>
                 UrlCell(u, i, s) = [urlpart |-> "error", host |-> s.host, port |-> s.port,
                                     path |-> s.path]
           /\ s.urlpart = "path" =>
                 UrlCell(u, i, s) = [urlpart |-> "end", host |-> s.host, port |-> s.port,
                                     path |-> s.path \o SubSeq(u, i, Len(u))]
           /\ s.urlpart \in {"end", "error"} => UrlCell(u, i, s) = s
<1>1. ASSUME s.urlpart = "host", u[i] \in {":", "/"}
      PROVE  UrlCell(u, i, s) =
                    [urlpart |-> IF s.host = <<>> THEN "error"
                                 ELSE IF u[i] = ":" THEN "port" ELSE "path",
                     host |-> s.host, port |-> s.port, path |-> s.path]
  BY <1>1 DEF UrlCell, UrlStates
<1>2. ASSUME s.urlpart = "host", u[i] \notin {":", "/"}
      PROVE  UrlCell(u, i, s) = [urlpart |-> "host", host |-> Append(s.host, u[i]),
                                     port |-> s.port, path |-> s.path]
  BY <1>2 DEF UrlCell, UrlStates
<1>3. ASSUME s.urlpart = "port", u[i] = "/"
      PROVE  UrlCell(u, i, s) = [urlpart |-> "path", host |-> s.host, port |-> s.port,
                                 path |-> s.path]
  BY <1>3 DEF UrlCell, UrlStates
<1>4. ASSUME s.urlpart = "port", u[i] # "/", u[i] = "digit"
      PROVE  UrlCell(u, i, s) = [urlpart |-> "port", host |-> s.host,
                                 port |-> Append(s.port, u[i]), path |-> s.path]
  BY <1>4 DEF UrlCell, UrlStates, PortDigit
<1>5. ASSUME s.urlpart = "port", u[i] # "/", u[i] # "digit"
      PROVE  UrlCell(u, i, s) = [urlpart |-> "error", host |-> s.host, port |-> s.port,
                                 path |-> s.path]
  BY <1>5 DEF UrlCell, UrlStates, PortDigit
<1>6. ASSUME s.urlpart = "path"
      PROVE  UrlCell(u, i, s) = [urlpart |-> "end", host |-> s.host, port |-> s.port,
                                 path |-> s.path \o SubSeq(u, i, Len(u))]
  BY <1>6 DEF UrlCell, UrlStates
<1>7. ASSUME s.urlpart \in {"end", "error"} PROVE UrlCell(u, i, s) = s
  BY <1>7 DEF UrlCell
<1> QED
  BY <1>1, <1>2, <1>3, <1>4, <1>5, <1>6, <1>7

\* It keeps the type of what was found.
LEMMA UrlCellType ==
    ASSUME NEW X, NEW u \in Seq(X), NEW i \in 1..Len(u), NEW s \in UrlStates(X)
    PROVE  UrlCell(u, i, s) \in UrlStates(X)
<1>1. /\ s.urlpart \in {"host", "port", "path", "end", "error"}
      /\ s.host \in Seq(X) /\ s.port \in Seq(X) /\ s.path \in Seq(X)
  BY DEF UrlStates
<1>2. u[i] \in X /\ Len(u) \in Nat
  BY ElementOfSeq, LenProperties
<1>3. Append(s.host, u[i]) \in Seq(X) /\ Append(s.port, u[i]) \in Seq(X)
  BY <1>1, <1>2, AppendProperties
<1>4. s.path \o SubSeq(u, i, Len(u)) \in Seq(X)
  <2>1. i \in 1..(Len(u) + 1) /\ Len(u) \in (i - 1)..Len(u)
    BY <1>2
  <2>2. SubSeq(u, i, Len(u)) \in Seq(X)
    BY <2>1, PieceProperties
  <2> QED
    BY <1>1, <2>2, ConcatProperties
<1>5. ASSUME NEW e \in {"host", "port", "path", "end", "error"}, NEW h \in Seq(X), NEW p \in Seq(X),
             NEW t \in Seq(X)
      PROVE  [urlpart |-> e, host |-> h, port |-> p, path |-> t] \in UrlStates(X)
  BY DEF UrlStates
<1>6. CASE s.urlpart = "host" /\ u[i] \in {":", "/"}
  <2> DEFINE e == IF s.host = <<>> THEN "error" ELSE IF u[i] = ":" THEN "port" ELSE "path"
  <2>1. e \in {"host", "port", "path", "end", "error"}
    OBVIOUS
  <2>2. UrlCell(u, i, s) = [urlpart |-> e, host |-> s.host, port |-> s.port, path |-> s.path]
    BY <1>6, UrlCellCases
  <2> HIDE DEF e
  <2> QED
    BY <1>1, <1>5, <2>1, <2>2
<1>7. CASE s.urlpart = "host" /\ u[i] \notin {":", "/"}
  <2> DEFINE h == Append(s.host, u[i])
  <2>1. UrlCell(u, i, s) = [urlpart |-> "host", host |-> h, port |-> s.port, path |-> s.path]
    BY <1>7, UrlCellCases
  <2>2. h \in Seq(X)
    BY <1>3
  <2> HIDE DEF h
  <2> QED
    BY <1>1, <1>5, <2>1, <2>2
<1>8. CASE s.urlpart = "port"
  <2> DEFINE p == Append(s.port, u[i])
  <2>1. \/ UrlCell(u, i, s) = [urlpart |-> "path", host |-> s.host, port |-> s.port, path |-> s.path]
        \/ UrlCell(u, i, s) = [urlpart |-> "port", host |-> s.host, port |-> p, path |-> s.path]
        \/ UrlCell(u, i, s) = [urlpart |-> "error", host |-> s.host, port |-> s.port, path |-> s.path]
    BY <1>8, UrlCellCases
  <2>2. p \in Seq(X)
    BY <1>3
  <2> HIDE DEF p
  <2> QED
    BY <1>1, <1>5, <2>1, <2>2
<1>9. CASE s.urlpart = "path"
  <2> DEFINE t == s.path \o SubSeq(u, i, Len(u))
  <2>1. UrlCell(u, i, s) = [urlpart |-> "end", host |-> s.host, port |-> s.port, path |-> t]
    BY <1>9, UrlCellCases
  <2>2. t \in Seq(X)
    BY <1>4
  <2> HIDE DEF t
  <2> QED
    BY <1>1, <1>5, <2>1, <2>2
<1>10. CASE s.urlpart \in {"end", "error"}
  BY <1>10, UrlCellCases
<1> QED
  BY <1>1, <1>6, <1>7, <1>8, <1>9, <1>10

\* The states of the loop.
UrlScan(u) ==
    LET scan[i \in 0 .. Len(u)] == IF i = 0 THEN UrlStart ELSE UrlCell(u, i, scan[i - 1])
    IN  scan

\* Each turn of the loop starts from what the turn before it has found.
LEMMA UrlScanEquation ==
    ASSUME NEW X, "/" \in X, NEW u \in Seq(X)
    PROVE  /\ UrlScan(u)[0] = UrlStart
           /\ \A k \in 1..Len(u) : UrlScan(u)[k] = UrlCell(u, k, UrlScan(u)[k - 1])
           /\ \A k \in 0..Len(u) : UrlScan(u)[k] \in UrlStates(X)
<1> DEFINE n == Len(u)
           S == UrlStates(X)
           T == [k \in 1..n |-> [s \in S |-> UrlCell(u, k, s)]]
           P(f) == [k \in 0..n |-> IF k = 0 THEN UrlStart ELSE UrlCell(u, k, f[k - 1])]
<1>1. n \in Nat
  BY LenProperties
<1>2. UrlStart \in S
  <2>1. <<>> \in Seq(X) /\ <<"/">> \in Seq(X)
    BY EmptySeq
  <2> QED
    BY <2>1 DEF UrlStates, UrlStart
<1>3. ASSUME NEW k \in 1..n, NEW s \in S PROVE UrlCell(u, k, s) \in S
  BY UrlCellType
<1>4. T \in [1..n -> [S -> S]]
  <2> HIDE DEF S, n
  <2> QED
    BY <1>3
<1>5. PICK f : IsIteration(f, n, S, UrlStart, T)
  <2> HIDE DEF n, S, T
  <2> QED
    BY <1>1, <1>2, <1>4, IterationExists, Zenon
<1> HIDE DEF S, n
<1> USE DEF IsIteration
<1>6. \A k \in 1..n : f[k] = UrlCell(u, k, f[k - 1])
  <2> SUFFICES ASSUME NEW k \in 1..n PROVE f[k] = UrlCell(u, k, f[k - 1])
    OBVIOUS
  <2>1. k - 1 \in 0..n
    BY <1>1
  <2> QED
    BY <1>5, <2>1
<1>7. f = P(f)
  <2>1. f = [k \in 0..n |-> f[k]]
    BY <1>5
  <2>2. \A k \in 0..n : k = 0 \/ k \in 1..n
    BY <1>1
  <2>3. [k \in 0..n |-> f[k]] = P(f)
    BY <1>5, <1>6, <2>2
  <2> QED
    BY <2>1, <2>3
<1> DEFINE W == CHOOSE g : g = P(g)
<1>8. W = P(W)
  BY <1>7
<1>9. UrlScan(u) = W
  BY DEF UrlScan, n
<1> HIDE DEF W
<1>10. W[0] = UrlStart
  BY <1>1, <1>8
<1>11. ASSUME NEW k \in 1..n PROVE W[k] = UrlCell(u, k, W[k - 1])
  <2>1. k \in 0..n /\ k # 0
    BY <1>1
  <2> QED
    BY <1>8, <2>1
<1> DEFINE Good == {k \in 0..n : W[k] \in S}
<1>12. \A k \in 0..n : k \in Good
  <2>1. 0 \in Good
    BY <1>1, <1>2, <1>10
  <2>2. ASSUME NEW k \in 1..n, k - 1 \in Good PROVE k \in Good
    <3>1. k \in 0..n
      BY <1>1
    <3> QED
      BY <1>3, <1>11, <2>2, <3>1
  <2> HIDE DEF Good
  <2> QED
    BY <1>1, <2>1, <2>2, IterationInduction
<1> QED
  BY <1>9, <1>10, <1>11, <1>12 DEF S, n

\* The loop ends with what its last turn has found.
LEMMA ParseUrlIsScan ==
    ASSUME NEW u
    PROVE  UrlLoop(u) =
             [error |-> IF UrlScan(u)[Len(u)].urlpart = "error" THEN "EINVURL" ELSE "EOK",
              host |-> UrlScan(u)[Len(u)].host, port |-> UrlScan(u)[Len(u)].port,
              path |-> UrlScan(u)[Len(u)].path]
  BY DEF UrlLoop, UrlScan

\* Where PositionOf points.
LEMMA FirstPosition ==
    ASSUME NEW X, NEW s \in Seq(X), NEW c
    PROVE  /\ PositionOf(c, s) \in 1..(Len(s) + 1)
           /\ \A i \in 1..Len(s) : i < PositionOf(c, s) => s[i] # c
           /\ PositionOf(c, s) <= Len(s) => s[PositionOf(c, s)] = c
<1> DEFINE I == {i \in DOMAIN s : s[i] = c} \cup {Len(s) + 1}
<1>1. Len(s) \in Nat /\ DOMAIN s = 1..Len(s)
  BY LenProperties
<1>2. I \in SUBSET Nat /\ I # {} /\ Len(s) + 1 \in I
  BY <1>1
<1>3. \A i \in 1..Len(s) : s[i] = c => i \in I
  BY <1>1
<1>4. \A i \in I : i \in 1..(Len(s) + 1) /\ (i <= Len(s) => s[i] = c)
  BY <1>1
<1>5. PositionOf(c, s) = Min(I)
  BY DEF PositionOf
<1> HIDE DEF I
<1>6. PICK p \in I : p = Min(I) /\ \A y \in I : p <= y
  BY <1>2, MinNat
<1>7. ASSUME NEW i \in 1..Len(s), i < p PROVE s[i] # c
  <2>1. ~(p <= i)
    BY <1>1, <1>2, <1>7
  <2>2. i \notin I
    BY <1>6, <2>1
  <2> QED
    BY <1>3, <2>2
<1> QED
  BY <1>4, <1>5, <1>6, <1>7

\* A piece that grows by one cell.
LEMMA PieceGrows ==
    ASSUME NEW X, NEW u \in Seq(X), NEW i \in 1..Len(u), NEW k \in i..Len(u)
    PROVE  SubSeq(u, i, k) = Append(SubSeq(u, i, k - 1), u[k])
<1> DEFINE a == SubSeq(u, i, k - 1)
           c == SubSeq(u, i, k)
           d == Append(a, u[k])
<1>1. Len(u) \in Nat /\ u[k] \in X
  BY LenProperties, ElementOfSeq
<1>2. i \in 1..(Len(u) + 1) /\ k - 1 \in (i - 1)..Len(u) /\ k \in (i - 1)..Len(u)
  BY <1>1
<1>3. a \in Seq(X) /\ Len(a) = k - i /\ \A j \in 1..(k - i) : a[j] = u[i + j - 1]
  <2>1. (k - 1) - i + 1 = k - i
    BY <1>1
  <2> QED
    BY <1>2, <2>1, PieceProperties
<1>4. c \in Seq(X) /\ Len(c) = k - i + 1 /\ \A j \in 1..(k - i + 1) : c[j] = u[i + j - 1]
  BY <1>2, PieceProperties
<1> HIDE DEF a, c
<1>5. /\ d \in Seq(X) /\ Len(d) = k - i + 1 /\ d[k - i + 1] = u[k]
      /\ \A j \in 1..(k - i) : d[j] = a[j]
  BY <1>1, <1>3, AppendProperties
<1> HIDE DEF d
<1>6. ASSUME NEW j \in 1..Len(c) PROVE c[j] = d[j]
  <2>1. CASE j = k - i + 1
    <3>1. i + j - 1 = k
      BY <1>1, <2>1
    <3> QED
      BY <1>4, <1>5, <2>1, <3>1
  <2>2. CASE j # k - i + 1
    <3>1. j \in 1..(k - i)
      BY <1>1, <1>4, <2>2
    <3> QED
      BY <1>3, <1>4, <1>5, <3>1
  <2> QED
    BY <2>1, <2>2
<1>7. c = d
  BY <1>4, <1>5, <1>6, SeqEqual
<1> QED
  BY <1>7 DEF a, c, d

-----------------------------------------------------------------------------
(* What the loop has found after k cells, from the places of the first slash  *)
(* and of the first colon before it.                                          *)

\* The last cell of the port that was looked at, and whether there are only digits in it.
PortEnd(k, slash) == IF k < slash THEN k ELSE slash - 1

Numeric(u, colon, e) == \A m \in (colon + 1) .. e : u[m] = "digit"

Scanned(u, k, slash, colon, s) ==
    /\ k < colon => s = [urlpart |-> "host", host |-> SubSeq(u, 1, k), port |-> <<>>, path |-> <<"/">>]
    /\ k >= colon /\ (colon = 1 \/ ~Numeric(u, colon, PortEnd(k, slash))) => s.urlpart = "error"
    /\ k >= colon /\ colon # 1 /\ Numeric(u, colon, PortEnd(k, slash)) =>
          s = [urlpart |-> IF k < slash THEN "port" ELSE IF k = slash THEN "path" ELSE "end",
               host |-> SubSeq(u, 1, colon - 1), port |-> SubSeq(u, colon + 1, PortEnd(k, slash)),
               path |-> IF k <= slash THEN <<"/">> ELSE <<"/">> \o SubSeq(u, slash + 1, Len(u))]

\* One turn of the loop.
LEMMA UrlCellScans ==
    ASSUME NEW X, NEW u \in Seq(X), NEW slash \in 1..(Len(u) + 1), NEW colon \in 1..slash,
           \A i \in 1..Len(u) : i < slash => u[i] # "/",
           slash <= Len(u) => u[slash] = "/",
           \A i \in 1..Len(u) : i < colon => u[i] # ":",
           colon < slash => u[colon] = ":",
           NEW k \in 1..Len(u), NEW s \in UrlStates(X), Scanned(u, k - 1, slash, colon, s)
    PROVE  Scanned(u, k, slash, colon, UrlCell(u, k, s))
<1> DEFINE t == UrlCell(u, k, s)
           e == PortEnd(k, slash)
           d == PortEnd(k - 1, slash)
<1>1. Len(u) \in Nat /\ k \in Nat /\ slash \in Nat /\ colon \in Nat /\ u[k] \in X
  BY LenProperties, ElementOfSeq
<1>2. CASE k < colon
  <2> DEFINE a == SubSeq(u, 1, k - 1)
             h == SubSeq(u, 1, k)
  <2>1. h = Append(a, u[k])
    <3>1. 1 \in 1..Len(u) /\ k \in 1..Len(u)
      BY <1>1
    <3> QED
      BY <3>1, PieceGrows
  <2>2. k - 1 < colon /\ k < slash
    BY <1>1, <1>2
  <2>3. u[k] \notin {":", "/"}
    BY <1>2, <2>2
  <2>4. s = [urlpart |-> "host", host |-> a, port |-> <<>>, path |-> <<"/">>]
    BY <2>2 DEF Scanned
  <2> HIDE DEF a, h
  <2>5. s.urlpart = "host" /\ s.host = a /\ s.port = <<>> /\ s.path = <<"/">>
    BY <2>4
  <2>6. t = [urlpart |-> "host", host |-> Append(s.host, u[k]), port |-> s.port, path |-> s.path]
    BY <2>3, <2>5, UrlCellCases
  <2>7. t = [urlpart |-> "host", host |-> h, port |-> <<>>, path |-> <<"/">>]
    BY <2>1, <2>5, <2>6
  <2>8. ~(k >= colon)
    BY <1>1, <1>2
  <2> HIDE DEF t
  <2>9. Scanned(u, k, slash, colon, t)
    BY <2>7, <2>8 DEF Scanned, h
  <2> QED
    BY <2>9 DEF t
<1>3. CASE k = colon
  <2> DEFINE a == SubSeq(u, 1, k - 1)
  <2>1. a \in Seq(X) /\ Len(a) = k - 1
    <3>1. 1 \in 1..(Len(u) + 1) /\ k - 1 \in (1 - 1)..Len(u) /\ (k - 1) - 1 + 1 = k - 1
      BY <1>1
    <3> QED
      BY <3>1, PieceProperties
  <2>2. a = <<>> <=> k = 1
    <3>1. Len(a) = 0 <=> a = <<>>
      BY <2>1, EmptySeq
    <3>2. k - 1 = 0 <=> k = 1
      BY <1>1
    <3> QED
      BY <2>1, <3>1, <3>2
  <2>3. s = [urlpart |-> "host", host |-> a, port |-> <<>>, path |-> <<"/">>]
    <3>1. k - 1 < colon
      BY <1>1, <1>3
    <3> QED
      BY <3>1 DEF Scanned
  <2>4. u[k] \in {":", "/"} /\ (u[k] = ":" <=> k < slash)
    <3>1. CASE k < slash
      BY <1>3, <3>1
    <3>2. CASE ~(k < slash)
      <4>1. k = slash /\ slash <= Len(u)
        BY <1>1, <1>3, <3>2
      <4> QED
        BY <3>2, <4>1
    <3> QED
      BY <3>1, <3>2
  <2> HIDE DEF a
  <2>5. s.urlpart = "host" /\ s.host = a /\ s.port = <<>> /\ s.path = <<"/">>
    BY <2>3
  <2>6. t = [urlpart |-> IF s.host = <<>> THEN "error" ELSE IF u[k] = ":" THEN "port" ELSE "path",
             host |-> s.host, port |-> s.port, path |-> s.path]
    BY <2>4, <2>5, UrlCellCases
  <2>7. t = [urlpart |-> IF k = 1 THEN "error" ELSE IF k < slash THEN "port" ELSE "path",
             host |-> a, port |-> <<>>, path |-> <<"/">>]
    BY <2>2, <2>4, <2>5, <2>6
  <2>8. e < colon + 1 /\ Numeric(u, colon, e) /\ ~(k < colon) /\ k <= slash /\ (~(k < slash) => k = slash)
    BY <1>1, <1>3 DEF PortEnd, Numeric
  <2>9. SubSeq(u, colon + 1, e) = <<>>
    <3>1. e \in Int /\ colon + 1 \in Int
      BY <1>1 DEF PortEnd
    <3> QED
      BY <2>8, <3>1, SubSeqEmpty
  <2>10. a = SubSeq(u, 1, colon - 1)
    BY <1>3 DEF a
  <2> HIDE DEF t, e
  <2>11. CASE k = 1
    <3>1. t.urlpart = "error"
      BY <2>7, <2>11
    <3>2. Scanned(u, k, slash, colon, t)
      BY <1>3, <2>8, <2>11, <3>1 DEF Scanned
    <3> QED
      BY <3>2 DEF t
  <2>12. CASE k # 1
    <3>1. t = [urlpart |-> IF k < slash THEN "port" ELSE IF k = slash THEN "path" ELSE "end",
               host |-> SubSeq(u, 1, colon - 1), port |-> SubSeq(u, colon + 1, e),
               path |-> IF k <= slash THEN <<"/">> ELSE <<"/">> \o SubSeq(u, slash + 1, Len(u))]
      BY <2>7, <2>8, <2>9, <2>10, <2>12
    <3>2. Scanned(u, k, slash, colon, t)
      BY <1>3, <2>8, <2>12, <3>1 DEF Scanned, e
    <3> QED
      BY <3>2 DEF t
  <2> QED
    BY <2>11, <2>12
<1>4. ASSUME k > colon, colon = 1 \/ ~Numeric(u, colon, d) PROVE Scanned(u, k, slash, colon, t)
  <2>1. k - 1 >= colon /\ ~(k < colon)
    BY <1>1, <1>4
  <2>2. s.urlpart = "error"
    BY <1>4, <2>1 DEF Scanned
  <2>3. t = s
    BY <2>2, UrlCellCases
  <2>4. d \in Int /\ e \in Int /\ d <= e
    BY <1>1 DEF PortEnd
  <2>5. Numeric(u, colon, e) => Numeric(u, colon, d)
    <3> HIDE DEF d, e
    <3> QED
      BY <1>1, <2>4 DEF Numeric
  <2> HIDE DEF t
  <2> QED
    BY <1>4, <2>1, <2>2, <2>3, <2>5 DEF Scanned
<1>5. ASSUME k > colon, colon # 1, Numeric(u, colon, d) PROVE Scanned(u, k, slash, colon, t)
  <2> DEFINE h == SubSeq(u, 1, colon - 1)
             p == SubSeq(u, colon + 1, d)
             q == SubSeq(u, colon + 1, e)
             r == <<"/">> \o SubSeq(u, slash + 1, Len(u))
             Found(o) == [urlpart |-> IF k < slash THEN "port" ELSE IF k = slash THEN "path" ELSE "end",
                          host |-> h, port |-> o, path |-> IF k <= slash THEN <<"/">> ELSE r]
  <2>1. k - 1 >= colon /\ ~(k < colon) /\ k >= colon
    BY <1>1, <1>5
  <2>2. s = [urlpart |-> IF k - 1 < slash THEN "port" ELSE IF k - 1 = slash THEN "path" ELSE "end",
             host |-> h, port |-> p, path |-> IF k - 1 <= slash THEN <<"/">> ELSE r]
    BY <1>5, <2>1 DEF Scanned
  <2>3. ASSUME Numeric(u, colon, e), t = Found(q) PROVE Scanned(u, k, slash, colon, t)
    <3> HIDE DEF t
    <3> QED
      BY <1>5, <2>1, <2>3 DEF Scanned
  <2>4. ASSUME ~Numeric(u, colon, e), t.urlpart = "error" PROVE Scanned(u, k, slash, colon, t)
    <3> HIDE DEF t
    <3> QED
      BY <1>5, <2>1, <2>4 DEF Scanned
  <2>5. CASE k < slash
    <3>1. d = k - 1 /\ e = k /\ k - 1 < slash /\ k - 1 <= slash /\ k <= slash
      BY <1>1, <2>5 DEF PortEnd
    <3>2. q = Append(p, u[k])
      <4>1. colon + 1 \in 1..Len(u) /\ k \in (colon + 1)..Len(u)
        BY <1>1, <1>5
      <4>2. SubSeq(u, colon + 1, k) = Append(SubSeq(u, colon + 1, k - 1), u[k])
        BY <4>1, PieceGrows
      <4> QED
        BY <3>1, <4>2
    <3>3. u[k] # "/"
      BY <2>5
    <3>4. Numeric(u, colon, e) <=> u[k] = "digit"
      <4>1. \A m \in (colon + 1)..k : m = k \/ m \in (colon + 1)..(k - 1)
        BY <1>1
      <4>2. k \in (colon + 1)..k
        BY <1>1, <1>5
      <4>3. Numeric(u, colon, k - 1)
        BY <1>5, <3>1
      <4>4. Numeric(u, colon, k) <=> u[k] = "digit"
        BY <4>1, <4>2, <4>3 DEF Numeric
      <4> QED
        BY <3>1, <4>4
    <3> HIDE DEF h, p, q, r
    <3>5. s.urlpart = "port" /\ s.host = h /\ s.port = p /\ s.path = <<"/">>
      BY <2>2, <3>1
    <3>6. CASE u[k] = "digit"
      <4>1. t = [urlpart |-> "port", host |-> s.host, port |-> Append(s.port, u[k]), path |-> s.path]
        BY <3>3, <3>5, <3>6, UrlCellCases
      <4>2. t = Found(q)
        BY <2>5, <3>1, <3>2, <3>5, <4>1
      <4> HIDE DEF t, Found
      <4> QED
        BY <2>3, <3>4, <3>6, <4>2
    <3>7. CASE u[k] # "digit"
      <4>1. t = [urlpart |-> "error", host |-> s.host, port |-> s.port, path |-> s.path]
        BY <3>3, <3>5, <3>7, UrlCellCases
      <4>2. t.urlpart = "error"
        BY <4>1
      <4> HIDE DEF t
      <4> QED
        BY <2>4, <3>4, <3>7, <4>2
    <3> QED
      BY <3>6, <3>7
  <2>6. ASSUME ~(k < slash) PROVE d = e /\ p = q /\ Numeric(u, colon, e)
    <3>1. d = e
      BY <1>1, <2>6 DEF PortEnd
    <3> QED
      BY <1>5, <3>1
  <2>7. CASE k = slash
    <3>1. k - 1 < slash /\ k - 1 <= slash /\ ~(k < slash) /\ k <= slash /\ slash <= Len(u)
      BY <1>1, <2>7
    <3>2. u[k] = "/"
      BY <2>7, <3>1
    <3> HIDE DEF h, p, q, r
    <3>3. s.urlpart = "port" /\ s.host = h /\ s.port = p /\ s.path = <<"/">>
      BY <2>2, <3>1
    <3>4. t = [urlpart |-> "path", host |-> s.host, port |-> s.port, path |-> s.path]
      BY <3>2, <3>3, UrlCellCases
    <3>5. t = Found(q)
      BY <2>6, <2>7, <3>1, <3>3, <3>4
    <3> HIDE DEF t, Found
    <3> QED
      BY <2>3, <2>6, <3>1, <3>5
  <2>8. CASE k = slash + 1
    <3>1. ~(k - 1 < slash) /\ k - 1 = slash /\ k - 1 <= slash /\ ~(k < slash) /\ ~(k <= slash) /\ k # slash
      BY <1>1, <2>8
    <3> DEFINE v == SubSeq(u, k, Len(u))
    <3>2. r = <<"/">> \o v
      BY <2>8
    <3> HIDE DEF h, p, q, r, v
    <3>3. s.urlpart = "path" /\ s.host = h /\ s.port = p /\ s.path = <<"/">>
      BY <2>2, <3>1
    <3>4. t = [urlpart |-> "end", host |-> s.host, port |-> s.port, path |-> s.path \o v]
      BY <3>3, UrlCellCases DEF v
    <3>5. t = Found(q)
      BY <2>6, <3>1, <3>2, <3>3, <3>4
    <3> HIDE DEF t, Found
    <3> QED
      BY <2>3, <2>6, <3>1, <3>5
  <2>9. CASE k > slash + 1
    <3>1. /\ ~(k - 1 < slash) /\ k - 1 # slash /\ ~(k - 1 <= slash)
          /\ ~(k < slash) /\ ~(k <= slash) /\ k # slash
      BY <1>1, <2>9
    <3> HIDE DEF h, p, q, r
    <3>2. s = [urlpart |-> "end", host |-> h, port |-> p, path |-> r]
      BY <2>2, <3>1
    <3>3. s.urlpart = "end"
      BY <3>2
    <3>4. t = s
      BY <3>3, UrlCellCases
    <3>5. t = Found(q)
      BY <2>6, <3>1, <3>2, <3>4
    <3> HIDE DEF t, Found
    <3> QED
      BY <2>3, <2>6, <3>1, <3>5
  <2> QED
    BY <1>1, <2>5, <2>7, <2>8, <2>9
<1> QED
  <2>1. k < colon \/ k = colon \/ k > colon
    BY <1>1
  <2> QED
    BY <1>2, <1>3, <1>4, <1>5, <2>1

\* All turns of the loop.
LEMMA UrlScanned ==
    ASSUME NEW X, "/" \in X, NEW u \in Seq(X), NEW slash \in 1..(Len(u) + 1), NEW colon \in 1..slash,
           \A i \in 1..Len(u) : i < slash => u[i] # "/",
           slash <= Len(u) => u[slash] = "/",
           \A i \in 1..Len(u) : i < colon => u[i] # ":",
           colon < slash => u[colon] = ":"
    PROVE  Scanned(u, Len(u), slash, colon, UrlScan(u)[Len(u)])
<1> DEFINE n == Len(u)
           Good == {k \in 0..n : Scanned(u, k, slash, colon, UrlScan(u)[k])}
<1>1. n \in Nat /\ slash \in Nat /\ colon \in Nat
  BY LenProperties
<1>2. 0 \in Good
  <2>1. 0 \in 0..n /\ 0 < colon /\ ~(0 >= colon)
    BY <1>1
  <2>2. SubSeq(u, 1, 0) = <<>>
    BY SubSeqEmpty
  <2>3. UrlScan(u)[0] = [urlpart |-> "host", host |-> SubSeq(u, 1, 0), port |-> <<>>, path |-> <<"/">>]
    BY <2>2, UrlScanEquation DEF UrlStart
  <2>4. Scanned(u, 0, slash, colon, UrlScan(u)[0])
    BY <2>1, <2>3 DEF Scanned
  <2> QED
    BY <2>1, <2>4
<1>3. ASSUME NEW k \in 1..n, k - 1 \in Good PROVE k \in Good
  <2>1. k \in 0..n /\ k - 1 \in 0..n
    BY <1>1
  <2> DEFINE s == UrlScan(u)[k - 1]
  <2>2. s \in UrlStates(X) /\ UrlScan(u)[k] = UrlCell(u, k, s) /\ Scanned(u, k - 1, slash, colon, s)
    BY <1>3, <2>1, UrlScanEquation
  <2> HIDE DEF s
  <2>3. Scanned(u, k, slash, colon, UrlCell(u, k, s))
    BY <2>2, UrlCellScans
  <2> QED
    BY <2>1, <2>2, <2>3
<1>4. n \in 0..n
  BY <1>1
<1>5. \A k \in 0..n : k \in Good
  <2> HIDE DEF Good, n
  <2> QED
    BY <1>1, <1>2, <1>3, IterationInduction
<1> QED
  BY <1>4, <1>5

\* The parts of a URL, for all URLs.
LEMMA UrlParts ==
    ASSUME NEW X, "/" \in X, NEW u \in Seq(X)
    PROVE  LET parts == UrlLoop(u)
               slash == PositionOf("/", u)
               authority == SubSeq(u, 1, slash - 1)
               colon == PositionOf(":", authority)
               number == SubSeq(authority, colon + 1, Len(authority))
               valid == (colon > 1 \/ u = <<>>) /\ Range(number) \subseteq {"digit"}
           IN  /\ parts.error = "EOK" <=> valid
               /\ valid => /\ parts.host = SubSeq(authority, 1, colon - 1) /\ parts.port = number
                           /\ parts.path = <<"/">> \o SubSeq(u, slash + 1, Len(u))
<1> DEFINE n == Len(u)
           parts == UrlLoop(u)
           slash == PositionOf("/", u)
           authority == SubSeq(u, 1, slash - 1)
           colon == PositionOf(":", authority)
           number == SubSeq(authority, colon + 1, Len(authority))
           last == UrlScan(u)[n]
           e == PortEnd(n, slash)
<1>1. /\ n \in Nat /\ slash \in 1..(n + 1)
      /\ \A i \in 1..n : i < slash => u[i] # "/"
      /\ slash <= n => u[slash] = "/"
  BY LenProperties, FirstPosition
<1> HIDE DEF slash
<1>2. /\ authority \in Seq(X) /\ Len(authority) = slash - 1
      /\ \A i \in 1..(slash - 1) : authority[i] = u[i]
  <2>1. 1 \in 1..(n + 1) /\ slash - 1 \in (1 - 1)..n /\ (slash - 1) - 1 + 1 = slash - 1
    BY <1>1
  <2>2. \A i \in 1..(slash - 1) : 1 + i - 1 = i
    BY <1>1
  <2> QED
    BY <2>1, <2>2, PieceProperties
<1>3. /\ colon \in 1..(Len(authority) + 1)
      /\ \A i \in 1..Len(authority) : i < colon => authority[i] # ":"
      /\ colon <= Len(authority) => authority[colon] = ":"
  <2> HIDE DEF authority
  <2> QED
    BY <1>2, FirstPosition
<1> HIDE DEF colon
<1>4. /\ colon \in 1..slash /\ colon \in Nat /\ slash \in Nat
      /\ \A i \in 1..n : i < colon => u[i] # ":"
      /\ colon < slash => u[colon] = ":"
  <2> HIDE DEF authority
  <2>1. (slash - 1) + 1 = slash /\ slash \in Nat
    BY <1>1
  <2>2. colon \in 1..slash
    BY <1>2, <1>3, <2>1
  <2>3. ASSUME NEW i \in 1..n, i < colon PROVE u[i] # ":"
    <3>1. i \in 1..(slash - 1)
      BY <1>1, <2>2, <2>3
    <3> QED
      BY <1>2, <1>3, <2>3, <3>1
  <2>4. ASSUME colon < slash PROVE u[colon] = ":"
    <3>1. colon \in 1..(slash - 1) /\ colon <= slash - 1
      BY <1>1, <2>2, <2>4
    <3> QED
      BY <1>2, <1>3, <3>1
  <2> QED
    BY <2>1, <2>2, <2>3, <2>4
<1>5. Scanned(u, n, slash, colon, last)
  BY <1>1, <1>4, UrlScanned
<1>6. /\ parts.error = (IF last.urlpart = "error" THEN "EINVURL" ELSE "EOK")
      /\ parts.host = last.host /\ parts.port = last.port /\ parts.path = last.path
  BY ParseUrlIsScan
<1>7. number = SubSeq(u, colon + 1, slash - 1)
  <2>1. CASE colon < slash
    <3>1. /\ 1 \in 1..(Len(u) + 1) /\ slash - 1 \in (1 - 1)..Len(u)
          /\ colon \in 0..((slash - 1) - 1 + 1) /\ (slash - 1) - 1 + 1 = slash - 1
          /\ 1 + colon = colon + 1
      BY <1>1, <1>4, <2>1
    <3>2. SubSeq(SubSeq(u, 1, slash - 1), colon + 1, (slash - 1) - 1 + 1) = SubSeq(u, 1 + colon, slash - 1)
      BY <3>1, PieceOfPiece
    <3> QED
      BY <1>2, <3>1, <3>2
  <2>2. CASE ~(colon < slash)
    <3>1. slash - 1 < colon + 1 /\ slash - 1 \in Int /\ colon + 1 \in Int
      BY <1>4, <2>2
    <3>2. SubSeq(u, colon + 1, slash - 1) = <<>> /\ SubSeq(authority, colon + 1, slash - 1) = <<>>
      BY <3>1, SubSeqEmpty
    <3> QED
      BY <1>2, <3>2
  <2> QED
    BY <2>1, <2>2
<1>8. Range(number) \subseteq {"digit"} <=> Numeric(u, colon, slash - 1)
  <2>1. CASE colon < slash
    <3> DEFINE w == SubSeq(u, colon + 1, slash - 1)
               l == (slash - 1) - (colon + 1) + 1
    <3>1. colon + 1 \in 1..(Len(u) + 1) /\ slash - 1 \in ((colon + 1) - 1)..Len(u)
      BY <1>1, <1>4, <2>1
    <3>2. DOMAIN w = 1..l /\ \A k \in 1..l : w[k] = u[(colon + 1) + k - 1]
      BY <3>1, PieceProperties
    <3>3. \A k \in 1..l : (colon + 1) + k - 1 \in (colon + 1)..(slash - 1)
      BY <1>4
    <3>4. \A m \in (colon + 1)..(slash - 1) : m - colon \in 1..l /\ (colon + 1) + (m - colon) - 1 = m
      BY <1>4
    <3>5. Range(w) \subseteq {"digit"} <=> \A k \in 1..l : w[k] = "digit"
      <4> HIDE DEF w, l
      <4> QED
        BY <3>2 DEF Range
    <3> HIDE DEF w, l
    <3>6. (\A k \in 1..l : w[k] = "digit") <=> Numeric(u, colon, slash - 1)
      BY <3>2, <3>3, <3>4 DEF Numeric
    <3> QED
      BY <1>7, <3>5, <3>6 DEF w
  <2>2. CASE ~(colon < slash)
    <3>1. slash - 1 < colon + 1 /\ slash - 1 \in Int /\ colon + 1 \in Int
      BY <1>4, <2>2
    <3>2. number = <<>>
      BY <1>7, <3>1, SubSeqEmpty
    <3>3. Range(number) = {}
      <4>1. DOMAIN number = {}
        <5> HIDE DEF number
        <5> QED
          BY <3>2
      <4> HIDE DEF number
      <4> QED
        BY <4>1 DEF Range
    <3>4. Numeric(u, colon, slash - 1)
      BY <3>1 DEF Numeric
    <3> QED
      BY <3>3, <3>4
  <2> QED
    BY <2>1, <2>2
<1>9. SubSeq(authority, 1, colon - 1) = SubSeq(u, 1, colon - 1)
  <2> DEFINE v == SubSeq(authority, 1, colon - 1)
             w == SubSeq(u, 1, colon - 1)
             l == (colon - 1) - 1 + 1
  <2>1. /\ 1 \in 1..(Len(u) + 1) /\ colon - 1 \in (1 - 1)..Len(u)
        /\ 1 \in 1..(Len(authority) + 1) /\ colon - 1 \in (1 - 1)..Len(authority)
    BY <1>1, <1>2, <1>4
  <2>2. w \in Seq(X) /\ Len(w) = l /\ \A k \in 1..l : w[k] = u[1 + k - 1]
    BY <2>1, PieceProperties
  <2> HIDE DEF authority
  <2>3. v \in Seq(X) /\ Len(v) = l /\ \A k \in 1..l : v[k] = authority[1 + k - 1]
    BY <1>2, <2>1, PieceProperties
  <2>4. \A k \in 1..l : 1 + k - 1 \in 1..(slash - 1)
    BY <1>4
  <2> HIDE DEF v, w, l
  <2>5. \A k \in 1..l : v[k] = w[k]
    BY <1>2, <2>2, <2>3, <2>4
  <2>6. v = w
    BY <2>2, <2>3, <2>5, SeqEqual
  <2> QED
    BY <2>6 DEF v, w
<1>10. u = <<>> <=> n = 0
  BY EmptySeq
<1> DEFINE h == SubSeq(u, 1, colon - 1)
           p == SubSeq(u, colon + 1, slash - 1)
           r == <<"/">> \o SubSeq(u, slash + 1, n)
           valid == (colon > 1 \/ u = <<>>) /\ Numeric(u, colon, slash - 1)
<1>11. ASSUME ~(slash < n) PROVE r = <<"/">>
  <2>1. SubSeq(u, slash + 1, n) = <<>>
    <3>1. slash + 1 \in Int /\ n \in Int /\ n < slash + 1
      BY <1>1, <1>4, <1>11
    <3> QED
      BY <3>1, SubSeqEmpty
  <2>2. <<"/">> \in Seq(X)
    OBVIOUS
  <2> QED
    BY <2>1, <2>2, ConcatEmptySeq
<1>12. ASSUME valid PROVE last.urlpart # "error" /\ last.host = h /\ last.port = p /\ last.path = r
  <2>1. CASE n < colon
    <3>1. colon = n + 1 /\ slash = n + 1 /\ colon - 1 = n
      BY <1>1, <1>4, <2>1
    <3>2. last = [urlpart |-> "host", host |-> SubSeq(u, 1, n), port |-> <<>>, path |-> <<"/">>]
      BY <1>5, <2>1 DEF Scanned
    <3>3. p = <<>>
      <4>1. colon + 1 \in Int /\ slash - 1 \in Int /\ slash - 1 < colon + 1
        BY <1>1, <3>1
      <4> QED
        BY <4>1, SubSeqEmpty
    <3>4. r = <<"/">>
      BY <1>1, <1>11, <3>1
    <3>5. h = SubSeq(u, 1, n)
      BY <3>1
    <3> HIDE DEF h, p, r, last
    <3> QED
      BY <3>2, <3>3, <3>4, <3>5
  <2>2. CASE ~(n < colon)
    <3>1. n >= colon /\ colon > 1 /\ colon # 1 /\ e = slash - 1
      BY <1>1, <1>4, <1>10, <1>12, <2>2 DEF PortEnd
    <3>2. last = [urlpart |-> IF n < slash THEN "port" ELSE IF n = slash THEN "path" ELSE "end",
                  host |-> h, port |-> p, path |-> IF n <= slash THEN <<"/">> ELSE r]
      BY <1>5, <1>12, <3>1 DEF Scanned
    <3>3. n <= slash <=> ~(slash < n)
      BY <1>1, <1>4
    <3> HIDE DEF h, p, r, last, valid
    <3> QED
      BY <1>11, <3>2, <3>3
  <2> QED
    BY <2>1, <2>2
<1>13. ASSUME ~valid PROVE last.urlpart = "error"
  <2>1. n >= colon /\ (colon = 1 \/ ~Numeric(u, colon, e))
    <3>1. CASE n < colon
      <4>1. colon = n + 1 /\ slash = n + 1
        BY <1>1, <1>4, <3>1
      <4>2. Numeric(u, colon, slash - 1)
        BY <1>1, <4>1 DEF Numeric
      <4>3. colon > 1 \/ n = 0
        BY <1>1, <4>1
      <4> QED
        BY <1>10, <1>13, <4>2, <4>3
    <3>2. CASE ~(n < colon)
      <4>1. n >= colon /\ e = slash - 1 /\ (colon > 1 \/ colon = 1)
        BY <1>1, <1>4, <3>2 DEF PortEnd
      <4> QED
        BY <1>13, <4>1
    <3> QED
      BY <3>1, <3>2
  <2> QED
    BY <1>5, <2>1 DEF Scanned
<1> HIDE DEF parts, last, h, p, r
<1>14. /\ parts.error = "EOK" <=> valid
       /\ valid => parts.host = h /\ parts.port = p /\ parts.path = r
  BY <1>6, <1>12, <1>13
<1> QED
  BY <1>7, <1>8, <1>9, <1>14 DEF slash, authority, colon, number, valid, parts, h, p, r, n

\* The URL is one of those given, and what is known of it is what http_parseurl returns.
UrlInv ==
    /\ pc \in {"url", "resolve", "exited"} => url \in Urls
    /\ pc \in {"resolve", "exited"} =>
          LET parts == http_parseurl(url) IN
          /\ host = parts.host /\ port = parts.port /\ path = parts.path
          /\ pc = "resolve" <=> parts.error = "EOK"

\* Nothing but ParseUrl takes the URL apart, and it is not looked at after Resolve.
LEMMA NextUrl == ASSUME RecvInv, UrlInv, [Next]_vars PROVE UrlInv'
<1>1. CASE ParseUrl
  <2>1. /\ pc = "url" /\ url' = url /\ pc' \in {"resolve", "exited"}
        /\ host' = http_parseurl(url).host /\ port' = http_parseurl(url).port
        /\ path' = http_parseurl(url).path
        /\ pc' = "resolve" <=> http_parseurl(url).error = "EOK"
    BY <1>1 DEF ParseUrl
  <2>2. url \in Urls
    BY <2>1 DEF UrlInv
  <2> QED
    BY <2>1, <2>2 DEF UrlInv
<1>2. ASSUME pc' \notin {"url", "resolve", "exited"} PROVE UrlInv'
  BY <1>2 DEF UrlInv
<1>3. CASE Resolve
  BY <1>2, <1>3 DEF Resolve
<1>4. CASE ConnectFails
  BY <1>2, <1>4 DEF ConnectFails
<1>5. CASE SendFails
  BY <1>2, <1>5 DEF SendFails
<1>6. CASE Send
  BY <1>2, <1>6 DEF Send
<1>7. CASE RecvHeader
  BY <1>2, <1>7, RecvHeaderKeeps
<1>8. CASE RecvNothing
  BY <1>2, <1>8, RecvNothingKeeps
<1>9. CASE RecvFails
  BY <1>2, <1>9 DEF RecvFails, Fail
<1>10. CASE RecvBody
  BY <1>2, <1>10 DEF RecvBody
<1>11. CASE RecvEnd
  BY <1>2, <1>11 DEF RecvEnd
<1>12. CASE main_request_config
  BY <1>2, <1>12 DEF main_request_config
<1>13. CASE UNCHANGED vars
  BY <1>13 DEF vars, urlVars, UrlInv
<1> QED
  BY <1>1, <1>3, <1>4, <1>5, <1>6, <1>7, <1>8, <1>9, <1>10, <1>11, <1>12, <1>13 DEF Next

\* http_parseurl splits every URL at the first slash and the first colon before it, and
\* accepts exactly the URLs of http:// with a host (or nothing at all) and a numeric port.
THEOREM UrlIsTakenApart == Spec => []UrlTakenApart
<1>1. UrlInv => UrlTakenApart
  <2> SUFFICES ASSUME UrlInv, pc \in {"resolve", "exited"} PROVE UrlTakenApart
    BY DEF UrlTakenApart
  <2> DEFINE u == url.rest
             X == Range(u) \cup {"/"}
  <2>1. u \in Seq(Range(u)) /\ url.http \in BOOLEAN
    BY UrlsAssumption DEF UrlInv
  <2>2. "/" \in X /\ Range(u) \subseteq X
    OBVIOUS
  <2> HIDE DEF X
  <2>3. u \in Seq(X)
    BY <2>1, <2>2, SeqMonotonic
  <2>4. CASE url.http
    <3>1. http_parseurl(url) = UrlLoop(u)
      BY <2>4 DEF http_parseurl
    <3> HIDE DEF u
    <3> QED
      BY <2>2, <2>3, <2>4, <3>1, UrlParts DEF UrlInv, UrlTakenApart, u
  <2>5. CASE ~ url.http
    <3>1. pc # "resolve"
      BY <2>5 DEF UrlInv, http_parseurl
    <3> QED
      BY <2>5, <3>1 DEF UrlTakenApart
  <2> QED
    BY <2>4, <2>5
<1>2. Init => UrlInv
  BY DEF Init, UrlInv
<1> QED
  BY <1>1, <1>2, InitRecv, NextRecv, NextUrl, PTL DEF Spec

=============================================================================
