------------------------------ MODULE BackupProofs ------------------------------
(***************************************************************************)
(* What is in $base.old and in $base/hosts, for any names of host files,   *)
(* any sizes of the string buffers and of the buffer of fs_cp_file, and    *)
(* any number of configurations and of failing system calls: a backup that *)
(* reports success is complete, and no host file of an earlier             *)
(* configuration survives, unless a call has failed.                       *)
(*                                                                         *)
(* The first parts are about the string buffers (a buffer Holds a text)    *)
(* and about what the kernel makes of a text (a text Denotes a directory); *)
(* the inductive invariant IInv relates the two to the working directory   *)
(* and to the calls of handledir.                                          *)
(***************************************************************************)
EXTENDS Backup, SequenceTheorems, WellFoundedInduction, TLAPS

-----------------------------------------------------------------------------
(* Least numbers; sequences and their pieces.                                *)

\* A non-empty set of natural numbers has a least element, which Min picks.
LEMMA MinNat ==
    ASSUME NEW S \in SUBSET Nat, S # {}
    PROVE  Min(S) \in S /\ \A y \in S : Min(S) <= y
<1>1. PICK x \in S : \A y \in S : ~(<<y, x>> \in OpToRel(<, Nat))
  BY WFMin, NatLessThanWellFounded
<1>2. OpToRel(<, Nat) = {ss \in Nat \X Nat : ss[1] < ss[2]}
  BY DEF OpToRel
<1>3. ASSUME NEW y \in S PROVE x <= y
  <2>1. y < x => <<y, x>> \in {ss \in Nat \X Nat : ss[1] < ss[2]}
    OBVIOUS
  <2>2. ~(y < x)
    BY <1>1, <1>2, <2>1
  <2> QED
    BY <2>2
<1> QED
  BY <1>3 DEF Min

\* A concatenation, element by element.
LEMMA AppendElements ==
    ASSUME NEW S, NEW a \in Seq(S), NEW b \in Seq(S)
    PROVE  /\ a \o b \in Seq(S) /\ Len(a \o b) = Len(a) + Len(b)
           /\ Len(a) \in Nat /\ Len(b) \in Nat
           /\ DOMAIN a = 1..Len(a) /\ DOMAIN b = 1..Len(b)
           /\ DOMAIN (a \o b) = 1..(Len(a) + Len(b))
           /\ \A i \in 1..(Len(a) + Len(b)) :
                 (a \o b)[i] = IF i <= Len(a) THEN a[i] ELSE b[i - Len(a)]
<1>1. a \o b \in Seq(S) /\ Len(a \o b) = Len(a) + Len(b)
  BY ConcatProperties
<1>2. /\ Len(a) \in Nat /\ Len(b) \in Nat
      /\ DOMAIN a = 1..Len(a) /\ DOMAIN b = 1..Len(b)
  BY LenProperties
<1>3. DOMAIN (a \o b) = 1..Len(a \o b)
  BY <1>1, LenProperties
<1> QED
  BY <1>1, <1>2, <1>3, ConcatProperties

\* A piece of a sequence, which may be empty.
LEMMA PieceProperties ==
    ASSUME NEW S, NEW s \in Seq(S), NEW i \in 1..(Len(s) + 1), NEW j \in (i - 1)..Len(s)
    PROVE  /\ SubSeq(s, i, j) \in Seq(S) /\ Len(SubSeq(s, i, j)) = j - i + 1
           /\ DOMAIN SubSeq(s, i, j) = 1..(j - i + 1)
           /\ \A k \in 1..(j - i + 1) : SubSeq(s, i, j)[k] = s[i + k - 1]
<1>1. Len(s) \in Nat
  BY LenProperties
<1>2. i \in Int /\ j \in Int /\ i <= j + 1
  BY <1>1
<1>3. \A k \in i..j : s[k] \in S
  BY <1>1, ElementOfSeq
<1>4. /\ SubSeq(s, i, j) \in Seq(S) /\ Len(SubSeq(s, i, j)) = IF i <= j THEN j - i + 1 ELSE 0
      /\ \A k \in 1..(j - i + 1) : SubSeq(s, i, j)[k] = s[i + k - 1]
  BY <1>2, <1>3, SubSeqProperties
<1>5. Len(SubSeq(s, i, j)) = j - i + 1
  BY <1>2, <1>4
<1> QED
  BY <1>4, <1>5, LenProperties

\* A sequence of length one.
LEMMA SeqOfOne ==
    ASSUME NEW S, NEW s \in Seq(S), Len(s) = 1
    PROVE  s = <<s[1]>>
<1>1. s[1] \in S
  BY ElementOfSeq
<1> DEFINE e == s[1]
<1>2. <<e>> \in Seq(S) /\ Len(<<e>>) = 1 /\ <<e>>[1] = e
  BY <1>1
<1> DEFINE t == <<e>>
<1>3. t \in Seq(S) /\ Len(s) = Len(t) /\ \A i \in 1..Len(s) : s[i] = t[i]
  BY <1>2
<1> HIDE DEF t
<1>4. s = t
  BY <1>3, SeqEqual
<1> QED
  BY <1>4 DEF t

\* A sequence of length two.
LEMMA SeqOfTwo ==
    ASSUME NEW S, NEW s \in Seq(S), Len(s) = 2
    PROVE  s = <<s[1], s[2]>>
<1>1. s[1] \in S /\ s[2] \in S
  BY ElementOfSeq
<1> DEFINE e == s[1]
           f == s[2]
           t == <<e, f>>
<1>2. t \in Seq(S) /\ Len(t) = 2 /\ t[1] = e /\ t[2] = f
  BY <1>1
<1>3. t \in Seq(S) /\ Len(s) = Len(t) /\ \A i \in 1..Len(s) : s[i] = t[i]
  BY <1>2
<1> HIDE DEF t
<1>4. s = t
  BY <1>3, SeqEqual
<1> QED
  BY <1>4 DEF t

-----------------------------------------------------------------------------
(* A loop that computes a value in n steps: T[k] is what step k makes of the *)
(* value before.  The provers cannot use the library's theorems about        *)
(* recursive functions, which have operators as parameters; least            *)
(* counterexamples take the place of induction.                              *)

IsIteration(f, n, S, first, T) ==
    f \in [0..n -> S] /\ f[0] = first /\ \A k \in 1..n : f[k] = T[k][f[k - 1]]

\* The values exist.
LEMMA IterationExists ==
    \A n \in Nat : \A S, first, T :
        first \in S /\ T \in [1..n -> [S -> S]] => \E f : IsIteration(f, n, S, first, T)
<1> SUFFICES ASSUME NEW n \in Nat, NEW S, NEW first \in S, NEW T \in [1..n -> [S -> S]]
             PROVE  \E f : IsIteration(f, n, S, first, T)
  OBVIOUS
<1> DEFINE Ok(k, f) == f[0] = first /\ \A j \in 1..k : f[j] = T[j][f[j - 1]]
           B == {k \in 0..n : ~\E f \in [0..k -> S] : Ok(k, f)}
<1>1. B = {}
  <2> SUFFICES ASSUME B # {} PROVE FALSE
    OBVIOUS
  <2> DEFINE k == Min(B)
  <2>1. k \in B /\ \A y \in B : k <= y
    <3>1. B \in SUBSET Nat
      OBVIOUS
    <3> HIDE DEF B
    <3> QED
      BY <3>1, MinNat
  <2> HIDE DEF k
  <2>2. k \in 0..n /\ ~\E f \in [0..k -> S] : Ok(k, f)
    BY <2>1
  <2>3. CASE k = 0
    <3> DEFINE f == [j \in 0..0 |-> first]
    <3>1. f \in [0..0 -> S] /\ Ok(0, f)
      OBVIOUS
    <3> QED
      BY <2>2, <2>3, <3>1
  <2>4. CASE k # 0
    <3>1. k - 1 \in 0..n /\ ~(k <= k - 1)
      BY <2>2, <2>4
    <3>2. k - 1 \notin B
      BY <2>1, <3>1
    <3>3. PICK f \in [0..(k - 1) -> S] : Ok(k - 1, f)
      BY <3>1, <3>2
    <3> DEFINE g == [j \in 0..k |-> IF j = k THEN T[k][f[k - 1]] ELSE f[j]]
    <3>4. k \in 1..n /\ k - 1 \in 0..(k - 1) /\ T[k] \in [S -> S] /\ f[k - 1] \in S
      BY <2>2, <2>4
    <3>5. g \in [0..k -> S]
      BY <3>4
    <3>6. g[0] = first
      BY <3>3, <3>4
    <3>7. ASSUME NEW j \in 1..k PROVE g[j] = T[j][g[j - 1]]
      <4>1. j \in 0..k /\ j - 1 \in 0..k /\ j - 1 # k
        BY <3>4
      <4>2. CASE j = k
        BY <4>1, <4>2
      <4>3. CASE j # k
        <5>1. j \in 1..(k - 1)
          BY <3>4, <4>3
        <5> QED
          BY <3>3, <4>1, <4>3, <5>1
      <4> QED
        BY <4>2, <4>3
    <3>8. Ok(k, g)
      BY <3>6, <3>7
    <3> HIDE DEF g
    <3> QED
      BY <2>2, <3>5, <3>8
  <2> QED
    BY <2>3, <2>4
<1>2. n \notin B /\ n \in 0..n
  BY <1>1
<1>3. PICK f \in [0..n -> S] : Ok(n, f)
  BY <1>2
<1>4. IsIteration(f, n, S, first, T)
  BY <1>3 DEF IsIteration
<1> QED
  BY <1>4

\* What holds of the first value and is kept by each step holds of all of them.
LEMMA IterationInduction ==
    ASSUME NEW n \in Nat, NEW Good, 0 \in Good, \A k \in 1..n : k - 1 \in Good => k \in Good
    PROVE  \A k \in 0..n : k \in Good
<1> DEFINE B == {k \in 0..n : k \notin Good}
<1>1. B = {}
  <2> SUFFICES ASSUME B # {} PROVE FALSE
    OBVIOUS
  <2> DEFINE k == Min(B)
  <2>1. k \in B /\ \A y \in B : k <= y
    <3>1. B \in SUBSET Nat
      OBVIOUS
    <3> HIDE DEF B
    <3> QED
      BY <3>1, MinNat
  <2> HIDE DEF k
  <2>2. k \in 1..n /\ k - 1 \in 0..n /\ ~(k <= k - 1) /\ k \notin Good
    BY <2>1
  <2> QED
    BY <2>1, <2>2
<1> QED
  BY <1>1

-----------------------------------------------------------------------------
(* String buffers.                                                           *)

Text == Seq(Cell \ {NUL})

\* The content of a buffer is a text.
Holds(b, t) ==
    /\ b = [s |-> b.s, length |-> Len(t)] /\ b.s \in Seq(Cell) /\ t \in Text
    /\ Len(t) <= Len(b.s) /\ \A i \in 1..Len(t) : b.s[i] = t[i]

\* It is, and there is a NUL behind it.
HoldsZ(b, t) == Holds(b, t) /\ Len(t) < Len(b.s) /\ b.s[Len(t) + 1] = NUL

\* A block of NULs is a block.
LEMMA ZerosType == ASSUME NEW n \in Nat PROVE Zeros(n) \in Seq(Cell) /\ Len(Zeros(n)) = n
<1>1. Zeros(n) \in [1..n -> Cell]
  BY StringBufAssumption DEF Zeros
<1> QED
  BY <1>1, SeqDef, LenProperties

\* A new buffer is empty.
LEMMA InitHolds == ASSUME NEW n \in Nat PROVE Holds(string_init(n), <<>>)
<1>1. <<>> \in Text /\ Len(<<>>) = 0
  BY EmptySeq DEF Text
<1> QED
  BY <1>1, ZerosType DEF Holds, string_init

\* The block grows by enough.
LEMMA GrownHasRoom ==
    ASSUME NEW b, NEW t, Holds(b, t), NEW len \in Nat
    PROVE  /\ Grown(b, len) \in Seq(Cell) /\ Len(t) + len <= Len(Grown(b, len))
           /\ \A i \in 1..Len(t) : Grown(b, len)[i] = b.s[i]
<1>1. b.s \in Seq(Cell) /\ Len(b.s) \in Nat /\ Len(t) \in Nat /\ Len(t) <= Len(b.s) /\ b.length = Len(t)
  BY LenProperties DEF Holds, Text
<1>2. GrowBy \in Nat \ {0}
  BY StringBufAssumption
<1>3. CASE len > Len(b.s) - b.length
  <2> DEFINE enough == {k \in 1..len : Len(b.s) + k * GrowBy - b.length >= len}
             g == CHOOSE k \in enough : \A j \in enough : k <= j
  <2>1. len \in enough
    <3>1. len * GrowBy >= len
      BY <1>2
    <3>2. len \in 1..len
      BY <1>1, <1>3
    <3> DEFINE m == len * GrowBy
    <3>3. m \in Nat
      BY <1>2
    <3>4. m >= len
      BY <3>1
    <3> HIDE DEF m
    <3>5. Len(b.s) + m - b.length >= len
      BY <1>1, <3>3, <3>4
    <3> QED
      BY <3>2, <3>5 DEF m
  <2>2. enough \in SUBSET Nat /\ enough # {}
    BY <2>1
  <2>3. \E k \in enough : \A j \in enough : k <= j
    <3> HIDE DEF enough
    <3> QED
      BY <2>2, MinNat
  <2>4. g \in enough
    <3> HIDE DEF enough
    <3> QED
      BY <2>3
  <2> DEFINE n == GrowBy * g
             m == g * GrowBy
  <2>5. g \in Nat /\ Len(b.s) + m - b.length >= len
    BY <2>4
  <2> HIDE DEF g
  <2>6. n \in Nat /\ n = m
    BY <1>2, <2>5
  <2>7. Growth(b, len) = n
    BY DEF Growth, n, g
  <2> HIDE DEF n, m
  <2>8. Zeros(n) \in Seq(Cell) /\ Len(Zeros(n)) = n
    BY <2>6, ZerosType
  <2> DEFINE z == Zeros(n)
  <2> HIDE DEF z
  <2>9. /\ b.s \o z \in Seq(Cell) /\ Len(b.s \o z) = Len(b.s) + n
        /\ \A i \in 1..(Len(b.s) + n) : (b.s \o z)[i] = IF i <= Len(b.s) THEN b.s[i] ELSE z[i - Len(b.s)]
    <3> DEFINE x == b.s
    <3>1. x \in Seq(Cell) /\ z \in Seq(Cell) /\ Len(z) = n
      BY <1>1, <2>8 DEF z
    <3> HIDE DEF x
    <3>2. /\ x \o z \in Seq(Cell) /\ Len(x \o z) = Len(x) + Len(z)
          /\ \A i \in 1..(Len(x) + Len(z)) : (x \o z)[i] = IF i <= Len(x) THEN x[i] ELSE z[i - Len(x)]
      BY <3>1, AppendElements, Zenon
    <3> QED
      BY <3>1, <3>2 DEF x
  <2>10. Grown(b, len) = b.s \o z
    BY <1>3, <2>7 DEF Grown, z
  <2> DEFINE G == Grown(b, len)
  <2>11. Len(t) + len <= Len(G)
    BY <1>1, <2>5, <2>6, <2>9, <2>10
  <2>12. ASSUME NEW i \in 1..Len(t) PROVE G[i] = b.s[i]
    <3>1. i \in 1..(Len(b.s) + n) /\ i <= Len(b.s)
      BY <1>1, <2>6
    <3> QED
      BY <2>9, <2>10, <3>1
  <2> QED
    BY <2>9, <2>10, <2>11, <2>12
<1>4. CASE ~(len > Len(b.s) - b.length)
  BY <1>1, <1>4 DEF Grown
<1> QED
  BY <1>3, <1>4

\* What string_concatb does: the cells are put behind the content.
LEMMA ConcatB ==
    ASSUME NEW b, NEW t, Holds(b, t), NEW c \in Seq(Cell), NEW d, d = string_concatb(b, c)
    PROVE  /\ d = [s |-> d.s, length |-> Len(t) + Len(c)] /\ d.s \in Seq(Cell)
           /\ Len(t) + Len(c) <= Len(d.s) /\ Len(d.s) \in Nat
           /\ \A i \in 1..Len(t) : d.s[i] = t[i]
           /\ \A i \in 1..Len(c) : d.s[Len(t) + i] = c[i]
<1> DEFINE G == Grown(b, Len(c))
           n == Len(G)
           e == [i \in 1..n |-> IF i \in b.length + 1 .. b.length + Len(c) THEN c[i - b.length] ELSE G[i]]
<1>1. b.s \in Seq(Cell) /\ Len(t) \in Nat /\ b.length = Len(t) /\ Len(c) \in Nat
      /\ \A i \in 1..Len(t) : b.s[i] = t[i]
  BY LenProperties DEF Holds, Text
<1>2. G \in Seq(Cell) /\ Len(t) + Len(c) <= n /\ \A i \in 1..Len(t) : G[i] = b.s[i]
  BY <1>1, GrownHasRoom
<1>3. n \in Nat /\ \A i \in 1..n : G[i] \in Cell
  BY <1>2, LenProperties, ElementOfSeq
<1>4. \A i \in 1..Len(c) : c[i] \in Cell
  BY ElementOfSeq
<1> HIDE DEF G, n
<1>5. ASSUME NEW i \in 1..n PROVE e[i] \in Cell
  <2>1. CASE i \in b.length + 1 .. b.length + Len(c)
    <3>1. i - b.length \in 1..Len(c)
      BY <1>1, <2>1
    <3> QED
      BY <1>4, <2>1, <3>1
  <2>2. CASE i \notin b.length + 1 .. b.length + Len(c)
    BY <1>3, <2>2
  <2> QED
    BY <2>1, <2>2
<1>6. e \in Seq(Cell) /\ Len(e) = n
  <2>0. \A i \in 1..n : e[i] \in Cell
    BY <1>5
  <2>1. e \in [1..n -> Cell]
    <3>1. e = [i \in 1..n |-> e[i]]
      OBVIOUS
    <3> HIDE DEF e
    <3> QED
      BY <2>0, <3>1
  <2> HIDE DEF e
  <2> QED
    BY <1>3, <2>1, SeqDef, LenProperties
<1>7. ASSUME NEW i \in 1..Len(t) PROVE e[i] = t[i]
  <2>1. i \in 1..n /\ i \notin b.length + 1 .. b.length + Len(c)
    BY <1>1, <1>2, <1>3
  <2> QED
    BY <1>1, <1>2, <2>1
<1>8. ASSUME NEW i \in 1..Len(c) PROVE e[Len(t) + i] = c[i]
  <2>1. /\ Len(t) + i \in 1..n /\ Len(t) + i \in b.length + 1 .. b.length + Len(c)
        /\ (Len(t) + i) - b.length = i
    BY <1>1, <1>2, <1>3
  <2> QED
    BY <2>1
<1>9. string_concatb(b, c) = [s |-> e, length |-> Len(t) + Len(c)]
  BY <1>1 DEF string_concatb, G, n
<1> HIDE DEF e
<1> QED
  BY <1>1, <1>2, <1>3, <1>6, <1>7, <1>8, <1>9

\* A text behind a text.
LEMMA TextAppended ==
    ASSUME NEW t \in Text, NEW c \in Text
    PROVE  /\ t \o c \in Text /\ Len(t \o c) = Len(t) + Len(c) /\ Len(t) \in Nat /\ Len(c) \in Nat
           /\ \A i \in 1..(Len(t) + Len(c)) : (t \o c)[i] = IF i <= Len(t) THEN t[i] ELSE c[i - Len(t)]
BY AppendElements DEF Text

\* One cell behind a text.
LEMMA TextGrows ==
    ASSUME NEW t \in Text, NEW c \in Cell \ {NUL}
    PROVE  /\ <<c>> \in Text /\ Append(t, c) \in Text /\ Append(t, c) = t \o <<c>>
           /\ Len(Append(t, c)) = Len(t) + 1 /\ Len(t) \in Nat
           /\ \A i \in 1..Len(t) : Append(t, c)[i] = t[i]
           /\ Append(t, c)[Len(t) + 1] = c
<1>1. <<c>> \in Text /\ t \in Seq(Cell \ {NUL}) /\ Len(t) \in Nat
  BY LenProperties DEF Text
<1>2. Append(t, c) = t \o <<c>>
  BY <1>1, AppendIsConcat
<1> QED
  BY <1>1, <1>2, AppendProperties DEF Text

\* string_concat puts a text and a NUL behind the content.
LEMMA ConcatHolds ==
    ASSUME NEW b, NEW t, Holds(b, t), NEW c \in Text
    PROVE  HoldsZ(string_concat(b, c), t \o c)
<1> DEFINE z == c \o <<NUL>>
           d == string_concatb(b, z)
           u == t \o c
<1>1. t \in Text
  BY DEF Holds
<1>2. /\ z \in Seq(Cell) /\ Len(z) = Len(c) + 1 /\ Len(c) \in Nat
      /\ (\A i \in 1..Len(c) : z[i] = c[i]) /\ z[Len(c) + 1] = NUL
  <2>1. c \in Seq(Cell) /\ NUL \in Cell
    <3>1. Cell \ {NUL} \subseteq Cell
      OBVIOUS
    <3> QED
      BY <3>1, StringBufAssumption, SeqMonotonic DEF Text
  <2>2. z = Append(c, NUL)
    BY <2>1, AppendIsConcat
  <2> HIDE DEF z
  <2> QED
    BY <2>1, <2>2, AppendProperties, LenProperties
<1>3. /\ u \in Text /\ Len(u) = Len(t) + Len(c) /\ Len(t) \in Nat
      /\ \A i \in 1..(Len(t) + Len(c)) : u[i] = IF i <= Len(t) THEN t[i] ELSE c[i - Len(t)]
  BY <1>1, TextAppended
<1> HIDE DEF z, u
<1>4. /\ d = [s |-> d.s, length |-> Len(t) + Len(z)] /\ d.s \in Seq(Cell)
      /\ Len(t) + Len(z) <= Len(d.s) /\ Len(d.s) \in Nat
      /\ \A i \in 1..Len(t) : d.s[i] = t[i]
      /\ \A i \in 1..Len(z) : d.s[Len(t) + i] = z[i]
  <2> DEFINE x == z
  <2>1. x \in Seq(Cell) /\ d = string_concatb(b, x)
    BY <1>2
  <2> HIDE DEF d, x
  <2> QED
    BY <2>1, ConcatB DEF x
<1> DEFINE e == d.s
<1>5. string_concat(b, c) = [s |-> e, length |-> Len(u)]
  <2>1. string_concat(b, c) = [d EXCEPT !.length = @ - 1]
    BY DEF string_concat, d, z
  <2> HIDE DEF d
  <2>2. [d EXCEPT !.length = @ - 1] = [s |-> e, length |-> (Len(t) + Len(z)) - 1]
    BY <1>4
  <2>3. (Len(t) + Len(z)) - 1 = Len(u)
    BY <1>2, <1>3
  <2> QED
    BY <2>1, <2>2, <2>3
<1>6. /\ e \in Seq(Cell) /\ Len(e) \in Nat /\ Len(u) < Len(e)
  BY <1>2, <1>3, <1>4
<1>7. ASSUME NEW i \in 1..Len(u) PROVE e[i] = u[i]
  <2>1. CASE i <= Len(t)
    <3>1. i \in 1..Len(t) /\ i \in 1..(Len(t) + Len(c))
      BY <1>2, <1>3, <2>1
    <3> QED
      BY <1>3, <1>4, <2>1, <3>1
  <2>2. CASE ~(i <= Len(t))
    <3> DEFINE j == i - Len(t)
    <3>1. j \in 1..Len(c) /\ j \in 1..Len(z) /\ Len(t) + j = i /\ i \in 1..(Len(t) + Len(c))
      BY <1>2, <1>3, <2>2
    <3>2. u[i] = c[j]
      BY <1>3, <2>2, <3>1
    <3> HIDE DEF j
    <3> QED
      BY <1>2, <1>4, <3>1, <3>2
  <2> QED
    BY <2>1, <2>2
<1>8. e[Len(u) + 1] = NUL
  <2>1. Len(c) + 1 \in 1..Len(z) /\ Len(t) + (Len(c) + 1) = Len(u) + 1
    BY <1>2, <1>3
  <2> QED
    BY <1>2, <1>4, <2>1
<1>9. string_concat(b, c).s = e /\ Len(u) <= Len(e)
  BY <1>3, <1>5, <1>6
<1> HIDE DEF e, d
<1>10. HoldsZ(string_concat(b, c), u)
  BY <1>3, <1>5, <1>6, <1>7, <1>8, <1>9 DEF HoldsZ, Holds
<1> QED
  BY <1>10 DEF u

\* string_putc puts one cell behind it.
LEMMA PutcHolds ==
    ASSUME NEW b, NEW t, Holds(b, t), NEW c \in Cell \ {NUL}
    PROVE  Holds(string_putc(b, c), Append(t, c))
<1> DEFINE one == <<c>>
           u == Append(t, c)
           d == string_concatb(b, one)
           e == d.s
<1>1. t \in Text
  BY DEF Holds
<1>2. /\ u \in Text /\ Len(u) = Len(t) + 1 /\ Len(t) \in Nat
      /\ (\A i \in 1..Len(t) : u[i] = t[i]) /\ u[Len(t) + 1] = c
  BY <1>1, TextGrows
<1>3. one \in Seq(Cell) /\ Len(one) = 1 /\ one[1] = c
  OBVIOUS
<1> HIDE DEF u, one
<1>4. /\ d = [s |-> d.s, length |-> Len(t) + Len(one)] /\ d.s \in Seq(Cell)
      /\ Len(t) + Len(one) <= Len(d.s) /\ Len(d.s) \in Nat
      /\ \A i \in 1..Len(t) : d.s[i] = t[i]
      /\ \A i \in 1..Len(one) : d.s[Len(t) + i] = one[i]
  <2>1. d = string_concatb(b, one) /\ one \in Seq(Cell)
    BY <1>3
  <2> HIDE DEF d
  <2> QED
    BY <2>1, ConcatB
<1> HIDE DEF d
<1>5. d = [s |-> d.s, length |-> Len(u)] /\ Len(u) <= Len(d.s)
  BY <1>2, <1>3, <1>4
<1>6. d.s[Len(t) + 1] = c
  <2>1. 1 \in 1..Len(one)
    BY <1>3
  <2> QED
    BY <1>3, <1>4, <2>1
<1>7. ASSUME NEW i \in 1..Len(u) PROVE d.s[i] = u[i]
  <2>1. i \in 1..Len(t) \/ i = Len(t) + 1
    BY <1>2
  <2> QED
    BY <1>2, <1>4, <1>6, <2>1
<1>8. Holds(d, u)
  BY <1>2, <1>4, <1>5, <1>7 DEF Holds
<1> QED
  BY <1>8 DEF string_putc, d, u, one

\* string_ensurez puts a NUL behind it.
LEMMA EnsurezHolds ==
    ASSUME NEW b, NEW t, Holds(b, t)
    PROVE  HoldsZ(string_ensurez(b), t)
<1> DEFINE one == <<NUL>>
           d == string_concatb(b, one)
<1>1. /\ t \in Text /\ Len(t) \in Nat /\ b.length = Len(t) /\ \A i \in 1..Len(t) : b.s[i] = t[i]
  BY LenProperties DEF Holds, Text
<1>2. one \in Seq(Cell) /\ Len(one) = 1 /\ one[1] = NUL
  BY StringBufAssumption
<1> HIDE DEF one
<1>3. ~(b.length > 0 /\ b.s[b.length] = NUL)
  <2>1. \A i \in 1..Len(t) : t[i] # NUL
    BY <1>1, ElementOfSeq DEF Text
  <2> QED
    BY <1>1, <2>1
<1>4. /\ d = [s |-> d.s, length |-> Len(t) + Len(one)] /\ d.s \in Seq(Cell)
      /\ Len(t) + Len(one) <= Len(d.s) /\ Len(d.s) \in Nat
      /\ \A i \in 1..Len(t) : d.s[i] = t[i]
      /\ \A i \in 1..Len(one) : d.s[Len(t) + i] = one[i]
  <2>1. d = string_concatb(b, one) /\ one \in Seq(Cell)
    BY <1>2
  <2> HIDE DEF d
  <2> QED
    BY <2>1, ConcatB
<1>5. string_ensurez(b) = [d EXCEPT !.length = @ - 1]
  BY <1>3 DEF string_ensurez, string_putc, one
<1> HIDE DEF d
<1>6. [d EXCEPT !.length = @ - 1] = [s |-> d.s, length |-> Len(t)]
  <2>1. (Len(t) + Len(one)) - 1 = Len(t)
    BY <1>1, <1>2
  <2>2. [d EXCEPT !.length = @ - 1] = [s |-> d.s, length |-> (Len(t) + Len(one)) - 1]
    BY <1>4
  <2> QED
    BY <2>1, <2>2
<1>7. d.s[Len(t) + 1] = NUL
  <2>1. 1 \in 1..Len(one)
    BY <1>2
  <2> QED
    BY <1>2, <1>4, <2>1
<1>8. Len(t) < Len(d.s) /\ Len(t) <= Len(d.s)
  BY <1>1, <1>2, <1>4
<1> QED
  BY <1>1, <1>4, <1>5, <1>6, <1>7, <1>8 DEF HoldsZ, Holds

\* The kernel sees the content.
LEMMA KernelSees ==
    ASSUME NEW b, NEW t, HoldsZ(b, t)
    PROVE  CString(b) = t
<1> DEFINE E(i) == b.s[i] = NUL /\ \A j \in 1..(i - 1) : b.s[j] # NUL
           end == CHOOSE i \in 1..Len(b.s) : E(i)
           n == Len(t)
<1>1. /\ t \in Text /\ n \in Nat /\ b.s \in Seq(Cell) /\ Len(b.s) \in Nat
      /\ n < Len(b.s) /\ b.s[n + 1] = NUL /\ \A i \in 1..n : b.s[i] = t[i]
  BY LenProperties DEF HoldsZ, Holds, Text
<1>2. \A i \in 1..n : b.s[i] # NUL
  BY <1>1, ElementOfSeq DEF Text
<1>3. n + 1 \in 1..Len(b.s) /\ E(n + 1)
  BY <1>1, <1>2
<1>4. end \in 1..Len(b.s) /\ E(end)
  BY <1>3
<1> HIDE DEF end
<1>5. end = n + 1
  <2>1. ~(end < n + 1)
    <3> SUFFICES ASSUME end < n + 1 PROVE FALSE
      OBVIOUS
    <3>1. end \in 1..n
      BY <1>1, <1>4
    <3> QED
      BY <1>2, <1>4, <3>1
  <2>2. ~(end > n + 1)
    <3> SUFFICES ASSUME end > n + 1 PROVE FALSE
      OBVIOUS
    <3>1. n + 1 \in 1..(end - 1)
      BY <1>1, <1>4
    <3> QED
      BY <1>1, <1>4, <3>1
  <2> QED
    BY <1>1, <1>4, <2>1, <2>2
<1>6. CString(b) = SubSeq(b.s, 1, end - 1)
  BY DEF CString, end
<1>7. end - 1 = n
  BY <1>1, <1>5
<1> DEFINE x == b.s
           v == SubSeq(x, 1, n)
<1>8. v \in Seq(Cell) /\ Len(v) = n /\ \A k \in 1..n : v[k] = x[k]
  <2>1. 1 \in 1..(Len(x) + 1) /\ n \in (1 - 1)..Len(x) /\ n - 1 + 1 = n /\ \A k \in 1..n : 1 + k - 1 = k
    BY <1>1
  <2>2. x \in Seq(Cell)
    BY <1>1
  <2> HIDE DEF x
  <2> QED
    BY <2>1, <2>2, PieceProperties
<1>9. t \in Seq(Cell)
  <2>1. Cell \ {NUL} \subseteq Cell
    OBVIOUS
  <2> QED
    BY <1>1, <2>1, SeqMonotonic DEF Text
<1> HIDE DEF v
<1>10. v = t
  BY <1>1, <1>8, <1>9, SeqEqual
<1> QED
  BY <1>6, <1>7, <1>10 DEF v

\* The content is cut back to its beginning.
LEMMA CutHolds ==
    ASSUME NEW b, NEW t \in Text, NEW c \in Text, Holds(b, t \o c)
    PROVE  Holds(Cut(b, Len(t)), t)
<1> DEFINE u == t \o c
<1>1. /\ Len(u) = Len(t) + Len(c) /\ Len(t) \in Nat /\ Len(c) \in Nat
      /\ \A i \in 1..(Len(t) + Len(c)) : u[i] = IF i <= Len(t) THEN t[i] ELSE c[i - Len(t)]
  BY TextAppended
<1>2. /\ b = [s |-> b.s, length |-> Len(u)] /\ b.s \in Seq(Cell)
      /\ Len(u) <= Len(b.s) /\ Len(b.s) \in Nat /\ \A i \in 1..Len(u) : b.s[i] = u[i]
  BY LenProperties DEF Holds
<1> HIDE DEF u
<1>3. Cut(b, Len(t)) = [s |-> b.s, length |-> Len(t)]
  BY <1>2 DEF Cut
<1>4. \A i \in 1..Len(t) : i \in 1..(Len(t) + Len(c)) /\ i <= Len(t) /\ i \in 1..Len(u)
  BY <1>1
<1>5. \A i \in 1..Len(t) : b.s[i] = t[i]
  BY <1>1, <1>2, <1>4
<1>6. Len(t) <= Len(b.s)
  BY <1>1, <1>2
<1> QED
  BY <1>2, <1>3, <1>5, <1>6 DEF Holds

\* A path that does not end with a slash gets one; one that does stays as it is.
LEMMA SuffixHolds ==
    ASSUME NEW b, NEW t \in Text, NEW c \in Cell \ {NUL, "/"}, Holds(b, Append(t, c))
    PROVE  HoldsZ(fs_ensure_suffix(b), Append(Append(t, c), "/"))
<1> DEFINE u == Append(t, c)
<1>1. "/" \in Cell \ {NUL}
  BY BackupAssumption DEF NUL
<1>2. Len(u) = Len(t) + 1 /\ Len(t) \in Nat /\ u[Len(t) + 1] = c /\ u \in Text
  BY TextGrows
<1>3. Holds(b, u)
  OBVIOUS
<1> HIDE DEF u
<1>4. b.length = Len(u) /\ \A i \in 1..Len(u) : b.s[i] = u[i]
  BY <1>3 DEF Holds
<1>5. b.s[b.length] # "/"
  <2>1. Len(t) + 1 \in 1..Len(u)
    BY <1>2
  <2> QED
    BY <1>2, <1>4, <2>1
<1>6. Holds(string_putc(b, "/"), Append(u, "/"))
  BY <1>1, <1>3, PutcHolds
<1>7. HoldsZ(string_ensurez(string_putc(b, "/")), Append(u, "/"))
  BY <1>6, EnsurezHolds
<1> QED
  BY <1>5, <1>7 DEF fs_ensure_suffix, u

-----------------------------------------------------------------------------
(* Paths.                                                                    *)

PathStates == [names : Seq(Seq(Cell)), name : Seq(Cell)]

PathStart == [names |-> <<>>, name |-> <<>>]

\* The states of the loop of Components.
PathScan(cells) ==
    LET scan[i \in 0 .. Len(cells)] == IF i = 0 THEN PathStart ELSE PathCell(scan[i - 1], cells[i])
    IN  scan

\* One turn of it keeps the types.
LEMMA PathCellType ==
    ASSUME NEW s \in PathStates, NEW c \in Cell
    PROVE  PathCell(s, c) \in PathStates /\ Names(s) \in Seq(Seq(Cell))
<1>1. s.names \in Seq(Seq(Cell)) /\ s.name \in Seq(Cell)
  BY DEF PathStates
<1>2. Append(s.names, s.name) \in Seq(Seq(Cell)) /\ Append(s.name, c) \in Seq(Cell)
  BY <1>1, AppendProperties
<1>3. <<>> \in Seq(Cell)
  BY EmptySeq
<1>4. Names(s) \in Seq(Seq(Cell))
  BY <1>1, <1>2 DEF Names
<1>5. ASSUME NEW n \in Seq(Seq(Cell)), NEW m \in Seq(Cell) PROVE [names |-> n, name |-> m] \in PathStates
  BY DEF PathStates
<1>6. CASE c = "/"
  <2>1. PathCell(s, c) = [names |-> Names(s), name |-> <<>>]
    BY <1>6 DEF PathCell
  <2> QED
    BY <1>3, <1>4, <1>5, <2>1
<1>7. CASE c # "/"
  <2> DEFINE m == Append(s.name, c)
  <2>1. PathCell(s, c) = [names |-> s.names, name |-> m] /\ m \in Seq(Cell)
    BY <1>2, <1>7 DEF PathCell
  <2> HIDE DEF m
  <2> QED
    BY <1>1, <1>4, <1>5, <2>1
<1> QED
  BY <1>6, <1>7

\* Each turn starts from what the turn before it has found.
LEMMA PathScanEquation ==
    ASSUME NEW u \in Seq(Cell)
    PROVE  /\ PathScan(u)[0] = PathStart
           /\ \A k \in 1..Len(u) : PathScan(u)[k] = PathCell(PathScan(u)[k - 1], u[k])
           /\ \A k \in 0..Len(u) : PathScan(u)[k] \in PathStates
<1> DEFINE n == Len(u)
           S == PathStates
           T == [k \in 1..n |-> [s \in S |-> PathCell(s, u[k])]]
           P(f) == [k \in 0..n |-> IF k = 0 THEN PathStart ELSE PathCell(f[k - 1], u[k])]
<1>1. n \in Nat
  BY LenProperties
<1>2. PathStart \in S
  BY EmptySeq DEF PathStates, PathStart
<1>3. ASSUME NEW k \in 1..n, NEW s \in S PROVE PathCell(s, u[k]) \in S
  BY PathCellType, ElementOfSeq
<1>4. T \in [1..n -> [S -> S]]
  <2> HIDE DEF S, n
  <2> QED
    BY <1>3
<1>5. PICK f : IsIteration(f, n, S, PathStart, T)
  <2> HIDE DEF n, S, T
  <2> QED
    BY <1>1, <1>2, <1>4, IterationExists, Zenon
<1> HIDE DEF S, n
<1> USE DEF IsIteration
<1>6. \A k \in 1..n : f[k] = PathCell(f[k - 1], u[k])
  <2> SUFFICES ASSUME NEW k \in 1..n PROVE f[k] = PathCell(f[k - 1], u[k])
    OBVIOUS
  <2>1. k - 1 \in 0..n
    BY <1>1
  <2> QED
    BY <1>5, <2>1
<1>7. f = P(f)
  <2>1. f = [k \in 0..n |-> f[k]]
    BY <1>5
  <2>2. \A k \in 0..n : k = 0 \/ k \in 1..n
    BY <1>1
  <2>3. [k \in 0..n |-> f[k]] = P(f)
    BY <1>5, <1>6, <2>2
  <2> QED
    BY <2>1, <2>3
<1> DEFINE W == CHOOSE g : g = P(g)
<1>8. W = P(W)
  BY <1>7
<1>9. PathScan(u) = W
  BY DEF PathScan, n
<1> HIDE DEF W
<1>10. W[0] = PathStart
  BY <1>1, <1>8
<1>11. ASSUME NEW k \in 1..n PROVE W[k] = PathCell(W[k - 1], u[k])
  <2>1. k \in 0..n /\ k # 0
    BY <1>1
  <2> QED
    BY <1>8, <2>1
<1> DEFINE Good == {k \in 0..n : W[k] \in S}
<1>12. \A k \in 0..n : k \in Good
  <2>1. 0 \in Good
    BY <1>1, <1>2, <1>10
  <2>2. ASSUME NEW k \in 1..n, k - 1 \in Good PROVE k \in Good
    <3>1. k \in 0..n
      BY <1>1
    <3> QED
      BY <1>3, <1>11, <2>2, <3>1
  <2> HIDE DEF Good
  <2> QED
    BY <1>1, <2>1, <2>2, IterationInduction
<1> QED
  BY <1>9, <1>10, <1>11, <1>12 DEF S, n

\* What is known of a path when all its cells were looked at.
Found(u) == PathScan(u)[Len(u)]

\* One more cell is one more turn.
LEMMA FoundGrows ==
    ASSUME NEW u \in Seq(Cell), NEW c \in Cell
    PROVE  /\ Found(Append(u, c)) = PathCell(Found(u), c)
           /\ Found(u) \in PathStates
<1> DEFINE n == Len(u)
           w == Append(u, c)
           A == PathScan(u)
           B == PathScan(w)
<1>1. /\ n \in Nat /\ w \in Seq(Cell) /\ Len(w) = n + 1 /\ w[n + 1] = c
      /\ \A i \in 1..n : w[i] = u[i]
  BY LenProperties, AppendProperties
<1> HIDE DEF w
<1>2. /\ A[0] = PathStart /\ B[0] = PathStart
      /\ \A k \in 1..n : A[k] = PathCell(A[k - 1], u[k])
      /\ \A k \in 1..(n + 1) : B[k] = PathCell(B[k - 1], w[k])
      /\ \A k \in 0..n : A[k] \in PathStates
  BY <1>1, PathScanEquation
<1> HIDE DEF A, B
<1> DEFINE Good == {k \in 0..n : A[k] = B[k]}
<1>3. \A k \in 0..n : k \in Good
  <2>1. 0 \in Good
    BY <1>1, <1>2
  <2>2. ASSUME NEW k \in 1..n, k - 1 \in Good PROVE k \in Good
    <3>1. k \in 0..n /\ k \in 1..(n + 1)
      BY <1>1
    <3> QED
      BY <1>1, <1>2, <2>2, <3>1
  <2> HIDE DEF Good
  <2> QED
    BY <1>1, <2>1, <2>2, IterationInduction
<1>4. n \in 0..n /\ n + 1 \in 1..(n + 1) /\ (n + 1) - 1 = n
  BY <1>1
<1>5. B[n + 1] = PathCell(A[n], c)
  BY <1>1, <1>2, <1>3, <1>4
<1> QED
  BY <1>1, <1>2, <1>4, <1>5 DEF Found, A, B, w

\* Components returns what the last turn has found.
LEMMA ComponentsFound == ASSUME NEW u PROVE Components(u) = Names(Found(u))
BY DEF Components, Found, PathScan, PathStart

\* A slash at the end makes no difference, and what follows it is a name.
LEMMA ComponentsGrow ==
    ASSUME NEW u \in Seq(Cell), "/" \in Cell
    PROVE  /\ Components(u) \in Seq(Seq(Cell))
           /\ Components(Append(u, "/")) = Components(u)
           /\ \A c \in Cell \ {"/"} :
                 Components(Append(Append(u, "/"), c)) = Append(Components(u), <<c>>)
           /\ \A c, d \in Cell \ {"/"} :
                 Components(Append(Append(Append(u, "/"), c), d)) = Append(Components(u), Append(<<c>>, d))
<1> DEFINE v == Append(u, "/")
           C == Components(u)
<1>1. v \in Seq(Cell)
  BY AppendProperties
<1>2. Found(v) = PathCell(Found(u), "/") /\ Found(u) \in PathStates
  BY FoundGrows
<1>3. C = Names(Found(u)) /\ C \in Seq(Seq(Cell))
  BY <1>2, PathCellType, ComponentsFound
<1> HIDE DEF v, C
<1>4. Found(v) = [names |-> C, name |-> <<>>]
  BY <1>2, <1>3 DEF PathCell
<1>5. Components(v) = C
  <2>1. Found(v).name = <<>> /\ Found(v).names = C
    BY <1>4
  <2> QED
    BY <2>1, ComponentsFound DEF Names
<1>6. ASSUME NEW c \in Cell \ {"/"}
      PROVE  /\ Append(v, c) \in Seq(Cell) /\ Found(Append(v, c)) = [names |-> C, name |-> <<c>>]
             /\ Components(Append(v, c)) = Append(C, <<c>>)
  <2>1. Append(v, c) \in Seq(Cell)
    BY <1>1, AppendProperties
  <2>2. Found(Append(v, c)) = PathCell(Found(v), c)
    BY <1>1, FoundGrows
  <2>3. Append(<<>>, c) = <<c>>
    OBVIOUS
  <2>4. Found(v).name = <<>> /\ Found(v).names = C
    BY <1>4
  <2>5. Found(Append(v, c)) = [names |-> C, name |-> <<c>>]
    BY <2>2, <2>3, <2>4 DEF PathCell
  <2>6. Found(Append(v, c)).name = <<c>> /\ Found(Append(v, c)).names = C
    BY <2>5
  <2>7. <<c>> # <<>>
    OBVIOUS
  <2>8. Components(Append(v, c)) = Append(C, <<c>>)
    BY <2>6, <2>7, ComponentsFound DEF Names
  <2> QED
    BY <2>1, <2>5, <2>8
<1>7. ASSUME NEW c \in Cell \ {"/"}, NEW d \in Cell \ {"/"}
      PROVE  Components(Append(Append(v, c), d)) = Append(C, Append(<<c>>, d))
  <2> DEFINE w == Append(v, c)
  <2>1. w \in Seq(Cell) /\ Found(w) = [names |-> C, name |-> <<c>>]
    BY <1>6
  <2> HIDE DEF w
  <2>2. Found(Append(w, d)) = PathCell(Found(w), d)
    BY <2>1, FoundGrows
  <2>4. Found(w).name = <<c>> /\ Found(w).names = C
    BY <2>1
  <2>5. Found(Append(w, d)) = [names |-> C, name |-> Append(<<c>>, d)]
    BY <2>2, <2>4 DEF PathCell
  <2>6. Found(Append(w, d)).name = Append(<<c>>, d) /\ Found(Append(w, d)).names = C
    BY <2>5
  <2>7. Append(<<c>>, d) # <<>>
    <3>1. <<c>> \in Seq(Cell)
      OBVIOUS
    <3> QED
      BY <3>1, AppendProperties
  <2> QED
    BY <2>6, <2>7, ComponentsFound DEF Names, w
<1> QED
  BY <1>3, <1>5, <1>6, <1>7 DEF v, C

\* Nothing has no components.
LEMMA NoComponents == Components(<<>>) = <<>>
<1>1. <<>> \in Seq(Cell) /\ Len(<<>>) = 0
  BY EmptySeq
<1>2. Found(<<>>) = PathStart
  BY <1>1, PathScanEquation DEF Found
<1> QED
  BY <1>2, ComponentsFound DEF Names, PathStart

\* A sequence and one more element.
LEMMA AppendedParts ==
    ASSUME NEW S, NEW s \in Seq(S), NEW x \in S
    PROVE  /\ Append(s, x) \in Seq(S) /\ Len(Append(s, x)) = Len(s) + 1 /\ Len(s) \in Nat
           /\ Append(s, x) # <<>>
           /\ Front(Append(s, x)) = s /\ Last(Append(s, x)) = x
           /\ SubSeq(Append(s, x), 1, Len(s)) = s
           /\ SubSeq(Append(s, x), Len(s) + 1, Len(s) + 1) = <<x>>
           /\ s # <<>> => Append(s, x)[1] = s[1]
<1> DEFINE a == Append(s, x)
           n == Len(s)
<1>1. /\ a \in Seq(S) /\ Len(a) = n + 1 /\ n \in Nat /\ a # <<>> /\ a[n + 1] = x
      /\ \A i \in 1..n : a[i] = s[i]
  BY AppendProperties, LenProperties
<1> HIDE DEF a
<1>2. SubSeq(a, 1, n) = s
  <2> DEFINE v == SubSeq(a, 1, n)
  <2>1. /\ 1 \in 1..(Len(a) + 1) /\ n \in (1 - 1)..Len(a) /\ n - 1 + 1 = n
        /\ \A k \in 1..n : 1 + k - 1 = k
    BY <1>1
  <2>2. v \in Seq(S) /\ Len(v) = n /\ \A k \in 1..n : v[k] = a[k]
    BY <1>1, <2>1, PieceProperties
  <2> HIDE DEF v
  <2>3. v = s
    BY <1>1, <2>2, SeqEqual
  <2> QED
    BY <2>3 DEF v
<1>3. SubSeq(a, n + 1, n + 1) = <<x>>
  <2> DEFINE v == SubSeq(a, n + 1, n + 1)
  <2>1. /\ n + 1 \in 1..(Len(a) + 1) /\ n + 1 \in ((n + 1) - 1)..Len(a) /\ (n + 1) - (n + 1) + 1 = 1
        /\ (n + 1) + 1 - 1 = n + 1 /\ 1 \in 1..1
    BY <1>1
  <2>2. v \in Seq(S) /\ Len(v) = 1 /\ v[1] = a[n + 1]
    BY <1>1, <2>1, PieceProperties
  <2> HIDE DEF v
  <2>3. v = <<v[1]>>
    BY <2>2, SeqOfOne
  <2> QED
    BY <1>1, <2>2, <2>3 DEF v
<1>4. Front(a) = SubSeq(a, 1, n) /\ Last(a) = x
  <2>1. Len(a) - 1 = n
    BY <1>1
  <2> QED
    BY <1>1, <2>1 DEF Front, Last
<1>5. s # <<>> => a[1] = s[1]
  <2>1. s # <<>> => 1 \in 1..n
    BY <1>1, EmptySeq
  <2> QED
    BY <1>1, <2>1
<1> QED
  BY <1>1, <1>2, <1>3, <1>4, <1>5 DEF a

\* Two sequences that end with an element are equal if they are equal in both parts.
LEMMA AppendedEqual ==
    ASSUME NEW S, NEW s \in Seq(S), NEW t \in Seq(S), NEW x \in S, NEW y \in S
    PROVE  Append(s, x) = Append(t, y) <=> s = t /\ x = y
<1>1. /\ Front(Append(s, x)) = s /\ Last(Append(s, x)) = x
      /\ Front(Append(t, y)) = t /\ Last(Append(t, y)) = y
  BY AppendedParts
<1> QED
  BY <1>1

\* A sequence and two more elements.
LEMMA AppendedTwo ==
    ASSUME NEW S, NEW s \in Seq(S), NEW x \in S, NEW y \in S
    PROVE  /\ Append(Append(s, x), y) \in Seq(S) /\ Len(Append(Append(s, x), y)) = Len(s) + 2
           /\ SubSeq(Append(Append(s, x), y), 1, Len(s)) = s
           /\ SubSeq(Append(Append(s, x), y), Len(s) + 1, Len(s) + 2) = <<x, y>>
<1> DEFINE a == Append(s, x)
           d == Append(a, y)
           n == Len(s)
<1>1. /\ a \in Seq(S) /\ Len(a) = n + 1 /\ n \in Nat /\ a[n + 1] = x
      /\ \A i \in 1..n : a[i] = s[i]
  BY AppendProperties, LenProperties
<1> HIDE DEF a
<1>2. /\ d \in Seq(S) /\ Len(d) = n + 2 /\ d[n + 2] = y
      /\ \A i \in 1..(n + 1) : d[i] = a[i]
  <2>1. (n + 1) + 1 = n + 2
    BY <1>1
  <2> QED
    BY <1>1, <2>1, AppendProperties
<1> HIDE DEF d
<1>3. SubSeq(d, 1, n) = s
  <2> DEFINE v == SubSeq(d, 1, n)
  <2>1. /\ 1 \in 1..(Len(d) + 1) /\ n \in (1 - 1)..Len(d) /\ n - 1 + 1 = n
        /\ \A k \in 1..n : 1 + k - 1 = k /\ k \in 1..(n + 1)
    BY <1>1, <1>2
  <2>2. v \in Seq(S) /\ Len(v) = n /\ \A k \in 1..n : v[k] = d[k]
    BY <1>2, <2>1, PieceProperties
  <2> HIDE DEF v
  <2>3. v = s
    BY <1>1, <1>2, <2>1, <2>2, SeqEqual
  <2> QED
    BY <2>3 DEF v
<1>4. SubSeq(d, n + 1, n + 2) = <<x, y>>
  <2> DEFINE v == SubSeq(d, n + 1, n + 2)
  <2>1. /\ n + 1 \in 1..(Len(d) + 1) /\ n + 2 \in ((n + 1) - 1)..Len(d) /\ (n + 2) - (n + 1) + 1 = 2
        /\ (n + 1) + 1 - 1 = n + 1 /\ (n + 1) + 2 - 1 = n + 2 /\ 1 \in 1..2 /\ 2 \in 1..2
        /\ n + 1 \in 1..(n + 1)
    BY <1>1, <1>2
  <2>2. v \in Seq(S) /\ Len(v) = 2 /\ v[1] = d[n + 1] /\ v[2] = d[n + 2]
    BY <1>2, <2>1, PieceProperties
  <2> HIDE DEF v
  <2>3. v = <<v[1], v[2]>>
    BY <2>2, SeqOfTwo
  <2> QED
    BY <1>1, <1>2, <2>1, <2>2, <2>3 DEF v
<1> QED
  BY <1>2, <1>3, <1>4 DEF a, d

-----------------------------------------------------------------------------
(* $base and the directory chaosvpn was started in.                          *)

Params == base \in {<<"/", "etc">>, <<"etc">>} /\ home \in {<<>>, <<<<"home">>>>}

Paths == Seq(Seq(Cell))

\* Texts that begin with a slash.
Rooted(t) == t \in Text /\ t # <<>> /\ t[1] = "/"

HomeText == IF home = <<>> THEN <<"/">> ELSE Append(Append(<<"/">>, "home"), "/")

\* The directory that holds $base.
Place     == IF Head(base) = "/" THEN <<>> ELSE home
PlaceText == IF Head(base) = "/" THEN <<"/">> ELSE HomeText
BaseText  == Append(PlaceText, "etc")

\* The cells of the model's names.
LEMMA CellNames ==
    /\ {"/", ".old", "etc", "home", "hosts", "tinc.conf"} \cup Hosts \subseteq Cell \ {NUL}
    /\ {".old", "etc", "home", "hosts", "tinc.conf"} \cup Hosts \subseteq Cell \ {"/", NUL}
BY BackupAssumption DEF NUL

\* A text is a sequence of cells.
LEMMA TextIsCells == ASSUME NEW t \in Text PROVE t \in Seq(Cell)
<1>1. Cell \ {NUL} \subseteq Cell
  OBVIOUS
<1> QED
  BY <1>1, SeqMonotonic DEF Text

\* A longer path begins as the shorter one does.
LEMMA RootedGrows ==
    ASSUME NEW t, Rooted(t), NEW c \in Cell \ {NUL}
    PROVE  Rooted(Append(t, c))
<1>1. t \in Seq(Cell \ {NUL}) /\ t # <<>>
  BY DEF Rooted, Text
<1> QED
  BY <1>1, AppendedParts DEF Rooted, Text

\* What the kernel makes of a path that begins with a slash does not depend on the
\* working directory.
LEMMA RootedPath ==
    ASSUME NEW t, Rooted(t) PROVE Path(t) = Components(t)
<1>1. Head(t) = t[1]
  BY HeadTailProperties DEF Rooted, Text
<1> QED
  BY <1>1 DEF Rooted, Path

\* The root, and the texts of the two directories chaosvpn may be started in.
LEMMA HomeIs ==
    ASSUME Params
    PROVE  /\ Rooted(HomeText) /\ Components(HomeText) = home /\ home \in Paths
           /\ \E u \in Seq(Cell) : HomeText = Append(u, "/") /\ Components(u) = home
           /\ Rooted(<<"/">>) /\ Components(<<"/">>) = <<>>
           /\ \E u \in Seq(Cell) : <<"/">> = Append(u, "/") /\ Components(u) = <<>>
<1>0. "/" \in Cell /\ "/" \in Cell \ {NUL} /\ "home" \in Cell \ {NUL} /\ "home" \in Cell \ {"/"}
  BY CellNames
<1>1. <<"/">> = Append(<<>>, "/") /\ <<>> \in Seq(Cell)
  OBVIOUS
<1>2. Components(<<"/">>) = <<>>
  BY <1>0, <1>1, ComponentsGrow, NoComponents
<1>3. Rooted(<<"/">>)
  BY <1>0 DEF Rooted, Text
<1> DEFINE r == <<"/">>
           h == Append(r, "home")
<1>4. Rooted(h)
  BY <1>0, <1>3, RootedGrows
<1>5. Components(h) = <<<<"home">>>>
  <2>1. Components(Append(Append(<<>>, "/"), "home")) = Append(Components(<<>>), <<"home">>)
    BY <1>0, <1>1, ComponentsGrow
  <2>2. Append(<<>>, <<"home">>) = <<<<"home">>>>
    OBVIOUS
  <2> QED
    BY <1>1, <2>1, <2>2, NoComponents
<1>6. h \in Seq(Cell)
  BY <1>4, TextIsCells DEF Rooted
<1> HIDE DEF h
<1>7. Rooted(Append(h, "/")) /\ Components(Append(h, "/")) = <<<<"home">>>>
  BY <1>0, <1>4, <1>5, <1>6, RootedGrows, ComponentsGrow
<1>8. <<>> \in Paths /\ <<<<"home">>>> \in Paths
  BY <1>0 DEF Paths
<1>9. CASE home = <<>>
  BY <1>1, <1>2, <1>3, <1>8, <1>9, NoComponents DEF HomeText
<1>10. CASE home = <<<<"home">>>>
  <2>1. home # <<>>
    BY <1>10
  <2>2. HomeText = Append(h, "/")
    BY <2>1 DEF HomeText, h
  <2> QED
    BY <1>1, <1>2, <1>3, <1>5, <1>6, <1>7, <1>8, <1>10, <2>2, NoComponents
<1> QED
  BY <1>9, <1>10 DEF Params

OldText == Append(BaseText, ".old")

\* The directory that holds $base.
LEMMA PlaceIs ==
    ASSUME Params
    PROVE  /\ Rooted(PlaceText) /\ Components(PlaceText) = Place /\ Place \in Paths
           /\ Place \in {<<>>, <<<<"home">>>>}
           /\ \E u \in Seq(Cell) : PlaceText = Append(u, "/") /\ Components(u) = Place
<1>1. <<>> \in Paths
  BY DEF Paths
<1>2. CASE Head(base) = "/"
  BY <1>1, <1>2, HomeIs DEF PlaceText, Place
<1>3. CASE Head(base) # "/"
  BY <1>3, HomeIs DEF PlaceText, Place, Params
<1> QED
  BY <1>2, <1>3

\* Two cells as a text that grows.
LEMMA TwoCells == ASSUME NEW a \in Cell, NEW b \in Cell PROVE Append(<<a>>, b) = <<a, b>>
<1> DEFINE s == Append(<<a>>, b)
<1>1. <<a>> \in Seq(Cell) /\ Len(<<a>>) = 1 /\ <<a>>[1] = a /\ 1 \in 1..1 /\ 1 + 1 = 2
  OBVIOUS
<1>2. s \in Seq(Cell) /\ Len(s) = 2 /\ s[1] = a /\ s[2] = b
  <2>1. /\ s \in Seq(Cell) /\ Len(s) = Len(<<a>>) + 1 /\ s[Len(<<a>>) + 1] = b
        /\ \A i \in 1..Len(<<a>>) : s[i] = <<a>>[i]
    BY <1>1, AppendProperties
  <2> HIDE DEF s
  <2> QED
    BY <1>1, <2>1
<1> HIDE DEF s
<1>3. s = <<s[1], s[2]>>
  BY <1>2, SeqOfTwo
<1> QED
  BY <1>2, <1>3 DEF s

\* A name without a slash in front of it.
LEMMA RelativeName == ASSUME NEW c \in Cell \ {"/"} PROVE Components(<<c>>) = <<<<c>>>>
<1>1. <<>> \in Seq(Cell) /\ Len(<<>>) = 0 /\ Append(<<>>, c) = <<c>> /\ <<c>> # <<>>
  BY EmptySeq
<1>2. Found(<<>>) = PathStart
  BY <1>1, PathScanEquation DEF Found
<1>3. Found(Append(<<>>, c)) = PathCell(PathStart, c)
  BY <1>1, <1>2, FoundGrows
<1>4. Found(<<c>>) = [names |-> <<>>, name |-> <<c>>]
  BY <1>1, <1>3 DEF PathCell, PathStart
<1>5. Found(<<c>>).names = <<>> /\ Found(<<c>>).name = <<c>>
  BY <1>4
<1>6. Append(<<>>, <<c>>) = <<<<c>>>>
  OBVIOUS
<1> QED
  BY <1>1, <1>5, <1>6, ComponentsFound DEF Names

\* $base and $base.old.
LEMMA BaseIs ==
    ASSUME Params
    PROVE  /\ Rooted(BaseText) /\ Rooted(OldText)
           /\ Base = Append(Place, <<"etc">>) /\ Components(BaseText) = Base
           /\ Backed = Append(Place, Append(<<"etc">>, ".old")) /\ Components(OldText) = Backed
<1>0. /\ "/" \in Cell /\ "etc" \in Cell \ {"/"} /\ ".old" \in Cell \ {"/"}
      /\ "etc" \in Cell \ {NUL} /\ ".old" \in Cell \ {NUL}
  BY CellNames
<1>1. Rooted(PlaceText) /\ Place \in Paths
  BY PlaceIs
<1>2. Rooted(BaseText) /\ Rooted(OldText)
  BY <1>0, <1>1, RootedGrows DEF BaseText, OldText
<1>3. /\ Components(BaseText) = Append(Place, <<"etc">>)
      /\ Components(OldText) = Append(Place, Append(<<"etc">>, ".old"))
  <2>1. PICK u \in Seq(Cell) : PlaceText = Append(u, "/") /\ Components(u) = Place
    BY PlaceIs
  <2> QED
    BY <1>0, <2>1, ComponentsGrow DEF BaseText, OldText
<1>4. Base = Append(Place, <<"etc">>)
  <2>1. CASE base = <<"/", "etc">>
    <3>1. Head(base) = "/"
      BY <2>1
    <3>2. base = BaseText
      BY <1>0, <2>1, <3>1, TwoCells DEF BaseText, PlaceText
    <3> QED
      BY <1>3, <3>1, <3>2 DEF Base
  <2>2. CASE base = <<"etc">>
    <3>1. Head(base) = "etc" /\ Head(base) # "/"
      BY <2>2
    <3>2. Components(base) = <<<<"etc">>>>
      BY <1>0, <2>2, RelativeName
    <3>3. Place = home /\ home \in Seq(Seq(Cell)) /\ <<"etc">> \in Seq(Cell)
      BY <1>0, <1>1, <3>1 DEF Place, Paths
    <3> DEFINE e == <<"etc">>
    <3>4. Append(home, e) = home \o <<e>>
      <4> HIDE DEF e
      <4>1. e \in Seq(Cell)
        BY <3>3 DEF e
      <4> QED
        BY <3>3, <4>1, AppendIsConcat
    <3> QED
      BY <3>1, <3>2, <3>3, <3>4 DEF Base
  <2> QED
    BY <2>1, <2>2 DEF Params
<1>5. Front(Base) = Place /\ Last(Base) = <<"etc">>
  <2> DEFINE e == <<"etc">>
  <2>1. e \in Seq(Cell) /\ Place \in Seq(Seq(Cell))
    BY <1>0, <1>1 DEF Paths
  <2>2. Base = Append(Place, e)
    BY <1>4
  <2> HIDE DEF e
  <2>3. Front(Base) = Place /\ Last(Base) = e
    BY <2>1, <2>2, AppendedParts
  <2> QED
    BY <2>3 DEF e
<1>6. Backed = Append(Place, Append(<<"etc">>, ".old"))
  <2> DEFINE o == Append(<<"etc">>, ".old")
  <2>1. Backed = Place \o <<o>>
    BY <1>5 DEF Backed
  <2>2. o \in Seq(Cell)
    <3>1. <<"etc">> \in Seq(Cell) /\ ".old" \in Cell
      BY <1>0
    <3> QED
      BY <3>1, AppendProperties
  <2>3. Place \in Seq(Seq(Cell))
    BY <1>1 DEF Paths
  <2> HIDE DEF o
  <2>4. Append(Place, o) = Place \o <<o>>
    BY <2>2, <2>3, AppendIsConcat
  <2> QED
    BY <2>1, <2>4 DEF o
<1> QED
  BY <1>2, <1>3, <1>4, <1>6

\* getcwd in the directory chaosvpn was started in.
LEMMA GetcwdIs ==
    ASSUME Params, cwd = home
    PROVE  Holds(fs_get_cwd, HomeText)
<1>0. "/" \in Cell \ {NUL} /\ "home" \in Cell \ {NUL} /\ BufSize \in Nat
  BY CellNames, BackupAssumption
<1>1. Holds(string_init(BufSize), <<>>)
  BY <1>0, InitHolds
<1>2. CASE home = <<>>
  <2>1. getcwd = <<"/">> /\ Last(<<"/">>) = "/"
    BY <1>2 DEF getcwd, Last
  <2>2. <<"/">> \in Text /\ <<>> \o <<"/">> = <<"/">>
    BY <1>0 DEF Text
  <2>3. HoldsZ(string_concat(string_init(BufSize), <<"/">>), <<"/">>)
    BY <1>1, <2>2, ConcatHolds
  <2> QED
    BY <1>2, <2>1, <2>3 DEF fs_get_cwd, HomeText, HoldsZ
<1>3. CASE home = <<<<"home">>>>
  <2> DEFINE D == 0..Len(cwd)
             F(g) == [i \in D |-> IF i = 0 THEN <<>> ELSE g[i - 1] \o <<"/">> \o cwd[i]]
             W == CHOOSE g : g = F(g)
             v == Append(<<"/">>, "home")
             f == [i \in D |-> IF i = 0 THEN <<>> ELSE v]
  <2>1. home # <<>> /\ Len(cwd) = 1 /\ cwd[1] = <<"home">> /\ D = {0, 1}
    BY <1>3
  <2>2. /\ <<"/">> \in Text /\ <<>> \in Text /\ v \in Text /\ Len(v) = 2 /\ v[2] = "home"
        /\ v = <<"/">> \o <<"home">>
        /\ v # <<>>
    <3>1. <<"/">> \in Text /\ <<>> \in Text /\ Len(<<"/">>) = 1 /\ 1 + 1 = 2
      BY <1>0 DEF Text
    <3>2. /\ v \in Text /\ v = <<"/">> \o <<"home">> /\ Len(v) = Len(<<"/">>) + 1
          /\ v[Len(<<"/">>) + 1] = "home"
      BY <1>0, <3>1, TextGrows
    <3> HIDE DEF v
    <3> QED
      BY <3>1, <3>2
  <2> HIDE DEF v
  <2>3. <<>> \o <<"/">> = <<"/">>
    OBVIOUS
  <2>4. f = F(f)
    <3>1. f[0] = <<>> /\ f[1] = v
      BY <2>1
    <3>2. F(f)[0] = <<>> /\ F(f)[1] = v
      <4>0. 1 \in D /\ 0 \in D /\ 1 # 0
        BY <2>1
      <4> HIDE DEF f, D
      <4>1. F(f)[1] = f[1 - 1] \o <<"/">> \o cwd[1] /\ F(f)[0] = <<>>
        BY <4>0
      <4>2. 1 - 1 = 0
        OBVIOUS
      <4> QED
        BY <2>1, <2>2, <2>3, <3>1, <4>1, <4>2
    <3> QED
      BY <2>1, <3>1, <3>2
  <2> HIDE DEF f
  <2>5. W = F(W)
    BY <2>4
  <2>6. getcwd = W[1]
    BY <2>1 DEF getcwd
  <2> HIDE DEF W
  <2>7. W[1] = v
    <3>1. W[0] = <<>> /\ W[1] = W[1 - 1] \o <<"/">> \o cwd[1] /\ 1 - 1 = 0
      BY <2>1, <2>5
    <3> QED
      BY <2>1, <2>2, <2>3, <3>1
  <2>8. Last(getcwd) = "home" /\ Last(getcwd) # "/"
    BY <2>2, <2>6, <2>7 DEF Last
  <2>9. HoldsZ(string_concat(string_init(BufSize), v), v)
    <3>1. <<>> \o v = v
      BY <2>2, ConcatEmptySeq DEF Text
    <3> QED
      BY <1>1, <2>2, <3>1, ConcatHolds
  <2>10. Holds(string_putc(string_concat(string_init(BufSize), v), "/"), Append(v, "/"))
    BY <1>0, <2>9, PutcHolds DEF HoldsZ
  <2> QED
    BY <2>1, <2>6, <2>7, <2>8, <2>10 DEF fs_get_cwd, HomeText, v
<1> QED
  BY <1>2, <1>3 DEF Params

\* A text with a slash at its end that names a directory.
Denotes(t, p) ==
    /\ Rooted(t) /\ p \in Paths
    /\ \E u \in Seq(Cell) : t = Append(u, "/") /\ Components(u) = p

\* What it names, and what it names with a name behind it.
LEMMA DenotesName ==
    ASSUME NEW t, NEW p, Denotes(t, p), NEW c \in Cell \ {"/", NUL}
    PROVE  /\ Path(t) = p /\ t \in Text /\ <<c>> \in Seq(Cell) /\ <<c>> \in Text
           /\ Rooted(Append(t, c)) /\ Path(Append(t, c)) = Append(p, <<c>>)
           /\ Denotes(Append(Append(t, c), "/"), Append(p, <<c>>))
           /\ Append(p, <<c>>) \in Paths
<1>0. "/" \in Cell /\ "/" \in Cell \ {NUL} /\ c \in Cell \ {"/"} /\ c \in Cell \ {NUL}
  BY CellNames
<1>1. PICK u \in Seq(Cell) : t = Append(u, "/") /\ Components(u) = p
  BY DEF Denotes
<1>2. Components(t) = p /\ Components(Append(t, c)) = Append(p, <<c>>)
  BY <1>0, <1>1, ComponentsGrow
<1>3. Rooted(t) /\ Rooted(Append(t, c)) /\ Rooted(Append(Append(t, c), "/"))
  BY <1>0, RootedGrows DEF Denotes
<1>4. Append(t, c) \in Seq(Cell) /\ t \in Text
  BY <1>3, TextIsCells DEF Rooted
<1>5. <<c>> \in Seq(Cell) /\ <<c>> \in Text
  BY <1>0 DEF Text
<1>6. Append(p, <<c>>) \in Paths
  <2> DEFINE e == <<c>>
  <2>1. e \in Seq(Cell) /\ p \in Seq(Seq(Cell))
    BY <1>5 DEF Denotes, Paths
  <2> HIDE DEF e
  <2>2. Append(p, e) \in Seq(Seq(Cell))
    BY <2>1, AppendProperties
  <2> QED
    BY <2>2 DEF e, Paths
<1>7. Denotes(Append(Append(t, c), "/"), Append(p, <<c>>))
  BY <1>2, <1>3, <1>4, <1>6 DEF Denotes
<1> QED
  BY <1>2, <1>3, <1>4, <1>5, <1>6, <1>7, RootedPath

\* The texts of the four directories.
SrcText == Append(BaseText, "/")
DstText == Append(OldText, "/")
SrcHosts == Append(Append(SrcText, "hosts"), "/")
DstHosts == Append(Append(DstText, "hosts"), "/")
OldHosts == Append(Backed, <<"hosts">>)

\* What they name.
LEMMA TextsDenote ==
    ASSUME Params
    PROVE  /\ Denotes(SrcText, Base) /\ Denotes(DstText, Backed)
           /\ Denotes(SrcHosts, HostsDir) /\ Denotes(DstHosts, OldHosts)
           /\ Denotes(HomeText, home)
<1>0. /\ "/" \in Cell \ {NUL} /\ "hosts" \in Cell \ {"/", NUL}
      /\ "etc" \in Cell \ {"/", NUL} /\ ".old" \in Cell
  BY CellNames
<1>1. Rooted(BaseText) /\ Rooted(OldText) /\ Components(BaseText) = Base /\ Components(OldText) = Backed
  BY BaseIs
<1>2. BaseText \in Seq(Cell) /\ OldText \in Seq(Cell)
  BY <1>1, TextIsCells DEF Rooted
<1>3. Base \in Paths /\ Backed \in Paths
  BY <1>0, <1>1, <1>2, ComponentsGrow DEF Paths
<1>4. Denotes(SrcText, Base) /\ Denotes(DstText, Backed)
  BY <1>0, <1>1, <1>2, <1>3, RootedGrows DEF Denotes, SrcText, DstText
<1>5. Denotes(SrcHosts, HostsDir) /\ Denotes(DstHosts, OldHosts)
  BY <1>0, <1>4, DenotesName DEF SrcHosts, DstHosts, HostsDir, OldHosts
<1>6. Denotes(HomeText, home)
  BY HomeIs DEF Denotes
<1> QED
  BY <1>4, <1>5, <1>6

\* An element behind the second of two sequences.
LEMMA ConcatGrows ==
    ASSUME NEW S, NEW s \in Seq(S), NEW t \in Seq(S), NEW x \in S
    PROVE  s \o Append(t, x) = Append(s \o t, x)
<1> DEFINE o == <<x>>
<1>1. o \in Seq(S) /\ s \o t \in Seq(S)
  BY ConcatProperties
<1>2. Append(t, x) = t \o o /\ Append(s \o t, x) = (s \o t) \o o
  BY <1>1, AppendIsConcat
<1> HIDE DEF o
<1>3. (s \o t) \o o = s \o (t \o o)
  BY <1>1, ConcatAssociative
<1> QED
  BY <1>2, <1>3

\* The paths that fs_cp_r and fs_empty_dir make of $base.
LEMMA AbsoluteIs ==
    ASSUME Params, cwd = home \/ Head(base) = "/"
    PROVE  /\ HoldsZ(Absolute(base), BaseText)
           /\ HoldsZ(Absolute(Append(base, ".old")), OldText)
           /\ HoldsZ(Absolute(base \o <<"/", "hosts">>), Append(SrcText, "hosts"))
<1> DEFINE C == Cell \ {NUL}
           Q == IF Head(base) = "/" THEN <<>> ELSE HomeText
           q == IF Head(base) = "/" THEN string_init(BufSize) ELSE fs_get_cwd
           h == <<"/", "hosts">>
<1>0. /\ "/" \in C /\ "etc" \in C /\ ".old" \in C /\ "hosts" \in C
      /\ "/" \in Cell /\ "hosts" \in Cell /\ "etc" \in Cell /\ BufSize \in Nat
  BY CellNames, BackupAssumption
<1>1. Holds(q, Q)
  BY <1>0, InitHolds, GetcwdIs
<1>2. Q \in Text /\ base \in Text /\ base # <<>> /\ Text = Seq(C)
  <2>1. Q \in Text
    BY <1>1 DEF Holds
  <2>2. <<"/", "etc">> \in Seq(C) /\ <<"etc">> \in Seq(C) /\ <<"/", "etc">> # <<>> /\ <<"etc">> # <<>>
    BY <1>0
  <2> HIDE DEF Q
  <2> QED
    BY <2>1, <2>2 DEF Text, Params
<1>3. Q \o base = BaseText
  <2>1. CASE base = <<"/", "etc">>
    <3>1. Head(base) = "/"
      BY <2>1
    <3>2. base = BaseText
      BY <1>0, <2>1, <3>1, TwoCells DEF BaseText, PlaceText
    <3>3. <<>> \o base = base
      BY <1>2, ConcatEmptySeq
    <3> QED
      BY <3>1, <3>2, <3>3
  <2>2. CASE base = <<"etc">>
    <3>1. Head(base) = "etc" /\ Head(base) # "/"
      BY <2>2
    <3>2. HomeText \in Text
      BY HomeIs DEF Rooted
    <3>3. Append(HomeText, "etc") = HomeText \o <<"etc">>
      BY <1>0, <3>2, TextGrows
    <3> QED
      BY <2>2, <3>1, <3>3 DEF BaseText, PlaceText
  <2> QED
    BY <2>1, <2>2 DEF Params
<1> HIDE DEF Q, q
<1>4. HoldsZ(string_concat(q, base), BaseText)
  BY <1>1, <1>2, <1>3, ConcatHolds
<1>5. HoldsZ(string_concat(q, Append(base, ".old")), OldText)
  <2>1. Q \o Append(base, ".old") = Append(Q \o base, ".old")
    BY <1>0, <1>2, ConcatGrows
  <2>2. Append(base, ".old") \in Text
    BY <1>0, <1>2, TextGrows
  <2> QED
    BY <1>1, <1>3, <2>1, <2>2, ConcatHolds DEF OldText
<1>6. /\ HoldsZ(string_concat(q, base \o h), Append(SrcText, "hosts"))
      /\ base \o h = Append(Append(base, "/"), "hosts")
  <2> DEFINE s == Append(base, "/")
  <2>1. h = Append(<<"/">>, "hosts") /\ <<"/">> \in Seq(C)
    BY <1>0, TwoCells
  <2>2. base \o Append(<<"/">>, "hosts") = Append(base \o <<"/">>, "hosts")
    BY <1>0, <1>2, <2>1, ConcatGrows
  <2>3. base \o <<"/">> = s /\ s \in Seq(C)
    BY <1>0, <1>2, TextGrows
  <2>4. Q \o s = Append(Q \o base, "/")
    BY <1>0, <1>2, ConcatGrows
  <2>5. Append(s, "hosts") \in Seq(C)
    BY <1>0, <1>2, <2>3, TextGrows
  <2> HIDE DEF s
  <2>6. Q \o Append(s, "hosts") = Append(Q \o s, "hosts")
    BY <1>0, <1>2, <2>3, ConcatGrows
  <2>7. base \o h = Append(s, "hosts")
    BY <2>1, <2>2, <2>3
  <2>8. Q \o (base \o h) = Append(SrcText, "hosts") /\ base \o h \in Text
    BY <1>2, <1>3, <2>4, <2>5, <2>6, <2>7 DEF SrcText
  <2> HIDE DEF h
  <2>9. HoldsZ(string_concat(q, base \o h), Q \o (base \o h))
    BY <1>1, <2>8, ConcatHolds
  <2> QED
    BY <2>7, <2>8, <2>9 DEF s
<1>7. Head(Append(base, ".old")) = Head(base) /\ Head(base \o h) = Head(base)
  <2>1. ASSUME NEW t \in Seq(C), t # <<>> PROVE Head(t) = t[1]
    BY <2>1, HeadTailProperties
  <2>2. ASSUME NEW t \in Seq(C), t # <<>>, NEW x \in C
        PROVE  Append(t, x) \in Seq(C) /\ Append(t, x) # <<>> /\ Append(t, x)[1] = t[1]
    BY <2>2, AppendedParts
  <2>3. /\ Append(base, ".old") \in Seq(C) /\ Append(base, ".old") # <<>>
        /\ Append(base, ".old")[1] = base[1]
    BY <1>0, <1>2, <2>2
  <2>4. /\ Append(Append(base, "/"), "hosts") \in Seq(C) /\ Append(Append(base, "/"), "hosts") # <<>>
        /\ Append(Append(base, "/"), "hosts")[1] = base[1]
    <3> DEFINE s == Append(base, "/")
    <3>1. s \in Seq(C) /\ s # <<>> /\ s[1] = base[1]
      BY <1>0, <1>2, <2>2
    <3> HIDE DEF s
    <3>2. Append(s, "hosts") \in Seq(C) /\ Append(s, "hosts") # <<>> /\ Append(s, "hosts")[1] = s[1]
      BY <1>0, <2>2, <3>1
    <3> QED
      BY <3>1, <3>2 DEF s
  <2> QED
    BY <1>2, <1>6, <2>1, <2>3, <2>4
<1> QED
  BY <1>4, <1>5, <1>6, <1>7 DEF Absolute, q

-----------------------------------------------------------------------------
(* The directories and files there can be.                                   *)

Conf        == Append(Base, <<"tinc.conf">>)
OldConf     == Append(Backed, <<"tinc.conf">>)
HostFile(h) == Append(HostsDir, <<h>>)
OldFile(h)  == Append(OldHosts, <<h>>)

HostFiles == {HostFile(h) : h \in Hosts}
OldFiles  == {OldFile(h) : h \in Hosts}

Dirs  == {<<>>, <<<<"home">>>>, Base, HostsDir, Backed, OldHosts}
Files == {Conf, OldConf} \cup HostFiles \cup OldFiles

Inside(p, r) == Len(p) > Len(r) /\ SubSeq(p, 1, Len(r)) = r

\* Names of one cell.
LEMMA OneCell ==
    ASSUME NEW x, NEW y
    PROVE  <<x>> = <<y>> <=> x = y
<1>1. <<x>>[1] = x /\ <<y>>[1] = y
  OBVIOUS
<1> QED
  BY <1>1

\* Where they are, by the lengths of their paths.
LEMMA Levels ==
    ASSUME Params
    PROVE  /\ Place \in Paths /\ Base \in Paths /\ Backed \in Paths /\ Base # Backed
           /\ HostsDir \in Paths /\ OldHosts \in Paths /\ Conf \in Paths /\ OldConf \in Paths
           /\ Len(Place) \in Nat /\ Len(Base) = Len(Place) + 1 /\ Len(Backed) = Len(Place) + 1
           /\ Len(HostsDir) = Len(Place) + 2 /\ Len(OldHosts) = Len(Place) + 2
           /\ Len(Conf) = Len(Place) + 2 /\ Len(OldConf) = Len(Place) + 2
           /\ Front(Backed) = Place /\ Front(OldHosts) = Backed /\ Front(OldConf) = Backed
           /\ Last(HostsDir) = <<"hosts">> /\ Last(Conf) = <<"tinc.conf">>
           /\ \A h \in Hosts :
                 /\ HostFile(h) \in Paths /\ OldFile(h) \in Paths
                 /\ Len(HostFile(h)) = Len(Place) + 3 /\ Len(OldFile(h)) = Len(Place) + 3
                 /\ Last(HostFile(h)) = <<h>> /\ Front(OldFile(h)) = OldHosts
           /\ <<"hosts">> \in Seq(Cell) /\ <<"tinc.conf">> \in Seq(Cell)
           /\ \A h \in Hosts : <<h>> \in Seq(Cell)
<1> DEFINE N == Seq(Cell)
           e == <<"etc">>
           o == Append(<<"etc">>, ".old")
           w == <<"hosts">>
           c == <<"tinc.conf">>
<1>0. /\ "etc" \in Cell /\ ".old" \in Cell /\ "hosts" \in Cell /\ "tinc.conf" \in Cell
      /\ Hosts \subseteq Cell
  BY CellNames
<1>1. e \in N /\ w \in N /\ c \in N /\ \A h \in Hosts : <<h>> \in N
  BY <1>0
<1>2. o \in N /\ Len(o) = Len(e) + 1 /\ Len(e) \in Nat
  BY <1>0, <1>1, AppendedParts
<1>3. e # o
  <2> HIDE DEF e, o
  <2>1. Len(e) # Len(e) + 1
    BY <1>2
  <2> QED
    BY <1>2, <2>1
<1>4. /\ Place \in Seq(N) /\ Base = Append(Place, e) /\ Backed = Append(Place, o)
      /\ Paths = Seq(N)
  BY PlaceIs, BaseIs DEF Paths
<1>5. /\ HostsDir = Append(Base, w) /\ OldHosts = Append(Backed, w)
      /\ Conf = Append(Base, c) /\ OldConf = Append(Backed, c)
      /\ \A h \in Hosts : HostFile(h) = Append(HostsDir, <<h>>) /\ OldFile(h) = Append(OldHosts, <<h>>)
  BY DEF HostsDir, OldHosts, Conf, OldConf, HostFile, OldFile
<1> HIDE DEF N, e, o, w, c
<1>6. /\ Base \in Seq(N) /\ Backed \in Seq(N) /\ Base # Backed /\ Len(Place) \in Nat
      /\ Len(Base) = Len(Place) + 1 /\ Len(Backed) = Len(Place) + 1 /\ Front(Backed) = Place
  BY <1>1, <1>2, <1>3, <1>4, AppendedParts, AppendedEqual
<1>7. /\ HostsDir \in Seq(N) /\ OldHosts \in Seq(N) /\ Conf \in Seq(N) /\ OldConf \in Seq(N)
      /\ Len(HostsDir) = Len(Place) + 2 /\ Len(OldHosts) = Len(Place) + 2
      /\ Len(Conf) = Len(Place) + 2 /\ Len(OldConf) = Len(Place) + 2
      /\ Front(OldHosts) = Backed /\ Front(OldConf) = Backed
      /\ Last(HostsDir) = w /\ Last(Conf) = c
  <2>1. (Len(Place) + 1) + 1 = Len(Place) + 2
    BY <1>6
  <2> QED
    BY <1>1, <1>5, <1>6, <2>1, AppendedParts
<1>8. ASSUME NEW h \in Hosts
      PROVE  /\ HostFile(h) \in Seq(N) /\ OldFile(h) \in Seq(N)
             /\ Len(HostFile(h)) = Len(Place) + 3 /\ Len(OldFile(h)) = Len(Place) + 3
             /\ Last(HostFile(h)) = <<h>> /\ Front(OldFile(h)) = OldHosts
  <2> DEFINE x == <<h>>
  <2>1. (Len(Place) + 2) + 1 = Len(Place) + 3
    BY <1>6
  <2>2. x \in N /\ HostFile(h) = Append(HostsDir, x) /\ OldFile(h) = Append(OldHosts, x)
    BY <1>1, <1>5
  <2> HIDE DEF x
  <2>3. /\ HostFile(h) \in Seq(N) /\ OldFile(h) \in Seq(N)
        /\ Len(HostFile(h)) = Len(Place) + 3 /\ Len(OldFile(h)) = Len(Place) + 3
        /\ Last(HostFile(h)) = x /\ Front(OldFile(h)) = OldHosts
    BY <1>7, <2>1, <2>2, AppendedParts
  <2> QED
    BY <2>3 DEF x
<1> QED
  BY <1>1, <1>4, <1>6, <1>7, <1>8 DEF N, w, c

\* No two of them are the same.
LEMMA Distinct ==
    ASSUME Params
    PROVE  /\ Dirs \cap Files = {} /\ Place \in Dirs
           /\ Conf # HostsDir /\ OldConf # OldHosts /\ OldConf # Conf /\ OldHosts # HostsDir
           /\ OldHosts # Conf /\ OldConf # HostsDir
           /\ {Backed, OldHosts, OldConf} \cap HostFiles = {}
           /\ {Base, HostsDir, Conf, Place, OldConf, OldHosts, Backed} \cap OldFiles = {}
           /\ HostFiles \cap OldFiles = {}
           /\ {Base, Place} \cap {HostsDir, Conf, OldHosts, OldConf} = {}
           /\ {Base, Place} \cap HostFiles = {} /\ {Conf, HostsDir} \cap HostFiles = {}
           /\ Backed \notin {HostsDir, Conf, OldHosts, OldConf} /\ Base # Backed /\ Base # Place
           /\ Backed # Place
           /\ \A h, k \in Hosts : /\ (HostFile(h) = HostFile(k) <=> h = k)
                                  /\ (OldFile(h) = OldFile(k) <=> h = k)
<1> DEFINE N == Seq(Cell)
           w == <<"hosts">>
           c == <<"tinc.conf">>
           n == Len(Place)
<1>1. w # c
  BY OneCell
<1>2. /\ Place \in Seq(N) /\ Base \in Seq(N) /\ Backed \in Seq(N) /\ Base # Backed
      /\ HostsDir \in Seq(N) /\ OldHosts \in Seq(N) /\ Conf \in Seq(N) /\ OldConf \in Seq(N)
      /\ w \in N /\ c \in N
  BY Levels DEF Paths
<1>3. /\ n \in Nat /\ Len(Base) = n + 1 /\ Len(Backed) = n + 1
      /\ Len(HostsDir) = n + 2 /\ Len(OldHosts) = n + 2 /\ Len(Conf) = n + 2 /\ Len(OldConf) = n + 2
      /\ \A h \in Hosts : Len(HostFile(h)) = n + 3 /\ Len(OldFile(h)) = n + 3
  BY Levels
<1>4. /\ HostsDir = Append(Base, w) /\ OldHosts = Append(Backed, w)
      /\ Conf = Append(Base, c) /\ OldConf = Append(Backed, c)
  BY DEF HostsDir, OldHosts, Conf, OldConf
<1>5. Len(<<>>) = 0 /\ Len(<<<<"home">>>>) = 1
  OBVIOUS
<1> HIDE DEF N, w, c, n
<1>6. /\ Conf # HostsDir /\ OldConf # OldHosts /\ OldConf # Conf /\ OldHosts # HostsDir
      /\ OldHosts # Conf /\ OldConf # HostsDir
  <2>1. Append(Base, c) # Append(Base, w) /\ Append(Backed, c) # Append(Backed, w)
    BY <1>1, <1>2, AppendedEqual
  <2>2. Append(Backed, c) # Append(Base, c)
    BY <1>2, AppendedEqual
  <2>4. Append(Backed, w) # Append(Base, w)
    BY <1>2, AppendedEqual
  <2>3. Append(Backed, w) # Append(Base, c) /\ Append(Backed, c) # Append(Base, w)
    BY <1>2, AppendedEqual
  <2> QED
    BY <1>4, <2>1, <2>2, <2>3, <2>4
<1>7. ASSUME NEW h \in Hosts, NEW k \in Hosts
      PROVE  /\ HostFile(h) # OldFile(k)
             /\ HostFile(h) = HostFile(k) <=> h = k
             /\ OldFile(h) = OldFile(k) <=> h = k
  <2> DEFINE x == <<h>>
             y == <<k>>
  <2>1. x \in N /\ y \in N /\ (x = y <=> h = k)
    BY Levels, OneCell DEF N
  <2>2. /\ HostFile(h) = Append(HostsDir, x) /\ OldFile(k) = Append(OldHosts, y)
        /\ HostFile(k) = Append(HostsDir, y) /\ OldFile(h) = Append(OldHosts, x)
    BY DEF HostFile, OldFile
  <2> HIDE DEF x, y
  <2> QED
    BY <1>2, <1>6, <2>1, <2>2, AppendedEqual
<1>8. HostFiles \cap OldFiles = {}
  BY <1>7 DEF HostFiles, OldFiles
<1>9. \A p \in HostFiles \cup OldFiles : Len(p) = n + 3
  BY <1>3 DEF HostFiles, OldFiles
<1>10. \A p \in {<<>>, <<<<"home">>>>} : Len(p) \in {0, 1}
  BY <1>5
<1>11. Place \in {<<>>, <<<<"home">>>>}
  BY PlaceIs
<1>12. /\ \A p \in {Conf, OldConf, HostsDir, OldHosts} : Len(p) = n + 2
       /\ \A p \in {Base, Backed} : Len(p) = n + 1
  BY <1>3
<1>13. /\ n + 1 # n + 2 /\ n + 1 # n + 3 /\ n + 2 # n + 3 /\ n # n + 1 /\ n # n + 2 /\ n # n + 3
       /\ n + 2 \notin {0, 1} /\ n + 3 \notin {0, 1}
  BY <1>3
<1>14. Len(Place) = n
  BY DEF n
<1>15. ({Conf, OldConf, HostsDir, OldHosts} \cup HostFiles \cup OldFiles) \cap {<<>>, <<<<"home">>>>, Base, Backed, Place} = {}
  BY <1>9, <1>10, <1>12, <1>13, <1>14
<1>16. /\ {Conf, OldConf, HostsDir, OldHosts} \cap (HostFiles \cup OldFiles) = {} /\ Base # Place
       /\ Backed # Place
  BY <1>9, <1>12, <1>13, <1>14
<1>17. Dirs \cap Files = {} /\ Place \in Dirs
  BY <1>6, <1>11, <1>15, <1>16 DEF Dirs, Files
<1> QED
  BY <1>2, <1>6, <1>7, <1>8, <1>15, <1>16, <1>17

\* What is inside $base and inside $base/hosts.
LEMMA InsideIs ==
    ASSUME Params, NEW p \in Dirs \cup Files
    PROVE  /\ Inside(p, Base) <=> p \in {HostsDir, Conf} \cup HostFiles
           /\ Inside(p, HostsDir) <=> p \in HostFiles
<1> DEFINE N == Seq(Cell)
           w == <<"hosts">>
           c == <<"tinc.conf">>
           n == Len(Place)
<1>2. /\ Place \in Seq(N) /\ Base \in Seq(N) /\ Backed \in Seq(N) /\ Base # Backed
      /\ HostsDir \in Seq(N) /\ OldHosts \in Seq(N) /\ w \in N /\ c \in N
  BY Levels DEF Paths
<1>3. /\ n \in Nat /\ Len(Base) = n + 1 /\ Len(Backed) = n + 1
      /\ Len(HostsDir) = n + 2 /\ Len(OldHosts) = n + 2 /\ Len(Conf) = n + 2 /\ Len(OldConf) = n + 2
      /\ \A h \in Hosts : Len(HostFile(h)) = n + 3 /\ Len(OldFile(h)) = n + 3
  BY Levels
<1>4. /\ HostsDir = Append(Base, w) /\ OldHosts = Append(Backed, w)
      /\ Conf = Append(Base, c) /\ OldConf = Append(Backed, c)
  BY DEF HostsDir, OldHosts, Conf, OldConf
<1>5. Len(<<>>) = 0 /\ Len(<<<<"home">>>>) = 1
  OBVIOUS
<1>6. OldHosts # HostsDir
  BY Distinct
<1> HIDE DEF N, w, c, n
<1>7. /\ SubSeq(HostsDir, 1, n + 1) = Base /\ SubSeq(Conf, 1, n + 1) = Base
      /\ SubSeq(OldHosts, 1, n + 1) = Backed /\ SubSeq(OldConf, 1, n + 1) = Backed
  BY <1>2, <1>3, <1>4, AppendedParts
<1>8. ASSUME NEW h \in Hosts
      PROVE  /\ SubSeq(HostFile(h), 1, n + 1) = Base /\ SubSeq(OldFile(h), 1, n + 1) = Backed
             /\ SubSeq(HostFile(h), 1, n + 2) = HostsDir /\ SubSeq(OldFile(h), 1, n + 2) = OldHosts
  <2> DEFINE x == <<h>>
  <2>1. x \in N
    BY Levels DEF N
  <2>2. HostFile(h) = Append(HostsDir, x) /\ OldFile(h) = Append(OldHosts, x)
    BY DEF HostFile, OldFile
  <2> HIDE DEF x
  <2>3. SubSeq(HostFile(h), 1, n + 2) = HostsDir /\ SubSeq(OldFile(h), 1, n + 2) = OldHosts
    BY <1>2, <1>3, <2>1, <2>2, AppendedParts
  <2>4. SubSeq(HostFile(h), 1, n + 1) = Base /\ SubSeq(OldFile(h), 1, n + 1) = Backed
    BY <1>2, <1>3, <1>4, <2>1, <2>2, AppendedTwo
  <2> QED
    BY <2>3, <2>4
<1>9. /\ n + 3 > n + 1 /\ n + 3 > n + 2 /\ n + 2 > n + 1 /\ ~(n + 1 > n + 1) /\ ~(n + 1 > n + 2)
      /\ ~(0 > n + 1) /\ ~(1 > n + 1) /\ ~(0 > n + 2) /\ ~(1 > n + 2) /\ ~(n + 2 > n + 2)
  BY <1>3
<1>10. CASE p \in {<<>>, <<<<"home">>>>, Base, Backed}
  <2>1. ~(Len(p) > n + 1) /\ ~(Len(p) > n + 2)
    BY <1>3, <1>5, <1>9, <1>10
  <2>2. p \notin {HostsDir, Conf} \cup HostFiles
    BY <1>3, <1>9, <2>1 DEF HostFiles
  <2> QED
    BY <1>3, <2>1, <2>2 DEF Inside
<1>11. CASE p \in {HostsDir, Conf}
  <2>1. p \notin HostFiles
    BY <1>11, Distinct
  <2> QED
    BY <1>3, <1>7, <1>9, <1>11, <2>1 DEF Inside
<1>12. CASE p \in {OldHosts, OldConf}
  <2>1. p \notin HostFiles /\ p \notin {HostsDir, Conf}
    BY <1>12, Distinct
  <2> QED
    BY <1>2, <1>3, <1>7, <1>9, <1>12, <2>1 DEF Inside
<1>13. CASE p \in HostFiles
  <2>1. PICK h \in Hosts : p = HostFile(h)
    BY <1>13 DEF HostFiles
  <2> QED
    BY <1>3, <1>8, <1>9, <1>13, <2>1 DEF Inside
<1>14. CASE p \in OldFiles
  <2>1. PICK h \in Hosts : p = OldFile(h)
    BY <1>14 DEF OldFiles
  <2>2. p \notin HostFiles /\ p \notin {HostsDir, Conf}
    BY <1>14, Distinct
  <2> QED
    BY <1>2, <1>3, <1>6, <1>8, <1>9, <2>1, <2>2 DEF Inside
<1> QED
  BY <1>10, <1>11, <1>12, <1>13, <1>14 DEF Dirs, Files

-----------------------------------------------------------------------------
(* The invariant.                                                            *)

\* The two directories handledir works in, at each depth, and their paths.
From(k)     == IF k = 1 THEN Base ELSE HostsDir
To(k)       == IF k = 1 THEN Backed ELSE OldHosts
FromText(k) == IF k = 1 THEN SrcText ELSE SrcHosts
ToText(k)   == IF k = 1 THEN DstText ELSE DstHosts

\* The names there can be in them.
NamesAt(k) == IF k = 1 THEN {<<"hosts">>, <<"tinc.conf">>} ELSE {<<h>> : h \in Hosts}

Frames == [left : SUBSET (NamesAt(1) \cup NamesAt(2)), srcdirlen : Nat, dstdirlen : Nat]

Node == [dir : BOOLEAN, data : Seq(Nat)]

\* Nothing but directories where directories belong and files where files do.
Tree ==
    /\ fs \in [DOMAIN fs -> Node] /\ DOMAIN fs \subseteq Dirs \cup Files
    /\ \A p \in DOMAIN fs : fs[p].dir <=> p \in Dirs
    /\ Place \in DOMAIN fs /\ Base \in DOMAIN fs
    /\ \A h \in Hosts : HostFile(h) \in DOMAIN fs => HostsDir \in DOMAIN fs

FsInv == Params /\ round \in Nat /\ fails \in Nat /\ Tree

\* Inside of the two functions chaosvpn knows the way back, unless it was lost already.
Back == lost \/ Holds(curwd, HomeText)

\* Outside of them it is where it was started, unless it is lost; $base is where it
\* was in any case.
HomeInv ==
    /\ ~Astray
    /\ pc \in {"backup", "handledir", "readdir", "open", "copy", "restore", "cleanup",
               "unlink", "restore2", "write"}
    /\ pc \in {"backup", "cleanup", "write"} => cwd = home \/ lost
    /\ pc \notin {"backup", "cleanup", "write"} => Back
    /\ pc \in {"backup", "cleanup", "write", "restore", "restore2"} => stack = <<>>

Copying == pc \in {"handledir", "readdir", "open", "copy"}

\* The calls of handledir: the working directory and the two buffers are those of
\* the innermost one, and each outer one knows the lengths of its own paths.
Inner(k) ==
    /\ stack[k].srcdirlen = Len(FromText(k)) /\ stack[k].dstdirlen = Len(ToText(k))

\* The directory of the copies is there, if no failure was passed over.
Made(k) == skipped \/ To(k) \in DOMAIN fs

CallInv ==
    Copying =>
        /\ stack \in Seq(Frames) /\ Len(stack) \in 0..2
        /\ \A k \in 1..Len(stack) :
              /\ From(k) \in DOMAIN fs /\ Made(k) /\ stack[k].left \subseteq NamesAt(k)
              /\ (k < Len(stack) \/ pc # "readdir") => Inner(k)
        /\ IF pc = "handledir"
             THEN /\ Len(stack) \in 0..1 /\ From(Len(stack) + 1) \in DOMAIN fs
                  /\ Holds(src, FromText(Len(stack) + 1)) /\ Holds(dst, ToText(Len(stack) + 1))
             ELSE /\ Len(stack) \in 1..2 /\ cwd = From(Len(stack)) /\ Holds(src, FromText(Len(stack)))
        /\ pc = "readdir" => Holds(dst, ToText(Len(stack)))
        /\ pc \in {"open", "copy"} =>
              \E c \in {"tinc.conf"} \cup Hosts :
                 /\ entry = <<c>> /\ entry \in NamesAt(Len(stack))
                 /\ Append(From(Len(stack)), <<c>>) \in DOMAIN fs \cap Files
                 /\ HoldsZ(dst, Append(ToText(Len(stack)), c))

\* What the copy of a file has, if there is such a file and no failure was passed over.
FileDone(p, q) == ~skipped /\ p \in DOMAIN fs => q \in DOMAIN fs /\ IsPrefix(fs[p].data, fs[q].data)

HostsDone ==
    ~skipped /\ HostsDir \in DOMAIN fs => OldHosts \in DOMAIN fs /\ \A h \in Hosts : FileDone(HostFile(h), OldFile(h))

\* The file that is being copied.
Busy(k) == Len(stack) = k /\ pc \in {"open", "copy"}

\* What is no longer to be read is copied.
CopyInv ==
    /\ Copying /\ Len(stack) >= 1 =>
        /\ <<"tinc.conf">> \notin stack[1].left /\ ~Busy(1) => FileDone(Conf, OldConf)
        /\ <<"hosts">> \notin stack[1].left /\ Len(stack) = 1 /\ pc # "handledir" => HostsDone
    /\ Copying /\ Len(stack) = 2 =>
        \A h \in Hosts : <<h>> \notin stack[2].left /\ ~(Busy(2) /\ entry = <<h>>) => FileDone(HostFile(h), OldFile(h))
    /\ pc = "open" => copied = 0
    /\ pc = "copy" =>
        LET p == Append(From(Len(stack)), entry)
            q == Append(To(Len(stack)), entry)
        IN  /\ q \in DOMAIN fs /\ copied \in 0..Len(fs[p].data) /\ copied <= Len(fs[q].data)
            /\ \A i \in 1..copied : fs[q].data[i] = fs[p].data[i]
    /\ pc \in {"restore", "cleanup"} /\ ret => FileDone(Conf, OldConf) /\ HostsDone

\* What is no longer to be read is removed, if no call has failed.
EmptyInv ==
    /\ pc = "unlink" =>
        /\ Len(stack) = 1 /\ cwd = HostsDir /\ Holds(dst, SrcHosts) /\ stack[1].left \subseteq NamesAt(2)
        /\ stack = <<[left |-> stack[1].left]>>
        /\ fails = 0 => \A h \in Hosts : HostFile(h) \in DOMAIN fs => <<h>> \in stack[1].left
    /\ pc \in {"restore2", "write"} /\ fails = 0 => \A h \in Hosts : HostFile(h) \notin DOMAIN fs

IInv == FsInv /\ HomeInv /\ CallInv /\ CopyInv /\ EmptyInv

\* $base and the directory chaosvpn was started in stay, and all paths with them.
LEMMA SamePaths ==
    ASSUME base' = base, home' = home
    PROVE  /\ Params' = Params /\ Place' = Place /\ Base' = Base /\ Backed' = Backed /\ HostsDir' = HostsDir
           /\ OldHosts' = OldHosts /\ Conf' = Conf /\ OldConf' = OldConf
           /\ HostFiles' = HostFiles /\ OldFiles' = OldFiles /\ Dirs' = Dirs /\ Files' = Files
           /\ HomeText' = HomeText /\ SrcHosts' = SrcHosts
           /\ \A h : HostFile(h)' = HostFile(h) /\ OldFile(h)' = OldFile(h)
           /\ \A k : /\ From(k)' = From(k) /\ To(k)' = To(k)
                     /\ FromText(k)' = FromText(k) /\ ToText(k)' = ToText(k)
<1>1. Place' = Place /\ Base' = Base /\ HomeText' = HomeText
  BY DEF Place, Base, HomeText
<1>2. Backed' = Backed /\ HostsDir' = HostsDir
  BY <1>1 DEF Backed, HostsDir
<1>3. OldHosts' = OldHosts /\ Conf' = Conf /\ OldConf' = OldConf
  BY <1>1, <1>2 DEF OldHosts, Conf, OldConf
<1>4. \A h : HostFile(h)' = HostFile(h) /\ OldFile(h)' = OldFile(h)
  BY <1>2, <1>3 DEF HostFile, OldFile
<1>5. HostFiles' = HostFiles /\ OldFiles' = OldFiles
  BY <1>4 DEF HostFiles, OldFiles
<1>6. Dirs' = Dirs /\ Files' = Files
  BY <1>1, <1>2, <1>3, <1>5 DEF Dirs, Files
<1>7. SrcText' = SrcText /\ DstText' = DstText
  BY <1>1 DEF SrcText, DstText, BaseText, OldText, PlaceText
<1>8. SrcHosts' = SrcHosts /\ DstHosts' = DstHosts
  BY <1>7 DEF SrcHosts, DstHosts
<1>9. \A k : /\ From(k)' = From(k) /\ To(k)' = To(k)
             /\ FromText(k)' = FromText(k) /\ ToText(k)' = ToText(k)
  BY <1>1, <1>2, <1>3, <1>7, <1>8 DEF From, To, FromText, ToText
<1>10. Params' = Params
  BY DEF Params
<1> QED
  BY <1>1, <1>2, <1>3, <1>4, <1>5, <1>6, <1>8, <1>9, <1>10

\* The names there can be are cells.
LEMMA NamesAre ==
    ASSUME NEW k \in 1..2, NEW x \in NamesAt(k)
    PROVE  \E c \in Cell \ {"/", NUL} :
              /\ x = <<c>> /\ (k = 1 => c \in {"hosts", "tinc.conf"}) /\ (k = 2 => c \in Hosts)
<1>1. /\ "hosts" \in Cell \ {"/", NUL} /\ "tinc.conf" \in Cell \ {"/", NUL}
      /\ Hosts \subseteq Cell \ {"/", NUL}
  BY BackupAssumption DEF NUL
<1>2. CASE k = 1
  BY <1>1, <1>2 DEF NamesAt
<1>3. CASE k = 2
  BY <1>1, <1>3 DEF NamesAt
<1> QED
  BY <1>2, <1>3

\* The directories handledir works in, at each depth.
LEMMA AtDepth ==
    ASSUME Params, NEW k \in 1..2
    PROVE  /\ Denotes(FromText(k), From(k)) /\ Denotes(ToText(k), To(k))
           /\ FromText(k) \in Text /\ ToText(k) \in Text
           /\ Len(FromText(k)) \in Nat /\ Len(ToText(k)) \in Nat
           /\ Path(FromText(k)) = From(k) /\ Path(ToText(k)) = To(k)
           /\ From(k) \in Dirs /\ To(k) \in Dirs /\ From(k) \in Paths /\ To(k) \in Paths
           /\ Front(To(k)) = IF k = 1 THEN Place ELSE To(1)
<1>1. Denotes(FromText(k), From(k)) /\ Denotes(ToText(k), To(k))
  BY TextsDenote DEF FromText, From, ToText, To
<1>2. "hosts" \in Cell \ {"/", NUL}
  BY CellNames
<1>3. Path(FromText(k)) = From(k) /\ Path(ToText(k)) = To(k) /\ FromText(k) \in Text /\ ToText(k) \in Text
  BY <1>1, <1>2, DenotesName
<1>4. Len(FromText(k)) \in Nat /\ Len(ToText(k)) \in Nat
  BY <1>3, LenProperties DEF Text
<1>5. From(k) \in Dirs /\ To(k) \in Dirs
  BY DEF From, To, Dirs
<1>6. From(k) \in Paths /\ To(k) \in Paths /\ Front(To(k)) = IF k = 1 THEN Place ELSE To(1)
  BY Levels DEF From, To
<1> QED
  BY <1>1, <1>3, <1>4, <1>5, <1>6

\* One name behind the path of a directory, with and without a slash.
LEMMA NameBehind ==
    ASSUME NEW b, NEW t, NEW p, Holds(b, t), Denotes(t, p), NEW c \in Cell \ {"/", NUL}
    PROVE  /\ HoldsZ(string_concat(b, <<c>>), Append(t, c))
           /\ HoldsZ(string_ensurez(string_concat(b, <<c>>)), Append(t, c))
           /\ HoldsZ(fs_ensure_suffix(string_concat(b, <<c>>)), Append(Append(t, c), "/"))
           /\ Path(Append(t, c)) = Append(p, <<c>>)
<1>1. /\ t \in Text /\ <<c>> \in Text /\ Path(Append(t, c)) = Append(p, <<c>>)
      /\ c \in Cell \ {NUL} /\ c \in Cell \ {NUL, "/"}
  BY DenotesName
<1>2. Append(t, c) = t \o <<c>>
  BY <1>1, TextGrows
<1> DEFINE d == string_concat(b, <<c>>)
<1>3. HoldsZ(d, Append(t, c))
  BY <1>1, <1>2, ConcatHolds
<1> HIDE DEF d
<1>4. Holds(d, Append(t, c))
  BY <1>3 DEF HoldsZ
<1>5. HoldsZ(string_ensurez(d), Append(t, c))
  BY <1>4, EnsurezHolds
<1>6. HoldsZ(fs_ensure_suffix(d), Append(Append(t, c), "/"))
  BY <1>1, <1>4, SuffixHolds
<1> QED
  BY <1>1, <1>3, <1>5, <1>6 DEF d

\* The name is cut again, and the slash with it.
LEMMA NameCut ==
    ASSUME NEW b, NEW t \in Text, NEW c \in Cell \ {"/", NUL}
    PROVE  /\ Holds(b, Append(t, c)) => Holds(Cut(b, Len(t)), t)
           /\ Holds(b, Append(Append(t, c), "/")) => Holds(Cut(b, Len(t)), t)
<1> DEFINE C == Cell \ {NUL}
           o == <<c>>
           s == Append(o, "/")
<1>1. "/" \in C /\ c \in C
  BY CellNames
<1>2. Append(t, c) = t \o o /\ o \in Text
  BY <1>1, TextGrows
<1>3. Text = Seq(C)
  BY DEF Text
<1>4. s \in Text /\ t \o s = Append(t \o o, "/")
  <2> HIDE DEF o, C
  <2>1. s \in Text
    BY <1>1, <1>2, TextGrows DEF C
  <2>2. t \o Append(o, "/") = Append(t \o o, "/")
    BY <1>1, <1>2, <1>3, ConcatGrows
  <2> QED
    BY <2>1, <2>2
<1> HIDE DEF o, s
<1> QED
  BY <1>2, <1>4, CutHolds

\* What readdir finds in the two directories.
LEMMA EntriesAre ==
    ASSUME Params, NEW tree, DOMAIN tree \subseteq Dirs \cup Files, NEW k \in 1..2
    PROVE  /\ Entries(tree, From(k)) \subseteq NamesAt(k)
           /\ \A x \in NamesAt(k) : Append(From(k), x) \in DOMAIN tree => x \in Entries(tree, From(k))
<1>1. Below(tree, From(k)) = {p \in DOMAIN tree : Inside(p, From(k))}
  BY DEF Below, Inside
<1> DEFINE E == {q \in Below(tree, From(k)) : Len(q) = Len(From(k)) + 1}
<1>2. Entries(tree, From(k)) = {Last(p) : p \in E}
  BY DEF Entries
<1>3. CASE k = 1
  <2>1. From(k) = Base /\ NamesAt(k) = {<<"hosts">>, <<"tinc.conf">>}
    BY <1>3 DEF From, NamesAt
  <2>2. /\ Last(HostsDir) = <<"hosts">> /\ Last(Conf) = <<"tinc.conf">>
        /\ Len(HostsDir) = Len(Base) + 1 /\ Len(Conf) = Len(Base) + 1
        /\ \A h \in Hosts : Len(HostFile(h)) # Len(Base) + 1
    BY Levels
  <2>3. E = {HostsDir, Conf} \cap DOMAIN tree
    <3>1. ASSUME NEW p \in E PROVE p \in {HostsDir, Conf} \cap DOMAIN tree
      <4>1. p \in DOMAIN tree /\ p \in {HostsDir, Conf} \cup HostFiles
        BY <1>1, <2>1, InsideIs
      <4> QED
        BY <2>1, <2>2, <4>1 DEF HostFiles
    <3>2. ASSUME NEW p \in {HostsDir, Conf} \cap DOMAIN tree PROVE p \in E
      BY <1>1, <2>1, <2>2, InsideIs
    <3> QED
      BY <3>1, <3>2
  <2>4. Append(From(k), <<"hosts">>) = HostsDir /\ Append(From(k), <<"tinc.conf">>) = Conf
    BY <2>1 DEF HostsDir, Conf
  <2> HIDE DEF E
  <2>5. Entries(tree, From(k)) \subseteq NamesAt(k)
    BY <1>2, <2>1, <2>2, <2>3
  <2>6. HostsDir \in DOMAIN tree => <<"hosts">> \in Entries(tree, From(k))
    BY <1>2, <2>2, <2>3
  <2>7. Conf \in DOMAIN tree => <<"tinc.conf">> \in Entries(tree, From(k))
    BY <1>2, <2>2, <2>3
  <2> QED
    BY <2>1, <2>4, <2>5, <2>6, <2>7
<1>4. CASE k = 2
  <2>1. From(k) = HostsDir /\ NamesAt(k) = {<<h>> : h \in Hosts}
    BY <1>4 DEF From, NamesAt
  <2>2. \A h \in Hosts : Len(HostFile(h)) = Len(HostsDir) + 1 /\ Last(HostFile(h)) = <<h>>
    BY Levels
  <2>3. E = HostFiles \cap DOMAIN tree
    <3>1. ASSUME NEW p \in E PROVE p \in HostFiles \cap DOMAIN tree
      BY <1>1, <2>1, InsideIs
    <3>2. ASSUME NEW p \in HostFiles \cap DOMAIN tree PROVE p \in E
      <4>1. PICK h \in Hosts : p = HostFile(h)
        BY DEF HostFiles
      <4> QED
        BY <1>1, <2>1, <2>2, <4>1, InsideIs
    <3> QED
      BY <3>1, <3>2
  <2> HIDE DEF E
  <2>4. Entries(tree, From(k)) \subseteq NamesAt(k)
    BY <1>2, <2>1, <2>2, <2>3 DEF HostFiles
  <2>5. ASSUME NEW h \in Hosts, HostFile(h) \in DOMAIN tree PROVE <<h>> \in Entries(tree, From(k))
    <3>1. HostFile(h) \in E
      BY <2>3, <2>5 DEF HostFiles
    <3> QED
      BY <1>2, <2>2, <3>1
  <2>6. \A h \in Hosts : Append(From(k), <<h>>) = HostFile(h)
    BY <2>1 DEF HostFile
  <2> QED
    BY <2>1, <2>4, <2>5, <2>6
<1> QED
  BY <1>3, <1>4

\* The last frame is replaced by another one.
LEMMA TopReplaced ==
    ASSUME NEW S, NEW s \in Seq(S), s # <<>>, NEW f \in S
    PROVE  /\ SubSeq(s, 1, Len(s) - 1) \in Seq(S) /\ Len(SubSeq(s, 1, Len(s) - 1)) = Len(s) - 1
           /\ \A k \in 1..(Len(s) - 1) : SubSeq(s, 1, Len(s) - 1)[k] = s[k]
           /\ Append(SubSeq(s, 1, Len(s) - 1), f) \in Seq(S)
           /\ Len(Append(SubSeq(s, 1, Len(s) - 1), f)) = Len(s)
           /\ Append(SubSeq(s, 1, Len(s) - 1), f)[Len(s)] = f
           /\ \A k \in 1..(Len(s) - 1) : Append(SubSeq(s, 1, Len(s) - 1), f)[k] = s[k]
<1> DEFINE m == Len(s) - 1
           v == SubSeq(s, 1, m)
<1>1. Len(s) \in Nat /\ Len(s) # 0
  BY EmptySeq, LenProperties
<1>2. /\ 1 \in 1..(Len(s) + 1) /\ m \in (1 - 1)..Len(s) /\ m - 1 + 1 = m /\ m \in Nat /\ m + 1 = Len(s)
      /\ \A k \in 1..m : 1 + k - 1 = k
  BY <1>1
<1> HIDE DEF m
<1>3. v \in Seq(S) /\ Len(v) = m /\ \A k \in 1..m : v[k] = s[k]
  BY <1>2, PieceProperties
<1> HIDE DEF v
<1>4. /\ Append(v, f) \in Seq(S) /\ Len(Append(v, f)) = m + 1 /\ Append(v, f)[m + 1] = f
      /\ \A k \in 1..m : Append(v, f)[k] = v[k]
  BY <1>3, AppendProperties
<1> QED
  BY <1>2, <1>3, <1>4 DEF v, m

-----------------------------------------------------------------------------
(* What the system calls do to the tree.                                     *)

\* Where copies go.
Olds == {Backed, OldHosts, OldConf} \cup OldFiles

\* The files below $base stay as they are, and their copies as good as they are.
Keeps ==
    /\ \A p \in {Conf, HostsDir} \cup HostFiles : p \in DOMAIN fs' <=> p \in DOMAIN fs
    /\ \A p \in DOMAIN fs : p \in DOMAIN fs'
    /\ FileDone(Conf, OldConf) => FileDone(Conf, OldConf)'
    /\ \A h \in Hosts : FileDone(HostFile(h), OldFile(h)) => FileDone(HostFile(h), OldFile(h))'
    /\ HostsDone => HostsDone'

\* The parts of the tree that can and cannot be a copy.
LEMMA OldsAre ==
    ASSUME Params
    PROVE  /\ Olds \subseteq Dirs \cup Files
           /\ Olds \cap ({Conf, HostsDir, Base, Place} \cup HostFiles) = {}
           /\ OldConf \in Files /\ Conf \in Files /\ HostFiles \subseteq Files /\ OldFiles \subseteq Files
           /\ OldConf \in Olds /\ OldFiles \subseteq Olds /\ Backed \in Olds /\ OldHosts \in Olds
           /\ Dirs \cap Files = {} /\ Backed \in Dirs /\ OldHosts \in Dirs
<1>1. Olds \subseteq Dirs \cup Files
  BY DEF Olds, Dirs, Files
<1>2. Olds \cap ({Conf, HostsDir, Base, Place} \cup HostFiles) = {}
  <2>1. OldFiles \cap ({Conf, HostsDir, Base, Place} \cup HostFiles) = {}
    BY Distinct
  <2>2. {OldHosts, OldConf} \cap {Conf, HostsDir, Base, Place} = {}
    BY Distinct
  <2>3. Backed \notin {Conf, HostsDir, Base, Place}
    BY Distinct
  <2>4. {Backed, OldHosts, OldConf} \cap HostFiles = {}
    BY Distinct
  <2> QED
    BY <2>1, <2>2, <2>3, <2>4 DEF Olds
<1>3. Dirs \cap Files = {}
  BY Distinct
<1> QED
  BY <1>1, <1>2, <1>3 DEF Olds, Dirs, Files

\* Nothing happens.
LEMMA TreeSame ==
    ASSUME FsInv, base' = base, home' = home, fs' = fs, skipped => skipped'
    PROVE  Params' /\ Tree' /\ Keeps
<1>1. Params' /\ Tree'
  BY SamePaths DEF FsInv, Tree, Params
<1>2. FileDone(Conf, OldConf) => FileDone(Conf, OldConf)'
  BY SamePaths DEF FileDone
<1>3. ASSUME NEW h \in Hosts PROVE FileDone(HostFile(h), OldFile(h)) => FileDone(HostFile(h), OldFile(h))'
  BY SamePaths DEF FileDone
<1>4. HostsDone => HostsDone'
  BY <1>3, SamePaths DEF HostsDone
<1> QED
  BY <1>1, <1>2, <1>3, <1>4 DEF Keeps

\* A directory or a file is made where copies go, unless it is there.
LEMMA TreeGrows ==
    ASSUME FsInv, base' = base, home' = home,
           NEW q \in Olds, NEW node \in Node, node.dir <=> q \in Dirs,
           fs' = Make(q, node), skipped => skipped'
    PROVE  /\ Params' /\ Tree' /\ Keeps
           /\ DOMAIN fs' = DOMAIN fs \cup {q} /\ \A p \in DOMAIN fs : fs'[p] = fs[p]
<1>0. Params /\ Tree
  BY DEF FsInv
<1>1. /\ DOMAIN fs' = DOMAIN fs \cup {q} /\ \A p \in DOMAIN fs : fs'[p] = fs[p]
      /\ fs'[q] = IF q \in DOMAIN fs THEN fs[q] ELSE node
      /\ fs' = [p \in DOMAIN fs' |-> fs'[p]]
  BY DEF Make
<1>2. \A p \in DOMAIN fs' : fs'[p] \in Node /\ (fs'[p].dir <=> p \in Dirs)
  BY <1>0, <1>1 DEF Tree
<1>3. q \notin {Conf, HostsDir, Base, Place} \cup HostFiles /\ q \in Dirs \cup Files
  BY <1>0, OldsAre
<1>4. \A p \in {Conf, HostsDir} \cup HostFiles : p \in DOMAIN fs' <=> p \in DOMAIN fs
  BY <1>1, <1>3
<1>5. Params' /\ Tree'
  <2>1. fs' \in [DOMAIN fs' -> Node]
    BY <1>1, <1>2
  <2>2. DOMAIN fs' \subseteq Dirs \cup Files /\ Place \in DOMAIN fs' /\ Base \in DOMAIN fs'
    BY <1>0, <1>1, <1>3 DEF Tree
  <2>3. \A h \in Hosts : HostFile(h) \in HostFiles
    BY DEF HostFiles
  <2>4. \A h \in Hosts : HostFile(h) \in DOMAIN fs' => HostsDir \in DOMAIN fs'
    BY <1>0, <1>4, <2>3 DEF Tree
  <2> QED
    BY <1>0, <1>2, <2>1, <2>2, <2>4, SamePaths DEF Tree
<1>6. ASSUME NEW p \in {Conf} \cup HostFiles, NEW r, FileDone(p, r)
      PROVE  ~skipped' /\ p \in DOMAIN fs' => r \in DOMAIN fs' /\ IsPrefix(fs'[p].data, fs'[r].data)
  BY <1>1, <1>4, <1>6 DEF FileDone
<1>7. FileDone(Conf, OldConf) => FileDone(Conf, OldConf)'
  BY <1>6, SamePaths DEF FileDone
<1>8. ASSUME NEW h \in Hosts, FileDone(HostFile(h), OldFile(h)) PROVE FileDone(HostFile(h), OldFile(h))'
  <2>1. HostFile(h) \in {Conf} \cup HostFiles
    BY DEF HostFiles
  <2>2. ~skipped' /\ HostFile(h) \in DOMAIN fs' => OldFile(h) \in DOMAIN fs' /\ IsPrefix(fs'[HostFile(h)].data, fs'[OldFile(h)].data)
    BY <1>6, <1>8, <2>1
  <2> QED
    BY <2>2, SamePaths DEF FileDone
<1>9. HostsDone => HostsDone'
  BY <1>1, <1>4, <1>8, SamePaths DEF HostsDone
<1> QED
  BY <1>1, <1>4, <1>5, <1>7, <1>8, <1>9 DEF Keeps

-----------------------------------------------------------------------------
(* The invariant, action by action.                                          *)

\* It holds when chaosvpn is started.
LEMMA InitInv == ASSUME Init PROVE IInv
<1>1. Params /\ Place \in DOMAIN fs /\ Base \in DOMAIN fs
  <2>1. Params
    BY DEF Init, Params
  <2>2. DOMAIN fs = {<<>>, <<<<"home">>>>, Base}
    BY DEF Init
  <2> QED
    BY <2>1, <2>2, PlaceIs
<1>2. Tree
  <2>1. DOMAIN fs = {<<>>, <<<<"home">>>>, Base} /\ \A p \in DOMAIN fs : fs[p] = Dir
    BY DEF Init
  <2>2. Dir \in Node /\ Dir.dir = TRUE
    BY DEF Dir, Node
  <2>3. fs \in [DOMAIN fs -> Node]
    BY <2>1, <2>2 DEF Init
  <2>4. DOMAIN fs \subseteq Dirs
    BY <2>1 DEF Dirs
  <2>5. ASSUME NEW h \in Hosts PROVE HostFile(h) \notin DOMAIN fs
    <3>1. HostFile(h) \in Files
      BY DEF Files, HostFiles
    <3> QED
      BY <1>1, <2>4, <3>1, Distinct
  <2> QED
    BY <1>1, <2>1, <2>2, <2>3, <2>4, <2>5 DEF Tree
<1>3. FsInv
  BY <1>1, <1>2 DEF Init, FsInv
<1>4. pc = "backup" /\ cwd = home /\ stack = <<>> /\ ~Astray
  BY DEF Init, Astray
<1> QED
  BY <1>3, <1>4 DEF IInv, HomeInv, CallInv, Copying, CopyInv, EmptyInv

\* The backup is given up.
LEMMA Bailed ==
    ASSUME IInv, base' = base, home' = home, curwd' = curwd, lost' = lost, Params', Tree',
           round' \in Nat, fails' \in Nat, Copying, Bail
    PROVE  IInv'
<1>1. ret' = FALSE /\ pc' = "restore" /\ stack' = <<>>
  BY DEF Bail
<1>2. Back' /\ ~Astray'
  BY SamePaths DEF IInv, HomeInv, Copying, Back, Holds, Astray
<1>3. FsInv' /\ HomeInv'
  BY <1>1, <1>2 DEF FsInv, HomeInv
<1>4. CallInv' /\ CopyInv' /\ EmptyInv'
  BY <1>1 DEF CallInv, Copying, CopyInv, EmptyInv
<1> QED
  BY <1>3, <1>4 DEF IInv

\* fs_cp_r makes the paths of $base and of $base.old.
LEMMA NextCopy == ASSUME IInv, fs_cp_r PROVE IInv'
<1>1. /\ pc = "backup" /\ base' = base /\ home' = home /\ fs' = fs /\ cwd' = cwd /\ round' = round
      /\ skipped' = FALSE /\ lost' = lost
  BY DEF fs_cp_r
<1>2. /\ Params /\ FsInv /\ Tree /\ (cwd = home \/ lost) /\ ~Astray /\ stack = <<>> /\ round \in Nat
      /\ fails \in Nat
  BY <1>1 DEF IInv, FsInv, HomeInv
<1>3. Params' /\ Tree' /\ ~Astray' /\ HomeText' = HomeText
  <2>1. Params' /\ Tree'
    BY <1>1, <1>2, SamePaths DEF Tree, Params
  <2> QED
    BY <1>1, <1>2, <2>1, SamePaths DEF Astray
<1>4. curwd' = fs_get_cwd => Back'
  <2>1. cwd = home => Holds(fs_get_cwd, HomeText)
    BY <1>2, GetcwdIs
  <2>2. cwd = home /\ curwd' = fs_get_cwd => Holds(curwd, HomeText)'
    BY <1>3, <2>1 DEF Holds
  <2> QED
    BY <1>1, <1>2, <2>2 DEF Back
<1>5. CASE /\ pc' = "handledir" /\ curwd' = fs_get_cwd
           /\ src' = fs_ensure_suffix(Absolute(base))
           /\ dst' = fs_ensure_suffix(Absolute(Append(base, ".old")))
           /\ stack' = stack /\ fails' = fails
  <2>1. Holds(src', FromText(1)) /\ Holds(dst', ToText(1))
    <3>0. "etc" \in Cell \ {NUL, "/"} /\ ".old" \in Cell \ {NUL, "/"}
      BY BackupAssumption DEF NUL
    <3>1. PlaceText \in Text /\ BaseText \in Text
      BY <1>2, PlaceIs, BaseIs DEF Rooted
    <3>2. cwd = home \/ Head(base) = "/"
      BY <1>2 DEF Astray
    <3>3. Holds(Absolute(base), Append(PlaceText, "etc"))
      BY <1>2, <3>2, AbsoluteIs DEF HoldsZ, BaseText
    <3>4. HoldsZ(src', Append(Append(PlaceText, "etc"), "/"))
      BY <1>5, <3>0, <3>1, <3>3, SuffixHolds
    <3>5. Holds(Absolute(Append(base, ".old")), Append(BaseText, ".old"))
      BY <1>2, <3>2, AbsoluteIs DEF HoldsZ, OldText
    <3>6. HoldsZ(dst', Append(Append(BaseText, ".old"), "/"))
      BY <1>5, <3>0, <3>1, <3>5, SuffixHolds
    <3>7. Holds(src', SrcText) /\ Holds(dst', DstText)
      BY <3>4, <3>6 DEF HoldsZ, SrcText, DstText, BaseText, OldText
    <3> QED
      BY <3>7 DEF FromText, ToText
  <2>2. FromText(1)' = FromText(1) /\ ToText(1)' = ToText(1) /\ From(1)' = From(1)
    BY <1>1, SamePaths
  <2>3. FsInv' /\ HomeInv'
    BY <1>1, <1>2, <1>3, <1>4, <1>5 DEF FsInv, HomeInv
  <2>4. CallInv'
    <3>1. stack' \in Seq(Frames)' /\ Len(stack') = 0 /\ 0 \in 0..2 /\ 0 \in 0..1 /\ 0 + 1 = 1 /\ 1..0 = {}
      BY <1>2, <1>5
    <3>2. From(1) \in DOMAIN fs'
      BY <1>1, <1>2 DEF From, Tree
    <3> QED
      BY <1>5, <2>1, <2>2, <3>1, <3>2 DEF CallInv
  <2>5. CopyInv' /\ EmptyInv'
    <3>1. Len(stack') = 0 /\ ~(0 >= 1) /\ 0 # 2
      BY <1>2, <1>5
    <3> QED
      BY <1>5, <3>1 DEF CopyInv, EmptyInv
  <2> QED
    BY <2>3, <2>4, <2>5 DEF IInv
<1>6. CASE /\ MayFail /\ ret' = FALSE /\ stack' = <<>>
           /\ (pc' = "restore" /\ curwd' = fs_get_cwd) \/ pc' = "cleanup"
  <2>1. fails' \in Nat
    BY <1>2, <1>6 DEF MayFail
  <2>2. FsInv' /\ HomeInv'
    BY <1>1, <1>2, <1>3, <1>4, <1>6, <2>1 DEF FsInv, HomeInv
  <2>3. CallInv' /\ CopyInv' /\ EmptyInv'
    BY <1>6 DEF CallInv, Copying, CopyInv, EmptyInv
  <2> QED
    BY <2>2, <2>3 DEF IInv
<1> QED
  BY <1>2, <1>5, <1>6 DEF fs_cp_r, Bail

\* handledir enters a directory.
LEMMA NextHandledir == ASSUME IInv, handledir PROVE IInv'
<1> DEFINE s    == string_ensurez(src)
           d    == string_ensurez(dst)
           from == Path(CString(s))
           to   == Path(CString(d))
           made == IF IsDir(Front(to)) THEN Make(to, Dir) ELSE fs
           f    == [left |-> Entries(made, from), srcdirlen |-> 0, dstdirlen |-> 0]
           k    == Len(stack) + 1
<1>1. /\ pc = "handledir" /\ src' = s /\ dst' = d /\ base' = base /\ home' = home /\ curwd' = curwd
      /\ entry' = entry /\ copied' = copied /\ round' = round /\ lost' = lost
  BY DEF handledir
<1>2. /\ FsInv /\ Params /\ Tree /\ round \in Nat /\ fails \in Nat /\ HomeInv /\ CallInv /\ CopyInv
      /\ Copying
  BY <1>1 DEF IInv, FsInv, Copying
<1>3. /\ stack \in Seq(Frames) /\ Len(stack) \in 0..1 /\ From(k) \in DOMAIN fs
      /\ Holds(src, FromText(k)) /\ Holds(dst, ToText(k))
      /\ \A i \in 1..Len(stack) :
            /\ From(i) \in DOMAIN fs /\ Made(i) /\ stack[i].left \subseteq NamesAt(i)
            /\ Inner(i)
  BY <1>1, <1>2 DEF CallInv
<1>4. k \in 1..2 /\ (k # 1 => 1 \in 1..Len(stack))
  <2> DEFINE n == Len(stack)
  <2>1. n \in 0..1
    BY <1>3
  <2> HIDE DEF n
  <2>2. n + 1 \in 1..2 /\ (n + 1 # 1 => 1 \in 1..n)
    BY <2>1
  <2> QED
    BY <2>2 DEF n
<1>5. /\ Path(FromText(k)) = From(k) /\ Path(ToText(k)) = To(k)
      /\ From(k) \in Dirs /\ To(k) \in Dirs
      /\ Front(To(k)) = IF k = 1 THEN Place ELSE To(1)
  BY <1>2, <1>4, AtDepth
<1>6. HoldsZ(s, FromText(k)) /\ HoldsZ(d, ToText(k))
  BY <1>3, EnsurezHolds
<1>7. from = From(k) /\ to = To(k)
  BY <1>5, <1>6, KernelSees
<1>8. made = fs \/ made = Make(to, Dir)
  OBVIOUS
<1>9. skipped \/ made = Make(to, Dir)
  <2>1. skipped \/ Front(to) \in DOMAIN fs
    BY <1>2, <1>3, <1>4, <1>5, <1>7 DEF Tree, Made
  <2>2. Front(to) \in Dirs
    <3>1. Place \in Dirs /\ To(1) \in Dirs
      BY <1>2, Distinct DEF To, Dirs
    <3> QED
      BY <1>5, <1>7, <3>1
  <2> QED
    BY <1>2, <2>1, <2>2 DEF Tree, IsDir
<1>10. to \in Olds /\ Dir \in Node /\ Dir.dir
  BY <1>7 DEF To, Olds, Dir, Node
<1>11. CASE /\ IsDir(from) /\ cwd' = from /\ pc' = "readdir" /\ stack' = Append(stack, f) /\ fails' \in Nat
            /\ \/ fs' = made /\ skipped' = skipped
               \/ fs' = fs /\ skipped' = TRUE
  <2> HIDE DEF s, d, from, to
  <2>1. /\ Params' /\ Tree' /\ Keeps /\ (skipped' \/ to \in DOMAIN fs')
        /\ \A p \in DOMAIN fs : p \in DOMAIN fs'
    <3>1. skipped => skipped'
      BY <1>11
    <3>2. CASE fs' = fs /\ (skipped \/ skipped')
      BY <1>1, <1>2, <3>1, <3>2, TreeSame
    <3>3. CASE fs' = Make(to, Dir)
      BY <1>1, <1>2, <1>5, <1>7, <1>10, <3>1, <3>3, TreeGrows
    <3> HIDE DEF made
    <3> QED
      BY <1>8, <1>9, <1>11, <3>2, <3>3
  <2> HIDE DEF k
  <2>2. f.left \subseteq NamesAt(k) /\ \A x \in NamesAt(k) : Append(From(k), x) \in DOMAIN fs' => x \in f.left
    <3>1. DOMAIN made \subseteq Dirs \cup Files
      <4>1. DOMAIN Make(to, Dir) = DOMAIN fs \cup {to}
        BY DEF Make
      <4>2. to \in Dirs /\ DOMAIN fs \subseteq Dirs \cup Files
        BY <1>2, <1>5, <1>7 DEF Tree
      <4> QED
        BY <1>8, <4>1, <4>2
    <3>2. DOMAIN fs' \subseteq DOMAIN made
      <4>1. DOMAIN Make(to, Dir) = DOMAIN fs \cup {to}
        BY DEF Make
      <4> QED
        BY <1>8, <1>11, <4>1
    <3> HIDE DEF made
    <3>3. /\ Entries(made, From(k)) \subseteq NamesAt(k)
          /\ \A x \in NamesAt(k) : Append(From(k), x) \in DOMAIN made => x \in Entries(made, From(k))
      BY <1>2, <1>4, <3>1, EntriesAre
    <3>4. f.left = Entries(made, From(k))
      BY <1>7
    <3> HIDE DEF f
    <3> QED
      BY <3>2, <3>3, <3>4
  <2> HIDE DEF made
  <2>3. f \in Frames
    <3>1. f.left \subseteq NamesAt(1) \cup NamesAt(2)
      BY <1>4, <2>2
    <3> QED
      BY <3>1 DEF Frames
  <2> DEFINE g == f
  <2>4. g.left = f.left /\ g \in Frames
    BY <2>3
  <2> HIDE DEF g
  <2>5. /\ stack' \in Seq(Frames) /\ Len(stack') = k /\ stack'[k].left = f.left
        /\ \A i \in 1..Len(stack) : stack'[i] = stack[i]
    <3>1. stack' = Append(stack, g)
      BY <1>11 DEF g
    <3>2. /\ stack' \in Seq(Frames) /\ Len(stack') = Len(stack) + 1 /\ stack'[Len(stack) + 1] = g
          /\ \A i \in 1..Len(stack) : stack'[i] = stack[i]
      BY <1>3, <2>4, <3>1, AppendProperties
    <3> QED
      BY <2>4, <3>2 DEF k
  <2>6. FsInv' /\ HomeInv'
    <3>1. Back' /\ ~Astray'
      BY <1>1, <1>2, SamePaths DEF HomeInv, Back, Holds, Astray
    <3> QED
      BY <1>1, <1>2, <1>11, <2>1, <3>1 DEF FsInv, HomeInv
  <2>7. CallInv'
    <3>1. /\ Len(stack') \in 0..2 /\ Len(stack') \in 1..2
          /\ \A i \in 1..Len(stack') : i \in 1..Len(stack) \/ i = k
          /\ \A i \in 1..Len(stack') : i < Len(stack') => i \in 1..Len(stack)
      BY <1>3, <1>4, <2>5 DEF k
    <3>2. ASSUME NEW i \in 1..Len(stack')
          PROVE  From(i) \in DOMAIN fs' /\ Made(i)' /\ stack'[i].left \subseteq NamesAt(i)
      <4>0. To(i)' = To(i)
        BY <1>1, SamePaths
      <4>1. CASE i \in 1..Len(stack)
        <5>1. From(i) \in DOMAIN fs' /\ stack'[i].left \subseteq NamesAt(i) /\ Made(i)
          BY <1>3, <2>1, <2>5, <4>1
        <5> QED
          BY <1>11, <2>1, <4>0, <5>1 DEF Made
      <4>2. CASE i = k
        BY <1>3, <1>7, <2>1, <2>2, <2>5, <4>0, <4>2 DEF Made
      <4> QED
        BY <3>1, <4>1, <4>2
    <3>3. ASSUME NEW i \in 1..Len(stack'), i < Len(stack') PROVE Inner(i)'
      <4>1. i \in 1..Len(stack)
        BY <3>1, <3>3
      <4>2. Inner(i) /\ stack'[i] = stack[i]
        BY <1>3, <2>5, <4>1
      <4>3. FromText(i)' = FromText(i) /\ ToText(i)' = ToText(i)
        BY <1>1, SamePaths
      <4> QED
        BY <4>2, <4>3 DEF Inner
    <3>4. cwd' = From(k) /\ Holds(src', FromText(k)) /\ Holds(dst', ToText(k))
      BY <1>1, <1>6, <1>7, <1>11 DEF HoldsZ
    <3>5. \A i : /\ From(i)' = From(i) /\ To(i)' = To(i) /\ FromText(i)' = FromText(i)
                 /\ ToText(i)' = ToText(i)
      BY <1>1, SamePaths
    <3> QED
      BY <1>11, <2>5, <3>1, <3>2, <3>3, <3>4, <3>5 DEF CallInv
  <2>8. CopyInv'
    <3>1. ASSUME k = 1, <<"tinc.conf">> \notin stack'[1].left PROVE FileDone(Conf, OldConf)'
      <4>1. <<"tinc.conf">> \in NamesAt(1) /\ Append(From(1), <<"tinc.conf">>) = Conf
        BY DEF NamesAt, From, Conf
      <4>2. Conf \notin DOMAIN fs'
        BY <2>2, <2>5, <3>1, <4>1
      <4> QED
        BY <1>1, <4>2, SamePaths DEF FileDone
    <3>2. ASSUME k = 1, <<"hosts">> \notin stack'[1].left PROVE HostsDone'
      <4>1. <<"hosts">> \in NamesAt(1) /\ Append(From(1), <<"hosts">>) = HostsDir
        BY DEF NamesAt, From, HostsDir
      <4>2. HostsDir \notin DOMAIN fs'
        BY <2>2, <2>5, <3>2, <4>1
      <4> QED
        BY <1>1, <4>2, SamePaths DEF HostsDone
    <3>3. ASSUME k = 2, <<"tinc.conf">> \notin stack'[1].left PROVE FileDone(Conf, OldConf)'
      <4>1. 1 \in 1..Len(stack) /\ Len(stack) >= 1
        BY <1>3, <3>3 DEF k
      <4>2. <<"tinc.conf">> \notin stack[1].left /\ ~Busy(1)
        BY <1>1, <2>5, <3>3, <4>1 DEF Busy
      <4>3. FileDone(Conf, OldConf)
        BY <1>2, <4>1, <4>2 DEF CopyInv
      <4> QED
        BY <2>1, <4>3 DEF Keeps
    <3>4. ASSUME k = 2, NEW h \in Hosts, <<h>> \notin stack'[2].left PROVE FileDone(HostFile(h), OldFile(h))'
      <4>1. <<h>> \in NamesAt(2) /\ Append(From(2), <<h>>) = HostFile(h)
        BY DEF NamesAt, From, HostFile
      <4>2. HostFile(h) \notin DOMAIN fs'
        BY <2>2, <2>5, <3>4, <4>1
      <4> QED
        BY <1>1, <4>2, SamePaths DEF FileDone
    <3>5. Len(stack') = 1 \/ Len(stack') = 2
      BY <1>4, <2>5
    <3> QED
      BY <1>11, <2>5, <3>1, <3>2, <3>3, <3>4, <3>5 DEF CopyInv
  <2>9. EmptyInv'
    BY <1>11 DEF EmptyInv
  <2> QED
    BY <2>6, <2>7, <2>8, <2>9 DEF IInv
<1>12. CASE Bail /\ fs' \in {fs, made} /\ fails' \in Nat /\ skipped' = skipped
  <2>1. Params' /\ Tree'
    <3>1. CASE fs' = fs
      BY <1>1, <1>2, <1>12, <3>1, TreeSame
    <3>2. CASE fs' = Make(to, Dir)
      <4> HIDE DEF to, made
      <4> QED
        BY <1>1, <1>2, <1>5, <1>7, <1>10, <1>12, <3>2, TreeGrows
    <3> HIDE DEF made
    <3> QED
      BY <1>8, <1>12, <3>1, <3>2
  <2> QED
    BY <1>1, <1>2, <1>12, <2>1, Bailed
<1>13. \/ /\ IsDir(from) /\ cwd' = from /\ pc' = "readdir" /\ stack' = Append(stack, f) /\ fails' \in Nat
          /\ \/ fs' = made /\ skipped' = skipped
             \/ fs' = fs /\ skipped' = TRUE
       \/ Bail /\ fs' \in {fs, made} /\ fails' \in Nat /\ skipped' = skipped
  <2>1. MayFail => fails' \in Nat
    BY <1>2 DEF MayFail
  <2> HIDE DEF IsDir, Bail, MayFail
  <2> QED
    BY <1>2, <2>1 DEF handledir
<1> QED
  BY <1>11, <1>12, <1>13

\* What is known in a call of handledir after its beginning.
LEMMA InCall ==
    ASSUME IInv, pc \in {"readdir", "open", "copy"}, NEW k, k = Len(stack)
    PROVE  /\ FsInv /\ Params /\ Tree /\ round \in Nat /\ fails \in Nat /\ HomeInv /\ CopyInv /\ Copying
           /\ stack \in Seq(Frames) /\ stack # <<>> /\ k \in 1..2 /\ (k # 1 => k = 2) /\ k \in 1..k
           /\ cwd = From(k) /\ Holds(src, FromText(k))
           /\ \A i \in 1..k :
                 /\ From(i) \in DOMAIN fs /\ Made(i) /\ stack[i].left \subseteq NamesAt(i)
                 /\ (i < k \/ pc # "readdir") => Inner(i)
           /\ pc = "readdir" => Holds(dst, ToText(k))
           /\ pc # "readdir" =>
                 \E c \in {"tinc.conf"} \cup Hosts :
                    /\ entry = <<c>> /\ entry \in NamesAt(k)
                    /\ Append(From(k), <<c>>) \in DOMAIN fs \cap Files
                    /\ HoldsZ(dst, Append(ToText(k), c))
<1>1. /\ FsInv /\ Params /\ Tree /\ round \in Nat /\ fails \in Nat /\ HomeInv /\ CopyInv /\ Copying
      /\ CallInv
  BY DEF IInv, FsInv, Copying
<1>2. stack \in Seq(Frames) /\ Len(stack) \in 1..2 /\ pc # "handledir"
  BY <1>1 DEF CallInv
<1>3. stack # <<>>
  <2>1. Len(stack) # 0
    BY <1>2
  <2> QED
    BY <2>1
<1>4. k \in 1..2 /\ (k # 1 => k = 2) /\ k \in 1..k
  <2>1. k \in 1..2
    BY <1>2
  <2> QED
    BY <2>1
<1> QED
  BY <1>1, <1>2, <1>3, <1>4 DEF CallInv

\* What an entry of one of the two directories can be.
LEMMA EntryIs ==
    ASSUME FsInv, NEW k \in 1..2, NEW c, <<c>> \in NamesAt(k)
    PROVE  /\ c \in Cell \ {"/", NUL}
           /\ IsDir(Append(From(k), <<c>>)) => k = 1 /\ c = "hosts" /\ HostsDir \in DOMAIN fs
           /\ IsFile(Append(From(k), <<c>>)) =>
                 /\ c \in {"tinc.conf"} \cup Hosts /\ Append(From(k), <<c>>) \in DOMAIN fs \cap Files
                 /\ (k = 1 => c = "tinc.conf") /\ (k = 2 => c \in Hosts)
           /\ k = 1 /\ c = "hosts" => Append(From(k), <<c>>) = HostsDir
           /\ k = 1 /\ c = "tinc.conf" => Append(From(k), <<c>>) = Conf /\ Append(To(k), <<c>>) = OldConf
           /\ k = 2 => /\ c \in Hosts /\ Append(From(k), <<c>>) = HostFile(c)
                       /\ Append(To(k), <<c>>) = OldFile(c)
           /\ k = 1 => c \in {"hosts", "tinc.conf"}
<1>1. PICK e \in Cell \ {"/", NUL} :
         /\ <<c>> = <<e>> /\ (k = 1 => e \in {"hosts", "tinc.conf"}) /\ (k = 2 => e \in Hosts)
  BY NamesAre
<1>2. c = e
  BY <1>1, OneCell
<1>3. /\ k = 1 /\ c = "hosts" => Append(From(k), <<c>>) = HostsDir
      /\ k = 1 /\ c = "tinc.conf" => Append(From(k), <<c>>) = Conf /\ Append(To(k), <<c>>) = OldConf
      /\ k = 2 => Append(From(k), <<c>>) = HostFile(c) /\ Append(To(k), <<c>>) = OldFile(c)
  BY DEF From, To, HostsDir, Conf, OldConf, HostFile, OldFile
<1>4. /\ HostsDir \in Dirs /\ Conf \in Files
      /\ (c \in Hosts => HostFile(c) \in Files) /\ Dirs \cap Files = {}
      /\ \A p \in DOMAIN fs : fs[p].dir <=> p \in Dirs
  BY Distinct DEF FsInv, Dirs, Files, HostFiles, Tree
<1>5. CASE k = 1 /\ c = "hosts"
  BY <1>1, <1>2, <1>3, <1>4, <1>5 DEF IsDir, IsFile
<1>6. CASE k = 1 /\ c = "tinc.conf"
  BY <1>1, <1>2, <1>3, <1>4, <1>6 DEF IsDir, IsFile
<1>7. CASE k = 2
  BY <1>1, <1>2, <1>3, <1>4, <1>7 DEF IsDir, IsFile
<1> QED
  BY <1>1, <1>2, <1>5, <1>6, <1>7

\* handledir reads an entry.
LEMMA NextRead == ASSUME IInv, ReadEntry PROVE IInv'
<1>0. PICK k : k = Len(stack)
  OBVIOUS
<1> DEFINE old == stack[k]
<1>1. /\ pc = "readdir" /\ base' = base /\ fs' = fs /\ home' = home /\ cwd' = cwd /\ curwd' = curwd
      /\ ret' = ret /\ round' = round /\ fails' = fails /\ skipped' = skipped /\ lost' = lost
  BY DEF ReadEntry
<1>2. PICK name \in old.left :
        /\ stack' = Append(Pop, [left |-> old.left \ {name}, srcdirlen |-> src.length, dstdirlen |-> dst.length])
        /\ \/ /\ Append(cwd, name) \notin DOMAIN fs
              /\ src' = src /\ dst' = dst /\ entry' = entry /\ copied' = copied /\ pc' = pc
           \/ /\ IsDir(Append(cwd, name)) /\ pc' = "handledir"
              /\ src' = fs_ensure_suffix(string_concat(src, name))
              /\ dst' = fs_ensure_suffix(string_concat(dst, name))
           \/ /\ IsFile(Append(cwd, name)) /\ pc' = "open"
              /\ dst' = string_ensurez(string_concat(dst, name))
              /\ entry' = name /\ copied' = 0 /\ src' = src
  BY <1>0 DEF ReadEntry, Top
<1>3. /\ FsInv /\ Params /\ Tree /\ round \in Nat /\ fails \in Nat /\ HomeInv /\ CopyInv /\ Copying
      /\ stack \in Seq(Frames) /\ stack # <<>> /\ k \in 1..2 /\ (k # 1 => k = 2) /\ k \in 1..k
      /\ cwd = From(k) /\ Holds(src, FromText(k)) /\ Holds(dst, ToText(k))
  BY <1>0, <1>1, InCall
<1>4. \A i \in 1..k :
         /\ From(i) \in DOMAIN fs /\ Made(i) /\ stack[i].left \subseteq NamesAt(i)
         /\ i < k => Inner(i)
  BY <1>0, <1>1, InCall
<1>5. PICK c : name = <<c>> /\ <<c>> \in NamesAt(k)
  <2>1. name \in NamesAt(k) /\ k \in 1..2
    BY <1>2, <1>3, <1>4
  <2> QED
    BY <2>1, NamesAre
<1>6. /\ c \in Cell \ {"/", NUL}
      /\ IsDir(Append(From(k), <<c>>)) => k = 1 /\ c = "hosts" /\ HostsDir \in DOMAIN fs
      /\ IsFile(Append(From(k), <<c>>)) =>
            /\ c \in {"tinc.conf"} \cup Hosts /\ Append(From(k), <<c>>) \in DOMAIN fs \cap Files
            /\ (k = 1 => c = "tinc.conf") /\ (k = 2 => c \in Hosts)
      /\ k = 1 /\ c = "hosts" => Append(From(k), <<c>>) = HostsDir
      /\ k = 1 /\ c = "tinc.conf" => Append(From(k), <<c>>) = Conf
      /\ k = 2 => c \in Hosts /\ Append(From(k), <<c>>) = HostFile(c)
      /\ k = 1 => c \in {"hosts", "tinc.conf"}
  BY <1>3, <1>5, EntryIs
<1> DEFINE rest == [left |-> old.left \ {name}, srcdirlen |-> src.length, dstdirlen |-> dst.length]
<1>7. /\ rest \in Frames /\ rest.left = old.left \ {name}
      /\ rest.srcdirlen = Len(FromText(k)) /\ rest.dstdirlen = Len(ToText(k))
  <2>1. old.left \subseteq NamesAt(1) \cup NamesAt(2)
    BY <1>3, <1>4
  <2>2. src.length = Len(FromText(k)) /\ dst.length = Len(ToText(k))
    BY <1>3 DEF Holds
  <2>3. Len(FromText(k)) \in Nat /\ Len(ToText(k)) \in Nat
    BY <1>3, AtDepth
  <2> HIDE DEF old
  <2> QED
    BY <2>1, <2>2, <2>3 DEF Frames
<1> HIDE DEF rest
<1>8. /\ stack' \in Seq(Frames) /\ Len(stack') = k /\ stack'[k] = rest
      /\ \A i \in 1..(k - 1) : stack'[i] = stack[i]
  <2>1. stack' = Append(SubSeq(stack, 1, Len(stack) - 1), rest)
    BY <1>2 DEF Pop, rest
  <2> QED
    BY <1>0, <1>3, <1>7, <2>1, TopReplaced
<1>9. /\ \A i \in 1..k : i < k => i \in 1..(k - 1)
      /\ \A i \in 1..k : i = k \/ i \in 1..(k - 1)
      /\ k \in 0..2 /\ k \in 1..2
      /\ (k = 1 => k \in 0..1 /\ k + 1 = 2) /\ (k = 2 => 1 \in 1..(k - 1) /\ k # 1) /\ k >= 1
      /\ (k = 1 => k # 2)
  BY <1>3
<1>10. ASSUME NEW i \in 1..k
       PROVE  /\ From(i) \in DOMAIN fs' /\ Made(i)' /\ stack'[i].left \subseteq NamesAt(i)
              /\ i < k => Inner(i)'
              /\ Inner(k)'
  <2>1. stack'[i].left \subseteq stack[i].left
    BY <1>7, <1>8, <1>9
  <2>2. \A j : FromText(j)' = FromText(j) /\ ToText(j)' = ToText(j)
    BY <1>1, SamePaths
  <2>3. i < k => Inner(i)'
    <3>1. i < k => Inner(i) /\ stack'[i] = stack[i]
      BY <1>4, <1>8, <1>9
    <3> QED
      BY <2>2, <3>1 DEF Inner
  <2>4. Inner(k)'
    BY <1>7, <1>8, <2>2 DEF Inner
  <2>5. Made(i)'
    BY <1>1, <1>4, SamePaths DEF Made
  <2> QED
    BY <1>1, <1>4, <2>1, <2>3, <2>4, <2>5
<1>11. /\ \A i : /\ From(i)' = From(i) /\ To(i)' = To(i) /\ FromText(i)' = FromText(i)
                 /\ ToText(i)' = ToText(i)
       /\ Files' = Files
  BY <1>1, SamePaths
<1>12. FsInv' /\ Keeps
  BY <1>1, <1>3, TreeSame DEF FsInv
<1>13. HomeInv' /\ EmptyInv'
  <2>1. Back' /\ ~Astray'
    BY <1>1, <1>3, SamePaths DEF HomeInv, Back, Holds, Astray, Copying
  <2>2. pc' \in {"readdir", "handledir", "open"}
    BY <1>1, <1>2
  <2> QED
    BY <2>1, <2>2 DEF HomeInv, EmptyInv
<1>14. /\ k = 2 /\ <<"tinc.conf">> \notin stack[1].left => FileDone(Conf, OldConf)'
       /\ k = 1 /\ <<"tinc.conf">> \notin stack[1].left => FileDone(Conf, OldConf)'
       /\ k = 1 /\ <<"hosts">> \notin stack[1].left => HostsDone'
       /\ k = 2 => \A h \in Hosts : <<h>> \notin stack[2].left => FileDone(HostFile(h), OldFile(h))'
  <2>1. ~Busy(1) /\ ~Busy(2) /\ Len(stack) = k
    BY <1>0, <1>1 DEF Busy
  <2>2. /\ <<"tinc.conf">> \notin stack[1].left => FileDone(Conf, OldConf)
        /\ k = 1 /\ <<"hosts">> \notin stack[1].left => HostsDone
        /\ k = 2 => \A h \in Hosts : <<h>> \notin stack[2].left => FileDone(HostFile(h), OldFile(h))
    BY <1>1, <1>3, <1>9, <2>1 DEF CopyInv
  <2> QED
    BY <1>12, <2>2 DEF Keeps
<1>15. CASE /\ Append(cwd, name) \notin DOMAIN fs
            /\ src' = src /\ dst' = dst /\ entry' = entry /\ copied' = copied /\ pc' = pc
  <2>1. CallInv'
    BY <1>1, <1>3, <1>8, <1>9, <1>10, <1>11, <1>15 DEF CallInv
  <2>2. Append(From(k), <<c>>) \notin DOMAIN fs'
    BY <1>1, <1>3, <1>5, <1>15
  <2>3. ASSUME k = 1, <<"tinc.conf">> \notin stack'[1].left PROVE FileDone(Conf, OldConf)'
    <3>1. CASE <<"tinc.conf">> \in stack[1].left
      <4>1. c = "tinc.conf"
        BY <1>5, <1>7, <1>8, <2>3, <3>1, OneCell
      <4> QED
        BY <1>1, <1>6, <2>2, <2>3, <4>1, SamePaths DEF FileDone
    <3> QED
      BY <1>14, <2>3, <3>1
  <2>4. ASSUME k = 1, <<"hosts">> \notin stack'[1].left PROVE HostsDone'
    <3>1. CASE <<"hosts">> \in stack[1].left
      <4>1. c = "hosts"
        BY <1>5, <1>7, <1>8, <2>4, <3>1, OneCell
      <4> QED
        BY <1>1, <1>6, <2>2, <2>4, <4>1, SamePaths DEF HostsDone
    <3> QED
      BY <1>14, <2>4, <3>1
  <2>5. ASSUME k = 2, NEW h \in Hosts, <<h>> \notin stack'[2].left PROVE FileDone(HostFile(h), OldFile(h))'
    <3>1. CASE <<h>> \in stack[2].left
      <4>1. c = h
        BY <1>5, <1>7, <1>8, <2>5, <3>1, OneCell
      <4> QED
        BY <1>1, <1>6, <2>2, <2>5, <4>1, SamePaths DEF FileDone
    <3> QED
      BY <1>14, <2>5, <3>1
  <2>6. k = 2 /\ <<"tinc.conf">> \notin stack'[1].left => FileDone(Conf, OldConf)'
    BY <1>8, <1>9, <1>14
  <2>7. CopyInv'
    BY <1>1, <1>3, <1>8, <1>15, <2>3, <2>4, <2>5, <2>6 DEF CopyInv
  <2> QED
    BY <1>12, <1>13, <2>1, <2>7 DEF IInv
<1>16. CASE /\ IsDir(Append(cwd, name)) /\ pc' = "handledir"
            /\ src' = fs_ensure_suffix(string_concat(src, name))
            /\ dst' = fs_ensure_suffix(string_concat(dst, name))
  <2>1. k = 1 /\ c = "hosts" /\ HostsDir \in DOMAIN fs
    BY <1>3, <1>5, <1>6, <1>16
  <2>2. Denotes(FromText(k), From(k)) /\ Denotes(ToText(k), To(k))
    BY <1>3, AtDepth
  <2>3. /\ HoldsZ(src', Append(Append(FromText(k), c), "/"))
        /\ HoldsZ(dst', Append(Append(ToText(k), c), "/"))
    BY <1>3, <1>5, <1>6, <1>16, <2>2, NameBehind
  <2>4. Holds(src', FromText(2)) /\ Holds(dst', ToText(2)) /\ From(2) \in DOMAIN fs'
    BY <1>1, <2>1, <2>3 DEF HoldsZ, FromText, ToText, SrcHosts, DstHosts, From
  <2>5. CallInv'
    BY <1>8, <1>9, <1>10, <1>11, <1>16, <2>1, <2>4 DEF CallInv
  <2>6. CopyInv'
    <3>1. <<"tinc.conf">> \notin stack'[1].left => FileDone(Conf, OldConf)'
      <4>1. <<"tinc.conf">> # name
        BY <1>5, <2>1, OneCell
      <4> QED
        BY <1>7, <1>8, <1>14, <2>1, <4>1
    <3> QED
      BY <1>8, <1>9, <1>16, <2>1, <3>1 DEF CopyInv
  <2> QED
    BY <1>12, <1>13, <2>5, <2>6 DEF IInv
<1>17. CASE /\ IsFile(Append(cwd, name)) /\ pc' = "open"
            /\ dst' = string_ensurez(string_concat(dst, name))
            /\ entry' = name /\ copied' = 0 /\ src' = src
  <2>1. /\ c \in {"tinc.conf"} \cup Hosts /\ Append(From(k), <<c>>) \in DOMAIN fs \cap Files
        /\ (k = 1 => c = "tinc.conf") /\ (k = 2 => c \in Hosts)
    BY <1>3, <1>5, <1>6, <1>17
  <2>2. Denotes(ToText(k), To(k))
    BY <1>3, AtDepth
  <2>3. HoldsZ(dst', Append(ToText(k), c))
    BY <1>3, <1>5, <1>6, <1>17, <2>2, NameBehind
  <2>4. Holds(src', FromText(k)) /\ cwd' = From(k)
    BY <1>1, <1>3, <1>17
  <2>5. entry' = <<c>> /\ entry' \in NamesAt(k)
    BY <1>5, <1>17
  <2>6. CallInv'
    BY <1>1, <1>8, <1>9, <1>10, <1>11, <1>17, <2>1, <2>3, <2>4, <2>5 DEF CallInv
  <2>7. ASSUME k = 1, <<"hosts">> \notin stack'[1].left PROVE HostsDone'
    <3>1. <<"hosts">> # name
      BY <1>5, <2>1, <2>7, OneCell
    <3> QED
      BY <1>7, <1>8, <1>14, <2>7, <3>1
  <2>8. ASSUME k = 2, NEW h \in Hosts, <<h>> \notin stack'[2].left, entry' # <<h>>
        PROVE  FileDone(HostFile(h), OldFile(h))'
    BY <1>7, <1>8, <1>14, <1>17, <2>8
  <2>9. k = 2 /\ <<"tinc.conf">> \notin stack'[1].left => FileDone(Conf, OldConf)'
    BY <1>8, <1>9, <1>14
  <2>10. CopyInv'
    BY <1>3, <1>8, <1>9, <1>17, <2>7, <2>8, <2>9 DEF CopyInv, Busy
  <2> QED
    BY <1>12, <1>13, <2>6, <2>10 DEF IInv
<1> QED
  BY <1>2, <1>15, <1>16, <1>17

\* A call fails with an entry left to read.
LEMMA NextReadFails == ASSUME IInv, ReadFails PROVE IInv'
<1>0. PICK k : k = Len(stack)
  OBVIOUS
<1>1. /\ pc = "readdir" /\ base' = base /\ fs' = fs /\ home' = home /\ cwd' = cwd /\ src' = src /\ dst' = dst
      /\ curwd' = curwd /\ round' = round /\ lost' = lost /\ MayFail
  BY DEF ReadFails, bufVars
<1>2. /\ FsInv /\ Params /\ Tree /\ round \in Nat /\ fails \in Nat /\ HomeInv /\ Copying
      /\ stack \in Seq(Frames) /\ stack # <<>> /\ k \in 1..2
      /\ cwd = From(k) /\ Holds(src, FromText(k)) /\ Holds(dst, ToText(k))
      /\ \A i \in 1..k : /\ From(i) \in DOMAIN fs /\ stack[i].left \subseteq NamesAt(i)
                         /\ i < k => Inner(i)
  BY <1>0, <1>1, InCall
<1>3. fails' \in Nat
  BY <1>1, <1>2 DEF MayFail
<1>4. CASE /\ \E rest \in {Top.left \ {name} : name \in Top.left} \cup {{}} :
                 stack' = Append(Pop, [Top EXCEPT !.left = rest])
           /\ skipped' = TRUE /\ pc' = pc /\ ret' = ret
  <2>1. PICK rest : rest \subseteq stack[k].left /\ stack' = Append(Pop, [stack[k] EXCEPT !.left = rest])
    BY <1>0, <1>4 DEF Top
  <2>2. PICK f : f = [stack[k] EXCEPT !.left = rest]
    OBVIOUS
  <2>3. f \in Frames /\ f.left = rest
    <3>1. stack[k] \in Frames
      BY <1>0, <1>2, ElementOfSeq
    <3>2. rest \subseteq NamesAt(1) \cup NamesAt(2)
      BY <2>1, <3>1 DEF Frames
    <3> QED
      BY <2>2, <3>1, <3>2 DEF Frames
  <2>4. /\ stack' \in Seq(Frames) /\ Len(stack') = k /\ stack'[k] = f
        /\ \A i \in 1..(k - 1) : stack'[i] = stack[i]
    <3>1. stack' = Append(SubSeq(stack, 1, Len(stack) - 1), f)
      BY <2>1, <2>2 DEF Pop
    <3> QED
      BY <1>0, <1>2, <2>3, <3>1, TopReplaced
  <2>5. /\ \A i \in 1..k : i < k => i \in 1..(k - 1)
        /\ \A i \in 1..k : i = k \/ i \in 1..(k - 1)
        /\ k \in 0..2
    BY <1>2
  <2>6. /\ \A i : /\ From(i)' = From(i) /\ To(i)' = To(i) /\ FromText(i)' = FromText(i)
                  /\ ToText(i)' = ToText(i)
        /\ Files' = Files
    BY <1>1, SamePaths
  <2>7. ASSUME NEW i \in 1..k
        PROVE  From(i) \in DOMAIN fs' /\ Made(i)' /\ stack'[i].left \subseteq NamesAt(i) /\ (i < k => Inner(i)')
    <3>1. stack'[i].left \subseteq stack[i].left
      BY <2>1, <2>3, <2>4, <2>5
    <3>2. i < k => Inner(i)'
      <4>1. i < k => Inner(i) /\ stack'[i] = stack[i]
        BY <1>2, <2>4, <2>5
      <4> QED
        BY <2>6, <4>1 DEF Inner
    <3>3. Made(i)'
      BY <1>4 DEF Made
    <3> QED
      BY <1>1, <1>2, <3>1, <3>2, <3>3
  <2>8. FsInv' /\ HomeInv' /\ EmptyInv'
    <3>1. Params' /\ Tree'
      BY <1>1, <1>2, <1>4, TreeSame
    <3>2. Back' /\ ~Astray'
      BY <1>1, <1>2, SamePaths DEF HomeInv, Back, Holds, Astray
    <3> QED
      BY <1>1, <1>2, <1>3, <1>4, <3>1, <3>2 DEF FsInv, HomeInv, EmptyInv
  <2>9. CallInv'
    BY <1>1, <1>2, <1>4, <2>4, <2>5, <2>6, <2>7 DEF CallInv
  <2>10. CopyInv'
    BY <1>1, <1>4 DEF CopyInv, FileDone, HostsDone
  <2> QED
    BY <2>8, <2>9, <2>10 DEF IInv
<1>5. CASE Bail /\ skipped' = skipped
  <2>1. Params' /\ Tree'
    BY <1>1, <1>2, <1>5, TreeSame
  <2> QED
    BY <1>1, <1>2, <1>3, <1>5, <2>1, Bailed
<1> QED
  BY <1>4, <1>5 DEF ReadFails

\* A write at the end of what is copied extends it, and what is behind it stays.
LEMMA OverwriteCopies ==
    ASSUME NEW old \in Seq(Nat), NEW new \in Seq(Nat), NEW m \in 0..Len(new), m <= Len(old),
           \A i \in 1..m : old[i] = new[i], NEW l \in m..Len(new), NEW r,
           r = Overwrite(old, m, SubSeq(new, m + 1, l))
    PROVE  r \in Seq(Nat) /\ l <= Len(r) /\ \A i \in 1..l : r[i] = new[i]
<1> DEFINE a == SubSeq(old, 1, m)
           b == SubSeq(new, m + 1, l)
           z == SubSeq(old, m + Len(b) + 1, Len(old))
<1>1. Len(old) \in Nat /\ Len(new) \in Nat /\ m \in Nat /\ l \in Nat /\ m <= l /\ l <= Len(new)
  BY LenProperties
<1>2. a \in Seq(Nat) /\ Len(a) = m /\ \A i \in 1..m : a[i] = old[i]
  <2>1. /\ 1 \in 1..(Len(old) + 1) /\ m \in (1 - 1)..Len(old) /\ m - 1 + 1 = m
        /\ \A i \in 1..m : 1 + i - 1 = i
    BY <1>1
  <2> QED
    BY <2>1, PieceProperties
<1>3. b \in Seq(Nat) /\ Len(b) = l - m /\ \A i \in 1..(l - m) : b[i] = new[m + i]
  <2>1. /\ m + 1 \in 1..(Len(new) + 1) /\ l \in ((m + 1) - 1)..Len(new) /\ l - (m + 1) + 1 = l - m
        /\ \A i \in 1..(l - m) : (m + 1) + i - 1 = m + i
    BY <1>1
  <2> QED
    BY <2>1, PieceProperties
<1>4. z \in Seq(Nat)
  <2> DEFINE x == m + Len(b) + 1
  <2>1. x \in Int /\ Len(old) \in Int /\ \A i \in x .. Len(old) : i \in 1..Len(old)
    BY <1>1, <1>3
  <2>2. \A i \in x .. Len(old) : old[i] \in Nat
    BY <2>1, ElementOfSeq
  <2> HIDE DEF x
  <2>3. SubSeq(old, x, Len(old)) \in Seq(Nat)
    BY <2>1, <2>2, SubSeqProperties
  <2> QED
    BY <2>3 DEF x
<1> HIDE DEF a, b, z
<1>5. /\ a \o b \in Seq(Nat) /\ Len(a \o b) = Len(a) + Len(b)
      /\ Len(a) \in Nat /\ Len(b) \in Nat
      /\ DOMAIN a = 1..Len(a) /\ DOMAIN b = 1..Len(b)
      /\ DOMAIN (a \o b) = 1..(Len(a) + Len(b))
      /\ \A i \in 1..(Len(a) + Len(b)) : (a \o b)[i] = IF i <= Len(a) THEN a[i] ELSE b[i - Len(a)]
  <2>1. a \in Seq(Nat) /\ b \in Seq(Nat)
    BY <1>2, <1>3
  <2> QED
    BY <2>1, AppendElements, Zenon
<1> DEFINE d == a \o b
<1>6. d \in Seq(Nat) /\ Len(d) = l /\ \A i \in 1..l : d[i] = new[i]
  <2>1. Len(a) + Len(b) = l
    BY <1>1, <1>2, <1>3
  <2>2. ASSUME NEW i \in 1..l PROVE d[i] = new[i]
    <3>1. d[i] = IF i <= m THEN a[i] ELSE b[i - m]
      BY <1>2, <1>5, <2>1
    <3>2. CASE i <= m
      <4>1. i \in 1..m
        BY <1>1, <3>2
      <4> QED
        BY <1>2, <3>1, <3>2, <4>1
    <3>3. CASE ~(i <= m)
      <4>1. i - m \in 1..(l - m) /\ m + (i - m) = i
        BY <1>1, <3>3
      <4> QED
        BY <1>3, <3>1, <3>3, <4>1
    <3> QED
      BY <3>2, <3>3
  <2> QED
    BY <1>5, <2>1, <2>2
<1> HIDE DEF d
<1>7. /\ d \o z \in Seq(Nat) /\ Len(d \o z) = Len(d) + Len(z)
      /\ Len(d) \in Nat /\ Len(z) \in Nat
      /\ DOMAIN d = 1..Len(d) /\ DOMAIN z = 1..Len(z)
      /\ DOMAIN (d \o z) = 1..(Len(d) + Len(z))
      /\ \A i \in 1..(Len(d) + Len(z)) : (d \o z)[i] = IF i <= Len(d) THEN d[i] ELSE z[i - Len(d)]
  <2>1. d \in Seq(Nat) /\ z \in Seq(Nat)
    BY <1>4, <1>6
  <2> QED
    BY <2>1, AppendElements, Zenon
<1>8. r = d \o z
  BY DEF Overwrite, a, b, z, d
<1>9. \A i \in 1..l : i \in 1..(l + Len(z)) /\ i <= l
  BY <1>1, <1>7
<1>10. l <= l + Len(z)
  BY <1>1, <1>7
<1> QED
  BY <1>6, <1>7, <1>8, <1>9, <1>10

\* Equal up to the end of the first.
LEMMA PrefixIs ==
    ASSUME NEW s \in Seq(Nat), NEW t \in Seq(Nat), Len(s) <= Len(t), \A i \in 1..Len(s) : t[i] = s[i]
    PROVE  IsPrefix(s, t)
<1> DEFINE n == Len(s)
           v == SubSeq(t, 1, n)
<1>1. n \in Nat /\ Len(t) \in Nat
  BY LenProperties
<1>2. /\ 1 \in 1..(Len(t) + 1) /\ n \in (1 - 1)..Len(t) /\ n - 1 + 1 = n
      /\ \A k \in 1..n : 1 + k - 1 = k
  BY <1>1
<1>3. v \in Seq(Nat) /\ Len(v) = n /\ \A k \in 1..n : v[k] = t[k]
  BY <1>2, PieceProperties
<1>4. v = s
  <2> HIDE DEF v
  <2> QED
    BY <1>3, SeqEqual
<1>5. SubSeq(s, 1, n) = s
  BY SubSeqFull
<1> QED
  BY <1>4, <1>5 DEF IsPrefix

\* A file where copies go is written.
LEMMA TreeWritten ==
    ASSUME FsInv, base' = base, home' = home,
           NEW q \in Olds \cap Files, q \in DOMAIN fs, NEW new \in Seq(Nat),
           fs' = [fs EXCEPT ![q].data = new], skipped' = skipped
    PROVE  /\ Params' /\ Tree'
           /\ DOMAIN fs' = DOMAIN fs
           /\ (\A p \in DOMAIN fs : p # q => fs'[p] = fs[p]) /\ fs'[q].data = new
           /\ q # OldConf /\ FileDone(Conf, OldConf) => FileDone(Conf, OldConf)'
           /\ \A h \in Hosts : q # OldFile(h) /\ FileDone(HostFile(h), OldFile(h))
                                  => FileDone(HostFile(h), OldFile(h))'
           /\ q \notin OldFiles /\ HostsDone => HostsDone'
<1>0. Params /\ Tree
  BY DEF FsInv
<1>1. /\ DOMAIN fs' = DOMAIN fs /\ \A p \in DOMAIN fs : p # q => fs'[p] = fs[p]
      /\ fs'[q] = [fs[q] EXCEPT !.data = new] /\ fs' = [p \in DOMAIN fs' |-> fs'[p]]
  BY <1>0 DEF Tree
<1>2. fs[q] \in Node /\ (fs[q].dir <=> q \in Dirs)
  BY <1>0 DEF Tree
<1>3. fs'[q] \in Node /\ fs'[q].dir = fs[q].dir /\ fs'[q].data = new
  BY <1>1, <1>2 DEF Node
<1>4. \A p \in DOMAIN fs' : fs'[p] \in Node /\ (fs'[p].dir <=> p \in Dirs)
  BY <1>0, <1>1, <1>2, <1>3 DEF Tree
<1>5. Params' /\ Tree'
  <2>1. fs' \in [DOMAIN fs' -> Node]
    BY <1>1, <1>4
  <2>2. DOMAIN fs' \subseteq Dirs \cup Files /\ Place \in DOMAIN fs' /\ Base \in DOMAIN fs'
    BY <1>0, <1>1 DEF Tree
  <2>3. \A h \in Hosts : HostFile(h) \in DOMAIN fs' => HostsDir \in DOMAIN fs'
    BY <1>0, <1>1 DEF Tree
  <2> QED
    BY <1>0, <1>4, <2>1, <2>2, <2>3, SamePaths DEF Tree
<1>6. q \notin {Conf} \cup HostFiles
  BY <1>0, OldsAre
<1>7. ASSUME NEW p \in {Conf} \cup HostFiles, NEW r, r # q, FileDone(p, r)
      PROVE  ~skipped' /\ p \in DOMAIN fs' => r \in DOMAIN fs' /\ IsPrefix(fs'[p].data, fs'[r].data)
  BY <1>1, <1>6, <1>7 DEF FileDone
<1>8. q # OldConf /\ FileDone(Conf, OldConf) => FileDone(Conf, OldConf)'
  BY <1>7, SamePaths DEF FileDone
<1>9. ASSUME NEW h \in Hosts, q # OldFile(h), FileDone(HostFile(h), OldFile(h))
      PROVE  FileDone(HostFile(h), OldFile(h))'
  <2>1. HostFile(h) \in {Conf} \cup HostFiles
    BY DEF HostFiles
  <2>2. ~skipped' /\ HostFile(h) \in DOMAIN fs' => OldFile(h) \in DOMAIN fs' /\ IsPrefix(fs'[HostFile(h)].data, fs'[OldFile(h)].data)
    BY <1>7, <1>9, <2>1
  <2> QED
    BY <2>2, SamePaths DEF FileDone
<1>10. q \notin OldFiles /\ HostsDone => HostsDone'
  <2>1. \A h \in Hosts : OldFile(h) \in OldFiles
    BY DEF OldFiles
  <2> QED
    BY <1>1, <1>9, <2>1, SamePaths DEF HostsDone
<1> QED
  BY <1>1, <1>3, <1>5, <1>8, <1>9, <1>10

\* The file that is being copied and its copy.
LEMMA Copies ==
    ASSUME IInv, pc \in {"open", "copy"}, NEW k, k = Len(stack)
    PROVE  \E c, p, q :
             /\ c \in Cell \ {"/", NUL} /\ entry = <<c>> /\ entry \in NamesAt(k)
             /\ c \in {"tinc.conf"} \cup Hosts
             /\ p = Append(From(k), entry) /\ q = Append(To(k), entry)
             /\ p \in DOMAIN fs \cap Files /\ q \in Olds \cap Files
             /\ HoldsZ(dst, Append(ToText(k), c)) /\ Path(CString(dst)) = q
             /\ Front(q) = To(k)
             /\ k = 1 => c = "tinc.conf" /\ p = Conf /\ q = OldConf
             /\ k = 2 => c \in Hosts /\ p = HostFile(c) /\ q = OldFile(c)
<1>1. PICK c \in {"tinc.conf"} \cup Hosts :
         /\ entry = <<c>> /\ entry \in NamesAt(k)
         /\ Append(From(k), <<c>>) \in DOMAIN fs \cap Files
         /\ HoldsZ(dst, Append(ToText(k), c))
  BY InCall
<1>2. FsInv /\ Params /\ Tree /\ k \in 1..2
  BY InCall
<1>3. /\ c \in Cell \ {"/", NUL} /\ (k = 1 => c \in {"hosts", "tinc.conf"})
      /\ k = 1 /\ c = "hosts" => Append(From(k), <<c>>) = HostsDir
      /\ k = 1 /\ c = "tinc.conf" => Append(From(k), <<c>>) = Conf /\ Append(To(k), <<c>>) = OldConf
      /\ k = 2 => /\ c \in Hosts /\ Append(From(k), <<c>>) = HostFile(c)
                  /\ Append(To(k), <<c>>) = OldFile(c)
  <2>1. <<c>> \in NamesAt(k)
    BY <1>1
  <2> QED
    BY <1>2, <2>1, EntryIs
<1>4. k = 1 => c = "tinc.conf"
  <2>1. HostsDir \notin Files
    BY <1>2, Distinct DEF Dirs
  <2> QED
    BY <1>1, <1>3, <2>1
<1>5. Path(CString(dst)) = Append(To(k), <<c>>)
  <2>1. Denotes(ToText(k), To(k))
    BY <1>2, AtDepth
  <2>2. Path(Append(ToText(k), c)) = Append(To(k), <<c>>)
    BY <1>3, <2>1, DenotesName
  <2> QED
    BY <1>1, <2>2, KernelSees
<1>6. Front(Append(To(k), <<c>>)) = To(k)
  <2> DEFINE e == <<c>>
  <2>1. e \in Seq(Cell)
    BY <1>3
  <2>3. To(k) \in Seq(Seq(Cell))
    BY <1>2, AtDepth DEF Paths
  <2> HIDE DEF e
  <2>2. Front(Append(To(k), e)) = To(k)
    BY <2>1, <2>3, AppendedParts
  <2> QED
    BY <2>2 DEF e
<1>7. Append(To(k), <<c>>) \in Olds \cap Files
  <2>1. CASE k = 1
    BY <1>3, <1>4, <2>1 DEF Olds, Files
  <2>2. CASE k = 2
    <3>1. c \in Hosts /\ Append(To(k), <<c>>) = OldFile(c)
      BY <1>3, <2>2
    <3>2. OldFile(c) \in OldFiles
      BY <3>1 DEF OldFiles
    <3> QED
      BY <3>1, <3>2 DEF Olds, Files
  <2> QED
    BY <1>2, <2>1, <2>2
<1> QED
  BY <1>1, <1>2, <1>3, <1>4, <1>5, <1>6, <1>7

\* The calls of handledir are the same ones, and the same file is being copied.
LEMMA SameCalls ==
    ASSUME IInv, pc \in {"open", "copy"}, pc' = "copy", base' = base, home' = home, cwd' = cwd,
           src' = src, dst' = dst, stack' = stack, entry' = entry, skipped' = skipped,
           \A p \in DOMAIN fs : p \in DOMAIN fs'
    PROVE  CallInv'
<1>0. PICK k : k = Len(stack)
  OBVIOUS
<1>1. /\ stack \in Seq(Frames) /\ k \in 1..2 /\ cwd = From(k) /\ Holds(src, FromText(k))
      /\ \A i \in 1..k :
            From(i) \in DOMAIN fs /\ Made(i) /\ stack[i].left \subseteq NamesAt(i) /\ Inner(i)
  BY <1>0, InCall
<1>2. \E c \in {"tinc.conf"} \cup Hosts :
         /\ entry = <<c>> /\ entry \in NamesAt(k)
         /\ Append(From(k), <<c>>) \in DOMAIN fs \cap Files
         /\ HoldsZ(dst, Append(ToText(k), c))
  BY <1>0, InCall
<1>3. /\ \A i : /\ From(i)' = From(i) /\ To(i)' = To(i) /\ FromText(i)' = FromText(i)
                /\ ToText(i)' = ToText(i)
      /\ Files' = Files
  BY SamePaths
<1>4. ASSUME NEW i \in 1..k PROVE Inner(i)' /\ Made(i)'
  BY <1>1, <1>3 DEF Inner, Made
<1>5. Len(stack') = k /\ k \in 0..2
  BY <1>0, <1>1
<1> QED
  BY <1>1, <1>2, <1>3, <1>4, <1>5 DEF CallInv

\* What the copying of a file leaves alone.
LEMMA StillCopying ==
    ASSUME IInv, Copying, pc' \in {"readdir", "open", "copy"}, base' = base, home' = home,
           curwd' = curwd, Params', Tree', round' = round, fails' \in Nat, lost' = lost
    PROVE  FsInv' /\ HomeInv' /\ EmptyInv'
<1>1. Back' /\ ~Astray'
  BY SamePaths DEF IInv, HomeInv, Copying, Back, Holds, Astray
<1> QED
  BY <1>1 DEF IInv, FsInv, HomeInv, EmptyInv

\* The copy is made, unless there is one already.
LEMMA NextOpen == ASSUME IInv, OpenFiles PROVE IInv'
<1>0. PICK k : k = Len(stack)
  OBVIOUS
<1>1. /\ pc = "open" /\ base' = base /\ home' = home /\ cwd' = cwd /\ src' = src /\ dst' = dst
      /\ curwd' = curwd /\ entry' = entry /\ copied' = copied /\ round' = round
      /\ skipped' = skipped /\ lost' = lost
  BY DEF OpenFiles, bufVars
<1>2. PICK c, p, q :
         /\ entry = <<c>> /\ entry \in NamesAt(k) /\ c \in {"tinc.conf"} \cup Hosts
         /\ p = Append(From(k), entry) /\ q = Append(To(k), entry)
         /\ p \in DOMAIN fs \cap Files /\ q \in Olds \cap Files
         /\ Path(CString(dst)) = q
         /\ k = 1 => c = "tinc.conf" /\ p = Conf /\ q = OldConf
         /\ k = 2 => c \in Hosts /\ p = HostFile(c) /\ q = OldFile(c)
  BY <1>0, <1>1, Copies
<1>3. FsInv /\ Params /\ Tree /\ round \in Nat /\ fails \in Nat /\ CopyInv /\ Copying /\ k \in 1..2
  BY <1>0, <1>1, InCall
<1>4. CASE fs' = Make(q, File(<<>>)) /\ pc' = "copy" /\ stack' = stack /\ ret' = ret /\ fails' = fails
  <2>1. File(<<>>) \in Node /\ (File(<<>>).dir <=> q \in Dirs)
    <3>1. q \notin Dirs
      BY <1>2, <1>3, OldsAre
    <3>2. <<>> \in Seq(Nat)
      OBVIOUS
    <3> QED
      BY <3>1, <3>2 DEF File, Node
  <2>2. /\ Params' /\ Tree' /\ Keeps
        /\ DOMAIN fs' = DOMAIN fs \cup {q} /\ \A r \in DOMAIN fs : fs'[r] = fs[r]
    BY <1>1, <1>2, <1>3, <1>4, <2>1, TreeGrows
  <2>3. FsInv' /\ HomeInv' /\ EmptyInv'
    BY <1>1, <1>3, <1>4, <2>2, StillCopying
  <2>4. CallInv'
    BY <1>1, <1>4, <2>2, SameCalls
  <2>5. CopyInv'
    <3>1. /\ Len(stack') = k /\ (k = 1 \/ k = 2) /\ k >= 1 /\ Len(stack) = k /\ copied' = 0
      BY <1>0, <1>1, <1>3, <1>4 DEF CopyInv
    <3>2. k = 2 /\ <<"tinc.conf">> \notin stack[1].left => FileDone(Conf, OldConf)'
      <4>1. k = 2 => ~Busy(1)
        BY <1>0 DEF Busy
      <4> QED
        BY <1>3, <2>2, <3>1, <4>1 DEF CopyInv, Keeps
    <3>3. k = 1 /\ <<"hosts">> \notin stack[1].left => HostsDone'
      BY <1>1, <1>3, <2>2, <3>1 DEF CopyInv, Keeps
    <3>4. ASSUME k = 2, NEW h \in Hosts, <<h>> \notin stack[2].left, entry # <<h>>
          PROVE  FileDone(HostFile(h), OldFile(h))'
      BY <1>3, <2>2, <3>1, <3>4 DEF CopyInv, Keeps
    <3>5. Len(fs'[p].data) \in Nat /\ Len(fs'[q].data) \in Nat /\ p \in DOMAIN fs' /\ q \in DOMAIN fs'
      <4>1. p \in DOMAIN fs' /\ q \in DOMAIN fs'
        BY <1>2, <2>2
      <4>2. fs'[p].data \in Seq(Nat) /\ fs'[q].data \in Seq(Nat)
        BY <2>2, <4>1 DEF Tree, Node
      <4> QED
        BY <4>1, <4>2, LenProperties
    <3>6. /\ Append(From(k)', entry') = p /\ Append(To(k)', entry') = q
      BY <1>1, <1>2, SamePaths
    <3>7. 0 \in 0..Len(fs'[p].data) /\ 0 <= Len(fs'[q].data) /\ 1..0 = {}
      BY <3>5
    <3>8. ~((pc = "open")') /\ (Busy(k))'
      BY <1>4, <3>1 DEF Busy
    <3> QED
      BY <1>1, <1>4, <3>1, <3>2, <3>3, <3>4, <3>5, <3>6, <3>7, <3>8 DEF CopyInv
  <2> QED
    BY <2>3, <2>4, <2>5 DEF IInv
<1>5. CASE Bail /\ fs' = fs /\ fails' \in Nat
  BY <1>1, <1>3, <1>5, TreeSame, Bailed
<1> QED
  <2>1. MayFail => fails' \in Nat
    BY <1>3 DEF MayFail
  <2> QED
    BY <1>2, <1>3, <1>4, <1>5, <2>1 DEF OpenFiles

\* The next chunk of a file is read and written.
LEMMA NextChunk == ASSUME IInv, CopyChunk PROVE IInv'
<1>0. PICK k : k = Len(stack)
  OBVIOUS
<1>1. /\ pc = "copy" /\ base' = base /\ home' = home /\ cwd' = cwd /\ src' = src /\ dst' = dst
      /\ curwd' = curwd /\ entry' = entry /\ round' = round /\ skipped' = skipped /\ lost' = lost
  BY DEF CopyChunk, bufVars
<1>2. PICK c, p, q :
         /\ entry = <<c>> /\ entry \in NamesAt(k) /\ c \in {"tinc.conf"} \cup Hosts
         /\ p = Append(From(k), entry) /\ q = Append(To(k), entry)
         /\ p \in DOMAIN fs \cap Files /\ q \in Olds \cap Files
         /\ Path(CString(dst)) = q
         /\ k = 1 => c = "tinc.conf" /\ p = Conf /\ q = OldConf
         /\ k = 2 => c \in Hosts /\ p = HostFile(c) /\ q = OldFile(c)
  BY <1>0, <1>1, Copies
<1>3. /\ FsInv /\ Params /\ Tree /\ round \in Nat /\ fails \in Nat /\ CopyInv /\ Copying /\ k \in 1..2
      /\ cwd = From(k)
  BY <1>0, <1>1, InCall
<1>4. /\ q \in DOMAIN fs /\ copied \in 0..Len(fs[p].data) /\ copied <= Len(fs[q].data)
      /\ \A i \in 1..copied : fs[q].data[i] = fs[p].data[i]
  <2>1. pc = "copy" /\ p = Append(From(k), entry) /\ q = Append(To(k), entry)
    BY <1>1, <1>2
  <2>2. CopyInv
    BY <1>3
  <2> QED
    BY <1>0, <2>1, <2>2 DEF CopyInv
<1>5. fs[p].data \in Seq(Nat) /\ fs[q].data \in Seq(Nat) /\ Source = fs[p].data
  BY <1>2, <1>3, <1>4 DEF Tree, Node, Source
<1>6. PICK l : l = IF copied + Chunk < Len(Source) THEN copied + Chunk ELSE Len(Source)
  OBVIOUS
<1>7. l \in copied..Len(fs[p].data) /\ l \in 0..Len(fs[p].data)
  <2>1. Len(fs[p].data) \in Nat /\ Chunk \in Nat
    BY <1>5, BackupAssumption, LenProperties
  <2> QED
    BY <1>4, <1>5, <1>6, <2>1
<1>8. PICK new : new = Overwrite(fs[q].data, copied, SubSeq(fs[p].data, copied + 1, l))
  OBVIOUS
<1>9. new \in Seq(Nat) /\ l <= Len(new) /\ \A i \in 1..l : new[i] = fs[p].data[i]
  <2> DEFINE a == fs[q].data
             b == fs[p].data
  <2>1. /\ a \in Seq(Nat) /\ b \in Seq(Nat) /\ copied \in 0..Len(b) /\ copied <= Len(a)
        /\ l \in copied..Len(b)
    BY <1>4, <1>5, <1>7
  <2>2. (\A i \in 1..copied : a[i] = b[i]) /\ new = Overwrite(a, copied, SubSeq(b, copied + 1, l))
    BY <1>4, <1>8
  <2> HIDE DEF a, b
  <2>3. new \in Seq(Nat) /\ l <= Len(new) /\ \A i \in 1..l : new[i] = b[i]
    BY <2>1, <2>2, OverwriteCopies
  <2> QED
    BY <2>3 DEF b
<1>10. CASE fs' = [fs EXCEPT ![q].data = new] /\ copied' = l /\ stack' = stack /\ pc' = pc /\ ret' = ret /\ fails' = fails
  <2>1. /\ Params' /\ Tree'
        /\ DOMAIN fs' = DOMAIN fs /\ (\A r \in DOMAIN fs : r # q => fs'[r] = fs[r]) /\ fs'[q].data = new
        /\ q # OldConf /\ FileDone(Conf, OldConf) => FileDone(Conf, OldConf)'
        /\ \A h \in Hosts : q # OldFile(h) /\ FileDone(HostFile(h), OldFile(h))
                               => FileDone(HostFile(h), OldFile(h))'
        /\ q \notin OldFiles /\ HostsDone => HostsDone'
    BY <1>1, <1>2, <1>3, <1>4, <1>9, <1>10, TreeWritten
  <2>2. FsInv' /\ HomeInv' /\ EmptyInv'
    BY <1>1, <1>3, <1>10, <2>1, StillCopying
  <2>3. CallInv'
    BY <1>1, <1>10, <2>1, SameCalls
  <2>4. CopyInv'
    <3>1. Len(stack') = k /\ (k = 1 \/ k = 2) /\ k >= 1 /\ Len(stack) = k /\ pc' = "copy"
      BY <1>0, <1>1, <1>3, <1>10
    <3>2. k = 2 /\ <<"tinc.conf">> \notin stack[1].left => FileDone(Conf, OldConf)'
      <4>1. k = 2 => ~Busy(1)
        BY <1>0 DEF Busy
      <4>2. k = 2 => q # OldConf
        <5>1. k = 2 => q \in OldFiles
          BY <1>2 DEF OldFiles
        <5> QED
          BY <1>3, <5>1, Distinct
      <4> QED
        BY <1>3, <2>1, <3>1, <4>1, <4>2 DEF CopyInv
    <3>3. k = 1 /\ <<"hosts">> \notin stack[1].left => HostsDone'
      <4>1. k = 1 => q \notin OldFiles
        BY <1>2, <1>3, Distinct
      <4> QED
        BY <1>1, <1>3, <2>1, <3>1, <4>1 DEF CopyInv
    <3>4. ASSUME k = 2, NEW h \in Hosts, <<h>> \notin stack[2].left, entry # <<h>>
          PROVE  FileDone(HostFile(h), OldFile(h))'
      <4>1. FileDone(HostFile(h), OldFile(h))
        BY <1>3, <3>1, <3>4 DEF CopyInv
      <4>2. q # OldFile(h)
        <5>1. c # h /\ c \in Hosts /\ q = OldFile(c)
          BY <1>2, <3>4
        <5> QED
          BY <1>3, <5>1, Distinct
      <4> QED
        BY <2>1, <4>1, <4>2
    <3>5. p # q /\ fs'[p] = fs[p]
      <4>1. p \in {Conf} \cup HostFiles
        BY <1>2, <3>1 DEF HostFiles
      <4>2. p # q
        BY <1>2, <1>3, <4>1, OldsAre
      <4> QED
        BY <1>2, <2>1, <4>2
    <3>6. Append(From(k)', entry') = p /\ Append(To(k)', entry') = q
      BY <1>1, <1>2, SamePaths
    <3>7. /\ q \in DOMAIN fs' /\ l \in 0..Len(fs'[p].data) /\ l <= Len(fs'[q].data)
          /\ \A i \in 1..l : fs'[q].data[i] = fs'[p].data[i]
      BY <1>4, <1>7, <1>9, <2>1, <3>5
    <3>8. (Busy(k))'
      BY <3>1 DEF Busy
    <3> QED
      BY <1>1, <1>10, <3>1, <3>2, <3>3, <3>4, <3>6, <3>7, <3>8 DEF CopyInv
  <2> QED
    BY <2>2, <2>3, <2>4 DEF IInv
<1>11. CASE Bail /\ fs' = fs /\ fails' \in Nat
  BY <1>1, <1>3, <1>11, TreeSame, Bailed
<1> QED
  <2>1. MayFail => fails' \in Nat
    BY <1>3 DEF MayFail
  <2>2. Overwrite(fs[q].data, copied, SubSeq(Source, copied + 1, l)) = new
    BY <1>5, <1>8
  <2>3. fs' = [fs EXCEPT ![q].data = Overwrite(@, copied, SubSeq(Source, copied + 1, l))]
            => fs' = [fs EXCEPT ![q].data = new]
    BY <1>4, <2>2
  <2> QED
    BY <1>2, <1>6, <1>10, <1>11, <2>1, <2>3 DEF CopyChunk

\* A file is copied; the path of its copy is cut back.
LEMMA NextCopied == ASSUME IInv, CopyEnds PROVE IInv'
<1>0. PICK k : k = Len(stack)
  OBVIOUS
<1>1. /\ pc = "copy" /\ copied = Len(Source) /\ pc' = "readdir" /\ dst' = Cut(dst, stack[k].dstdirlen)
      /\ base' = base /\ fs' = fs /\ home' = home /\ cwd' = cwd /\ src' = src /\ curwd' = curwd
      /\ stack' = stack /\ entry' = entry /\ copied' = copied /\ ret' = ret /\ round' = round
      /\ fails' = fails /\ skipped' = skipped /\ lost' = lost
  BY <1>0 DEF CopyEnds, Top
<1>2. PICK c, p, q :
         /\ c \in Cell \ {"/", NUL}
         /\ entry = <<c>> /\ entry \in NamesAt(k) /\ c \in {"tinc.conf"} \cup Hosts
         /\ p = Append(From(k), entry) /\ q = Append(To(k), entry)
         /\ p \in DOMAIN fs \cap Files /\ q \in Olds \cap Files
         /\ HoldsZ(dst, Append(ToText(k), c))
         /\ k = 1 => c = "tinc.conf" /\ p = Conf /\ q = OldConf
         /\ k = 2 => c \in Hosts /\ p = HostFile(c) /\ q = OldFile(c)
  BY <1>0, <1>1, Copies
<1>3. /\ FsInv /\ Params /\ Tree /\ CopyInv /\ Copying /\ k \in 1..2 /\ stack \in Seq(Frames)
      /\ cwd = From(k) /\ Holds(src, FromText(k))
      /\ \A i \in 1..k :
           From(i) \in DOMAIN fs /\ Made(i) /\ stack[i].left \subseteq NamesAt(i) /\ Inner(i)
  BY <1>0, <1>1, InCall
<1>4. /\ q \in DOMAIN fs /\ copied \in 0..Len(fs[p].data) /\ copied <= Len(fs[q].data)
      /\ \A i \in 1..copied : fs[q].data[i] = fs[p].data[i]
  <2>1. pc = "copy" /\ p = Append(From(k), entry) /\ q = Append(To(k), entry)
    BY <1>1, <1>2
  <2>2. CopyInv
    BY <1>3
  <2> QED
    BY <1>0, <2>1, <2>2 DEF CopyInv
<1>5. IsPrefix(fs[p].data, fs[q].data)
  <2> DEFINE a == fs[p].data
             b == fs[q].data
  <2>1. a \in Seq(Nat) /\ b \in Seq(Nat) /\ copied = Len(a)
    BY <1>1, <1>2, <1>3, <1>4 DEF Tree, Node, Source
  <2>2. Len(a) <= Len(b) /\ \A i \in 1..Len(a) : b[i] = a[i]
    BY <1>4, <2>1
  <2> HIDE DEF a, b
  <2>3. IsPrefix(a, b)
    BY <2>1, <2>2, PrefixIs
  <2> QED
    BY <2>3 DEF a, b
<1>6. Params' /\ Tree' /\ Keeps
  BY <1>1, <1>3, TreeSame
<1>7. FsInv' /\ HomeInv' /\ EmptyInv'
  BY <1>1, <1>3, <1>6, StillCopying DEF FsInv
<1>8. Holds(dst', ToText(k))
  <2>1. stack[k].dstdirlen = Len(ToText(k))
    BY <1>3 DEF Inner
  <2>2. ToText(k) \in Text /\ Holds(dst, Append(ToText(k), c))
    BY <1>2, <1>3, AtDepth DEF HoldsZ
  <2> QED
    BY <1>1, <1>2, <2>1, <2>2, NameCut
<1>9. CallInv'
  <2>1. \A i : /\ From(i)' = From(i) /\ To(i)' = To(i) /\ FromText(i)' = FromText(i)
               /\ ToText(i)' = ToText(i)
    BY <1>1, SamePaths
  <2>2. ASSUME NEW i \in 1..k PROVE Inner(i)' /\ Made(i)'
    BY <1>1, <1>3, <2>1 DEF Inner, Made
  <2>3. Len(stack') = k /\ k \in 0..2
    BY <1>0, <1>1, <1>3
  <2> QED
    BY <1>1, <1>3, <1>8, <2>1, <2>2, <2>3 DEF CallInv
<1>10. CopyInv'
  <2>1. Len(stack') = k /\ (k = 1 \/ k = 2) /\ k >= 1 /\ Len(stack) = k /\ ~(Busy(1)') /\ ~(Busy(2)')
    BY <1>0, <1>1, <1>3 DEF Busy
  <2>2. FileDone(p, q)
    BY <1>4, <1>5 DEF FileDone
  <2>3. <<"tinc.conf">> \notin stack[1].left => FileDone(Conf, OldConf)'
    <3>1. CASE k = 1
      BY <1>2, <1>6, <2>2, <3>1 DEF Keeps
    <3>2. CASE k = 2
      <4>1. ~Busy(1)
        BY <2>1, <3>2 DEF Busy
      <4> QED
        BY <1>3, <1>6, <2>1, <4>1 DEF CopyInv, Keeps
    <3> QED
      BY <2>1, <3>1, <3>2
  <2>4. k = 1 /\ <<"hosts">> \notin stack[1].left => HostsDone'
    BY <1>1, <1>3, <1>6, <2>1 DEF CopyInv, Keeps
  <2>5. ASSUME k = 2, NEW h \in Hosts, <<h>> \notin stack[2].left
        PROVE  FileDone(HostFile(h), OldFile(h))'
    <3>1. CASE c = h
      BY <1>2, <1>6, <2>2, <2>5, <3>1 DEF Keeps
    <3>2. CASE c # h
      <4>1. entry # <<h>>
        BY <1>2, <3>2, OneCell
      <4> QED
        BY <1>3, <1>6, <2>1, <2>5, <4>1 DEF CopyInv, Keeps
    <3> QED
      BY <3>1, <3>2
  <2> QED
    BY <1>1, <2>1, <2>3, <2>4, <2>5 DEF CopyInv
<1> QED
  BY <1>7, <1>9, <1>10 DEF IInv

\* A call of handledir returns.
LEMMA NextLeave == ASSUME IInv, LeaveDir PROVE IInv'
<1>0. PICK k : k = Len(stack)
  OBVIOUS
<1> DEFINE frames == Pop
           caller == frames[Len(frames)]
           s == string_ensurez(Cut(src, caller.srcdirlen))
           d == string_ensurez(Cut(dst, caller.dstdirlen))
<1>1. /\ pc = "readdir" /\ stack[k].left = {} /\ base' = base /\ fs' = fs /\ home' = home
      /\ curwd' = curwd /\ entry' = entry /\ copied' = copied /\ round' = round
      /\ skipped' = skipped /\ lost' = lost
  BY <1>0 DEF LeaveDir, Leave, Top
<1>2. IF frames = <<>>
        THEN ret' = TRUE /\ pc' = "restore" /\ stack' = <<>> /\ fails' = fails
        ELSE /\ src' = s /\ dst' = d
             /\ \/ cwd' = Path(CString(s)) /\ stack' = frames /\ pc' = pc /\ ret' = ret /\ fails' = fails
                \/ MayFail /\ Bail
  BY DEF LeaveDir, Leave
<1>3. /\ FsInv /\ Params /\ Tree /\ round \in Nat /\ fails \in Nat /\ HomeInv /\ CopyInv /\ Copying
      /\ stack \in Seq(Frames) /\ stack # <<>> /\ k \in 1..2 /\ (k # 1 => k = 2)
      /\ Holds(src, FromText(k)) /\ Holds(dst, ToText(k))
  BY <1>0, <1>1, InCall
<1>4. \A i \in 1..k :
         /\ From(i) \in DOMAIN fs /\ Made(i) /\ stack[i].left \subseteq NamesAt(i)
         /\ i < k => Inner(i)
  BY <1>0, <1>1, InCall
<1>5. Params' /\ Tree' /\ Keeps
  BY <1>1, <1>3, TreeSame
<1>6. frames \in Seq(Frames) /\ Len(frames) = k - 1 /\ \A i \in 1..(k - 1) : frames[i] = stack[i]
  <2>1. stack[k] \in Frames
    BY <1>0, <1>3, ElementOfSeq
  <2> QED
    BY <1>0, <1>3, <2>1, TopReplaced DEF Pop
<1>7. Back' /\ ~Astray'
  BY <1>1, <1>3, SamePaths DEF HomeInv, Back, Holds, Astray
<1>8. CASE k = 1
  <2>1. frames = <<>>
    BY <1>6, <1>8, EmptySeq
  <2>2. ret' = TRUE /\ pc' = "restore" /\ stack' = <<>> /\ fails' = fails
    BY <1>2, <2>1
  <2>3. FileDone(Conf, OldConf)' /\ HostsDone'
    <3>1. ~Busy(1) /\ Len(stack) = 1 /\ 1 >= 1 /\ pc # "handledir"
      BY <1>0, <1>1, <1>8 DEF Busy
    <3>2. <<"tinc.conf">> \notin stack[1].left /\ <<"hosts">> \notin stack[1].left
      BY <1>1, <1>8
    <3> QED
      BY <1>3, <1>5, <3>1, <3>2 DEF CopyInv, Keeps
  <2>4. FsInv' /\ HomeInv'
    BY <1>1, <1>3, <1>5, <1>7, <2>2 DEF FsInv, HomeInv
  <2>5. CallInv' /\ EmptyInv'
    BY <2>2 DEF CallInv, Copying, EmptyInv
  <2>6. CopyInv'
    BY <2>2, <2>3 DEF CopyInv, Copying
  <2> QED
    BY <2>4, <2>5, <2>6 DEF IInv
<1>9. CASE k = 2
  <2>1. frames # <<>> /\ Len(frames) = 1 /\ frames[1] = stack[1] /\ caller = stack[1]
    <3> HIDE DEF frames
    <3>1. Len(frames) = 1 /\ 1 \in 1..(k - 1)
      BY <1>6, <1>9
    <3>2. frames[1] = stack[1]
      BY <1>6, <3>1
    <3>3. frames # <<>>
      <4>1. Len(<<>>) = 0
        OBVIOUS
      <4> QED
        BY <3>1, <4>1
    <3> QED
      BY <3>1, <3>2, <3>3
  <2>2. caller.srcdirlen = Len(FromText(1)) /\ caller.dstdirlen = Len(ToText(1))
    <3>1. 1 \in 1..k /\ 1 < k
      BY <1>9
    <3> QED
      BY <1>4, <2>1, <3>1 DEF Inner
  <2>3. HoldsZ(s, FromText(1)) /\ HoldsZ(d, ToText(1))
    <3> HIDE DEF caller
    <3>1. FromText(1) \in Text /\ ToText(1) \in Text
      BY <1>3, AtDepth
    <3>2. /\ Holds(src, Append(Append(FromText(1), "hosts"), "/"))
          /\ Holds(dst, Append(Append(ToText(1), "hosts"), "/"))
      BY <1>3, <1>9 DEF FromText, ToText, SrcHosts, DstHosts
    <3>3. "hosts" \in Cell \ {"/", NUL}
      BY CellNames
    <3>4. Holds(Cut(src, Len(FromText(1))), FromText(1)) /\ Holds(Cut(dst, Len(ToText(1))), ToText(1))
      BY <3>1, <3>2, <3>3, NameCut
    <3> QED
      BY <2>2, <3>4, EnsurezHolds
  <2> HIDE DEF frames, caller, s, d
  <2>4. CASE cwd' = Path(CString(s)) /\ stack' = frames /\ src' = s /\ dst' = d /\ pc' = pc /\ ret' = ret /\ fails' = fails
    <3>1. cwd' = From(1)
      <4>1. Path(FromText(1)) = From(1)
        BY <1>3, AtDepth
      <4> QED
        BY <2>3, <2>4, <4>1, KernelSees
    <3>2. FsInv' /\ HomeInv' /\ EmptyInv'
      BY <1>1, <1>3, <1>5, <2>4, StillCopying
    <3>3. Len(stack') = 1 /\ stack' \in Seq(Frames) /\ stack'[1] = stack[1] /\ 1 \in 0..2 /\ 1 \in 1..2
      <4>1. stack' = frames /\ Len(frames) = 1 /\ frames[1] = stack[1]
        BY <2>1, <2>4
      <4>2. frames \in Seq(Frames)
        BY <1>6
      <4>3. 1 \in 0..2 /\ 1 \in 1..2
        OBVIOUS
      <4> QED
        BY <4>1, <4>2, <4>3, Zenon
    <3>4. CallInv'
      <4>1. \A i : /\ From(i)' = From(i) /\ To(i)' = To(i) /\ FromText(i)' = FromText(i)
                   /\ ToText(i)' = ToText(i)
        BY <1>1, SamePaths
      <4>2. ASSUME NEW i \in 1..1 PROVE i = 1 /\ ~(i < 1) /\ i \in 1..k
        BY <1>9
      <4>3. ASSUME NEW i \in 1..1
            PROVE  From(i) \in DOMAIN fs' /\ Made(i)' /\ stack'[i].left \subseteq NamesAt(i)
        <5>1. From(i) \in DOMAIN fs /\ Made(i) /\ stack[i].left \subseteq NamesAt(i) /\ i = 1
          BY <1>4, <4>2
        <5> QED
          BY <1>1, <3>3, <4>1, <5>1 DEF Made
      <4>4. Holds(src', FromText(1)) /\ Holds(dst', ToText(1))
        BY <2>3, <2>4 DEF HoldsZ
      <4>5. pc' = "readdir"
        BY <1>1, <2>4
      <4> QED
        BY <3>1, <3>3, <4>1, <4>2, <4>3, <4>4, <4>5 DEF CallInv
    <3>5. CopyInv'
      <4>1. ~Busy(1) /\ ~Busy(2) /\ Len(stack) = 2 /\ 2 >= 1 /\ 1 # 2 /\ pc' = "readdir"
        BY <1>0, <1>1, <1>9, <2>4 DEF Busy
      <4>2. <<"tinc.conf">> \notin stack[1].left => FileDone(Conf, OldConf)'
        BY <1>3, <1>5, <4>1 DEF CopyInv, Keeps
      <4>3. HostsDone'
        <5>1. \A h \in Hosts : FileDone(HostFile(h), OldFile(h))
          BY <1>1, <1>3, <1>9, <4>1 DEF CopyInv
        <5>2. skipped \/ OldHosts \in DOMAIN fs
          <6>1. 2 \in 1..k
            BY <1>9
          <6> QED
            BY <1>4, <6>1 DEF To, Made
        <5> QED
          BY <1>5, <5>1, <5>2 DEF Keeps, HostsDone
      <4> QED
        BY <3>3, <4>1, <4>2, <4>3 DEF CopyInv
    <3> QED
      BY <3>2, <3>4, <3>5 DEF IInv
  <2>5. CASE MayFail /\ Bail
    <3>1. fails' \in Nat
      BY <1>3, <2>5 DEF MayFail
    <3> QED
      BY <1>1, <1>3, <1>5, <2>5, <3>1, Bailed
  <2> QED
    BY <1>2, <2>1, <2>4, <2>5
<1> QED
  BY <1>3, <1>8, <1>9

\* The way back, at the end of both functions.
LEMMA GoesHome == ASSUME Params, Holds(curwd, HomeText) PROVE Path(CString(string_ensurez(curwd))) = home
<1>1. HoldsZ(string_ensurez(curwd), HomeText)
  BY EnsurezHolds
<1>2. Denotes(HomeText, home) /\ "hosts" \in Cell \ {"/", NUL}
  BY TextsDenote, CellNames
<1>3. Path(HomeText) = home
  BY <1>2, DenotesName
<1> QED
  BY <1>1, <1>3, KernelSees

\* Whether it has failed or not.
LEMMA GoneBack ==
    ASSUME Params, Back, GoBack, fails \in Nat, home' = home
    PROVE  /\ cwd' = home' \/ lost'
           /\ fails' \in Nat /\ (fails' = 0 => fails = 0)
<1>1. CASE cwd' = Path(CString(string_ensurez(curwd))) /\ fails' = fails /\ lost' = lost
  <2>1. lost \/ cwd' = home
    BY <1>1, GoesHome DEF Back
  <2> QED
    BY <1>1, <2>1
<1>2. CASE MayFail /\ lost' = TRUE
  BY <1>2 DEF MayFail
<1> QED
  BY <1>1, <1>2 DEF GoBack

\* fs_cp_r returns.
LEMMA NextRestore == ASSUME IInv, RestoreCwd, ~Astray' PROVE IInv'
<1>1. /\ pc = "restore" /\ pc' = "cleanup" /\ GoBack
      /\ base' = base /\ fs' = fs /\ home' = home /\ stack' = stack /\ ret' = ret /\ round' = round
      /\ skipped' = skipped
  BY DEF RestoreCwd
<1>2. /\ FsInv /\ Params /\ round \in Nat /\ fails \in Nat /\ stack = <<>> /\ Back
      /\ ret => FileDone(Conf, OldConf) /\ HostsDone
  BY <1>1 DEF IInv, FsInv, HomeInv, CopyInv
<1>3. Params' /\ Tree' /\ Keeps
  BY <1>1, <1>2, TreeSame
<1>4. (cwd' = home' \/ lost') /\ fails' \in Nat
  BY <1>1, <1>2, GoneBack
<1>5. FsInv' /\ HomeInv'
  BY <1>1, <1>2, <1>3, <1>4 DEF FsInv, HomeInv
<1>6. CallInv' /\ EmptyInv'
  BY <1>1 DEF CallInv, Copying, EmptyInv
<1>7. CopyInv'
  BY <1>1, <1>2, <1>3 DEF CopyInv, Copying, Keeps
<1> QED
  BY <1>5, <1>6, <1>7 DEF IInv

\* fs_empty_dir returns.
LEMMA NextRestore2 == ASSUME IInv, RestoreCwd2, ~Astray' PROVE IInv'
<1>1. /\ pc = "restore2" /\ pc' \in {"write", "backup"} /\ GoBack
      /\ base' = base /\ fs' = fs /\ home' = home /\ stack' = stack /\ round' = round
      /\ skipped' = skipped
  BY DEF RestoreCwd2
<1>2. /\ FsInv /\ Params /\ round \in Nat /\ fails \in Nat /\ stack = <<>> /\ Back
      /\ fails = 0 => \A h \in Hosts : HostFile(h) \notin DOMAIN fs
  BY <1>1 DEF IInv, FsInv, HomeInv, EmptyInv
<1>3. Params' /\ Tree'
  BY <1>1, <1>2, TreeSame
<1>4. (cwd' = home' \/ lost') /\ fails' \in Nat /\ (fails' = 0 => fails = 0)
  BY <1>1, <1>2, GoneBack
<1>5. FsInv' /\ HomeInv'
  BY <1>1, <1>2, <1>3, <1>4 DEF FsInv, HomeInv
<1>6. CallInv' /\ CopyInv'
  BY <1>1 DEF CallInv, Copying, CopyInv
<1>7. EmptyInv'
  <2>1. \A h : HostFile(h)' = HostFile(h)
    BY <1>1, SamePaths
  <2> QED
    BY <1>1, <1>2, <1>4, <2>1 DEF EmptyInv
<1> QED
  BY <1>5, <1>6, <1>7 DEF IInv

\* fs_empty_dir goes to $base/hosts and begins to read it.
LEMMA NextEmpty == ASSUME IInv, fs_empty_dir PROVE IInv'
<1> DEFINE a  == Absolute(base \o <<"/", "hosts">>)
           d  == string_ensurez(a)
           at == Path(CString(d))
           to == fs_ensure_suffix(d)
<1>1. /\ pc = "cleanup" /\ base' = base /\ fs' = fs /\ home' = home
      /\ round' = round /\ skipped' = skipped /\ lost' = lost
  BY DEF fs_empty_dir
<1>2. /\ FsInv /\ Params /\ Tree /\ round \in Nat /\ fails \in Nat /\ (cwd = home \/ lost) /\ stack = <<>>
      /\ ~Astray
  BY <1>1 DEF IInv, FsInv, HomeInv
<1>3. HoldsZ(d, Append(SrcText, "hosts"))
  <2>1. Holds(a, Append(SrcText, "hosts"))
    BY <1>2, AbsoluteIs DEF HoldsZ, Astray
  <2> QED
    BY <2>1, EnsurezHolds
<1>4. Denotes(SrcText, Base) /\ Denotes(SrcHosts, HostsDir)
  BY <1>2, TextsDenote
<1>5. "hosts" \in Cell \ {"/", NUL} /\ "hosts" \in Cell \ {NUL, "/"}
  BY CellNames
<1>6. at = HostsDir
  <2>1. Path(Append(SrcText, "hosts")) = HostsDir
    BY <1>4, <1>5, DenotesName DEF HostsDir
  <2> QED
    BY <1>3, <2>1, KernelSees
<1>7. HoldsZ(to, SrcHosts) /\ Path(CString(to)) = HostsDir
  <2>1. SrcText \in Text /\ Holds(d, Append(SrcText, "hosts"))
    BY <1>3, <1>4, <1>5, DenotesName DEF HoldsZ
  <2> HIDE DEF d
  <2>2. HoldsZ(to, SrcHosts)
    BY <1>5, <2>1, SuffixHolds DEF SrcHosts
  <2>3. Path(SrcHosts) = HostsDir
    BY <1>4, <1>5, DenotesName
  <2> QED
    BY <2>2, <2>3, KernelSees
<1>8. Params' /\ Tree'
  BY <1>1, <1>2, TreeSame
<1>9. ~Astray' /\ (curwd' = fs_get_cwd => Back')
  <2>1. cwd = home => Holds(fs_get_cwd, HomeText)
    BY <1>2, GetcwdIs
  <2>2. HomeText' = HomeText
    BY <1>1, SamePaths
  <2>3. cwd = home /\ curwd' = fs_get_cwd => Holds(curwd, HomeText)'
    BY <2>1, <2>2 DEF Holds
  <2> QED
    BY <1>1, <1>2, <2>3 DEF Back, Astray
<1> HIDE DEF a, d, at, to
<1>10. \A h : HostFile(h)' = HostFile(h)
  BY <1>1, SamePaths
<1>11. CASE /\ pc' = "restore2" /\ stack' = stack /\ curwd' = fs_get_cwd /\ fails' \in Nat
            /\ fails' = 0 => HostsDir \notin DOMAIN fs
  <2>1. fails' = 0 => \A h \in Hosts : HostFile(h) \notin DOMAIN fs'
    BY <1>1, <1>2, <1>11 DEF Tree
  <2>2. FsInv' /\ HomeInv'
    BY <1>1, <1>2, <1>8, <1>9, <1>11 DEF FsInv, HomeInv
  <2>3. CallInv' /\ CopyInv' /\ EmptyInv'
    BY <1>10, <1>11, <2>1 DEF CallInv, CopyInv, Copying, EmptyInv
  <2> QED
    BY <2>2, <2>3 DEF IInv
<1>12. CASE /\ cwd' = Path(CString(to)) /\ pc' = "unlink" /\ dst' = to /\ curwd' = fs_get_cwd
            /\ stack' = <<[left |-> Entries(fs, at)]>> /\ fails' = fails
  <2> DEFINE E == Entries(fs, HostsDir)
  <2>1. stack' = <<[left |-> E]>>
    BY <1>6, <1>12
  <2>2. /\ E \subseteq NamesAt(2) /\ \A h \in Hosts : HostFile(h) \in DOMAIN fs => <<h>> \in E
    <3>1. From(2) = HostsDir
      BY DEF From
    <3>2. /\ Entries(fs, From(2)) \subseteq NamesAt(2)
          /\ \A x \in NamesAt(2) : Append(From(2), x) \in DOMAIN fs => x \in Entries(fs, From(2))
      <4>1. DOMAIN fs \subseteq Dirs \cup Files /\ 2 \in 1..2
        BY <1>2 DEF Tree
      <4> QED
        BY <1>2, <4>1, EntriesAre
    <3>3. \A h \in Hosts : <<h>> \in NamesAt(2) /\ Append(HostsDir, <<h>>) = HostFile(h)
      BY DEF NamesAt, HostFile
    <3> QED
      BY <3>1, <3>2, <3>3
  <2> HIDE DEF E
  <2>3. Len(stack') = 1 /\ stack'[1].left = E /\ stack' = <<[left |-> stack'[1].left]>>
    BY <2>1
  <2>4. FsInv' /\ HomeInv'
    BY <1>1, <1>2, <1>8, <1>9, <1>12 DEF FsInv, HomeInv
  <2>5. CallInv' /\ CopyInv'
    BY <1>12 DEF CallInv, CopyInv, Copying
  <2>6. EmptyInv'
    <3>1. Holds(dst', SrcHosts) /\ cwd' = HostsDir
      BY <1>7, <1>12 DEF HoldsZ
    <3>2. SrcHosts' = SrcHosts /\ HostsDir' = HostsDir
      BY <1>1, SamePaths
    <3> QED
      BY <1>1, <1>10, <1>12, <2>2, <2>3, <3>1, <3>2 DEF EmptyInv
  <2> QED
    BY <2>4, <2>5, <2>6 DEF IInv
<1>13. CASE MayFail /\ pc' = "backup" /\ cwd' = cwd /\ stack' = stack
  <2>1. fails' \in Nat
    BY <1>2, <1>13 DEF MayFail
  <2>2. FsInv' /\ HomeInv'
    BY <1>1, <1>2, <1>8, <1>9, <1>13, <2>1 DEF FsInv, HomeInv
  <2>3. CallInv' /\ CopyInv' /\ EmptyInv'
    BY <1>13 DEF CallInv, CopyInv, Copying, EmptyInv
  <2> QED
    BY <2>2, <2>3 DEF IInv
<1> QED
  <2>1. MayFail => fails' \in Nat /\ fails' # 0
    BY <1>2 DEF MayFail
  <2>2. \/ /\ curwd' = fs_get_cwd
           /\ IF at \notin DOMAIN fs
                THEN pc' = "restore2" /\ stack' = stack /\ fails' = fails
                ELSE \/ /\ cwd' = Path(CString(to)) /\ pc' = "unlink" /\ dst' = to
                        /\ stack' = <<[left |-> Entries(fs, at)]>> /\ fails' = fails
                     \/ MayFail /\ pc' = "restore2" /\ stack' = stack
        \/ MayFail /\ pc' = "backup" /\ cwd' = cwd /\ stack' = stack
    BY DEF fs_empty_dir, a, d, at, to
  <2> QED
    BY <1>2, <1>6, <1>11, <1>12, <1>13, <2>1, <2>2

\* A file of $base/hosts is removed.
LEMMA TreeShrinks ==
    ASSUME FsInv, base' = base, home' = home, NEW h \in Hosts,
           fs' = [p \in DOMAIN fs \ {HostFile(h)} |-> fs[p]]
    PROVE  Params' /\ Tree'
<1>0. Params /\ Tree
  BY DEF FsInv
<1>1. /\ DOMAIN fs' = DOMAIN fs \ {HostFile(h)} /\ \A p \in DOMAIN fs' : fs'[p] = fs[p]
      /\ fs' = [p \in DOMAIN fs' |-> fs'[p]]
  OBVIOUS
<1>2. HostFile(h) \notin {Place, Base, HostsDir}
  <2>1. HostFile(h) \in HostFiles
    BY DEF HostFiles
  <2> QED
    BY <1>0, <2>1, Distinct
<1>3. fs' \in [DOMAIN fs' -> Node] /\ \A p \in DOMAIN fs' : fs'[p].dir <=> p \in Dirs
  BY <1>0, <1>1 DEF Tree
<1>4. DOMAIN fs' \subseteq Dirs \cup Files /\ Place \in DOMAIN fs' /\ Base \in DOMAIN fs'
  BY <1>0, <1>1, <1>2 DEF Tree
<1>5. \A g \in Hosts : HostFile(g) \in DOMAIN fs' => HostsDir \in DOMAIN fs'
  BY <1>0, <1>1, <1>2 DEF Tree
<1> QED
  BY <1>0, <1>3, <1>4, <1>5, SamePaths DEF Tree

\* An entry of $base/hosts is looked at, and removed if it is a file.
LEMMA NextUnlink == ASSUME IInv, UnlinkEntry PROVE IInv'
<1>1. /\ pc = "unlink" /\ pc' = pc /\ base' = base /\ home' = home /\ cwd' = cwd /\ curwd' = curwd
      /\ round' = round /\ skipped' = skipped /\ lost' = lost
  BY DEF UnlinkEntry, Unlink
<1>2. /\ FsInv /\ Params /\ Tree /\ round \in Nat /\ fails \in Nat /\ Back /\ ~Astray
      /\ Len(stack) = 1 /\ cwd = HostsDir /\ Holds(dst, SrcHosts) /\ stack[1].left \subseteq NamesAt(2)
      /\ fails = 0 => \A h \in Hosts : HostFile(h) \in DOMAIN fs => <<h>> \in stack[1].left
  BY <1>1 DEF IInv, FsInv, HomeInv, EmptyInv
<1>3. PICK name \in stack[1].left :
        /\ stack' = <<[left |-> stack[1].left \ {name}]>>
        /\ IF IsFile(Append(cwd, name))
             THEN /\ dst' = Cut(string_concat(dst, name), dst.length)
                  /\ \/ /\ fs' = [p \in DOMAIN fs \ {Path(CString(string_concat(dst, name)))} |-> fs[p]]
                        /\ fails' = fails
                     \/ MayFail /\ fs' = fs
             ELSE dst' = dst /\ fs' = fs /\ fails' = fails
  BY <1>2 DEF UnlinkEntry, Unlink, Top
<1>4. PICK h \in Hosts : name = <<h>> /\ h \in Cell \ {"/", NUL}
  <2>1. name \in NamesAt(2) /\ 2 \in 1..2
    BY <1>2, <1>3
  <2>2. PICK c \in Cell \ {"/", NUL} : name = <<c>> /\ (2 = 2 => c \in Hosts)
    BY <2>1, NamesAre
  <2> QED
    BY <2>2
<1>5. Append(cwd, name) = HostFile(h) /\ HostFile(h) \in Files /\ HostFile(h) \notin Dirs
  <2>1. HostFile(h) \in Files
    BY DEF Files, HostFiles
  <2> QED
    BY <1>2, <1>4, <2>1, Distinct DEF HostFile
<1>6. Denotes(SrcHosts, HostsDir)
  BY <1>2, TextsDenote
<1>7. HoldsZ(string_concat(dst, name), Append(SrcHosts, h)) /\ Path(Append(SrcHosts, h)) = HostFile(h)
  BY <1>2, <1>4, <1>6, NameBehind DEF HostFile
<1>8. Path(CString(string_concat(dst, name))) = HostFile(h)
  BY <1>7, KernelSees
<1>9. Holds(Cut(string_concat(dst, name), dst.length), SrcHosts)
  <2>1. dst.length = Len(SrcHosts) /\ SrcHosts \in Text
    BY <1>2 DEF Holds
  <2>2. Holds(string_concat(dst, name), Append(SrcHosts, h))
    BY <1>7 DEF HoldsZ
  <2> QED
    BY <1>4, <2>1, <2>2, NameCut
<1>10. Holds(dst', SrcHosts)
  BY <1>2, <1>3, <1>9
<1>11. Params' /\ Tree'
  <2>1. CASE fs' = fs
    BY <1>1, <1>2, <2>1, TreeSame
  <2>2. CASE fs' = [p \in DOMAIN fs \ {HostFile(h)} |-> fs[p]]
    BY <1>1, <1>2, <2>2, TreeShrinks
  <2> QED
    BY <1>3, <1>8, <2>1, <2>2
<1>12. fails' \in Nat /\ (fails' = 0 => fails = 0 /\ HostFile(h) \notin DOMAIN fs')
  <2>1. MayFail => fails' \in Nat /\ fails' # 0
    BY <1>2 DEF MayFail
  <2>2. CASE IsFile(Append(cwd, name))
    BY <1>2, <1>3, <1>8, <2>1, <2>2
  <2>3. CASE ~IsFile(Append(cwd, name))
    <3>1. HostFile(h) \notin DOMAIN fs
      BY <1>2, <1>5, <2>3 DEF IsFile, Tree
    <3> QED
      BY <1>2, <1>3, <2>3, <3>1
  <2> QED
    BY <2>2, <2>3
<1>13. DOMAIN fs' \subseteq DOMAIN fs
  BY <1>3
<1>14. /\ Len(stack') = 1 /\ stack'[1].left = stack[1].left \ {name}
       /\ stack' = <<[left |-> stack'[1].left]>>
  BY <1>3
<1>15. /\ HostsDir' = HostsDir /\ SrcHosts' = SrcHosts /\ HomeText' = HomeText
       /\ \A g : HostFile(g)' = HostFile(g)
  BY <1>1, SamePaths
<1>16. FsInv' /\ HomeInv'
  <2>1. Back' /\ ~Astray'
    BY <1>1, <1>2, <1>15 DEF Back, Holds, Astray
  <2> QED
    BY <1>1, <1>2, <1>11, <1>12, <1>15, <2>1 DEF FsInv, HomeInv
<1>17. CallInv' /\ CopyInv'
  BY <1>1 DEF CallInv, CopyInv, Copying
<1>18. EmptyInv'
  <2>1. ASSUME fails' = 0, NEW g \in Hosts, HostFile(g) \in DOMAIN fs' PROVE <<g>> \in stack'[1].left
    <3>1. <<g>> \in stack[1].left
      BY <1>2, <1>12, <1>13, <2>1
    <3>2. g # h
      BY <1>12, <2>1
    <3>3. <<g>> # name
      BY <1>4, <3>2, OneCell
    <3> QED
      BY <1>14, <3>1, <3>3
  <2>2. stack'[1].left \subseteq NamesAt(2)
    BY <1>2, <1>14
  <2> QED
    BY <1>1, <1>2, <1>10, <1>14, <1>15, <2>1, <2>2 DEF EmptyInv
<1> QED
  BY <1>16, <1>17, <1>18 DEF IInv

\* A call fails with an entry of $base/hosts left to read.
LEMMA NextUnlinkFails == ASSUME IInv, UnlinkFails PROVE IInv'
<1>1. /\ pc = "unlink" /\ base' = base /\ home' = home /\ fs' = fs /\ cwd' = cwd /\ dst' = dst
      /\ curwd' = curwd /\ round' = round /\ skipped' = skipped /\ lost' = lost /\ MayFail
  BY DEF UnlinkFails, bufVars
<1>2. /\ FsInv /\ Params /\ Tree /\ round \in Nat /\ fails \in Nat /\ Back /\ ~Astray
      /\ Len(stack) = 1 /\ cwd = HostsDir /\ Holds(dst, SrcHosts) /\ stack[1].left \subseteq NamesAt(2)
  BY <1>1 DEF IInv, FsInv, HomeInv, EmptyInv
<1>3. fails' \in Nat /\ fails' # 0
  BY <1>1, <1>2 DEF MayFail
<1>4. Params' /\ Tree' /\ Back' /\ ~Astray'
  <2>1. Params' /\ Tree'
    BY <1>1, <1>2, TreeSame
  <2> QED
    BY <1>1, <1>2, <2>1, SamePaths DEF Back, Holds, Astray
<1>5. CASE /\ \E rest \in {Top.left \ {name} : name \in Top.left} \cup {{}} : stack' = <<[left |-> rest]>>
           /\ pc' = pc
  <2>1. PICK rest : rest \subseteq stack[1].left /\ stack' = <<[left |-> rest]>>
    BY <1>2, <1>5 DEF Top
  <2>2. Len(stack') = 1 /\ stack'[1].left = rest /\ stack' = <<[left |-> stack'[1].left]>>
    BY <2>1
  <2>3. FsInv' /\ HomeInv'
    BY <1>1, <1>2, <1>3, <1>4, <1>5 DEF FsInv, HomeInv
  <2>4. CallInv' /\ CopyInv'
    BY <1>1, <1>5 DEF CallInv, CopyInv, Copying
  <2>5. EmptyInv'
    <3>1. HostsDir' = HostsDir /\ SrcHosts' = SrcHosts
      BY <1>1, SamePaths
    <3>2. stack'[1].left \subseteq NamesAt(2)
      BY <1>2, <2>1, <2>2
    <3> QED
      BY <1>1, <1>2, <1>3, <1>5, <2>2, <3>1, <3>2 DEF EmptyInv
  <2> QED
    BY <2>3, <2>4, <2>5 DEF IInv
<1>6. CASE pc' = "restore2" /\ stack' = <<>>
  <2>1. FsInv' /\ HomeInv'
    BY <1>1, <1>2, <1>3, <1>4, <1>6 DEF FsInv, HomeInv
  <2>2. CallInv' /\ CopyInv' /\ EmptyInv'
    BY <1>3, <1>6 DEF CallInv, CopyInv, Copying, EmptyInv
  <2> QED
    BY <2>1, <2>2 DEF IInv
<1> QED
  BY <1>5, <1>6 DEF UnlinkFails

\* All entries are read.
LEMMA NextEmptied == ASSUME IInv, EmptyEnds PROVE IInv'
<1>1. /\ pc = "unlink" /\ pc' = "restore2" /\ stack' = <<>> /\ base' = base /\ home' = home /\ fs' = fs
      /\ curwd' = curwd /\ round' = round /\ fails' = fails /\ stack[Len(stack)].left = {}
      /\ skipped' = skipped /\ lost' = lost
  BY DEF EmptyEnds, bufVars, Top
<1>2. /\ FsInv /\ Params /\ round \in Nat /\ fails \in Nat /\ Back /\ ~Astray /\ Len(stack) = 1
      /\ fails = 0 => \A h \in Hosts : HostFile(h) \in DOMAIN fs => <<h>> \in stack[1].left
  BY <1>1 DEF IInv, FsInv, HomeInv, EmptyInv
<1>3. Params' /\ Tree'
  BY <1>1, <1>2, TreeSame
<1>4. HomeText' = HomeText /\ \A h : HostFile(h)' = HostFile(h)
  BY <1>1, SamePaths
<1>5. FsInv' /\ HomeInv'
  <2>1. Back' /\ ~Astray'
    BY <1>1, <1>2, <1>4 DEF Back, Holds, Astray
  <2> QED
    BY <1>1, <1>2, <1>3, <2>1 DEF FsInv, HomeInv
<1>6. CallInv' /\ CopyInv' /\ EmptyInv'
  BY <1>1, <1>2, <1>4 DEF CallInv, CopyInv, Copying, EmptyInv
<1> QED
  BY <1>5, <1>6 DEF IInv

\* The files of a configuration are written.
LEMMA TreeRewritten ==
    ASSUME FsInv, base' = base, home' = home, NEW some \in SUBSET Hosts,
           NEW lengths \in [some -> 1..MaxLen], fs' = Written(round + 1, lengths)
    PROVE  Params' /\ Tree'
<1>4. Params /\ Tree /\ round \in Nat
  BY DEF FsInv
<1> DEFINE n == round + 1
           W == {HostFile(h) : h \in some}
           G(p) == File([i \in 1..lengths[Last(p)[1]] |-> n])
<1>5. n \in Nat
  BY <1>4
<1>6. fs' = [p \in DOMAIN fs \cup {HostsDir, Conf} \cup W |->
                CASE p = HostsDir -> Dir [] p = Conf -> File(<<n>>) [] p \in W -> G(p) [] OTHER -> fs[p]]
  BY DEF Written, HostFile, Conf
<1>7. /\ HostsDir \in Dirs /\ Conf \notin Dirs /\ Conf \in Files /\ W \subseteq Files /\ W \cap Dirs = {}
      /\ HostsDir # Conf /\ HostsDir \notin W /\ Conf \notin W /\ Conf \notin Dirs
  <2>1. W \subseteq HostFiles
    BY DEF HostFiles
  <2>2. HostFiles \subseteq Files /\ Dirs \cap Files = {} /\ HostsDir \in Dirs /\ Conf \in Files
    BY <1>4, Distinct DEF Dirs, Files
  <2>3. Conf \notin HostFiles
    BY <1>4, Distinct
  <2> QED
    BY <2>1, <2>2, <2>3
<1>8. Dir \in Node /\ Dir.dir /\ File(<<n>>) \in Node /\ ~File(<<n>>).dir
  BY <1>5 DEF Dir, File, Node
<1>9. ASSUME NEW p \in W PROVE G(p) \in Node /\ ~G(p).dir
  <2>1. PICK h \in some : p = HostFile(h)
    OBVIOUS
  <2>2. Last(p) = <<h>>
    BY <1>4, <2>1, Levels
  <2>3. Last(p)[1] = h
    BY <2>2
  <2>4. PICK l : l = lengths[Last(p)[1]]
    OBVIOUS
  <2>5. l \in Nat
    BY <2>3, <2>4, BackupAssumption
  <2>6. [i \in 1..l |-> n] \in Seq(Nat)
    <3>1. [i \in 1..l |-> n] \in [1..l -> Nat]
      BY <1>5
    <3> QED
      BY <2>5, <3>1, SeqDef
  <2> QED
    BY <2>4, <2>6 DEF File, Node
<1> HIDE DEF n, W, G
<1>10. /\ DOMAIN fs' = DOMAIN fs \cup {HostsDir, Conf} \cup W
       /\ fs'[HostsDir] = Dir /\ fs'[Conf] = File(<<n>>) /\ \A p \in W : fs'[p] = G(p)
       /\ \A p \in DOMAIN fs : p \notin {HostsDir, Conf} \cup W => fs'[p] = fs[p]
  BY <1>6, <1>7
<1>11. ASSUME NEW p \in DOMAIN fs' PROVE fs'[p] \in Node /\ (fs'[p].dir <=> p \in Dirs)
  <2>1. CASE p = HostsDir
    BY <1>7, <1>8, <1>10, <2>1
  <2>2. CASE p = Conf
    BY <1>7, <1>8, <1>10, <2>2
  <2>3. CASE p \in W
    BY <1>7, <1>9, <1>10, <2>3
  <2>4. CASE p \notin {HostsDir, Conf} \cup W
    BY <1>4, <1>10, <2>4 DEF Tree
  <2> QED
    BY <2>1, <2>2, <2>3, <2>4
<1>12. Params' /\ Tree'
  <2>1. fs' \in [DOMAIN fs' -> Node]
    BY <1>6, <1>11
  <2>2. /\ DOMAIN fs' \subseteq Dirs \cup Files /\ Place \in DOMAIN fs' /\ Base \in DOMAIN fs'
        /\ HostsDir \in DOMAIN fs'
    BY <1>4, <1>7, <1>10 DEF Tree
  <2> QED
    BY <1>4, <1>11, <2>1, <2>2, SamePaths DEF Tree
<1> QED
  BY <1>12

\* After that a backup is next.
LEMMA NextWrite == ASSUME IInv, WriteFiles PROVE IInv'
<1>1. /\ pc = "write" /\ round' = round + 1 /\ pc' = "backup" /\ base' = base /\ home' = home
      /\ cwd' = cwd /\ stack' = stack /\ fails' = fails
      /\ skipped' = skipped /\ lost' = lost
  BY DEF WriteFiles
<1>2. /\ FsInv /\ Params /\ Tree /\ round \in Nat /\ fails \in Nat /\ (cwd = home \/ lost) /\ ~Astray
      /\ stack = <<>>
  BY <1>1 DEF IInv, FsInv, HomeInv
<1>3. Params' /\ Tree'
  <2>1. CASE fs' = fs
    BY <1>1, <1>2, <2>1, TreeSame
  <2>2. CASE \E some \in SUBSET Hosts : \E lengths \in [some -> 1..MaxLen] : fs' = Written(round + 1, lengths)
    BY <1>1, <1>2, <2>2, TreeRewritten
  <2> QED
    BY <2>1, <2>2 DEF WriteFiles
<1>4. FsInv' /\ HomeInv'
  BY <1>1, <1>2, <1>3 DEF FsInv, HomeInv, Astray
<1>5. CallInv' /\ CopyInv' /\ EmptyInv'
  BY <1>1 DEF CallInv, CopyInv, Copying, EmptyInv
<1> QED
  BY <1>4, <1>5 DEF IInv

\* Every step keeps it.
LEMMA NextInv == ASSUME IInv, [Next]_vars, ~Astray' PROVE IInv'
<1>1. CASE UNCHANGED vars
  <2>1. /\ base' = base /\ fs' = fs /\ home' = home /\ cwd' = cwd /\ src' = src /\ dst' = dst
        /\ curwd' = curwd
        /\ stack' = stack /\ entry' = entry /\ copied' = copied /\ pc' = pc /\ ret' = ret
        /\ round' = round
        /\ fails' = fails /\ skipped' = skipped /\ lost' = lost
    BY <1>1 DEF vars
  <2>2. /\ Place' = Place /\ Base' = Base /\ HostsDir' = HostsDir /\ OldHosts' = OldHosts /\ Conf' = Conf
        /\ OldConf' = OldConf /\ Dirs' = Dirs /\ Files' = Files /\ HomeText' = HomeText
        /\ SrcHosts' = SrcHosts
        /\ \A h : HostFile(h)' = HostFile(h) /\ OldFile(h)' = OldFile(h)
        /\ \A k : /\ From(k)' = From(k) /\ To(k)' = To(k)
                  /\ FromText(k)' = FromText(k) /\ ToText(k)' = ToText(k)
    BY <2>1, SamePaths
  <2>3. FsInv' /\ Keeps
    BY <2>1, TreeSame DEF IInv, FsInv
  <2>4. HomeInv'
    <3>1. Back' = Back
      BY <2>1, <2>2 DEF Back, Holds
    <3> QED
      BY <2>1, <2>2, <3>1 DEF IInv, HomeInv
  <2>5. CallInv'
    <3>1. ASSUME NEW k PROVE Inner(k)' = Inner(k) /\ Made(k)' = Made(k)
      BY <2>1, <2>2 DEF Inner, Made
    <3> QED
      BY <2>1, <2>2, <3>1 DEF IInv, CallInv, Copying
  <2>6. CopyInv'
    <3>1. Busy(1)' = Busy(1) /\ Busy(2)' = Busy(2)
      BY <2>1 DEF Busy
    <3> QED
      BY <2>1, <2>2, <2>3, <3>1 DEF IInv, CopyInv, Copying, Keeps
  <2>7. EmptyInv'
    BY <2>1, <2>2 DEF IInv, EmptyInv
  <2> QED
    BY <2>3, <2>4, <2>5, <2>6, <2>7 DEF IInv
<1>2. CASE Next
  BY <1>2, NextWrite, NextCopy, NextHandledir, NextRead, NextReadFails, NextOpen, NextChunk, NextCopied, NextLeave,
     NextRestore, NextEmpty, NextUnlink, NextUnlinkFails, NextEmptied, NextRestore2 DEF Next
<1> QED
  BY <1>1, <1>2

\* Once it is lost it stays so, and a call must have failed.
LEMMA NextLost ==
    ASSUME [Next]_vars, fails \in Nat, lost => fails # 0
    PROVE  fails' \in Nat /\ (lost' => fails' # 0) /\ (Astray => Astray')
<1>1. base' = base
  BY DEF Next, vars, WriteFiles, fs_cp_r, handledir, ReadEntry, ReadFails, OpenFiles, CopyChunk, CopyEnds,
         LeaveDir, Leave, RestoreCwd, fs_empty_dir, UnlinkEntry, Unlink, UnlinkFails, EmptyEnds, RestoreCwd2
<1>2. MayFail => fails' \in Nat /\ fails' # 0
  BY DEF MayFail
<1>3. CASE RestoreCwd \/ RestoreCwd2
  <2>1. \/ fails' = fails /\ lost' = lost
        \/ MayFail /\ lost' = TRUE
    BY <1>3 DEF RestoreCwd, RestoreCwd2, GoBack
  <2> QED
    BY <1>1, <1>2, <2>1 DEF Astray
<1>4. CASE ~(RestoreCwd \/ RestoreCwd2)
  <2>1. lost' = lost
    BY <1>4 DEF Next, vars, WriteFiles, fs_cp_r, handledir, ReadEntry, ReadFails, OpenFiles, CopyChunk,
           CopyEnds, LeaveDir, Leave, fs_empty_dir, UnlinkEntry, Unlink, UnlinkFails, EmptyEnds
  <2>2. fails' = fails \/ MayFail
    <3>1. CASE WriteFiles \/ ReadEntry \/ CopyEnds \/ EmptyEnds \/ UNCHANGED vars
      BY <3>1 DEF WriteFiles, ReadEntry, CopyEnds, EmptyEnds, vars
    <3>2. CASE fs_cp_r
      BY <3>2 DEF fs_cp_r
    <3>3. CASE handledir
      BY <3>3 DEF handledir
    <3>4. CASE ReadFails \/ UnlinkFails
      BY <3>4 DEF ReadFails, UnlinkFails
    <3>5. CASE OpenFiles \/ CopyChunk
      BY <3>5 DEF OpenFiles, CopyChunk
    <3>6. CASE LeaveDir
      BY <3>6 DEF LeaveDir, Leave
    <3>7. CASE fs_empty_dir
      BY <3>7 DEF fs_empty_dir
    <3>8. CASE UnlinkEntry
      BY <3>8 DEF UnlinkEntry, Unlink
    <3> QED
      BY <1>4, <3>1, <3>2, <3>3, <3>4, <3>5, <3>6, <3>7, <3>8 DEF Next
  <2> QED
    BY <1>1, <1>2, <2>1, <2>2 DEF Astray
<1> QED
  BY <1>3, <1>4

\* What holds in every state: the invariant, as long as $base is where it was.
LostInv == fails \in Nat /\ (lost => fails # 0) /\ (Astray \/ IInv)

\* In every reachable state.
THEOREM BackupInvariant == Spec => []LostInv
<1>1. Init => LostInv
  <2>1. Init => fails \in Nat /\ ~lost
    BY DEF Init
  <2> QED
    BY <2>1, InitInv DEF LostInv
<1>2. LostInv /\ [Next]_vars => LostInv'
  BY NextInv, NextLost DEF LostInv
<1> QED
  BY <1>1, <1>2, PTL DEF Spec

\* After fs_cp_r and after fs_empty_dir, whichever of the calls they make on their way
\* have failed, chaosvpn is back in the directory it was started in, unless the way
\* back itself, fs_get_cwd's answer given to chdir, was refused once.
THEOREM WorkingDirectoryIsRestored ==
    Spec => [](pc \in {"backup", "cleanup", "write"} => cwd = home \/ lost)
<1>1. LostInv => (pc \in {"backup", "cleanup", "write"} => cwd = home \/ lost)
  BY DEF LostInv, IInv, HomeInv, Astray
<1> QED
  BY <1>1, BackupInvariant, PTL

\* HostsEmptied: if no call has failed, no host file of an earlier configuration is left
\* when the files of the next one are written.
THEOREM HostsAreEmptied == Spec => []HostsEmptied
<1>1. ASSUME IInv, pc = "write", fails = 0 PROVE Below(fs, HostsDir) = {}
  <2>1. Params /\ DOMAIN fs \subseteq Dirs \cup Files /\ \A h \in Hosts : HostFile(h) \notin DOMAIN fs
    BY <1>1 DEF IInv, FsInv, Tree, EmptyInv
  <2>2. ASSUME NEW p \in DOMAIN fs, Inside(p, HostsDir) PROVE FALSE
    <3>1. p \in HostFiles
      BY <2>1, <2>2, InsideIs
    <3> QED
      BY <2>1, <2>2, <3>1 DEF HostFiles
  <2>3. Below(fs, HostsDir) = {p \in DOMAIN fs : Inside(p, HostsDir)}
    BY DEF Below, Inside
  <2> QED
    BY <2>2, <2>3
<1>2. LostInv => HostsEmptied
  BY <1>1 DEF HostsEmptied, LostInv, Astray
<1> QED
  BY <1>2, BackupInvariant, PTL

\* What the backup of a path is called.
LEMMA BackupName ==
    ASSUME Params
    PROVE  /\ Backed \o SubSeq(HostsDir, Len(Base) + 1, Len(HostsDir)) = OldHosts
           /\ Backed \o SubSeq(Conf, Len(Base) + 1, Len(Conf)) = OldConf
           /\ \A h \in Hosts : Backed \o SubSeq(HostFile(h), Len(Base) + 1, Len(HostFile(h))) = OldFile(h)
<1> DEFINE N == Seq(Cell)
           w == <<"hosts">>
           c == <<"tinc.conf">>
<1>1. /\ Base \in Seq(N) /\ Backed \in Seq(N) /\ w \in N /\ c \in N /\ Len(Base) \in Nat
      /\ Len(HostsDir) = Len(Base) + 1 /\ Len(Conf) = Len(Base) + 1
      /\ \A h \in Hosts : Len(HostFile(h)) = Len(Base) + 2
  <2>1. Base \in Seq(N) /\ Backed \in Seq(N) /\ w \in N /\ c \in N
    BY Levels DEF Paths
  <2>2. /\ Len(Place) \in Nat /\ Len(Base) = Len(Place) + 1
        /\ Len(HostsDir) = Len(Place) + 2 /\ Len(Conf) = Len(Place) + 2
        /\ \A h \in Hosts : Len(HostFile(h)) = Len(Place) + 3
    BY Levels
  <2>3. Len(Base) \in Nat /\ Len(Place) + 2 = Len(Base) + 1 /\ Len(Place) + 3 = Len(Base) + 2
    BY <2>2
  <2> HIDE DEF N, w, c
  <2> QED
    BY <2>1, <2>2, <2>3
<1>2. /\ HostsDir = Append(Base, w) /\ OldHosts = Append(Backed, w)
      /\ Conf = Append(Base, c) /\ OldConf = Append(Backed, c)
  BY DEF HostsDir, OldHosts, Conf, OldConf
<1> HIDE DEF N, w, c
<1>3. ASSUME NEW x \in N PROVE Backed \o <<x>> = Append(Backed, x)
  BY <1>1, AppendIsConcat
<1>4. /\ SubSeq(Append(Base, w), Len(Base) + 1, Len(Base) + 1) = <<w>>
      /\ SubSeq(Append(Base, c), Len(Base) + 1, Len(Base) + 1) = <<c>>
  BY <1>1, AppendedParts
<1>5. ASSUME NEW h \in Hosts
      PROVE  Backed \o SubSeq(HostFile(h), Len(Base) + 1, Len(HostFile(h))) = OldFile(h)
  <2> DEFINE x == <<h>>
  <2>1. x \in N
    BY Levels DEF N
  <2>2. HostFile(h) = Append(Append(Base, w), x) /\ OldFile(h) = Append(Append(Backed, w), x)
    BY <1>2 DEF HostFile, OldFile
  <2> HIDE DEF x
  <2>3. SubSeq(Append(Append(Base, w), x), Len(Base) + 1, Len(Base) + 2) = <<w, x>>
    BY <1>1, <2>1, AppendedTwo
  <2>4. <<w, x>> = Append(<<w>>, x) /\ <<w>> \in Seq(N)
    BY <1>1, <2>1
  <2>5. Backed \o Append(<<w>>, x) = Append(Backed \o <<w>>, x)
    BY <1>1, <2>1, <2>4, ConcatGrows
  <2> QED
    BY <1>1, <1>3, <2>2, <2>3, <2>4, <2>5
<1> QED
  BY <1>1, <1>2, <1>3, <1>4, <1>5

\* BackupComplete: when fs_cp_r reports success and none of the failures it passes over
\* has happened, every file below $base has a copy below $base.old that begins with its
\* contents.
THEOREM BackupIsComplete == Spec => []BackupComplete
<1>1. ASSUME IInv, pc = "cleanup", ret, ~skipped, NEW p \in Below(fs, Base), NEW q,
             q = Backed \o SubSeq(p, Len(Base) + 1, Len(p))
      PROVE  /\ q \in DOMAIN fs
             /\ IF IsDir(p) THEN IsDir(q) ELSE IsFile(q) /\ IsPrefix(fs[p].data, fs[q].data)
  <2>1. /\ FsInv /\ Params /\ Tree /\ FileDone(Conf, OldConf) /\ HostsDone
    BY <1>1 DEF IInv, FsInv, CopyInv
  <2>2. p \in DOMAIN fs /\ p \in {HostsDir, Conf} \cup HostFiles
    <3>1. p \in DOMAIN fs /\ Inside(p, Base)
      BY DEF Below, Inside
    <3> QED
      BY <2>1, <3>1, InsideIs DEF Tree
  <2>3. /\ \A r \in DOMAIN fs : fs[r].dir <=> r \in Dirs
        /\ HostsDir \in Dirs /\ OldHosts \in Dirs /\ Dirs \cap Files = {} /\ Conf \in Files
        /\ OldConf \in Files
    BY <2>1, OldsAre DEF Tree, Dirs
  <2>4. CASE p = HostsDir
    <3>1. q = OldHosts /\ OldHosts \in DOMAIN fs
      BY <1>1, <2>1, <2>2, <2>4, BackupName DEF HostsDone
    <3> QED
      BY <2>2, <2>3, <2>4, <3>1 DEF IsDir, IsFile
  <2>5. CASE p = Conf
    <3>1. q = OldConf /\ OldConf \in DOMAIN fs /\ IsPrefix(fs[Conf].data, fs[OldConf].data)
      BY <1>1, <2>1, <2>2, <2>5, BackupName DEF FileDone
    <3> QED
      BY <2>2, <2>3, <2>5, <3>1 DEF IsDir, IsFile
  <2>6. CASE p \in HostFiles
    <3>1. PICK h \in Hosts : p = HostFile(h)
      BY <2>6 DEF HostFiles
    <3>2. q = OldFile(h)
      BY <1>1, <2>1, <3>1, BackupName
    <3>3. OldFile(h) \in DOMAIN fs /\ IsPrefix(fs[p].data, fs[q].data)
      <4>1. HostsDir \in DOMAIN fs
        BY <2>1, <2>2, <3>1 DEF Tree
      <4> QED
        BY <1>1, <2>1, <2>2, <3>1, <3>2, <4>1 DEF HostsDone, FileDone
    <3>4. p \in Files /\ q \in Files
      <4>1. OldFile(h) \in OldFiles
        BY DEF OldFiles
      <4> QED
        BY <2>1, <2>6, <3>2, <4>1, OldsAre
    <3> QED
      BY <2>2, <2>3, <3>2, <3>3, <3>4 DEF IsDir, IsFile
  <2> QED
    BY <2>2, <2>4, <2>5, <2>6
<1>2. LostInv => BackupComplete
  BY <1>1 DEF BackupComplete, LostInv
<1> QED
  BY <1>2, BackupInvariant, PTL

=============================================================================
