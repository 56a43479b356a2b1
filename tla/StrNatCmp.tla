------------------------------- MODULE StrNatCmp -------------------------------
(***************************************************************************)
(* The comparison of version numbers (strnatcmp.c).  A string is the       *)
(* sequence of its characters' codes, without the NUL at its end.          *)
(***************************************************************************)
EXTENDS Integers, Sequences, FiniteSetsExt

Space == 32
Zero  == 48
Nine  == 57

\* The character at position i; the NUL behind the last one.
CharAt(s, i) == IF i <= Len(s) THEN s[i] ELSE 0

nat_isdigit(c) == c \in Zero .. Nine
nat_isspace(c) == c \in {Space} \cup 9 .. 13

\* Where the scan of leading spaces that starts at i ends.
SkipSpaces(s, i) ==
    Min({j \in i .. Len(s) + 1 : ~ nat_isspace(CharAt(s, j))})

Sign(c, d) == IF c < d THEN -1 ELSE IF c > d THEN 1 ELSE 0

\* Mutant: the first difference decides, the length does not count.
compare_right_NoLength(a, i, b, j) ==
    LET differ == {n \in 0 .. Len(a) + Len(b) : CharAt(a, i + n) # CharAt(b, j + n)}
        n == Min(differ)
    IN  IF differ = {} THEN 0 ELSE Sign(CharAt(a, i + n), CharAt(b, j + n))

\* Two numbers of which the longer is the greater; of two equally long ones the
\* first difference, remembered in bias, decides.
compare_right(a, i, b, j) ==
    LET scan[n \in Nat, bias \in {-1, 0, 1}] ==
            LET c == CharAt(a, i + n)
                d == CharAt(b, j + n)
            IN  CASE ~ nat_isdigit(c) /\ ~ nat_isdigit(d) -> bias
                  [] ~ nat_isdigit(c) /\ nat_isdigit(d)   -> -1
                  [] nat_isdigit(c) /\ ~ nat_isdigit(d)   -> 1
                  [] OTHER -> scan[n + 1, IF bias = 0 THEN Sign(c, d) ELSE bias]
    IN  scan[0, 0]

\* Two fractions: the first difference decides.
compare_left(a, i, b, j) ==
    LET scan[n \in Nat] ==
            LET c == CharAt(a, i + n)
                d == CharAt(b, j + n)
            IN  CASE ~ nat_isdigit(c) /\ ~ nat_isdigit(d) -> 0
                  [] ~ nat_isdigit(c) /\ nat_isdigit(d)   -> -1
                  [] nat_isdigit(c) /\ ~ nat_isdigit(d)   -> 1
                  [] OTHER -> IF c = d THEN scan[n + 1] ELSE Sign(c, d)
    IN  scan[0]

\* strnatcmp0 without fold_case, which nothing in chaosvpn sets.
strnatcmp(a, b) ==
    LET compare[p \in Nat, q \in Nat] ==
            LET i  == SkipSpaces(a, p)
                j  == SkipSpaces(b, q)
                ca == CharAt(a, i)
                cb == CharAt(b, j)
                digits == IF ~ (nat_isdigit(ca) /\ nat_isdigit(cb)) THEN 0
                          ELSE IF Zero \in {ca, cb}
                          THEN compare_left(a, i, b, j)
                          ELSE compare_right(a, i, b, j)
            IN  CASE digits # 0 -> digits
                  [] digits = 0 /\ ca = 0 /\ cb = 0 -> 0
                  [] digits = 0 /\ ca # cb -> Sign(ca, cb)
                  [] OTHER -> compare[i + 1, j + 1]
    IN  compare[1, 1]
=============================================================================
