-------------------------------- MODULE StringBuf --------------------------------
(***************************************************************************)
(* struct string: a block of memory of which the first `length` cells are  *)
(* content.  The block holds binary data; as a C string, which is how the  *)
(* file functions pass it to the kernel, it ends at its first NUL, and     *)
(* that NUL is in the block only if somebody has put it there.             *)
(***************************************************************************)
EXTENDS Integers, Sequences

CONSTANTS
    Cell,      \* what a cell holds
    GrowBy     \* the block grows by multiples of this many cells

NUL == "NUL"

ASSUME StringBufAssumption == NUL \in Cell /\ GrowBy \in Nat \ {0}

Zeros(n) == [i \in 1..n |-> NUL]

\* A block and how much of it is content.
Strings == [s : Seq(Cell), length : Nat]

WellFormed(b) == b \in Strings /\ b.length <= Len(b.s)

string_init(size) == [s |-> Zeros(size), length |-> 0]

\* The smallest multiple of GrowBy that makes room for len more cells.
Growth(b, len) ==
    LET enough == {k \in 1..len : Len(b.s) + k * GrowBy - b.length >= len}
    IN  GrowBy * (CHOOSE k \in enough : \A j \in enough : k <= j)

\* The block grows when len more cells do not fit; the new part is zeroed.
Grown(b, len) ==
    IF len > Len(b.s) - b.length THEN b.s \o Zeros(Growth(b, len)) ELSE b.s

string_concatb(b, cells) ==
    [s |-> [i \in 1..Len(Grown(b, Len(cells))) |->
               IF i \in b.length + 1 .. b.length + Len(cells)
                 THEN cells[i - b.length] ELSE Grown(b, Len(cells))[i]],
     length |-> b.length + Len(cells)]

string_putc(b, c) == string_concatb(b, <<c>>)

\* The NUL is written as well, but is not part of the content.
string_concat(b, cells) ==
    [string_concatb(b, cells \o <<NUL>>) EXCEPT !.length = @ - 1]

\* Nothing to do if the content itself ends with a NUL.
string_ensurez(b) ==
    IF b.length > 0 /\ b.s[b.length] = NUL THEN b
    ELSE [string_putc(b, NUL) EXCEPT !.length = @ - 1]

\* The content is cut; the block stays as it is.
Cut(b, length) == [b EXCEPT !.length = length]

\* What the kernel sees of string_get: all up to the first NUL.
Terminated(b) == \E i \in 1..Len(b.s) : b.s[i] = NUL

CString(b) ==
    LET end == CHOOSE i \in 1..Len(b.s) : b.s[i] = NUL /\ \A j \in 1..(i - 1) : b.s[j] # NUL
    IN  SubSeq(b.s, 1, end - 1)

=============================================================================
