----------------------------- MODULE NetConfigProofs -----------------------------
(***************************************************************************)
(* What the files and the routes of NetConfig are, for any settings, any   *)
(* configuration that is fetched, and addresses of any size.               *)
(*                                                                         *)
(* The first part is about addrmask.c: what is written is read back,       *)
(* matching compares prefixes, and addrmask_match finds a list entry that  *)
(* contains the subnet.  The inductive invariant IInv has a part for the   *)
(* settings, the parser, the files and the routes.                         *)
(***************************************************************************)
EXTENDS NetConfig, SequenceTheorems, FiniteSetTheorems, WellFoundedInduction, TLAPS

-----------------------------------------------------------------------------
(* Least and greatest numbers.                                               *)

\* A non-empty set of natural numbers has a least element, which Min picks.
LEMMA MinNat ==
    ASSUME NEW S \in SUBSET Nat, S # {}
    PROVE  Min(S) \in S /\ \A y \in S : Min(S) <= y
<1>1. PICK x \in S : \A y \in S : ~(<<y, x>> \in OpToRel(<, Nat))
  BY WFMin, NatLessThanWellFounded
<1>2. OpToRel(<, Nat) = {ss \in Nat \X Nat : ss[1] < ss[2]}
  BY DEF OpToRel
<1>3. ASSUME NEW y \in S PROVE x <= y
  <2>1. y < x => <<y, x>> \in {ss \in Nat \X Nat : ss[1] < ss[2]}
    OBVIOUS
  <2>2. ~(y < x)
    BY <1>1, <1>2, <2>1
  <2> QED
    BY <2>2
<1> QED
  BY <1>3 DEF Min

\* A non-empty set of positions has a greatest one, which Max picks.
LEMMA MaxNat ==
    ASSUME NEW n \in Nat, NEW S \in SUBSET (1..n), S # {}
    PROVE  Max(S) \in S /\ \A y \in S : y <= Max(S)
<1> DEFINE T == {k \in 0..n : n - k \in S}
<1>1. \A y \in S : y \in 1..n /\ n - y \in 0..n /\ n - (n - y) = y
  OBVIOUS
<1>2. \A y \in S : n - y \in T
  BY <1>1
<1>3. T \in SUBSET Nat /\ T # {}
  <2>1. PICK y \in S : TRUE
    OBVIOUS
  <2>2. n - y \in T
    BY <1>2
  <2>3. T \in SUBSET Nat
    OBVIOUS
  <2> HIDE DEF T
  <2> QED
    BY <2>2, <2>3
<1>4. Min(T) \in T /\ \A y \in T : Min(T) <= y
  BY <1>3, MinNat
<1> HIDE DEF T
<1>5. n - Min(T) \in S /\ \A y \in S : y <= n - Min(T)
  <2>1. Min(T) \in 0..n /\ n - Min(T) \in S
    BY <1>4 DEF T
  <2> QED
    BY <1>1, <1>2, <1>4, <2>1
<1> QED
  BY <1>5 DEF Max

-----------------------------------------------------------------------------
(* A loop that computes a value in n steps: T[k] is what step k makes of the *)
(* value before.  The provers cannot use the library's theorems about        *)
(* recursive functions, which have operators as parameters; least            *)
(* counterexamples take the place of induction.                              *)

IsIteration(f, n, S, first, T) ==
    f \in [0..n -> S] /\ f[0] = first /\ \A k \in 1..n : f[k] = T[k][f[k - 1]]

\* The values exist.
LEMMA IterationExists ==
    \A n \in Nat : \A S, first, T :
        first \in S /\ T \in [1..n -> [S -> S]] => \E f : IsIteration(f, n, S, first, T)
<1> SUFFICES ASSUME NEW n \in Nat, NEW S, NEW first \in S, NEW T \in [1..n -> [S -> S]]
             PROVE  \E f : IsIteration(f, n, S, first, T)
  OBVIOUS
<1> DEFINE Ok(k, f) == f[0] = first /\ \A j \in 1..k : f[j] = T[j][f[j - 1]]
           B == {k \in 0..n : ~\E f \in [0..k -> S] : Ok(k, f)}
<1>1. B = {}
  <2> SUFFICES ASSUME B # {} PROVE FALSE
    OBVIOUS
  <2> DEFINE k == Min(B)
  <2>1. k \in B /\ \A y \in B : k <= y
    <3>1. B \in SUBSET Nat
      OBVIOUS
    <3> HIDE DEF B
    <3> QED
      BY <3>1, MinNat
  <2> HIDE DEF k
  <2>2. k \in 0..n /\ ~\E f \in [0..k -> S] : Ok(k, f)
    BY <2>1
  <2>3. CASE k = 0
    <3> DEFINE f == [j \in 0..0 |-> first]
    <3>1. f \in [0..0 -> S] /\ Ok(0, f)
      OBVIOUS
    <3> QED
      BY <2>2, <2>3, <3>1
  <2>4. CASE k # 0
    <3>1. k - 1 \in 0..n /\ ~(k <= k - 1)
      BY <2>2, <2>4
    <3>2. k - 1 \notin B
      BY <2>1, <3>1
    <3>3. PICK f \in [0..(k - 1) -> S] : Ok(k - 1, f)
      BY <3>1, <3>2
    <3> DEFINE g == [j \in 0..k |-> IF j = k THEN T[k][f[k - 1]] ELSE f[j]]
    <3>4. k \in 1..n /\ k - 1 \in 0..(k - 1) /\ T[k] \in [S -> S] /\ f[k - 1] \in S
      BY <2>2, <2>4
    <3>5. g \in [0..k -> S]
      BY <3>4
    <3>6. g[0] = first
      BY <3>3, <3>4
    <3>7. ASSUME NEW j \in 1..k PROVE g[j] = T[j][g[j - 1]]
      <4>1. j \in 0..k /\ j - 1 \in 0..k /\ j - 1 # k
        BY <3>4
      <4>2. CASE j = k
        BY <4>1, <4>2
      <4>3. CASE j # k
        <5>1. j \in 1..(k - 1)
          BY <3>4, <4>3
        <5> QED
          BY <3>3, <4>1, <4>3, <5>1
      <4> QED
        BY <4>2, <4>3
    <3>8. Ok(k, g)
      BY <3>6, <3>7
    <3> HIDE DEF g
    <3> QED
      BY <2>2, <3>5, <3>8
  <2> QED
    BY <2>3, <2>4
<1>2. n \notin B /\ n \in 0..n
  BY <1>1
<1>3. PICK f \in [0..n -> S] : Ok(n, f)
  BY <1>2
<1>4. IsIteration(f, n, S, first, T)
  BY <1>3 DEF IsIteration
<1> QED
  BY <1>4

\* What holds of the first value and is kept by each step holds of all of them.
LEMMA IterationInduction ==
    ASSUME NEW n \in Nat, NEW Good, 0 \in Good, \A k \in 1..n : k - 1 \in Good => k \in Good
    PROVE  \A k \in 0..n : k \in Good
<1> DEFINE B == {k \in 0..n : k \notin Good}
<1>1. B = {}
  <2> SUFFICES ASSUME B # {} PROVE FALSE
    OBVIOUS
  <2> DEFINE k == Min(B)
  <2>1. k \in B /\ \A y \in B : k <= y
    <3>1. B \in SUBSET Nat
      OBVIOUS
    <3> HIDE DEF B
    <3> QED
      BY <3>1, MinNat
  <2> HIDE DEF k
  <2>2. k \in 1..n /\ k - 1 \in 0..n /\ ~(k <= k - 1) /\ k \notin Good
    BY <2>1
  <2> QED
    BY <2>1, <2>2
<1> QED
  BY <1>1

-----------------------------------------------------------------------------
(* Addresses and masks.                                                      *)

\* The sizes of the addresses of a family.
LEMMA Sizes ==
    ASSUME NEW family \in Families
    PROVE  /\ CharBit \in Nat \ {0}
           /\ ByteCount(family) \in Nat \ {0} /\ BitCount(family) \in Nat
           /\ BitCount(family) = ByteCount(family) * CharBit
           /\ BitCount(family) < ShiftModulus /\ ShiftModulus \in Nat
  BY AddrMaskAssumption DEF Families, ByteCount, BitCount

\* An address is a sequence of its bytes.
LEMMA AddressIsSeq ==
    ASSUME NEW family \in Families, NEW bytes \in Address(family)
    PROVE  /\ bytes \in Seq(Byte) /\ Len(bytes) = ByteCount(family)
           /\ DOMAIN bytes = 1..ByteCount(family)
           /\ \A i \in 1..ByteCount(family) : bytes[i] \in SUBSET (0..CharBit - 1)
           /\ bytes # Unparsable
<1>1. bytes \in [1..ByteCount(family) -> Byte]
  BY DEF Address
<1>2. bytes \in Seq(Byte) /\ Len(bytes) = ByteCount(family)
  BY <1>1, Sizes
<1>3. bytes # Unparsable
  BY <1>2, Sizes, EmptySeq DEF Unparsable
<1> QED
  BY <1>1, <1>2, <1>3 DEF Byte

\* A mask has its first shift bits set and no other.
LEMMA MaskBits ==
    ASSUME NEW family \in Families, NEW shift \in 0..BitCount(family)
    PROVE  /\ MaskBytes(family, shift) \in Address(family)
           /\ DOMAIN MaskBytes(family, shift) = 1..ByteCount(family)
           /\ \A i \in 1..ByteCount(family) : \A b \in 0..CharBit - 1 :
                 b \in MaskBytes(family, shift)[i] <=>
                     \/ i <= shift \div CharBit
                     \/ i = shift \div CharBit + 1 /\ b >= CharBit - (shift % CharBit)
<1> DEFINE ones == [i \in 1..ByteCount(family) |-> 0..CharBit - 1]
           n == ByteCount(family)
<1>1. ones \in Address(family)
  BY DEF Address, Byte
<1>2. Len(ones) = n /\ n \in Nat /\ ~(shift > Len(ones) * CharBit)
  BY <1>1, AddressIsSeq, Sizes
<1>3. /\ shift \div CharBit \in Nat /\ shift % CharBit \in 0..CharBit - 1
      /\ CharBit \in Nat \ {0}
  BY Sizes
<1> DEFINE whole == shift \div CharBit
           rest == shift % CharBit
           mask == [i \in 1..n |-> IF i <= whole THEN 0..CharBit - 1
                                   ELSE IF i = whole + 1 /\ rest # 0
                                   THEN (0..CharBit - 1) \cap (CharBit - rest .. CharBit - 1)
                                   ELSE {}]
<1>4. MaskBytes(family, shift) = mask
  BY <1>2 DEF MaskBytes, mask_addr
<1> HIDE DEF n, whole, rest
<1>5. mask \in Address(family)
  BY DEF Address, Byte, n
<1>6. ASSUME NEW i \in 1..n, NEW b \in 0..CharBit - 1
      PROVE  b \in mask[i] <=> i <= whole \/ (i = whole + 1 /\ b >= CharBit - rest)
  BY <1>3 DEF whole, rest
<1> QED
  BY <1>4, <1>5, <1>6 DEF n, whole, rest

\* Masking keeps of each byte the bits that the mask has.
LEMMA Masking ==
    ASSUME NEW family \in Families, NEW shift \in 0..BitCount(family),
           NEW bytes \in Address(family)
    PROVE  /\ mask_addr(bytes, shift) \in Address(family)
           /\ \A i \in 1..ByteCount(family) :
                 mask_addr(bytes, shift)[i] \subseteq MaskBytes(family, shift)[i]
<1> DEFINE ones == [i \in 1..ByteCount(family) |-> 0..CharBit - 1]
           n == ByteCount(family)
           whole == shift \div CharBit
           rest == shift % CharBit
<1>1. ones \in Address(family)
  BY DEF Address, Byte
<1>2. Len(ones) = n /\ Len(bytes) = n /\ n \in Nat /\ ~(shift > n * CharBit)
  BY <1>1, AddressIsSeq, Sizes
<1>3. MaskBytes(family, shift) =
        [i \in 1..n |-> IF i <= whole THEN 0..CharBit - 1
                        ELSE IF i = whole + 1 /\ rest # 0
                        THEN (0..CharBit - 1) \cap (CharBit - rest .. CharBit - 1) ELSE {}]
  BY <1>2 DEF MaskBytes, mask_addr
<1>4. mask_addr(bytes, shift) =
        [i \in 1..n |-> IF i <= whole THEN bytes[i]
                        ELSE IF i = whole + 1 /\ rest # 0
                        THEN bytes[i] \cap (CharBit - rest .. CharBit - 1) ELSE {}]
  BY <1>2 DEF mask_addr
<1>5. \A i \in 1..n : bytes[i] \in SUBSET (0..CharBit - 1)
  BY AddressIsSeq
<1> HIDE DEF n, whole, rest
<1> QED
  BY <1>3, <1>4, <1>5 DEF Address, Byte, n

\* What addrmask_parse makes of the texts it accepts.
Subnets == {addrmask_parse(t) : t \in Texts} \ {Invalid}

\* A parsed subnet has the mask for its length and no bit behind it.
LEMMA SubnetProperties ==
    ASSUME NEW a \in Subnets
    PROVE  /\ a.family \in Families /\ a.shift \in 0..BitCount(a.family)
           /\ a.mask = MaskBytes(a.family, a.shift)
           /\ a.net \in Address(a.family)
           /\ \A i \in 1..ByteCount(a.family) : a.net[i] \subseteq a.mask[i]
           /\ a = [family |-> a.family, shift |-> a.shift, mask |-> a.mask, net |-> a.net]
           /\ a # Invalid
<1>1. PICK t \in Texts : a = addrmask_parse(t) /\ a # Invalid
  BY DEF Subnets
<1> DEFINE family == t.family
           shift == MaskShift(t)
           mask == MaskBytes(family, shift)
           net == IF \E i \in DOMAIN mask : t.bytes[i] \ mask[i] # {}
                  THEN mask_addr(t.bytes, shift) ELSE t.bytes
<1>2. /\ family \in Families /\ t.bytes \in Address(family) \cup {Unparsable}
      /\ t.mask \in Nat \cup {NoMask, NotDigits}
  BY DEF Texts, TextsOf, Families
<1>3. /\ a = [family |-> family, shift |-> shift, mask |-> mask, net |-> net]
      /\ t.mask # NotDigits /\ ~(shift > BitCount(family)) /\ t.bytes # Unparsable
  BY <1>1 DEF addrmask_parse
<1>4. shift \in 0..BitCount(family)
  BY <1>2, <1>3, Sizes DEF MaskShift, NoMask, NotDigits
<1>5. t.bytes \in Address(family)
  BY <1>2, <1>3
<1> HIDE DEF family, shift
<1>6. DOMAIN mask = 1..ByteCount(family)
  BY <1>2, <1>4, MaskBits
<1>7. net \in Address(family) /\ \A i \in 1..ByteCount(family) : net[i] \subseteq mask[i]
  <2>1. CASE \E i \in DOMAIN mask : t.bytes[i] \ mask[i] # {}
    BY <1>2, <1>4, <1>5, <2>1, Masking
  <2>2. CASE ~ \E i \in DOMAIN mask : t.bytes[i] \ mask[i] # {}
    <3>1. net = t.bytes
      BY <2>2
    <3>2. ASSUME NEW i \in 1..ByteCount(family) PROVE t.bytes[i] \subseteq mask[i]
      BY <1>6, <2>2
    <3> QED
      BY <1>5, <3>1, <3>2
  <2> QED
    BY <2>1, <2>2
<1> HIDE DEF mask, net
<1>8. a.family = family /\ a.shift = shift /\ a.mask = mask /\ a.net = net
  BY <1>3
<1> QED
  BY <1>1, <1>2, <1>3, <1>4, <1>7, <1>8 DEF mask

\* What addrmask_to_string writes, addrmask_parse reads back.
LEMMA ReadsBack ==
    ASSUME NEW a \in Subnets
    PROVE  addrmask_parse(addrmask_to_string(a)) = a
<1> DEFINE t == addrmask_to_string(a)
<1>1. t = [form |-> "plain", family |-> a.family, bytes |-> a.net, mask |-> a.shift]
  BY DEF addrmask_to_string
<1>2. t.form = "plain" /\ t.family = a.family /\ t.bytes = a.net /\ t.mask = a.shift
  BY <1>1
<1> HIDE DEF t
<1>3. MaskShift(t) = a.shift /\ t.mask # NotDigits /\ ~(a.shift > BitCount(a.family))
  <2>1. a.shift \in 0..BitCount(a.family) /\ a.family \in Families
    BY SubnetProperties
  <2>2. a.shift \in Nat /\ a.shift < ShiftModulus /\ ShiftModulus \in Nat
    BY <2>1, Sizes
  <2>3. a.shift % ShiftModulus = a.shift
    BY <2>2
  <2> QED
    BY <1>2, <2>1, <2>2, <2>3, Sizes DEF MaskShift, NoMask, NotDigits
<1>4. a.mask = MaskBytes(t.family, MaskShift(t))
  BY <1>2, <1>3, SubnetProperties
<1>5. a.net # Unparsable /\ DOMAIN a.mask = 1..ByteCount(a.family)
  BY SubnetProperties, AddressIsSeq, MaskBits
<1>6. ~ \E i \in DOMAIN a.mask : a.net[i] \ a.mask[i] # {}
  BY <1>5, SubnetProperties
<1>7. addrmask_parse(t) = [family |-> a.family, shift |-> a.shift, mask |-> a.mask, net |-> a.net]
  BY <1>2, <1>3, <1>4, <1>5, <1>6 DEF addrmask_parse
<1> QED
  BY <1>7, SubnetProperties DEF t

\* The m-th bit of an address: its byte, its place there, and whether a mask has it.
LEMMA BitPosition ==
    ASSUME NEW family \in Families, NEW m \in 0..BitCount(family) - 1
    PROVE  /\ m \div CharBit + 1 \in 1..ByteCount(family)
           /\ CharBit - 1 - (m % CharBit) \in 0..CharBit - 1
           /\ m = CharBit * (m \div CharBit) + (m % CharBit)
           /\ \A shift \in 0..BitCount(family) :
                 CharBit - 1 - (m % CharBit) \in MaskBytes(family, shift)[m \div CharBit + 1]
                     <=> m < shift
<1> DEFINE q == m \div CharBit
           r == m % CharBit
           n == ByteCount(family)
<1>1. CharBit \in Nat \ {0} /\ n \in Nat \ {0} /\ BitCount(family) = n * CharBit
  BY Sizes
<1>2. q \in Nat /\ r \in 0..CharBit - 1 /\ m = CharBit * q + r /\ m < n * CharBit
  BY <1>1
<1> HIDE DEF q, r, n
<1>3. q < n
  <2>1. q >= n => CharBit * q >= n * CharBit
    BY <1>1, <1>2
  <2> QED
    BY <1>1, <1>2, <2>1
<1>4. ASSUME NEW shift \in 0..BitCount(family)
      PROVE  CharBit - 1 - r \in MaskBytes(family, shift)[q + 1] <=> m < shift
  <2> DEFINE w == shift \div CharBit
             s == shift % CharBit
  <2>1. w \in Nat /\ s \in 0..CharBit - 1 /\ shift = CharBit * w + s
    BY <1>1
  <2>2. CharBit - 1 - r \in MaskBytes(family, shift)[q + 1]
            <=> q + 1 <= w \/ (q + 1 = w + 1 /\ CharBit - 1 - r >= CharBit - s)
    <3>1. q + 1 \in 1..ByteCount(family) /\ CharBit - 1 - r \in 0..CharBit - 1
      BY <1>1, <1>2, <1>3 DEF n
    <3> QED
      BY <3>1, MaskBits
  <2> HIDE DEF w, s
  <2>3. q < w => CharBit * q + CharBit <= CharBit * w
    BY <1>1, <1>2, <2>1
  <2>4. q > w => CharBit * q >= CharBit * w + CharBit
    BY <1>1, <1>2, <2>1
  <2>5. q + 1 <= w \/ (q + 1 = w + 1 /\ CharBit - 1 - r >= CharBit - s) <=> m < shift
    <3>1. CASE q < w
      BY <1>1, <1>2, <2>1, <2>3, <3>1
    <3>2. CASE q > w
      BY <1>1, <1>2, <2>1, <2>4, <3>2
    <3>3. CASE q = w
      BY <1>1, <1>2, <2>1, <3>3
    <3> QED
      BY <1>2, <2>1, <3>1, <3>2, <3>3
  <2> QED
    BY <2>2, <2>5
<1>5. q + 1 \in 1..n /\ CharBit - 1 - r \in 0..CharBit - 1 /\ m = CharBit * q + r
  BY <1>1, <1>2, <1>3
<1> QED
  BY <1>4, <1>5, Zenon DEF q, r, n

\* Every place of every byte is a bit.
LEMMA BitNumber ==
    ASSUME NEW family \in Families, NEW i \in 1..ByteCount(family), NEW b \in 0..CharBit - 1
    PROVE  \E m \in 0..BitCount(family) - 1 :
              m \div CharBit + 1 = i /\ CharBit - 1 - (m % CharBit) = b
<1> DEFINE n == ByteCount(family)
           q == i - 1
           r == CharBit - 1 - b
           m == CharBit * q + r
<1>1. CharBit \in Nat \ {0} /\ n \in Nat \ {0} /\ BitCount(family) = n * CharBit
  BY Sizes
<1>2. q \in 0..n - 1 /\ r \in 0..CharBit - 1
  BY <1>1
<1> HIDE DEF n, q, r
<1>3. CharBit * q + CharBit <= n * CharBit /\ CharBit * q \in Nat
  BY <1>1, <1>2
<1>4. m \in 0..BitCount(family) - 1
  BY <1>1, <1>2, <1>3
<1>5. m \div CharBit = q /\ m % CharBit = r
  BY <1>1, <1>2
<1> HIDE DEF m
<1>6. q + 1 = i /\ CharBit - 1 - r = b
  BY <1>1 DEF q, r
<1> QED
  BY <1>4, <1>5, <1>6

\* Prefixes are compared in either order.
LEMMA PrefixSymmetric ==
    ASSUME NEW a, NEW b, NEW n \in Nat, SamePrefix(a, b, n)
    PROVE  SamePrefix(b, a, n)
  BY DEF SamePrefix

\* A prefix of an agreeing prefix agrees.
LEMMA PrefixTransitive ==
    ASSUME NEW a, NEW b, NEW c, NEW n \in Nat, NEW k \in 0..n,
           SamePrefix(a, b, n), SamePrefix(b, c, k)
    PROVE  SamePrefix(a, c, k)
<1> SUFFICES ASSUME NEW m \in 0..k - 1 PROVE Bit(a, m) <=> Bit(c, m)
  BY DEF SamePrefix
<1>1. m \in 0..n - 1
  OBVIOUS
<1> QED
  BY <1>1 DEF SamePrefix

\* The comparison of bytes under the mask compares the first bits.
LEMMA MatchIsPrefix ==
    ASSUME NEW entry \in Subnets, NEW info \in Subnets, entry.family = info.family
    PROVE  BitsMatch(entry, info) <=> SamePrefix(info.net, entry.net, entry.shift)
<1> DEFINE family == entry.family
           n == ByteCount(family)
           mask == entry.mask
           a == info.net
           e == entry.net
           shift == entry.shift
           Agree == \A i \in 1..n : \A b \in 0..CharBit - 1 : b \in mask[i] => (b \in a[i] <=> b \in e[i])
<1>1. /\ family \in Families /\ shift \in 0..BitCount(family)
      /\ a \in Address(family) /\ e \in Address(family)
      /\ mask = MaskBytes(family, shift) /\ mask \in Address(family)
      /\ \A i \in 1..n : e[i] \subseteq mask[i]
  BY SubnetProperties, MaskBits
<1>2. /\ DOMAIN e = 1..n
      /\ \A i \in 1..n : a[i] \in SUBSET (0..CharBit - 1)
      /\ \A i \in 1..n : e[i] \in SUBSET (0..CharBit - 1)
      /\ \A i \in 1..n : mask[i] \in SUBSET (0..CharBit - 1)
  BY <1>1, AddressIsSeq
<1>3. (\A i \in 1..n : a[i] \cap mask[i] = e[i]) <=> Agree
  <2>1. ASSUME \A i \in 1..n : a[i] \cap mask[i] = e[i] PROVE Agree
    BY <2>1
  <2>2. ASSUME Agree, NEW i \in 1..n PROVE a[i] \cap mask[i] = e[i]
    BY <1>1, <1>2, <2>2
  <2> QED
    BY <2>1, <2>2
<1>4. SamePrefix(a, e, shift) <=> Agree
  <2>1. ASSUME Agree, NEW m \in 0..shift - 1 PROVE Bit(a, m) <=> Bit(e, m)
    <3>1. m \in 0..BitCount(family) - 1 /\ m < shift
      BY <1>1, Sizes
    <3> QED
      BY <1>1, <2>1, <3>1, BitPosition DEF Bit
  <2>2. ASSUME SamePrefix(a, e, shift), NEW i \in 1..n, NEW b \in 0..CharBit - 1, b \in mask[i]
        PROVE  b \in a[i] <=> b \in e[i]
    <3>1. PICK m \in 0..BitCount(family) - 1 :
              m \div CharBit + 1 = i /\ CharBit - 1 - (m % CharBit) = b
      BY <1>1, BitNumber
    <3>2. m < shift
      BY <1>1, <2>2, <3>1, BitPosition
    <3>3. Bit(a, m) <=> Bit(e, m)
      BY <1>1, <2>2, <3>1, <3>2, Sizes DEF SamePrefix
    <3> QED
      BY <3>1, <3>3 DEF Bit
  <2> QED
    BY <2>1, <2>2 DEF SamePrefix
<1>5. CASE shift < BitCount(family)
  BY <1>2, <1>3, <1>4, <1>5 DEF BitsMatch
<1>6. CASE ~(shift < BitCount(family))
  <2>1. \A i \in 1..n : \A b \in 0..CharBit - 1 : b \in mask[i]
    <3> SUFFICES ASSUME NEW i \in 1..n, NEW b \in 0..CharBit - 1 PROVE b \in mask[i]
      OBVIOUS
    <3>1. PICK m \in 0..BitCount(family) - 1 :
              m \div CharBit + 1 = i /\ CharBit - 1 - (m % CharBit) = b
      BY <1>1, BitNumber
    <3>2. m < shift
      BY <1>1, <1>6, <3>1, Sizes
    <3> QED
      BY <1>1, <3>1, <3>2, BitPosition
  <2>2. a = e <=> \A i \in 1..n : a[i] = e[i]
    <3>1. a \in [1..n -> Byte] /\ e \in [1..n -> Byte]
      BY <1>1 DEF Address
    <3>2. ASSUME \A i \in 1..n : a[i] = e[i] PROVE a = e
      <4> HIDE DEF a, e, n
      <4>1. \A i \in 1..n : a[i] = e[i]
        BY <3>2
      <4>2. a = [i \in 1..n |-> a[i]] /\ e = [i \in 1..n |-> e[i]]
        BY <3>1
      <4>3. [i \in 1..n |-> a[i]] = [i \in 1..n |-> e[i]]
        BY <4>1
      <4> QED
        BY <4>2, <4>3, Zenon
    <3> QED
      BY <3>2, Zenon
  <2>3. (\A i \in 1..n : a[i] = e[i]) <=> Agree
    <3>1. ASSUME Agree, NEW i \in 1..n PROVE a[i] = e[i]
      BY <1>2, <2>1, <3>1
    <3>2. ASSUME \A i \in 1..n : a[i] = e[i] PROVE Agree
      BY <3>2
    <3> QED
      BY <3>1, <3>2
  <2> HIDE DEF Agree
  <2> QED
    BY <1>4, <1>6, <2>2, <2>3 DEF BitsMatch
<1> QED
  BY <1>5, <1>6

\* A subnet lies in another one when that one's prefix is the shorter and begins it.
LEMMA ContainedIsPrefix ==
    ASSUME NEW info \in Subnets, NEW entry \in Subnets, entry.family = info.family
    PROVE  ContainedIn(info, entry) <=>
              entry.shift <= info.shift /\ SamePrefix(info.net, entry.net, entry.shift)
<1> DEFINE family == info.family
           a == info.net
           e == entry.net
           k == info.shift
           s == entry.shift
<1>1. /\ family \in Families /\ k \in 0..BitCount(family) /\ s \in 0..BitCount(family)
      /\ a \in Address(family) /\ e \in Address(family) /\ BitCount(family) \in Nat
  BY SubnetProperties, Sizes
<1>2. ASSUME s <= k, SamePrefix(a, e, s) PROVE ContainedIn(info, entry)
  <2>1. SUFFICES ASSUME NEW b \in Address(family), SamePrefix(a, b, k)
                 PROVE  SamePrefix(e, b, s)
    BY DEF ContainedIn, AddressesOf
  <2>2. SamePrefix(b, a, k)
    BY <1>1, <2>1, PrefixSymmetric
  <2>3. SamePrefix(b, e, s)
    BY <1>1, <1>2, <2>2, PrefixTransitive
  <2> QED
    BY <1>1, <2>3, PrefixSymmetric
<1>3. ASSUME ContainedIn(info, entry) PROVE SamePrefix(a, e, s)
  <2>1. SamePrefix(a, a, k)
    BY DEF SamePrefix
  <2>2. SamePrefix(e, a, s)
    BY <1>1, <1>3, <2>1 DEF ContainedIn, AddressesOf
  <2> QED
    BY <1>1, <2>2, PrefixSymmetric
<1>4. ASSUME ContainedIn(info, entry), k < s PROVE FALSE
  <2> DEFINE i == k \div CharBit + 1
             p == CharBit - 1 - (k % CharBit)
             flipped == IF p \in a[i] THEN a[i] \ {p} ELSE a[i] \cup {p}
             b == [a EXCEPT ![i] = flipped]
  <2>1. k \in 0..BitCount(family) - 1
    BY <1>1, <1>4
  <2>2. i \in 1..ByteCount(family) /\ p \in 0..CharBit - 1
    BY <1>1, <2>1, BitPosition
  <2>3. flipped \in Byte /\ (p \in flipped <=> p \notin a[i])
        /\ \A x : x # p => (x \in flipped <=> x \in a[i])
    BY <1>1, <2>2 DEF Address, Byte
  <2> HIDE DEF flipped
  <2>4. b \in Address(family) /\ b[i] = flipped /\ \A j \in 1..ByteCount(family) : j # i => b[j] = a[j]
    BY <1>1, <2>2, <2>3 DEF Address
  <2> HIDE DEF b
  <2>5. ~(Bit(b, k) <=> Bit(a, k))
    BY <2>3, <2>4 DEF Bit
  <2>6. ASSUME NEW m \in 0..k - 1 PROVE Bit(a, m) <=> Bit(b, m)
    <3> DEFINE j == m \div CharBit + 1
               x == CharBit - 1 - (m % CharBit)
    <3>1. m \in 0..BitCount(family) - 1 /\ m # k
      BY <1>1, <2>1
    <3>2. /\ j \in 1..ByteCount(family) /\ m = CharBit * (m \div CharBit) + (m % CharBit)
          /\ k = CharBit * (k \div CharBit) + (k % CharBit)
      BY <1>1, <2>1, <3>1, BitPosition
    <3>3. j # i \/ x # p
      <4> SUFFICES ASSUME j = i, x = p PROVE FALSE
        OBVIOUS
      <4>0. CharBit \in Nat \ {0} /\ k \in Nat /\ m \in Nat
        BY <1>1, Sizes
      <4>1. m \div CharBit = k \div CharBit /\ m % CharBit = k % CharBit
        BY <4>0
      <4> QED
        BY <3>1, <3>2, <4>1
    <3>4. CASE j # i
      BY <2>4, <3>2, <3>4 DEF Bit
    <3>5. CASE j = i /\ x # p
      BY <2>3, <2>4, <3>5 DEF Bit
    <3> QED
      BY <3>3, <3>4, <3>5
  <2>7. SamePrefix(a, b, k)
    BY <2>6 DEF SamePrefix
  <2>8. SamePrefix(e, b, s)
    BY <1>4, <2>4, <2>7 DEF ContainedIn, AddressesOf
  <2>9. k \in 0..s - 1
    BY <1>1, <1>4
  <2>10. Bit(e, k) <=> Bit(b, k)
    BY <2>8, <2>9 DEF SamePrefix
  <2>11. Bit(a, k) <=> Bit(e, k)
    BY <1>3, <1>4, <2>9 DEF SamePrefix
  <2> QED
    BY <2>5, <2>10, <2>11
<1> QED
  BY <1>1, <1>2, <1>3, <1>4

-----------------------------------------------------------------------------
(* The settings.                                                             *)

\* The lists of config_init hold subnets, and nothing that could not be parsed.
LEMMA ParsedList ==
    ASSUME NEW raw \in Seq(Texts)
    PROVE  parse_and_free_raw_subnetlist(raw) \in Seq(Subnets)
<1> DEFINE n == Len(raw)
           S == Seq(Subnets)
           Keep(k, s) == IF addrmask_parse(raw[k]) = Invalid THEN s
                         ELSE Append(s, addrmask_parse(raw[k]))
           T == [k \in 1..n |-> [s \in S |-> Keep(k, s)]]
           P(f) == [k \in 0..n |-> IF k = 0 THEN <<>> ELSE Keep(k, f[k - 1])]
<1>1. n \in Nat /\ <<>> \in S
  BY LenProperties, EmptySeq
<1>2. ASSUME NEW k \in 1..n, NEW s \in S PROVE Keep(k, s) \in S
  <2>1. raw[k] \in Texts
    BY ElementOfSeq
  <2>2. addrmask_parse(raw[k]) # Invalid => addrmask_parse(raw[k]) \in Subnets
    BY <2>1 DEF Subnets
  <2> QED
    BY <2>2, AppendProperties
<1>3. T \in [1..n -> [S -> S]]
  <2> HIDE DEF S, Keep, n
  <2> QED
    BY <1>2
<1>4. PICK f : IsIteration(f, n, S, <<>>, T)
  <2> HIDE DEF n, S, T
  <2> QED
    BY <1>1, <1>3, IterationExists, Zenon
<1> HIDE DEF S, Keep, n
<1> USE DEF IsIteration
<1>5. \A k \in 1..n : f[k] = Keep(k, f[k - 1])
  <2> SUFFICES ASSUME NEW k \in 1..n PROVE f[k] = Keep(k, f[k - 1])
    OBVIOUS
  <2>1. k - 1 \in 0..n
    BY <1>1
  <2> QED
    BY <1>4, <2>1
<1>6. f = P(f)
  <2>1. f = [k \in 0..n |-> f[k]]
    BY <1>4
  <2>2. \A k \in 0..n : k = 0 \/ k \in 1..n
    BY <1>1
  <2>3. [k \in 0..n |-> f[k]] = P(f)
    BY <1>4, <1>5, <2>2
  <2> QED
    BY <2>1, <2>3
<1> DEFINE W == CHOOSE g : g = P(g)
<1>7. W = P(W)
  BY <1>6
<1>8. parse_and_free_raw_subnetlist(raw) = W[n]
  BY DEF parse_and_free_raw_subnetlist, Keep, n
<1> HIDE DEF W
<1> DEFINE Good == {k \in 0..n : W[k] \in S}
<1>9. \A k \in 0..n : k \in Good
  <2>1. 0 \in Good
    BY <1>1, <1>7
  <2>2. ASSUME NEW k \in 1..n, k - 1 \in Good PROVE k \in Good
    <3>1. k \in 0..n /\ k # 0
      BY <1>1
    <3>2. W[k] = Keep(k, W[k - 1])
      BY <1>7, <3>1
    <3> QED
      BY <1>2, <2>2, <3>1, <3>2
  <2> HIDE DEF Good
  <2> QED
    BY <1>1, <2>1, <2>2, IterationInduction
<1> QED
  BY <1>1, <1>8, <1>9 DEF S

\* What config_init leaves of the settings.
ConfigInv ==
    /\ config_init(config)
    /\ \A f \in SubnetLists : config[f] \in Seq(Subnets)

\* config_init establishes it.
LEMMA InitConfig == Init => ConfigInv
<1> SUFFICES ASSUME Init PROVE ConfigInv
  OBVIOUS
<1>1. PICK raw \in Settings : config = Configured(raw) /\ config_init(config)
  BY DEF Init
<1>2. SubnetLists \subseteq DOMAIN raw /\ \A f \in SubnetLists : raw[f] \in Seq(Texts)
  BY SettingsAssumption
<1>3. \A f \in SubnetLists : config[f] = parse_and_free_raw_subnetlist(raw[f])
  BY <1>1, <1>2 DEF Configured, SubnetLists
<1> QED
  BY <1>1, <1>2, <1>3, ParsedList DEF ConfigInv

\* An entry that addrmask_match finds contains the subnet; when it finds none and no
\* entry lies within another, none contains it.
LEMMA MatchMeans ==
    ASSUME NEW list \in Seq(Subnets), NEW t, addrmask_parse(t) \in Subnets
    PROVE  /\ addrmask_match(list, t) # 0 =>
                 \E k \in 1..Len(list) : ContainedIn(addrmask_parse(t), list[k])
           /\ addrmask_match(list, t) = 0 /\ Disjoint(list) =>
                 \A k \in 1..Len(list) : ~ ContainedIn(addrmask_parse(t), list[k])
<1> DEFINE info == addrmask_parse(t)
           hits == {k \in DOMAIN list : BitsMatch(list[k], info)}
           first == Min(hits)
<1>1. info \in Subnets /\ info # Invalid /\ info.shift \in Nat
  BY SubnetProperties, Sizes
<1>2. DOMAIN list = 1..Len(list) /\ Len(list) \in Nat
      /\ \A k \in 1..Len(list) : list[k] \in Subnets /\ list[k].shift \in Nat
  BY LenProperties, ElementOfSeq, SubnetProperties, Sizes
<1>3. addrmask_match(list, t) = IF hits = {} THEN 0
                                ELSE IF info.shift < list[first].shift THEN 0 ELSE first
  BY <1>1 DEF addrmask_match
<1>4. ASSUME NEW k \in hits
      PROVE  /\ k \in 1..Len(list) /\ list[k].family = info.family
             /\ SamePrefix(info.net, list[k].net, list[k].shift)
  BY <1>1, <1>2, MatchIsPrefix DEF BitsMatch
<1>5. hits # {} => first \in hits
  <2>1. hits \in SUBSET Nat
    BY <1>2
  <2> HIDE DEF hits
  <2> QED
    BY <2>1, MinNat
<1>6. ASSUME NEW k \in 1..Len(list), ContainedIn(info, list[k])
      PROVE  /\ k \in hits /\ list[k].shift <= info.shift /\ list[k].family = info.family
             /\ SamePrefix(info.net, list[k].net, list[k].shift)
  <2>1. list[k].family = info.family
    BY <1>6 DEF ContainedIn
  <2> QED
    BY <1>1, <1>2, <1>6, <2>1, ContainedIsPrefix, MatchIsPrefix
<1> HIDE DEF hits, first, info
<1>7. ASSUME addrmask_match(list, t) # 0
      PROVE  \E k \in 1..Len(list) : ContainedIn(info, list[k])
  <2>1. hits # {} /\ ~(info.shift < list[first].shift)
    BY <1>3, <1>7
  <2>2. list[first].shift <= info.shift
    BY <1>1, <1>2, <1>4, <1>5, <2>1
  <2> QED
    BY <1>1, <1>2, <1>4, <1>5, <2>1, <2>2, ContainedIsPrefix
<1>8. ASSUME addrmask_match(list, t) = 0, Disjoint(list),
             NEW k \in 1..Len(list), ContainedIn(info, list[k])
      PROVE  FALSE
  <2>1. /\ k \in hits /\ list[k].shift <= info.shift
        /\ SamePrefix(info.net, list[k].net, list[k].shift) /\ list[k].family = info.family
    BY <1>6, <1>8
  <2>2. /\ first \in 1..Len(list) /\ list[first].family = info.family
        /\ SamePrefix(info.net, list[first].net, list[first].shift)
    BY <1>4, <1>5, <2>1
  <2>3. info.shift < list[first].shift
    BY <1>2, <1>3, <1>8, <2>1, <2>2
  <2>4. list[k].shift \in 0..list[first].shift /\ list[first].shift \in Nat
    BY <1>1, <1>2, <2>1, <2>2, <2>3
  <2>5. SamePrefix(list[first].net, info.net, list[first].shift)
    BY <2>2, <2>4, PrefixSymmetric
  <2>6. SamePrefix(list[first].net, list[k].net, list[k].shift)
    BY <2>1, <2>4, <2>5, PrefixTransitive
  <2>7. ContainedIn(list[first], list[k])
    BY <1>2, <2>1, <2>2, <2>4, <2>6, ContainedIsPrefix
  <2>8. first = k
    BY <1>2, <1>8, <2>2, <2>7 DEF Disjoint
  <2> QED
    BY <1>1, <1>2, <2>1, <2>3, <2>8
<1> QED
  BY <1>7, <1>8 DEF info

-----------------------------------------------------------------------------
(* The parser.                                                               *)

\* An entry: its flags, its port, and lists of networks that addrmask_verify_subnet
\* accepted for the family of the list.
FieldOK(f, value) ==
    /\ f \in FlagFields => value \in BOOLEAN
    /\ f \in DOMAIN ListFields =>
          /\ value \in Seq(Texts)
          /\ \A i \in 1..Len(value) : addrmask_verify_subnet(value[i], ListFields[f])
    /\ f = "port" => value \in 0 .. PortModulus - 1

IsPeer(p) == DOMAIN p = PeerFields /\ \A f \in PeerFields : FieldOK(f, p[f])

\* The parser's own invariant.
ParseInv ==
    /\ data \in Data /\ pos \in 1 .. Len(data) + 1
    /\ peers \in Seq(Range(peers)) /\ Len(peers) < pos
    /\ \A k \in 1 .. Len(peers) : IsPeer(peers[k])
    /\ parse_key_mode \in BOOLEAN

\* The fetched configuration, line by line.
LEMMA DataIsSeq ==
    ASSUME NEW d \in Data
    PROVE  d \in Seq(Range(d)) /\ Len(d) \in Nat /\ \A i \in 1..Len(d) : IsLine(d[i])
<1>1. d \in Seq(Range(d)) /\ \A l \in Range(d) : IsLine(l)
  BY DataAssumption
<1>2. Len(d) \in Nat /\ DOMAIN d = 1..Len(d)
  BY <1>1, LenProperties
<1> QED
  BY <1>1, <1>2 DEF Range

\* The new section, without settings.
LEMMA CreatedPeer ==
    ASSUME NEW name
    PROVE  IsPeer(parser_create_config(name)) /\ parser_create_config(name).name = name
<1> DEFINE p == parser_create_config(name)
<1>1. DOMAIN ListFields = {"network", "network6", "route_network", "route_network6"}
  BY DEF ListFields
<1>4. DOMAIN p = PeerFields
  BY DEF parser_create_config
<1>5. \A f \in FlagFields : p[f] = FALSE
  BY DEF parser_create_config, FlagFields, StringFields, PeerFields
<1>6. \A f \in DOMAIN ListFields : p[f] = <<>>
  BY <1>1 DEF parser_create_config, FlagFields, StringFields, PeerFields
<1>7. p.port = DefaultPort /\ p.name = name
  BY DEF parser_create_config, FlagFields, StringFields, PeerFields
<1> HIDE DEF p
<1>8. ASSUME NEW f \in PeerFields PROVE FieldOK(f, p[f])
  <2>1. f \in DOMAIN ListFields => p[f] \in Seq(Texts) /\ Len(p[f]) = 0
    BY <1>6, EmptySeq
  <2>2. ASSUME f = "port" PROVE p[f] \in 0..PortModulus - 1
    <3>1. p[f] = 655
      BY <1>7, <2>2 DEF DefaultPort
    <3> QED
      BY <3>1 DEF PortModulus
  <2>3. f \in FlagFields => p[f] \in BOOLEAN
    BY <1>5
  <2>4. f \in DOMAIN ListFields => \A i \in 1..Len(p[f]) : addrmask_verify_subnet(p[f][i], ListFields[f])
    BY <2>1
  <2> QED
    BY <2>1, <2>2, <2>3, <2>4 DEF FieldOK
<1> QED
  BY <1>4, <1>7, <1>8 DEF p, IsPeer

\* A port read by strtoul is cut to an unsigned short.
LEMMA PortRange == \A v \in Nat : v % PortModulus \in 0..PortModulus - 1
<1>1. PortModulus \in Nat /\ PortModulus > 0
  BY SMT DEF PortModulus
<1>2. ASSUME NEW v \in Nat, NEW m \in Nat, m > 0 PROVE v % m \in 0..m - 1
  BY <1>2, SMT
<1> QED
  BY <1>1, <1>2

\* Setting one field of the last entry keeps the others.
LEMMA Assigned ==
    ASSUME ParseInv, peers # <<>>, NEW field \in PeerFields, NEW value,
           FieldOK(field, value), Assign(field, value)
    PROVE  /\ peers' \in Seq(Range(peers)') /\ Len(peers') = Len(peers)
           /\ \A k \in 1 .. Len(peers') : IsPeer(peers'[k])
<1> DEFINE n == Len(peers)
           p == [peers[n] EXCEPT ![field] = value]
           S == Range(peers) \cup {p}
<1>1. n \in Nat /\ n # 0 /\ n \in 1..Len(peers)
  BY LenProperties, EmptySeq DEF ParseInv
<1>2. peers \in Seq(S)
  BY DEF ParseInv
<1>3. peers' = [peers EXCEPT ![n] = p]
  BY DEF Assign
<1>4. DOMAIN peers[n] = PeerFields /\ \A f \in PeerFields : FieldOK(f, peers[n][f])
  BY <1>1 DEF ParseInv, IsPeer
<1>5. IsPeer(p)
  <2>1. DOMAIN p = PeerFields
    BY <1>4
  <2>2. ASSUME NEW f \in PeerFields PROVE FieldOK(f, p[f])
    <3>1. CASE f = field
      BY <1>4, <3>1
    <3>2. CASE f # field
      BY <1>4, <3>2
    <3> QED
      BY <3>1, <3>2
  <2> QED
    BY <2>1, <2>2 DEF IsPeer
<1> HIDE DEF p
<1>6. p \in S
  OBVIOUS
<1> HIDE DEF S
<1>7. /\ peers' \in Seq(S) /\ Len(peers') = Len(peers)
      /\ \A j \in 1..Len(peers) : peers'[j] = IF j = n THEN p ELSE peers[j]
  BY <1>1, <1>2, <1>3, <1>6, ExceptSeq
<1>8. peers' \in Seq(Range(peers'))
  BY <1>7, SeqOfRange
<1> QED
  BY <1>5, <1>7, <1>8 DEF ParseInv, Range

\* What the lines assign fits the field.
LEMMA ParsePreserves ==
    ASSUME ConfigInv, ParseInv, Next
    PROVE  ParseInv'
<1>1. /\ data \in Data /\ Len(data) \in Nat /\ \A i \in 1..Len(data) : IsLine(data[i])
      /\ Len(peers) \in Nat
  BY DataIsSeq, LenProperties DEF ParseInv
<1>2. ASSUME NEW kinds, Line(kinds)
      PROVE  /\ data' = data /\ pos' \in 1..Len(data) + 1 /\ Len(peers) + 1 < pos'
             /\ IsLine(data[pos]) /\ data[pos].kind \in kinds
  BY <1>1, <1>2 DEF Line, ParseInv
<1>3. ASSUME NEW kinds, Line(kinds), UNCHANGED <<peers, parse_key_mode>>
      PROVE  ParseInv'
  BY <1>1, <1>2, <1>3 DEF ParseInv, Range
<1>4. ASSUME NEW kinds, Line(kinds), peers # <<>>, NEW field \in PeerFields, NEW value,
             FieldOK(field, value), Assign(field, value), parse_key_mode' \in BOOLEAN
      PROVE  ParseInv'
  <2>1. /\ peers' \in Seq(Range(peers)') /\ Len(peers') = Len(peers)
        /\ \A k \in 1 .. Len(peers') : IsPeer(peers'[k])
    BY <1>4, Assigned
  <2> QED
    BY <1>1, <1>2, <1>4, <2>1 DEF ParseInv
<1>5. CASE ParseHeader
  <2> DEFINE p == parser_create_config(data[pos].name)
             S == Range(peers) \cup {p}
  <2>1. peers' = Append(peers, p) /\ parse_key_mode' = FALSE /\ Line({"header"})
    BY <1>5 DEF ParseHeader
  <2>2. IsPeer(p)
    BY CreatedPeer
  <2>3. peers \in Seq(S) /\ p \in S
    BY DEF ParseInv
  <2> HIDE DEF p, S
  <2>4. /\ peers' \in Seq(S) /\ Len(peers') = Len(peers) + 1
        /\ \A i \in 1..Len(peers) : peers'[i] = peers[i]
        /\ peers'[Len(peers) + 1] = p
    BY <2>1, <2>3, AppendProperties
  <2>5. peers' \in Seq(Range(peers'))
    BY <2>4, SeqOfRange
  <2>6. \A k \in 1..Len(peers') : IsPeer(peers'[k])
    BY <1>1, <2>2, <2>4 DEF ParseInv
  <2>7. Len(peers') < pos'
    BY <1>2, <2>1, <2>4
  <2> QED
    BY <1>2, <2>1, <2>5, <2>6, <2>7 DEF ParseInv, Range
<1>6. CASE ParseSkipped
  BY <1>3, <1>6 DEF ParseSkipped
<1>7. CASE ParseString
  <2>1. /\ Line({"string"}) /\ peers # <<>> /\ Assign(data[pos].field, data[pos].value)
        /\ parse_key_mode' = parse_key_mode
    BY <1>7 DEF ParseString
  <2>2. data[pos].field \in StringFields
    BY <1>2, <2>1 DEF IsLine
  <2>3. data[pos].field \in PeerFields /\ FieldOK(data[pos].field, data[pos].value)
    BY <2>2 DEF PeerFields, FieldOK, StringFields, FlagFields, ListFields
  <2> QED
    BY <1>4, <2>1, <2>3 DEF ParseInv
<1>8. CASE ParseFlag
  <2>1. /\ Line({"flag"}) /\ peers # <<>>
        /\ Assign(data[pos].field, str_is_true(data[pos].value))
        /\ parse_key_mode' = parse_key_mode
    BY <1>8 DEF ParseFlag
  <2>2. data[pos].field \in FlagFields
    BY <1>2, <2>1 DEF IsLine
  <2>3. str_is_true(data[pos].value) \in BOOLEAN
    BY DEF str_is_true
  <2>4. data[pos].field \in PeerFields /\ FieldOK(data[pos].field, str_is_true(data[pos].value))
    <3>1. /\ data[pos].field \in PeerFields /\ data[pos].field \notin DOMAIN ListFields
          /\ data[pos].field # "port"
      BY <2>2 DEF PeerFields, FlagFields, ListFields
    <3> QED
      BY <2>3, <3>1 DEF FieldOK
  <2> QED
    BY <1>4, <2>1, <2>4 DEF ParseInv
<1>9. CASE ParseList
  <2> DEFINE field == data[pos].field
             text  == data[pos].value
  <2>1. Line({"list"}) /\ peers # <<>> /\ parse_key_mode' = parse_key_mode
    BY <1>9 DEF ParseList
  <2>2. field \in DOMAIN ListFields /\ text \in Texts
    BY <1>2, <2>1 DEF IsLine
  <2>3. CASE addrmask_verify_subnet(text, ListFields[field])
    <3> DEFINE old == peers[Len(peers)][field]
               value == Append(old, text)
    <3>1. Assign(field, value)
      BY <1>9, <2>3 DEF ParseList, Last
    <3>2. field \in PeerFields /\ field \notin FlagFields /\ field # "port"
      BY <2>2 DEF PeerFields, FlagFields, ListFields
    <3>3. Len(peers) \in 1..Len(peers)
      BY <1>1, <2>1, EmptySeq DEF ParseInv
    <3>4. FieldOK(field, old)
      BY <3>2, <3>3 DEF ParseInv, IsPeer
    <3>5. /\ old \in Seq(Texts) /\ Len(old) \in Nat
          /\ \A i \in 1..Len(old) : addrmask_verify_subnet(old[i], ListFields[field])
      BY <2>2, <3>4, LenProperties DEF FieldOK
    <3> HIDE DEF old
    <3>6. /\ value \in Seq(Texts) /\ Len(value) = Len(old) + 1
          /\ \A i \in 1..Len(old) : value[i] = old[i]
          /\ value[Len(old) + 1] = text
      BY <2>2, <3>5, AppendProperties
    <3> HIDE DEF value
    <3>7. \A i \in 1..Len(value) : addrmask_verify_subnet(value[i], ListFields[field])
      <4> SUFFICES ASSUME NEW i \in 1..Len(value)
                   PROVE  addrmask_verify_subnet(value[i], ListFields[field])
        OBVIOUS
      <4>1. i \in 1..Len(old) \/ i = Len(old) + 1
        BY <3>5, <3>6
      <4> QED
        BY <2>3, <3>5, <3>6, <4>1
    <3>8. FieldOK(field, value)
      BY <3>2, <3>6, <3>7 DEF FieldOK
    <3> QED
      BY <1>4, <2>1, <3>1, <3>2, <3>8 DEF ParseInv
  <2>4. CASE ~ addrmask_verify_subnet(text, ListFields[field])
    <3>1. UNCHANGED <<peers, parse_key_mode>>
      BY <1>9, <2>4 DEF ParseList
    <3> QED
      BY <1>3, <2>1, <3>1
  <2> QED
    BY <2>3, <2>4
<1>10. CASE ParsePort
  <2>1. Line({"port"}) /\ peers # <<>> /\ parse_key_mode' = parse_key_mode
    BY <1>10 DEF ParsePort
  <2>2. data[pos].value \in Nat \cup {TooLarge}
    BY <1>2, <2>1 DEF IsLine
  <2>3. CASE data[pos].value # TooLarge
    <3> DEFINE port == data[pos].value % PortModulus
    <3>1. Assign("port", port)
      BY <1>10, <2>3 DEF ParsePort
    <3>2. port \in 0..PortModulus - 1
      <4>1. data[pos].value \in Nat
        BY <2>2, <2>3
      <4> QED
        BY <4>1, PortRange, Zenon
    <3>3. "port" \in PeerFields /\ "port" \notin FlagFields /\ "port" \notin DOMAIN ListFields
      BY DEF PeerFields, FlagFields, ListFields
    <3> HIDE DEF port
    <3>4. FieldOK("port", port)
      BY <3>2, <3>3 DEF FieldOK
    <3> QED
      BY <1>4, <2>1, <3>1, <3>3, <3>4 DEF ParseInv
  <2>4. CASE data[pos].value = TooLarge
    <3>1. UNCHANGED <<peers, parse_key_mode>>
      BY <1>10, <2>4 DEF ParsePort
    <3> QED
      BY <1>3, <2>1, <3>1
  <2> QED
    BY <2>3, <2>4
<1>11. \A value : "key" \in PeerFields /\ FieldOK("key", value)
  BY DEF PeerFields, FieldOK, FlagFields, ListFields
<1>12. CASE ParseBegin
  BY <1>4, <1>11, <1>12 DEF ParseBegin
<1>13. CASE ParseEnd
  BY <1>4, <1>11, <1>13 DEF ParseEnd, parser_extend_key
<1>14. CASE ParseOther
  <2>1. CASE parse_key_mode
    BY <1>4, <1>11, <1>14, <2>1 DEF ParseOther, parser_extend_key, ParseInv
  <2>2. CASE ~ parse_key_mode
    BY <1>3, <1>14, <2>2 DEF ParseOther
  <2> QED
    BY <2>1, <2>2
<1>15. ASSUME UNCHANGED <<data, pos, peers, parse_key_mode>> PROVE ParseInv'
  BY <1>15 DEF ParseInv, Range
<1>16. CASE FindMyPeer
  BY <1>15, <1>16 DEF FindMyPeer, parseVars
<1>17. CASE WriteFiles
  BY <1>15, <1>17 DEF WriteFiles, tinc_write_config, tinc_write_hosts, tinc_write_up,
       tinc_write_down, tinc_write_subnetup, tinc_write_subnetdown, Write, parseVars
<1>18. CASE Tincd
  BY <1>15, <1>18 DEF Tincd, TincdUp, TincdDown, NodeUp, NodeDown, tincdUnchanged, parseVars
<1> QED
  BY <1>5, <1>6, <1>7, <1>8, <1>9, <1>10, <1>12, <1>13, <1>14, <1>16, <1>17, <1>18
     DEF Next, Parse

-----------------------------------------------------------------------------
(* The entries: what the parser makes of the lines of a section.             *)

\* A line behind the others changes no rank and comes last.
LEMMA RankGrows ==
    ASSUME NEW S \in SUBSET Nat, NEW m \in Nat, \A j \in S : j < m
    PROVE  /\ IsFiniteSet(S) /\ Cardinality(S) \in Nat
           /\ IsFiniteSet(S \cup {m}) /\ Cardinality(S \cup {m}) = Cardinality(S) + 1
           /\ \A i \in S : Rank(S, i) \in 1..Cardinality(S) /\ Rank(S \cup {m}, i) = Rank(S, i)
           /\ Rank(S \cup {m}, m) = Cardinality(S) + 1
<1>1. IsFiniteSet(S) /\ Cardinality(S) \in Nat
  <2>1. \A j \in S : j <= m
    OBVIOUS
  <2>2. IsFiniteSet(S)
    BY <2>1, FS_BoundedSetOfNaturals
  <2> QED
    BY <2>2, FS_CardinalityType
<1>2. m \notin S
  OBVIOUS
<1>3. IsFiniteSet(S \cup {m}) /\ Cardinality(S \cup {m}) = Cardinality(S) + 1
  BY <1>1, <1>2, FS_AddElement
<1>4. ASSUME NEW i \in S
      PROVE  Rank(S, i) \in 1..Cardinality(S) /\ Rank(S \cup {m}, i) = Rank(S, i)
  <2> DEFINE T == {j \in S : j <= i}
  <2>1. {j \in S \cup {m} : j <= i} = T
    OBVIOUS
  <2>2. T \in SUBSET S /\ T # {}
    OBVIOUS
  <2>3. Rank(S, i) = Cardinality(T) /\ Rank(S \cup {m}, i) = Cardinality(T)
    BY <2>1 DEF Rank
  <2> HIDE DEF T
  <2>4. IsFiniteSet(T) /\ Cardinality(T) <= Cardinality(S)
    BY <1>1, <2>2, FS_Subset
  <2>5. Cardinality(T) \in Nat /\ Cardinality(T) # 0
    BY <2>2, <2>4, FS_CardinalityType, FS_EmptySet
  <2> QED
    BY <1>1, <2>3, <2>4, <2>5
<1>5. Rank(S \cup {m}, m) = Cardinality(S) + 1
  <2>1. \A j \in S \cup {m} : j <= m
    OBVIOUS
  <2>2. {j \in S \cup {m} : j <= m} = S \cup {m}
    BY <2>1
  <2> QED
    BY <1>3, <2>2 DEF Rank
<1> QED
  BY <1>1, <1>3, <1>4, <1>5

\* A list to which the text of the next line is appended.
LEMMA ListGrows ==
    ASSUME NEW S \in SUBSET Nat, NEW m \in Nat, \A j \in S : j < m,
           NEW T, NEW list \in Seq(T), NEW e \in T, NEW text, NEW longer,
           Lists(list, S, text), longer[m] = e, \A i \in S : longer[i] = text[i]
    PROVE  Lists(Append(list, e), S \cup {m}, longer)
<1> DEFINE c == Cardinality(S)
           new == Append(list, e)
<1>1. /\ c \in Nat /\ Cardinality(S \cup {m}) = c + 1
      /\ \A i \in S : Rank(S, i) \in 1..c /\ Rank(S \cup {m}, i) = Rank(S, i)
      /\ Rank(S \cup {m}, m) = c + 1
  BY RankGrows
<1>2. Len(list) = c /\ \A i \in S : list[Rank(S, i)] = text[i]
  BY DEF Lists
<1>3. Len(new) = c + 1 /\ new[c + 1] = e /\ \A k \in 1..c : new[k] = list[k]
  BY <1>2, AppendProperties
<1> HIDE DEF new, c
<1>4. ASSUME NEW i \in S \cup {m} PROVE new[Rank(S \cup {m}, i)] = longer[i]
  <2>1. CASE i \in S
    BY <1>1, <1>2, <1>3, <2>1
  <2>2. CASE i = m
    BY <1>1, <1>3, <2>2
  <2> QED
    BY <2>1, <2>2
<1>5. Len(new) = Cardinality(S \cup {m})
  BY <1>1, <1>3
<1> QED
  BY <1>4, <1>5 DEF Lists, new

\* A list of one line, and of none.
LEMMA ListStarts ==
    /\ \A text : Lists(<<>>, {}, text)
    /\ \A m \in Nat : \A e, text : text[m] = e => Lists(<<e>>, {m}, text)
<1>1. ASSUME NEW text PROVE Lists(<<>>, {}, text)
  BY FS_EmptySet, EmptySeq DEF Lists
<1>2. ASSUME NEW m \in Nat, NEW e, NEW text, text[m] = e PROVE Lists(<<e>>, {m}, text)
  <2>1. {j \in {m} : j <= m} = {m}
    OBVIOUS
  <2>2. Cardinality({m}) = 1 /\ Rank({m}, m) = 1
    BY <2>1, FS_Singleton DEF Rank
  <2>3. Len(<<e>>) = 1 /\ <<e>>[1] = e
    OBVIOUS
  <2> QED
    BY <1>2, <2>2, <2>3 DEF Lists
<1> QED
  BY <1>1, <1>2

\* The greatest of a set of lines that gains a later one.
LEMMA LastGrows ==
    ASSUME NEW S \in SUBSET Nat, NEW m \in Nat, \A j \in S : j < m
    PROVE  Max(S \cup {m}) = m
<1>1. m \in S \cup {m} /\ \A y \in S \cup {m} : m >= y
  OBVIOUS
<1>2. ASSUME NEW x \in S \cup {m}, \A y \in S \cup {m} : x >= y PROVE x = m
  BY <1>2
<1> QED
  BY <1>1, <1>2 DEF Max

\* A field of an entry has what these lines say of it.
FieldFrom(f, v, lines) ==
    /\ f = "key" =>
          /\ v \in Seq(Range(v))
          /\ Lists(v, KeyLines(lines),
                   [i \in KeyLines(lines) |->
                       IF data[i].kind = "other" THEN data[i].value ELSE data[i].kind])
    /\ f \in StringFields => v = LastValue(Given(lines, "string", f), Empty)
    /\ f \in FlagFields => (v <=> LastValue(Given(lines, "flag", f), "no") = "yes")
    /\ f \in DOMAIN ListFields =>
          Lists(v, Networked(Given(lines, "list", f), ListFields[f]),
                [i \in Networked(Given(lines, "list", f), ListFields[f]) |-> data[i].value])
    /\ f = "port" => v = LastValue(Ports(lines), DefaultPort) % PortModulus

\* The lines of a section that have been read.
SectionSoFar(k) == {i \in Section(k) : i < pos}

\* While the lines are read: the entries come from the lines read, and
\* parse_key_mode says whether the key of the last section is still open.
EntryInv ==
    /\ pc # "parse" => pos = Len(data) + 1
    /\ Len(peers) = Cardinality({h \in Headers : h < pos})
    /\ \A h \in Headers : h < pos => peers[Rank(Headers, h)].name = data[h].name
    /\ \A k \in 1..Len(peers) : \A f \in PeerFields : FieldFrom(f, peers[k][f], SectionSoFar(k))
    /\ peers # <<>> => (parse_key_mode <=> OpenKey(SectionSoFar(Len(peers))))

\* The line says something about the field.
Touches(l, f) ==
    \/ f = "key" /\ l.kind \in {"begin", "end", "other"}
    \/ f = "port" /\ l.kind = "port"
    \/ l.kind \in {"string", "flag", "list"} /\ l.field = f

\* A line with a port joins the others.
LEMMA PortsGrow ==
    ASSUME NEW L, NEW m
    PROVE  Ports(L \cup {m}) = IF data[m].kind = "port" /\ data[m].value # TooLarge
                               THEN Ports(L) \cup {m} ELSE Ports(L)
  BY DEF Ports

\* A BEGIN line starts the key anew, an END line and the lines of an open key go on.
LEMMA KeyGrows ==
    ASSUME ParseInv, NEW L \in SUBSET (1..Len(data)), NEW m \in 1..Len(data), \A j \in L : j < m
    PROVE  /\ (OpenKey(L \cup {m}) <=>
                 data[m].kind = "begin" \/ (data[m].kind # "end" /\ OpenKey(L)))
           /\ KeyLines(L \cup {m}) =
                 IF data[m].kind = "begin" THEN {m}
                 ELSE IF data[m].kind = "end" \/ (data[m].kind = "other" /\ OpenKey(L))
                 THEN KeyLines(L) \cup {m} ELSE KeyLines(L)
<1>1. Len(data) \in Nat
  BY DataIsSeq DEF ParseInv
<1>4. m \in Nat /\ \A j \in L : j \in Nat /\ j < m /\ m > j /\ ~(j > m) /\ ~(m < m) /\ ~(m > m)
  BY <1>1
<1>5. OpenKey(L \cup {m}) <=> data[m].kind = "begin" \/ (data[m].kind # "end" /\ OpenKey(L))
  <2>1. CASE data[m].kind = "begin"
    <3>1. \A j \in L \cup {m} : ~(j > m)
      BY <1>4
    <3>2. OpenKey(L \cup {m})
      BY <2>1, <3>1, <1>4, Zenon DEF OpenKey
    <3> QED
      BY <2>1, <3>2
  <2>2. CASE data[m].kind = "end"
    <3>1. ASSUME NEW b \in L \cup {m}, data[b].kind = "begin" PROVE b \in L /\ m > b
      BY <1>4, <2>2, <3>1
    <3> QED
      BY <2>2, <3>1 DEF OpenKey
  <2>3. CASE data[m].kind \notin {"begin", "end"}
    <3>1. ASSUME NEW b \in L
          PROVE  (\A j \in L \cup {m} : j > b => data[j].kind # "end")
                    <=> (\A j \in L : j > b => data[j].kind # "end")
      BY <2>3
    <3>2. OpenKey(L \cup {m}) <=>
             \E b \in L : data[b].kind = "begin" /\ \A j \in L \cup {m} : j > b => data[j].kind # "end"
      BY <2>3 DEF OpenKey
    <3> QED
      BY <2>3, <3>1, <3>2 DEF OpenKey
  <2> QED
    BY <2>1, <2>2, <2>3
<1>6. {j \in L \cup {m} : j < m} = L
  <2>1. ASSUME NEW j \in L \cup {m}, j < m PROVE j \in L
    BY <1>4, <2>1
  <2>2. ASSUME NEW j \in L PROVE j \in L \cup {m} /\ j < m
    BY <1>4
  <2> QED
    BY <2>1, <2>2
<1>7. ASSUME NEW i \in L PROVE {j \in L \cup {m} : j < i} = {j \in L : j < i}
  BY <1>4
<1>8. KeyLines(L \cup {m}) =
         {i \in L \cup {m} :
            /\ \/ data[i].kind \in {"begin", "end"}
               \/ data[i].kind = "other" /\ OpenKey({j \in L \cup {m} : j < i})
            /\ \A j \in L \cup {m} : j > i => data[j].kind # "begin"}
  BY DEF KeyLines
<1>9. KeyLines(L) = {i \in L :
            /\ \/ data[i].kind \in {"begin", "end"}
               \/ data[i].kind = "other" /\ OpenKey({j \in L : j < i})
            /\ \A j \in L : j > i => data[j].kind # "begin"}
  BY DEF KeyLines
<1>10. m \in KeyLines(L \cup {m}) <=>
          data[m].kind \in {"begin", "end"} \/ (data[m].kind = "other" /\ OpenKey(L))
  <2>1. \A j \in L \cup {m} : ~(j > m)
    BY <1>4
  <2> QED
    <3>1. m \in KeyLines(L \cup {m}) <=>
            /\ \/ data[m].kind \in {"begin", "end"}
               \/ data[m].kind = "other" /\ OpenKey({j \in L \cup {m} : j < m})
            /\ \A j \in L \cup {m} : j > m => data[j].kind # "begin"
      BY <1>8
    <3> QED
      <4> HIDE <1>6
      <4>1. OpenKey({j \in L \cup {m} : j < m}) <=> OpenKey(L)
        BY <1>6
      <4> QED
        BY <2>1, <3>1, <4>1
<1>11. ASSUME NEW i \in L
       PROVE  i \in KeyLines(L \cup {m}) <=> data[m].kind # "begin" /\ i \in KeyLines(L)
  <2>1. m > i
    BY <1>4
  <2>2. i \in KeyLines(L) <=>
            /\ \/ data[i].kind \in {"begin", "end"}
               \/ data[i].kind = "other" /\ OpenKey({j \in L : j < i})
            /\ \A j \in L : j > i => data[j].kind # "begin"
    BY <1>9
  <2>3. i \in KeyLines(L \cup {m}) <=>
            /\ \/ data[i].kind \in {"begin", "end"}
               \/ data[i].kind = "other" /\ OpenKey({j \in L : j < i})
            /\ \A j \in L \cup {m} : j > i => data[j].kind # "begin"
    BY <1>7, <1>8
  <2> QED
    BY <2>1, <2>2, <2>3
<1>12. KeyLines(L \cup {m}) \subseteq L \cup {m} /\ KeyLines(L) \subseteq L /\ m \notin L
  BY <1>4, <1>8, <1>9
<1>13. KeyLines(L \cup {m}) =
                 IF data[m].kind = "begin" THEN {m}
                 ELSE IF data[m].kind = "end" \/ (data[m].kind = "other" /\ OpenKey(L))
                 THEN KeyLines(L) \cup {m} ELSE KeyLines(L)
  <2> DEFINE K == KeyLines(L \cup {m})
             Old == KeyLines(L)
  <2>1. K \subseteq L \cup {m} /\ Old \subseteq L /\ m \notin L
    BY <1>12
  <2>2. \A i \in L : i \in K <=> data[m].kind # "begin" /\ i \in Old
    BY <1>11
  <2>3. m \in K <=> data[m].kind = "begin" \/ data[m].kind = "end"
                       \/ (data[m].kind = "other" /\ OpenKey(L))
    BY <1>10
  <2> HIDE DEF K, Old
  <2>4. CASE data[m].kind = "begin"
    <3>1. m \in K /\ \A i \in L : i \notin K
      BY <2>2, <2>3, <2>4
    <3>2. K = {m}
      BY <2>1, <3>1
    <3> QED
      BY <2>4, <3>2 DEF K
  <2>5. CASE data[m].kind # "begin" /\ m \in K
    <3>1. K = Old \cup {m}
      BY <2>1, <2>2, <2>5
    <3> QED
      BY <2>3, <2>5, <3>1 DEF K, Old
  <2>6. CASE data[m].kind # "begin" /\ m \notin K
    <3>1. K = Old
      BY <2>1, <2>2, <2>6
    <3> QED
      BY <2>3, <2>6, <3>1 DEF K, Old
  <2> QED
    BY <2>3, <2>4, <2>5, <2>6
<1> QED
  BY <1>5, <1>13

\* A line that says nothing about a field leaves it as it is.
LEMMA FieldKept ==
    ASSUME ParseInv, NEW L \in SUBSET (1..Len(data)), NEW m \in 1..Len(data), \A j \in L : j < m,
           NEW f, NEW v, FieldFrom(f, v, L), ~ Touches(data[m], f)
    PROVE  FieldFrom(f, v, L \cup {m})
<1>1. f = "key" => KeyLines(L \cup {m}) = KeyLines(L)
  BY KeyGrows DEF Touches
<1>2. f = "port" => Ports(L \cup {m}) = Ports(L)
  BY PortsGrow DEF Touches
<1>3. ASSUME NEW kind \in {"string", "flag", "list"}
      PROVE  Given(L \cup {m}, kind, f) = Given(L, kind, f)
  <2>1. ~(data[m].kind = kind /\ data[m].field = f)
    BY DEF Touches
  <2> QED
    BY <2>1 DEF Given
<1> QED
  BY <1>1, <1>2, <1>3 DEF FieldFrom


\* The next line is the last of those that give a field a value.
LEMMA ValueGrows ==
    ASSUME ParseInv, NEW L \in SUBSET (1..Len(data)), NEW m \in 1..Len(data), \A j \in L : j < m,
           NEW S \in SUBSET L
    PROVE  S \cup {m} # {} /\ Max(S \cup {m}) = m
<1>1. S \in SUBSET Nat /\ m \in Nat /\ \A j \in S : j < m
  BY DataIsSeq DEF ParseInv
<1>2. Max(S \cup {m}) = m
  BY <1>1, LastGrows
<1> QED
  BY <1>2

\* A string has what the line says.
LEMMA NewString ==
    ASSUME ParseInv, NEW L \in SUBSET (1..Len(data)), NEW m \in 1..Len(data), \A j \in L : j < m,
           data[m].kind = "string", NEW f \in StringFields, data[m].field = f
    PROVE  FieldFrom(f, data[m].value, L \cup {m})
<1>1. Given(L \cup {m}, "string", f) = Given(L, "string", f) \cup {m}
  BY DEF Given
<1>2. Given(L, "string", f) \in SUBSET L
  BY DEF Given
<1>3. LastValue(Given(L \cup {m}, "string", f), Empty) = data[m].value
  BY <1>1, <1>2, ValueGrows DEF LastValue
<1>4. f # "key" /\ f \notin FlagFields /\ f \notin DOMAIN ListFields /\ f # "port"
  BY DEF StringFields, FlagFields, ListFields
<1> QED
  BY <1>3, <1>4 DEF FieldFrom

\* A flag has what the line says.
LEMMA NewFlag ==
    ASSUME ParseInv, NEW L \in SUBSET (1..Len(data)), NEW m \in 1..Len(data), \A j \in L : j < m,
           data[m].kind = "flag", NEW f \in FlagFields, data[m].field = f
    PROVE  FieldFrom(f, str_is_true(data[m].value), L \cup {m})
<1>1. Given(L \cup {m}, "flag", f) = Given(L, "flag", f) \cup {m}
  BY DEF Given
<1>2. Given(L, "flag", f) \in SUBSET L
  BY DEF Given
<1>3. LastValue(Given(L \cup {m}, "flag", f), "no") = data[m].value
  BY <1>1, <1>2, ValueGrows DEF LastValue
<1>4. f # "key" /\ f \notin StringFields /\ f \notin DOMAIN ListFields /\ f # "port"
  BY DEF StringFields, FlagFields, ListFields
<1>5. str_is_true(data[m].value) <=> LastValue(Given(L \cup {m}, "flag", f), "no") = "yes"
  BY <1>3 DEF str_is_true
<1> QED
  BY <1>4, <1>5 DEF FieldFrom

\* A port has what the line says, cut to an unsigned short, unless strtoul failed.
LEMMA NewPort ==
    ASSUME ParseInv, NEW L \in SUBSET (1..Len(data)), NEW m \in 1..Len(data), \A j \in L : j < m,
           data[m].kind = "port"
    PROVE  /\ data[m].value # TooLarge => FieldFrom("port", data[m].value % PortModulus, L \cup {m})
           /\ \A v : data[m].value = TooLarge /\ FieldFrom("port", v, L)
                        => FieldFrom("port", v, L \cup {m})
<1>1. "port" \notin StringFields /\ "port" \notin FlagFields /\ "port" \notin DOMAIN ListFields
  BY DEF StringFields, FlagFields, ListFields
<1>2. ASSUME data[m].value # TooLarge
      PROVE  FieldFrom("port", data[m].value % PortModulus, L \cup {m})
  <2>1. Ports(L \cup {m}) = Ports(L) \cup {m} /\ Ports(L) \in SUBSET L
    BY <1>2, PortsGrow DEF Ports
  <2>2. LastValue(Ports(L \cup {m}), DefaultPort) = data[m].value
    BY <2>1, ValueGrows DEF LastValue
  <2> QED
    BY <1>1, <2>2 DEF FieldFrom
<1>3. ASSUME NEW v, data[m].value = TooLarge, FieldFrom("port", v, L)
      PROVE  FieldFrom("port", v, L \cup {m})
  <2>1. Ports(L \cup {m}) = Ports(L)
    BY <1>3, PortsGrow
  <2> QED
    BY <1>1, <1>3, <2>1 DEF FieldFrom
<1> QED
  BY <1>2, <1>3

\* addrmask_verify_subnet accepts the networks that fit.
LEMMA VerifiedNetwork ==
    ASSUME NEW t \in Texts, NEW family \in Families
    PROVE  addrmask_verify_subnet(t, family) <=>
              /\ t.family = family /\ t.bytes # Unparsable
              /\ t.form \in {"plain", "inner", "outer"}
              /\ t.mask # NoMask => t.mask \in Nat /\ t.mask % ShiftModulus <= BitCount(family)
<1> DEFINE shift == MaskShift(t)
           bad == \/ t.form \in {"unclosed", "trailing"} \/ t.mask = NotDigits
                  \/ shift > BitCount(t.family) \/ t.bytes = Unparsable
           net == addrmask_parse(t)
<1>1. /\ t.form \in Forms /\ t.family \in Families
      /\ t.mask \in Nat \cup {NoMask, NotDigits}
  BY DEF Texts, TextsOf, Families
<1>2. /\ bad => net = Invalid
      /\ ~ bad => net.family = t.family
  BY DEF addrmask_parse
<1>3. net # Invalid <=> ~ bad
  <2>1. Invalid.family = "none" /\ "none" \notin Families
    BY DEF Invalid, Families
  <2> QED
    BY <1>1, <1>2, <2>1
<1>4. BitCount(t.family) \in Nat
  BY <1>1, Sizes
<1>5. shift = IF t.mask = NoMask THEN BitCount(t.family) ELSE t.mask % ShiftModulus
  BY DEF MaskShift
<1>6. t.mask \in Nat => t.mask % ShiftModulus \in Nat /\ t.mask # NoMask /\ t.mask # NotDigits
  BY AddrMaskAssumption DEF NoMask, NotDigits
<1>7. bad <=> ~ (/\ t.form \in {"plain", "inner", "outer"} /\ t.bytes # Unparsable
                 /\ t.mask # NoMask => t.mask \in Nat /\ t.mask % ShiftModulus <= BitCount(t.family))
  <2> HIDE DEF shift
  <2>1. t.form \in {"unclosed", "trailing"} <=> t.form \notin {"plain", "inner", "outer"}
    BY <1>1 DEF Forms
  <2>2. CASE t.mask = NoMask
    <3>1. ~(shift > BitCount(t.family)) /\ t.mask # NotDigits
      BY <1>4, <1>5, <2>2 DEF NoMask, NotDigits
    <3> QED
      BY <2>1, <2>2, <3>1
  <2>3. CASE t.mask = NotDigits
    <3>1. t.mask \notin Nat /\ t.mask # NoMask
      BY <2>3 DEF NoMask, NotDigits
    <3> QED
      BY <2>3, <3>1
  <2>4. CASE t.mask \in Nat
    <3>1. shift > BitCount(t.family) <=> ~(t.mask % ShiftModulus <= BitCount(t.family))
      BY <1>4, <1>5, <1>6, <2>4
    <3> QED
      BY <1>6, <2>1, <2>4, <3>1
  <2> QED
    BY <1>1, <2>2, <2>3, <2>4
<1>8. family # "UNSPEC"
  BY DEF Families
<1>9. addrmask_verify_subnet(t, family) <=> net # Invalid /\ net.family = family
  BY <1>8 DEF addrmask_verify_subnet
<1> HIDE DEF net, bad
<1> QED
  BY <1>2, <1>3, <1>7, <1>9

\* A network that addrmask_verify_subnet accepts is appended to its list.
LEMMA NewList ==
    ASSUME ParseInv, NEW L \in SUBSET (1..Len(data)), NEW m \in 1..Len(data), \A j \in L : j < m,
           data[m].kind = "list", NEW f \in DOMAIN ListFields, data[m].field = f,
           NEW v \in Seq(Texts), FieldFrom(f, v, L)
    PROVE  FieldFrom(f, IF addrmask_verify_subnet(data[m].value, ListFields[f])
                        THEN Append(v, data[m].value) ELSE v, L \cup {m})
<1> DEFINE family == ListFields[f]
           S == Networked(Given(L, "list", f), family)
           S2 == Networked(Given(L \cup {m}, "list", f), family)
           t == data[m].value
<1>1. f # "key" /\ f \notin StringFields /\ f \notin FlagFields /\ f # "port"
  BY DEF StringFields, FlagFields, ListFields
<1>2. family \in Families /\ t \in Texts /\ Len(data) \in Nat
  <2>1. IsLine(data[m]) /\ Len(data) \in Nat
    BY DataIsSeq DEF ParseInv
  <2>2. t \in Texts
    BY <2>1 DEF IsLine
  <2> QED
    BY <2>1, <2>2 DEF ListFields, Families
<1>3. Given(L \cup {m}, "list", f) = Given(L, "list", f) \cup {m} /\ Given(L, "list", f) \in SUBSET L
  BY DEF Given
<1>4. S2 = IF addrmask_verify_subnet(t, family) THEN S \cup {m} ELSE S
  <2> DEFINE ok == /\ t.family = family /\ t.bytes # Unparsable
                   /\ t.form \in {"plain", "inner", "outer"}
                   /\ t.mask # NoMask => t.mask \in Nat /\ t.mask % ShiftModulus <= BitCount(family)
  <2>1. addrmask_verify_subnet(t, family) <=> ok
    BY <1>2, VerifiedNetwork
  <2>2. S2 = IF ok THEN S \cup {m} ELSE S
    <3> DEFINE G == Given(L, "list", f)
    <3>1. S2 = Networked(G \cup {m}, family)
      BY <1>3
    <3> HIDE DEF G
    <3> QED
      BY <3>1 DEF Networked, G
  <2> HIDE DEF ok
  <2> QED
    BY <2>1, <2>2
<1>5. S \in SUBSET Nat /\ m \in Nat /\ \A j \in S : j < m
  <2>1. S \in SUBSET L
    BY <1>3 DEF Networked
  <2> HIDE DEF S
  <2> QED
    BY <1>2, <2>1
<1>6. Lists(v, S, [i \in S |-> data[i].value])
  BY DEF FieldFrom
<1> SUFFICES Lists(IF addrmask_verify_subnet(t, family) THEN Append(v, t) ELSE v, S2,
                   [i \in S2 |-> data[i].value])
  BY <1>1 DEF FieldFrom
<1> HIDE DEF S, S2, t, family
<1>7. CASE addrmask_verify_subnet(t, family)
  <2>1. Lists(Append(v, t), S \cup {m}, [i \in S \cup {m} |-> data[i].value])
    <3> DEFINE longer == [i \in S \cup {m} |-> data[i].value]
               text == [i \in S |-> data[i].value]
    <3>1. longer[m] = t /\ \A i \in S : longer[i] = text[i]
      BY DEF t
    <3>2. Lists(v, S, text)
      BY <1>6
    <3> HIDE DEF longer, text
    <3>3. Lists(Append(v, t), S \cup {m}, longer)
      BY <1>2, <1>5, <3>1, <3>2, ListGrows
    <3> QED
      BY <3>3 DEF longer
  <2> QED
    BY <1>4, <1>7, <2>1
<1>8. CASE ~ addrmask_verify_subnet(t, family)
  BY <1>4, <1>6, <1>8
<1> QED
  BY <1>7, <1>8

\* What the lines of a key make of it.
LEMMA NewKey ==
    ASSUME ParseInv, NEW L \in SUBSET (1..Len(data)), NEW m \in 1..Len(data), \A j \in L : j < m,
           NEW v, FieldFrom("key", v, L)
    PROVE  /\ data[m].kind = "begin" => FieldFrom("key", <<"begin">>, L \cup {m})
           /\ data[m].kind = "end" => FieldFrom("key", Append(v, "end"), L \cup {m})
           /\ data[m].kind = "other" /\ OpenKey(L)
                 => FieldFrom("key", Append(v, data[m].value), L \cup {m})
           /\ data[m].kind = "other" /\ ~ OpenKey(L) => FieldFrom("key", v, L \cup {m})
<1> DEFINE word(i) == IF data[i].kind = "other" THEN data[i].value ELSE data[i].kind
           K == KeyLines(L)
           K2 == KeyLines(L \cup {m})
<1>1. "key" \notin StringFields /\ "key" \notin FlagFields /\ "key" \notin DOMAIN ListFields
  BY DEF StringFields, FlagFields, ListFields
<1>2. v \in Seq(Range(v)) /\ Lists(v, K, [i \in K |-> word(i)])
  BY DEF FieldFrom
<1>3. ASSUME NEW w, w \in Seq(Range(w)), Lists(w, K2, [i \in K2 |-> word(i)])
      PROVE  FieldFrom("key", w, L \cup {m})
  BY <1>1, <1>3 DEF FieldFrom
<1>4. K2 = IF data[m].kind = "begin" THEN {m}
           ELSE IF data[m].kind = "end" \/ (data[m].kind = "other" /\ OpenKey(L))
           THEN K \cup {m} ELSE K
  BY KeyGrows
<1>5. K \in SUBSET Nat /\ m \in Nat /\ \A j \in K : j < m
  <2>1. K \in SUBSET L /\ Len(data) \in Nat
    BY DataIsSeq DEF ParseInv, KeyLines
  <2> HIDE DEF K
  <2> QED
    BY <2>1
<1> HIDE DEF K, K2
<1>6. ASSUME data[m].kind = "begin" PROVE FieldFrom("key", <<"begin">>, L \cup {m})
  <2> DEFINE w == <<"begin">>
  <2>1. w \in Seq({"begin"})
    OBVIOUS
  <2>2. w \in Seq(Range(w))
    BY <2>1, SeqOfRange
  <2>3. K2 = {m}
    BY <1>4, <1>6
  <2>4. [i \in K2 |-> word(i)][m] = "begin"
    BY <1>6, <2>3
  <2>5. Lists(w, K2, [i \in K2 |-> word(i)])
    BY <1>5, <2>3, <2>4, ListStarts
  <2> QED
    BY <1>3, <2>2, <2>5
<1>7. ASSUME K2 = K \cup {m}
      PROVE  FieldFrom("key", Append(v, word(m)), L \cup {m})
  <2> DEFINE e == word(m)
             w == Append(v, e)
             longer == [i \in K \cup {m} |-> word(i)]
             text == [i \in K |-> word(i)]
             T == Range(v) \cup {e}
  <2>1. longer[m] = e /\ \A i \in K : longer[i] = text[i]
    OBVIOUS
  <2>2. Lists(v, K, text) /\ v \in Seq(T) /\ e \in T
    BY <1>2
  <2> HIDE DEF longer, text, T, e
  <2>3. Lists(w, K \cup {m}, longer)
    BY <1>5, <2>1, <2>2, ListGrows
  <2>4. w \in Seq(T)
    BY <2>2, AppendProperties
  <2>5. w \in Seq(Range(w))
    BY <2>4, SeqOfRange
  <2> HIDE DEF w
  <2>6. FieldFrom("key", w, L \cup {m})
    BY <1>3, <1>7, <2>3, <2>5 DEF longer
  <2> QED
    BY <2>6 DEF w, e
<1>8. ASSUME data[m].kind = "other", ~ OpenKey(L) PROVE FieldFrom("key", v, L \cup {m})
  <2>1. K2 = K
    BY <1>4, <1>8
  <2> QED
    BY <1>2, <1>3, <2>1
<1>9. ASSUME data[m].kind = "end" PROVE FieldFrom("key", Append(v, "end"), L \cup {m})
  <2>1. K2 = K \cup {m} /\ word(m) = "end"
    BY <1>4, <1>9
  <2> QED
    BY <1>7, <2>1
<1>10. ASSUME data[m].kind = "other", OpenKey(L)
       PROVE  FieldFrom("key", Append(v, data[m].value), L \cup {m})
  <2>1. K2 = K \cup {m} /\ word(m) = data[m].value
    BY <1>4, <1>10
  <2> QED
    BY <1>7, <2>1
<1> QED
  BY <1>6, <1>8, <1>9, <1>10


\* The definitions depend on the fetched lines only.
LEMMA SameLines ==
    ASSUME data' = data
    PROVE  /\ Headers' = Headers
           /\ \A k : Section(k)' = Section(k)
           /\ \A S, i : Rank(S, i)' = Rank(S, i)
           /\ \A L : OpenKey(L)' <=> OpenKey(L)
           /\ \A f, v, L : FieldFrom(f, v, L)' <=> FieldFrom(f, v, L)
<1>1. Headers' = Headers
  BY DEF Headers
<1>2. \A S, i : Rank(S, i)' = Rank(S, i)
  BY DEF Rank
<1>3. \A k : Section(k)' = Section(k)
  BY <1>1 DEF Section, Rank
<1>4. \A L : OpenKey(L)' <=> OpenKey(L)
  BY DEF OpenKey
<1>5. ASSUME NEW L PROVE KeyLines(L)' = KeyLines(L)
  BY <1>4 DEF KeyLines
<1>6. ASSUME NEW f, NEW v, NEW L PROVE FieldFrom(f, v, L)' <=> FieldFrom(f, v, L)
  <2>1. \A kind : Given(L, kind, f)' = Given(L, kind, f)
    BY DEF Given
  <2>2. \A S, d : LastValue(S, d)' = LastValue(S, d)
    BY DEF LastValue
  <2>3. \A S, family : Networked(S, family)' = Networked(S, family)
    BY DEF Networked, BitCount, ByteCount
  <2>4. Ports(L)' = Ports(L)
    BY DEF Ports
  <2>5. \A list, S, text : Lists(list, S, text)' <=> Lists(list, S, text)
    BY DEF Lists, Rank
  <2>6. f = "key" =>
          (Lists(v, KeyLines(L), [i \in KeyLines(L) |->
                       IF data[i].kind = "other" THEN data[i].value ELSE data[i].kind])'
           <=> Lists(v, KeyLines(L), [i \in KeyLines(L) |->
                       IF data[i].kind = "other" THEN data[i].value ELSE data[i].kind]))
    BY <1>5, <2>5
  <2>7. f \in StringFields => LastValue(Given(L, "string", f), Empty)' = LastValue(Given(L, "string", f), Empty)
    BY <2>1, <2>2
  <2>8. LastValue(Given(L, "flag", f), "no")' = LastValue(Given(L, "flag", f), "no")
    BY <2>1, <2>2
  <2>9. LastValue(Ports(L), DefaultPort)' = LastValue(Ports(L), DefaultPort)
    BY <2>4, <2>2
  <2>10. Lists(v, Networked(Given(L, "list", f), ListFields[f]),
                [i \in Networked(Given(L, "list", f), ListFields[f]) |-> data[i].value])'
         <=> Lists(v, Networked(Given(L, "list", f), ListFields[f]),
                [i \in Networked(Given(L, "list", f), ListFields[f]) |-> data[i].value])
    BY <2>1, <2>3, <2>5
  <2> QED
    BY <2>6, <2>7, <2>8, <2>9, <2>10 DEF FieldFrom
<1> QED
  BY <1>1, <1>2, <1>3, <1>4, <1>6

\* What the next line adds: a section, or a line to the last section.
LEMMA Reading ==
    ASSUME ParseInv, EntryInv, pos \in 1..Len(data)
    PROVE  /\ \A h \in Headers : h < pos => Rank(Headers, h) \in 1..Len(peers)
           /\ \A k \in 1..Len(peers) : SectionSoFar(k) \in SUBSET (1..Len(data))
           /\ \A k \in 1..Len(peers) : \A j \in SectionSoFar(k) : j < pos
           /\ data[pos].kind = "header" =>
                 /\ pos \in Headers /\ Rank(Headers, pos) = Len(peers) + 1
                 /\ Cardinality({h \in Headers : h < pos + 1}) = Len(peers) + 1
                 /\ \A k \in 1..Len(peers) : {i \in Section(k) : i < pos + 1} = SectionSoFar(k)
                 /\ {i \in Section(Len(peers) + 1) : i < pos + 1} = {}
           /\ data[pos].kind # "header" =>
                 /\ pos \notin Headers
                 /\ Cardinality({h \in Headers : h < pos + 1}) = Len(peers)
                 /\ \A k \in 1..Len(peers) : {i \in Section(k) : i < pos + 1} =
                       IF k = Len(peers) THEN SectionSoFar(k) \cup {pos} ELSE SectionSoFar(k)
<1> DEFINE n == Len(peers)
           P == {h \in Headers : h < pos}
           P2 == {h \in Headers : h < pos + 1}
<1>1. Len(data) \in Nat /\ n \in Nat /\ pos \in Nat /\ DOMAIN data = 1..Len(data)
  BY DataIsSeq, LenProperties DEF ParseInv
<1>2. Headers \in SUBSET (1..Len(data)) /\ \A i \in 1..Len(data) : i \in Headers <=> data[i].kind = "header"
  BY <1>1 DEF Headers
<1>0. \A h \in Headers : h \in Nat
  BY <1>1, <1>2
<1>3. n = Cardinality(P)
  BY DEF EntryInv
<1>4. P \in SUBSET Nat /\ \A j \in P : j < pos
  BY <1>0
<1>5. \A k : Section(k) = {i \in (1..Len(data)) \ Headers : Rank(Headers, i) = k}
  BY <1>1 DEF Section
<1>6. IsFiniteSet(P)
  BY <1>1, <1>4, RankGrows
<1>7. ASSUME NEW i \in 1..Len(data), i < pos
      PROVE  Rank(Headers, i) \in 0..n /\ (i \in Headers => Rank(Headers, i) # 0)
  <2> DEFINE T == {j \in Headers : j <= i}
  <2>1. T \in SUBSET P /\ (i \in Headers => T # {})
    <3>1. \A j \in Headers : j <= i => j < pos
      BY <1>1, <1>0, <1>7
    <3>2. i <= i
      OBVIOUS
    <3> QED
      BY <3>1, <3>2
  <2>2. Rank(Headers, i) = Cardinality(T)
    BY DEF Rank
  <2> HIDE DEF T, P
  <2>3. IsFiniteSet(T) /\ Cardinality(T) <= n
    BY <1>3, <1>6, <2>1, FS_Subset
  <2>4. Cardinality(T) \in Nat /\ (T # {} => Cardinality(T) # 0)
    BY <2>3, FS_CardinalityType, FS_EmptySet
  <2> QED
    BY <1>1, <2>1, <2>2, <2>3, <2>4
<1>8. ASSUME NEW h \in Headers, h < pos PROVE Rank(Headers, h) \in 1..n
  <2>1. h \in 1..Len(data)
    BY <1>2
  <2> QED
    BY <1>1, <1>7, <1>8, <2>1
<1>9. ASSUME NEW k \in 1..n
      PROVE  SectionSoFar(k) \in SUBSET (1..Len(data)) /\ \A j \in SectionSoFar(k) : j < pos
  BY <1>5 DEF SectionSoFar
<1>10. \A i \in 1..Len(data) : i < pos + 1 <=> i < pos \/ i = pos
  BY <1>1
<1>11. {j \in Headers : j <= pos} = P2 /\ P2 = {h \in Headers : h < pos \/ h = pos}
  <2>1. \A h \in Headers : (h <= pos <=> h < pos + 1) /\ (h < pos + 1 <=> h < pos \/ h = pos)
    BY <1>1, <1>0
  <2> QED
    BY <2>1
<1>12. Rank(Headers, pos) = Cardinality(P2)
  BY <1>11 DEF Rank
<1>13. ASSUME data[pos].kind = "header"
       PROVE  /\ pos \in Headers /\ Rank(Headers, pos) = n + 1
              /\ Cardinality(P2) = n + 1
              /\ \A k \in 1..n : {i \in Section(k) : i < pos + 1} = SectionSoFar(k)
              /\ {i \in Section(n + 1) : i < pos + 1} = {}
  <2>1. pos \in Headers
    BY <1>2, <1>13
  <2>2. P2 = P \cup {pos}
    BY <1>11, <2>1
  <2>3. Cardinality(P2) = n + 1
    <3> HIDE DEF P, P2
    <3> QED
      BY <1>1, <1>3, <1>4, <2>2, RankGrows
  <2>4. \A k : \A i \in Section(k) : i \in 1..Len(data) /\ i # pos
    BY <1>5, <2>1
  <2>5. \A k \in 1..n : {i \in Section(k) : i < pos + 1} = SectionSoFar(k)
    BY <1>10, <2>4 DEF SectionSoFar
  <2>6. ASSUME NEW i \in Section(n + 1), i < pos + 1 PROVE FALSE
    <3>1. i \in 1..Len(data) /\ i < pos /\ Rank(Headers, i) = n + 1
      BY <1>5, <1>10, <2>4, <2>6
    <3> QED
      BY <1>1, <1>7, <3>1
  <2> QED
    BY <1>12, <2>1, <2>3, <2>5, <2>6
<1>14. ASSUME data[pos].kind # "header"
       PROVE  /\ pos \notin Headers
              /\ Cardinality(P2) = n
              /\ \A k \in 1..n : {i \in Section(k) : i < pos + 1} =
                    IF k = n THEN SectionSoFar(k) \cup {pos} ELSE SectionSoFar(k)
  <2>1. pos \notin Headers
    BY <1>2, <1>14
  <2>2. P2 = P
    BY <1>11, <2>1
  <2>3. Cardinality(P2) = n
    BY <1>3, <2>2
  <2>4. \A k : pos \in Section(k) <=> k = n
    BY <1>5, <1>12, <2>1, <2>3
  <2>5. ASSUME NEW k \in 1..n
        PROVE  {i \in Section(k) : i < pos + 1} =
                    IF k = n THEN SectionSoFar(k) \cup {pos} ELSE SectionSoFar(k)
    <3> DEFINE S == Section(k)
    <3>1. S \in SUBSET (1..Len(data)) /\ (pos \in S <=> k = n)
      BY <1>5, <2>4
    <3>2. SectionSoFar(k) = {i \in S : i < pos}
      BY DEF SectionSoFar
    <3> HIDE DEF S
    <3>3. \A i \in S : i < pos + 1 <=> i < pos \/ i = pos
      BY <1>10, <3>1
    <3>4. {i \in S : i < pos + 1} = {i \in S : i < pos} \cup {i \in S : i = pos}
      BY <3>3
    <3>5. {i \in S : i = pos} = IF k = n THEN {pos} ELSE {}
      BY <3>1
    <3> QED
      BY <3>2, <3>4, <3>5 DEF S
  <2> QED
    BY <2>1, <2>3, <2>5
<1> QED
  BY <1>8, <1>9, <1>13, <1>14

\* A line within a section.
LEMMA Advance ==
    ASSUME ParseInv, EntryInv, NEW kinds, Line(kinds), data[pos].kind # "header",
           Len(peers') = Len(peers), peers = <<>> <=> peers' = <<>>,
           \A k \in 1..Len(peers) : peers'[k].name = peers[k].name,
           \A k \in 1..Len(peers) : k # Len(peers) => peers'[k] = peers[k],
           peers # <<>> => \A f \in PeerFields :
              FieldFrom(f, peers'[Len(peers)][f], SectionSoFar(Len(peers)) \cup {pos}),
           peers # <<>> => (parse_key_mode' <=> OpenKey(SectionSoFar(Len(peers)) \cup {pos}))
    PROVE  EntryInv'
<1> DEFINE n == Len(peers)
<1>1. data' = data /\ pos' = pos + 1 /\ pc = "parse" /\ pc' = pc /\ pos \in 1..Len(data)
  BY DataIsSeq DEF Line, ParseInv
<1>2. n \in Nat /\ (peers # <<>> => n \in 1..n) /\ pos \in Nat
  BY <1>1, LenProperties, EmptySeq DEF ParseInv
<1>3. /\ \A h \in Headers : h < pos => Rank(Headers, h) \in 1..n
      /\ pos \notin Headers
      /\ Cardinality({h \in Headers : h < pos + 1}) = n
      /\ \A k \in 1..n : {i \in Section(k) : i < pos + 1} =
            IF k = n THEN SectionSoFar(k) \cup {pos} ELSE SectionSoFar(k)
  BY <1>1, Reading
<1>4. \A k : SectionSoFar(k)' = {i \in Section(k) : i < pos + 1}
  BY <1>1, SameLines DEF SectionSoFar
<1>5. Len(peers') = Cardinality({h \in Headers' : h < pos'})
  BY <1>1, <1>3, SameLines
<1>6. \A h \in Headers' : h < pos' => peers'[Rank(Headers, h)'].name = data'[h].name
  <2> SUFFICES ASSUME NEW h \in Headers, h < pos + 1 PROVE peers'[Rank(Headers, h)].name = data[h].name
    BY <1>1, SameLines DEF Rank
  <2>1. h \in Nat
    BY <1>1, DataIsSeq, LenProperties DEF ParseInv, Headers
  <2>2. h < pos
    BY <1>2, <1>3, <2>1
  <2> QED
    BY <1>3, <2>2 DEF EntryInv
<1>7. ASSUME NEW k \in 1..n, NEW f \in PeerFields PROVE FieldFrom(f, peers'[k][f], SectionSoFar(k)')
  <2>1. CASE k = n
    <3>1. peers # <<>>
      BY <1>2, EmptySeq
    <3>2. SectionSoFar(k)' = SectionSoFar(n) \cup {pos}
      BY <1>3, <1>4, <2>1
    <3> QED
      BY <2>1, <3>1, <3>2
  <2>2. CASE k # n
    BY <1>3, <1>4, <2>2 DEF EntryInv
  <2> QED
    BY <2>1, <2>2
<1>8. \A k \in 1..Len(peers') : \A f \in PeerFields : FieldFrom(f, peers[k][f], SectionSoFar(k))'
  BY <1>1, <1>7, SameLines
<1>9. peers' # <<>> => (parse_key_mode' <=> OpenKey(SectionSoFar(Len(peers)))')
  <2>1. ASSUME peers # <<>> PROVE parse_key_mode' <=> OpenKey(SectionSoFar(n)')
    BY <1>2, <1>3, <1>4, <2>1
  <2> QED
    BY <1>1, <2>1, SameLines
<1> QED
  BY <1>1, <1>5, <1>6, <1>8, <1>9 DEF EntryInv


\* A new section has no lines yet.
LEMMA CreatedFrom ==
    ASSUME NEW name, NEW f \in PeerFields
    PROVE  FieldFrom(f, parser_create_config(name)[f], {})
<1> DEFINE p == parser_create_config(name)
<1>1. KeyLines({}) = {} /\ Ports({}) = {} /\ \A kind, g : Given({}, kind, g) = {}
  BY DEF KeyLines, Ports, Given
<1>2. \A S, family : S = {} => Networked(S, family) = {}
  BY DEF Networked
<1>3. \A d : LastValue({}, d) = d
  BY DEF LastValue
<1>4. DOMAIN ListFields = {"network", "network6", "route_network", "route_network6"}
  BY DEF ListFields
<1>5. /\ f \in StringFields => p[f] = Empty
      /\ f \in FlagFields => p[f] = FALSE
      /\ f \in DOMAIN ListFields \cup {"key"} => p[f] = <<>>
      /\ f = "port" => p[f] = 655
  <2>1. f \in StringFields => p[f] = Empty
    BY DEF parser_create_config, StringFields, FlagFields, PeerFields
  <2>2. f \in FlagFields => p[f] = FALSE
    BY DEF parser_create_config, FlagFields, StringFields, PeerFields
  <2>3. f \in DOMAIN ListFields \cup {"key"} => p[f] = <<>>
    BY <1>4 DEF parser_create_config, FlagFields, StringFields, PeerFields
  <2>4. f = "port" => p[f] = 655
    BY DEF parser_create_config, FlagFields, StringFields, PeerFields, DefaultPort
  <2> QED
    BY <2>1, <2>2, <2>3, <2>4
<1> HIDE DEF p
<1>6. f = "key" =>
          /\ p[f] \in Seq(Range(p[f]))
          /\ Lists(p[f], KeyLines({}),
                   [i \in KeyLines({}) |->
                       IF data[i].kind = "other" THEN data[i].value ELSE data[i].kind])
  BY <1>1, <1>5, ListStarts, EmptySeq
<1>7. f \in StringFields => p[f] = LastValue(Given({}, "string", f), Empty)
  BY <1>1, <1>5 DEF LastValue
<1>8. f \in FlagFields => (p[f] <=> LastValue(Given({}, "flag", f), "no") = "yes")
  <2>1. LastValue(Given({}, "flag", f), "no") = "no"
    BY <1>1 DEF LastValue
  <2> QED
    BY <1>5, <2>1
<1>9. f \in DOMAIN ListFields =>
          Lists(p[f], Networked(Given({}, "list", f), ListFields[f]),
                [i \in Networked(Given({}, "list", f), ListFields[f]) |-> data[i].value])
  <2>1. Networked(Given({}, "list", f), ListFields[f]) = {}
    BY <1>1, <1>2
  <2> QED
    BY <1>5, <2>1, ListStarts
<1>10. f = "port" => p[f] = LastValue(Ports({}), DefaultPort) % PortModulus
  <2>1. LastValue(Ports({}), DefaultPort) = 655
    BY <1>1 DEF LastValue, DefaultPort
  <2>2. 655 % 65536 = 655
    BY SMT
  <2> QED
    BY <1>5, <2>1, <2>2 DEF PortModulus
<1> QED
  BY <1>6, <1>7, <1>8, <1>9, <1>10 DEF FieldFrom, p

\* A line that sets one field of the last entry.
LEMMA AdvanceField ==
    ASSUME ParseInv, EntryInv, NEW kinds, Line(kinds), data[pos].kind # "header", peers # <<>>,
           NEW field \in PeerFields \ {"name"}, NEW value, Assign(field, value),
           \A f \in PeerFields : f # field => ~ Touches(data[pos], f),
           FieldFrom(field, value, SectionSoFar(Len(peers)) \cup {pos}),
           parse_key_mode' <=> OpenKey(SectionSoFar(Len(peers)) \cup {pos})
    PROVE  EntryInv'
<1> DEFINE n == Len(peers)
           p == [peers[n] EXCEPT ![field] = value]
           S == Range(peers) \cup {p}
           L == SectionSoFar(n)
<1>1. n \in Nat /\ n # 0 /\ n \in 1..n
  BY LenProperties, EmptySeq DEF ParseInv
<1>2. pos \in 1..Len(data)
  BY DataIsSeq DEF Line, ParseInv
<1>3. peers \in Seq(S) /\ p \in S
  BY DEF ParseInv
<1>4. peers' = [peers EXCEPT ![n] = p]
  BY DEF Assign
<1>5. DOMAIN peers[n] = PeerFields /\ "name" \in PeerFields
  BY <1>1 DEF ParseInv, IsPeer, PeerFields
<1>6. \A f \in PeerFields : p[f] = IF f = field THEN value ELSE peers[n][f]
  BY <1>5
<1> HIDE DEF p, S
<1>7. /\ peers' \in Seq(S) /\ Len(peers') = n
      /\ \A j \in 1..n : peers'[j] = IF j = n THEN p ELSE peers[j]
  BY <1>1, <1>3, <1>4, ExceptSeq
<1>8. peers' # <<>>
  BY <1>1, <1>7, EmptySeq
<1>9. \A k \in 1..n : peers'[k].name = peers[k].name
  <2>1. p["name"] = peers[n]["name"]
    BY <1>5, <1>6
  <2> QED
    BY <1>7, <2>1
<1>10. ASSUME NEW f \in PeerFields PROVE FieldFrom(f, peers'[n][f], L \cup {pos})
  <2>1. L \in SUBSET (1..Len(data)) /\ \A j \in L : j < pos
    BY <1>1, <1>2, Reading
  <2>2. FieldFrom(f, peers[n][f], L)
    BY <1>1 DEF EntryInv
  <2> HIDE DEF L
  <2>3. CASE f = field
    BY <1>1, <1>6, <1>7, <2>3 DEF L
  <2>4. CASE f # field
    <3>1. FieldFrom(f, peers[n][f], L \cup {pos})
      BY <1>2, <2>1, <2>2, <2>4, FieldKept
    <3> QED
      BY <1>1, <1>6, <1>7, <2>4, <3>1
  <2> QED
    BY <2>3, <2>4
<1> QED
  BY <1>7, <1>8, <1>9, <1>10, Advance

\* A line that changes nothing.
LEMMA AdvanceSame ==
    ASSUME ParseInv, EntryInv, NEW kinds, Line(kinds), data[pos].kind # "header",
           UNCHANGED <<peers, parse_key_mode>>,
           peers # <<>> => \A f \in PeerFields :
              \/ ~ Touches(data[pos], f)
              \/ FieldFrom(f, peers[Len(peers)][f], SectionSoFar(Len(peers)) \cup {pos}),
           peers # <<>> => (parse_key_mode <=> OpenKey(SectionSoFar(Len(peers)) \cup {pos}))
    PROVE  EntryInv'
<1> DEFINE n == Len(peers)
           L == SectionSoFar(n)
<1>1. pos \in 1..Len(data)
  BY DataIsSeq DEF Line, ParseInv
<1>2. ASSUME peers # <<>>, NEW f \in PeerFields PROVE FieldFrom(f, peers'[n][f], L \cup {pos})
  <2>1. n \in 1..n
    BY <1>2, LenProperties, EmptySeq DEF ParseInv
  <2>2. L \in SUBSET (1..Len(data)) /\ \A j \in L : j < pos
    BY <1>1, <2>1, Reading
  <2>3. FieldFrom(f, peers[n][f], L)
    BY <2>1 DEF EntryInv
  <2>4. \/ ~ Touches(data[pos], f)
        \/ FieldFrom(f, peers[n][f], L \cup {pos})
    BY <1>2
  <2> HIDE DEF L
  <2> QED
    BY <1>1, <2>2, <2>3, <2>4, FieldKept
<1> QED
  BY <1>2, Advance

\* No line is read.
LEMMA EntryStays ==
    ASSUME ParseInv, EntryInv, UNCHANGED <<data, pos, peers, parse_key_mode>>,
           pc = "parse" => pos > Len(data) \/ pc' = pc
    PROVE  EntryInv'
<1>1. pc' # "parse" => pos' = Len(data') + 1
  BY DataIsSeq DEF EntryInv, ParseInv
<1>2. \A k : SectionSoFar(k)' = SectionSoFar(k)
  BY SameLines DEF SectionSoFar
<1>3. \A k \in 1..Len(peers') : \A f \in PeerFields : FieldFrom(f, peers[k][f], SectionSoFar(k))'
  BY <1>2, SameLines DEF EntryInv
<1>4. peers' # <<>> => (parse_key_mode' <=> OpenKey(SectionSoFar(Len(peers)))')
  BY <1>2, SameLines DEF EntryInv
<1>5. Len(peers') = Cardinality({h \in Headers' : h < pos'})
  BY SameLines DEF EntryInv
<1>6. \A h \in Headers' : h < pos' => peers'[Rank(Headers, h)'].name = data'[h].name
  BY SameLines DEF EntryInv, Rank
<1> QED
  BY <1>1, <1>3, <1>4, <1>5, <1>6 DEF EntryInv

\* Every line keeps the entries true to the lines read.
LEMMA EntryPreserves ==
    ASSUME ConfigInv, ParseInv, EntryInv, Next
    PROVE  EntryInv'
<1> DEFINE n == Len(peers)
           L == SectionSoFar(n)
           l == data[pos]
<1>1. ASSUME NEW kinds, Line(kinds)
      PROVE  /\ pos \in 1..Len(data) /\ IsLine(l) /\ l.kind \in kinds
             /\ pc = "parse" /\ pc' = pc /\ data' = data /\ pos' = pos + 1
  BY <1>1, DataIsSeq DEF Line, ParseInv
<1>2. ASSUME peers # <<>>
      PROVE  /\ n \in Nat /\ n \in 1..n /\ IsPeer(peers[n])
             /\ \A f \in PeerFields : FieldFrom(f, peers[n][f], L)
             /\ parse_key_mode <=> OpenKey(L)
             /\ Last(peers) = peers[n]
  <2>1. n \in Nat /\ n \in 1..n /\ IsPeer(peers[n]) /\ Last(peers) = peers[n]
    BY <1>2, LenProperties, EmptySeq DEF ParseInv, Last
  <2>2. \A f \in PeerFields : FieldFrom(f, peers[n][f], L)
    BY <2>1 DEF EntryInv
  <2>3. parse_key_mode <=> OpenKey(L)
    BY <1>2 DEF EntryInv
  <2> QED
    BY <2>1, <2>2, <2>3
<1>3. ASSUME NEW kinds, Line(kinds), peers # <<>>
      PROVE  /\ L \in SUBSET (1..Len(data)) /\ \A j \in L : j < pos
             /\ OpenKey(L \cup {pos}) <=> l.kind = "begin" \/ (l.kind # "end" /\ OpenKey(L))
  <2>1. L \in SUBSET (1..Len(data)) /\ \A j \in L : j < pos
    BY <1>1, <1>2, <1>3, Reading
  <2> HIDE DEF L
  <2> QED
    BY <1>1, <1>3, <2>1, KeyGrows
<1>4. CASE ParseHeader
  <2> DEFINE p == parser_create_config(data[pos].name)
             S == Range(peers) \cup {p}
  <2>1. Line({"header"}) /\ peers' = Append(peers, p) /\ parse_key_mode' = FALSE
    BY <1>4 DEF ParseHeader
  <2>2. /\ pos \in 1..Len(data) /\ l.kind = "header" /\ pc' = "parse"
        /\ data' = data /\ pos' = pos + 1
    BY <1>1, <2>1
  <2>3. /\ \A h \in Headers : h < pos => Rank(Headers, h) \in 1..n
        /\ pos \in Headers /\ Rank(Headers, pos) = n + 1
        /\ Cardinality({h \in Headers : h < pos + 1}) = n + 1
        /\ \A k \in 1..n : {i \in Section(k) : i < pos + 1} = SectionSoFar(k)
        /\ {i \in Section(n + 1) : i < pos + 1} = {}
    BY <2>2, Reading
  <2>4. peers \in Seq(S) /\ p \in S /\ n \in Nat /\ Len(data) \in Nat /\ pos \in Nat
    BY <2>2, LenProperties, DataIsSeq DEF ParseInv
  <2>5. p.name = data[pos].name
    BY CreatedPeer
  <2>6. ASSUME NEW f \in PeerFields PROVE FieldFrom(f, p[f], {})
    BY CreatedFrom
  <2> HIDE DEF p, S
  <2>7. /\ Len(peers') = n + 1 /\ peers'[n + 1] = p /\ \A k \in 1..n : peers'[k] = peers[k]
        /\ peers' \in Seq(S)
    BY <2>1, <2>4, AppendProperties
  <2>8. \A k : SectionSoFar(k)' = {i \in Section(k) : i < pos + 1}
    BY <2>2, SameLines DEF SectionSoFar
  <2>9. Len(peers') = Cardinality({h \in Headers' : h < pos'})
    BY <2>2, <2>3, <2>7, SameLines
  <2>10. \A h \in Headers' : h < pos' => peers'[Rank(Headers, h)'].name = data'[h].name
    <3> SUFFICES ASSUME NEW h \in Headers, h < pos + 1
                 PROVE  peers'[Rank(Headers, h)].name = data[h].name
      BY <2>2, SameLines DEF Rank
    <3>1. h \in Nat
      BY <2>4, DataIsSeq, LenProperties DEF ParseInv, Headers
    <3>2. CASE h = pos
      BY <2>3, <2>5, <2>7, <3>2
    <3>3. CASE h # pos
      <4>1. h < pos
        BY <2>4, <3>1, <3>3
      <4> QED
        BY <2>3, <2>7, <4>1 DEF EntryInv
    <3> QED
      BY <3>2, <3>3
  <2>11. ASSUME NEW k \in 1..n + 1, NEW f \in PeerFields
         PROVE  FieldFrom(f, peers'[k][f], SectionSoFar(k)')
    <3>1. CASE k \in 1..n
      BY <2>3, <2>7, <2>8, <3>1 DEF EntryInv
    <3>2. CASE k = n + 1
      BY <2>3, <2>6, <2>7, <2>8, <3>2
    <3> QED
      BY <2>4, <3>1, <3>2
  <2>12. \A k \in 1..Len(peers') : \A f \in PeerFields : FieldFrom(f, peers[k][f], SectionSoFar(k))'
    BY <2>2, <2>7, <2>11, SameLines
  <2>13. ~ OpenKey(SectionSoFar(Len(peers)))'
    <3>1. SectionSoFar(Len(peers))' = {}
      <4>1. SectionSoFar(Len(peers))' = {i \in Section(Len(peers')) : i < pos + 1}
        BY <2>2, SameLines DEF SectionSoFar
      <4> QED
        BY <2>3, <2>7, <4>1
    <3>2. \A X : OpenKey(X)' <=> OpenKey(X)
      BY <2>2, SameLines
    <3>3. ~ OpenKey({})
      BY DEF OpenKey
    <3> QED
      BY <3>1, <3>2, <3>3
  <2> QED
    BY <2>1, <2>2, <2>9, <2>10, <2>12, <2>13 DEF EntryInv
<1>5. CASE ParseSkipped
  <2> DEFINE kinds == {"comment", "pingtest", "string", "flag", "list", "port", "begin", "end", "other"}
  <2>1. /\ Line(kinds) /\ UNCHANGED <<peers, parse_key_mode>>
        /\ l.kind \in {"comment", "pingtest"} \/ peers = <<>>
    BY <1>5 DEF ParseSkipped
  <2>2. l.kind # "header"
    BY <1>1, <2>1
  <2>3. peers # <<>> => \A f \in PeerFields : ~ Touches(l, f)
    BY <2>1 DEF Touches
  <2>4. peers # <<>> => (parse_key_mode <=> OpenKey(L \cup {pos}))
    BY <1>2, <1>3, <2>1
  <2> HIDE DEF kinds
  <2> QED
    BY <2>1, <2>2, <2>3, <2>4, AdvanceSame
<1>6. CASE ParseString
  <2>1. /\ Line({"string"}) /\ peers # <<>> /\ Assign(l.field, l.value)
        /\ parse_key_mode' = parse_key_mode
    BY <1>6 DEF ParseString
  <2>2. pos \in 1..Len(data) /\ l.kind = "string" /\ l.field \in StringFields
    BY <1>1, <2>1 DEF IsLine
  <2>3. l.field \in PeerFields \ {"name"}
    BY <2>2 DEF PeerFields, StringFields
  <2>4. \A f \in PeerFields : f # l.field => ~ Touches(l, f)
    BY <2>2 DEF Touches
  <2>5. FieldFrom(l.field, l.value, L \cup {pos})
    BY <1>3, <2>1, <2>2, NewString
  <2>6. parse_key_mode' <=> OpenKey(L \cup {pos})
    BY <1>2, <1>3, <2>1, <2>2
  <2> QED
    BY <2>1, <2>2, <2>3, <2>4, <2>5, <2>6, AdvanceField
<1>7. CASE ParseFlag
  <2>1. /\ Line({"flag"}) /\ peers # <<>> /\ Assign(l.field, str_is_true(l.value))
        /\ parse_key_mode' = parse_key_mode
    BY <1>7 DEF ParseFlag
  <2>2. pos \in 1..Len(data) /\ l.kind = "flag" /\ l.field \in FlagFields
    BY <1>1, <2>1 DEF IsLine
  <2>3. l.field \in PeerFields \ {"name"}
    BY <2>2 DEF PeerFields, FlagFields
  <2>4. \A f \in PeerFields : f # l.field => ~ Touches(l, f)
    BY <2>2 DEF Touches
  <2>5. FieldFrom(l.field, str_is_true(l.value), L \cup {pos})
    BY <1>3, <2>1, <2>2, NewFlag
  <2>6. parse_key_mode' <=> OpenKey(L \cup {pos})
    BY <1>2, <1>3, <2>1, <2>2
  <2> QED
    BY <2>1, <2>2, <2>3, <2>4, <2>5, <2>6, AdvanceField
<1>8. CASE ParseList
  <2> DEFINE f == l.field
             v == peers[n][f]
             ok == addrmask_verify_subnet(l.value, ListFields[f])
  <2>1. /\ Line({"list"}) /\ peers # <<>> /\ parse_key_mode' = parse_key_mode
        /\ IF ok THEN Assign(f, Append(Last(peers)[f], l.value)) ELSE UNCHANGED peers
    BY <1>8 DEF ParseList
  <2>2. pos \in 1..Len(data) /\ l.kind = "list" /\ f \in DOMAIN ListFields
    BY <1>1, <2>1 DEF IsLine
  <2>3. f \in PeerFields \ {"name"}
    BY <2>2 DEF PeerFields, ListFields
  <2>4. \A g \in PeerFields : g # f => ~ Touches(l, g)
    BY <2>2 DEF Touches
  <2>5. v \in Seq(Texts) /\ FieldFrom(f, v, L)
    BY <1>2, <2>1, <2>2, <2>3 DEF IsPeer, FieldOK
  <2>6. FieldFrom(f, IF ok THEN Append(v, l.value) ELSE v, L \cup {pos})
    BY <1>3, <2>1, <2>2, <2>5, NewList
  <2>7. parse_key_mode <=> OpenKey(L \cup {pos})
    BY <1>2, <1>3, <2>1, <2>2
  <2> HIDE DEF ok
  <2>8. CASE ok
    <3>1. Assign(f, Append(v, l.value)) /\ FieldFrom(f, Append(v, l.value), L \cup {pos})
      BY <1>2, <2>1, <2>6, <2>8
    <3> QED
      BY <2>1, <2>2, <2>3, <2>4, <2>7, <3>1, AdvanceField
  <2>9. CASE ~ ok
    <3>1. UNCHANGED <<peers, parse_key_mode>> /\ FieldFrom(f, v, L \cup {pos})
      BY <2>1, <2>6, <2>9
    <3> QED
      BY <2>1, <2>2, <2>4, <2>7, <3>1, AdvanceSame
  <2> QED
    BY <2>8, <2>9
<1>9. CASE ParsePort
  <2>1. /\ Line({"port"}) /\ peers # <<>> /\ parse_key_mode' = parse_key_mode
        /\ IF l.value # TooLarge THEN Assign("port", l.value % PortModulus) ELSE UNCHANGED peers
    BY <1>9 DEF ParsePort
  <2>2. pos \in 1..Len(data) /\ l.kind = "port"
    BY <1>1, <2>1
  <2>3. "port" \in PeerFields \ {"name"}
    BY DEF PeerFields
  <2>4. \A g \in PeerFields : g # "port" => ~ Touches(l, g)
    BY <2>2 DEF Touches
  <2>5. FieldFrom("port", peers[n]["port"], L)
    BY <1>2, <2>1, <2>3
  <2>6. parse_key_mode <=> OpenKey(L \cup {pos})
    BY <1>2, <1>3, <2>1, <2>2
  <2>7. CASE l.value # TooLarge
    <3>1. FieldFrom("port", l.value % PortModulus, L \cup {pos})
      BY <1>3, <2>1, <2>2, <2>7, NewPort
    <3> QED
      BY <2>1, <2>2, <2>3, <2>4, <2>6, <2>7, <3>1, AdvanceField
  <2>8. CASE l.value = TooLarge
    <3>1. FieldFrom("port", peers[n]["port"], L \cup {pos})
      BY <1>3, <2>1, <2>2, <2>5, <2>8, NewPort
    <3> QED
      BY <2>1, <2>2, <2>4, <2>6, <2>8, <3>1, AdvanceSame
  <2> QED
    BY <2>7, <2>8
<1>10. "key" \in PeerFields \ {"name"}
  BY DEF PeerFields
<1>11. l.kind \in {"begin", "end", "other"} => \A g \in PeerFields : g # "key" => ~ Touches(l, g)
  BY DEF Touches
<1>12. CASE ParseBegin
  <2>1. Line({"begin"}) /\ peers # <<>> /\ Assign("key", <<"begin">>) /\ parse_key_mode' = TRUE
    BY <1>12 DEF ParseBegin
  <2>2. pos \in 1..Len(data) /\ l.kind = "begin"
    BY <1>1, <2>1
  <2>3. FieldFrom("key", <<"begin">>, L \cup {pos})
    BY <1>2, <1>3, <1>10, <2>1, <2>2, NewKey
  <2>4. OpenKey(L \cup {pos})
    BY <1>3, <2>1, <2>2
  <2> QED
    BY <1>10, <1>11, <2>1, <2>2, <2>3, <2>4, AdvanceField
<1>13. CASE ParseEnd
  <2>1. /\ Line({"end"}) /\ peers # <<>> /\ Assign("key", Append(peers[n].key, "end"))
        /\ parse_key_mode' = FALSE
    BY <1>2, <1>13 DEF ParseEnd, parser_extend_key
  <2>2. pos \in 1..Len(data) /\ l.kind = "end"
    BY <1>1, <2>1
  <2>3. FieldFrom("key", Append(peers[n].key, "end"), L \cup {pos})
    BY <1>2, <1>3, <1>10, <2>1, <2>2, NewKey
  <2>4. ~ OpenKey(L \cup {pos})
    BY <1>3, <2>1, <2>2
  <2> QED
    BY <1>10, <1>11, <2>1, <2>2, <2>3, <2>4, AdvanceField
<1>14. CASE ParseOther
  <2>1. /\ Line({"other"}) /\ peers # <<>> /\ parse_key_mode' = parse_key_mode
        /\ IF parse_key_mode THEN Assign("key", Append(peers[n].key, l.value)) ELSE UNCHANGED peers
    BY <1>2, <1>14 DEF ParseOther, parser_extend_key
  <2>2. pos \in 1..Len(data) /\ l.kind = "other"
    BY <1>1, <2>1
  <2>3. parse_key_mode <=> OpenKey(L \cup {pos})
    BY <1>2, <1>3, <2>1, <2>2
  <2>4. CASE parse_key_mode
    <3>1. FieldFrom("key", Append(peers[n].key, l.value), L \cup {pos})
      BY <1>2, <1>3, <1>10, <2>1, <2>2, <2>4, NewKey
    <3> QED
      BY <1>10, <1>11, <2>1, <2>2, <2>3, <2>4, <3>1, AdvanceField
  <2>5. CASE ~ parse_key_mode
    <3>1. FieldFrom("key", peers[n].key, L \cup {pos})
      BY <1>2, <1>3, <1>10, <2>1, <2>2, <2>5, NewKey
    <3> QED
      BY <1>11, <2>1, <2>2, <2>3, <2>5, <3>1, AdvanceSame
  <2> QED
    BY <2>4, <2>5
<1>15. CASE FindMyPeer
  BY EntryStays, <1>15 DEF FindMyPeer, parseVars
<1>16. CASE WriteFiles
  BY EntryStays, <1>16 DEF WriteFiles, tinc_write_config, tinc_write_hosts, tinc_write_up,
       tinc_write_down, tinc_write_subnetup, tinc_write_subnetdown, Write, parseVars
<1>17. CASE Tincd
  BY EntryStays, <1>17 DEF Tincd, TincdUp, TincdDown, NodeUp, NodeDown, tincdUnchanged, parseVars
<1> QED
  BY <1>4, <1>5, <1>6, <1>7, <1>8, <1>9, <1>12, <1>13, <1>14, <1>15, <1>16, <1>17
     DEF Next, Parse


\* Nothing is read yet.
LEMMA InitEntry == Init => EntryInv
<1> SUFFICES ASSUME Init PROVE EntryInv
  OBVIOUS
<1>1. Len(peers) = 0 /\ pos = 1 /\ pc = "parse" /\ peers = <<>>
  BY EmptySeq DEF Init
<1>2. data \in Data
  BY DEF Init
<1>3. Headers \in SUBSET (1..Len(data)) /\ Len(data) \in Nat
  BY <1>2, DataIsSeq, LenProperties DEF Headers
<1>4. \A h \in Headers : ~(h < pos)
  BY <1>1, <1>3
<1>5. {h \in Headers : h < pos} = {}
  BY <1>4
<1>6. 1..Len(peers) = {}
  BY <1>1
<1> QED
  BY <1>1, <1>4, <1>5, <1>6, FS_EmptySet DEF EntryInv

-----------------------------------------------------------------------------
(* The files and the routes.                                                 *)

HostsWritten ==
    pc \in {"tinc-up", "tinc-down", "subnet-up", "subnet-down", "written", "running", "stopped"}
UpWritten   == pc \in {"tinc-down", "subnet-up", "subnet-down", "written", "running", "stopped"}
DownWritten == pc \in {"subnet-up", "subnet-down", "written", "running", "stopped"}
SubnetUpWritten == pc \in {"subnet-down", "written", "running", "stopped"}

\* Where a node's files come from: the entries, and the decisions that were taken.
Connects ==
    \A n \in tincconf.ConnectTo :
        /\ n # config.peerid /\ ~ tinc_check_if_excluded(n)
        /\ \E k \in 1..Len(peers) : peers[k].name = n /\ HasAddress(peers[k])

HostOf(n, k) ==
    /\ FileName(peers[k].name) = n
    /\ hosts[n].Address = IF HasAddress(peers[k]) THEN peers[k].gatewayhost ELSE Empty
    /\ hosts[n].Subnet = peers[k].network \o peers[k].network6

Hosts ==
    /\ DOMAIN hosts = {FileName(peers[k].name) : k \in 1..Len(peers)}
    /\ \A n \in DOMAIN hosts : \E k \in 1..Len(peers) : HostOf(n, k)

FileInv ==
    /\ pc \in Locations /\ my_peer \in 0..Len(peers)
    /\ pc = "parse" => my_peer = 0
    /\ pc \notin {"parse", "failed", "tinc.conf"} => Connects
    /\ HostsWritten => Hosts
    /\ UpWritten => up = UpDownRoutes(TRUE)
    /\ DownWritten => down = UpDownRoutes(FALSE)
    /\ SubnetUpWritten => subnetup = SubnetScript(TRUE)
    /\ Written => subnetdown = SubnetScript(FALSE)

\* The definitions depend on the settings and the entries only.
LEMMA SameInputs ==
    ASSUME UNCHANGED <<config, peers>>
    PROVE  /\ \A isup \in BOOLEAN : UpDownRoutes(isup)' = UpDownRoutes(isup)
           /\ \A isup \in BOOLEAN : SubnetScript(isup)' = SubnetScript(isup)
           /\ tincconf' = tincconf => (Connects' <=> Connects)
           /\ hosts' = hosts => (Hosts' <=> Hosts)
<1>1. ASSUME NEW isup \in BOOLEAN PROVE UpDownRoutes(isup)' = UpDownRoutes(isup)
  BY DEF UpDownRoutes, Supernets, NodeRoutes, Routable, CommentedOut, tinc_check_if_excluded
<1>2. ASSUME NEW isup \in BOOLEAN PROVE SubnetScript(isup)' = SubnetScript(isup)
  BY DEF SubnetScript, Routable
<1>3. tincconf' = tincconf => (Connects' <=> Connects)
  BY DEF Connects, tinc_check_if_excluded
<1>4. hosts' = hosts => (Hosts' <=> Hosts)
  BY DEF Hosts, HostOf
<1> QED
  BY <1>1, <1>2, <1>3, <1>4

\* What the file of an entry says of the node's address and subnets.
LEMMA GeneratedConfig ==
    ASSUME NEW p
    PROVE  /\ tinc_generate_peer_config(p).Address = IF HasAddress(p) THEN p.gatewayhost ELSE Empty
           /\ tinc_generate_peer_config(p).Subnet = p.network \o p.network6
<1> DEFINE a == IF HasAddress(p) THEN p.gatewayhost ELSE Empty
           s == p.network \o p.network6
           e == IF strnatcmp(config.tincd_version, V1_1) <= 0 THEN Empty
                ELSE IF p.name = config.peerid THEN config.ed25519publickey
                ELSE p.ed25519publickey
<1>1. tinc_generate_peer_config(p) =
        [Address |-> a, Subnet |-> s, Port |-> p.port, key |-> p.key, Ed25519PublicKey |-> e]
  BY DEF tinc_generate_peer_config
<1> HIDE DEF a, s, e
<1>2. tinc_generate_peer_config(p).Address = a /\ tinc_generate_peer_config(p).Subnet = s
  BY <1>1
<1> QED
  BY <1>2 DEF a, s

\* Nothing is written yet.
LEMMA InitFile == Init => FileInv
<1> SUFFICES ASSUME Init PROVE FileInv
  OBVIOUS
<1>1. Len(peers) = 0 /\ pc = "parse" /\ my_peer = 0
  BY EmptySeq DEF Init
<1> QED
  BY <1>1 DEF FileInv, Locations, HostsWritten, UpWritten, DownWritten, SubnetUpWritten, Written

\* Each writer establishes its own part and keeps the others.
LEMMA FilePreserves ==
    ASSUME ConfigInv, ParseInv, FileInv, Next, ParseInv'
    PROVE  FileInv'
<1> USE DEF HostsWritten, UpWritten, DownWritten, SubnetUpWritten, Written, Locations
<1>1. /\ peers \in Seq(Range(peers)) /\ Len(peers) \in Nat /\ DOMAIN peers = 1..Len(peers)
      /\ Range(peers) = {peers[k] : k \in 1..Len(peers)}
      /\ Len(peers') \in Nat
  BY LenProperties, RangeEquality DEF ParseInv
<1>2. ASSUME pc = "parse", pc' = "parse", my_peer' = my_peer
      PROVE  FileInv'
  BY <1>1, <1>2 DEF FileInv
<1>3. CASE Parse /\ ~FindMyPeer
  BY <1>2, <1>3 DEF Parse, ParseHeader, ParseSkipped, ParseString, ParseFlag, ParseList, ParsePort,
       ParseBegin, ParseEnd, ParseOther, Line
<1>4. CASE FindMyPeer
  <2> DEFINE own == {k \in DOMAIN peers : peers[k].name = config.peerid}
  <2>1. /\ my_peer' = (IF own = {} THEN 0 ELSE Max(own)) /\ peers' = peers
        /\ pc' = IF own = {} THEN "failed" ELSE "tinc.conf"
    BY <1>4 DEF FindMyPeer, parseVars
  <2>2. own # {} => Max(own) \in 1..Len(peers)
    <3>1. own \in SUBSET (1..Len(peers))
      BY <1>1
    <3> HIDE DEF own
    <3> QED
      BY <1>1, <3>1, MaxNat
  <2> HIDE DEF own
  <2> QED
    BY <1>1, <2>1, <2>2 DEF FileInv
<1>5. ASSUME UNCHANGED <<config, peers, my_peer>>
      PROVE  /\ my_peer' \in 0..Len(peers')
             /\ \A isup \in BOOLEAN : UpDownRoutes(isup)' = UpDownRoutes(isup)
             /\ \A isup \in BOOLEAN : SubnetScript(isup)' = SubnetScript(isup)
             /\ tincconf' = tincconf => (Connects' <=> Connects)
             /\ hosts' = hosts => (Hosts' <=> Hosts)
  BY <1>5, SameInputs DEF FileInv
<1>6. ASSUME WriteFiles \/ Tincd
      PROVE  UNCHANGED <<config, peers, my_peer>>
  BY <1>6 DEF WriteFiles, tinc_write_config, tinc_write_hosts, tinc_write_up,
       tinc_write_down, tinc_write_subnetup, tinc_write_subnetdown, Write, parseVars,
       Tincd, TincdUp, TincdDown, NodeUp, NodeDown, tincdUnchanged
<1>7. CASE tinc_write_config
  <2>1. /\ UNCHANGED <<config, peers, my_peer>>
        /\ pc' = "hosts"
    BY <1>6, <1>7 DEF WriteFiles, tinc_write_config, Write
  <2>2. Connects'
    <3>1. \A n \in tincconf'.ConnectTo : \E q \in Range(peers) :
              /\ q.name = n /\ q.name # config.peerid
              /\ ~ tinc_check_if_excluded(q.name) /\ HasAddress(q)
      BY <1>7 DEF tinc_write_config
    <3>2. \A n \in tincconf'.ConnectTo :
              /\ n # config.peerid /\ ~ tinc_check_if_excluded(n)
              /\ \E k \in 1..Len(peers) : peers[k].name = n /\ HasAddress(peers[k])
      BY <1>1, <3>1
    <3> QED
      BY <2>1, <3>2 DEF Connects, tinc_check_if_excluded
  <2> QED
    BY <1>5, <2>1, <2>2 DEF FileInv
<1>8. CASE tinc_write_hosts
  <2>1. /\ UNCHANGED <<config, peers, my_peer, tincconf>> /\ pc = "hosts"
        /\ pc' = IF config.tincd_version = NoVersion THEN "aborted" ELSE "tinc-up"
    BY <1>6, <1>8 DEF WriteFiles, tinc_write_hosts, Write
  <2>2. CASE config.tincd_version = NoVersion
    BY <1>5, <2>1, <2>2 DEF FileInv
  <2>3. CASE config.tincd_version # NoVersion
    <3> DEFINE names == {FileName(p.name) : p \in Range(peers)}
               same(n) == {j \in DOMAIN peers : FileName(peers[j].name) = n}
    <3>1. hosts' = [n \in names |-> tinc_generate_peer_config(peers[Max(same(n))])]
      BY <1>8, <2>3 DEF tinc_write_hosts
    <3>2. names = {FileName(peers[k].name) : k \in 1..Len(peers)}
      BY <1>1
    <3>3. ASSUME NEW n \in names PROVE Max(same(n)) \in same(n)
      <4>1. same(n) \in SUBSET (1..Len(peers)) /\ same(n) # {}
        BY <1>1, <3>2
      <4> HIDE DEF same
      <4> QED
        BY <1>1, <4>1, MaxNat
    <3> HIDE DEF names
    <3>4. ASSUME NEW n \in names
          PROVE  \E k \in 1..Len(peers) :
                     /\ FileName(peers[k].name) = n
                     /\ hosts'[n].Address = IF HasAddress(peers[k]) THEN peers[k].gatewayhost ELSE Empty
                     /\ hosts'[n].Subnet = peers[k].network \o peers[k].network6
      <4> DEFINE k == Max(same(n))
      <4>1. k \in 1..Len(peers) /\ FileName(peers[k].name) = n
        BY <1>1, <3>3
      <4>2. hosts'[n] = tinc_generate_peer_config(peers[k])
        BY <3>1
      <4> HIDE DEF k
      <4>3. /\ hosts'[n].Address = IF HasAddress(peers[k]) THEN peers[k].gatewayhost ELSE Empty
            /\ hosts'[n].Subnet = peers[k].network \o peers[k].network6
        BY <4>2, GeneratedConfig
      <4> QED
        BY <4>1, <4>3
    <3>5. Hosts'
      <4>1. DOMAIN hosts' = names
        BY <3>1
      <4>2. peers' = peers
        BY <2>1
      <4> HIDE DEF same
      <4>3. DOMAIN hosts' = {FileName(peers'[k].name) : k \in 1..Len(peers')}
        BY <3>2, <4>1, <4>2
      <4>4. \A n \in DOMAIN hosts' : \E k \in 1..Len(peers') : HostOf(n, k)'
        BY <3>4, <4>1, <4>2 DEF HostOf
      <4> QED
        BY <4>3, <4>4 DEF Hosts
    <3> QED
      BY <1>5, <2>1, <2>3, <3>5 DEF FileInv
  <2> QED
    BY <2>2, <2>3
<1>9. CASE tinc_write_up
  BY <1>5, <1>6, <1>9 DEF WriteFiles, tinc_write_up, Write, FileInv
<1>10. CASE tinc_write_down
  BY <1>5, <1>6, <1>10 DEF WriteFiles, tinc_write_down, Write, FileInv
<1>11. CASE tinc_write_subnetup
  BY <1>5, <1>6, <1>11 DEF WriteFiles, tinc_write_subnetup, Write, FileInv
<1>12. CASE tinc_write_subnetdown
  BY <1>5, <1>6, <1>12 DEF WriteFiles, tinc_write_subnetdown, Write, FileInv
<1>13. CASE Tincd
  <2>1. /\ pc \in {"written", "running"} /\ pc' \in {"running", "stopped"}
        /\ UNCHANGED <<tincconf, hosts, up, down, subnetup, subnetdown>>
    BY <1>13 DEF Tincd, TincdUp, TincdDown, NodeUp, NodeDown, tincdUnchanged, fileVars
  <2> QED
    BY <1>5, <1>6, <1>13, <2>1 DEF FileInv
<1> QED
  BY <1>3, <1>4, <1>7, <1>8, <1>9, <1>10, <1>11, <1>12, <1>13 DEF Next, WriteFiles

\* The networks of an entry, as parser_parse_line accepted them.
LEMMA PeerSubnets ==
    ASSUME ParseInv, NEW k \in 1..Len(peers), NEW family \in Families,
           NEW t \in Range(peers[k][Networks[family]])
    PROVE  /\ addrmask_parse(t) \in Subnets /\ addrmask_parse(t).family = family
           /\ t.family = family
<1> DEFINE f == Networks[family]
           list == peers[k][f]
<1>1. f \in DOMAIN ListFields /\ ListFields[f] = family /\ f \in PeerFields
  BY DEF Families, Networks, ListFields, PeerFields
<1>2. FieldOK(f, list)
  BY <1>1 DEF ParseInv, IsPeer
<1> HIDE DEF f
<1>3. list \in Seq(Texts) /\ \A i \in 1..Len(list) : addrmask_verify_subnet(list[i], ListFields[f])
  BY <1>1, <1>2 DEF FieldOK
<1>4. PICK i \in 1..Len(list) : t = list[i]
  BY <1>3, LenProperties DEF Range, f
<1>5. t \in Texts /\ addrmask_verify_subnet(t, family)
  BY <1>1, <1>3, <1>4, ElementOfSeq
<1>6. addrmask_parse(t) # Invalid /\ addrmask_parse(t).family = family
  BY <1>5 DEF addrmask_verify_subnet, Families
<1>7. addrmask_parse(t).family = t.family
  BY <1>6 DEF addrmask_parse
<1> QED
  BY <1>5, <1>6, <1>7 DEF Subnets

\* The subnets of a node's hosts file are those of its entry.
LEMMA HostSubnets ==
    ASSUME ParseInv, Hosts, NEW n \in DOMAIN hosts, NEW k \in 1..Len(peers), HostOf(n, k)
    PROVE  /\ Range(hosts[n].Subnet) = Range(peers[k].network) \cup Range(peers[k].network6)
           /\ Networks["INET"] = "network" /\ Networks["INET6"] = "network6"
           /\ Families = {"INET", "INET6"}
<1>1. "network" \in DOMAIN ListFields /\ "network6" \in DOMAIN ListFields
      /\ "network" \in PeerFields /\ "network6" \in PeerFields
  BY DEF ListFields, PeerFields
<1>2. FieldOK("network", peers[k]["network"]) /\ FieldOK("network6", peers[k]["network6"])
  BY <1>1 DEF ParseInv, IsPeer
<1>3. peers[k].network \in Seq(Texts) /\ peers[k].network6 \in Seq(Texts)
  BY <1>1, <1>2 DEF FieldOK
<1>4. Range(peers[k].network \o peers[k].network6)
        = Range(peers[k].network) \cup Range(peers[k].network6)
  BY <1>3, RangeConcatenation
<1> QED
  BY <1>4 DEF HostOf, Networks, Families

\* Every subnet of a hosts file can be parsed, and has a family.
LEMMA HostTexts ==
    ASSUME ParseInv, Hosts, NEW n \in DOMAIN hosts, NEW t \in Range(hosts[n].Subnet)
    PROVE  /\ addrmask_parse(t) \in Subnets
           /\ addrmask_parse(t).family \in Families /\ addrmask_parse(t).family = t.family
<1>1. PICK k \in 1..Len(peers) : HostOf(n, k)
  BY DEF Hosts
<1>2. \E family \in Families : t \in Range(peers[k][Networks[family]])
  BY <1>1, HostSubnets
<1> QED
  BY <1>2, PeerSubnets

\* The routes of tinc-up and tinc-down, one by one.
LEMMA NodeRoute ==
    ASSUME ParseInv, NEW isup, NEW nodes, NEW r
    PROVE  r \in NodeRoutes(isup, nodes) <=>
              /\ ~ config.use_dynamic_routes
              /\ \E k \in 1..Len(peers) : \E family \in Families :
                 \E t \in Range(peers[k][Networks[family]]) :
                    /\ peers[k].name \in nodes /\ Routable(family, isup) /\ ~ CommentedOut(t)
                    /\ r = addrmask_parse(t)
<1>1. Range(peers) = {peers[k] : k \in 1..Len(peers)}
  BY RangeEquality DEF ParseInv
<1>2. r \in NodeRoutes(isup, nodes) <=>
        \E p \in Range(peers) : /\ ~ config.use_dynamic_routes /\ p.name \in nodes
                                /\ \E family \in Families : \E t \in Range(p[Networks[family]]) :
                                      /\ Routable(family, isup) /\ ~ CommentedOut(t)
                                      /\ r = addrmask_parse(t)
  BY DEF NodeRoutes
<1> QED
  BY <1>1, <1>2

\* The supernets, read back from the script, are those of the configuration.
LEMMA Supernet ==
    ASSUME ConfigInv, NEW isup
    PROVE  /\ Supernets(isup) = {n \in Range(config.mergeroutes_supernet) : Routable(n.family, isup)}
           /\ Range(config.mergeroutes_supernet) \subseteq Subnets
<1>1. config["mergeroutes_supernet"] \in Seq(Subnets)
  BY DEF ConfigInv, SubnetLists
<1>2. Range(config.mergeroutes_supernet) \subseteq Subnets
  BY <1>1, RangeOfSeq
<1>3. \A n \in Range(config.mergeroutes_supernet) : addrmask_parse(addrmask_to_string(n)) = n
  BY <1>2, ReadsBack
<1> QED
  BY <1>2, <1>3 DEF Supernets

\* With $use_dynamic_routes the two scripts do the same for the same nodes and
\* families, and tinc-up and tinc-down set no route.
LEMMA DynamicScripts ==
    ASSUME ConfigInv, ParseInv, config.use_dynamic_routes
    PROVE  /\ SubnetScript(TRUE) = SubnetScript(FALSE)
           /\ \A isup \in BOOLEAN : UpDownRoutes(isup) = {}
<1>1. \A f \in Families : Routable(f, TRUE) <=> Routable(f, FALSE)
  BY DEF ConfigInv, config_init, Routable, Families
<1>2. SubnetScript(TRUE) = SubnetScript(FALSE)
  <2>1. \A s \in Recognised : s[1] \in Families
    BY DEF Recognised, Families
  <2>2. {s \in Recognised : Routable(s[1], TRUE)} = {s \in Recognised : Routable(s[1], FALSE)}
    BY <1>1, <2>1
  <2> QED
    BY <2>2, Zenon DEF SubnetScript
<1>3. Range(config.mergeroutes_supernet) = {}
  <2>1. config.mergeroutes_supernet = <<>>
    BY DEF ConfigInv, config_init
  <2> QED
    BY <2>1 DEF Range
<1>4. ASSUME NEW isup \in BOOLEAN PROVE UpDownRoutes(isup) = {}
  <2>1. Supernets(isup) = {}
    BY <1>3 DEF Supernets
  <2>2. \A nodes : NodeRoutes(isup, nodes) = {}
    BY DEF NodeRoutes
  <2> QED
    BY <2>1, <2>2 DEF UpDownRoutes
<1> QED
  BY <1>2, <1>4

\* The routes, before tincd runs, while it runs and after it.
RouteInv ==
    /\ events \in 0..MaxEvents /\ reachable \subseteq DOMAIN hosts
    /\ pc \notin {"running", "stopped"} => routes = {} /\ reachable = {}
    /\ pc = "stopped" => reachable = {}
    /\ ~ config.use_dynamic_routes =>
          /\ pc = "running" => routes = up
          /\ pc = "stopped" => routes = up \ down
    /\ config.use_dynamic_routes /\ pc \in {"running", "stopped"} =>
          /\ \A r \in routes : \E n \in reachable : r \in ScriptRoutes(subnetup, n)
          /\ ~ SharedSubnet => \A n \in reachable : ScriptRoutes(subnetup, n) \subseteq routes

\* There is no route before tincd runs.
LEMMA InitRoute == Init => RouteInv
  BY NetConfigAssumption DEF Init, RouteInv

\* The scripts keep track of the nodes that are reachable.
LEMMA RoutePreserves ==
    ASSUME ConfigInv, ParseInv, FileInv, RouteInv, Next
    PROVE  RouteInv'
<1>1. ASSUME pc \notin {"written", "running", "stopped"}, pc' \notin {"running", "stopped"},
             UNCHANGED tincVars
      PROVE  RouteInv'
  BY <1>1 DEF RouteInv, tincVars
<1>2. CASE Parse
  BY <1>1, <1>2 DEF Parse, ParseHeader, ParseSkipped, ParseString, ParseFlag, ParseList, ParsePort,
       ParseBegin, ParseEnd, ParseOther, FindMyPeer, Line
<1>3. CASE WriteFiles
  BY <1>1, <1>3 DEF WriteFiles, tinc_write_config, tinc_write_hosts, tinc_write_up,
       tinc_write_down, tinc_write_subnetup, tinc_write_subnetdown, Write
<1>4. ASSUME Tincd
      PROVE  /\ config' = config /\ hosts' = hosts /\ up' = up /\ down' = down
             /\ subnetup' = subnetup /\ subnetdown' = subnetdown
             /\ SharedSubnet' = SharedSubnet
             /\ \A script, n : ScriptRoutes(script, n)' = ScriptRoutes(script, n)
  <2>1. /\ config' = config /\ hosts' = hosts /\ up' = up /\ down' = down
        /\ subnetup' = subnetup /\ subnetdown' = subnetdown
    BY <1>4 DEF Tincd, TincdUp, TincdDown, NodeUp, NodeDown, tincdUnchanged, fileVars
  <2> QED
    BY <2>1 DEF SharedSubnet, ScriptRoutes, Spelling
<1>5. ASSUME ~ config.use_dynamic_routes, pc \in {"written", "running"}, NEW n
      PROVE  ScriptRoutes(subnetup, n) = {} /\ (pc = "running" => ScriptRoutes(subnetdown, n) = {})
  <2>1. subnetup = NoFile /\ (pc = "running" => subnetdown = NoFile)
    BY <1>5 DEF FileInv, SubnetUpWritten, Written, SubnetScript
  <2> QED
    BY <2>1 DEF ScriptRoutes, NoFile
<1>6. ASSUME config.use_dynamic_routes, pc \in {"written", "running"}
      PROVE  up = {} /\ down = {} /\ subnetup = subnetdown
  BY <1>6, DynamicScripts DEF FileInv, UpWritten, DownWritten, SubnetUpWritten, Written
<1>7. ASSUME NEW n \in DOMAIN hosts, NEW m \in DOMAIN hosts, n # m, NEW script, ~ SharedSubnet
      PROVE  ScriptRoutes(script, n) \cap ScriptRoutes(script, m) = {}
  BY <1>7 DEF SharedSubnet, ScriptRoutes
<1>8. CASE TincdUp
  <2>1. /\ pc = "written" /\ pc' = "running" /\ routes' = up /\ reachable' = {} /\ events' = events
    BY <1>8 DEF TincdUp, RouteInv
  <2>2. CASE config.use_dynamic_routes
    BY <1>4, <1>6, <1>8, <2>1, <2>2 DEF RouteInv, Tincd
  <2>3. CASE ~ config.use_dynamic_routes
    BY <1>4, <1>8, <2>1, <2>3 DEF RouteInv, Tincd
  <2> QED
    BY <2>2, <2>3
<1>9. CASE TincdDown
  <2>1. /\ pc = "running" /\ pc' = "stopped" /\ routes' = routes \ down
        /\ reachable = {} /\ reachable' = {} /\ events' = events
    BY <1>9 DEF TincdDown
  <2>2. CASE config.use_dynamic_routes
    BY <1>4, <1>6, <1>9, <2>1, <2>2 DEF RouteInv, Tincd
  <2>3. CASE ~ config.use_dynamic_routes
    BY <1>4, <1>9, <2>1, <2>3 DEF RouteInv, Tincd
  <2> QED
    BY <2>2, <2>3
<1>10. ASSUME NEW n \in DOMAIN hosts, NodeUp(n) PROVE RouteInv'
  <2>1. /\ pc = "running" /\ pc' = "running" /\ routes' = routes \cup ScriptRoutes(subnetup, n)
        /\ reachable' = reachable \cup {n} /\ events' \in 0..MaxEvents /\ Tincd
    BY <1>10, NetConfigAssumption DEF NodeUp, RouteInv, Tincd
  <2>2. CASE config.use_dynamic_routes
    BY <1>4, <2>1, <2>2 DEF RouteInv
  <2>3. CASE ~ config.use_dynamic_routes
    BY <1>4, <1>5, <2>1, <2>3 DEF RouteInv
  <2> QED
    BY <2>2, <2>3
<1>11. ASSUME NEW n \in DOMAIN hosts, NodeDown(n) PROVE RouteInv'
  <2>1. /\ pc = "running" /\ pc' = "running" /\ routes' = routes \ ScriptRoutes(subnetdown, n)
        /\ reachable' = reachable \ {n} /\ n \in reachable /\ events' = events /\ Tincd
    BY <1>11 DEF NodeDown, Tincd
  <2>2. CASE config.use_dynamic_routes
    <3>1. subnetup = subnetdown
      BY <1>6, <2>1, <2>2
    <3>2. \A r \in routes' : \E m \in reachable' : r \in ScriptRoutes(subnetup, m)
      BY <2>1, <2>2, <3>1 DEF RouteInv
    <3>3. ASSUME ~ SharedSubnet, NEW m \in reachable' PROVE ScriptRoutes(subnetup, m) \subseteq routes'
      <4>1. m \in DOMAIN hosts /\ m # n /\ m \in reachable
        BY <2>1 DEF RouteInv
      <4>2. ScriptRoutes(subnetup, m) \subseteq routes
        BY <2>1, <2>2, <3>3, <4>1 DEF RouteInv
      <4> QED
        BY <1>7, <2>1, <3>1, <3>3, <4>1, <4>2
    <3> QED
      BY <1>4, <2>1, <2>2, <3>2, <3>3 DEF RouteInv
  <2>3. CASE ~ config.use_dynamic_routes
    BY <1>4, <1>5, <2>1, <2>3 DEF RouteInv
  <2> QED
    BY <2>2, <2>3
<1> QED
  BY <1>2, <1>3, <1>8, <1>9, <1>10, <1>11 DEF Next, Tincd

\* All parts of the inductive invariant.
IInv == ConfigInv /\ ParseInv /\ EntryInv /\ FileInv /\ RouteInv

\* The program starts with the invariant.
LEMMA InitInv == Init => IInv
<1> SUFFICES ASSUME Init PROVE IInv
  OBVIOUS
<1>1. ParseInv
  <2>1. data \in Data /\ Len(data) \in Nat
    BY DataIsSeq DEF Init
  <2>2. peers \in Seq(Range(peers)) /\ Len(peers) = 0 /\ pos = 1 /\ parse_key_mode = FALSE
    BY EmptySeq DEF Init
  <2> QED
    <3>1. 1..Len(peers) = {}
      BY <2>2
    <3> QED
      <4>1. pos \in 1..Len(data) + 1 /\ Len(peers) < pos
        BY <2>1, <2>2
      <4> QED
        BY <2>1, <2>2, <3>1, <4>1 DEF ParseInv
<1> QED
  BY <1>1, InitConfig, InitEntry, InitFile, InitRoute DEF IInv

\* Every step keeps it.
LEMMA StepInv == IInv /\ [Next]_vars => IInv'
<1> SUFFICES ASSUME IInv, [Next]_vars PROVE IInv'
  OBVIOUS
<1>1. CASE Next
  <2>1. config' = config
    BY <1>1 DEF Next, Parse, ParseHeader, ParseSkipped, ParseString, ParseFlag, ParseList, ParsePort,
       ParseBegin, ParseEnd, ParseOther, FindMyPeer, Line,
       WriteFiles, tinc_write_config, tinc_write_hosts, tinc_write_up, tinc_write_down,
       tinc_write_subnetup, tinc_write_subnetdown, Write,
       Tincd, TincdUp, TincdDown, NodeUp, NodeDown, tincdUnchanged
  <2>2. ConfigInv'
    BY <2>1 DEF IInv, ConfigInv
  <2> QED
    BY <1>1, <2>2, ParsePreserves, EntryPreserves, FilePreserves, RoutePreserves DEF IInv
<1>2. CASE UNCHANGED vars
  <2> USE <1>2 DEF vars
  <2>1. ConfigInv'
    BY DEF IInv, ConfigInv
  <2>2. ParseInv'
    BY DEF IInv, ParseInv, Range
  <2>3. FileInv'
    BY SameInputs DEF IInv, FileInv, HostsWritten, UpWritten, DownWritten, SubnetUpWritten, Written
  <2>4. RouteInv'
    <3>1. SharedSubnet' = SharedSubnet /\ \A script, n : ScriptRoutes(script, n)' = ScriptRoutes(script, n)
      BY DEF SharedSubnet, ScriptRoutes
    <3> QED
      BY <3>1 DEF IInv, RouteInv
  <2>5. EntryInv'
    BY EntryStays DEF IInv
  <2> QED
    BY <2>1, <2>2, <2>3, <2>4, <2>5 DEF IInv
<1> QED
  BY <1>1, <1>2

\* It holds in every reachable state.
LEMMA Invariant == Spec => []IInv
  BY InitInv, StepInv, PTL DEF Spec

\* Every variable keeps its type.
THEOREM TypeCorrect == Spec => []TypeOK
<1>1. IInv => TypeOK
  <2> SUFFICES ASSUME IInv PROVE TypeOK
    OBVIOUS
  <2>1. Len(data) \in Nat /\ Len(peers) \in Nat /\ Len(peers) <= Len(data)
    BY DataIsSeq, LenProperties DEF IInv, ParseInv
  <2>2. ASSUME NEW p \in Range(peers)
        PROVE  /\ \A f \in FlagFields : p[f] \in BOOLEAN
               /\ \A f \in DOMAIN ListFields : \A t \in Range(p[f]) : t.family = ListFields[f]
               /\ p.port \in 0 .. PortModulus - 1
    <3>1. PICK k \in 1..Len(peers) : p = peers[k]
      BY RangeEquality DEF IInv, ParseInv
    <3>2. \A f \in PeerFields : FieldOK(f, p[f])
      BY <3>1 DEF IInv, ParseInv, IsPeer
    <3>3. \A f \in FlagFields : p[f] \in BOOLEAN
      BY <3>2 DEF FieldOK, PeerFields
    <3>4. p.port \in 0..PortModulus - 1
      <4>1. "port" \in PeerFields /\ FieldOK("port", p["port"])
        BY <3>2 DEF PeerFields
      <4> QED
        BY <4>1 DEF FieldOK
    <3>5. ASSUME NEW f \in DOMAIN ListFields, NEW t \in Range(p[f]) PROVE t.family = ListFields[f]
      <4>1. f \in PeerFields /\ ListFields[f] \in Families
        BY DEF PeerFields, ListFields, Families
      <4>2. p[f] \in Seq(Texts) /\ \A i \in 1..Len(p[f]) : addrmask_verify_subnet(p[f][i], ListFields[f])
        BY <3>2, <4>1 DEF FieldOK
      <4>3. PICK i \in 1..Len(p[f]) : t = p[f][i]
        BY <4>2, RangeEquality
      <4>4. addrmask_parse(t) # Invalid /\ addrmask_parse(t).family = ListFields[f]
        BY <4>1, <4>2, <4>3 DEF addrmask_verify_subnet, Families
      <4> QED
        BY <4>4 DEF addrmask_parse
    <3> QED
      BY <3>3, <3>4, <3>5
  <2> QED
    BY <2>1, <2>2 DEF IInv, ParseInv, FileInv, RouteInv, TypeOK
<1> QED
  BY <1>1, Invariant, PTL

\* Every entry is made from the lines of its own section and from nothing else
\* (parser_parse_line), however many sections and lines there are and in whatever
\* order: EntryInv says so of the lines read.
THEOREM EntriesAreTheirSections == Spec => []EntriesFromOwnSection
<1>1. IInv => EntriesFromOwnSection
  <2> SUFFICES ASSUME ParseInv, EntryInv, pc # "parse"
               PROVE  /\ Len(peers) = Cardinality(Headers)
                      /\ \A h \in Headers : peers[Rank(Headers, h)].name = data[h].name
                      /\ \A k \in DOMAIN peers : EntryFrom(peers[k], Section(k))
    BY DEF IInv, EntriesFromOwnSection
  <2>1. pos = Len(data) + 1 /\ Len(data) \in Nat /\ DOMAIN data = 1..Len(data)
    BY DataIsSeq, LenProperties DEF ParseInv, EntryInv
  <2>2. Headers \in SUBSET (1..Len(data)) /\ \A k : Section(k) \in SUBSET (1..Len(data))
    BY <2>1 DEF Headers, Section
  <2>3. \A h \in Headers : h < pos
    BY <2>1, <2>2
  <2>4. {h \in Headers : h < pos} = Headers
    BY <2>3
  <2>5. \A k : SectionSoFar(k) = Section(k)
    BY <2>1, <2>2 DEF SectionSoFar
  <2>6. DOMAIN peers = 1..Len(peers)
    BY LenProperties DEF ParseInv
  <2>7. ASSUME NEW k \in 1..Len(peers) PROVE EntryFrom(peers[k], Section(k))
    <3>1. \A f \in PeerFields : FieldFrom(f, peers[k][f], Section(k))
      BY <2>5 DEF EntryInv
    <3>2. "key" \in PeerFields /\ "port" \in PeerFields /\ StringFields \subseteq PeerFields
          /\ FlagFields \subseteq PeerFields /\ DOMAIN ListFields \subseteq PeerFields
      BY DEF PeerFields
    <3>3. FieldFrom("key", peers[k].key, Section(k)) /\ FieldFrom("port", peers[k].port, Section(k))
      BY <3>1, <3>2
    <3>4. /\ \A f \in StringFields : peers[k][f] = LastValue(Given(Section(k), "string", f), Empty)
          /\ \A f \in FlagFields : peers[k][f] <=> LastValue(Given(Section(k), "flag", f), "no") = "yes"
      BY <3>1, <3>2 DEF FieldFrom
    <3>5. \A f \in DOMAIN ListFields :
             Lists(peers[k][f], Networked(Given(Section(k), "list", f), ListFields[f]),
                   [i \in Networked(Given(Section(k), "list", f), ListFields[f]) |-> data[i].value])
      BY <3>1, <3>2 DEF FieldFrom
    <3> QED
      BY <3>3, <3>4, <3>5 DEF EntryFrom, FieldFrom
  <2> QED
    BY <2>3, <2>4, <2>6, <2>7 DEF EntryInv
<1> QED
  BY <1>1, Invariant, PTL

\* With hosts files that are all different, a node's file is made from its entry.
LEMMA HostIsPeer ==
    ASSUME IInv, Hosts, UniqueNames, NEW k \in 1..Len(peers)
    PROVE  peers[k].name \in DOMAIN hosts /\ HostOf(peers[k].name, k)
<1>1. DOMAIN peers = 1..Len(peers)
  BY LenProperties DEF IInv, ParseInv
<1>2. FileName(peers[k].name) = peers[k].name /\ peers[k].name \in DOMAIN hosts
  BY <1>1 DEF Hosts, UniqueNames
<1>3. PICK j \in 1..Len(peers) : HostOf(peers[k].name, j)
  BY <1>2 DEF Hosts
<1>4. j = k
  BY <1>1, <1>3 DEF UniqueNames, HostOf
<1> QED
  BY <1>2, <1>3, <1>4

\* A node that tincd is told to connect to is another one, is not excluded, and its
\* hosts file says at which address.
THEOREM ConnectsToKnownAddress == Spec => []ConnectToHasAddress
<1>1. IInv => ConnectToHasAddress
  <2> SUFFICES ASSUME IInv, Written, UniqueNames, NEW n \in tincconf.ConnectTo
               PROVE  n \in Remote /\ hosts[n].Address # Empty
    BY DEF ConnectToHasAddress
  <2>1. Connects /\ Hosts
    BY DEF IInv, FileInv, Written, HostsWritten
  <2>2. PICK k \in 1..Len(peers) : peers[k].name = n /\ HasAddress(peers[k])
    BY <2>1 DEF Connects
  <2>3. n \in DOMAIN hosts /\ HostOf(n, k)
    BY <2>1, <2>2, HostIsPeer
  <2>4. n \in Remote
    BY <2>1, <2>3 DEF Connects, Remote
  <2>5. hosts[n].Address = peers[k].gatewayhost
    BY <2>2, <2>3 DEF HostOf
  <2> QED
    BY <2>2, <2>4, <2>5 DEF HasAddress
<1> QED
  BY <1>1, Invariant, PTL

\* What a node's own subnets are, in both ways of writing them.
LEMMA OwnSubnet ==
    ASSUME IInv, Hosts, UniqueNames, NEW k \in 1..Len(peers), NEW t
    PROVE  t \in Range(hosts[peers[k].name].Subnet) <=>
              \E family \in Families : t \in Range(peers[k][Networks[family]])
<1>1. peers[k].name \in DOMAIN hosts /\ HostOf(peers[k].name, k)
  BY HostIsPeer
<1>2. ParseInv
  BY DEF IInv
<1> QED
  BY <1>1, <1>2, HostSubnets

\* Where a route comes from that a script sets for a node.
FromPeer(nodes, r) ==
    \E k \in 1..Len(peers), family \in Families :
        \E t \in Range(peers[k][Networks[family]]) :
            peers[k].name \in nodes /\ ~ CommentedOut(t) /\ r = addrmask_parse(t)

\* Every route that is set up is a network of a peer.
LEMMA SetUpRoute ==
    ASSUME ParseInv
    PROVE  \A isup, nodes : \A r \in NodeRoutes(isup, nodes) : FromPeer(nodes, r)
<1> SUFFICES ASSUME NEW isup, NEW nodes, NEW r \in NodeRoutes(isup, nodes)
             PROVE  FromPeer(nodes, r)
  OBVIOUS
<1>1. Range(peers) = {peers[k] : k \in 1..Len(peers)}
  BY RangeEquality DEF ParseInv
<1>2. \E p \in Range(peers) : /\ p.name \in nodes
                              /\ \E family \in Families : \E t \in Range(p[Networks[family]]) :
                                    ~ CommentedOut(t) /\ r = addrmask_parse(t)
  BY DEF NodeRoutes
<1> QED
  BY <1>1, <1>2 DEF FromPeer

\* Every route is a configured supernet, or leads to a node that is not excluded and
\* was reachable last time tincd reported, if that matters.
THEOREM RoutesHaveAnOwner == Spec => []RoutesOwned
<1>1. IInv => RoutesOwned
  <2> SUFFICES ASSUME IInv, pc = "running", UniqueNames, NEW r \in routes
               PROVE
            \/ \E s \in Range(config.mergeroutes_supernet) : r = addrmask_parse(addrmask_to_string(s))
            \/ \E n \in IF config.use_dynamic_routes
                        THEN reachable \ (config.exclude \cup {config.peerid})
                        ELSE Remote :
                  r \in {addrmask_parse(t) : t \in Range(hosts[n].Subnet)}
    BY DEF RoutesOwned
  <2>1. Hosts /\ up = UpDownRoutes(TRUE) /\ subnetup = SubnetScript(TRUE)
    BY DEF IInv, FileInv, HostsWritten, UpWritten, SubnetUpWritten
  <2>2. CASE config.use_dynamic_routes
    <3>1. PICK n \in reachable : r \in ScriptRoutes(subnetup, n)
      BY <2>2 DEF IInv, RouteInv
    <3>2. subnetup.self = config.peerid /\ subnetup.excluded = config.exclude
      BY <2>1, <2>2 DEF SubnetScript
    <3>3. n \notin config.exclude \cup {config.peerid}
      BY <3>1, <3>2 DEF ScriptRoutes
    <3>4. r \in {addrmask_parse(t) : t \in Range(hosts[n].Subnet)}
      BY <3>1 DEF ScriptRoutes
    <3> QED
      BY <2>2, <3>3, <3>4
  <2>3. CASE ~ config.use_dynamic_routes
    <3> DEFINE nodes == {p.name : p \in {q \in Range(peers) :
                            q.name # config.peerid /\ ~ tinc_check_if_excluded(q.name)}}
    <3>1. r \in Supernets(TRUE) \cup NodeRoutes(TRUE, nodes)
      BY <2>1, <2>3 DEF IInv, RouteInv, UpDownRoutes
    <3>2. CASE r \in Supernets(TRUE)
      BY <3>2 DEF Supernets
    <3>3. CASE r \in NodeRoutes(TRUE, nodes)
      <4>1. \A n \in nodes : n # config.peerid /\ ~ tinc_check_if_excluded(n)
        OBVIOUS
      <4> HIDE DEF nodes
      <4>2. PICK k \in 1..Len(peers), family \in Families :
              \E t \in Range(peers[k][Networks[family]]) :
                 peers[k].name \in nodes /\ ~ CommentedOut(t) /\ r = addrmask_parse(t)
        <5>1. ParseInv
          BY DEF IInv
        <5>2. FromPeer(nodes, r)
          BY <3>3, <5>1, SetUpRoute, Zenon
        <5> QED
          BY <5>2 DEF FromPeer
      <4>3. PICK t \in Range(peers[k][Networks[family]]) :
                peers[k].name \in nodes /\ r = addrmask_parse(t)
        BY <4>2
      <4>4. peers[k].name \in Remote
        BY <2>1, <4>1, <4>3, HostIsPeer DEF Remote
      <4>5. t \in Range(hosts[peers[k].name].Subnet)
        BY <2>1, OwnSubnet
      <4> QED
        BY <2>3, <4>3, <4>4, <4>5
    <3> QED
      BY <3>1, <3>2, <3>3
  <2> QED
    BY <2>2, <2>3
<1> QED
  BY <1>1, Invariant, PTL

\* What was set up is taken down again, wherever there is a command for it.
THEOREM NoRouteStays == Spec => []NoRouteLeft
<1>1. IInv => NoRouteLeft
  <2> SUFFICES ASSUME IInv, pc = "stopped", NEW r \in routes, Routable(r.family, FALSE)
               PROVE  FALSE
    BY DEF NoRouteLeft
  <2>1. up = UpDownRoutes(TRUE) /\ down = UpDownRoutes(FALSE)
    BY DEF IInv, FileInv, UpWritten, DownWritten
  <2>2. CASE config.use_dynamic_routes
    BY <2>2 DEF IInv, RouteInv
  <2>3. CASE ~ config.use_dynamic_routes
    <3> DEFINE nodes == {p.name : p \in {q \in Range(peers) :
                            q.name # config.peerid /\ ~ tinc_check_if_excluded(q.name)}}
    <3>1. r \in up /\ r \notin down
      BY <2>3 DEF IInv, RouteInv
    <3>2. /\ r \in Supernets(TRUE) \cup NodeRoutes(TRUE, nodes)
          /\ r \notin Supernets(FALSE) /\ r \notin NodeRoutes(FALSE, nodes)
      BY <2>1, <3>1 DEF UpDownRoutes
    <3> HIDE DEF nodes
    <3>3. CASE r \in Supernets(TRUE)
      BY <3>2, <3>3, Supernet DEF IInv
    <3>4. CASE r \in NodeRoutes(TRUE, nodes)
      <4>1. ParseInv
        BY DEF IInv
      <4>2. PICK k \in 1..Len(peers), family \in Families :
              \E t \in Range(peers[k][Networks[family]]) :
                 peers[k].name \in nodes /\ ~ CommentedOut(t) /\ r = addrmask_parse(t)
        <5>1. FromPeer(nodes, r)
          BY <3>4, <4>1, SetUpRoute, Zenon
        <5> QED
          BY <5>1 DEF FromPeer
      <4>3. PICK t \in Range(peers[k][Networks[family]]) :
                peers[k].name \in nodes /\ ~ CommentedOut(t) /\ r = addrmask_parse(t)
        BY <4>2
      <4>4. r.family = family
        BY <4>1, <4>3, PeerSubnets
      <4> QED
        BY <2>3, <3>2, <4>1, <4>3, <4>4, NodeRoute
    <3> QED
      BY <3>2, <3>3, <3>4
  <2> QED
    BY <2>2, <2>3
<1> QED
  BY <1>1, Invariant, PTL

\* No route leads where the administrator's lists forbid it.
THEOREM FiltersAreKept == Spec => []FiltersHold
<1>1. IInv => FiltersHold
  <2> SUFFICES ASSUME IInv, pc = "running", NEW r \in routes \ Range(config.mergeroutes_supernet)
               PROVE
            /\ config.whitelist_subnets # <<>> =>
                  \E w \in Range(config.whitelist_subnets) : ContainedIn(r, w)
            /\ Disjoint(config.ignore_subnets) =>
                  ~ \E i \in Range(config.ignore_subnets) : ContainedIn(r, i)
    BY DEF FiltersHold
  <2> DEFINE white == config.whitelist_subnets
             ignore == config.ignore_subnets
  <2>1. ParseInv /\ ConfigInv /\ up = UpDownRoutes(TRUE)
    BY DEF IInv, FileInv, UpWritten
  <2>2. config["whitelist_subnets"] \in Seq(Subnets) /\ config["ignore_subnets"] \in Seq(Subnets)
    BY <2>1 DEF ConfigInv, SubnetLists
  <2>3. /\ white \in Seq(Subnets) /\ ignore \in Seq(Subnets)
        /\ Range(white) = {white[k] : k \in 1..Len(white)}
        /\ Range(ignore) = {ignore[k] : k \in 1..Len(ignore)}
    BY <2>2, RangeEquality
  <2>4. CASE config.use_dynamic_routes
    <3>1. white = <<>> /\ ignore = <<>>
      BY <2>1, <2>4 DEF ConfigInv, config_init
    <3>2. Range(ignore) = {}
      BY <3>1 DEF Range
    <3> QED
      BY <3>1, <3>2
  <2>5. CASE ~ config.use_dynamic_routes
    <3> DEFINE nodes == {p.name : p \in {q \in Range(peers) :
                            q.name # config.peerid /\ ~ tinc_check_if_excluded(q.name)}}
    <3>1. r \in Supernets(TRUE) \cup NodeRoutes(TRUE, nodes)
      BY <2>1, <2>5 DEF IInv, RouteInv, UpDownRoutes
    <3>2. r \notin Supernets(TRUE)
      BY <2>1, Supernet
    <3> HIDE DEF nodes
    <3>3. PICK k \in 1..Len(peers), family \in Families :
            \E t \in Range(peers[k][Networks[family]]) :
               peers[k].name \in nodes /\ ~ CommentedOut(t) /\ r = addrmask_parse(t)
      <4>1. r \in NodeRoutes(TRUE, nodes)
        BY <3>1, <3>2
      <4>2. FromPeer(nodes, r)
        BY <2>1, <4>1, SetUpRoute, Zenon
      <4> QED
        BY <4>2 DEF FromPeer
    <3>4. PICK t \in Range(peers[k][Networks[family]]) :
              peers[k].name \in nodes /\ ~ CommentedOut(t) /\ r = addrmask_parse(t)
      BY <3>3
    <3>5. addrmask_parse(t) \in Subnets
      BY <2>1, PeerSubnets
    <3>6. /\ addrmask_match(ignore, t) = 0
          /\ white # <<>> => addrmask_match(white, t) # 0
      BY <3>4 DEF CommentedOut
    <3> HIDE DEF white, ignore
    <3>7. white # <<>> => \E w \in Range(white) : ContainedIn(r, w)
      BY <2>3, <3>4, <3>5, <3>6, MatchMeans
    <3>8. Disjoint(ignore) => ~ \E i \in Range(ignore) : ContainedIn(r, i)
      BY <2>3, <3>4, <3>5, <3>6, MatchMeans
    <3> QED
      BY <3>7, <3>8 DEF white, ignore
  <2> QED
    BY <2>4, <2>5
<1> QED
  BY <1>1, Invariant, PTL

\* A route covers the subnets that lie in it.
LEMMA CoveredByContaining ==
    ASSUME NEW r \in Subnets, NEW q \in Subnets, q \in routes, ContainedIn(r, q)
    PROVE  Covered(r)
<1> SUFFICES ASSUME NEW a \in AddressesOf(r.family, r.net, r.shift)
             PROVE  \E p \in routes : p.family = r.family /\ SamePrefix(a, p.net, p.shift)
  BY DEF Covered
<1>1. a \in AddressesOf(q.family, q.net, q.shift) /\ q.family = r.family
  BY DEF ContainedIn
<1>2. q.shift \in Nat
  BY SubnetProperties, Sizes
<1>3. SamePrefix(a, q.net, q.shift)
  BY <1>1, <1>2, PrefixSymmetric DEF AddressesOf
<1> QED
  BY <1>1, <1>3

\* Every address of the other nodes has a route.
THEOREM EveryNodeHasItsRoutes == Spec => []RoutesComplete
<1>1. IInv => RoutesComplete
  <2> SUFFICES ASSUME IInv, pc = "running", UniqueNames,
                      config.ignore_subnets = <<>>, config.whitelist_subnets = <<>>,
                      ~ (config.use_dynamic_routes /\ SharedSubnet),
                      NEW n \in Remote \cap (IF config.use_dynamic_routes THEN reachable ELSE DOMAIN hosts),
                      NEW t \in Range(hosts[n].Subnet), Routable(t.family, TRUE),
                      config.use_dynamic_routes => Spelling(addrmask_parse(t)) \in Recognised
               PROVE  Covered(addrmask_parse(t))
    BY DEF RoutesComplete
  <2> DEFINE r == addrmask_parse(t)
  <2>1. ParseInv /\ ConfigInv /\ Hosts /\ up = UpDownRoutes(TRUE) /\ subnetup = SubnetScript(TRUE)
    BY DEF IInv, FileInv, HostsWritten, UpWritten, SubnetUpWritten
  <2>2. n \in DOMAIN hosts /\ n # config.peerid /\ ~ tinc_check_if_excluded(n)
    BY DEF Remote
  <2>3. r \in Subnets /\ r.family \in Families /\ r.family = t.family
    BY <2>1, <2>2, HostTexts
  <2>4. ContainedIn(r, r)
    BY DEF ContainedIn
  <2> HIDE DEF r
  <2>5. CASE config.use_dynamic_routes
    <3>1. n \notin config.exclude
      BY <2>2 DEF tinc_check_if_excluded, strcasecmp
    <3>2. r \in ScriptRoutes(subnetup, n)
      <4>1. /\ subnetup.written /\ subnetup.self = config.peerid /\ subnetup.excluded = config.exclude
            /\ subnetup.enabled = {s \in Recognised : Routable(s[1], TRUE)}
        BY <2>1, <2>5 DEF SubnetScript
      <4>2. r \in {addrmask_parse(u) : u \in Range(hosts[n].Subnet)}
        BY DEF r
      <4>3. Spelling(r)[1] = t.family
        BY <2>3 DEF Spelling
      <4>4. Spelling(r) \in subnetup.enabled
        BY <2>5, <4>1, <4>3 DEF r
      <4> QED
        BY <2>2, <3>1, <4>1, <4>2, <4>4 DEF ScriptRoutes
    <3>3. r \in routes
      BY <2>5, <3>2 DEF IInv, RouteInv
    <3> QED
      BY <2>3, <2>4, <3>3, CoveredByContaining DEF r
  <2>6. CASE ~ config.use_dynamic_routes
    <3> DEFINE nodes == {p.name : p \in {q \in Range(peers) :
                            q.name # config.peerid /\ ~ tinc_check_if_excluded(q.name)}}
    <3>1. routes = Supernets(TRUE) \cup NodeRoutes(TRUE, nodes)
      BY <2>1, <2>6 DEF IInv, RouteInv, UpDownRoutes
    <3>2. PICK k \in 1..Len(peers) : peers[k].name = n
      <4>1. DOMAIN peers = 1..Len(peers)
        BY LenProperties DEF IInv, ParseInv
      <4>2. PICK j \in 1..Len(peers) : FileName(peers[j].name) = n
        BY <2>1, <2>2 DEF Hosts
      <4> QED
        BY <4>1, <4>2 DEF UniqueNames
    <3>3. n \in nodes
      <4>1. peers[k] \in Range(peers)
        BY RangeEquality DEF IInv, ParseInv
      <4> QED
        BY <2>2, <3>2, <4>1
    <3> HIDE DEF nodes
    <3>4. PICK family \in Families : t \in Range(peers[k][Networks[family]])
      BY <2>1, <3>2, OwnSubnet
    <3>5. family = t.family
      BY <2>1, <3>4, PeerSubnets
    <3>6. CASE ~ CommentedOut(t)
      <4>1. r \in NodeRoutes(TRUE, nodes)
        BY <2>1, <2>6, <3>2, <3>3, <3>4, <3>5, <3>6, NodeRoute DEF r
      <4> QED
        BY <2>3, <2>4, <3>1, <4>1, CoveredByContaining DEF r
    <3>7. CASE CommentedOut(t)
      <4> DEFINE merge == config.mergeroutes_supernet
      <4>1. addrmask_match(merge, t) # 0
        <5>1. addrmask_match(<<>>, t) = 0
          BY DEF addrmask_match
        <5> QED
          BY <3>7, <5>1 DEF CommentedOut
      <4>2. merge \in Seq(Subnets) /\ Range(merge) = {merge[j] : j \in 1..Len(merge)}
        <5>1. config["mergeroutes_supernet"] \in Seq(Subnets)
          BY <2>1 DEF ConfigInv, SubnetLists
        <5> QED
          BY <5>1, RangeEquality
      <4> HIDE DEF merge
      <4>3. PICK j \in 1..Len(merge) : ContainedIn(r, merge[j])
        BY <2>3, <4>1, <4>2, MatchMeans DEF r
      <4>4. merge[j] \in Range(merge) /\ merge[j].family = r.family
        BY <4>2, <4>3 DEF ContainedIn
      <4>5. merge[j] \in Supernets(TRUE) /\ merge[j] \in Subnets
        BY <2>1, <2>3, <4>4, Supernet DEF merge
      <4> QED
        BY <2>3, <3>1, <4>3, <4>5, CoveredByContaining DEF r
    <3> QED
      BY <3>6, <3>7
  <2> QED
    BY <2>5, <2>6
<1> QED
  BY <1>1, Invariant, PTL
=============================================================================
