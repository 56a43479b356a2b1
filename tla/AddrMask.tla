-------------------------------- MODULE AddrMask --------------------------------
(***************************************************************************)
(* Addresses with a network mask: parsing them, matching a subnet against  *)
(* a configured list, writing them out again (addrmask.c).                 *)
(*                                                                         *)
(* A byte is the set of its bits that are 1, so that `&' is intersection   *)
(* and `~0 << k' is the set k..CharBit-1.  The sizes are parameters: the   *)
(* code has CharBit = 8, V4Bytes = 4, V6Bytes = 16, ShiftModulus = 256.    *)
(*                                                                         *)
(* A text is what the parser can tell apart in a string: which brackets it *)
(* has, which family it names (a colon or none), the address bytes that    *)
(* getaddrinfo finds in it, and the mask behind the slash.                 *)
(***************************************************************************)
EXTENDS Integers, Sequences, FiniteSetsExt

CONSTANTS
    CharBit,        \* bits of a byte
    V4Bytes,        \* bytes of an IPv4 address
    V6Bytes,        \* bytes of an IPv6 address
    ShiftModulus    \* values of an unsigned char, the type of mask_shift

ASSUME AddrMaskAssumption ==
    /\ CharBit \in Nat \ {0} /\ V4Bytes \in Nat \ {0} /\ V6Bytes \in Nat \ {0}
    /\ V4Bytes * CharBit < ShiftModulus /\ V6Bytes * CharBit < ShiftModulus
    /\ ShiftModulus \in Nat

Byte     == SUBSET (0 .. CharBit - 1)
Families == {"INET", "INET6"}

ByteCount(family) == IF family = "INET6" THEN V6Bytes ELSE V4Bytes
BitCount(family)  == ByteCount(family) * CharBit

Address(family) == [1 .. ByteCount(family) -> Byte]

Unparsable == <<>>   \* a host part getaddrinfo rejects
NoMask     == -1     \* no slash in the text
NotDigits  == -2     \* a slash, and behind it nothing or something else than digits
Forms      == {"plain",      \* a/m
               "inner",      \* [a/m]
               "outer",      \* [a]/m
               "unclosed",   \* [a/m
               "trailing"}   \* [a/m]x

TextsOf(family) ==
    [form : Forms, family : {family}, bytes : Address(family) \cup {Unparsable},
     mask : Nat \cup {NoMask, NotDigits}]

Texts == TextsOf("INET") \cup TextsOf("INET6")

Invalid == [family |-> "none"]

\* mask_addr: clears what lies behind the first network_bits bits.
mask_addr(bytes, network_bits) ==
    LET whole == network_bits \div CharBit
        rest  == network_bits % CharBit
    IN  IF network_bits > Len(bytes) * CharBit THEN bytes
        ELSE [i \in 1 .. Len(bytes) |->
                 IF i <= whole THEN bytes[i]
                 ELSE IF i = whole + 1 /\ rest # 0
                 THEN bytes[i] \cap (CharBit - rest .. CharBit - 1)
                 ELSE {}]

\* mask_bytes for a mask_shift: all ones, then masked.
MaskBytes(family, shift) ==
    mask_addr([i \in 1 .. ByteCount(family) |-> 0 .. CharBit - 1], shift)

\* atoi(mask) as it is kept: mask_shift is an unsigned char.
MaskShift(text) ==
    IF text.mask = NoMask THEN BitCount(text.family) ELSE text.mask % ShiftModulus

\* addrmask_parse and addrmask_init.  Host bits that are set are cleared.
addrmask_parse(text) ==
    LET shift == MaskShift(text)
        mask  == MaskBytes(text.family, shift)
    IN  IF \/ text.form \in {"unclosed", "trailing"}
           \/ text.mask = NotDigits
           \/ shift > BitCount(text.family)
           \/ text.bytes = Unparsable
        THEN Invalid
        ELSE [family |-> text.family, shift |-> shift, mask |-> mask,
              net |-> IF \E i \in DOMAIN mask : text.bytes[i] \ mask[i] # {}
                      THEN mask_addr(text.bytes, shift)
                      ELSE text.bytes]

\* The bits of info agree with entry; an all-ones mask is compared directly.
BitsMatch(entry, info) ==
    /\ entry.family = info.family
    /\ IF entry.shift < BitCount(entry.family)
       THEN \A i \in DOMAIN entry.net : info.net[i] \cap entry.mask[i] = entry.net[i]
       ELSE info.net = entry.net

\* addrmask_match: the position of the entry it returns, 0 for NULL.  The first
\* entry whose bits match ends the search, and its mask may not be the longer.
addrmask_match(matches, text) ==
    LET info == addrmask_parse(text)
        hits == {k \in DOMAIN matches : BitsMatch(matches[k], info)}
    IN  IF info = Invalid \/ hits = {} THEN 0
        ELSE LET k == Min(hits)
             IN  IF info.shift < matches[k].shift THEN 0 ELSE k

\* addrmask_to_string: always with a mask.
addrmask_to_string(addr) ==
    [form |-> "plain", family |-> addr.family, bytes |-> addr.net, mask |-> addr.shift]

addrmask_verify_subnet(text, family) ==
    LET addr == addrmask_parse(text)
    IN  addr # Invalid /\ family \in {addr.family, "UNSPEC"}

addrmask_verify_ip(text, family) ==
    LET addr == addrmask_parse(text)
    IN  /\ addr # Invalid
        /\ addr.shift = BitCount(addr.family)
        /\ family \in {addr.family, "UNSPEC"}

-----------------------------------------------------------------------------
(* What the operators are compared with: an address as a number's bits, most *)
(* significant first, and a subnet as the set of its addresses.              *)

\* Bit n of an address, counted from the left, starting with 0.
Bit(bytes, n) ==
    (CharBit - 1 - (n % CharBit)) \in bytes[n \div CharBit + 1]

\* Two addresses agree in their first n bits.
SamePrefix(a, b, n) == \A m \in 0 .. n - 1 : Bit(a, m) <=> Bit(b, m)

\* The addresses of the subnet a/n.
AddressesOf(family, a, n) == {b \in Address(family) : SamePrefix(a, b, n)}

ContainedIn(info, entry) ==
    /\ entry.family = info.family
    /\ AddressesOf(info.family, info.net, info.shift)
          \subseteq AddressesOf(entry.family, entry.net, entry.shift)
=============================================================================
