------------------------------- MODULE MCDownload -------------------------------
(***************************************************************************)
(* A small instance of Download: answers with and without archive, whole   *)
(* and damaged ones, header lines up to and beyond the size of the buffer, *)
(* and all URLs with at most four cells behind http://.                    *)
(***************************************************************************)
EXTENDS Download

CRLFHeader == <<CR, LF, Char("x"), CR, LF, CR, LF>>
LFHeader   == <<LF, Char("x"), LF, LF>>

\* A header whose second line has n cells in front of its end.
WideHeader(n) == <<LF>> \o [i \in 1 .. n |-> Char("x")] \o <<LF, LF>>

Member(name, size, data) ==
    <<MemberHead(name, size), Fmag>> \o data
    \o (IF Len(data) % 2 = 1 THEN <<Pad>> ELSE <<>>)
File(name, size) == Member(name, size, Content(name, size))

Answer(status, header, body, carries, protected) ==
    [status |-> status, header |-> header, body |-> body, carries |-> carries,
     protected |-> protected]

Clear == <<Magic>> \o File("chaosvpn-version", 1) \o File("other", 1) \o File("cleartext", 2)
Sealed(rsa, encrypted) ==
    <<Magic>> \o File("chaosvpn-version", 1) \o Member("rsa", 2, rsa)
    \o Member("encrypted", 3, encrypted) \o File("signature", 1)
Junk == [i \in 1 .. 3 |-> Byte("junk", i)]
Secret == uncompress_inflate(Content("encrypted", 3))

MCResponses ==
    { Answer("200", CRLFHeader, Clear, Content("cleartext", 2), FALSE),
      Answer("200", LFHeader, Sealed(RsaBlock, Content("encrypted", 3)), Secret, TRUE),
      Answer("200", CRLFHeader, Sealed(RsaBlock, Junk), Secret, TRUE),
      Answer("200", LFHeader, Sealed(RsaBlock, Reverse(Junk)), Secret, TRUE),
      Answer("200", LFHeader, Sealed(SubSeq(Junk, 1, 2), Content("encrypted", 3)), Secret, TRUE),
      Answer("200", CRLFHeader, <<Magic>> \o File("cleartext", 2), Content("cleartext", 2),
             FALSE),
      Answer("200", CRLFHeader, <<Magic>> \o Member("chaosvpn-version", BadSize, <<>>),
             <<>>, FALSE),
      Answer("200", LFHeader, <<Magic>> \o Member(ZeroName, 1, Version3)
                 \o File("rsa", 2) \o File("cleartext", 2), Version3, FALSE),
      Answer("200", LFHeader, Content("cleartext", 3), Content("cleartext", 3), FALSE),
      Answer("200", WideHeader(BufSize - 2), Content("cleartext", 3), Content("cleartext", 3), FALSE),
      Answer("200", WideHeader(BufSize - 1), Content("cleartext", 3), Content("cleartext", 3), FALSE),
      Answer("200", WideHeader(BufSize), Content("cleartext", 3), Content("cleartext", 3), FALSE),
      Answer("304", CRLFHeader, <<>>, <<>>, FALSE),
      Answer("404", LFHeader, Junk, <<>>, FALSE),
      Answer("x", CRLFHeader, Clear, Content("cleartext", 2), FALSE) }

MCUrls ==
    [http : BOOLEAN, rest : UNION {[1 .. n -> {"c", ":", "/", "digit"}] : n \in 0 .. 4}]
=============================================================================
