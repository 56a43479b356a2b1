-------------------------------- MODULE Download --------------------------------
(***************************************************************************)
(* One run of main_request_config: the URL is taken apart, a connection is *)
(* made, the answer is received in pieces of any size (http_get, httprecv),*)
(* and the archive it carries is unpacked and verified (ar_extract).       *)
(*                                                                         *)
(* The answer is a sequence of cells.  In its header a cell is CR, LF or   *)
(* any other character; the contents of the first line are one cell that   *)
(* stands for its status.  In the body a cell is a piece of an archive: its*)
(* magic, the two halves of a member's header, a byte of a member, or a    *)
(* padding byte.  Sizes of members are counted in cells.                   *)
(*                                                                         *)
(* The server may close the connection, or the connection may break or     *)
(* time out, after any cell.                                               *)
(***************************************************************************)
EXTENDS Integers, Sequences, FiniteSetsExt, SequencesExt

CONSTANTS
    Responses,    \* what the server may answer: status, header, body, and the
                  \* configuration it carries, protected by a signature or not
    Urls,         \* the URL: does it begin with http://, and the cells behind that
    BufSize,      \* BUFSIZE: room in the receive buffer
    MaxAddresses  \* bound: addresses of the server

ASSUME DownloadAssumption == BufSize \in Nat \ {0} /\ MaxAddresses \in Nat

\* A cell: what it is, and for a member's header or byte whose and how long or which.
Char(kind)       == [kind |-> kind, name |-> "none", num |-> 0]
MemberHead(name, size) == [kind |-> "member", name |-> name, num |-> size]
Byte(member, i)  == [kind |-> "byte", name |-> member, num |-> i]

CR == Char("cr")
LF == Char("lf")
Ends == {CR, LF}

Magic  == Char("magic")
Fmag   == Char("fmag")
Pad    == Char("pad")
BadSize  == -1           \* a length field with zero bytes, a sign or no number
ZeroName == "zeroes"     \* a name field that contains zero bytes
HdrCells == 2

Kinds == {"cr", "lf", "x", "200", "304", "404", "magic", "member", "fmag", "byte", "pad", "text"}
Names == {"none", "chaosvpn-version", "cleartext", "rsa", "encrypted", "signature", "other",
          "junk", ZeroName}
Cell  == [kind : Kinds, name : Names, num : Nat \cup {BadSize}]

\* An answer as it is sent, and where its header ends: at the first line that is empty.
Cells(r) == <<Char(r.status)>> \o r.header \o r.body
HeaderLength(r) == Len(r.header) + 1
LineStarts(r) == {i \in 2 .. HeaderLength(r) : Cells(r)[i - 1] = LF}
BlankLine(r) == Min({i \in LineStarts(r) : Cells(r)[i] \in Ends})

\* The header is lines and an empty line.  The body does not begin with a line end:
\* behind an empty line of one LF it would be taken for a part of that line.
Framed(r) ==
    /\ {r.header, r.body} \subseteq Seq(Cell) /\ Char(r.status) \in Cell \ Ends
    /\ \E i \in LineStarts(r) : Cells(r)[i] \in Ends
    /\ SubSeq(Cells(r), BlankLine(r), HeaderLength(r)) \in {<<LF>>, <<CR, LF>>}
    /\ r.body = <<>> \/ r.body[1] \notin Ends

ASSUME ResponsesAssumption == \A r \in Responses : Framed(r)

ASSUME UrlsAssumption == \A u \in Urls : u.http \in BOOLEAN /\ u.rest \in Seq(Range(u.rest))

VARIABLES
    pc,
    url, host, port, path,   \* the URL and its parts
    left,         \* addresses that connect() has not tried yet
    response,     \* what the server answers
    cut, ending,  \* how many cells of it arrive, and whether "close" or "error" follows
    got,          \* cells received so far
    b,            \* receive buffer; bptr is its length
    isfirsthdr, httpres,
    archive,      \* what http_get returns in buffer
    retval,       \* its return value
    signed,       \* config->masterdata_signkey is set
    http_response, result    \* what main_request_config returns

urlVars == <<url, host, port, path, left>>
netVars == <<response, cut, ending>>
vars == <<pc, url, host, port, path, left, response, cut, ending, got, b, isfirsthdr,
          httpres, archive, retval, signed, http_response, result>>

\* httpres is an uninitialized variable of main_request_config.
Init ==
    /\ pc = "url" /\ url \in Urls
    /\ host = <<>> /\ port = <<>> /\ path = <<>> /\ left = 0
    /\ response = [status |-> "none", header |-> <<>>, body |-> <<>>, carries |-> <<>>,
                   protected |-> FALSE]
    /\ cut = 0 /\ ending = "close"
    /\ got = 0 /\ b = <<>> /\ isfirsthdr = TRUE /\ httpres \in {"200", "304"}
    /\ archive = <<>> /\ retval = "EOK" /\ signed \in BOOLEAN
    /\ http_response = <<>> /\ result = -1

-----------------------------------------------------------------------------
(* http_parseurl and http_get up to the request.                             *)

\* What a port consists of.
PortDigit_Any(c) == c # ":"   \* mutant: letters too

PortDigit(c) == c = "digit"

\* The loop of http_parseurl, at cell i: urlpart and what was found so far.  The loop is
\* left at the end of the path, which is taken in one piece, and at an error.
UrlCell(u, i, s) ==
    CASE s.urlpart = "host" /\ u[i] \in {":", "/"} ->
            [s EXCEPT !.urlpart = IF s.host = <<>> THEN "error"
                                  ELSE IF u[i] = ":" THEN "port" ELSE "path"]
      [] s.urlpart = "host" /\ u[i] \notin {":", "/"} -> [s EXCEPT !.host = Append(@, u[i])]
      [] s.urlpart = "port" /\ u[i] = "/" -> [s EXCEPT !.urlpart = "path"]
      [] s.urlpart = "port" /\ u[i] # "/" ->
            IF PortDigit(u[i]) THEN [s EXCEPT !.port = Append(@, u[i])]
            ELSE [s EXCEPT !.urlpart = "error"]
      [] s.urlpart = "path" -> [s EXCEPT !.urlpart = "end", !.path = @ \o SubSeq(u, i, Len(u))]
      [] s.urlpart \in {"end", "error"} -> s

UrlStart == [urlpart |-> "host", host |-> <<>>, port |-> <<>>, path |-> <<"/">>]

UrlLoop(u) ==
    LET scan[i \in 0 .. Len(u)] == IF i = 0 THEN UrlStart ELSE UrlCell(u, i, scan[i - 1])
        last == scan[Len(u)]
    IN  [error |-> IF last.urlpart = "error" THEN "EINVURL" ELSE "EOK",
         host |-> last.host, port |-> last.port, path |-> last.path]

http_parseurl(u) ==
    IF u.http THEN UrlLoop(u.rest)
    ELSE [error |-> "EINVURL", host |-> <<>>, port |-> <<>>, path |-> <<>>]

\* An invalid URL ends the program; an empty port stands for 80.
ParseUrl ==
    /\ pc = "url"
    /\ LET parts == http_parseurl(url) IN
       /\ host' = parts.host /\ port' = parts.port /\ path' = parts.path
       /\ retval' = parts.error
       /\ pc' = IF parts.error = "EOK" THEN "resolve" ELSE "exited"
    /\ UNCHANGED <<url, left, netVars, got, b, isfirsthdr, httpres, archive, signed,
                   http_response, result>>

\* getaddrinfo: some addresses, or an error.
Resolve ==
    /\ pc = "resolve"
    /\ left' \in 0 .. MaxAddresses
    /\ IF left' = 0 THEN pc' = "unpack" /\ retval' = "ENETERR"
                    ELSE pc' = "connect" /\ UNCHANGED retval
    /\ UNCHANGED <<url, host, port, path, netVars, got, b, isfirsthdr, httpres, archive,
                   signed, http_response, result>>

\* No socket, or connect() fails: the next address, if there is one.
ConnectFails ==
    /\ pc = "connect" /\ left' = left - 1
    /\ IF left' = 0 THEN pc' = "unpack" /\ retval' = "ENETERR"
                    ELSE UNCHANGED <<pc, retval>>
    /\ UNCHANGED <<url, host, port, path, netVars, got, b, isfirsthdr, httpres, archive,
                   signed, http_response, result>>

SendFails ==
    /\ pc = "connect" /\ pc' = "unpack" /\ retval' = "ENETERR"
    /\ UNCHANGED <<urlVars, netVars, got, b, isfirsthdr, httpres, archive,
                   signed, http_response, result>>

\* The request is sent.  What the server will do about it is decided here, and the
\* parts of the URL are not looked at any more.
Send ==
    /\ pc = "connect" /\ pc' = "header"
    /\ response' \in Responses
    /\ cut' \in 0 .. Len(Cells(response')) /\ ending' \in {"close", "error"}
    /\ url' = [http |-> TRUE, rest |-> <<>>] /\ host' = <<>> /\ port' = <<>> /\ path' = <<>> /\ left' = 0
    /\ UNCHANGED <<got, b, isfirsthdr, httpres, archive, retval, signed, http_response, result>>

-----------------------------------------------------------------------------
(* httprecv.                                                                 *)

\* The next n cells of the answer.
Arriving(n) == SubSeq(Cells(response), got + 1, got + n)

\* handle_header of the first line, which is given without its line end.
handle_header(line) ==
    IF Len(line) = 1 /\ line[1].kind \in {"200", "304", "404"} THEN line[1].kind ELSE "bad"

\* bail_out with an error.
Fail(error) ==
    /\ retval' = error /\ pc' = "unpack"
    /\ UNCHANGED <<isfirsthdr, httpres, archive>>

\* Mutant: every line end has two characters.
LineEnd_Two(buf) == IF Len(buf) > 2 /\ buf[1] \in Ends THEN 2 ELSE 0

\* The cells of the blank line; they are removed only if something follows.
LineEnd(buf) ==
    IF Len(buf) > 2 /\ buf[1] \in Ends
    THEN IF buf[2] \in Ends THEN 2 ELSE 1
    ELSE 0

\* The label finished.
Finished(buf) ==
    IF isfirsthdr
    THEN b' = buf /\ Fail("ESRVERR")
    ELSE /\ b' = <<>> /\ archive' = SubSeq(buf, LineEnd(buf) + 1, Len(buf))
         /\ pc' = "body" /\ UNCHANGED <<isfirsthdr, httpres, retval>>

\* The rest of the loop's body, with what is in the buffer after recv().  One line at
\* most is taken from it.
TakeLine(buf) ==
    LET ends == {i \in DOMAIN buf : buf[i] = LF}
        end  == Min(ends)
        line == SubSeq(buf, 1, IF buf[end - 1] = CR THEN end - 2 ELSE end - 1)
    IN  CASE buf[1] \in Ends -> Finished(buf)
          [] buf[1] \notin Ends /\ ends = {} ->
                b' = buf /\ UNCHANGED <<isfirsthdr, httpres, archive, retval, pc>>
          [] buf[1] \notin Ends /\ ends # {} /\ end = Len(buf) ->
                b' = buf /\ Fail("ESRVERR")
          [] buf[1] \notin Ends /\ ends # {} /\ end < Len(buf) ->
                /\ b' = SubSeq(buf, end + 1, Len(buf))
                /\ IF ~ isfirsthdr THEN UNCHANGED <<isfirsthdr, httpres, archive, retval, pc>>
                   ELSE IF handle_header(line) = "bad" THEN Fail("ESRVERR")
                   ELSE /\ httpres' = handle_header(line) /\ isfirsthdr' = FALSE
                        /\ UNCHANGED <<archive, retval, pc>>

recvUnchanged == UNCHANGED <<urlVars, netVars, signed, http_response, result>>

RecvHeader ==
    /\ pc = "header"
    /\ \E n \in 1 .. Min({cut - got, BufSize - Len(b)}) :
          got' = got + n /\ TakeLine(b \o Arriving(n))
    /\ recvUnchanged

\* Mutant: what is in the buffer when the server closes is not looked at.
RecvNothing_OnlyEmpty ==
    /\ pc = "header" /\ UNCHANGED got
    /\ got = cut /\ ending = "close" /\ b = <<>>
    /\ Finished(b) /\ recvUnchanged

\* recv() returns 0: the server has closed, or the buffer has no room.
RecvNothing ==
    /\ pc = "header" /\ UNCHANGED got
    /\ (got = cut /\ ending = "close") \/ Len(b) = BufSize
    /\ IF b = <<>> THEN Finished(b) ELSE TakeLine(b)
    /\ recvUnchanged

\* recv() fails, or its timeout of GENERIC_SOCKET_TIMEOUT seconds has passed.
RecvFails ==
    /\ pc \in {"header", "body"} /\ got = cut /\ ending = "error"
    /\ pc = "header" => Len(b) < BufSize
    /\ Fail("ENETERR") /\ UNCHANGED <<got, b>> /\ recvUnchanged

RecvBody ==
    /\ pc = "body"
    /\ \E n \in 1 .. Min({cut - got, BufSize}) :
          got' = got + n /\ archive' = archive \o Arriving(n)
    /\ UNCHANGED <<pc, b, isfirsthdr, httpres, retval>> /\ recvUnchanged

RecvEnd ==
    /\ pc = "body" /\ got = cut /\ ending = "close" /\ pc' = "unpack"
    /\ retval' = IF httpres = "200" THEN "EOK" ELSE "ESRVERR"
    /\ UNCHANGED <<got, b, isfirsthdr, httpres, archive>> /\ recvUnchanged

-----------------------------------------------------------------------------
(* ar.c.                                                                     *)

ar_is_ar_file(a) == Len(a) > 0 /\ a[1] = Magic

\* A name field that contains zero bytes equals every name: its error value -1 is
\* returned as a bool.
ar_compare_name(name, searched) == name \in {searched, ZeroName}

\* Mutant and original: what a member takes up in the archive.
Padded_Not(size) == size

Padded(size) == size + (size % 2)

\* Mutant: the length in the header is believed.
ar_extract_Unchecked(a, membername) ==
    LET heads == {i \in DOMAIN a : a[i].kind = "member" /\ ar_compare_name(a[i].name, membername)}
        first == Min(heads)
        end   == Min({first + 1 + a[first].num, Len(a)})
    IN  [ok |-> ar_is_ar_file(a), data |-> IF heads = {} THEN <<>> ELSE SubSeq(a, first + 2, end)]

Failed == [ok |-> FALSE, data |-> <<>>]

\* The loop of ar_extract, at the member whose header follows pos.  It also succeeds,
\* with nothing, when it reaches the end of the archive.
ar_member(a, membername, find, pos) ==
    LET rest   == Len(a) - pos - HdrCells
        size   == a[pos + 1].num
        padded == Padded(size)
    IN  CASE rest < 0 -> Failed
          [] rest >= 0 /\ (a[pos + 2] # Fmag \/ size = BadSize \/ padded > rest) -> Failed
          [] OTHER ->
                IF ar_compare_name(a[pos + 1].name, membername)
                THEN [ok |-> TRUE, data |-> SubSeq(a, pos + HdrCells + 1, pos + HdrCells + size)]
                ELSE IF padded = rest THEN [ok |-> TRUE, data |-> <<>>]
                ELSE find[pos + HdrCells + padded]

\* ar_extract: whether it succeeds, and the result.
ar_extract(a, membername) ==
    LET find[pos \in 0 .. Len(a)] == ar_member(a, membername, find, pos)
    IN  IF ar_is_ar_file(a) THEN find[1] ELSE Failed

-----------------------------------------------------------------------------
(* main_request_config after http_get.                                       *)

\* The contents of a member as the server published them.
Content(member, size) == [i \in 1 .. size |-> Byte(member, i)]
Version3  == Content("chaosvpn-version", 1)
RsaBlock  == Content("rsa", 2)
Signature == Content("signature", 1)

\* What the server does not sign contains no signature, and what an archive carries is
\* its cleartext, if it has one.
Published(r) ==
    /\ r.protected \/ \A i \in DOMAIN Cells(r) : Cells(r)[i] # Byte("signature", 1)
    /\ ar_is_ar_file(r.body) => ar_extract(r.body, "cleartext").data \in {r.carries, <<>>}

ASSUME PublishedAssumption == \A r \in Responses : Published(r)

\* OpenSSL and zlib: external.  A key block is decrypted only if it is whole; data that
\* is there may be decrypted to something; a compressed stream is known by its first
\* byte; a signature fits only what was signed.
crypto_rsa_decrypt(data) == Len(data) = Len(RsaBlock)
crypto_aes_decrypt(data) == data # <<>>
uncompress_inflate(data) == [i \in DOMAIN data |-> [data[i] EXCEPT !.kind = "text"]]
Compressed(data) == data # <<>> /\ data[1].num = 1

\* The lengths that a decrypted key block begins with are those of a key and of an iv,
\* and both are there.
KeyLengths(data) == data = RsaBlock

\* Mutant: only an error of EVP_VerifyFinal counts, not its verdict.
crypto_rsa_verify_signature_NoError(data, signature) == signature = Signature

crypto_rsa_verify_signature(data, signature) ==
    signature = Signature /\ data = response.carries

\* What the part of main_request_config behind http_get returns.
Unpacked ==
    LET version   == ar_extract(archive, "chaosvpn-version")
        cleartext == ar_extract(archive, "cleartext")
        rsa       == ar_extract(archive, "rsa")
        encrypted == ar_extract(archive, "encrypted")
        signature == ar_extract(archive, "signature")
        returns(value, data) == [result |-> value, data |-> data]
    IN  CASE ~ ar_is_ar_file(archive) ->
                IF signed THEN returns(-1, <<>>) ELSE returns(1, archive)
          [] ar_is_ar_file(archive) /\ (~ version.ok \/ version.data # Version3) ->
                returns(-1, <<>>)
          [] ar_is_ar_file(archive) /\ version.ok /\ version.data = Version3 /\ ~ signed ->
                IF cleartext.ok THEN returns(1, cleartext.data) ELSE returns(-1, <<>>)
          [] OTHER ->
                IF \/ ~ rsa.ok \/ ~ crypto_rsa_decrypt(rsa.data) \/ ~ KeyLengths(rsa.data)
                   \/ ~ encrypted.ok \/ ~ crypto_aes_decrypt(encrypted.data)
                   \/ ~ Compressed(encrypted.data)
                THEN returns(-1, <<>>)
                ELSE IF ~ signature.ok \/ ~ crypto_aes_decrypt(signature.data)
                THEN returns(-1, uncompress_inflate(encrypted.data))
                ELSE IF crypto_rsa_verify_signature(uncompress_inflate(encrypted.data), signature.data)
                THEN returns(1, uncompress_inflate(encrypted.data))
                ELSE returns(-1, uncompress_inflate(encrypted.data))

main_request_config ==
    /\ pc = "unpack" /\ pc' = "done"
    /\ IF retval = "EOK"
       THEN result' = Unpacked.result /\ http_response' = Unpacked.data
       ELSE /\ result' = IF retval = "ESRVERR" /\ httpres = "304" THEN 0 ELSE -1
            /\ UNCHANGED http_response
    /\ UNCHANGED <<urlVars, netVars, got, b, isfirsthdr, httpres, archive, retval, signed>>

Next ==
    \/ ParseUrl \/ Resolve \/ ConnectFails \/ SendFails \/ Send
    \/ RecvHeader \/ RecvNothing \/ RecvFails \/ RecvBody \/ RecvEnd
    \/ main_request_config

\* The process runs, and recv() returns: with data, at the end, or by its timeout.
Spec == Init /\ [][Next]_vars /\ WF_vars(Next)

-----------------------------------------------------------------------------
(* Properties.                                                               *)

TypeOK ==
    /\ pc \in {"url", "exited", "resolve", "connect", "header", "body", "unpack", "done"}
    /\ left \in 0 .. MaxAddresses /\ cut \in 0 .. Len(Cells(response)) /\ got \in 0 .. cut
    /\ Len(b) <= BufSize /\ isfirsthdr \in BOOLEAN /\ httpres \in {"200", "304", "404"}
    /\ retval \in {"EOK", "EINVURL", "ENETERR", "ESRVERR"} /\ result \in {-1, 0, 1}

\* The first position of a cell in a sequence, one past its end if there is none.
PositionOf(cell, seq) == Min({i \in DOMAIN seq : seq[i] = cell} \cup {Len(seq) + 1})

\* http_parseurl splits host:port/path at the first slash and the first colon before
\* it, and accepts exactly the URLs of http:// with a host and a numeric port; of the
\* URLs without a host it accepts the one with nothing behind http://.
UrlTakenApart ==
    pc \in {"resolve", "exited"} =>
        LET rest == url.rest
            slash == PositionOf("/", rest)
            authority == SubSeq(rest, 1, slash - 1)
            colon == PositionOf(":", authority)
            number == SubSeq(authority, colon + 1, Len(authority))
            valid == (colon > 1 \/ rest = <<>>) /\ Range(number) \subseteq {"digit"}
        IN  /\ pc = "resolve" <=> url.http /\ valid
            /\ pc = "resolve" => /\ host = SubSeq(authority, 1, colon - 1) /\ port = number
                                 /\ path = <<"/">> \o SubSeq(rest, slash + 1, Len(rest))

\* What is left of the body when the connection ends after cut cells.
ReceivedBody == SubSeq(response.body, 1, cut - HeaderLength(response))

\* However the answer was split into pieces, what http_get returns as the body is the
\* body up to the end of the connection, possibly behind the line end of the blank line.
BodyIntact ==
    pc \in {"unpack", "done"} /\ retval = "EOK" =>
        \E lead \in {<<>>, <<CR>>, <<LF>>, <<CR, LF>>} : archive = lead \o ReceivedBody

\* With a signkey nothing is accepted that the server has not signed, whatever part of
\* the archive is missing or damaged.
SignedIsGenuine ==
    result = 1 /\ signed => http_response = response.carries /\ response.protected

\* Without a signkey an archive that arrives in part is accepted with all of its
\* cleartext or with none of it, never with a part.
ArchiveNeverPartial ==
    result = 1 /\ ~ signed /\ ar_is_ar_file(archive)
        => http_response \in {response.carries, <<>>}

\* The positions behind which the members of an archive begin, where the one behind p
\* ends, with the padding that makes its size even, and what it contains.
Members(a) == {p \in 1 .. Len(a) - 1 : a[p + 1].kind = "member"}
MemberEnd(a, p) == p + HdrCells + 2 * ((a[p + 1].num + 1) \div 2)
Contents(a, p) == SubSeq(a, p + HdrCells + 1, p + HdrCells + a[p + 1].num)

\* An archive of members with different names, one behind the other.
LaidOut(a) ==
    /\ ar_is_ar_file(a) /\ 1 \in Members(a)
    /\ \A p \in Members(a) :
          /\ p + HdrCells <= Len(a) /\ a[p + 2] = Fmag
          /\ a[p + 1].num # BadSize /\ a[p + 1].name # ZeroName
          /\ MemberEnd(a, p) = Len(a) \/ MemberEnd(a, p) \in Members(a)
    /\ \A p, q \in Members(a) :
          p < q => MemberEnd(a, p) <= q /\ a[p + 1].name # a[q + 1].name

Named(a, name) == {Contents(a, p) : p \in {q \in Members(a) : a[q + 1].name = name}}

\* What the server is meant to answer: the configuration itself, an archive with the
\* configuration in the clear, or one with a key, what it encrypts and a signature.
Wellformed(r) ==
    \/ ~ ar_is_ar_file(r.body) /\ ~ r.protected /\ r.carries = r.body
    \/ /\ LaidOut(r.body) /\ Version3 \in Named(r.body, "chaosvpn-version")
       /\ IF r.protected
          THEN /\ RsaBlock \in Named(r.body, "rsa") /\ Signature \in Named(r.body, "signature")
               /\ \E c \in Named(r.body, "encrypted") : Compressed(c) /\ uncompress_inflate(c) = r.carries
          ELSE r.carries \in Named(r.body, "cleartext")

\* A configuration that has arrived completely is accepted, whatever other members its
\* archive has and wherever in it they are (ar_extract, main_request_config).
GoodDownloadAccepted ==
    /\ pc = "done" /\ retval = "EOK" /\ archive = response.body
    /\ Wellformed(response) /\ response.protected = signed
    => result = 1 /\ http_response = response.carries

\* The connection is closed in the middle of a line of the header.
CutShort ==
    /\ ending = "close" /\ 0 < cut /\ cut < BlankLine(response)
    /\ Cells(response)[cut] # LF

\* The buffer is full of one line of the header, and its end is not in it.
Overlong ==
    \E i \in {1} \cup LineStarts(response) :
        /\ i < BlankLine(response) /\ i + BufSize - 1 <= cut
        /\ \A k \in i .. i + BufSize - 1 : Cells(response)[k] # LF

\* http_get comes to an end, with whatever result, however the answer is split into
\* pieces.  In two cases httprecv calls recv() again and again: when the connection is
\* closed in the middle of a header line, and when such a line does not fit the buffer.
GetEnds == (pc = "header" /\ ~ CutShort /\ ~ Overlong) ~> (pc = "done")

=============================================================================
