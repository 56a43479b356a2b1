------------------------------ MODULE LogPumpProofs ------------------------------
(***************************************************************************)
(* Proofs about the way of tincd's messages to the log, for all sizes of   *)
(* the buffers and any number of lines, crashes and restarts: type         *)
(* correctness (no buffer overflows), that nothing the first tincd writes  *)
(* is lost on the way, and that the log is always in order.                *)
(***************************************************************************)
EXTENDS LogPump, SequenceTheorems, WellFoundedInduction, TLAPS

-----------------------------------------------------------------------------
(* Least numbers; sequences that are cut and joined.                         *)

\* A non-empty set of natural numbers has a least element, which Min picks.
LEMMA MinNat ==
    ASSUME NEW S \in SUBSET Nat, S # {}
    PROVE  Min(S) \in S /\ \A y \in S : Min(S) <= y
<1>1. PICK x \in S : \A y \in S : ~(<<y, x>> \in OpToRel(<, Nat))
  BY WFMin, NatLessThanWellFounded
<1>2. OpToRel(<, Nat) = {ss \in Nat \X Nat : ss[1] < ss[2]}
  BY DEF OpToRel
<1>3. ASSUME NEW y \in S PROVE x <= y
  <2>1. y < x => <<y, x>> \in {ss \in Nat \X Nat : ss[1] < ss[2]}
    OBVIOUS
  <2>2. ~(y < x)
    BY <1>1, <1>2, <2>1
  <2> QED
    BY <2>2
<1> QED
  BY <1>3 DEF Min

\* A sequence cut in two: the parts, and that they make up the whole.
LEMMA CutInTwo ==
    ASSUME NEW S, NEW s \in Seq(S), NEW k \in 0..Len(s)
    PROVE  /\ SubSeq(s, 1, k) \in Seq(S) /\ Len(SubSeq(s, 1, k)) = k
           /\ SubSeq(s, k + 1, Len(s)) \in Seq(S)
           /\ Len(SubSeq(s, k + 1, Len(s))) = Len(s) - k
           /\ SubSeq(s, 1, k) \o SubSeq(s, k + 1, Len(s)) = s
<1>1. Len(s) \in Nat /\ \A i \in 1..Len(s) : s[i] \in S
  BY ElementOfSeq, LenProperties
<1>2. SubSeq(s, 1, k) \in Seq(S) /\ Len(SubSeq(s, 1, k)) = k
  BY <1>1, SubSeqProperties
<1>3. SubSeq(s, k + 1, Len(s)) \in Seq(S) /\ Len(SubSeq(s, k + 1, Len(s))) = Len(s) - k
  <2>1. \A i \in (k + 1)..Len(s) : s[i] \in S
    BY <1>1
  <2> QED
    BY <1>1, <2>1, SubSeqProperties
<1>4. SubSeq(s, 1, k) \o SubSeq(s, k + 1, Len(s)) = SubSeq(s, 1, Len(s))
  <2>1. 1 \in 1..(Len(s) + 1) /\ k \in (1 - 1)..Len(s) /\ Len(s) \in k..Len(s)
    BY <1>1
  <2> QED
    BY <2>1, ConcatAdjacentSubSeq
<1> QED
  BY <1>2, <1>3, <1>4, SubSeqFull

\* Appending is associative, in the form the provers can instantiate.
LEMMA AppendAssociative ==
    ASSUME NEW S
    PROVE  \A a, b, c \in Seq(S) : (a \o b) \o c = a \o (b \o c)
<1> TAKE a \in Seq(S), b \in Seq(S), c \in Seq(S)
<1> QED
  BY ConcatAssociative

\* A concatenation, element by element.
LEMMA AppendElements ==
    ASSUME NEW S, NEW a \in Seq(S), NEW b \in Seq(S)
    PROVE  /\ a \o b \in Seq(S) /\ Len(a \o b) = Len(a) + Len(b)
           /\ Len(a) \in Nat /\ Len(b) \in Nat
           /\ DOMAIN a = 1..Len(a) /\ DOMAIN b = 1..Len(b)
           /\ DOMAIN (a \o b) = 1..(Len(a) + Len(b))
           /\ \A i \in 1..(Len(a) + Len(b)) :
                 (a \o b)[i] = IF i <= Len(a) THEN a[i] ELSE b[i - Len(a)]
<1>1. a \o b \in Seq(S) /\ Len(a \o b) = Len(a) + Len(b)
  BY ConcatProperties
<1>2. /\ Len(a) \in Nat /\ Len(b) \in Nat
      /\ DOMAIN a = 1..Len(a) /\ DOMAIN b = 1..Len(b)
  BY LenProperties
<1>3. DOMAIN (a \o b) = 1..Len(a \o b)
  BY <1>1, LenProperties
<1> QED
  BY <1>1, <1>2, <1>3, ConcatProperties

-----------------------------------------------------------------------------
(* Types.                                                                    *)

\* How many tincd have died, and whether daemon_stop is about to kill one more.
Deaths == IF tincd = "dead" THEN gen ELSE gen - 1
Owed   == IF pc = "stopping" /\ victim = gen /\ tincd = "running" THEN 1 ELSE 0

\* Every death is a crash or the effect of one RESTART, which kills at most the
\* tincd that was running when it was read.
CountInv ==
    /\ Deaths + Owed <= crashes + done /\ victim <= gen
    /\ pc = "command" /\ "command" \in fdset => done < sent

TypeInv == TypeOK /\ CountInv

\* What tincd writes next is a sequence of characters of its own.
LEMMA NumberedType ==
    ASSUME TypeOK, NEW k \in Nat, NEW nl \in BOOLEAN
    PROVE  Numbered(k, nl) \in Seq(Chars) /\ Len(Numbered(k, nl)) = k
<1>1. Numbered(k, nl) \in [1..k -> Chars]
  BY LenProperties DEF Numbered, Chars, TypeOK
<1> QED
  BY <1>1, SeqDef

\* fgets copies at least one character, never more than the stream holds, and
\* leaves room for the terminating NUL.
LEMMA TakenProperties ==
    ASSUME TypeOK, Stream # <<>>, Len(buf) < Line
    PROVE  Stream \in Seq(Chars) /\ Taken \in 1..Len(Stream) /\ Len(buf) + Taken <= Line
<1>1. Stream \in Seq(Chars)
  BY DEF TypeOK, Stream
<1>2. Len(Stream) \in Nat \ {0} /\ DOMAIN Stream = 1..Len(Stream)
  BY <1>1, EmptySeq, LenProperties
<1>3. Line \in Int /\ Len(buf) \in Nat
  BY LogPumpAssumption DEF Line, TypeOK
<1> DEFINE ends == {i \in DOMAIN Stream : Stream[i].nl}
           S == {Len(Stream), Line - Len(buf)} \cup ends
<1>4. S \in SUBSET (Nat \ {0})
  BY <1>2, <1>3
<1>5. Taken = Min(S)
  BY DEF Taken
<1>6. Len(Stream) \in S /\ Line - Len(buf) \in S
  OBVIOUS
<1> HIDE DEF S
<1>7. Min(S) \in S /\ \A y \in S : Min(S) <= y
  BY <1>4, <1>6, MinNat
<1>8. Taken \in Nat \ {0} /\ Taken <= Len(Stream) /\ Taken <= Line - Len(buf)
  BY <1>4, <1>5, <1>6, <1>7
<1> QED
  BY <1>1, <1>2, <1>3, <1>8

\* The state after the first START has the right types.
LEMMA InitType == Init => TypeInv
<1> SUFFICES ASSUME Init PROVE TypeInv
  OBVIOUS
<1>1. <<>> \in Seq(Chars) /\ Len(<<>>) = 0
  BY EmptySeq
<1>2. TypeOK
  <2>1. Line \in Nat /\ 1 \in 1..MaxTincds /\ 0 \in 0..MaxTincds
    BY LogPumpAssumption DEF Line, MaxTincds
  <2>2. {said, log} \subseteq Seq(Chars) /\ {stdio, orphan} \subseteq Seq(Chars)
    BY <1>1 DEF Init
  <2>3. Len(pipe) = 0 /\ Len(stdio) = 0 /\ Len(buf) = 0
    BY <1>1 DEF Init
  <2>4. stale \in BOOLEAN
    BY Zenon DEF Init
  <2>5. /\ tincd = "running" /\ gen = 1 /\ crashes = 0 /\ pipe = <<>> /\ buf = <<>>
        /\ pc = "select" /\ fdset = {} /\ victim = 0 /\ sent = 0 /\ done = 0
    BY DEF Init
  <2> QED
    BY <1>1, <2>1, <2>2, <2>3, <2>4, <2>5, LogPumpAssumption DEF TypeOK
<1>3. CountInv
  BY LogPumpAssumption DEF Init, CountInv, Deaths, Owed
<1> QED
  BY <1>2, <1>3 DEF TypeInv

\* Every step keeps the types; fgets stays within its buffers.
LEMMA NextType == ASSUME TypeInv, [Next]_vars PROVE TypeInv'
<1> USE LogPumpAssumption DEF TypeInv, TypeOK, MaxTincds, tincdVars, loopVars
<1>c. Line \in Nat
  BY DEF Line
<1>w. ASSUME NEW k \in Nat, NEW nl \in BOOLEAN, Write(Numbered(k, nl)) PROVE TypeInv'
  <2>1. Numbered(k, nl) \in Seq(Chars) /\ Len(Numbered(k, nl)) = k
    BY NumberedType
  <2>2. pipe' \in Seq(Chars) /\ said' \in Seq(Chars) /\ Len(pipe') <= PipeSize
    BY <1>w, <2>1, ConcatProperties DEF Write
  <2>3. UNCHANGED <<tincd, gen, crashes, stdio, orphan, buf, log, pc, stale, loopVars>>
    BY <1>w DEF Write
  <2> QED
    BY <2>2, <2>3 DEF CountInv, Deaths, Owed
<1>1. CASE TincdWrites
  <2>1. PICK k \in 1..MaxLine : Write(Numbered(k, FALSE))
    BY <1>1 DEF TincdWrites
  <2>2. k \in Nat
    BY <2>1
  <2> QED
    BY <1>w, <2>1, <2>2
<1>2. CASE TincdEndsLine
  BY <1>2, <1>w DEF TincdEndsLine
<1>3. CASE TincdDies
  BY <1>3 DEF TincdDies, CountInv, Deaths, Owed
<1>4. CASE sigchild
  <2>1. <<>> \in Seq(Chars) /\ Len(<<>>) = 0
    BY EmptySeq
  <2>2. orphan' \in Seq(Chars)
    BY <1>4 DEF sigchild
  <2>0. gen <= crashes + done
    BY <1>4 DEF sigchild, CountInv, Deaths, Owed
  <2>3. gen + 1 \in 1..MaxTincds /\ CountInv'
    <3>1. gen + 1 \in 1..MaxTincds
      BY <2>0
    <3>2. Deaths' = gen /\ Owed' = 0
      BY <1>4 DEF sigchild, CountInv, Deaths, Owed
    <3> QED
      BY <1>4, <2>0, <3>1, <3>2 DEF sigchild, CountInv
  <2>4. stale' \in BOOLEAN
    BY <1>4, Zenon DEF sigchild
  <2> QED
    BY <1>4, <2>1, <2>2, <2>3, <2>4 DEF sigchild
<1>5. CASE SendRestart
  BY <1>5 DEF SendRestart, CountInv, Deaths, Owed
<1>6. CASE Select
  BY <1>6 DEF Select, Readable, CountInv, Deaths, Owed
<1>7. CASE Command
  <2>1. CASE "command" \in fdset
    <3>1. /\ pc' = "stopping" /\ done' = done + 1 /\ victim' = gen /\ done < sent
          /\ UNCHANGED <<tincdVars, pipe, stdio, orphan, buf, log, stale, fdset, sent>>
      BY <1>7, <2>1 DEF Command, CountInv
    <3>2. Deaths <= crashes + done
      BY <1>7 DEF Command, CountInv, Deaths, Owed
    <3>3. CountInv'
      <4>1. CASE tincd = "dead"
        BY <3>1, <3>2, <4>1 DEF CountInv, Deaths, Owed
      <4>2. CASE tincd = "running"
        BY <3>1, <3>2, <4>2 DEF CountInv, Deaths, Owed
      <4> QED
        BY <4>1, <4>2
    <3> QED
      BY <3>1, <3>3
  <2>2. CASE "command" \notin fdset
    BY <1>7, <2>2 DEF Command, CountInv, Deaths, Owed
  <2> QED
    BY <2>1, <2>2
<1>8. CASE StopKill
  BY <1>8 DEF StopKill, CountInv, Deaths, Owed
<1>9. CASE CheckStderr
  BY <1>9 DEF CheckStderr, CountInv, Deaths, Owed
<1>10. CASE NoLine
  BY <1>10 DEF NoLine, CountInv, Deaths, Owed
<1>11. CASE Refill
  <2> DEFINE k == Min({Len(pipe), StdioSize})
  <2>1. Len(pipe) \in Nat \ {0}
    BY <1>11, EmptySeq DEF Refill
  <2>2. k \in 1..Len(pipe) /\ k <= StdioSize
    <3> DEFINE S == {Len(pipe), StdioSize}
    <3>1. S \in SUBSET Nat /\ S # {} /\ k = Min(S)
      BY <2>1
    <3>2. k \in S /\ \A y \in S : k <= y
      <4> HIDE DEF S, k
      <4> QED
        BY <3>1, MinNat
    <3> HIDE DEF k
    <3> QED
      BY <2>1, <3>2
  <2> HIDE DEF k
  <2>3. /\ SubSeq(pipe, 1, k) \in Seq(Chars) /\ Len(SubSeq(pipe, 1, k)) = k
        /\ SubSeq(pipe, k + 1, Len(pipe)) \in Seq(Chars)
        /\ Len(SubSeq(pipe, k + 1, Len(pipe))) = Len(pipe) - k
    BY <2>1, <2>2, CutInTwo
  <2>4. SetStream(SubSeq(pipe, 1, k)) /\ pipe' = SubSeq(pipe, k + 1, Len(pipe))
    BY <1>11 DEF Refill, k
  <2>5. UNCHANGED <<tincdVars, buf, log, pc, stale, loopVars>>
    BY <1>11 DEF Refill
  <2>6. pipe' \in Seq(Chars) /\ Len(pipe') <= PipeSize
    BY <2>1, <2>2, <2>3, <2>4
  <2>7. {stdio', orphan'} \subseteq Seq(Chars) /\ Len(stdio') <= StdioSize
    <3> DEFINE front == SubSeq(pipe, 1, k)
    <3>1. front \in Seq(Chars) /\ Len(front) <= StdioSize /\ SetStream(front)
      BY <2>2, <2>3, <2>4
    <3> HIDE DEF front
    <3> QED
      BY <3>1 DEF SetStream
  <2> QED
    BY <2>5, <2>6, <2>7 DEF CountInv, Deaths, Owed
<1>12. CASE Copy
  <2> DEFINE head == SubSeq(Stream, 1, Taken)
             tail == SubSeq(Stream, Taken + 1, Len(Stream))
  <2>1. Stream \in Seq(Chars) /\ Taken \in 1..Len(Stream) /\ Len(buf) + Taken <= Line
    BY <1>12, TakenProperties DEF Copy, Take
  <2>2. /\ head \in Seq(Chars) /\ Len(head) = Taken
        /\ tail \in Seq(Chars) /\ Len(tail) = Len(Stream) - Taken
    BY <2>1, CutInTwo
  <2>3. /\ SetStream(tail) /\ pc = "fgets"
        /\ \/ log' = log \o (buf \o head) /\ buf' = <<>> /\ pc' = "select"
           \/ buf' = buf \o head /\ UNCHANGED <<log, pc>>
        /\ UNCHANGED <<tincdVars, pipe, stale, loopVars>>
    BY <1>12 DEF Copy, Take
  <2> HIDE DEF head, tail
  <2>4. {stdio', orphan'} \subseteq Seq(Chars) /\ Len(stdio') <= StdioSize
    BY <2>1, <2>2, <2>3 DEF SetStream, Stream
  <2>5. buf \o head \in Seq(Chars) /\ Len(buf \o head) <= Line
    BY <2>1, <2>2, ConcatProperties
  <2>6. log \o (buf \o head) \in Seq(Chars) /\ <<>> \in Seq(Chars) /\ Len(<<>>) = 0
    BY <2>5, ConcatProperties, EmptySeq
  <2>7. buf' \in Seq(Chars) /\ Len(buf') <= Line /\ log' \in Seq(Chars)
    <3>1. CASE log' = log \o (buf \o head) /\ buf' = <<>>
      BY <1>c, <2>6, <3>1
    <3>2. CASE buf' = buf \o head /\ UNCHANGED log
      BY <2>5, <3>2
    <3> QED
      BY <2>3, <3>1, <3>2
  <2>8. pc' \in {"select", "fgets"}
    BY <2>3
  <2> QED
    BY <2>3, <2>4, <2>7, <2>8 DEF CountInv, Deaths, Owed
<1>13. CASE UNCHANGED vars
  BY <1>13 DEF vars, CountInv, Deaths, Owed
<1> QED
  BY <1>1, <1>2, <1>3, <1>4, <1>5, <1>6, <1>7, <1>8, <1>9, <1>10, <1>11, <1>12, <1>13
     DEF Next, Loop

\* Type correctness: stderr_buffer, the stdio buffer and the pipe are never filled
\* beyond their sizes, however lines, crashes and restarts interleave.
THEOREM TypeCorrect == Spec => []TypeOK
<1>1. TypeInv => TypeOK
  BY DEF TypeInv
<1> QED
  BY <1>1, InitType, NextType, PTL DEF Spec
-----------------------------------------------------------------------------
(* The way of a character, from the log back to the pipe.                    *)

Way == ((log \o buf) \o Stream) \o pipe

\* c was written before d.
Before(c, d) == c.by < d.by \/ (c.by = d.by /\ c.n < d.n)

Ordered(s) == \A i, j \in DOMAIN s : i < j => Before(s[i], s[j])

\* All of s was written by tincd that are gone, or by the current one so far.
Past(s) == \A i \in DOMAIN s : s[i].by < gen \/ (s[i].by = gen /\ s[i].n <= Len(said))

\* Characters on the way are in order and none comes from the future; the stream
\* that replaced the one fgets works on is not read; and as long as the first
\* tincd lives, what is on the way or logged is just what it has written.
OrderInv ==
    /\ Ordered(Way) /\ Past(Way)
    /\ stale => stdio = <<>>
    /\ gen = 1 => ~stale /\ Way = said

\* Facts about sequences of characters, in the form the provers can use.
LEMMA CharsAssociative ==
    \A a, b, c \in Seq(Chars) : (a \o b) \o c = a \o (b \o c)
  BY AppendAssociative

\* The characters of two pieces of text, one behind the other.
LEMMA CharsAppended ==
    \A a, b \in Seq(Chars) :
        /\ Len(a) \in Nat /\ DOMAIN a = 1..Len(a)
        /\ DOMAIN (a \o b) = 1..(Len(a) + Len(b))
        /\ \A i \in 1..(Len(a) + Len(b)) :
              (a \o b)[i] = IF i <= Len(a) THEN a[i] ELSE b[i - Len(a)]
<1> TAKE a \in Seq(Chars), b \in Seq(Chars)
<1> QED
  BY AppendElements

\* The tincd a character is from, and its number.
LEMMA CharFields ==
    ASSUME NEW s \in Seq(Chars), NEW i \in DOMAIN s
    PROVE  s[i].by \in Nat /\ s[i].n \in Nat
<1>1. s[i] \in Chars
  BY ElementOfSeq, LenProperties
<1> HIDE DEF Chars
<1>2. \A c \in Chars : c.by \in 1..MaxTincds /\ c.n \in Nat
  BY DEF Chars
<1>3. 1..MaxTincds \subseteq Nat
  BY LogPumpAssumption DEF MaxTincds
<1> QED
  BY <1>1, <1>2, <1>3

\* The way consists of characters.
LEMMA WayType ==
    ASSUME TypeOK
    PROVE  /\ {log, buf, Stream, pipe} \subseteq Seq(Chars)
           /\ log \o buf \in Seq(Chars) /\ (log \o buf) \o Stream \in Seq(Chars)
           /\ Way \in Seq(Chars)
<1>1. {log, buf, Stream, pipe} \subseteq Seq(Chars)
  BY DEF TypeOK, Stream
<1>2. log \o buf \in Seq(Chars)
  BY <1>1, ConcatProperties
<1>3. (log \o buf) \o Stream \in Seq(Chars)
  BY <1>1, <1>2, ConcatProperties
<1> QED
  BY <1>1, <1>2, <1>3, ConcatProperties DEF Way

\* Losing the end of the way keeps it in order.
LEMMA PrefixKeeps ==
    ASSUME NEW s \in Seq(Chars), NEW t \in Seq(Chars)
    PROVE  (Ordered(s \o t) => Ordered(s)) /\ (Past(s \o t) => Past(s))
<1>1. /\ DOMAIN s = 1..Len(s) /\ DOMAIN (s \o t) = 1..(Len(s) + Len(t))
      /\ Len(s) \in Nat /\ Len(t) \in Nat
      /\ \A i \in 1..Len(s) : (s \o t)[i] = s[i]
  BY ConcatProperties, LenProperties
<1>2. \A i \in DOMAIN s : i \in DOMAIN (s \o t) /\ (s \o t)[i] = s[i]
  BY <1>1
<1> QED
  BY <1>2 DEF Ordered, Past

\* So does losing a part in the middle, as the rest of a replaced stream is.
LEMMA MiddleKeeps ==
    ASSUME NEW a \in Seq(Chars), NEW b \in Seq(Chars), NEW c \in Seq(Chars)
    PROVE  /\ Ordered((a \o b) \o c) => Ordered(a \o c)
           /\ Past((a \o b) \o c) => Past(a \o c)
<1> DEFINE w == (a \o b) \o c
           at(i) == IF i <= Len(a) THEN i ELSE i + Len(b)
<1>1. Len(a) \in Nat /\ Len(b) \in Nat /\ Len(c) \in Nat
  BY LenProperties
<1>2. /\ a \o b \in Seq(Chars) /\ Len(a \o b) = Len(a) + Len(b)
      /\ \A i \in 1..(Len(a) + Len(b)) : (a \o b)[i] = IF i <= Len(a) THEN a[i] ELSE b[i - Len(a)]
  BY ConcatProperties
<1>3. /\ w \in Seq(Chars) /\ Len(w) = (Len(a) + Len(b)) + Len(c)
      /\ \A i \in 1..(Len(a) + Len(b) + Len(c)) :
            w[i] = IF i <= Len(a) + Len(b) THEN (a \o b)[i] ELSE c[i - (Len(a) + Len(b))]
  BY <1>2, ConcatProperties
<1>4. /\ a \o c \in Seq(Chars) /\ Len(a \o c) = Len(a) + Len(c)
      /\ \A i \in 1..(Len(a) + Len(c)) : (a \o c)[i] = IF i <= Len(a) THEN a[i] ELSE c[i - Len(a)]
  BY ConcatProperties
<1>5. DOMAIN w = 1..(Len(a) + Len(b) + Len(c)) /\ DOMAIN (a \o c) = 1..(Len(a) + Len(c))
  BY <1>1, <1>3, <1>4, LenProperties
<1> HIDE DEF w
<1>6. ASSUME NEW i \in DOMAIN (a \o c)
      PROVE  at(i) \in DOMAIN w /\ (a \o c)[i] = w[at(i)]
  <2>1. CASE i <= Len(a)
    BY <1>1, <1>2, <1>3, <1>4, <1>5, <2>1
  <2>2. CASE i > Len(a)
    <3>1. /\ i + Len(b) \in 1..(Len(a) + Len(b) + Len(c)) /\ ~(i + Len(b) <= Len(a) + Len(b))
          /\ (i + Len(b)) - (Len(a) + Len(b)) = i - Len(a)
      BY <1>1, <1>5, <2>2
    <3>2. w[i + Len(b)] = c[i - Len(a)]
      BY <1>3, <3>1
    <3>3. (a \o c)[i] = c[i - Len(a)]
      BY <1>1, <1>4, <1>5, <2>2
    <3> QED
      BY <1>1, <1>5, <2>2, <3>1, <3>2, <3>3
  <2> QED
    BY <1>1, <1>5, <2>1, <2>2
<1>7. \A i, j \in DOMAIN (a \o c) : i < j => at(i) < at(j)
  BY <1>1, <1>5
<1> HIDE DEF at
<1>8. Ordered(w) => Ordered(a \o c)
  BY <1>6, <1>7 DEF Ordered
<1>9. Past(w) => Past(a \o c)
  BY <1>6 DEF Past
<1> QED
  BY <1>8, <1>9 DEF w

\* What fgets does moves characters along the way and nothing else.
LEMMA RefillKeepsWay ==
    ASSUME TypeOK, Refill
    PROVE  Way' = Way /\ stale' = stale /\ (stale => stdio' = stdio)
<1> DEFINE k == Min({Len(pipe), StdioSize})
           h == SubSeq(pipe, 1, k)
           r == SubSeq(pipe, k + 1, Len(pipe))
<1>1. pipe \in Seq(Chars) /\ Len(pipe) \in Nat \ {0} /\ StdioSize \in Nat \ {0}
  BY EmptySeq, LogPumpAssumption DEF TypeOK, Refill
<1>2. k \in 0..Len(pipe)
  <2> DEFINE S == {Len(pipe), StdioSize}
  <2>1. S \in SUBSET Nat /\ S # {} /\ k = Min(S)
    BY <1>1
  <2>2. k \in S /\ \A y \in S : k <= y
    <3> HIDE DEF S, k
    <3> QED
      BY <2>1, MinNat
  <2> HIDE DEF k
  <2> QED
    BY <1>1, <2>2
<1> HIDE DEF k
<1>3. h \in Seq(Chars) /\ r \in Seq(Chars) /\ h \o r = pipe
  BY <1>1, <1>2, CutInTwo
<1>4. Stream = <<>> /\ SetStream(h) /\ pipe' = r /\ UNCHANGED <<log, buf, stale>>
  BY DEF Refill, k
<1>5. Stream' = h
  BY <1>4 DEF Stream, SetStream
<1> HIDE DEF h, r
<1>6. log \o buf \in Seq(Chars)
  BY WayType
<1>7. Way' = ((log \o buf) \o h) \o r
  BY <1>4, <1>5 DEF Way
<1>8. ((log \o buf) \o h) \o r = (log \o buf) \o pipe
  <2> DEFINE lb == log \o buf
  <2>1. lb \in Seq(Chars)
    BY <1>6
  <2> HIDE DEF lb
  <2>2. (lb \o h) \o r = lb \o (h \o r)
    BY <1>3, <2>1, CharsAssociative, Zenon
  <2> QED
    BY <1>3, <2>2 DEF lb
<1>9. Way = (log \o buf) \o pipe
  BY <1>4, <1>6, ConcatEmptySeq DEF Way
<1> QED
  BY <1>4, <1>7, <1>8, <1>9 DEF SetStream

\* A copy from one buffer to the next leaves the way of the text as it is.
LEMMA CopyKeepsWay ==
    ASSUME TypeOK, Copy
    PROVE  Way' = Way /\ stale' = stale /\ (stale => stdio' = stdio)
<1> DEFINE h == SubSeq(Stream, 1, Taken)
           r == SubSeq(Stream, Taken + 1, Len(Stream))
<1>1. Stream \in Seq(Chars) /\ Taken \in 0..Len(Stream)
  BY TakenProperties DEF Copy, Take
<1>2. h \in Seq(Chars) /\ r \in Seq(Chars) /\ h \o r = Stream
  BY <1>1, CutInTwo
<1>3. /\ SetStream(r) /\ UNCHANGED <<pipe, stale>>
      /\ \/ log' = log \o (buf \o h) /\ buf' = <<>>
         \/ buf' = buf \o h /\ UNCHANGED log
  BY DEF Copy, Take
<1> HIDE DEF h, r
<1>4. Stream' = r
  BY <1>3 DEF Stream, SetStream
<1>5. /\ log \in Seq(Chars) /\ buf \in Seq(Chars) /\ pipe \in Seq(Chars)
      /\ log \o buf \in Seq(Chars) /\ buf \o h \in Seq(Chars)
      /\ log \o (buf \o h) \in Seq(Chars)
  <2>1. log \in Seq(Chars) /\ buf \in Seq(Chars) /\ pipe \in Seq(Chars)
    BY DEF TypeOK
  <2>2. log \o buf \in Seq(Chars) /\ buf \o h \in Seq(Chars)
    BY <1>2, <2>1, ConcatProperties
  <2> QED
    BY <2>1, <2>2, ConcatProperties
<1>6. log' \o buf' = log \o (buf \o h)
  <2>1. CASE log' = log \o (buf \o h) /\ buf' = <<>>
    BY <1>5, <2>1, ConcatEmptySeq
  <2>2. CASE buf' = buf \o h /\ UNCHANGED log
    BY <2>2
  <2> QED
    BY <1>3, <2>1, <2>2
<1>7. (log \o (buf \o h)) \o r = (log \o buf) \o Stream
  <2>1. (log \o buf) \o h = log \o (buf \o h)
    <3>1. log \in Seq(Chars) /\ buf \in Seq(Chars) /\ h \in Seq(Chars)
      BY <1>2, <1>5
    <3> QED
      BY <3>1, CharsAssociative, Zenon
  <2>2. ((log \o buf) \o h) \o r = (log \o buf) \o (h \o r)
    <3> DEFINE lb == log \o buf
    <3>1. lb \in Seq(Chars)
      BY <1>5
    <3> HIDE DEF lb
    <3>2. (lb \o h) \o r = lb \o (h \o r)
      BY <1>2, <3>1, CharsAssociative, Zenon
    <3> QED
      BY <3>2 DEF lb
  <2> QED
    BY <1>2, <2>1, <2>2
<1>8. Way' = ((log' \o buf') \o r) \o pipe
  BY <1>3, <1>4 DEF Way
<1> QED
  BY <1>3, <1>6, <1>7, <1>8 DEF Way, SetStream

-----------------------------------------------------------------------------
(* The invariant and what follows from it.                                   *)

\* What tincd writes is added at the end of the way.
LEMMA WriteExtendsWay ==
    ASSUME TypeOK, OrderInv, NEW k \in Nat, NEW nl \in BOOLEAN, Write(Numbered(k, nl))
    PROVE  OrderInv'
<1> DEFINE text == Numbered(k, nl)
<1>1. /\ text \in Seq(Chars) /\ Len(text) = k /\ DOMAIN text = 1..k
      /\ \A i \in 1..k : text[i].by = gen /\ text[i].n = Len(said) + i
  BY NumberedType, LenProperties DEF Numbered
<1>2. /\ pipe' = pipe \o text /\ said' = said \o text
      /\ UNCHANGED <<gen, stdio, orphan, buf, log, stale>>
  BY DEF Write
<1> HIDE DEF text
<1> DEFINE front == (log \o buf) \o Stream
<1>3. front \in Seq(Chars) /\ pipe \in Seq(Chars) /\ Way = front \o pipe /\ Way \in Seq(Chars)
  BY WayType DEF Way
<1>4. Way' = front \o (pipe \o text)
  BY <1>2 DEF Way, Stream
<1> HIDE DEF front
<1>5. Way' = Way \o text
  BY <1>1, <1>3, <1>4, CharsAssociative, Zenon
<1>6. said \in Seq(Chars) /\ Len(said) \in Nat /\ Len(said') = Len(said) + k
  BY <1>1, <1>2, ConcatProperties, LenProperties DEF TypeOK
<1> DEFINE n == Len(Way)
<1>7. /\ n \in Nat /\ DOMAIN Way = 1..n /\ DOMAIN (Way \o text) = 1..(n + k)
      /\ \A i \in 1..(n + k) : (Way \o text)[i] = IF i <= n THEN Way[i] ELSE text[i - n]
  <2>1. Way \in Seq(Chars) /\ text \in Seq(Chars) /\ Len(text) = k
    BY <1>1, <1>3
  <2> HIDE DEF Way
  <2>2. /\ Len(Way) \in Nat /\ DOMAIN Way = 1..Len(Way)
        /\ DOMAIN (Way \o text) = 1..(Len(Way) + Len(text))
        /\ \A i \in 1..(Len(Way) + Len(text)) :
              (Way \o text)[i] = IF i <= Len(Way) THEN Way[i] ELSE text[i - Len(Way)]
    BY <2>1, CharsAppended, Zenon
  <2> QED
    BY <2>1, <2>2
<1> HIDE DEF n
<1>8. ASSUME NEW i \in 1..(n + k), ~(i <= n)
      PROVE  /\ i - n \in 1..k /\ (Way \o text)[i].by = gen
             /\ (Way \o text)[i].n = Len(said) + (i - n)
  <2>1. i - n \in 1..k
    BY <1>7, <1>8
  <2> QED
    BY <1>1, <1>7, <1>8, <2>1
<1>9. Past(Way)'
  <2> SUFFICES ASSUME NEW i \in 1..(n + k)
               PROVE  \/ (Way \o text)[i].by < gen
                      \/ (Way \o text)[i].by = gen /\ (Way \o text)[i].n <= Len(said) + k
    BY <1>2, <1>5, <1>6, <1>7 DEF Past
  <2>1. CASE i <= n
    <3>1. i \in DOMAIN Way /\ (Way \o text)[i] = Way[i]
      BY <1>7, <2>1
    <3>2. Way[i].n \in Nat /\ (Way[i].by < gen \/ (Way[i].by = gen /\ Way[i].n <= Len(said)))
      BY <1>3, <3>1, CharFields DEF OrderInv, Past
    <3> QED
      BY <1>6, <3>1, <3>2
  <2>2. CASE ~(i <= n)
    BY <1>6, <1>7, <1>8, <2>2
  <2> QED
    BY <2>1, <2>2
<1>10. Ordered(Way)'
  <2> SUFFICES ASSUME NEW i \in 1..(n + k), NEW j \in 1..(n + k), i < j
               PROVE  Before((Way \o text)[i], (Way \o text)[j])
    BY <1>5, <1>7 DEF Ordered, Before
  <2>1. CASE j <= n
    BY <1>7, <2>1 DEF OrderInv, Ordered
  <2>2. CASE ~(j <= n) /\ i <= n
    <3>1. i \in DOMAIN Way /\ (Way \o text)[i] = Way[i]
      BY <1>7, <2>2
    <3>2. Way[i].n \in Nat /\ (Way[i].by < gen \/ (Way[i].by = gen /\ Way[i].n <= Len(said)))
      BY <1>3, <3>1, CharFields DEF OrderInv, Past
    <3>3. /\ (Way \o text)[j].by = gen /\ j - n \in 1..k
          /\ (Way \o text)[j].n = Len(said) + (j - n)
      BY <1>8, <2>2
    <3> QED
      BY <1>6, <1>7, <3>1, <3>2, <3>3 DEF Before
  <2>3. CASE ~(j <= n) /\ ~(i <= n)
    <3>1. /\ (Way \o text)[i].by = gen /\ (Way \o text)[i].n = Len(said) + (i - n)
          /\ (Way \o text)[j].by = gen /\ (Way \o text)[j].n = Len(said) + (j - n)
      BY <1>8, <2>3
    <3> QED
      BY <1>6, <1>7, <3>1 DEF Before
  <2> QED
    BY <2>1, <2>2, <2>3
<1>11. gen' = 1 => ~stale' /\ Way' = said'
  BY <1>2, <1>5 DEF OrderInv
<1> QED
  BY <1>2, <1>9, <1>10, <1>11 DEF OrderInv

\* A step that leaves the way, the stream and tincd alone keeps the invariant.
LEMMA SameWay ==
    ASSUME OrderInv, Way' = Way, UNCHANGED <<gen, said, stale>>, stale => stdio' = stdio
    PROVE  OrderInv'
<1>1. Ordered(Way)' /\ Past(Way)'
  BY DEF OrderInv, Ordered, Past, Before
<1> QED
  BY <1>1 DEF OrderInv

\* A new tincd: at least what is in the pipe is lost, and what is left is a prefix
\* of the way.
LEMMA SigchildKeeps ==
    ASSUME TypeOK, OrderInv, sigchild
    PROVE  OrderInv'
<1> DEFINE lb == log \o buf
<1>1. /\ lb \in Seq(Chars) /\ Stream \in Seq(Chars) /\ lb \o Stream \in Seq(Chars)
      /\ pipe \in Seq(Chars) /\ Way = (lb \o Stream) \o pipe
  BY WayType DEF Way
<1>2. /\ pipe' = <<>> /\ stdio' = <<>> /\ gen' = gen + 1 /\ said' = <<>>
      /\ UNCHANGED <<log, buf, pc>>
  BY DEF sigchild
<1>3. gen \in Nat \ {0} /\ Len(said) \in Nat
  BY LenProperties, LogPumpAssumption DEF TypeOK, MaxTincds
<1> DEFINE W == IF stale \/ pc = "fgets" THEN lb \o Stream ELSE lb
<1>4. Way' = W
  <2>1. CASE stale \/ pc = "fgets"
    <3>1. stale' = TRUE /\ orphan' = Stream
      BY <2>1 DEF sigchild, Stream
    <3>2. Way' = (lb \o Stream) \o <<>>
      BY <1>2, <3>1 DEF Way, Stream
    <3> QED
      BY <1>1, <2>1, <3>2, ConcatEmptySeq
  <2>2. CASE ~(stale \/ pc = "fgets")
    <3>1. stale' = FALSE
      BY <2>2 DEF sigchild
    <3>2. Way' = (lb \o <<>>) \o <<>>
      BY <1>2, <3>1 DEF Way, Stream
    <3> QED
      BY <1>1, <2>2, <3>2, ConcatEmptySeq
  <2> QED
    BY <2>1, <2>2
<1>5. Ordered(lb \o Stream) /\ Past(lb \o Stream)
  BY <1>1, PrefixKeeps DEF OrderInv
<1>6. Ordered(lb) /\ Past(lb)
  BY <1>1, <1>5, PrefixKeeps
<1>7. W \in Seq(Chars) /\ Ordered(W) /\ Past(W)
  BY <1>1, <1>5, <1>6
<1> HIDE DEF W
<1>8. Ordered(Way)'
  BY <1>4, <1>7 DEF Ordered, Before
<1>9. Past(Way)'
  <2>1. \A i \in DOMAIN W : W[i].by \in Int /\ (W[i].by < gen \/ W[i].by = gen)
    BY <1>7, CharFields DEF Past
  <2> QED
    BY <1>2, <1>3, <1>4, <2>1 DEF Past
<1> QED
  BY <1>2, <1>3, <1>8, <1>9 DEF OrderInv

\* Before the next fgets the replaced stream is forgotten, and what it held.
LEMMA CheckStderrKeeps ==
    ASSUME TypeOK, OrderInv, CheckStderr
    PROVE  OrderInv'
<1>1. UNCHANGED <<tincdVars, pipe, stdio, orphan, buf, log>> /\ stale' = FALSE
  BY DEF CheckStderr
<1>2. CASE stale = FALSE
  <2>1. Way' = Way
    BY <1>1, <1>2 DEF Way, Stream
  <2> QED
    BY <1>1, <1>2, <2>1, SameWay DEF tincdVars
<1>3. CASE stale = TRUE
  <2> DEFINE lb == log \o buf
  <2>1. /\ lb \in Seq(Chars) /\ Stream \in Seq(Chars) /\ pipe \in Seq(Chars)
        /\ Way = (lb \o Stream) \o pipe
    BY WayType DEF Way
  <2>2. Way' = lb \o pipe
    <3>1. Way' = (lb \o <<>>) \o pipe
      BY <1>1, <1>3 DEF Way, Stream, OrderInv
    <3> QED
      BY <2>1, <3>1, ConcatEmptySeq
  <2> HIDE DEF lb
  <2>3. Ordered(lb \o pipe) /\ Past(lb \o pipe)
    BY <2>1, MiddleKeeps DEF OrderInv
  <2>4. Ordered(Way)' /\ Past(Way)'
    BY <1>1, <2>2, <2>3 DEF Ordered, Past, Before, tincdVars
  <2>5. gen # 1
    BY <1>3 DEF OrderInv
  <2> QED
    BY <1>1, <2>4, <2>5 DEF OrderInv, tincdVars
<1> QED
  BY <1>2, <1>3 DEF TypeOK

\* At the start nothing has been written.
LEMMA InitOrder == Init => OrderInv
<1> SUFFICES ASSUME Init PROVE OrderInv
  OBVIOUS
<1>1. Way = <<>>
  BY ConcatEmptySeq, EmptySeq DEF Init, Way, Stream
<1> QED
  BY <1>1 DEF Init, OrderInv, Ordered, Past

\* Every step keeps the order on the way.
LEMMA NextOrder == ASSUME TypeOK, OrderInv, [Next]_vars PROVE OrderInv'
<1>1. CASE TincdWrites
  <2>1. PICK k \in 1..MaxLine : Write(Numbered(k, FALSE))
    BY <1>1 DEF TincdWrites
  <2>2. k \in Nat
    BY <2>1
  <2> QED
    BY <2>1, <2>2, WriteExtendsWay
<1>2. CASE TincdEndsLine
  BY <1>2, WriteExtendsWay DEF TincdEndsLine
<1>3. CASE sigchild
  BY <1>3, SigchildKeeps
<1>4. CASE CheckStderr
  BY <1>4, CheckStderrKeeps
<1>5. CASE Refill
  BY <1>5, RefillKeepsWay, SameWay DEF Refill, tincdVars
<1>6. CASE Copy
  BY <1>6, CopyKeepsWay, SameWay DEF Copy, Take, tincdVars
<1>7. ASSUME UNCHANGED <<gen, said, stale, log, buf, stdio, orphan, pipe>> PROVE OrderInv'
  BY <1>7, SameWay DEF Way, Stream
<1>8. CASE TincdDies \/ SendRestart \/ Select \/ Command \/ StopKill \/ NoLine \/ UNCHANGED vars
  BY <1>7, <1>8 DEF TincdDies, SendRestart, Select, Command, StopKill, NoLine, vars, tincdVars
<1> QED
  BY <1>1, <1>2, <1>3, <1>4, <1>5, <1>6, <1>8 DEF Next, Loop

\* The way of all messages is in order in every reachable state.
LEMMA OrderInvariant == Spec => [](TypeOK /\ OrderInv)
<1>1. TypeInv => TypeOK
  BY DEF TypeInv
<1> QED
  BY <1>1, InitType, NextType, InitOrder, NextOrder, PTL DEF Spec

\* Until the first tincd is replaced, every character it wrote is logged or on its
\* way, once and in order, for all sizes of the three buffers.
THEOREM NothingIsLost == Spec => []NothingLost
<1>1. TypeOK /\ OrderInv => NothingLost
  BY DEF OrderInv, NothingLost, Way, Stream
<1> QED
  BY <1>1, OrderInvariant, PTL

\* Nothing is logged twice or after something that was written later, however
\* sigchild replaces pipe and stream in the middle of an fgets.
THEOREM LogStaysInOrder == Spec => []LogInOrder
<1>1. TypeOK /\ OrderInv => LogInOrder
  <2> SUFFICES ASSUME TypeOK, OrderInv PROVE LogInOrder
    OBVIOUS
  <2>1. Ordered((log \o buf) \o Stream)
    BY WayType, PrefixKeeps DEF OrderInv, Way
  <2>2. Ordered(log \o buf)
    BY <2>1, WayType, PrefixKeeps
  <2>3. Ordered(log)
    BY <2>2, WayType, PrefixKeeps
  <2> QED
    BY <2>3 DEF Ordered, Before, LogInOrder
<1> QED
  BY <1>1, OrderInvariant, PTL
=============================================================================
