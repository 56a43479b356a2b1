------------------------------ MODULE UpdaterProofs ------------------------------
(***************************************************************************)
(* Proofs about the parent process, for every number of versions, failing  *)
(* writes, damaged downloads, signals and crashes: type correctness, that  *)
(* a running chaosvpn never returns to an older configuration but by a     *)
(* stored copy it could neither write nor remove, that my_peer points into *)
(* the list files are written from whenever it can, and that the parent    *)
(* implements ConfigService.                                               *)
(***************************************************************************)
EXTENDS Updater, SequenceTheorems, WellFoundedInduction, TLAPS

-----------------------------------------------------------------------------
(* Least and greatest numbers; sequences an element is taken out of.        *)

\* A non-empty set of natural numbers has a least element, which Min picks.
LEMMA MinNat ==
    ASSUME NEW S \in SUBSET Nat, S # {}
    PROVE  Min(S) \in S /\ \A y \in S : Min(S) <= y
<1>1. PICK x \in S : \A y \in S : ~(<<y, x>> \in OpToRel(<, Nat))
  BY WFMin, NatLessThanWellFounded
<1>2. OpToRel(<, Nat) = {ss \in Nat \X Nat : ss[1] < ss[2]}
  BY DEF OpToRel
<1>3. ASSUME NEW y \in S PROVE x <= y
  <2>1. y < x => <<y, x>> \in {ss \in Nat \X Nat : ss[1] < ss[2]}
    OBVIOUS
  <2>2. ~(y < x)
    BY <1>1, <1>2, <2>1
  <2> QED
    BY <2>2
<1> QED
  BY <1>3 DEF Min

\* A non-empty set of positions has a greatest one, which Max picks.
LEMMA MaxNat ==
    ASSUME NEW n \in Nat, NEW S \in SUBSET (1..n), S # {}
    PROVE  Max(S) \in S /\ \A y \in S : y <= Max(S)
<1> DEFINE T == {k \in 0..n : n - k \in S}
<1>1. \A y \in S : y \in 1..n /\ n - y \in 0..n /\ n - (n - y) = y
  OBVIOUS
<1>2. \A y \in S : n - y \in T
  BY <1>1
<1>3. T \in SUBSET Nat /\ T # {}
  <2>1. PICK y \in S : TRUE
    OBVIOUS
  <2>2. n - y \in T
    BY <1>2
  <2>3. T \in SUBSET Nat
    OBVIOUS
  <2> HIDE DEF T
  <2> QED
    BY <2>2, <2>3
<1>4. Min(T) \in T /\ \A y \in T : Min(T) <= y
  BY <1>3, MinNat
<1> HIDE DEF T
<1>5. n - Min(T) \in S /\ \A y \in S : y <= n - Min(T)
  <2>1. Min(T) \in 0..n /\ n - Min(T) \in S
    BY <1>4 DEF T
  <2> QED
    BY <1>1, <1>2, <1>4, <2>1
<1> QED
  BY <1>5 DEF Max

\* Taking the element at one position out of a sequence keeps all others.
LEMMA RemoveAtProperties ==
    ASSUME NEW S, NEW s \in Seq(S), NEW n \in 1..Len(s)
    PROVE  /\ RemoveAt(s, n) \in Seq(S)
           /\ Len(RemoveAt(s, n)) = Len(s) - 1
           /\ \A i \in 1..(n - 1) : RemoveAt(s, n)[i] = s[i]
           /\ \A i \in n..(Len(s) - 1) : RemoveAt(s, n)[i] = s[i + 1]
<1> DEFINE a == SubSeq(s, 1, n - 1)
           b == SubSeq(s, n + 1, Len(s))
<1>1. /\ a \in Seq(S) /\ Len(a) = n - 1 /\ \A i \in 1..(n - 1) : a[i] = s[i]
  BY SubSeqProperties, ElementOfSeq
<1>2. /\ b \in Seq(S) /\ Len(b) = Len(s) - n
      /\ \A i \in 1..(Len(s) - n) : b[i] = s[n + i]
  <2>1. \A i \in (n + 1)..Len(s) : s[i] \in S
    BY ElementOfSeq
  <2>2. b \in Seq(S) /\ Len(b) = IF n + 1 <= Len(s) THEN Len(s) - (n + 1) + 1 ELSE 0
    BY <2>1, SubSeqProperties
  <2>3. \A i \in 1..(Len(s) - (n + 1) + 1) : b[i] = s[(n + 1) + i - 1]
    BY <2>1, SubSeqProperties
  <2>4. \A i \in 1..(Len(s) - n) : (n + 1) + i - 1 = n + i
    OBVIOUS
  <2> QED
    BY <2>2, <2>3, <2>4
<1>3. RemoveAt(s, n) = a \o b
  BY DEF RemoveAt
<1> HIDE DEF a, b
<1>4. /\ a \o b \in Seq(S) /\ Len(a \o b) = Len(s) - 1
      /\ \A i \in 1..(Len(s) - 1) :
            (a \o b)[i] = IF i <= n - 1 THEN a[i] ELSE b[i - (n - 1)]
  BY <1>1, <1>2, ConcatProperties
<1>5. ASSUME NEW i \in n..(Len(s) - 1) PROVE (a \o b)[i] = s[i + 1]
  <2>1. i - (n - 1) \in 1..(Len(s) - n) /\ n + (i - (n - 1)) = i + 1
    OBVIOUS
  <2> QED
    BY <1>2, <1>4, <2>1
<1>6. ASSUME NEW i \in 1..(n - 1) PROVE (a \o b)[i] = s[i]
  BY <1>1, <1>4
<1> QED
  BY <1>3, <1>4, <1>5, <1>6

\* Removing the first e from a sequence loses and invents nothing else.
LEMMA RemoveFirstProperties ==
    ASSUME NEW S, NEW s \in Seq(S), NEW e
    PROVE  /\ RemoveFirst(s, e) \in Seq(S)
           /\ \A i \in 1..Len(s) :
                 s[i] = e \/ \E j \in 1..Len(RemoveFirst(s, e)) : RemoveFirst(s, e)[j] = s[i]
           /\ \A j \in 1..Len(RemoveFirst(s, e)) :
                 \E i \in 1..Len(s) : RemoveFirst(s, e)[j] = s[i]
<1>1. CASE \E i \in 1..Len(s) : s[i] = e
  <2> DEFINE I == {i \in 1..Len(s) : s[i] = e}
             n == Min(I)
  <2>1. n \in I
    <3>1. I \in SUBSET Nat /\ I # {}
      BY <1>1
    <3> HIDE DEF I
    <3> QED
      BY <3>1, MinNat
  <2>2. RemoveFirst(s, e) = RemoveAt(s, n)
    BY <1>1 DEF RemoveFirst, SelectInSeq
  <2> HIDE DEF n
  <2>3. n \in 1..Len(s) /\ s[n] = e
    BY <2>1
  <2> DEFINE r == RemoveAt(s, n)
  <2>4. /\ r \in Seq(S) /\ Len(r) = Len(s) - 1
        /\ \A i \in 1..(n - 1) : r[i] = s[i]
        /\ \A i \in n..(Len(s) - 1) : r[i] = s[i + 1]
    BY <2>3, RemoveAtProperties
  <2> HIDE DEF r
  <2>5. ASSUME NEW i \in 1..Len(s), s[i] # e PROVE \E j \in 1..Len(r) : r[j] = s[i]
    <3>1. CASE i < n
      BY <2>3, <2>4, <3>1
    <3>2. CASE i > n
      <4>1. i - 1 \in n..(Len(s) - 1) /\ (i - 1) + 1 = i
        BY <2>3, <3>2
      <4>2. r[i - 1] = s[i] /\ i - 1 \in 1..Len(r)
        BY <2>3, <2>4, <4>1
      <4> QED
        BY <4>2
    <3> QED
      BY <2>3, <2>5, <3>1, <3>2
  <2>6. ASSUME NEW j \in 1..Len(r) PROVE \E i \in 1..Len(s) : r[j] = s[i]
    <3>1. CASE j < n
      BY <2>3, <2>4, <3>1
    <3>2. CASE j >= n
      <4>1. j \in n..(Len(s) - 1) /\ j + 1 \in 1..Len(s)
        BY <2>3, <2>4, <3>2
      <4> QED
        BY <2>4, <4>1
    <3> QED
      BY <2>3, <3>1, <3>2
  <2> QED
    BY <2>2, <2>4, <2>5, <2>6 DEF r
<1>2. CASE ~\E i \in 1..Len(s) : s[i] = e
  BY <1>2 DEF RemoveFirst
<1> QED
  BY <1>1, <1>2

-----------------------------------------------------------------------------
(* The locations and lists of the parent process.                            *)

\* What the entries of a list of peers may come from.
Configs == Versions \cup {Junk}

\* The locations between the acceptance of a configuration and the end of a run
\* of the writers, and those where http_response holds the configuration at hand.
Accepted == {"tempsave", "cleanup", "write"}
AtHand   == {"compare", "parse"} \cup Accepted

-----------------------------------------------------------------------------
(* Lemmas about the operators of Updater.                                    *)

\* There are six files, and the hosts directory is the second of them.
LEMMA SixFiles == DOMAIN Files = 1..6 /\ Len(Files) = 6
  BY DEF Files

\* A torn file is no list of entries.
LEMMA TornIsNoList == Torn \notin Seq(Configs) /\ Torn # <<>>
<1>1. Torn[1] = Partial /\ Len(Torn) = 1
  BY DEF Torn
<1>2. Partial \notin Configs
  BY UpdaterAssumption DEF Partial, Configs, Versions, Junk
<1> QED
  BY <1>1, <1>2, ElementOfSeq, EmptySeq

\* The list after a parse: the entries of the new configuration come last, all
\* older ones are still there, and nothing else is.
LEMMA AddEntriesProperties ==
    ASSUME peers \in Seq(Configs), NEW c \in Configs
    PROVE  /\ AddEntries(c) \in Seq(Configs) /\ AddEntries(c) # <<>>
           /\ AddEntries(c)[Len(AddEntries(c))] = c
           /\ \A i \in DOMAIN peers : \E j \in DOMAIN AddEntries(c) :
                 AddEntries(c)[j] = peers[i]
           /\ \A j \in DOMAIN AddEntries(c) :
                 AddEntries(c)[j] = c \/ \E i \in DOMAIN peers : AddEntries(c)[j] = peers[i]
<1> DEFINE r == RemoveFirst(peers, c)
           l == Append(r, c)
<1>1. /\ r \in Seq(Configs)
      /\ \A i \in 1..Len(peers) : peers[i] = c \/ \E j \in 1..Len(r) : r[j] = peers[i]
      /\ \A j \in 1..Len(r) : \E i \in 1..Len(peers) : r[j] = peers[i]
  BY RemoveFirstProperties
<1> HIDE DEF r
<1>2. /\ l \in Seq(Configs) /\ l # <<>> /\ Len(l) = Len(r) + 1
      /\ \A i \in 1..Len(r) : l[i] = r[i]
      /\ l[Len(r) + 1] = c
  BY <1>1, AppendProperties
<1>3. AddEntries(c) = l
  BY DEF AddEntries, r
<1> HIDE DEF l
<1>4. Len(r) \in Nat /\ DOMAIN l = 1..(Len(r) + 1) /\ DOMAIN peers = 1..Len(peers)
  BY <1>1, <1>2, LenProperties
<1>5. \A i \in DOMAIN peers : \E j \in DOMAIN l : l[j] = peers[i]
  <2> TAKE i \in DOMAIN peers
  <2>1. CASE peers[i] = c
    BY <1>2, <1>4, <2>1
  <2>2. CASE \E j \in 1..Len(r) : r[j] = peers[i]
    BY <1>2, <1>4, <2>2
  <2> QED
    BY <1>1, <1>4, <2>1, <2>2
<1>6. \A j \in DOMAIN l : l[j] = c \/ \E i \in DOMAIN peers : l[j] = peers[i]
  <2> TAKE j \in DOMAIN l
  <2>1. CASE j = Len(r) + 1
    BY <1>2, <2>1
  <2>2. CASE j \in 1..Len(r)
    BY <1>1, <1>2, <1>4, <2>2
  <2> QED
    BY <1>4, <2>1, <2>2
<1> QED
  BY <1>2, <1>3, <1>5, <1>6

-----------------------------------------------------------------------------
(* Types.                                                                    *)

\* The types are kept because there is a configuration wherever one is compared,
\* parsed, stored or written.
TypeInv == TypeOK /\ (pc \in AtHand => body # None)

\* What a parse does, whichever configurations name this node: a list that ends
\* with the configuration at hand, and a my_peer that is in it, or as before.
LEMMA ParseProperties ==
    ASSUME TypeInv, NEW named \in SUBSET Configs, Parse(named)
    PROVE  /\ body \in Configs /\ peers' = AddEntries(body) /\ peers' \in Seq(Configs)
           /\ \/ my_peer' = my_peer /\ \A i \in DOMAIN peers' : peers'[i] \notin named
              \/ /\ my_peer' \in Configs
                 /\ \A i \in DOMAIN peers' : peers'[i] \in named =>
                       \E j \in i..Len(peers') : peers'[j] = my_peer'
           /\ my_peer' # None => pc' = "tempsave" /\ result' = result
           /\ my_peer' = None => pc' = "result" /\ result' = -1
           /\ UNCHANGED <<serverVars, body, oldconfig, file, loopVars, signalVars, diskVars,
                          boundVars>>
<1>1. body \in Configs
  BY DEF TypeInv, TypeOK, Parse, AtHand, Contents, Configs
<1>2. peers \in Seq(Configs)
  BY DEF TypeInv, TypeOK, Configs
<1>3. peers' = AddEntries(body) /\ peers' \in Seq(Configs)
  BY <1>1, <1>2, AddEntriesProperties DEF Parse
<1> DEFINE Named == {i \in DOMAIN peers' : peers'[i] \in named}
<1>4. my_peer' = IF Named = {} THEN my_peer ELSE peers'[Max(Named)]
  BY <1>3 DEF Parse
<1>5. Named # {} => /\ Max(Named) \in DOMAIN peers' /\ DOMAIN peers' = 1..Len(peers')
                    /\ \A i \in Named : Max(Named) \in i..Len(peers')
  <2>1. Len(peers') \in Nat /\ DOMAIN peers' = 1..Len(peers')
    BY <1>3, LenProperties
  <2>2. Named \in SUBSET (1..Len(peers'))
    BY <2>1
  <2>3. Named # {} => Max(Named) \in Named /\ \A i \in Named : i <= Max(Named)
    <3> HIDE DEF Named
    <3> QED
      BY <2>1, <2>2, MaxNat
  <2>4. Named # {} => /\ Max(Named) \in 1..Len(peers')
                      /\ \A i \in Named : Max(Named) \in i..Len(peers')
    <3> HIDE DEF Named
    <3>1. Named # {} => Max(Named) \in 1..Len(peers')
      BY <2>2, <2>3
    <3>2. ASSUME Named # {}, NEW i \in Named PROVE Max(Named) \in i..Len(peers')
      <4>1. i \in 1..Len(peers') /\ i <= Max(Named)
        BY <2>2, <2>3, <3>2
      <4> QED
        BY <2>1, <3>1, <3>2, <4>1
    <3> QED
      BY <3>1, <3>2
  <2> HIDE DEF Named
  <2> QED
    BY <2>1, <2>4
<1>6. \/ my_peer' = my_peer /\ \A i \in DOMAIN peers' : peers'[i] \notin named
      \/ /\ my_peer' \in Configs
         /\ \A i \in DOMAIN peers' : peers'[i] \in named =>
               \E j \in i..Len(peers') : peers'[j] = my_peer'
  <2>1. CASE Named = {}
    BY <1>4, <2>1
  <2>2. CASE Named # {}
    <3>1. my_peer' = peers'[Max(Named)]
      BY <1>4, <2>2
    <3>2. my_peer' \in Configs
      BY <1>3, <1>5, <2>2, <3>1, ElementOfSeq
    <3>3. ASSUME NEW i \in DOMAIN peers', peers'[i] \in named
          PROVE  \E j \in i..Len(peers') : peers'[j] = my_peer'
      <4>1. i \in Named
        BY <3>3
      <4> HIDE DEF Named
      <4>2. Max(Named) \in i..Len(peers')
        BY <1>5, <2>2, <4>1
      <4> QED
        BY <3>1, <4>2
    <3> QED
      BY <3>2, <3>3
  <2> QED
    BY <2>1, <2>2
<1>7. IF my_peer' = None THEN Return(-1) ELSE Goto("tempsave") /\ UNCHANGED result
  BY DEF Parse
<1>8. UNCHANGED <<serverVars, body, oldconfig, file, loopVars, signalVars, diskVars,
                  boundVars>>
  BY DEF Parse
<1> QED
  BY <1>1, <1>3, <1>6, <1>7, <1>8 DEF Return, Goto

\* The state in which main enters the first fetch has the right types.
LEMMA InitType == Init => TypeInv
<1> SUFFICES ASSUME Init PROVE TypeInv
  OBVIOUS
<1>1. disk \in [DOMAIN Files -> Seq(Versions \cup {Junk}) \cup {Torn}]
  BY EmptySeq DEF Init
<1>2. peers \in Seq(Versions \cup {Junk})
  BY EmptySeq DEF Init
<1> QED
  BY <1>1, <1>2, UpdaterAssumption, SixFiles
     DEF Init, TypeInv, TypeOK, AtHand, Accepted, Versions, Contents, None, Junk, Locations

\* Every step of the parent, its server and its clock keeps the types.
LEMMA NextType == ASSUME TypeInv, [Next]_vars PROVE TypeInv'
<1> USE UpdaterAssumption, SixFiles
    DEF TypeInv, TypeOK, AtHand, Accepted, Versions, Contents, None, Junk, Locations, Hosts,
        serverVars, signalVars, configVars, diskVars, boundVars, loopVars
<1>1. CASE Publish
  BY <1>1 DEF Publish
<1>2. CASE Tick
  BY <1>2 DEF Tick
<1>3. CASE Request
  BY <1>3 DEF Request, Goto
<1>4. CASE NetworkError
  BY <1>4 DEF NetworkError, Goto
<1>5. CASE NotModified
  BY <1>5 DEF NotModified, Goto
<1>6. CASE Downloaded
  BY <1>6 DEF Downloaded, AdvanceIms, Goto
<1>7. CASE DownloadedDamaged
  BY <1>7 DEF DownloadedDamaged, AdvanceIms, Goto
<1>8. CASE LoadPrevious
  <2>1. UNCHANGED <<serverVars, configVars, file, loopVars, signalVars, diskVars, boundVars>>
    BY <1>8 DEF LoadPrevious
  <2>2. CASE saved = None
    <3>1. pc' = "result" /\ result' = -1 /\ body' = body
      BY <1>8, <2>2 DEF LoadPrevious, Return, Goto
    <3> QED
      BY <2>1, <3>1
  <2>3. CASE saved # None
    <3>1. pc' = "compare" /\ result' = result /\ body' = saved
      BY <1>8, <2>3 DEF LoadPrevious, Goto
    <3> QED
      BY <2>1, <2>3, <3>1
  <2> QED
    BY <2>2, <2>3
<1>9. CASE Compare
  BY <1>9 DEF Compare, Return, Goto
<1>10. CASE ParseConfig
  <2>1. PICK junk \in {{}, {Junk}} : Parse((Versions \ Peerless) \cup junk)
    BY <1>10 DEF ParseConfig
  <2> DEFINE named == (Versions \ Peerless) \cup junk
  <2>2. named \in SUBSET Configs
    BY DEF Configs
  <2> HIDE DEF named
  <2>3. /\ body \in Configs /\ peers' \in Seq(Configs)
        /\ my_peer' = my_peer \/ my_peer' \in Configs
        /\ my_peer' # None => pc' = "tempsave" /\ result' = result
        /\ my_peer' = None => pc' = "result" /\ result' = -1
        /\ UNCHANGED <<serverVars, body, oldconfig, file, loopVars, signalVars, diskVars,
                       boundVars>>
    BY <2>1, <2>2, ParseProperties DEF named
  <2>4. my_peer' \in Contents
    BY <2>3 DEF Configs
  <2>5. pc' \in {"tempsave", "result"} /\ result' \in {-1, 0, 1} /\ body # None
    BY <2>3 DEF Configs
  <2>6. peers' \in Seq(Versions \cup {Junk})
    BY <2>3 DEF Configs
  <2> QED
    BY <2>3, <2>4, <2>5, <2>6
<1>11. CASE ParseFails
  <2>1. body \in Configs
    BY <1>11 DEF ParseFails, Contents, Configs
  <2>2. peers' \in Seq(Versions \cup {Junk})
    BY <1>11, <2>1, AddEntriesProperties DEF ParseFails, Configs
  <2> QED
    BY <1>11, <2>2 DEF ParseFails, Return, Goto
<1>12. CASE Tempsave
  BY <1>12 DEF Tempsave, Goto
<1>13. CASE TempsaveFails
  <2>1. saved' \in Contents /\ overlooked' \subseteq {"copy", "files"}
    BY <1>13 DEF TempsaveFails
  <2> QED
    BY <1>13, <2>1 DEF TempsaveFails, Goto
<1>14. CASE CleanupHosts
  <2>1. disk' \in [DOMAIN Files -> Seq(Versions \cup {Junk}) \cup {Torn}]
    BY <1>14, EmptySeq DEF CleanupHosts
  <2> QED
    BY <1>14, <2>1 DEF CleanupHosts, Goto
<1>15. CASE CleanupFails
  <2>1. disk' \in [DOMAIN Files -> Seq(Versions \cup {Junk}) \cup {Torn}]
    BY <1>15 DEF CleanupFails, Leftovers
  <2> QED
    BY <1>15, <2>1 DEF CleanupFails, Return, Goto
<1>16. CASE WriteFile
  <2>1. disk' \in [DOMAIN Files -> Seq(Versions \cup {Junk}) \cup {Torn}]
    BY <1>16 DEF WriteFile
  <2>2. peers' \in Seq(Versions \cup {Junk})
    <3>1. peers' = peers \/ peers' = <<>>
      BY <1>16 DEF WriteFile, NextFile
    <3> QED
      BY <3>1, EmptySeq
  <2>3. CASE file < 6
    <3>1. file' = file + 1 /\ file' \in 1..6 /\ UNCHANGED <<pc, result>>
      BY <1>16, <2>3 DEF WriteFile, NextFile
    <3>2. UNCHANGED <<serverVars, body, oldconfig, my_peer, loopVars, signalVars, saved,
                      overlooked, boundVars>>
      BY <1>16 DEF WriteFile
    <3> QED
      BY <2>1, <2>2, <3>1, <3>2
  <2>4. CASE ~(file < 6)
    BY <1>16, <2>1, <2>2, <2>4 DEF WriteFile, NextFile, Return, Goto
  <2> QED
    BY <2>3, <2>4
<1>17. CASE WriteFails
  <2>1. disk' \in [DOMAIN Files -> Seq(Versions \cup {Junk}) \cup {Torn}]
    BY <1>17 DEF WriteFails
  <2> QED
    BY <1>17, <2>1 DEF WriteFails, Return, Goto
<1>18. CASE FirstResult
  <2>1. first' \in BOOLEAN
    BY <1>18, Zenon DEF FirstResult
  <2>2. /\ pc' = "sleep" /\ sent' = "START" /\ slept' = 0
        /\ UNCHANGED <<serverVars, body, configVars, file, result, signalVars, diskVars,
                       boundVars>>
    BY <1>18, Zenon DEF FirstResult, Sleep, Goto
  <2> QED
    BY <2>1, <2>2
<1>19. CASE LaterResult
  BY <1>19 DEF LaterResult, Goto
<1>20. CASE LoopEnd
  BY <1>20 DEF LoopEnd, Sleep, Goto
<1>21. CASE WakeUp
  BY <1>21 DEF WakeUp, Goto
<1>22. CASE Check
  BY <1>22 DEF Check, Goto
<1>23. CASE p_sighup
  BY <1>23 DEF p_sighup
<1>24. CASE p_sigterm
  BY <1>24 DEF p_sigterm
<1>25. CASE Crash
  <2>1. disk' \in [DOMAIN Files -> Seq(Versions \cup {Junk}) \cup {Torn}]
    <3>1. CASE disk' = disk
      BY <3>1
    <3>2. CASE disk' = [disk EXCEPT ![file] = Torn]
      BY <3>2
    <3>3. CASE disk' \in Leftovers
      BY <3>3 DEF Leftovers
    <3> QED
      BY <1>25, <3>1, <3>2, <3>3 DEF Crash
  <2>2. saved' \in Contents /\ crashed' \in 0..MaxCrashes
    BY <1>25 DEF Crash
  <2>3. /\ pc' = "crashed"
        /\ UNCHANGED <<serverVars, body, configVars, file, result, loopVars, signalVars,
                       overlooked, damaged, fails>>
    BY <1>25 DEF Crash, Goto
  <2> QED
    BY <2>1, <2>2, <2>3
<1>26. CASE Restart
  <2>1. peers' \in Seq(Versions \cup {Junk})
    BY <1>26, EmptySeq DEF Restart
  <2> QED
    BY <1>26, <2>1 DEF Restart, Goto
<1>27. CASE UNCHANGED vars
  BY <1>27 DEF vars
<1>28. CASE LoadFails
  BY <1>28 DEF LoadFails, Return, Goto
<1>29. CASE CleanupOverlooks
  <2>1. disk' \in [DOMAIN Files -> Seq(Versions \cup {Junk}) \cup {Torn}]
    BY <1>29 DEF CleanupOverlooks, Leftovers
  <2> QED
    BY <1>29, <2>1 DEF CleanupOverlooks, Goto
<1>30. CASE WriteOverlooks
  <2>1. disk' \in [DOMAIN Files -> Seq(Versions \cup {Junk}) \cup {Torn}]
    BY <1>30 DEF WriteOverlooks
  <2>2. peers' \in Seq(Versions \cup {Junk})
    <3>1. peers' = peers \/ peers' = <<>>
      BY <1>30 DEF WriteOverlooks, NextFile
    <3> QED
      BY <3>1, EmptySeq
  <2>3. CASE file < 6
    BY <1>30, <2>1, <2>2, <2>3 DEF WriteOverlooks, NextFile
  <2>4. CASE ~(file < 6)
    BY <1>30, <2>1, <2>2, <2>4 DEF WriteOverlooks, NextFile, Return, Goto
  <2> QED
    BY <2>3, <2>4
<1> QED
  BY <1>1, <1>2, <1>3, <1>4, <1>5, <1>6, <1>7, <1>8, <1>9, <1>10, <1>11, <1>12, <1>13, <1>14, <1>15, <1>16, <1>17, <1>18, <1>19, <1>20, <1>21, <1>22, <1>23, <1>24, <1>25, <1>26, <1>27, <1>28, <1>29, <1>30
     DEF Next, Answer, Fetch, MainLoop

\* Type correctness: every reachable state of the parent has its types.
THEOREM TypeCorrect == Spec => []TypeOK
<1>1. TypeInv => TypeOK
  BY DEF TypeInv
<1> QED
  BY <1>1, InitType, NextType, PTL DEF Spec

-----------------------------------------------------------------------------
(* What the writers find.                                                    *)

\* The loop is reached after the first fetch; the list ends with the accepted
\* configuration; unless a failure of this run was overlooked, each file before the
\* current one holds that list, and the hosts directory, until its turn, nothing.
WriteInv ==
    /\ pc \in {"loop", "sleep", "check"} => ~first
    /\ pc \in Accepted => peers # <<>> /\ peers[Len(peers)] = body
    /\ pc \in {"cleanup", "write"} => oldconfig = body
    /\ pc = "crashed" => crashed # 0
    /\ pc = "write" /\ "files" \notin overlooked =>
          /\ \A i \in 1..(file - 1) : disk[i] = peers
          /\ file <= Hosts => disk[Hosts] = <<>>

\* Every step keeps it; only a completed parse, the cleanup and the writers
\* have something to show.
LEMMA NextWrite == ASSUME TypeInv, WriteInv, [Next]_vars PROVE WriteInv'
<1> USE UpdaterAssumption, SixFiles
    DEF WriteInv, Accepted, Hosts,
        serverVars, signalVars, configVars, diskVars, boundVars, loopVars
<1>1. CASE Publish
  BY <1>1 DEF Publish
<1>2. CASE Tick
  BY <1>2 DEF Tick
<1>3. CASE Request
  BY <1>3 DEF Request, Goto
<1>4. CASE NetworkError
  BY <1>4 DEF NetworkError, Goto
<1>5. CASE NotModified
  BY <1>5 DEF NotModified, Goto
<1>6. CASE Downloaded
  BY <1>6 DEF Downloaded, AdvanceIms, Goto
<1>7. CASE DownloadedDamaged
  BY <1>7 DEF DownloadedDamaged, AdvanceIms, Goto
<1>8. CASE LoadPrevious
  BY <1>8 DEF LoadPrevious, Return, Goto
<1>9. CASE Compare
  BY <1>9 DEF Compare, Return, Goto
<1>10. CASE ParseConfig
  <2>1. PICK junk \in {{}, {Junk}} : Parse((Versions \ Peerless) \cup junk)
    BY <1>10 DEF ParseConfig
  <2>2. (Versions \ Peerless) \cup junk \in SUBSET Configs
    BY DEF Configs
  <2>3. /\ body \in Configs /\ peers' = AddEntries(body)
        /\ my_peer' # None => pc' = "tempsave"
        /\ my_peer' = None => pc' = "result"
        /\ body' = body
    BY <2>1, <2>2, ParseProperties, Zenon
  <2>4. peers' # <<>> /\ peers'[Len(peers')] = body
    BY <2>3, AddEntriesProperties DEF TypeInv, TypeOK, Configs
  <2> QED
    BY <2>3, <2>4
<1>11. CASE ParseFails
  BY <1>11 DEF ParseFails, Return, Goto
<1>12. CASE Tempsave
  BY <1>12 DEF Tempsave, Goto
<1>13. CASE TempsaveFails
  BY <1>13 DEF TempsaveFails, Goto
<1>14. CASE CleanupHosts
  BY <1>14 DEF CleanupHosts, Goto, TypeInv, TypeOK
<1>15. CASE CleanupFails
  BY <1>15 DEF CleanupFails, Return, Goto
<1>16. CASE WriteFile
  <2>1. CASE file < 6
    <3>1. pc' = "write" /\ file' = file + 1 /\ UNCHANGED <<peers, body, oldconfig, overlooked>>
      BY <1>16, <2>1 DEF WriteFile, NextFile
    <3>2. "files" \notin overlooked =>
             /\ \A i \in 1..file : disk'[i] = peers
             /\ file + 1 <= 2 => disk'[2] = <<>>
      BY <1>16, <2>1 DEF WriteFile, TypeInv, TypeOK
    <3> QED
      BY <1>16, <3>1, <3>2 DEF WriteFile, TypeInv, TypeOK
  <2>2. CASE ~(file < 6)
    BY <1>16, <2>2 DEF WriteFile, NextFile, Return, Goto
  <2> QED
    BY <2>1, <2>2
<1>17. CASE WriteFails
  BY <1>17 DEF WriteFails, Return, Goto
<1>18. CASE FirstResult
  <2>1. pc' = "sleep" /\ ~first'
    BY <1>18, Zenon DEF FirstResult, Sleep, Goto
  <2> QED
    BY <2>1
<1>19. CASE LaterResult
  BY <1>19 DEF LaterResult, Goto
<1>20. CASE LoopEnd
  BY <1>20 DEF LoopEnd, Sleep, Goto
<1>21. CASE WakeUp
  BY <1>21 DEF WakeUp, Goto
<1>22. CASE Check
  BY <1>22 DEF Check, Goto
<1>23. CASE p_sighup
  BY <1>23 DEF p_sighup
<1>24. CASE p_sigterm
  BY <1>24 DEF p_sigterm
<1>25. CASE Crash
  BY <1>25 DEF Crash, Goto, TypeInv, TypeOK
<1>26. CASE Restart
  BY <1>26 DEF Restart, Goto
<1>27. CASE UNCHANGED vars
  BY <1>27 DEF vars
<1>28. CASE LoadFails
  BY <1>28 DEF LoadFails, Return, Goto
<1>29. CASE CleanupOverlooks
  BY <1>29 DEF CleanupOverlooks, Goto
<1>30. CASE WriteOverlooks
  BY <1>30 DEF WriteOverlooks, NextFile, Return, Goto
<1> QED
  BY <1>1, <1>2, <1>3, <1>4, <1>5, <1>6, <1>7, <1>8, <1>9, <1>10, <1>11, <1>12,
     <1>13, <1>14, <1>15, <1>16, <1>17, <1>18, <1>19, <1>20, <1>21, <1>22,
     <1>23, <1>24, <1>25, <1>26, <1>27, <1>28, <1>29, <1>30
     DEF Next, Answer, Fetch, MainLoop

-----------------------------------------------------------------------------
(* No way back to an older configuration.                                    *)

\* Nothing is newer than what the server offers; $tmpconffile holds the accepted
\* configuration or nothing, unless it could be neither written nor removed; a
\* configuration at hand is at least as new as the accepted one, unless it came
\* unsigned or from such a copy.
VersionInv ==
    /\ body <= srv /\ oldconfig <= srv /\ saved <= srv
    /\ oldconfig \in Versions /\ pc # "crashed" =>
          saved \in {oldconfig, None} \/ "copy" \in overlooked
    /\ oldconfig \in Versions /\ pc \in {"compare", "parse", "tempsave"} =>
          body >= oldconfig \/ (body = Junk /\ ~Signed) \/ StaleCopy

\* Every step keeps it: a download brings what the server offers now, the
\* fallback what was accepted, and storing makes the two agree again.
LEMMA NextVersion == ASSUME TypeInv, TypeInv', VersionInv, [Next]_vars PROVE VersionInv'
<1> USE UpdaterAssumption
    DEF VersionInv, StaleCopy, TypeInv, TypeOK, AtHand, Accepted, Versions, Contents, None, Junk,
        serverVars, signalVars, configVars, diskVars, boundVars, loopVars
<1>1. CASE Publish
  BY <1>1 DEF Publish
<1>2. CASE Tick
  BY <1>2 DEF Tick
<1>3. CASE Request
  BY <1>3 DEF Request, Goto
<1>4. CASE NetworkError
  BY <1>4 DEF NetworkError, Goto
<1>5. CASE NotModified
  BY <1>5 DEF NotModified, Goto
<1>6. CASE Downloaded
  BY <1>6 DEF Downloaded, AdvanceIms, Goto
<1>7. CASE DownloadedDamaged
  BY <1>7 DEF DownloadedDamaged, AdvanceIms, Goto
<1>8. CASE LoadPrevious
  BY <1>8 DEF LoadPrevious, Return, Goto
<1>9. CASE Compare
  BY <1>9 DEF Compare, Return, Goto
<1>10. CASE ParseConfig
  <2>1. PICK junk \in {{}, {Junk}} : Parse((Versions \ Peerless) \cup junk)
    BY <1>10 DEF ParseConfig
  <2>2. pc = "parse" /\ UNCHANGED <<serverVars, body, oldconfig, diskVars>>
    BY <2>1 DEF Parse
  <2> QED
    BY <2>2
<1>11. CASE ParseFails
  BY <1>11 DEF ParseFails, Return, Goto
<1>12. CASE Tempsave
  BY <1>12 DEF Tempsave, Goto
<1>13. CASE TempsaveFails
  BY <1>13 DEF TempsaveFails, Goto
<1>14. CASE CleanupHosts
  BY <1>14 DEF CleanupHosts, Goto
<1>15. CASE CleanupFails
  BY <1>15 DEF CleanupFails, Return, Goto
<1>16. CASE WriteFile
  BY <1>16 DEF WriteFile, NextFile, Return, Goto
<1>17. CASE WriteFails
  BY <1>17 DEF WriteFails, Return, Goto
<1>18. CASE FirstResult
  <2>1. pc' = "sleep" /\ pc = "result" /\ UNCHANGED <<serverVars, body, configVars, diskVars>>
    BY <1>18, Zenon DEF FirstResult, Sleep, Goto
  <2> QED
    BY <2>1
<1>19. CASE LaterResult
  BY <1>19 DEF LaterResult, Goto
<1>20. CASE LoopEnd
  BY <1>20 DEF LoopEnd, Sleep, Goto
<1>21. CASE WakeUp
  BY <1>21 DEF WakeUp, Goto
<1>22. CASE Check
  BY <1>22 DEF Check, Goto
<1>23. CASE p_sighup
  BY <1>23 DEF p_sighup
<1>24. CASE p_sigterm
  BY <1>24 DEF p_sigterm
<1>25. CASE Crash
  BY <1>25 DEF Crash, Goto
<1>26. CASE Restart
  BY <1>26 DEF Restart, Goto
<1>27. CASE UNCHANGED vars
  BY <1>27 DEF vars
<1>28. CASE LoadFails
  BY <1>28 DEF LoadFails, Return, Goto
<1>29. CASE CleanupOverlooks
  BY <1>29 DEF CleanupOverlooks, Goto
<1>30. CASE WriteOverlooks
  BY <1>30 DEF WriteOverlooks, NextFile, Return, Goto
<1> QED
  BY <1>1, <1>2, <1>3, <1>4, <1>5, <1>6, <1>7, <1>8, <1>9, <1>10, <1>11, <1>12,
     <1>13, <1>14, <1>15, <1>16, <1>17, <1>18, <1>19, <1>20, <1>21, <1>22,
     <1>23, <1>24, <1>25, <1>26, <1>27, <1>28, <1>29, <1>30
     DEF Next, Answer, Fetch, MainLoop

\* The initial state has it: nothing was fetched yet.
LEMMA InitVersion == Init => VersionInv
  BY UpdaterAssumption DEF Init, VersionInv, Versions, None

\* With a signkey a running chaosvpn never goes back to an older configuration,
\* whatever downloads, writes and crashes go wrong in whatever order, except when
\* the stored copy could be neither written nor removed and is older.
THEOREM NeverRollsBack == ASSUME Signed PROVE Spec => NoRollback
<1>1. TypeInv /\ TypeInv' /\ VersionInv /\ [Next]_vars =>
          [(pc # "crashed" /\ oldconfig \in Versions /\ ~StaleCopy)
              => oldconfig' >= oldconfig]_vars
  <2> SUFFICES ASSUME TypeInv, TypeInv', VersionInv, Next,
                      pc # "crashed", oldconfig \in Versions, ~StaleCopy
               PROVE  oldconfig' >= oldconfig
    BY DEF vars
  <2>1. oldconfig' = oldconfig \/ (pc = "tempsave" /\ oldconfig' = body)
    <3> USE DEF configVars
    <3>1. CASE Tempsave \/ TempsaveFails
      BY <3>1 DEF Tempsave, TempsaveFails
    <3>2. CASE Restart
      BY <3>2 DEF Restart
    <3>3. CASE ParseConfig
      BY <3>3 DEF ParseConfig, Parse
    <3>4. CASE Fetch /\ ~(Tempsave \/ TempsaveFails \/ ParseConfig)
      BY <3>4 DEF Fetch, Request, LoadPrevious, LoadFails, Compare, ParseFails,
                  CleanupHosts, CleanupOverlooks, CleanupFails, WriteFile,
                  WriteOverlooks, WriteFails
    <3>5. CASE MainLoop
      BY <3>5 DEF MainLoop, FirstResult, LaterResult, LoopEnd, WakeUp, Check
    <3>6. CASE Publish \/ Tick \/ NetworkError \/ Answer \/ p_sighup \/ p_sigterm \/ Crash
      BY <3>6 DEF Publish, Tick, NetworkError, Answer, NotModified, Downloaded,
                  DownloadedDamaged, p_sighup, p_sigterm, Crash
    <3> QED
      BY <3>1, <3>2, <3>3, <3>4, <3>5, <3>6 DEF Next, Fetch
  <2>2. pc = "tempsave" => body >= oldconfig
    BY DEF VersionInv, TypeInv, TypeOK, Contents, Versions, None, Junk
  <2>3. oldconfig \in Int
    BY UpdaterAssumption DEF Versions
  <2> QED
    BY <2>1, <2>2, <2>3
<1> QED
  BY <1>1, InitType, NextType, InitVersion, NextVersion, PTL DEF Spec, NoRollback

-----------------------------------------------------------------------------
(* my_peer points into the list.                                             *)

\* Only a parse changes the list or my_peer and goes on to write files, and it
\* takes the last entry that names this node.
LEMMA NextPeer == ASSUME TypeInv, MyPeerIsListed, [Next]_vars PROVE MyPeerIsListed'
<1> USE DEF serverVars, signalVars, configVars, diskVars, boundVars, loopVars
<1>1. CASE ParseConfig
  <2>1. PICK junk \in {{}, {Junk}} : Parse((Versions \ Peerless) \cup junk)
    BY <1>1 DEF ParseConfig
  <2> DEFINE named == (Versions \ Peerless) \cup junk
  <2>2. named \in SUBSET Configs /\ Versions \ Peerless \subseteq named
    BY DEF Configs
  <2> HIDE DEF named
  <2>3. \/ my_peer' = my_peer /\ \A i \in DOMAIN peers' : peers'[i] \notin named
        \/ \A i \in DOMAIN peers' : peers'[i] \in named =>
              \E j \in i..Len(peers') : peers'[j] = my_peer'
    BY <2>1, <2>2, ParseProperties DEF named
  <2> QED
    BY <2>2, <2>3 DEF MyPeerIsListed
<1>2. CASE /\ pc' \notin {"tempsave", "cleanup", "write"}
  BY <1>2 DEF MyPeerIsListed
<1>3. CASE /\ pc \in {"tempsave", "cleanup", "write"} /\ UNCHANGED <<peers, my_peer>>
  BY <1>3 DEF MyPeerIsListed
<1>4. \/ ParseConfig \/ pc' \notin {"tempsave", "cleanup", "write"}
      \/ pc \in {"tempsave", "cleanup", "write"} /\ UNCHANGED <<peers, my_peer>>
  <2>1. CASE Publish \/ Tick \/ p_sighup \/ p_sigterm \/ UNCHANGED vars
    BY <2>1 DEF Publish, Tick, p_sighup, p_sigterm, vars
  <2>2. CASE NetworkError \/ Answer \/ Crash \/ Restart
    BY <2>2 DEF NetworkError, Answer, NotModified, Downloaded, DownloadedDamaged,
                Crash, Restart, Goto
  <2>3. CASE MainLoop
    BY <2>3 DEF MainLoop, FirstResult, LaterResult, LoopEnd, WakeUp, Check, Sleep, Goto
  <2>4. CASE Request \/ LoadPrevious \/ LoadFails \/ Compare \/ ParseFails \/ CleanupFails
                \/ WriteFails
    BY <2>4 DEF Request, LoadPrevious, LoadFails, Compare, ParseFails, CleanupFails,
                WriteFails, Return, Goto
  <2>5. CASE Tempsave \/ TempsaveFails \/ CleanupHosts \/ CleanupOverlooks
    BY <2>5 DEF Tempsave, TempsaveFails, CleanupHosts, CleanupOverlooks
  <2>6. CASE WriteFile \/ WriteOverlooks
    BY <2>6 DEF WriteFile, WriteOverlooks, NextFile, Return, Goto
  <2> QED
    BY <2>1, <2>2, <2>3, <2>4, <2>5, <2>6 DEF Next, Fetch
<1> QED
  BY <1>1, <1>2, <1>3, <1>4

\* The initial state has the invariants: nothing was fetched or written yet.
LEMMA InitWrite == Init => WriteInv /\ MyPeerIsListed
  BY DEF Init, WriteInv, MyPeerIsListed, Accepted

\* my_peer is the last entry of this node in the list the files are written from,
\* as long as any configuration in the list has one, whatever was fetched, torn,
\* parsed in part or parsed again before: the pointer that main_free_parsed_info
\* left behind is replaced.
THEOREM MyPeerAlwaysListed == Spec => []MyPeerIsListed
  BY InitType, NextType, InitWrite, NextPeer, PTL DEF Spec

-----------------------------------------------------------------------------
(* The parent implements ConfigService.                                      *)

\* All entries of a list, or of a file, come from configurations up to v.
UpTo(list, v) == \A k \in DOMAIN list : list[k] <= v

\* As long as chaosvpn was not restarted and its stored copy is the accepted
\* configuration or removed, everything in the files stems from configurations it
\* accepted, and what is about to be written is newer.
FreshInv ==
    /\ pc # "crashed" /\ body # Junk /\ oldconfig # Junk /\ saved \in {oldconfig, None}
    /\ UpTo(peers, srv)
    /\ pc \in {"compare", "parse"} => body = oldconfig \/ UpTo(peers, body)
    /\ pc = "parse" => body # oldconfig
    /\ pc \in Accepted => UpTo(peers, body)
    /\ pc \in {"compare", "parse"} => body >= oldconfig
    /\ \A i \in 1..6 : UpTo(disk[i], oldconfig)
    /\ pc \in {"tempsave", "cleanup"} => \A i \in 1..6 : UpTo(disk[i], body - 1)
    /\ pc = "write" => \A i \in file..6 : UpTo(disk[i], body - 1)

FreshRun == crashed = 0 /\ "copy" \notin overlooked => FreshInv

\* A bound on the entries of a list stays one when it grows.
LEMMA UpToMonotonic ==
    ASSUME NEW list \in Seq(Configs) \cup {Torn}, NEW v \in Int, NEW w \in Int, v <= w,
           UpTo(list, v)
    PROVE  UpTo(list, w)
<1>1. \A k \in DOMAIN list : list[k] \in Int
  <2>1. CASE list = Torn
    BY <2>1 DEF Torn, Partial
  <2>2. CASE list \in Seq(Configs)
    BY <2>2, ElementOfSeq, LenProperties, UpdaterAssumption DEF Configs, Versions, Junk
  <2> QED
    BY <2>1, <2>2
<1> QED
  BY <1>1 DEF UpTo

\* Entries of a configuration within the bound do not exceed it.
LEMMA UpToAddEntries ==
    ASSUME peers \in Seq(Configs), NEW c \in Configs, NEW v \in Int, c <= v, UpTo(peers, v)
    PROVE  UpTo(AddEntries(c), v)
  BY AddEntriesProperties DEF UpTo

\* The empty list and a torn file hold nothing that is newer than anything.
LEMMA UpToNothing == ASSUME NEW v \in Int, v >= -1 PROVE UpTo(<<>>, v) /\ UpTo(Torn, v)
  BY DEF UpTo, Torn, Partial

\* The initial state has it: the files are empty.
LEMMA InitFresh == Init => FreshRun
<1> SUFFICES ASSUME Init PROVE FreshInv
  BY DEF FreshRun
<1>1. srv \in Int /\ UpTo(<<>>, srv) /\ UpTo(<<>>, None)
  BY UpToNothing DEF Init, None
<1>2. \A i \in 1..6 : disk[i] = <<>>
  BY SixFiles DEF Init
<1> QED
  BY <1>1, <1>2 DEF Init, FreshInv, Accepted, None, Junk

\* A file that is written, torn or left as it was holds nothing newer than the
\* accepted configuration, and those after it nothing that new.
LEMMA FreshFile ==
    ASSUME TypeInv, WriteInv, FreshInv, pc = "write", NextFile,
           UNCHANGED <<srv, body, oldconfig, saved>>,
           \A i \in 1..6 : disk'[i] = disk[i] \/ (i = file /\ disk'[i] \in {peers, Torn})
    PROVE  FreshInv'
<1>1. file \in 1..6 /\ oldconfig = body /\ UpTo(peers, body)
  BY SixFiles DEF TypeInv, TypeOK, WriteInv, FreshInv, Accepted
<1>2. body \in Int /\ body >= 1 /\ srv \in Int /\ srv >= 1
  BY UpdaterAssumption DEF TypeInv, TypeOK, AtHand, Accepted, FreshInv, Contents, Versions,
     None, Junk
<1>3. UpTo(Torn, body) /\ UpTo(<<>>, srv)
  BY <1>2, UpToNothing
<1>4. \A i \in 1..6 : UpTo(disk'[i], oldconfig)
  BY <1>1, <1>3 DEF FreshInv
<1>5. CASE file < 6
  <2>1. pc' = "write" /\ file' = file + 1 /\ UNCHANGED <<peers, srv, body, oldconfig, saved>>
    BY <1>5, SixFiles DEF NextFile
  <2>2. \A i \in file'..6 : UpTo(disk'[i], body - 1)
    BY <1>1, <2>1 DEF FreshInv
  <2> QED
    BY <1>1, <1>4, <2>1, <2>2 DEF FreshInv
<1>6. CASE ~(file < 6)
  <2>1. pc' = "result" /\ peers' = <<>>
    BY <1>6, SixFiles DEF NextFile, Return, Goto
  <2> QED
    BY <1>3, <1>4, <2>1 DEF FreshInv, Accepted
<1> QED
  BY <1>5, <1>6

\* Every step keeps it.
LEMMA NextFresh ==
    ASSUME Signed, TypeInv, WriteInv, VersionInv, FreshRun, [Next]_vars
    PROVE  FreshRun'
<1> SUFFICES ASSUME crashed' = 0, "copy" \notin overlooked' PROVE FreshInv'
  BY DEF FreshRun
<1>0. crashed = 0 /\ "copy" \notin overlooked /\ FreshInv
  <2>1. crashed \in Nat /\ (crashed' = crashed \/ crashed' = crashed + 1)
    <3> USE DEF boundVars
    <3>1. crashed \in Nat
      BY UpdaterAssumption DEF TypeInv, TypeOK
    <3>2. CASE ParseConfig
      BY <3>2, <3>1 DEF ParseConfig, Parse
    <3>3. CASE Fetch /\ ~ParseConfig
      BY <3>3, <3>1 DEF Fetch, Request, LoadPrevious, LoadFails, Compare, ParseFails,
                  Tempsave, TempsaveFails, CleanupHosts, CleanupOverlooks,
                  CleanupFails, WriteFile, WriteOverlooks, WriteFails
    <3>4. CASE MainLoop
      BY <3>4, <3>1 DEF MainLoop, FirstResult, LaterResult, LoopEnd, WakeUp, Check
    <3>5. CASE Publish \/ Tick \/ NetworkError \/ Answer \/ p_sighup \/ p_sigterm
                 \/ Crash \/ Restart \/ UNCHANGED vars
      BY <3>5, <3>1 DEF Publish, Tick, NetworkError, Answer, NotModified, Downloaded,
                  DownloadedDamaged, p_sighup, p_sigterm, Crash, Restart, vars
    <3> QED
      BY <3>2, <3>3, <3>4, <3>5 DEF Next
  <2>2. crashed = 0
    BY <2>1
  <2>3. "copy" \notin overlooked
    <3> USE DEF boundVars, diskVars
    <3>1. CASE Restart
      BY <2>2, <3>1 DEF Restart, WriteInv
    <3>2. CASE ParseConfig
      BY <3>2 DEF ParseConfig, Parse
    <3>3. CASE Fetch /\ ~ParseConfig
      BY <3>3 DEF Fetch, Request, LoadPrevious, LoadFails, Compare, ParseFails,
                  Tempsave, TempsaveFails, CleanupHosts, CleanupOverlooks,
                  CleanupFails, WriteFile, WriteOverlooks, WriteFails
    <3>4. CASE MainLoop
      BY <3>4 DEF MainLoop, FirstResult, LaterResult, LoopEnd, WakeUp, Check
    <3>5. CASE Publish \/ Tick \/ NetworkError \/ Answer \/ p_sighup \/ p_sigterm
                 \/ Crash \/ UNCHANGED vars
      BY <3>5 DEF Publish, Tick, NetworkError, Answer, NotModified, Downloaded,
                  DownloadedDamaged, p_sighup, p_sigterm, Crash, vars
    <3> QED
      BY <3>1, <3>2, <3>3, <3>4, <3>5 DEF Next
  <2> QED
    BY <2>2, <2>3 DEF FreshRun
<1>a. /\ peers \in Seq(Configs) /\ srv \in Versions /\ file \in 1..6
      /\ \A i \in 1..6 : disk[i] \in Seq(Configs) \cup {Torn}
      /\ Versions \subseteq Int /\ body \in Versions \cup {None}
      /\ oldconfig \in Versions \cup {None} /\ saved \in Versions \cup {None}
  BY <1>0, UpdaterAssumption, SixFiles
     DEF TypeInv, TypeOK, Configs, FreshInv, Contents, Versions, None
<1>b. \A v \in Versions : v \in Int /\ v >= 1
  BY UpdaterAssumption DEF Versions
<1> USE <1>0, <1>a, <1>b DEF FreshInv, Accepted, None, Junk,
        serverVars, signalVars, configVars, diskVars, boundVars, loopVars
<1>1. CASE Publish
  <2>1. UpTo(peers, srv')
    BY <1>1, UpToMonotonic DEF Publish
  <2> QED
    BY <1>1, <2>1 DEF Publish
<1>2. CASE Tick
  BY <1>2 DEF Tick
<1>3. CASE Request
  BY <1>3 DEF Request, Goto
<1>4. CASE NetworkError
  BY <1>4 DEF NetworkError, Goto
<1>5. CASE NotModified
  BY <1>5 DEF NotModified, Goto
<1>6. CASE Downloaded
  <2>1. body' = srv /\ srv >= oldconfig
    BY <1>6 DEF Downloaded, VersionInv
  <2> QED
    BY <1>6, <2>1 DEF Downloaded, AdvanceIms, Goto
<1>7. CASE DownloadedDamaged
  BY <1>7 DEF DownloadedDamaged, AdvanceIms, Goto
<1>8. CASE LoadPrevious
  BY <1>8 DEF LoadPrevious, Return, Goto
<1>9. CASE Compare
  BY <1>9 DEF Compare, Return, Goto
<1>10. CASE ParseConfig
  <2>1. PICK junk \in {{}, {Junk}} : Parse((Versions \ Peerless) \cup junk)
    BY <1>10 DEF ParseConfig
  <2>2. (Versions \ Peerless) \cup junk \in SUBSET Configs
    BY DEF Configs
  <2>3. /\ body \in Configs /\ peers' = AddEntries(body)
        /\ my_peer' # None => pc' = "tempsave"
        /\ my_peer' = None => pc' = "result"
        /\ UNCHANGED <<body, oldconfig, srv, saved, disk>>
    BY <2>1, <2>2, ParseProperties, Zenon
  <2>4. pc = "parse" /\ body \in Versions /\ body > oldconfig /\ UpTo(peers, body)
    BY <2>1, <2>3 DEF Parse, Configs
  <2>5. UpTo(AddEntries(body), body) /\ UpTo(AddEntries(body), srv)
    BY <2>3, <2>4, UpToAddEntries DEF VersionInv
  <2>6. \A i \in 1..6 : UpTo(disk[i], body - 1)
    <3>1. oldconfig \in Int /\ body - 1 \in Int /\ oldconfig <= body - 1
      BY <2>4
    <3> QED
      BY <3>1, UpToMonotonic
  <2> QED
    BY <2>3, <2>4, <2>5, <2>6
<1>11. CASE ParseFails
  <2>1. pc = "parse" /\ body \in Configs /\ body <= srv
    BY <1>11 DEF ParseFails, Configs, TypeInv, AtHand, VersionInv
  <2>2. UpTo(peers', srv)
    BY <1>11, <2>1, UpToAddEntries DEF ParseFails
  <2> QED
    BY <1>11, <2>1, <2>2 DEF ParseFails, Return, Goto
<1>12. CASE Tempsave
  <2>1. \A i \in 1..6 : UpTo(disk[i], body)
    <3>1. body \in Int /\ body - 1 \in Int /\ body - 1 <= body
      OBVIOUS
    <3>2. \A i \in 1..6 : UpTo(disk[i], body - 1)
      BY <1>12 DEF Tempsave
    <3> QED
      BY <3>1, <3>2, UpToMonotonic
  <2> QED
    BY <1>12, <2>1 DEF Tempsave, Goto
<1>13. CASE TempsaveFails
  <2>1. \A i \in 1..6 : UpTo(disk[i], body)
    <3>1. body \in Int /\ body - 1 \in Int /\ body - 1 <= body
      OBVIOUS
    <3>2. \A i \in 1..6 : UpTo(disk[i], body - 1)
      BY <1>13 DEF TempsaveFails
    <3> QED
      BY <3>1, <3>2, UpToMonotonic
  <2> QED
    BY <1>13, <2>1 DEF TempsaveFails, Goto
<1>14. CASE CleanupHosts
  <2>1. \A i \in 1..6 : disk'[i] = IF i = Hosts THEN <<>> ELSE disk[i]
    BY <1>14, SixFiles DEF CleanupHosts, TypeInv, TypeOK
  <2>2. body \in Versions
    BY <1>14 DEF CleanupHosts, TypeInv, AtHand
  <2>3. UpTo(<<>>, body - 1) /\ UpTo(<<>>, oldconfig)
    BY <2>2, UpToNothing
  <2>4. \A i \in 1..6 : UpTo(disk'[i], body - 1) /\ UpTo(disk'[i], oldconfig)
    BY <1>14, <2>1, <2>3 DEF CleanupHosts
  <2> QED
    BY <1>14, <2>4 DEF CleanupHosts, Goto
<1>15. CASE CleanupFails
  <2>1. \A i \in 1..6 : disk'[i] = disk[i] \/ disk'[i] = Torn
    BY <1>15, SixFiles DEF CleanupFails, Leftovers, TypeInv, TypeOK
  <2>2. UpTo(Torn, oldconfig)
    BY UpToNothing
  <2>3. \A i \in 1..6 : UpTo(disk'[i], oldconfig)
    BY <2>1, <2>2
  <2> QED
    BY <1>15, <2>3 DEF CleanupFails, Return, Goto
<1>16. CASE WriteFile
  <2>1. \A i \in 1..6 : disk'[i] = disk[i] \/ (i = file /\ disk'[i] \in {peers, Torn})
    BY <1>16, SixFiles DEF WriteFile, TypeInv, TypeOK, Hosts
  <2> QED
    BY <1>16, <2>1, FreshFile DEF WriteFile, vars
<1>17. CASE WriteFails
  <2>1. UpTo(Torn, oldconfig)
    BY UpToNothing
  <2>2. \A i \in 1..6 : UpTo(disk'[i], oldconfig)
    BY <1>17, <2>1, SixFiles DEF WriteFails, TypeInv, TypeOK
  <2> QED
    BY <1>17, <2>2 DEF WriteFails, Return, Goto
<1>18. CASE FirstResult
  <2>1. pc' = "sleep" /\ pc = "result" /\ UNCHANGED <<srv, body, configVars, diskVars>>
    BY <1>18, Zenon DEF FirstResult, Sleep, Goto
  <2> QED
    BY <2>1
<1>19. CASE LaterResult
  BY <1>19 DEF LaterResult, Goto
<1>20. CASE LoopEnd
  BY <1>20 DEF LoopEnd, Sleep, Goto
<1>21. CASE WakeUp
  BY <1>21 DEF WakeUp, Goto
<1>22. CASE Check
  BY <1>22 DEF Check, Goto
<1>23. CASE p_sighup
  BY <1>23 DEF p_sighup
<1>24. CASE p_sigterm
  BY <1>24 DEF p_sigterm
<1>25. CASE Crash
  BY <1>25 DEF Crash
<1>26. CASE Restart
  BY <1>26 DEF Restart, Goto
<1>27. CASE UNCHANGED vars
  BY <1>27 DEF vars
<1>28. CASE LoadFails
  BY <1>28 DEF LoadFails, Return, Goto
<1>29. CASE CleanupOverlooks
  <2>1. \A i \in 1..6 : disk'[i] = disk[i] \/ disk'[i] = Torn
    BY <1>29, SixFiles DEF CleanupOverlooks, Leftovers, TypeInv, TypeOK
  <2>2. body \in Versions
    BY <1>29 DEF CleanupOverlooks, TypeInv, AtHand
  <2>3. UpTo(Torn, body - 1) /\ UpTo(Torn, oldconfig)
    BY <2>2, UpToNothing
  <2>4. \A i \in 1..6 : UpTo(disk'[i], body - 1) /\ UpTo(disk'[i], oldconfig)
    BY <1>29, <2>1, <2>3 DEF CleanupOverlooks
  <2> QED
    BY <1>29, <2>4 DEF CleanupOverlooks, Goto
<1>30. CASE WriteOverlooks
  <2>1. \A i \in 1..6 : disk'[i] = disk[i] \/ (i = file /\ disk'[i] \in {peers, Torn})
    BY <1>30, SixFiles DEF WriteOverlooks, TypeInv, TypeOK, Hosts
  <2> QED
    BY <1>30, <2>1, FreshFile DEF WriteOverlooks, vars
<1> QED
  BY <1>1, <1>2, <1>3, <1>4, <1>5, <1>6, <1>7, <1>8, <1>9, <1>10, <1>11, <1>12,
     <1>13, <1>14, <1>15, <1>16, <1>17, <1>18, <1>19, <1>20, <1>21, <1>22,
     <1>23, <1>24, <1>25, <1>26, <1>27, <1>28, <1>29, <1>30
     DEF Next, Answer, Fetch, MainLoop
-----------------------------------------------------------------------------
(* The refinement mapping, by name.                                          *)

State  == IF pc \in {"stopped", "crashed"} THEN pc
          ELSE IF first THEN "unstarted" ELSE "running"
Intact == IF Writing THEN None ELSE Installed
Missed == Work # "idle" /\ "files" \in overlooked

\* What the files hold, taken together, is one configuration or none.
LEMMA InstalledType == TypeOK => Installed \in Configs \cup {None}
<1> SUFFICES ASSUME TypeOK, disk[1] \notin {<<>>, Torn}
             PROVE  disk[1][Len(disk[1])] \in Configs
  BY DEF Installed
<1>1. disk[1] \in Seq(Configs)
  BY SixFiles DEF TypeOK, Configs
<1>2. Len(disk[1]) \in 1..Len(disk[1])
  BY <1>1, EmptySeq
<1> QED
  BY <1>1, <1>2, ElementOfSeq

\* A step that leaves the process where the service is idle, and the files, the
\* commands and SIGTERM alone, is not seen by the handler.
LEMMA QuietStep ==
    ASSUME {pc, pc'} \cap {"stopped", "crashed"} = {},
           Work = "idle", Work' = "idle", UNCHANGED ("copy" \in overlooked),
           UNCHANGED <<first, disk, crashed, r_sigterm, sent>>
    PROVE  UNCHANGED Service!serviceVars
<1>1. UNCHANGED Installed
  BY DEF Installed
<1>2. ~Writing /\ ~Writing'
  BY DEF Work
<1>3. UNCHANGED State /\ UNCHANGED Intact /\ UNCHANGED Missed
  BY <1>1, <1>2 DEF State, Intact, Missed
<1> QED
  BY <1>1, <1>3 DEF Service!serviceVars, State, Intact, Missed

\* The same when the files change: a set that was complete may be so no longer.
LEMMA QuietDamage ==
    ASSUME {pc, pc'} \cap {"stopped", "crashed"} = {},
           Work = "idle", Work' = "idle", UNCHANGED ("copy" \in overlooked),
           UNCHANGED <<first, crashed, r_sigterm, sent>>,
           disk' = disk \/ Installed' = None
    PROVE  Service!Next \/ UNCHANGED Service!serviceVars
<1>1. CASE disk' = disk
  BY <1>1, QuietStep
<1>2. CASE Installed' = None
  <2>1. ~Writing /\ ~Writing'
    BY DEF Work
  <2>2. UNCHANGED State /\ UNCHANGED Missed
    BY DEF State, Missed
  <2>3. Service!Damage
    BY <1>2, <2>1, <2>2 DEF Service!Damage, Service!Alive, Service!None, None, State, Missed
  <2> QED
    BY <2>3 DEF Service!Next, Service!Write
<1> QED
  BY <1>1, <1>2

\* A step that touches nothing of all this is not seen either.
LEMMA UnseenStep ==
    ASSUME UNCHANGED <<pc, first, file, result, disk, overlooked, crashed, r_sigterm, sent>>
    PROVE  UNCHANGED Service!serviceVars
<1>1. UNCHANGED Installed /\ UNCHANGED Writing
  BY DEF Installed, Writing
<1>2. UNCHANGED Work
  BY <1>1 DEF Work
<1> QED
  BY <1>1, <1>2 DEF Service!serviceVars

\* A file that is torn, or a hosts directory with rests in it, makes the set
\* incomplete.
LEMMA TornIsIncomplete ==
    ASSUME TypeInv', NEW i \in 1..6, disk'[i] = Torn
    PROVE  Installed' = None
<1>1. disk'[1] = Torn \/ ~\A k \in DOMAIN Files : disk'[k] = disk'[1]
  BY SixFiles
<1> QED
  BY <1>1 DEF Installed

\* The last file of a run makes the six files those of one list, unless a failure
\* was overlooked.
LEMMA LastFile ==
    ASSUME TypeInv, WriteInv, WriteFile, file = 6, "files" \notin overlooked
    PROVE  Installed' \in Configs
<1>2. \A i \in 1..6 : disk'[i] = peers
  BY SixFiles DEF WriteFile, WriteInv, TypeInv, TypeOK, Hosts
<1>3. peers \in Seq(Configs) /\ peers # <<>>
  BY DEF TypeInv, TypeOK, Configs, WriteInv, WriteFile, Accepted
<1>4. peers # Torn
  BY <1>3, TornIsNoList
<1>5. Installed' = peers[Len(peers)]
  BY <1>2, <1>3, <1>4, SixFiles DEF Installed
<1>6. Len(peers) \in 1..Len(peers)
  BY <1>3, EmptySeq
<1> QED
  BY <1>3, <1>5, <1>6, ElementOfSeq

\* A run that fails, and overlooked nothing before, leaves the files incomplete as
\* long as all in them is older than what is written: the file at hand still holds
\* something older, or is torn.
LEMMA FailedRun ==
    ASSUME TypeInv, WriteInv, FreshInv, WriteFails, "files" \notin overlooked
    PROVE  Installed' = None
<1>1. /\ pc = "write" /\ file \in 1..6 /\ disk \in [1..6 -> Seq(Configs) \cup {Torn}]
      /\ disk' = disk \/ disk' = [disk EXCEPT ![file] = Torn]
  BY SixFiles DEF WriteFails, TypeInv, TypeOK, Configs
<1>2. peers \in Seq(Configs) /\ peers # <<>> /\ peers[Len(peers)] = body /\ peers # Torn
  BY <1>1, TornIsNoList DEF TypeInv, TypeOK, Configs, WriteInv, Accepted
<1>3. CASE file = 1 /\ disk' = disk
  <2>1. disk'[2] = <<>>
    BY <1>1, <1>3 DEF WriteInv, Hosts
  <2> QED
    BY <2>1, SixFiles DEF Installed
<1>4. CASE file = 1 /\ disk' = [disk EXCEPT ![file] = Torn]
  <2>1. disk'[1] = Torn
    BY <1>1, <1>4
  <2> QED
    BY <2>1 DEF Installed
<1>5. CASE file # 1
  <2>1. disk'[1] = peers
    BY <1>1, <1>5 DEF WriteInv
  <2>2. disk[file] # peers
    <3>1. UpTo(disk[file], body - 1)
      BY <1>1 DEF FreshInv
    <3>2. Len(peers) \in DOMAIN peers
      BY <1>2, EmptySeq, LenProperties
    <3>3. body \in Int
      BY <1>1, UpdaterAssumption DEF TypeInv, TypeOK, Contents, Versions, None, Junk
    <3> QED
      BY <1>2, <3>1, <3>2, <3>3 DEF UpTo
  <2>3. disk'[file] # peers
    BY <1>1, <1>2, <2>2
  <2> QED
    BY <1>1, <2>1, <2>3, SixFiles DEF Installed
<1> QED
  BY <1>1, <1>3, <1>4, <1>5

\* Each file but the last, written or not, begins the run or goes on with it.
LEMMA FileRefines ==
    ASSUME TypeInv, pc = "write", NextFile, file < 6,
           UNCHANGED <<first, crashed, r_sigterm, sent>>,
           overlooked' = overlooked \/ overlooked' = overlooked \cup {"files"}
    PROVE  Service!Next \/ UNCHANGED Service!serviceVars
<1>1. pc' = "write" /\ file' = file + 1 /\ file \in 1..6
  BY SixFiles DEF NextFile, TypeInv, TypeOK
<1>2. Writing' /\ Work' = "writing" /\ UNCHANGED ("copy" \in overlooked)
  BY <1>1 DEF Writing, Work
<1>3. CASE ~Writing
  <2>1. Work = "idle"
    BY <1>3 DEF Work
  <2>2. Service!BeginWrite
    BY <1>1, <1>2, <1>3, <2>1 DEF Service!BeginWrite, Service!Alive, Service!None, None
  <2> QED
    BY <2>2 DEF Service!Next, Service!Write
<1>4. CASE Writing /\ UNCHANGED ("files" \in overlooked)
  <2>1. Work = "writing"
    BY <1>4 DEF Work
  <2> QED
    BY <1>1, <1>2, <1>4, <2>1 DEF Service!serviceVars
<1>5. CASE Writing /\ "files" \in overlooked'
  <2>1. Work = "writing"
    BY <1>5 DEF Work
  <2>2. Service!Overlook
    BY <1>1, <1>2, <1>5, <2>1 DEF Service!Overlook, Service!Alive
  <2> QED
    BY <2>2 DEF Service!Next, Service!Write
<1> QED
  BY <1>3, <1>4, <1>5

\* The last one ends it.
LEMMA RunRefines ==
    ASSUME TypeInv, pc = "write", NextFile, file = 6,
           UNCHANGED <<first, crashed, r_sigterm, sent>>,
           overlooked' = overlooked \/ overlooked' = overlooked \cup {"files"},
           Installed' \in Configs \cup {None},
           "files" \notin overlooked' => Installed' \in Configs
    PROVE  Service!Next
<1>1. pc' = "result" /\ result' = 1
  BY SixFiles DEF NextFile, Return, Goto
<1>2. Writing /\ Work = "writing" /\ ~Writing' /\ Work' = "owed"
  BY <1>1 DEF Writing, Work
<1>3. UNCHANGED ("copy" \in overlooked) /\ ("files" \in overlooked => "files" \in overlooked')
  OBVIOUS
<1>4. Service!EndWrite
  BY <1>1, <1>2, <1>3 DEF Service!EndWrite, Service!Alive, Service!None, None, Configs
<1> QED
  BY <1>4 DEF Service!Next, Service!Write

\* Every step of the parent is a step of ConfigService or not seen by the handler.
LEMMA StepRefines ==
    ASSUME TypeInv, TypeInv', WriteInv, Signed => FreshRun, [Next]_vars
    PROVE  [Service!Next]_(Service!serviceVars)
<1> SUFFICES Service!Next \/ UNCHANGED Service!serviceVars
  OBVIOUS
<1> USE DEF serverVars, signalVars, configVars, diskVars, boundVars, loopVars
<1>t. Installed \in Configs \cup {None} /\ Installed' \in Configs \cup {None}
  <2>1. Installed \in Configs \cup {None}
    BY InstalledType DEF TypeInv
  <2>2. TypeOK' => (Installed \in Configs \cup {None})'
    BY InstalledType, PTL
  <2> QED
    BY <2>1, <2>2 DEF TypeInv
<1>f. file \in 1..6
  BY SixFiles DEF TypeInv, TypeOK
<1>1. CASE Publish
  BY <1>1, UnseenStep DEF Publish
<1>2. CASE Tick
  BY <1>2, UnseenStep DEF Tick
<1>3. CASE Request
  BY <1>3, QuietStep DEF Request, Work, Writing, Goto
<1>4. CASE NetworkError
  BY <1>4, QuietStep DEF NetworkError, Work, Writing, Goto
<1>5. CASE NotModified
  BY <1>5, QuietStep DEF NotModified, Work, Writing, Goto
<1>6. CASE Downloaded
  BY <1>6, QuietStep DEF Downloaded, Work, Writing, AdvanceIms, Goto
<1>7. CASE DownloadedDamaged
  BY <1>7, QuietStep DEF DownloadedDamaged, Work, Writing, AdvanceIms, Goto
<1>8. CASE LoadPrevious
  BY <1>8, QuietStep DEF LoadPrevious, Work, Writing, Return, Goto
<1>9. CASE Compare
  BY <1>9, QuietStep DEF Compare, Work, Writing, Return, Goto
<1>10. CASE ParseConfig
  <2>1. PICK junk \in {{}, {Junk}} : Parse((Versions \ Peerless) \cup junk)
    BY <1>10 DEF ParseConfig
  <2>2. (Versions \ Peerless) \cup junk \in SUBSET Configs
    BY DEF Configs
  <2>3. /\ my_peer' # None => pc' = "tempsave" /\ result' = result
        /\ my_peer' = None => pc' = "result" /\ result' = -1
        /\ UNCHANGED <<serverVars, body, oldconfig, file, loopVars, signalVars, diskVars,
                       boundVars>>
    BY <2>1, <2>2, ParseProperties, Zenon
  <2>4. pc = "parse"
    BY <2>1 DEF Parse
  <2> QED
    BY <2>3, <2>4, QuietStep DEF Work, Writing
<1>11. CASE ParseFails
  BY <1>11, QuietStep DEF ParseFails, Work, Writing, Return, Goto
<1>12. CASE Tempsave
  BY <1>12, QuietStep DEF Tempsave, Work, Writing, Goto
<1>13. CASE TempsaveFails
  <2>1. /\ pc = "tempsave" /\ pc' = "cleanup" /\ UNCHANGED <<first, disk, crashed, r_sigterm, sent>>
        /\ overlooked' = overlooked \/ overlooked' = overlooked \cup {"copy"}
    BY <1>13 DEF TempsaveFails, Goto
  <2>2. Work = "idle" /\ Work' = "idle" /\ ~Writing /\ ~Writing'
    BY <2>1 DEF Work, Writing
  <2>3. CASE overlooked' = overlooked
    BY <2>1, <2>2, <2>3, QuietStep
  <2>4. CASE overlooked' = overlooked \cup {"copy"}
    <3>1. UNCHANGED Installed
      BY <2>1 DEF Installed
    <3>2. Service!Stale
      BY <2>1, <2>2, <2>4, <3>1 DEF Service!Stale, Service!Alive
    <3> QED
      BY <3>2 DEF Service!Next
  <2> QED
    BY <2>1, <2>3, <2>4
<1>14. CASE CleanupHosts
  <2>1. /\ pc = "cleanup" /\ pc' = "write" /\ file' = 1 /\ disk'[Hosts] = <<>>
        /\ UNCHANGED <<first, crashed, r_sigterm, sent>>
        /\ UNCHANGED ("copy" \in overlooked) /\ "files" \notin overlooked'
    BY <1>14, SixFiles DEF CleanupHosts, Goto, TypeInv, TypeOK, Hosts
  <2>2. Work = "idle" /\ Work' = "writing" /\ ~Writing /\ Writing'
    BY <2>1 DEF Work, Writing
  <2>3. Service!BeginWrite
    BY <2>1, <2>2 DEF Service!BeginWrite, Service!Alive, Service!None, None
  <2> QED
    BY <2>3 DEF Service!Next, Service!Write
<1>15. CASE CleanupFails
  <2>1. disk' = disk \/ disk'[Hosts] = Torn
    BY <1>15, SixFiles DEF CleanupFails, Leftovers, TypeInv, TypeOK, Hosts
  <2>2. disk' = disk \/ Installed' = None
    BY <2>1, TornIsIncomplete DEF Hosts
  <2>3. /\ pc = "cleanup" /\ pc' = "result" /\ result' = -1
        /\ UNCHANGED <<first, overlooked, crashed, r_sigterm, sent>>
    BY <1>15 DEF CleanupFails, Return, Goto
  <2>4. Work = "idle" /\ Work' = "idle"
    BY <2>3 DEF Work, Writing
  <2> QED
    BY <2>2, <2>3, <2>4, QuietDamage
<1>16. CASE WriteFile
  <2>1. pc = "write" /\ NextFile /\ UNCHANGED <<first, overlooked, crashed, r_sigterm, sent>>
    BY <1>16 DEF WriteFile
  <2>2. CASE file < 6
    BY <2>1, <2>2, FileRefines
  <2>3. CASE file = 6
    <3>1. "files" \notin overlooked => Installed' \in Configs
      BY <1>16, <2>3, LastFile
    <3> QED
      BY <1>t, <2>1, <2>3, <3>1, RunRefines
  <2> QED
    BY <1>f, <2>2, <2>3
<1>17. CASE WriteFails
  <2>2. /\ pc = "write" /\ pc' = "result" /\ result' = -1
        /\ UNCHANGED <<first, overlooked, crashed, r_sigterm, sent>>
    BY <1>17 DEF WriteFails, Return, Goto
  <2>3. Work' = "idle" /\ ~Writing'
    BY <2>2 DEF Work, Writing
  <2>4. CASE Writing
    <3>1. Signed /\ crashed = 0 /\ overlooked = {} => Installed' = None
      BY <1>17, FailedRun DEF FreshRun
    <3>2. Work = "writing"
      BY <2>4 DEF Work
    <3>3. overlooked \subseteq {"copy", "files"}
      BY DEF TypeInv, TypeOK
    <3>4. ~(Signed /\ crashed = 0 /\ "copy" \notin overlooked /\ "files" \notin overlooked)
             \/ Installed' = None
      BY <3>1, <3>3
    <3>5. Service!GiveUp
      BY <1>t, <2>2, <2>3, <2>4, <3>2, <3>4
         DEF Service!GiveUp, Service!Alive, Service!None, None, Configs
    <3> QED
      BY <3>5 DEF Service!Next, Service!Write
  <2>5. CASE ~Writing
    <3>1. Work = "idle"
      BY <2>2, <2>5 DEF Work
    <3>2. disk' = disk \/ disk'[file] = Torn
      BY <1>17, SixFiles DEF WriteFails, TypeInv, TypeOK
    <3>3. disk' = disk \/ Installed' = None
      BY <1>f, <3>2, TornIsIncomplete
    <3> QED
      BY <2>2, <2>3, <3>1, <3>3, QuietDamage
  <2> QED
    BY <2>4, <2>5
<1>18. CASE FirstResult
  <2>1. /\ pc = "result" /\ pc' = "sleep" /\ sent' = "START"
        /\ UNCHANGED <<disk, overlooked, crashed, r_sigterm>>
    BY <1>18, Zenon DEF FirstResult, Sleep, Goto
  <2>2. first /\ ~first'
    BY <1>18, Zenon DEF FirstResult
  <2>3. UNCHANGED Installed
    BY <2>1 DEF Installed
  <2>5. Work # "writing" /\ Work' = "idle" /\ ~Writing /\ ~Writing'
    BY <2>1 DEF Work, Writing
  <2>4. Service!SendStart
    BY <2>1, <2>2, <2>3, <2>5 DEF Service!SendStart
  <2> QED
    BY <2>4 DEF Service!Next, Service!Send
<1>19. CASE LaterResult
  <2>1. CASE result = 1
    <3>1. UNCHANGED Installed
      BY <1>19 DEF LaterResult, Installed
    <3>2. Service!SendRestart
      BY <1>19, <2>1, <3>1 DEF LaterResult, Goto, Work, Writing, Service!SendRestart
    <3> QED
      BY <3>2 DEF Service!Next, Service!Send
  <2>2. CASE result # 1
    BY <1>19, <2>2, QuietStep DEF LaterResult, Goto, Work, Writing
  <2> QED
    BY <2>1, <2>2
<1>20. CASE LoopEnd
  <2>1. CASE pc' = "stopped"
    <3>1. UNCHANGED Installed
      BY <1>20 DEF LoopEnd, Installed
    <3>2. ~first
      BY <1>20, Zenon DEF LoopEnd, WriteInv
    <3>3. Service!SendStop
      BY <1>20, <2>1, <3>1, <3>2 DEF LoopEnd, Goto, Sleep, Work, Writing, Service!SendStop
    <3> QED
      BY <3>3 DEF Service!Next, Service!Send
  <2>2. CASE pc' # "stopped"
    BY <1>20, <2>2, QuietStep DEF LoopEnd, Sleep, Goto, Work, Writing
  <2> QED
    BY <2>1, <2>2
<1>21. CASE WakeUp
  BY <1>21, QuietStep DEF WakeUp, Work, Writing, Goto
<1>22. CASE Check
  <2>1. CASE pc' = "stopped"
    <3>1. UNCHANGED Installed
      BY <1>22 DEF Check, Installed
    <3>2. ~first
      BY <1>22, Zenon DEF Check, WriteInv
    <3>3. Service!SendStop
      BY <1>22, <2>1, <3>1, <3>2 DEF Check, Goto, Sleep, Work, Writing, Service!SendStop
    <3> QED
      BY <3>3 DEF Service!Next, Service!Send
  <2>2. CASE pc' # "stopped"
    BY <1>22, <2>2, QuietStep DEF Check, Sleep, Goto, Work, Writing
  <2> QED
    BY <2>1, <2>2
<1>23. CASE p_sighup
  BY <1>23, UnseenStep DEF p_sighup
<1>24. CASE p_sigterm
  <2>1. UNCHANGED <<Installed, Work, Writing>>
    BY <1>24 DEF p_sigterm, Installed, Work, Writing
  <2>2. Service!Sigterm
    BY <1>24, <2>1 DEF p_sigterm, Service!Sigterm, Service!Alive
  <2> QED
    BY <2>2 DEF Service!Next
<1>25. CASE Crash
  <2>1. ~Writing => Installed' \in {Installed, None}
    <3>1. disk' = disk \/ disk'[file] = Torn \/ disk'[Hosts] = Torn
      BY <1>25, SixFiles DEF Crash, Leftovers, TypeInv, TypeOK, Hosts
    <3>2. CASE disk' = disk
      BY <3>2 DEF Installed
    <3>3. CASE disk' # disk
      BY <1>f, <3>1, <3>3, TornIsIncomplete DEF Hosts
    <3> QED
      BY <3>2, <3>3
  <2>2. crashed' # 0
    BY <1>25, UpdaterAssumption DEF Crash, TypeInv, TypeOK
  <2>3. /\ pc \notin {"stopped", "crashed"} /\ pc' = "crashed"
        /\ UNCHANGED <<first, overlooked, r_sigterm, sent>>
    BY <1>25 DEF Crash, Goto
  <2>4. Work' = "idle" /\ ~Writing' /\ (Writing <=> Work = "writing")
    BY <2>3 DEF Work, Writing
  <2>5. Service!Crash
    BY <1>t, <2>1, <2>2, <2>3, <2>4
       DEF Service!Crash, Service!Alive, Service!None, None, Configs
  <2> QED
    BY <2>5 DEF Service!Next
<1>26. CASE Restart
  <2>1. UNCHANGED Installed
    BY <1>26 DEF Restart, Installed
  <2>2. first' = TRUE
    BY <1>26, Zenon DEF Restart
  <2>3. pc = "crashed" /\ crashed # 0 /\ crashed' # 0
    BY <1>26 DEF Restart, WriteInv
  <2>4. Work = "idle" /\ Work' = "idle" /\ ~Writing /\ ~Writing'
    BY <1>26 DEF Restart, Goto, Work, Writing
  <2>5. Service!Restart
    BY <1>26, <2>1, <2>2, <2>3, <2>4 DEF Restart, Goto, Service!Restart
  <2> QED
    BY <2>5 DEF Service!Next
<1>27. CASE UNCHANGED vars
  BY <1>27, UnseenStep DEF vars
<1>28. CASE LoadFails
  BY <1>28, QuietStep DEF LoadFails, Work, Writing, Return, Goto
<1>29. CASE CleanupOverlooks
  <2>1. disk' = disk \/ disk'[Hosts] = Torn
    BY <1>29, SixFiles DEF CleanupOverlooks, Leftovers, TypeInv, TypeOK, Hosts
  <2>2. disk' = disk \/ Installed' = None
    BY <2>1, TornIsIncomplete DEF Hosts
  <2>3. /\ pc = "cleanup" /\ pc' = "write" /\ file' = 1 /\ disk'[Hosts] # <<>>
        /\ UNCHANGED <<first, crashed, r_sigterm, sent>>
        /\ UNCHANGED ("copy" \in overlooked)
    BY <1>29, <2>1, TornIsNoList DEF CleanupOverlooks, Goto
  <2>4. Work = "idle" /\ Work' = "idle"
    BY <2>3 DEF Work, Writing
  <2> QED
    BY <2>2, <2>3, <2>4, QuietDamage
<1>30. CASE WriteOverlooks
  <2>1. /\ pc = "write" /\ NextFile /\ UNCHANGED <<first, crashed, r_sigterm, sent>>
        /\ overlooked' = overlooked \cup {"files"}
    BY <1>30 DEF WriteOverlooks
  <2>2. CASE file < 6
    BY <2>1, <2>2, FileRefines
  <2>3. CASE file = 6
    BY <1>t, <2>1, <2>3, RunRefines
  <2> QED
    BY <1>f, <2>2, <2>3
<1> QED
  BY <1>1, <1>2, <1>3, <1>4, <1>5, <1>6, <1>7, <1>8, <1>9, <1>10, <1>11, <1>12,
     <1>13, <1>14, <1>15, <1>16, <1>17, <1>18, <1>19, <1>20, <1>21, <1>22,
     <1>23, <1>24, <1>25, <1>26, <1>27, <1>28, <1>29, <1>30
     DEF Next, Answer, Fetch, MainLoop

\* The parent implements ConfigService, whatever is published, damaged, lost, torn
\* or interrupted: RESTART announces six files of one list, unless the run met a
\* failure the code does not notice; a run of a chaosvpn that never crashed and
\* kept no stale copy leaves no complete set when it fails; STOP follows SIGTERM.
THEOREM Refinement == Spec => ServiceSpec
<1>1. Init => Service!Init
  <2> SUFFICES ASSUME Init PROVE Service!Init
    OBVIOUS
  <2>1. Installed = None
    BY SixFiles DEF Init, Installed
  <2>2. first = TRUE
    BY Zenon DEF Init
  <2> QED
    BY <2>1, <2>2 DEF Init, Service!Init, Service!None, None, Work, Writing
<1>2. TypeInv /\ WriteInv /\ VersionInv /\ (Signed => FreshRun) /\ [Next]_vars
         => (Signed => FreshRun)'
  BY NextFresh
<1>3. Init => (Signed => FreshRun)
  BY InitFresh
<1>4. TypeInv /\ TypeInv' /\ WriteInv /\ (Signed => FreshRun) /\ [Next]_vars
         => [Service!Next]_(Service!serviceVars)
  BY StepRefines
<1> QED
  BY <1>1, <1>2, <1>3, <1>4, InitType, NextType, InitVersion, NextVersion, InitWrite,
     NextWrite, PTL DEF Spec, ServiceSpec, Service!Spec
=============================================================================
