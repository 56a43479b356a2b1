-------------------------------- MODULE Updater --------------------------------
(***************************************************************************)
(* The chaosvpn parent process: its main loop, the signals it reacts to,   *)
(* and main_fetch_and_apply_config, which fetches the configuration of the *)
(* network, falls back to the stored copy, parses it and rewrites tinc's   *)
(* configuration files.  Restarts of the machine, failing writes, network  *)
(* errors and damaged downloads are part of the model.                     *)
(*                                                                         *)
(* A configuration is known by the number of the version the server        *)
(* published; what matters of its contents is whether it has an entry for  *)
(* this node ($my_peerid).                                                 *)
(***************************************************************************)
EXTENDS Integers, Sequences, SequencesExt

CONSTANTS
    MaxVersion,      \* bound: versions the server publishes
    Peerless,        \* versions without an entry for this node
    Signed,          \* config->masterdata_signkey is set
    Interval,        \* config->update_interval, in sleeps of 60 seconds
    MaxDamaged,      \* bound: downloads damaged on the way
    MaxFails,        \* bound: failing calls on files, and failing allocations
    MaxCrashes,      \* bound: crashes of the machine or of chaosvpn
    MaxSighups       \* bound: SIGHUPs

ASSUME UpdaterAssumption ==
    /\ MaxVersion \in Nat \ {0} /\ Interval \in Nat /\ Signed \in BOOLEAN
    /\ Peerless \subseteq 1..MaxVersion
    /\ MaxDamaged \in Nat /\ MaxFails \in Nat
    /\ MaxCrashes \in Nat /\ MaxSighups \in Nat

Versions == 1..MaxVersion
None     == 0                  \* no configuration: an empty string, no file
Junk     == -1                 \* bytes that are no published configuration
Contents == Versions \cup {None, Junk}
Partial  == -2                 \* the entries of a file that was not written out
Torn     == <<Partial>>

\* The files of one configuration, in the order in which they are written.
Files == <<"tinc.conf", "hosts", "tinc-up", "tinc-down", "subnet-up", "subnet-down">>
Hosts == 2

Locations ==
    { "request",   \* main_request_config: about to ask the server
      "respond",   \* waiting for the answer
      "previous",  \* main_load_previous_config
      "compare",   \* string_equals(&http_response, oldconfig)
      "parse",     \* main_parse_config
      "tempsave",  \* main_tempsave_fetched_config
      "cleanup",   \* main_cleanup_hosts_subdir
      "write",     \* one of the six tinc_write_... calls
      "result",    \* main_fetch_and_apply_config has returned
      "loop",      \* at the while (!r_sigterm && !r_sigint) of the main loop
      "sleep",     \* in sleep(60)
      "check",     \* after it, looking at signals and clock
      "stopped",   \* handler_stop() sent, main returned
      "crashed" }

VARIABLES
    \* --- the server and the clock, as far as If-Modified-Since tells them apart
    srv,       \* version the server offers
    second,    \* is it still the second of startfetchtime? "same" or "later"
    ims,       \* ifmodifiedsince: "unset", "earlier", or "start" = startfetchtime
    vstart,    \* was srv modified after startfetchtime? "new" or "old"
    vims,      \* was it modified after ifmodifiedsince?  "new" or "old"
    \* --- the parent process
    pc, first, \* location; "first": the fetch before the main loop
    body,      \* http_response
    oldconfig, \* the configuration last accepted
    peers,     \* config->peer_config: the configurations its entries come from
    my_peer,   \* configuration config->my_peer points into; None is NULL
    file,      \* index in Files of the next file to write
    result,    \* what main_fetch_and_apply_config returned
    slept,     \* sleeps since main_updated
    r_sighup, r_sigterm, \* "set" or "clear"
    sent,      \* last command to the tincd handler
    \* --- the disk
    saved,     \* contents of $tmpconffile
    disk,      \* for each file the list of configurations written into it
    overlooked, \* failures the code did not notice: "copy", $tmpconffile was neither
               \* written nor removed since the start; "files", in the last run of the
               \* writers a host file was not removed or a file not written
    \* --- bounds
    damaged, fails, crashed, sighups

serverVars == <<srv, second, ims, vstart, vims>>
signalVars == <<r_sighup, r_sigterm, sighups>>
configVars == <<oldconfig, peers, my_peer>>
diskVars   == <<saved, disk, overlooked>>
boundVars  == <<damaged, fails, crashed>>
loopVars   == <<first, slept, sent>>
vars == <<srv, second, ims, vstart, vims, pc, first, body, oldconfig, peers, my_peer,
          file, result, slept, r_sighup, r_sigterm, sent, saved, disk, overlooked, damaged,
          fails, crashed, sighups>>

TypeOK ==
    /\ srv \in Versions /\ second \in {"same", "later"}
    /\ ims \in {"unset", "earlier", "start"}
    /\ vstart \in {"new", "old"} /\ vims \in {"new", "old"}
    /\ pc \in Locations /\ first \in BOOLEAN
    /\ body \in Contents /\ oldconfig \in Contents
    /\ peers \in Seq(Versions \cup {Junk}) /\ my_peer \in Contents
    /\ file \in 1..Len(Files) /\ result \in {-1, 0, 1}
    /\ slept \in 0..(Interval + 1)
    /\ r_sighup \in {"set", "clear"} /\ r_sigterm \in {"set", "clear"}
    /\ sent \in {"none", "START", "RESTART", "STOP"}
    /\ saved \in Contents /\ disk \in [DOMAIN Files -> Seq(Versions \cup {Junk}) \cup {Torn}]
    /\ overlooked \subseteq {"copy", "files"}
    /\ damaged \in 0..MaxDamaged /\ fails \in 0..MaxFails
    /\ crashed \in 0..MaxCrashes /\ sighups \in 0..MaxSighups

Init ==
    /\ srv = 1 /\ second = "later" /\ ims = "unset" /\ vstart = "old" /\ vims = "new"
    /\ pc = "request" /\ first = TRUE /\ body = None /\ oldconfig = None
    /\ peers = <<>> /\ my_peer = None /\ file = 1 /\ result = 0 /\ slept = 0
    /\ r_sighup = "clear" /\ r_sigterm = "clear" /\ sent = "none"
    /\ saved = None /\ disk = [i \in DOMAIN Files |-> <<>>] /\ overlooked = {}
    /\ damaged = 0 /\ fails = 0 /\ crashed = 0 /\ sighups = 0

-----------------------------------------------------------------------------
(* The server, an external program, and the clock.                           *)

\* A file modified in the second If-Modified-Since names counts as unmodified.
Publish ==
    /\ srv < MaxVersion /\ srv' = srv + 1
    /\ vstart' = IF second = "same" THEN "old" ELSE "new"
    /\ vims' = IF ims = "start" /\ second = "same" THEN "old" ELSE "new"
    /\ UNCHANGED <<second, ims, pc, body, configVars, file, result, loopVars,
                   signalVars, diskVars, boundVars>>

Tick ==
    /\ second = "same" /\ second' = "later"
    /\ UNCHANGED <<srv, ims, vstart, vims, pc, body, configVars, file, result,
                   loopVars, signalVars, diskVars, boundVars>>

-----------------------------------------------------------------------------
(* main_request_config.                                                      *)

Goto(location) == pc' = location

\* startfetchtime = time(NULL); the request goes out.
Request ==
    /\ pc = "request" /\ Goto("respond")
    /\ second' = "same" /\ vstart' = "old"
    /\ ims' = IF ims = "start" /\ second = "later" THEN "earlier" ELSE ims
    /\ UNCHANGED <<srv, vims, body, configVars, file, result, loopVars, r_sighup,
                   r_sigterm, sighups, diskVars, boundVars>>

\* Mutant: If-Modified-Since advances without an answer.
NetworkError_Advances ==
    /\ pc = "respond" /\ Goto("previous") /\ ims' = "start" /\ vims' = vstart
    /\ UNCHANGED <<srv, second, vstart, body, configVars, file, result, loopVars, signalVars,
                   diskVars, boundVars>>

\* Every way to fail before the HTTP 200: no connection, a status other than 304.
NetworkError ==
    /\ pc = "respond" /\ Goto("previous")
    /\ UNCHANGED <<serverVars, body, configVars, file, result, loopVars, signalVars,
                   diskVars, boundVars>>

NotModified ==
    /\ pc = "respond" /\ vims = "old" /\ Goto("previous")
    /\ UNCHANGED <<serverVars, body, configVars, file, result, loopVars, signalVars,
                   diskVars, boundVars>>

\* ifmodifiedsince = startfetchtime
AdvanceIms == ims' = "start" /\ vims' = vstart

Downloaded ==
    /\ pc = "respond" /\ vims = "new"
    /\ AdvanceIms
    /\ body' = srv /\ Goto("compare")
    /\ UNCHANGED <<srv, second, vstart, configVars, file, result, loopVars, signalVars,
                   diskVars, boundVars>>

\* A damaged archive does not survive decryption and signature check; without a
\* signkey, data that is no archive is taken for the configuration itself.
DownloadedDamaged ==
    /\ pc = "respond" /\ vims = "new" /\ damaged < MaxDamaged
    /\ damaged' = damaged + 1
    /\ AdvanceIms
    /\ IF Signed THEN Goto("previous") /\ UNCHANGED body
                 ELSE Goto("compare") /\ body' = Junk
    /\ UNCHANGED <<srv, second, vstart, configVars, file, result, loopVars, signalVars,
                   diskVars, fails, crashed>>

-----------------------------------------------------------------------------
(* main_fetch_and_apply_config, from the answer to its return value.         *)

Return(value) == result' = value /\ Goto("result")

LoadPrevious ==
    /\ pc = "previous"
    /\ IF saved = None THEN Return(-1) /\ UNCHANGED body
                       ELSE body' = saved /\ Goto("compare") /\ UNCHANGED result
    /\ UNCHANGED <<serverVars, configVars, file, loopVars, signalVars, diskVars, boundVars>>

\* $tmpconffile is there and cannot be read.
LoadFails ==
    /\ pc = "previous" /\ fails < MaxFails /\ fails' = fails + 1
    /\ Return(-1)
    /\ UNCHANGED <<serverVars, body, configVars, file, loopVars, signalVars, diskVars,
                   damaged, crashed>>

\* Bytes of unknown origin may be empty, or the ones accepted before.  With a
\* signkey they come only from a torn $tmpconffile, and are those accepted before
\* if any were, unless it was torn since the start.
Compare ==
    /\ pc = "compare"
    /\ \/ /\ (body = oldconfig) \/ (body = Junk /\ oldconfig = None)
          /\ Return(0)
       \/ /\ (body # oldconfig) \/ (body = Junk /\ (~Signed \/ "copy" \in overlooked))
          /\ Goto("parse") /\ UNCHANGED result
    /\ UNCHANGED <<serverVars, body, configVars, file, loopVars, signalVars, diskVars,
                   boundVars>>

\* The list after more entries of configuration c.  Entries appended again by a
\* later parse of the same configuration are not told apart from the first ones.
AddEntries(c) == Append(RemoveFirst(peers, c), c)

\* Mutant: my_peer is looked up only once.
Parse_Once(named) ==
    LET list  == AddEntries(body)
        Named == {i \in DOMAIN list : list[i] \in named}
    IN  /\ pc = "parse"
        /\ peers' = list
        /\ my_peer' = IF Named = {} \/ my_peer # None THEN my_peer ELSE list[Max(Named)]
        /\ IF my_peer' = None THEN Return(-1) ELSE Goto("tempsave") /\ UNCHANGED result
        /\ UNCHANGED <<serverVars, body, oldconfig, file, loopVars, signalVars,
                       diskVars, boundVars>>

\* The entries are appended to config->peer_config.  The last entry of the list
\* that names this node becomes my_peer; without one my_peer keeps its value.
Parse(named) ==
    LET list  == AddEntries(body)
        Named == {i \in DOMAIN list : list[i] \in named}
    IN  /\ pc = "parse"
        /\ peers' = list
        /\ my_peer' = IF Named = {} THEN my_peer ELSE list[Max(Named)]
        /\ IF my_peer' = None THEN Return(-1) ELSE Goto("tempsave") /\ UNCHANGED result
        /\ UNCHANGED <<serverVars, body, oldconfig, file, loopVars, signalVars,
                       diskVars, boundVars>>

\* Truncated or foreign bytes name this node or not; no bytes fail to parse.
ParseConfig ==
    \E junk \in {{}, {Junk}} : Parse((Versions \ Peerless) \cup junk)

\* parser_parse_config fails only when memory runs out, with the entries parsed
\* so far left in the list.
ParseFails ==
    /\ pc = "parse" /\ fails < MaxFails /\ fails' = fails + 1
    /\ peers' \in {peers, AddEntries(body)}
    /\ Return(-1)
    /\ UNCHANGED <<serverVars, body, oldconfig, my_peer, file, loopVars, signalVars,
                   diskVars, damaged, crashed>>

\* The new configuration is stored and becomes oldconfig, whatever comes after.
Tempsave ==
    /\ pc = "tempsave" /\ Goto("cleanup")
    /\ saved' = body /\ oldconfig' = body
    /\ UNCHANGED <<serverVars, body, peers, my_peer, file, result, loopVars, signalVars,
                   disk, overlooked, boundVars>>

\* Mutant: a copy that cannot be written is not removed.
TempsaveFails_Keeps ==
    /\ pc = "tempsave" /\ Goto("cleanup") /\ fails < MaxFails
    /\ fails' = fails + 1 /\ oldconfig' = body
    /\ saved' \in {saved, Junk} /\ UNCHANGED overlooked
    /\ UNCHANGED <<serverVars, body, peers, my_peer, file, result, loopVars, signalVars,
                   disk, damaged, crashed>>

\* The stored copy cannot be written, and stays as it was or is torn.  It is then
\* removed; nobody notices if that fails too.
TempsaveFails ==
    /\ pc = "tempsave" /\ Goto("cleanup") /\ fails < MaxFails
    /\ fails' = fails + 1 /\ oldconfig' = body
    /\ \/ saved' = None /\ UNCHANGED overlooked
       \/ saved' \in {saved, Junk} /\ overlooked' = overlooked \cup {"copy"}
    /\ UNCHANGED <<serverVars, body, peers, my_peer, file, result, loopVars, signalVars,
                   disk, damaged, crashed>>

\* The backup that precedes it goes to another directory; its failure is ignored.
CleanupHosts ==
    /\ pc = "cleanup" /\ Goto("write")
    /\ disk' = [disk EXCEPT ![Hosts] = <<>>] /\ file' = 1
    /\ overlooked' = overlooked \ {"files"}
    /\ UNCHANGED <<serverVars, body, configVars, result, loopVars, signalVars, saved,
                   boundVars>>

\* What is left of the files in hosts/ when not all of them could be removed.
Leftovers == {disk, [disk EXCEPT ![Hosts] = Torn]}

\* The directory or an entry is not found by stat, readdir ends early, or unlink
\* fails: fs_empty_dir reports success all the same.
CleanupOverlooks ==
    /\ pc = "cleanup" /\ disk[Hosts] # <<>> /\ Goto("write")
    /\ fails < MaxFails /\ fails' = fails + 1
    /\ disk' \in Leftovers /\ file' = 1
    /\ overlooked' = overlooked \cup {"files"}
    /\ UNCHANGED <<serverVars, body, configVars, result, loopVars, signalVars, saved,
                   damaged, crashed>>

\* fs_empty_dir fails before its first unlink, or after some.
CleanupFails ==
    /\ pc = "cleanup" /\ fails < MaxFails /\ fails' = fails + 1
    /\ disk' \in IF disk[Hosts] = <<>> THEN {disk} ELSE Leftovers
    /\ Return(-1)
    /\ UNCHANGED <<serverVars, body, configVars, file, loopVars, signalVars, saved,
                   overlooked, damaged, crashed>>

\* On to the next file; after the last one the list of peers is freed.
NextFile ==
    IF file < Len(Files)
      THEN file' = file + 1 /\ UNCHANGED <<pc, result, peers>>
      ELSE Return(1) /\ peers' = <<>> /\ UNCHANGED file

\* One file is written from the list of peers.  What was left in hosts/ is
\* overwritten as far as the new list has hosts of the same names.
WriteFile ==
    /\ pc = "write"
    /\ \/ disk' = [disk EXCEPT ![file] = peers]
       \/ file = Hosts /\ disk[Hosts] # <<>> /\ disk' = [disk EXCEPT ![Hosts] = Torn]
    /\ NextFile
    /\ UNCHANGED <<serverVars, body, oldconfig, my_peer, loopVars, signalVars, saved,
                   overlooked, boundVars>>

\* Out of memory for a path: fs_writecontents_safe reports success without writing
\* the host file, and the other writers do not look at string_concat and write
\* their file somewhere else.
WriteOverlooks ==
    /\ pc = "write" /\ fails < MaxFails /\ fails' = fails + 1
    /\ \/ UNCHANGED disk
       \/ file = Hosts /\ disk' = [disk EXCEPT ![Hosts] = Torn]
    /\ overlooked' = overlooked \cup {"files"}
    /\ NextFile
    /\ UNCHANGED <<serverVars, body, oldconfig, my_peer, loopVars, signalVars, saved,
                   damaged, crashed>>

WriteFails ==
    /\ pc = "write" /\ fails < MaxFails /\ fails' = fails + 1
    /\ disk' \in {disk, [disk EXCEPT ![file] = Torn]}
    /\ Return(-1)
    /\ UNCHANGED <<serverVars, body, configVars, file, loopVars, signalVars, saved,
                   overlooked, damaged, crashed>>

-----------------------------------------------------------------------------
(* main: before and in its loop.                                             *)

\* main_updated, then the next round of the loop.
Sleep == Goto("sleep") /\ slept' = 0

\* The result of the first fetch is not looked at: tincd is started anyway.
FirstResult ==
    /\ pc = "result" /\ first
    /\ first' = FALSE /\ sent' = "START"
    /\ Sleep
    /\ UNCHANGED <<serverVars, body, configVars, file, result, signalVars, diskVars,
                   boundVars>>

\* Mutant: an error restarts tincd as well.
LaterResult_Any ==
    /\ pc = "result" /\ ~first /\ Goto("loop")
    /\ sent' = IF result # 0 THEN "RESTART" ELSE sent
    /\ UNCHANGED <<serverVars, first, slept, body, configVars, file, result, signalVars,
                   diskVars, boundVars>>

\* Only a completely written configuration restarts tincd.
LaterResult ==
    /\ pc = "result" /\ ~first /\ Goto("loop")
    /\ sent' = IF result = 1 THEN "RESTART" ELSE sent
    /\ UNCHANGED <<serverVars, first, slept, body, configVars, file, result, signalVars,
                   diskVars, boundVars>>

LoopEnd ==
    /\ pc = "loop"
    /\ IF r_sigterm = "set" THEN Goto("stopped") /\ sent' = "STOP" /\ UNCHANGED slept
                            ELSE Sleep /\ UNCHANGED sent
    /\ UNCHANGED <<serverVars, first, body, configVars, file, result, signalVars,
                   diskVars, boundVars>>

\* sleep(60) is over, or a signal has cut it short.
WakeUp ==
    /\ pc = "sleep" /\ Goto("check")
    /\ \/ slept' = (IF slept > Interval THEN slept ELSE slept + 1) /\ second' = "later"
       \/ "set" \in {r_sighup, r_sigterm} /\ UNCHANGED <<slept, second>>
    /\ UNCHANGED <<srv, ims, vstart, vims, first, body, configVars, file, result, sent,
                   signalVars, diskVars, boundVars>>

\* Mutant: the inner loop does not look at SIGTERM.
Check_Deaf ==
    /\ pc = "check"
    /\ r_sighup' = "clear"
    /\ Goto(IF r_sighup = "set" \/ slept > Interval THEN "request" ELSE "sleep")
    /\ UNCHANGED <<serverVars, first, slept, sent, body, configVars, file, result,
                   r_sigterm, sighups, diskVars, boundVars>>

\* SIGHUP first, then the clock, then SIGTERM and SIGINT.
Check ==
    /\ pc = "check"
    /\ r_sighup' = "clear"
    /\ \/ (r_sighup = "set" \/ slept > Interval) /\ Goto("request") /\ UNCHANGED sent
       \/ /\ r_sighup = "clear" /\ slept <= Interval
          /\ IF r_sigterm = "set" THEN Goto("stopped") /\ sent' = "STOP"
                                  ELSE Goto("sleep") /\ UNCHANGED sent
    /\ UNCHANGED <<serverVars, first, slept, body, configVars, file, result, r_sigterm,
                   sighups, diskVars, boundVars>>

p_sighup ==
    /\ pc \notin {"stopped", "crashed"} /\ sighups < MaxSighups
    /\ sighups' = sighups + 1 /\ r_sighup' = "set"
    /\ UNCHANGED <<serverVars, pc, body, configVars, file, result, loopVars, r_sigterm,
                   diskVars, boundVars>>

\* p_sigint does the same for SIGINT.
p_sigterm ==
    /\ pc \notin {"stopped", "crashed"} /\ r_sigterm = "clear"
    /\ r_sigterm' = "set"
    /\ UNCHANGED <<serverVars, pc, body, configVars, file, result, loopVars, r_sighup,
                   sighups, diskVars, boundVars>>

-----------------------------------------------------------------------------
(* A crash of the process or the machine, and the next start of chaosvpn.    *)

\* fs_writecontents truncates and then writes: the file at hand may be left torn.
\* So may hosts/ when it is being emptied.
Crash ==
    /\ pc \notin {"stopped", "crashed"} /\ crashed < MaxCrashes
    /\ crashed' = crashed + 1 /\ Goto("crashed")
    /\ saved' \in IF pc = "tempsave" THEN {saved, Junk} ELSE {saved}
    /\ \/ UNCHANGED disk
       \/ pc = "write" /\ disk' = [disk EXCEPT ![file] = Torn]
       \/ pc = "cleanup" /\ disk[Hosts] # <<>> /\ disk' \in Leftovers
    /\ UNCHANGED <<serverVars, body, configVars, file, result, loopVars, signalVars,
                   overlooked, damaged, fails>>

Restart ==
    /\ pc = "crashed" /\ Goto("request")
    /\ first' = TRUE /\ body' = None /\ oldconfig' = None /\ peers' = <<>>
    /\ my_peer' = None /\ file' = 1 /\ result' = 0 /\ slept' = 0 /\ sent' = "none"
    /\ r_sighup' = "clear" /\ r_sigterm' = "clear"
    /\ ims' = "unset" /\ vims' = "new" /\ second' = "later"
    /\ overlooked' = {}
    /\ UNCHANGED <<srv, vstart, sighups, saved, disk, boundVars>>

-----------------------------------------------------------------------------
\* What the server or the network answers.
Answer == NotModified \/ Downloaded \/ DownloadedDamaged

Fetch ==
    \/ Request \/ LoadPrevious \/ LoadFails \/ Compare \/ ParseConfig \/ ParseFails
    \/ Tempsave \/ TempsaveFails \/ CleanupHosts \/ CleanupOverlooks \/ CleanupFails
    \/ WriteFile \/ WriteOverlooks \/ WriteFails

MainLoop == FirstResult \/ LaterResult \/ LoopEnd \/ WakeUp \/ Check

Next ==
    \/ Publish \/ Tick \/ NetworkError \/ Answer \/ Fetch \/ MainLoop
    \/ p_sighup \/ p_sigterm \/ Crash \/ Restart

Spec == Init /\ [][Next]_vars

\* The process is scheduled and restarted after a crash, time passes, requests
\* do not hang, and a server asked again and again answers in the end.
Fairness ==
    /\ WF_vars(Fetch) /\ WF_vars(MainLoop) /\ WF_vars(Restart) /\ WF_vars(Tick)
    /\ WF_vars(NetworkError \/ Answer) /\ SF_vars(Answer)

FairSpec == Spec /\ Fairness

-----------------------------------------------------------------------------
(* Properties.                                                               *)

\* The newest configuration in all six files, if they were written from one list
\* of peers; None if they were not.
Installed ==
    IF /\ disk[1] \notin {<<>>, Torn}
       /\ \A i \in DOMAIN Files : disk[i] = disk[1]
      THEN disk[1][Len(disk[1])] ELSE None

\* The writers are at work.  As long as nothing has been removed or written yet,
\* because emptying hosts/ failed unnoticed, the files are still the old ones.
Writing == pc = "write" /\ (file > 1 \/ disk[Hosts] = <<>>)
Work    == IF Writing THEN "writing"
           ELSE IF pc = "result" /\ result = 1 THEN "owed" ELSE "idle"

\* What the handler may rely on: files that are being written do not count.
Service == INSTANCE ConfigService WITH
    Configs <- Versions \cup {Junk},
    state <- (IF pc \in {"stopped", "crashed"} THEN pc
              ELSE IF first THEN "unstarted" ELSE "running"),
    work <- Work, installed <- (IF Writing THEN None ELSE Installed),
    overlooked <- (Work # "idle" /\ "files" \in overlooked),
    fresh <- (Signed /\ crashed = 0 /\ "copy" \notin overlooked),
    term <- (r_sigterm = "set"), last <- sent

\* The parent implements ConfigService: RESTART is sent only when all six files
\* come from one run of the writers, however earlier runs failed or were
\* interrupted, or when this run met a failure the code does not notice; files are
\* incomplete only during a run or after a failed one.
ServiceSpec == Service!Spec

\* It brings to an end what it begins: each completed run is announced, the first
\* START comes even if nothing can be fetched, and SIGTERM leads to STOP.
ServiceFairness == Service!Fairness

\* The stored copy is another configuration than the accepted one, because it could
\* be neither written nor removed.
StaleCopy == "copy" \in overlooked /\ saved \notin {oldconfig, None}

\* A running chaosvpn never goes back to an older configuration, except to such a
\* copy: the one it falls back to is the accepted one, or has been removed.
NoRollback ==
    [][(pc # "crashed" /\ oldconfig \in Versions /\ ~StaleCopy)
         => oldconfig' >= oldconfig]_vars

\* While files are written, my_peer points into the list they are written from, to
\* this node's last entry, whenever a configuration in the list has one: only when
\* none has can it be an entry that main_free_parsed_info has freed.
MyPeerIsListed ==
    pc \in {"tempsave", "cleanup", "write"} =>
        \A i \in DOMAIN peers : peers[i] \in Versions \ Peerless =>
            \E j \in i..Len(peers) : peers[j] = my_peer

\* A usable configuration that the server would send is installed in the end,
\* unless a newer one replaces it or chaosvpn stops.
UpdateIsInstalled ==
    \A v \in Versions \ Peerless :
        (srv = v /\ vims = "new") ~> (Installed = v \/ srv # v \/ pc = "stopped")

\* tincd is restarted if the configuration has changed (man/chaosvpn.1, option
\* -r): an accepted configuration is completely written in the end.
ChangeIsWritten ==
    \A v \in Versions :
        (oldconfig = v) ~> (Installed = v \/ oldconfig # v \/ pc = "stopped")

=============================================================================
