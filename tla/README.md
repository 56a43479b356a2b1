# ChaosVPN: specifications, model checking and proofs

chaosvpn joins a machine to a VPN run with tinc.  It fetches the description of
the whole network from a server, verifies it, writes tinc's configuration files
and route scripts from it, and supervises tincd: starts it, restarts it when it
dies or the configuration changes, stops it at the end.  It runs for months,
unattended, in two processes, and nearly everything that can go wrong in it
needs several events in an unlucky order.  This directory models that.

Paths are relative to the repository (`src/`), lines those of the commit the
models were made from.  `PROJECT.json` has the definition-to-line map, the
hazards, the runs and the mutants that show each property can fail.

## 1. The system

| Component | Source | State | Operations |
|---|---|---|---|
| parent process | `main.c` 64-277, 581-720 | `oldconfig`, `ifmodifiedsince`, peer list, `my_peer`, signal flags, the files on disk | fetch and apply, load the stored copy, main loop, SIGHUP, SIGTERM/SIGINT, SIGCHLD |
| tincd handler | `main.c` 279-299, 722-999, `daemon.c`, `tinc.c` 682-754 | `di_pid`, the signal actions, the commands in the pipe | select loop, START, RESTART, STOP, SIGNAL_OLD, `sigchild`, `sigterm` |
| download | `main.c` 377-579, `httplib/`, `ar.c`, `crypto.c`, `uncompress.c` | receive buffer, archive | take the URL apart, connect, receive, unpack, decrypt, verify |
| configuration parser | `parser.c` | `my_config`, `parse_key_mode`, peer list | one line at a time |
| file writers | `tinc.c` 21-647 | six kinds of files | `tinc.conf`, `hosts/*`, `tinc-up/down`, `subnet-up/down` |
| address masks | `addrmask.c` | none | parse, match, print, verify |
| version comparison | `strnatcmp.c` | none | `strnatcmp` |
| local configuration | `config.c`, `cvconf.l`, `cvconf.y` | `struct config`, fixed after start | read and check |
| log pump | `main.c` 787-849, `daemon.c` 200-238 | pipe, stdio stream, `stderr_buffer` | `fgets`, log, replacement of the stream by `daemon_start` |
| start | `main.c` 95-151, 735-784, `daemon.c` 45-174, `pidfile.c` | pidfile and its lock, two pipes | `daemonize`, `pidfile_create_pidfile`, handshake of parent and handler |
| backup and cleanup | `fs.c` 53-327, `main.c` 653-688 | working directory, path buffers, files | `fs_cp_r`, `handledir`, `fs_cp_file`, `fs_empty_dir` |
| string buffers | `string/` | block, size, length | init, concat, putc, ensurez |

How they interact:

* The parent forks the handler before it drops its privileges and then only
  writes commands into a pipe: SIGNAL_OLD, START, later RESTART and STOP.
  Nothing comes back but the handler's death (SIGCHLD, `p_sigchild`) and, the
  other way round, the end of file on the pipe.
* The handler shares nothing with the parent but the files on disk: tincd reads
  what the parent has written, at the moment the handler starts it, which may be
  while the parent is writing.
* Before the first command the handler reports over a second pipe that it is
  ready.
* `sigchild` and `sigterm` run on top of the select loop, call `daemon_start`
  and `daemon_stop` themselves and share `di_pid` with it.
* The fetched text goes through the parser into the peer list, from there into
  the files; tincd runs the scripts, which set the machine's routes.

What is hard: signal handlers that fork, sleep and wait at any point of the
loop; a stored pid that is stale by the time it is used; a pipeline of ten
steps each of which can fail, with the decision "nothing has changed" taken in
the middle of it; a stream that arrives in arbitrary pieces; conditions that are
decided separately in several writers and have to agree.

What makes each part correct:

* handler: one tincd at a time, none after a fatal error, none left behind;
  deaths are answered, commands executed;
* parent: a published configuration reaches the files; tincd is restarted only
  on complete files; no rollback; SIGTERM leads to STOP;
* the two together: no tincd stays on an old or mixed configuration; neither
  process survives the other;
* log pump: nothing lost or doubled, neither tincd nor the commands kept waiting;
* start: who succeeds owns the pidfile, no lock is forgotten, the handshake is
  true, no half-started pair;
* backup: complete when it says so; no stale host file beside the new ones;
* download: nothing unsigned, nothing partial; segmentation does not matter;
  it ends;
* parser and writers: an entry is its own section; the files agree with each
  other and with the version of tinc; while nodes come and go the routes are
  complete, belong to somebody, obey the administrator's filters and go away.

## 2. Modules

| Module | Models | Uses |
|---|---|---|
| `Supervisor` | the handler with its three contexts, the parent's commands, tincd and the kernel's part in signals | |
| `TincdService` | abstract: what the handler promises | refined by `Supervisor` |
| `SupervisorProofs` | theorems about `Supervisor` | `Supervisor` |
| `Updater` | the parent process, the server's versions, the disk, crashes | |
| `ConfigService` | abstract: what the parent promises the handler | refined by `Updater` |
| `UpdaterProofs` | theorems about `Updater` | `Updater` |
| `ChaosVPN` | both processes and tincd, composed through pipe and files | `ConfigService`, `Supervisor` |
| `ChaosVPNProofs` | theorems about `ChaosVPN` | `ChaosVPN`, `SupervisorProofs` |
| `LogPump` | the way of tincd's messages to the log | |
| `LogPumpProofs` | theorems about `LogPump` | `LogPump` |
| `Startup` | several starts: daemonize, pidfile, fork and handshake | |
| `StartupProofs` | theorems about `Startup` | `Startup` |
| `StringBuf` | `string/` as operators | |
| `Backup` | backup of `$base` and cleanup of `$base/hosts` | `StringBuf` |
| `BackupProofs` | theorems about `StringBuf` and `Backup` | `Backup` |
| `Download` / `MCDownload` | one `main_request_config` / an instance | |
| `DownloadProofs` | theorems about `Download` | `Download` |
| `AddrMask` | `addrmask.c` as operators, and what they are compared with | |
| `StrNatCmp` | `strnatcmp.c` as operators | |
| `NetConfig` / `MCNetConfig` | `config_init`, parser, writers, and the routes tincd's scripts set / an instance | `AddrMask`, `StrNatCmp` |
| `NetConfigProofs` | theorems about `AddrMask` and `NetConfig` | `NetConfig` |

A proof module begins with the facts about least numbers, sequences and loops that
it needs; everything behind them is about its component.

### Supervisor

The handler is one process whose contexts "main", "sigchild" and "sigterm" nest:
only the innermost one runs.  `pc` and `local` have one entry per context; a step
is the code between two points at which a signal can make a difference (`fork`,
the assignment of `di_pid`, `kill`, `sleep`, `waitpid`, `system`).

| Action | Code |
|---|---|
| `ReadCommand`, `ReadEOF` | select loop, `main.c` 787-826 |
| `TerminateOld`, `KillOld`, `tinc_get_pid` | `main_terminate_old_tincd` and `tinc_get_pid`, whose result is a `bool` |
| `Fork`, `StartFails`, `RecordPid` | `daemon_start` on both sides of `fork()` and of the assignment of `di_pid` |
| `StopTerm`, `StopKill` | `daemon_stop` on both sides of its sleep |
| `IfdownBegin`, `IfdownEnd` | `tinc_invoke_ifdown`; `system()` blocks SIGCHLD |
| `SigchldDelivered`, `Reap`, `ReapNothing`, `CheckStatus` | `sigchild` |
| `SigtermDelivered`, `EnterSigterm` | `sigterm`, and its direct call at end of file |
| `handler_signal_old_tincd` ... `handler_stop`, `p_sigchild`, `ParentDies` | the parent |
| `TincdReady`, `TincdCrashes`, `TincdObeys` | tincd: external |

Whether `system()` leaves the SIGCHLD of its child pending differs between
systems (Linux delivers it, FreeBSD discards it): `SystemLeavesSigchld`.

### Updater

A configuration is the number of the version the server published.  The clock is
abstracted to what If-Modified-Since can tell apart: whether the offered version
is newer than the stored time stamp (`vims`) and newer than the beginning of the
fetch in progress (`vstart`).  Every file holds the list of configurations its
contents were generated from, because the peer list is not emptied when a fetch
fails, or is `Torn`.  `Crash` may tear the file being written and `Restart`
begins again with what is on disk.

Not every failure is noticed by the code, and `overlooked` remembers those that are not:

| Action | Failure that counts as success |
|---|---|
| `CleanupOverlooks` | `stat`, `readdir` or `unlink` in `fs_empty_dir` (`fs.c` 282-306): old host files stay |
| `WriteOverlooks` | an allocation: `fs_writecontents_safe` returns 1 (`fs.c` 364), so a host file is missing; the other writers do not look at `string_concat` |
| `TempsaveFails` | `unlink` of `$tmpconffile` after it could not be written (`main.c` 627-628): the older copy stays |

`CleanupFails` and `WriteFails` are the ones that are noticed; `fs_empty_dir` may have
removed some files by then.  `LoadFails` is a stored copy that cannot be read.

### Download

An answer is a sequence of cells: the status, CR, LF and other characters of the
header, then the pieces of an archive.  `RecvHeader` and `RecvBody` take any
number of cells that fits the buffer, `cut` and `ending` say after which cell the
connection closes or breaks.  `httpres` begins with an arbitrary value, as the
uninitialized variable does.  OpenSSL and zlib are external: a key block is
decrypted only when it is whole, anything may be decrypted to something, and a
signature fits only what was signed.

Three assumptions describe the inputs.  `ResponsesAssumption`: an answer has a header
that ends with an empty line (CR LF or LF), and a body that does not begin with a line
end; otherwise `httprecv`, which skips line ends behind the empty line, could not tell
where the body begins.  An archive begins with its magic, so every real answer is of
this kind.  `PublishedAssumption`: what the server has not signed contains no signature
of its key, and what an archive carries is its cleartext member, if it has one.
`UrlsAssumption`: a URL begins with `http://` or not, and goes on with a sequence of cells.

`http_parseurl` refuses a URL without that prefix; behind it comes its loop, `UrlLoop`,
of which `UrlCell` is one turn.  The key block is refused unless it is whole
(`crypto_rsa_decrypt`) and begins with the right lengths (`KeyLengths`), and encrypted data
unless zlib takes it (`Compressed`).
Which archives are well formed is not part of an answer but defined over its cells
(`LaidOut`: each member is followed by another one or by the end; `Named`: the contents
of the members of a name), so that `GoodDownloadAccepted` compares `ar_extract`'s walk
with a description that does not walk.

### ConfigService and ChaosVPN

`ConfigService` is the parent as far as the handler and tincd can notice it:
whether it is writing files, which configuration they hold when it is not (`None`:
not those of one), and the last command.  A run of the writers that fails leaves files
that are not those of one configuration only as long as chaosvpn has not crashed and has
kept no stale copy (`fresh`, `Stale`): otherwise the same configuration may be fetched
again, and a failing run can leave files that an earlier run has completed.  `overlooked`
says that a failure went unnoticed in the run at hand (`Overlook`); only such a run may
be announced with files that are not those of one configuration.  `Damage` is the old
files being removed, in part, by a cleanup that fails.  `Updater` implements it (runs `updater`
and `updater_faults`), so `ChaosVPN` can compose the handler's whole module with
this small parent instead of `Updater`'s.  In the other direction `Supervisor`
assumes a parent that sends SIGNAL_OLD, START once, then RESTARTs and a STOP;
`HandlerSpec` checks that the parent of `ConfigService` is of this kind, so the
theorems about `Supervisor` apply to the composition.  What only the composition
has is `loaded`, the configuration that the newest tincd found on the disk, and `Blocked`: `sigchild`
waits for a living tincd and the handler reads no command.  This is what `$run_ifdown`
leads to on Linux (section 5); it ends when that tincd does, and the liveness properties
say what holds unless it is the case.  On other systems, or without `$run_ifdown`, the
handler is never blocked.
`CompositionAssumption`: the parent stays (option `-o` is the run
`supervisor_oneshot`), and the bound on RESTARTs leaves room for one per write.

### LogPump

A character passes through the pipe, the buffer of the stdio stream and
`stderr_buffer`.  Characters carry the number of their tincd and their position, so
that the log can be compared with what was said.  `Refill` and `Copy` are the inside
of `fgets`, because SIGCHLD may arrive there: `sigchild` makes `daemon_start` close
the pipe and open new ones with the same descriptors, and the interrupted `fgets`
goes on with the old stream (`stale`, `orphan`) and the new pipe.

### Startup

One parent and one handler per starter.  `ready` and `command` are the holders of
the write ends of the two pipes, which decide when the other side sees the end of
the file.  A SIGCHLD counts only from `Watch` on, where `p_sigchild` is installed.
Every call whose result the code looks at may fail; both processes may be killed
anywhere.

### StringBuf and Backup

A buffer is a block of cells and a length; a cell is a whole name, `/` or NUL.
`Path` is what the kernel makes of a buffer: up to the first NUL, relative to the
working directory, split into components at the slashes (`PathCell`, cell by cell).  The file system is a function from paths to directories and
files.  `handledir`'s recursion is a stack of the entries left to read and of the
lengths to which the two buffers are cut back; entries come in any order.  The two
values of `$base` are absolute and relative; chaosvpn may have been started in a
directory other than `/`.  Every call may fail, and what the code makes of it is kept apart:
an error that ends the function (`Bail`), a failure it passes over with success
(`skipped`: `stat` of an entry, `readdir`, `mkdir`), a failure that is only logged (`unlink`),
and the way back to the old working directory that is refused (`lost`).  After that a
relative `$base` names another directory (`Astray`).  `BackupAssumption`: the sizes are numbers, a file and a chunk are
not empty, and a host's name is neither a slash nor NUL.

### AddrMask, StrNatCmp, NetConfig

A byte is the set of its bits, and the number of bits per byte and of bytes per
address are constants, so that the same operators can be evaluated over all
addresses of a small format.  `NetConfig` runs the parser line by line, then the
six writers in the order of `main.c` 267-272, and then lets tincd run the
scripts: the property that matters is not the text of a script but the routes
that are there while tincd runs.  A script is the set of routes its commands name,
without those behind a comment sign, together with the forms of a subnet that its patterns
match (`Recognised`): an IPv6 address without a mask is none of them (`tinc.c` 595).
Whether tincd writes the mask of a single address depends on its version (`SlashAlways`).
A name is a record of its letters, their case and the places of its slashes: the code
compares names with and without case, and the name of a hosts file has `_` for `/`
(`FileName`, `fs.c` 370).  `SettingsAssumption` and `DataAssumption` say
what kind of thing the inputs are: lists of texts in `chaosvpn.conf`, lines that
`parser_parse_line` tells apart in what is fetched.  They exclude no text and no order
of lines.

## 3. Runs

Passing runs (each property has a mutant, a plausible bug of the code, that
TLC must find):

| Run | What it shows |
|---|---|
| `supervisor` | All interleavings of loop, SIGCHLD and SIGTERM with two crashes of tincd, two RESTARTs, a STOP and the parent's death, with `$run_ifdown` on Linux, where `system()` leaves its SIGCHLD pending and `sigchild` may block or find no child.  Safety, where exactly `sigchild` blocks, the answer to tincd's death, and refinement of `TincdService`. |
| `supervisor_oneshot` | Oneshot mode, without `$run_ifdown`: order of the old and the new tincd. |
| `updater` | Three versions published at any time, the second without this node, network errors, a SIGHUP, SIGTERM, a crash: usable versions are installed in the end, `my_peer` is valid while a list with this node is written, and the fairness of `ConfigService` holds: complete files are announced, START and STOP come. |
| `updater_faults` | A damaged download and two failing steps, noticed or not: `ConfigService` is implemented (restarts only on files of one run, complete unless a failure in it was overlooked), no rollback but to a copy that could be neither overwritten nor removed. |
| `chaosvpn` | Parent and handler: two runs of the writers, a crash of tincd, two RESTARTs, SIGTERM to one or SIGINT to both, the parent's death, with `$run_ifdown` on Linux.  No tincd stays on an outdated or mixed configuration, and the processes end together, unless the handler is `Blocked`.  The same properties hold with `$run_ifdown` off, and with `SystemLeavesSigchld = FALSE`. |
| `logpump` | Two lines per tincd in pieces, a crash and a RESTART at any point: nothing lost while tincd lives, nothing doubled or out of order, the pipe drains, commands are read. |
| `startup` | Two starts at once, two failing calls, two killed processes: pidfile, lock, handshake, no half-started pair. |
| `backup` | Two configurations with any choice of two host files of one or two units, four combinations of `$base` and working directory, every order of entries, any one failing call: complete backups unless the code passed the failure over, an empty hosts directory. |
| `netconfig` | All sequences of up to three of seven sections (a hidden node, bad networks, an IPv6 address without mask, a key without END, a name in two spellings and with a slash, the same node twice, lines before any header), under 26 accepted settings. |
| `download` | Fifteen answers in every segmentation, ended anywhere, with header lines up to and beyond the buffer, damaged key blocks, data zlib refuses; all URLs with and without `http://` and up to four cells. |

Runs that TLC must refute, each a place where code and documentation differ:

| Run | Property | What happens |
|---|---|---|
| `supervisor_old_tincd` | `OldTincdStopped` | `tinc_get_pid` keeps the pid in a `bool` (`tinc.c:688`, 723): pid 1 is signalled, the old tincd lives on. |
| `updater_lost_write` | `ChangeIsWritten` | `oldconfig` is replaced before the files are written (`main.c:254`); after a failed write the next fetch sees no change. |

### Bounds

* `Supervisor`: `MaxCrashes = 2`, `MaxRestarts = 2`, so up to five tincd
  processes: a crash of the first, a restart, a crash of the successor while the
  restart is under way, and a second RESTART waiting in the pipe meanwhile.  The
  theorems hold for every bound.
* `Updater`: three versions are needed for one to be published while another is
  being fetched after a first one was installed; one crash, one damaged
  download, two failures (a failure and one more on the retry).  `Interval = 1`
  leaves room for a fetch by time and one by SIGHUP.
* `Download`: `BufSize = 6` is smaller than the headers and the bodies, so that the
  buffer fills up.  Most header lines are shorter; three headers have a line that fits
  the buffer with its end, without it, and not at all, which are the two sides of the
  boundary that `GetEnds` names.  Answers have up to 27 cells.
* `ChaosVPN`: two writes, so that a second one can begin while the tincd of the first
  is being restarted; `MaxPid = 4` for the first tincd, a crash and two RESTARTs.
* `LogPump`: `StdioSize = 3` and `PipeSize = 4` are smaller than two lines, so that
  every buffer fills and is read in pieces; `BufSize = 9` leaves room for the unfinished
  lines of the two tincd that can die and one more line, as 1024 bytes do in practice.
* `Startup`: two starters, which is what a lock is about; three give nothing new (the
  safety properties are theorems for any number).  Two kills: one process of each
  start, or both of one.
* `Backup`: `BufSize = GrowBy = 2`, so that every path makes its buffer grow, ends at its
  last cell and one before it; `Chunk = 1` with files of up to two units, so that copying
  takes several steps and a shorter file follows a longer one.
* `NetConfig`: two bytes of two bits per address: masks that end at, before and
  behind a byte boundary, 0 to 4; `ShiftModulus = 16` lies above all of them.
  Three sections let a third one repeat or follow a pair; `MaxEvents = 3` lets a
  node leave while another stays and a third arrives.

`CHECK_DEADLOCK FALSE`: the processes really end (exit of the handler and of the
parent, return of the download, stop of tincd), or the bounded number of lines,
restarts and configurations is used up (`LogPump`, `Backup`).

### Fairness

* `Supervisor`: weak fairness of the handler's own steps and of the delivery of
  pending signals: the kernel schedules the process, `sleep` and the tinc-down
  script end.  Nothing is assumed of the parent (it may never send anything) or of
  tincd (it may never obey SIGTERM; `daemon_stop`'s SIGKILL must do).
* `Updater`: weak fairness of the process, of time, of the restart after a crash
  (init or daemontools, which the manual page recommends), and of a request being
  answered or failing, which `SO_RCVTIMEO` and `SO_SNDTIMEO` guarantee; strong
  fairness of an answer: a server asked again and again is reached in the end.
  Without it "the update is installed" cannot be expected of any client.
* `Download`: weak fairness of `Next`: `recv()` returns, with data, at the end, or
  by its timeout.
* `ChaosVPN`: the fairness of `ConfigService` for the parent (which `Updater` is shown to
  have), that of `Supervisor` for the handler, and the delivery of the parent's SIGCHLD.
* `LogPump`: the handler is scheduled and SIGCHLD delivered.  Of tincd it is assumed
  that it ends a line it has begun and writes something when it starts (it logs its
  version): without the first, `fgets` may wait for ever, because the pipe is blocking.
* `Startup`: both processes are scheduled, a pending signal is delivered, and the first
  fetch ends (by the timeouts of the sockets).
* `NetConfig` and `Backup` have no liveness property and no fairness.

## 4. Proofs

### SupervisorProofs

It proves for every number of processes, crashes and restarts and
every setting, from the two assumptions on the constants (`BoundsAssumption`:
there are enough pids for the bounded number of starts; `ConfigAssumption`: the
types of the settings, and that no pidfile names init):

| Theorem | Statement |
|---|---|
| `TypeCorrect` | `Spec => []TypeOK` |
| `Invariant` | `Spec => [](TypeOK /\ IInv)`, the inductive invariant |
| `OneTincd` | there are never two tincd processes |
| `FatalIsFinal` | a tincd that reported a fatal error is the last one |
| `OrphansExplained` | after a controlling handler's exit a tincd lives only if SIGTERM hit the window between `fork()` and `di_pid = pid` |
| `OldBeforeNew` | the old tincd is dealt with before the first new one is forked |
| `SigchildResponsive` | `sigchild` blocks for a living tincd only where `$run_ifdown` is used and `system()` leaves SIGCHLD pending, and then only for the recorded tincd and with no SIGCHLD waiting, so that the death of that tincd ends it |
| `KillAfterTerm` | SIGKILL ends only processes that were sent SIGTERM |
| `SuccessorOnCleanInterface` | with `$run_ifdown` a successor starts only on an interface that tinc-down has taken down |
| `Refinement` | `Spec => ServiceSpec`: the handler implements `TincdService` |

The properties are not inductive; `IInv` adds what the code relies on without
saying so:

* `PcInv`: each context stays in its own code;
* `PipeInv`: START is sent, read and executed once, after SIGNAL_OLD.  Without
  it a second START could fork beside a running tincd;
* `NewestInv`: every process but the newest has been reaped and had no fatal
  error.  This is what `OneTincd` and `FatalIsFinal` follow from;
* `RecordInv`: `di_pid` is the newest process unless a `daemon_start` is just about
  to record it.  This is where the window between `fork` and the assignment shows;
* `SigchildInv`: `sigchild` gets past `waitpid` only for the recorded tincd, which
  is then gone, so that its `daemon_start` cannot make a second one;
* `StopInv`: who sleeps in `daemon_stop` holds a pid that is dead or has got
  SIGTERM; STOP and `sigterm` work with SIGCHLD ignored, so their pid stays the
  recorded one;
* `ZombieInv`: without `system()`'s SIGCHLD a pending SIGCHLD stands for a zombie.

`SuccessorOnCleanInterface` adds `IfaceInv` to it: from the end of tinc-down to the fork
of the successor the interface stays down.  It is kept because the only process that
could run tinc-up is gone by then (`SigchildInv`).

The step lemmas have one case per action.  For the refinement, `Fork` maps to
`Start`, every end of a process to `Die`, an exit to `Shut`, all else stutters.

### StartupProofs

For any number of starters, kills and failing calls, from `StartupAssumption` (a
starter is not one of the three marks for files):

| Theorem | Statement |
|---|---|
| `StartupTypeCorrect` | `Spec => []TypeOK` |
| `PidfileOwned` | who leaves `pidfile_create_pidfile` with success has its pid in the file |
| `LockReleased` | a starter's lock exists only while it works on the pidfile |
| `HandshakeIsTrue` | a parent that goes on has a handler with its signal handlers installed, or one that has ended since |

`PidfileIsOwn` is not inductive: a second process in the same stretch of code could
overwrite the file.  The invariant adds `LockIsTaken` (who is in that stretch is the
one the lock names, hence alone) and `SigchldIsLate` (`p_sigchild`, which exits without
unlocking, interrupts only a parent that has left that stretch), and for the handshake `ByteIsTrue` (the byte is in
the pipe only when the handler has come past `HandlerSignals`) and `ByteIsRead` (a
parent that goes on has read it).  `FileStep`, `SigchldStep` and `ByteStep`
are split by action.

### UpdaterProofs

For every number of versions, failing steps, damaged downloads, signals and crashes,
from `UpdaterAssumption` (types of the bounds and settings):

| Theorem | Statement |
|---|---|
| `TypeCorrect` | `Spec => []TypeOK` |
| `NeverRollsBack` | with a signkey, an accepted configuration is replaced by an older one while chaosvpn runs only if the stored copy is another one and could be neither overwritten nor removed (`StaleCopy`) |
| `MyPeerAlwaysListed` | while files are written, `my_peer` is this node's last entry of the list, if any configuration in the list has one |
| `Refinement` | `Spec => ServiceSpec`: the parent implements `ConfigService` |

The signkey of the second is needed: without one the bytes of a damaged download can be
anything.  The exceptions are real as well: the stale copy is a rollback (section 5), and
when no configuration in the list has this node, `my_peer` dangles.  The invariants:

* `TypeInv`: there is a configuration at hand wherever one is compared, parsed or written;
* `WriteInv`: the list ends with the configuration at hand, and unless a failure was
  overlooked the files already written hold that list and `hosts/` is empty until its turn;
* `VersionInv`: nothing is newer than what the server offers; unless a stale copy was kept,
  `$tmpconffile` holds what was accepted or nothing, and what is compared and parsed is at
  least as new;
* `FreshInv`: until the first crash or stale copy, everything on disk stems from accepted
  configurations and what is about to be written is newer than all of it.  It is what
  makes a failed run leave an incomplete set (`FailedRun`).

Two facts came out of the attempt to prove the refinement: the model let bytes be
compared as equal that a signed download cannot have, and `ConfigService` promised
that a failed run always leaves an incomplete set, which is wrong after a crash.  Both
were corrected.

### ChaosVPNProofs

For any number of writes, crashes and RESTARTs:

| Theorem | Statement |
|---|---|
| `ParentIsAsAssumed` | `Spec => HandlerSpec`: the composed parent sends what `Supervisor` assumes, nothing else |
| `HandlerIsSafe` | one tincd at a time, none after a fatal error, the old one first, no orphan but the one of the fork window: for both processes together |

`CommandInv` (a RESTART announces a write of its own) keeps the commands within
`Supervisor`'s bound.  `HandlerIsSafe` instantiates the theorems of `SupervisorProofs`;
`SameSpec` shows that the two instances of `Supervisor` are the same specification.

### LogPumpProofs

For all sizes of the three buffers and any number of lines, crashes and RESTARTs
(`LogPumpAssumption`):

| Theorem | Statement |
|---|---|
| `TypeCorrect` | `Spec => []TypeOK`: no buffer is filled beyond its size |
| `NothingIsLost` | until the first tincd is replaced, what it wrote is logged or on its way, once and in order |
| `LogStaysInOrder` | nothing is logged twice or out of order, even if `sigchild` replaces the stream inside `fgets` |

`CountInv` relates deaths to crashes and RESTARTs; without it the number of tincd
processes is not bounded by an induction.  `OrderInv` is about `Way`, the concatenation
of log, `stderr_buffer`, stream and pipe: it is in order, and as long as the first tincd
lives it is exactly what was said.  Every action moves characters along the way, adds
some at its end, or loses some at its end or in the middle (a replaced stream).

### DownloadProofs

For all answers of the kind described in section 2, every receive buffer size,
every segmentation and every end of the connection:

| Theorem | Statement |
|---|---|
| `ReceiveBufferFits` | the receive buffer holds at most `BUFSIZE` cells |
| `BodyStaysIntact` | what `http_get` returns is the body as far as it has arrived, possibly behind the line end of the empty line |
| `SignedConfigIsGenuine` | with a signkey only what was signed is accepted |
| `NoPartOfAnArchive` | without one, a cut archive is accepted with all of its cleartext or none |
| `GoodIsAccepted` | a complete configuration in a well-formed archive is accepted, whatever other members there are and in whatever order |
| `UrlIsTakenApart` | `http_parseurl` divides every URL at the first slash and the first colon before it, and accepts exactly those with a host and a numeric port, and the empty one |

`RecvInv` says what the buffer is at each point: the answer from the beginning of a
line of the header up to what has arrived (`Pending`), later the result from somewhere in
the empty line on (`Collected`).  The lemmas about `ar_extract` (`ExtractedFromArchive`,
`ExtractFromPart`) treat its loop as a walk forward through the archive: cutting the
archive changes nothing of what the loop sees before the cut, and a member that is
not whole is refused.  `ExtractLaidOut` is the other direction: in an archive whose members
follow each other without a gap the walk meets every one of them, so it stops at the one
that is searched for.  The names of the members differ (`LaidOut`), because the walk ends
at the first of its name.

`Scanned` says what the loop of `http_parseurl` knows after any number of characters, given
the positions of slash and colon: this is its loop invariant, and `UrlCellScans` that a
turn keeps it.  `UrlInv` carries the result from `ParseUrl` to the states the property
is about.

### NetConfigProofs

For any settings, any fetched lines, and addresses of any number of bytes of any number
of bits:

| Theorem | Statement |
|---|---|
| `TypeCorrect` | `Spec => []TypeOK` |
| `ConnectsToKnownAddress` | `ConnectToHasAddress` |
| `RoutesHaveAnOwner` | `RoutesOwned` |
| `NoRouteStays` | `NoRouteLeft` |
| `FiltersAreKept` | `FiltersHold` |
| `EveryNodeHasItsRoutes` | `RoutesComplete` |
| `EntriesAreTheirSections` | `EntriesFromOwnSection` |

They rest on four lemmas about `addrmask.c`: what `addrmask_to_string` writes
`addrmask_parse` reads back (`ReadsBack`), the comparison of masked bytes is agreement of
the first bits (`MatchIsPrefix`), a subnet lies in another one iff that one's prefix is
no longer and begins it (`ContainedIsPrefix`), and an entry that `addrmask_match` finds
contains the subnet (`MatchMeans`).  The invariant `IInv` has a part for each stage:
`ConfigInv` (the lists hold what could be parsed), `ParseInv` (every entry has checked
fields), `EntryInv` (each field of each entry comes from the lines of its section that
have been read, and `parse_key_mode` says whether the last section's key is open: without
the second half a key could run on into the next section), `FileInv` (each file written so far is what its writer makes of settings and
entries) and `RouteInv` (the routes are those of tinc-up, or of subnet-up for the
nodes that are reachable).  The theorems then compare decisions taken in different
writers.

### BackupProofs

For any names of host files, any sizes of the string buffers and of `fs_cp_file`'s buffer,
any lengths of files, and any number of configurations and failing calls:

| Theorem | Statement |
|---|---|
| `BackupInvariant` | `Spec => []LostInv`: the inductive invariant `IInv` holds until `chaosvpn` is `Astray` |
| `BackupIsComplete` | `BackupComplete`: when `fs_cp_r` reports success, every file of `$base` is in `$base.old`, unless a failing `stat`, `readdir` or `mkdir` was passed over (`skipped`) |
| `HostsAreEmptied` | `HostsEmptied`: no old host file is left when the writers begin, unless a call has failed |
| `WorkingDirectoryIsRestored` | outside of `fs_cp_r` and `fs_empty_dir` chaosvpn is in the directory it was started in, whatever failed inside them, unless the way back itself was refused once (`lost`) |

The first part is about `string/`: `Holds(b, t)` says that a buffer holds a text, with its
length inside its block, and `ConcatHolds`, `PutcHolds`, `EnsurezHolds`, `CutHolds` and
`SuffixHolds` what each operation makes of it, however often the block has to grow;
`KernelSees` that a terminated buffer is read as exactly its text.  The second part is about
paths: `ComponentsGrow` follows the scan cell by cell, and `Denotes(t, p)` says that a text
that ends in a slash names a directory, so that appending a name names its entry
(`DenotesName`).

The properties speak of files, and nothing they say is kept by a step that works in the
wrong directory or writes through a wrong path.  So the invariant relates all notions of
where `handledir` is:

* `FsInv`: directories are where directories belong and files where files do;
* `HomeInv`: inside of the two functions `curwd` holds the way back, on every error path,
  and outside of them nothing but a refused way back has left another working directory;
* `CallInv`: working directory and both buffers are those of the innermost call, and every
  outer call knows the lengths of its own two paths.  This is what the two cuts in
  `handledir` are for; without one of them the next file goes below the last one;
* `CopyInv`: what a call has no longer to read has been copied, unless it was skipped, and
  of the file in progress as much as `copied` says;
* `EmptyInv`: what `fs_empty_dir` has no longer to read is removed, if no call has failed.

### Induction

The library's induction theorems take operators as parameters, which the provers
cannot instantiate.  The proofs get by with least counterexamples: `MinNat` is
taken once from well-founded induction on the numbers, and `WalkInduction` (loops that
jump forward, as `ar_extract`'s does) and `IterationInduction` (loops over the elements of a
sequence), stated with sets, give the induction; `WalkExists` and `IterationExists` show
that the recursive functions exist: those of `ar_extract`, `http_parseurl`,
`parse_and_free_raw_subnetlist`, and the components of a path.

### Only model-checked

* All liveness properties: `DeathIsAnswered`, the updates that are installed,
  `TincdFollowsConfig`, `EndTogether`, `PipeDrains`, `GetEnds` and the others; fairness
  and ENABLED are beyond the prover.
* `OptionsMatchVersion`, the only invariant of a run that no theorem states: it compares
  `strnatcmp`'s verdict with the order of versions.  `strnatcmp` is a recursion over two strings
  of digits, which would have to be related to the numbers they stand for, for every
  length.

The `TypeOK` of a module that no theorem mentions documents the ranges of its
variables.

## 5. Observations without a run of their own

* `main.c:963`: with `$run_ifdown` on Linux, `sigchild` is entered for the tinc-down
  script, whose exit status `system()` has taken, and its `waitpid` (no WNOHANG) blocks
  until tincd dies: commands are not read, a RESTART or STOP is not executed, the end of
  the pipe is not noticed.  `SigchildBlocksOnlyForSystem` says that nothing else leads to
  this; without `Blocked`, `TincdFollowsConfig` and `EndTogether` fail in run `chaosvpn`.
* `tinc.c:66` hands a NULL version to `strnatcmp`, which asserts, where the other uses
  test for it; `config.c:404-407` only warns of a version that cannot be determined.
* `main.c:387`, 422: `httpres` is read uninitialized after an error before the status
  line: a broken answer may count as 304.
* `main.c:834`: unfinished lines of tincd processes that died stay in `stderr_buffer`
  until a newline comes; when they fill it, `fgets` has no room, the loop spins and the
  next tincd blocks on its full pipe.  `PipeDrains` fails in `LogPump` with `BufSize = 6`.
* `daemon.c:215`: `fcntl(fd, O_NONBLOCK)` without `F_SETFL` sets nothing.
* `pidfile.c:54`: the lock is given up as soon as the file is written, so it does not
  keep a second chaosvpn from starting and overwriting the pidfile; a lock left by a
  killed process stops every later start.  `daemonize` has reported success by then.
* `fs.c:106`: the copy in `$base.old` is not truncated, and files of nodes that are gone
  are never removed from it, so that it may not be a configuration that ever existed,
  although `man/chaosvpn.1:22-23` calls it a backup.
* `main.c:660`: with a `$base` that ends in a slash the backup lies inside the directory
  being copied, and the recursion ends only at the longest path.
* `fs.c:111`: a file that shrinks, or cannot be read, while it is copied makes the loop
  endless; `fs.c:282`: every failure of `stat` counts as a missing directory, which makes
  an untouched `hosts/` an empty one; `fs.c:165`, 166: an entry whose `stat` fails, or all
  that `readdir` does not return, is skipped and the backup still a success; `fs.c:303`: a
  host file that cannot be removed is logged and the cleanup still a success.
* `fs.c:249`, 319: the way back to the old working directory may be refused; that is
  logged only, and from then on a relative `$base` is another directory.
* `fs.c:364`: when there is no memory for the path, `fs_writecontents_safe` returns 1, which
  is true: a host file is missing and RESTART is sent.
* `fs.c:370`: the hosts file of a node `a/b` is `a_b`, where tincd does not look for it, and
  takes the place of that of a node `a_b`.
* `main.c:628`: a stored copy that can be neither written nor removed (a file system that
  has become read-only) is loaded at the next network error or 304: a rollback.
* `fs.c:88`: a working directory of more than 64K is reported as found, with nothing in
  the buffer.  `string.h:60` looks at `s[-1]` when the length is 0;
  `string_concatb.c:22` clears the new memory before it looks whether there is any.
* `main.c:834`/`daemon.c:218`: every restart of tincd leaks the old stream.
* `daemon.c:233`: a tincd that dies before its pid is recorded is reaped as an
  unknown child and gets no successor, although `man/chaosvpn.1:31` promises one.
  `DeathIsAnswered` therefore speaks of the recorded tincd.
* `main.c:436`: `ifmodifiedsince` advances before the archive is verified; after one
  damaged download the server answers 304 and the update waits for the next
  version.  `UpdateIsInstalled` fails in `Updater` with `MaxDamaged = 1`.
* `main.c:599`: after an update `my_peer` points into the freed list; if the next
  configuration has no entry for this node the NULL test does not notice, and the files
  are written from freed memory.  `MyPeerIsListed` leaves out exactly the lists without
  this node; run `updater` has them (version 2).
* `main.c:145`: the first fetch's result is ignored and tincd started anyway, where
  `man/chaosvpn.1:25` says "After all configuration files have been created".
* `main.c:811`: in oneshot mode the forking tincd's SIGCHLD may arrive before
  `exit(0)`, and a second tincd is started.
* `main.c:274`: entries of a configuration whose files could not be written stay in
  the peer list in front of the next one's.
* `main.c:400`: If-Modified-Since is the client's clock in whole seconds.
* `main.c:476`, `ar.c:149`: a missing cleartext member is an empty configuration,
  not the error the message speaks of.
* `http_get.c:157`: a server that closes in the middle of a header line makes
  `httprecv` spin, and so does a header line that fills the buffer, for which `recv` has
  no room left; `GetEnds` leaves exactly these two cases out.
* `http_get.c:190`: a piece that ends in the blank line leaves its line end in front
  of the body; an archive is then not recognised.
* `addrmask.c:111`: `/257` is read as `/1`; `addrmask.c:247`: of overlapping patterns
  only the first that agrees is looked at.
* `tinc.c:595`: the pattern for IPv6 wants a mask; for an address that tincd hands over
  without one `subnet-up` sets no route.
* `tinc.c:556`: `subnet-up` compares excluded names by case, the other writers do not.
  With `$use_dynamic_routes`, a subnet of two nodes loses its route when one leaves.
* `strnatcmp`: 1.0pre8 sorts after 1.0.12.
* `chaosvpn.conf(5)` gives `$update_interval` and `$my_addressfamily` defaults (3600,
  any) that `config.c:223` and 282 do not have.

## 6. Not modelled

The perl client, the backend, packaging and the Windows service are other
programs or builds.  Logging, the tun device, option parsing and the flex/bison
grammar are I/O without a decision the properties depend on.  `list.h` and
`chaosvpn.h` are declarations and the macros of a linked list.  In `Backup`, modes,
times and special files are left out, and nobody else changes the directory.  Failing
allocations are modelled in `Updater` and `Backup`, and left out in the parser, the
download and the log.  Which bytes of a decrypted key block are the key is not modelled;
the block is the right one or refused.
In `NetConfig`, tincd stops only after reporting every node as unreachable, and scripts of the administrator (`*.local`) do
nothing to the routes.

## 7. State and plan

Handler, parent, their composition, start, log pump, download, parser and writers, and
backup are modelled and have runs.  Every invariant of a passing run but
`OptionsMatchVersion` is a theorem, as are both refinements, the parent's side of the
composition, and the transfer of the handler's theorems to it.  What could follow:

1. `strnatcmp` as an iteration over pairs of characters, and `OptionsMatchVersion` from it.
2. Tearing of files by a crash in `Backup`, joined with `Updater`'s.
3. `string_read` and the formatted output of `string/`.
