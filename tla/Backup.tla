--------------------------------- MODULE Backup ---------------------------------
(***************************************************************************)
(* What happens in $base between the acceptance of a configuration and the *)
(* writing of its files: main_create_backup copies the directory to        *)
(* $base.old (fs_cp_r, handledir, fs_cp_file), and                         *)
(* main_cleanup_hosts_subdir removes the files in $base/hosts              *)
(* (fs_empty_dir).                                                         *)
(*                                                                         *)
(* handledir keeps two notions of where it is: the working directory, in   *)
(* which it looks at the entries it reads, and two string buffers that     *)
(* grow and are cut as it descends and returns.  A path is what the kernel *)
(* makes of the cells of such a buffer; a name is one cell.                *)
(***************************************************************************)
EXTENDS StringBuf, SequencesExt

CONSTANTS
    Hosts,       \* names of files in $base/hosts
    BufSize,     \* first size of a string buffer
    Chunk,       \* size of the buffer of fs_cp_file
    MaxLen,      \* bound: length of a file
    MaxRounds,   \* bound: configurations written
    MaxFails     \* bound: system calls that fail

ASSUME BackupAssumption ==
    /\ {"/", ".old", "etc", "home", "hosts", "tinc.conf"} \cup Hosts \subseteq Cell
    /\ {"/", NUL} \cap Hosts = {}
    /\ BufSize \in Nat /\ Chunk \in Nat \ {0}
    /\ MaxLen \in Nat \ {0} /\ MaxRounds \in Nat /\ MaxFails \in Nat

Dir     == [dir |-> TRUE, data |-> <<>>]
File(d) == [dir |-> FALSE, data |-> d]

VARIABLES
    base,      \* $base as it is written in chaosvpn.conf
    fs,        \* the file system: path -> Dir or File(contents)
    home,      \* working directory of chaosvpn
    cwd,       \* working directory now
    src, dst, curwd,    \* the buffers of fs_cp_r; fs_empty_dir has the last two
    stack,     \* calls of handledir: entries left to read, lengths to go back to
    entry,     \* the regular file being copied
    copied,    \* how much of it
    pc,
    ret,       \* what the last of the two functions has returned
    round, fails,
    skipped,   \* a call failed in the backup at hand, and nobody noticed
    lost       \* the way back to home has failed once

bufVars == <<src, dst, curwd>>
vars == <<base, fs, home, cwd, src, dst, curwd, stack, entry, copied, pc, ret, round, fails,
          skipped, lost>>

-----------------------------------------------------------------------------
(* The file system, an external component.                                   *)

\* One cell of a path: the names before it, and the name it may belong to.
Names(s) == IF s.name = <<>> THEN s.names ELSE Append(s.names, s.name)

PathCell(s, c) ==
    IF c = "/" THEN [names |-> Names(s), name |-> <<>>]
               ELSE [names |-> s.names, name |-> Append(s.name, c)]

\* The components of a path: each is a sequence of cells without a slash.
Components(cells) ==
    LET scan[i \in 0 .. Len(cells)] ==
            IF i = 0 THEN [names |-> <<>>, name |-> <<>>] ELSE PathCell(scan[i - 1], cells[i])
    IN  Names(scan[Len(cells)])

Path(cells) ==
    IF cells # <<>> /\ Head(cells) = "/" THEN Components(cells) ELSE cwd \o Components(cells)

IsDir(path)  == path \in DOMAIN fs /\ fs[path].dir
IsFile(path) == path \in DOMAIN fs /\ ~fs[path].dir

Below(tree, path) ==
    {p \in DOMAIN tree : Len(p) > Len(path) /\ SubSeq(p, 1, Len(path)) = path}
Entries(tree, path) == {Last(p) : p \in {q \in Below(tree, path) : Len(q) = Len(path) + 1}}

Make(path, node) ==
    [p \in DOMAIN fs \cup {path} |-> IF p \in DOMAIN fs THEN fs[p] ELSE node]

\* What write() leaves of the contents of a file that is not truncated.
Overwrite(old, offset, data) ==
    SubSeq(old, 1, offset) \o data \o SubSeq(old, offset + Len(data) + 1, Len(old))

Base   == IF Head(base) = "/" THEN Components(base) ELSE home \o Components(base)
Backed == Front(Base) \o <<Append(Last(Base), ".old")>>
HostsDir == Append(Base, <<"hosts">>)

MayFail == fails < MaxFails /\ fails' = fails + 1

-----------------------------------------------------------------------------
\* The files of the n-th configuration, whose contents are n, are made or truncated.
Written(n, lengths) ==
    LET conf  == Append(Base, <<"tinc.conf">>)
        hosts == {Append(HostsDir, <<host>>) : host \in DOMAIN lengths}
    IN  [p \in DOMAIN fs \cup {HostsDir, conf} \cup hosts |->
            CASE p = HostsDir  -> Dir
              [] p = conf      -> File(<<n>>)
              [] p \in hosts   -> File([i \in 1..lengths[Last(p)[1]] |-> n])
              [] OTHER         -> fs[p]]

\* A first start: config_init has made $base.
Init ==
    /\ base \in {<<"/", "etc">>, <<"etc">>} /\ home \in {<<>>, <<<<"home">>>>}
    /\ fs = [p \in {<<>>, <<<<"home">>>>, Base} |-> Dir]
    /\ cwd = home
    /\ src = string_init(BufSize) /\ dst = src /\ curwd = src
    /\ stack = <<>> /\ entry = <<>> /\ copied = 0
    /\ pc = "backup" /\ ret = TRUE /\ round = 0 /\ fails = 0
    /\ skipped = FALSE /\ lost = FALSE

\* The files are written, by the functions that Updater and NetConfig model; the
\* next configuration that is accepted begins with a backup.  Where $base is not
\* found the first file cannot be opened.
WriteFiles ==
    /\ pc = "write" /\ round < MaxRounds
    /\ round' = round + 1 /\ pc' = "backup"
    /\ IF Path(base) = Base
         THEN \E some \in SUBSET Hosts : \E lengths \in [some -> 1..MaxLen] :
                  fs' = Written(round + 1, lengths)
         ELSE UNCHANGED fs
    /\ UNCHANGED <<base, home, cwd, bufVars, stack, entry, copied, ret, fails, skipped, lost>>

-----------------------------------------------------------------------------
(* fs_cp_r                                                                   *)

fs_ensure_suffix(b) ==
    IF b.s[b.length] = "/" THEN b ELSE string_ensurez(string_putc(b, "/"))

getcwd ==
    LET text[i \in 0 .. Len(cwd)] == IF i = 0 THEN <<>> ELSE text[i - 1] \o <<"/">> \o cwd[i]
    IN  IF cwd = <<>> THEN <<"/">> ELSE text[Len(cwd)]

\* The working directory, with a slash at its end.
fs_get_cwd ==
    LET b == string_concat(string_init(BufSize), getcwd)
    IN  IF Last(getcwd) = "/" THEN b ELSE string_putc(b, "/")

Absolute(cells) ==
    string_concat(IF Head(cells) = "/" THEN string_init(BufSize) ELSE fs_get_cwd, cells)

\* An error ends all calls of handledir.
Bail == ret' = FALSE /\ pc' = "restore" /\ stack' = <<>>

\* main_create_backup, up to the call of handledir.
fs_cp_r ==
    /\ pc = "backup" /\ skipped' = FALSE
    /\ \/ /\ pc' = "handledir" /\ curwd' = fs_get_cwd
          /\ src' = fs_ensure_suffix(Absolute(base))
          /\ dst' = fs_ensure_suffix(Absolute(Append(base, ".old")))
          /\ UNCHANGED <<stack, ret, fails>>
       \/ /\ MayFail /\ Bail /\ curwd' = fs_get_cwd        \* a buffer cannot grow
          /\ UNCHANGED <<src, dst>>
       \/ /\ MayFail /\ ret' = FALSE /\ pc' = "cleanup"     \* the first fs_get_cwd fails
          /\ UNCHANGED <<bufVars, stack>>
    /\ UNCHANGED <<base, fs, home, cwd, entry, copied, round, lost>>

\* The beginning of handledir: mkdir, whose result is not looked at, chdir, opendir.
handledir ==
    LET s    == string_ensurez(src)
        d    == string_ensurez(dst)
        from == Path(CString(s))
        to   == Path(CString(d))
        made == IF IsDir(Front(to)) THEN Make(to, Dir) ELSE fs
    IN  /\ pc = "handledir" /\ src' = s /\ dst' = d
        /\ \/ /\ IsDir(from) /\ cwd' = from /\ pc' = "readdir"
              /\ stack' = Append(stack, [left |-> Entries(made, from), srcdirlen |-> 0,
                                         dstdirlen |-> 0])
              /\ \/ fs' = made /\ UNCHANGED <<fails, skipped>>
                 \/ fs' = fs /\ to \notin DOMAIN fs /\ MayFail /\ skipped' = TRUE
              /\ UNCHANGED ret
           \/ /\ IsDir(from) /\ MayFail /\ Bail            \* opendir fails
              /\ fs' = made /\ cwd' = from /\ UNCHANGED skipped
           \/ ~IsDir(from) /\ Bail /\ UNCHANGED <<fs, cwd, fails, skipped>>
           \/ /\ MayFail /\ Bail                           \* stat or chdir fails
              /\ fs' \in {fs, made} /\ UNCHANGED <<cwd, skipped>>
        /\ UNCHANGED <<base, home, curwd, entry, copied, round, lost>>

Top == stack[Len(stack)]
Pop == SubSeq(stack, 1, Len(stack) - 1)

\* The next entry, in any order: what it is, is asked by its name alone.
ReadEntry ==
    /\ pc = "readdir"
    /\ \E name \in Top.left :
          LET path == Append(cwd, name)
              rest == [left |-> Top.left \ {name}, srcdirlen |-> src.length,
                       dstdirlen |-> dst.length]
          IN  /\ stack' = Append(Pop, rest)
              /\ \/ path \notin DOMAIN fs /\ UNCHANGED <<src, dst, entry, copied, pc>>
                 \/ /\ IsDir(path) /\ pc' = "handledir"
                    /\ src' = fs_ensure_suffix(string_concat(src, name))
                    /\ dst' = fs_ensure_suffix(string_concat(dst, name))
                    /\ UNCHANGED <<entry, copied>>
                 \/ /\ IsFile(path) /\ pc' = "open"
                    /\ dst' = string_ensurez(string_concat(dst, name))
                    /\ entry' = name /\ copied' = 0
                    /\ UNCHANGED src
    /\ UNCHANGED <<base, fs, home, cwd, curwd, ret, round, fails, skipped, lost>>

\* A failure with an entry left to read.  The entry is passed over when stat fails,
\* and all the rest when readdir does; a buffer that cannot grow ends the backup.
ReadFails ==
    /\ pc = "readdir" /\ Top.left # {} /\ MayFail
    /\ \/ /\ \E rest \in {Top.left \ {name} : name \in Top.left} \cup {{}} :
                stack' = Append(Pop, [Top EXCEPT !.left = rest])
          /\ skipped' = TRUE /\ UNCHANGED <<pc, ret>>
       \/ Bail /\ UNCHANGED skipped
    /\ UNCHANGED <<base, fs, home, cwd, bufVars, entry, copied, round, lost>>

\* fs_cp_file: the copy is created, or opened as it is.
OpenFiles ==
    LET to == Path(CString(dst))
    IN  /\ pc = "open"
        /\ \/ /\ IsDir(Front(to)) /\ ~IsDir(to)
              /\ fs' = Make(to, File(<<>>)) /\ pc' = "copy"
              /\ UNCHANGED <<stack, ret, fails>>
           \/ (~IsDir(Front(to)) \/ IsDir(to)) /\ Bail /\ UNCHANGED <<fs, fails>>
           \/ MayFail /\ Bail /\ UNCHANGED fs
        /\ UNCHANGED <<base, home, cwd, bufVars, entry, copied, round, skipped, lost>>

Source == fs[Append(cwd, entry)].data

CopyChunk ==
    LET to   == Path(CString(dst))
        last == IF copied + Chunk < Len(Source) THEN copied + Chunk ELSE Len(Source)
    IN  /\ pc = "copy" /\ copied < Len(Source)
        /\ \/ /\ fs' = [fs EXCEPT ![to].data = Overwrite(@, copied, SubSeq(Source, copied + 1, last))]
              /\ copied' = last /\ UNCHANGED <<stack, pc, ret, fails>>
           \/ MayFail /\ Bail /\ UNCHANGED <<fs, copied>>
        /\ UNCHANGED <<base, home, cwd, bufVars, entry, round, skipped, lost>>

\* The path of the copy is cut back to that of its directory.
CopyEnds ==
    /\ pc = "copy" /\ copied = Len(Source) /\ pc' = "readdir"
    /\ dst' = Cut(dst, Top.dstdirlen)
    /\ UNCHANGED <<base, fs, home, cwd, src, curwd, stack, entry, copied, ret, round, fails,
                   skipped, lost>>

\* A call of handledir has read all; its caller, if there is one, goes on.
Leave(frames, s, d) ==
    /\ pc = "readdir" /\ Top.left = {}
    /\ IF frames = <<>>
         THEN ret' = TRUE /\ pc' = "restore" /\ stack' = <<>> /\ UNCHANGED <<cwd, src, dst, fails>>
         ELSE /\ src' = s /\ dst' = d
              /\ \/ cwd' = Path(CString(s)) /\ stack' = frames /\ UNCHANGED <<pc, ret, fails>>
                 \/ MayFail /\ Bail /\ UNCHANGED cwd
    /\ UNCHANGED <<base, fs, home, curwd, entry, copied, round, skipped, lost>>

\* Mutant: the path of the copy is not cut.
LeaveDir_NoCut ==
    LET frames == Pop
        caller == frames[Len(frames)]
    IN  Leave(frames, string_ensurez(Cut(src, caller.srcdirlen)), dst)

LeaveDir ==
    LET frames == Pop
        caller == frames[Len(frames)]
    IN  Leave(frames, string_ensurez(Cut(src, caller.srcdirlen)),
                      string_ensurez(Cut(dst, caller.dstdirlen)))

\* The chdir at the end of both functions; a failure is only logged.
GoBack ==
    /\ curwd' = string_ensurez(curwd)
    /\ \/ cwd' = Path(CString(string_ensurez(curwd))) /\ UNCHANGED <<fails, lost>>
       \/ MayFail /\ lost' = TRUE /\ UNCHANGED cwd

\* The end of fs_cp_r.
RestoreCwd ==
    /\ pc = "restore" /\ pc' = "cleanup" /\ GoBack
    /\ UNCHANGED <<base, fs, home, src, dst, stack, entry, copied, ret, round, skipped>>

-----------------------------------------------------------------------------
(* fs_empty_dir                                                              *)

\* main_cleanup_hosts_subdir, up to the first entry.
fs_empty_dir ==
    LET d  == string_ensurez(Absolute(base \o <<"/", "hosts">>))
        at == Path(CString(d))
        to == fs_ensure_suffix(d)
    IN  /\ pc = "cleanup"
        /\ \/ /\ curwd' = fs_get_cwd
              /\ IF at \notin DOMAIN fs
                   THEN /\ ret' = TRUE /\ pc' = "restore2" /\ dst' = d
                        /\ UNCHANGED <<cwd, stack, fails>>
                   ELSE \/ /\ cwd' = Path(CString(to)) /\ pc' = "unlink" /\ dst' = to
                           /\ stack' = <<[left |-> Entries(fs, at)]>> /\ UNCHANGED <<ret, fails>>
                        \/ /\ MayFail /\ pc' = "restore2" /\ UNCHANGED stack
                           /\ \/ /\ ret' = FALSE /\ dst' = to     \* chdir or opendir fails
                                 /\ cwd' \in {cwd, Path(CString(to))}
                              \/ ret' = TRUE /\ dst' = d /\ UNCHANGED cwd     \* stat fails
           \/ /\ MayFail /\ ret' = FALSE /\ pc' = "backup"    \* the first fs_get_cwd fails
              /\ UNCHANGED <<cwd, dst, curwd, stack>>
        /\ UNCHANGED <<base, fs, home, src, entry, copied, round, skipped, lost>>

\* An entry is removed if it is a file; a failure is only logged.
Unlink(cut) ==
    /\ pc = "unlink"
    /\ \E name \in Top.left :
          LET d == string_concat(dst, name)
          IN  /\ stack' = <<[left |-> Top.left \ {name}]>>
              /\ IF IsFile(Append(cwd, name))
                   THEN /\ dst' = IF cut THEN Cut(d, dst.length) ELSE d
                        /\ \/ /\ fs' = [p \in DOMAIN fs \ {Path(CString(d))} |-> fs[p]]
                              /\ UNCHANGED fails
                           \/ MayFail /\ UNCHANGED fs
                   ELSE UNCHANGED <<dst, fs, fails>>
    /\ UNCHANGED <<base, home, cwd, src, curwd, entry, copied, pc, ret, round, skipped, lost>>

\* Mutant: the name stays in the buffer.
UnlinkEntry_NoCut == Unlink(FALSE)

UnlinkEntry == Unlink(TRUE)

\* As in ReadFails.
UnlinkFails ==
    /\ pc = "unlink" /\ Top.left # {} /\ MayFail
    /\ \/ /\ \E rest \in {Top.left \ {name} : name \in Top.left} \cup {{}} :
                stack' = <<[left |-> rest]>>
          /\ UNCHANGED <<pc, ret>>
       \/ ret' = FALSE /\ pc' = "restore2" /\ stack' = <<>>
    /\ UNCHANGED <<base, fs, home, cwd, bufVars, entry, copied, round, skipped, lost>>

EmptyEnds ==
    /\ pc = "unlink" /\ Top.left = {}
    /\ ret' = TRUE /\ pc' = "restore2" /\ stack' = <<>>
    /\ UNCHANGED <<base, fs, home, cwd, bufVars, entry, copied, round, fails, skipped, lost>>

\* The end of fs_empty_dir; the files are written only if it has succeeded, and the
\* next configuration is written after the one that was given up.
RestoreCwd2 ==
    /\ pc = "restore2" /\ pc' = (IF ret THEN "write" ELSE "backup") /\ GoBack
    /\ UNCHANGED <<base, fs, home, src, dst, stack, entry, copied, ret, round, skipped>>

-----------------------------------------------------------------------------
Next ==
    \/ WriteFiles \/ fs_cp_r \/ handledir \/ ReadEntry \/ ReadFails \/ OpenFiles
    \/ CopyChunk \/ CopyEnds \/ LeaveDir \/ RestoreCwd \/ fs_empty_dir \/ UnlinkEntry
    \/ UnlinkFails \/ EmptyEnds \/ RestoreCwd2

Spec == Init /\ [][Next]_vars

\* For TLC: nothing tells the names of two hosts apart.
HostSymmetry == Permutations(Hosts)

-----------------------------------------------------------------------------
(* Properties.                                                               *)

\* A relative $base names another directory, since the way back to home has failed.
Astray == lost /\ Head(base) # "/"

\* When fs_cp_r reports success, every file below $base is in $base.old under the
\* same name, and its copy begins with its contents; what an older, longer copy
\* had behind them is still there, because the copy is not truncated.  It reports
\* success as well when stat or mkdir of an entry or readdir has failed (skipped).
BackupComplete ==
    pc = "cleanup" /\ ret /\ ~skipped /\ ~Astray =>
        \A p \in Below(fs, Base) :
            LET q == Backed \o SubSeq(p, Len(Base) + 1, Len(p))
            IN  /\ q \in DOMAIN fs
                /\ IF IsDir(p) THEN IsDir(q) ELSE IsFile(q) /\ IsPrefix(fs[p].data, fs[q].data)

\* When files are written, no host file of an earlier configuration is left in
\* $base/hosts, so that tincd does not know a node that is gone, unless a call has
\* failed: a failing stat is taken for a missing directory or entry, a failing
\* readdir for the end, and a failing unlink is only logged.
HostsEmptied == pc = "write" /\ fails = 0 => Below(fs, HostsDir) = {}

=============================================================================
