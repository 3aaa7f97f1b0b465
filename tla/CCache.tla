------------------------------- MODULE CCache -------------------------------
(***************************************************************************)
(* CCache/: ccache-swig drivers that share one cache directory.            *)
(*                                                                         *)
(* A tree is a build tree that runs one driver at a time, over and over:   *)
(* each run preprocesses the tree's source, looks the result up in the     *)
(* cache (from_cache), compiles and stores it on a miss (to_cache), and    *)
(* execs the real compiler when anything goes wrong (failed).  Drivers of  *)
(* different trees, the cleanup of any driver, the user's editor and       *)
(* crashes interleave between any two system calls that other processes    *)
(* can see.                                                                *)
(*                                                                         *)
(* A Key is what the hash of find_hash() tells apart: one version of the   *)
(* source and of the options.  Two trees that hold the same version share  *)
(* its cache entry.                                                        *)
(***************************************************************************)
EXTENDS FileSystem, Naturals

CONSTANTS
    Tree,       \* build trees; each has one source and its outputs
    Key,        \* source versions
    NFiles,     \* number of files one compile generates
    SWIG,       \* is the compiler SWIG (files are listed in <hash>.outfiles)?
    Verdict,    \* [Key -> what the compiler does with the version]
    Env,        \* [Tree -> build options and environment of its drivers]
    WIPE        \* may "ccache -C" (wipe_all) run?

\* Verdicts: compiles; compile error; preprocessor error; prints to stdout.
Verdicts == {"ok", "fail", "cppfail", "stdout"}

\* zlib: built with ENABLE_ZLIB.  The others are CCACHE_ variables; input is
\* "cpp" (compile the preprocessed file), "cpp2" (CCACHE_CPP2) or "direct"
\* (the source is already preprocessed).
Envs == [zlib : BOOLEAN, nocompress : BOOLEAN, hardlink : BOOLEAN,
         readonly : BOOLEAN, recache : BOOLEAN,
         input : {"cpp", "cpp2", "direct"}]

ASSUME EnvAssumption == Env \in [Tree -> Envs]
ASSUME VerdictAssumption == Verdict \in [Key -> Verdicts]
ASSUME FilesAssumption ==
    /\ NFiles \in Nat \ {0}
    /\ SWIG \in BOOLEAN
    /\ ~SWIG => NFiles = 1
    /\ WIPE \in BOOLEAN

VARIABLES
    source,     \* [Tree -> Key] the version in the tree's source file
    fs,         \* the inodes: cache, temp and output files, descriptors
    pc,         \* [Tree -> where the tree's driver is]
    key,        \* [Tree -> Key] hashname, from find_hash()
    file,       \* [Tree -> the generated file in hand; 0 stderr, NFiles+1 list]
    first,      \* [Tree -> BOOLEAN] argument of from_cache()
    read,       \* [Tree -> Key] the version the compiler read
    told,       \* [Tree -> what the last run reported, or NoReply]
    seen        \* [Tree -> set of versions the source had during the run]

vars == <<source, fs, pc, key, file, first, read, told, seen>>

Files == 1 .. NFiles
List  == NFiles + 1

-----------------------------------------------------------------------------
(* Names. *)
Obj(k, i) == <<"obj", k, i>>    \* <hash>, <hash>.1, ...
Err(k)    == <<"err", k>>       \* <hash>.stderr
Lst(k)    == <<"lst", k>>       \* <hash>.outfiles
Tmp(t, i) == <<"tmp", t, i>>    \* <dest>.XXXXXX of a copy into the cache
Out(t, i) == <<"out", t, i>>    \* the generated files
ITmp(t)   == <<"itmp", t>>      \* i_tmpfile, unless it is the input itself
Cpp(t)    == <<"cpp", t>>       \* cpp_stderr
COut(t)   == <<"cout", t>>      \* tmp_stdout
CErr(t)   == <<"cerr", t>>      \* tmp_stderr
CLst(t)   == <<"clst", t>>      \* tmp_outfiles
Fd(t)     == <<"fd", t>>        \* fd_stderr

Outs(t)    == {Out(t, i) : i \in Files}
Tmps(t)    == {Tmp(t, i) : i \in {0} \cup Files}
Temps(t)   == {ITmp(t), Cpp(t), COut(t), CErr(t), CLst(t)}
CacheNames == {Obj(k, i) : k \in Key, i \in Files}
              \cup {Err(k) : k \in Key} \cup {Lst(k) : k \in Key}
              \cup UNION {Tmps(t) : t \in Tree}

(* Data.  whole is FALSE while the compiler has truncated but not finished *)
(* the file; gz says that the bytes are compressed; pp that the stderr     *)
(* holds the preprocessor's messages too.                                  *)
OutData  == [of : Key, part : Files, gz : BOOLEAN, whole : BOOLEAN]
ErrData  == [of : Key, pp : BOOLEAN, gz : BOOLEAN]
TextData == [of : Key]

Output(v, i) == [of |-> v, part |-> i, gz |-> FALSE, whole |-> TRUE]
Stderr(v, b) == [of |-> v, pp |-> b, gz |-> FALSE]

\* copy into the cache: a zlib build compresses unless CCACHE_NOCOMPRESS
Packed(t, d) ==
    [d EXCEPT !.gz = @ \/ (Env[t].zlib /\ ~Env[t].nocompress)]
\* copy out of the cache: a zlib build reads both forms, another copies bytes
Unpacked(t, d) == [d EXCEPT !.gz = @ /\ ~Env[t].zlib]

NoReply == [status |-> 2]
Replies == [status : {0, 1}, err : ErrData, pre : 0 .. 2]

Fails(v) == Verdict[v] \in {"fail", "cppfail"}

-----------------------------------------------------------------------------
Init ==
    /\ source \in [Tree -> Key]
    /\ fs = {}
    /\ pc = [t \in Tree |-> "idle"]
    /\ key = source
    /\ file = [t \in Tree |-> 0]
    /\ first = [t \in Tree |-> TRUE]
    /\ read = source
    /\ told = [t \in Tree |-> NoReply]
    /\ seen = [t \in Tree |-> {}]

Goto(t, l) == pc' = [pc EXCEPT ![t] = l]
SetFile(t, n) == file' = [file EXCEPT ![t] = n]

\* the process ends, and its local state with it
End(t) ==
    /\ Goto(t, "idle")
    /\ SetFile(t, 0)
    /\ first' = [first EXCEPT ![t] = TRUE]

\* exit(): report the status and what went to stderr
Exit(t, r, gone) ==
    /\ End(t)
    /\ told' = [told EXCEPT ![t] = r]
    /\ fs' = Remove(fs, gone)

\* make runs the driver, a process with names of its own for its temporary
\* files: what an earlier run may have left behind is out of its sight.
\* find_hash(): preprocess, hash, remember i_tmpfile and cpp_stderr.
FindHash(t) ==
    /\ pc[t] = "idle"
    /\ told' = [told EXCEPT ![t] = NoReply]
    /\ seen' = [seen EXCEPT ![t] = {source[t]}]
    /\ key'  = [key EXCEPT ![t] = source[t]]
    /\ read' = [read EXCEPT ![t] = source[t]]
    /\ LET s == Remove(fs, Temps(t) \cup Tmps(t))
           d == [of |-> source[t]]
           a == IF Env[t].input = "direct" THEN s ELSE Create(s, ITmp(t), d)
           b == IF Env[t].input = "cpp2" THEN a ELSE Create(a, Cpp(t), d)
       IN  IF Env[t].input # "direct" /\ Verdict[source[t]] = "cppfail"
           THEN fs' = s /\ Goto(t, "exec")
           ELSE fs' = b /\ Goto(t, "open")
    /\ UNCHANGED <<source, file, first>>

-----------------------------------------------------------------------------
(* from_cache() *)

\* mutant of Missed: to_cache() after every miss, the second one included
MissedForgetsFirst(t) == IF ~Env[t].readonly THEN "compile" ELSE "exec"

\* A miss returns to ccache(): compile and store, unless CCACHE_READONLY; a
\* miss of the second look, right after storing, is given up.
Missed(t) == IF first[t] /\ ~Env[t].readonly THEN "compile" ELSE "exec"

OpenStderr(t) ==
    /\ pc[t] = "open"
    /\ IF Has(fs, Err(key[t]))
       THEN fs' = Link(fs, Err(key[t]), Fd(t)) /\ Goto(t, "stat")
       ELSE Goto(t, Missed(t)) /\ UNCHANGED fs
    /\ UNCHANGED <<source, key, file, first, read, told, seen>>

StatObject(t) ==
    /\ pc[t] = "stat"
    /\ IF Has(fs, Obj(key[t], 1))
       THEN Goto(t, "test") /\ UNCHANGED fs
       ELSE Goto(t, "drop") /\ fs' = Remove(fs, {Fd(t)})
    /\ UNCHANGED <<source, key, file, first, read, told, seen>>

\* CCACHE_RECACHE, and a compressed entry met by a build without zlib
TestEntry(t) ==
    /\ pc[t] = "test"
    /\ IF \/ first[t] /\ Env[t].recache
          \/ /\ ~Env[t].zlib
             /\ Has(fs, Obj(key[t], 1)) /\ Data(fs, Obj(key[t], 1)).gz
       THEN Goto(t, "drop") /\ fs' = Remove(fs, {Fd(t)})
       ELSE /\ UNCHANGED fs
            /\ Goto(t, IF ~first[t] THEN "deliver"
                       ELSE IF SWIG THEN "list" ELSE "retrieve")
    /\ SetFile(t, 1)
    /\ UNCHANGED <<source, key, first, read, told, seen>>

\* unlink(stderr_file) of an entry that cannot be used
Drop(t) ==
    /\ pc[t] = "drop"
    /\ fs' = Remove(fs, {Err(key[t])})
    /\ Goto(t, Missed(t))
    /\ UNCHANGED <<source, key, file, first, read, told, seen>>

\* fopen() of <hash>.outfiles
OpenList(t) ==
    /\ pc[t] = "list"
    /\ Goto(t, IF Has(fs, Lst(key[t])) THEN "retrieve" ELSE "bad")
    /\ UNCHANGED <<source, fs, key, file, first, read, told, seen>>

\* mutant of Retrieve: a hard link whatever CCACHE_HARDLINK says
RetrieveAlwaysLinks(t) ==
    /\ pc[t] = "retrieve"
    /\ fs' = Remove(fs, {Out(t, file[t])})
    /\ Goto(t, "rlink")
    /\ UNCHANGED <<source, key, file, first, read, told, seen>>

\* retrieve_from_cache(): unlink(dest), then link or copy
Retrieve(t) ==
    /\ pc[t] = "retrieve"
    /\ fs' = Remove(fs, {Out(t, file[t])})
    /\ LET o == Obj(key[t], file[t])
       IN  Goto(t, IF Env[t].hardlink /\ ~(Has(fs, o) /\ Data(fs, o).gz)
                   THEN "rlink" ELSE "rcopy")
    /\ UNCHANGED <<source, key, file, first, read, told, seen>>

\* mutants of Retrieved: "<=" for "<" in the loop; only the first file
RetrievedTooFar(t) ==
    IF file[t] <= NFiles
    THEN Goto(t, "retrieve") /\ SetFile(t, file[t] + 1)
    ELSE Goto(t, "deliver") /\ UNCHANGED file
RetrievedFirstOnly(t) == Goto(t, "deliver") /\ UNCHANGED file

Retrieved(t) ==
    IF file[t] < NFiles
    THEN Goto(t, "retrieve") /\ SetFile(t, file[t] + 1)
    ELSE Goto(t, "deliver") /\ UNCHANGED file

\* link(2): ENOENT is a miss, any other error falls back to the copy
RetrieveLink(t) ==
    /\ pc[t] = "rlink"
    /\ LET o == Obj(key[t], file[t])
       IN  \/ /\ Has(fs, o)
              /\ fs' = Link(fs, o, Out(t, file[t]))
              /\ Retrieved(t)
           \/ ~Has(fs, o) /\ Goto(t, "bad") /\ UNCHANGED <<fs, file>>
           \/ Goto(t, "rcopy") /\ UNCHANGED <<fs, file>>
    /\ UNCHANGED <<source, key, first, read, told, seen>>

\* copy_file_from_cache(), through a temporary file that only this driver
\* knows; the second disjunct is ENOENT, or a full disk met twice
RetrieveCopy(t) ==
    /\ pc[t] = "rcopy"
    /\ LET o == Obj(key[t], file[t])
       IN  \/ /\ Has(fs, o)
              /\ fs' = Create(Remove(fs, {Out(t, file[t])}), Out(t, file[t]),
                              Unpacked(t, Data(fs, o)))
              /\ Retrieved(t)
           \/ Goto(t, "bad") /\ UNCHANGED <<fs, file>>
    /\ UNCHANGED <<source, key, first, read, told, seen>>

\* mutant of DropFreed: close(fd_stderr) is missing
DropFreedLeaksFd(t) ==
    /\ pc[t] = "bad"
    /\ \E ns \in {{}, {Err(key[t])}} : fs' = Remove(fs, ns)
    /\ Goto(t, Missed(t))
    /\ UNCHANGED <<source, key, file, first, read, told, seen>>

\* passfail == -1: unlink(stderr_file) after free(stderr_file), so the name
\* it removes is either still the entry's or garbage
DropFreed(t) ==
    /\ pc[t] = "bad"
    /\ \E ns \in {{}, {Err(key[t])}} : fs' = Remove(fs, {Fd(t)} \cup ns)
    /\ Goto(t, Missed(t))
    /\ UNCHANGED <<source, key, file, first, read, told, seen>>

\* the preprocessor's messages that a driver adds to a stderr file
Before(t) == IF Env[t].input = "cpp" /\ Has(fs, Cpp(t)) THEN 1 ELSE 0
Within(d) == IF d.pp THEN 1 ELSE 0

\* mutant of Deliver: cpp_stderr is printed and not unlinked
DeliverLeavesCpp(t) ==
    /\ pc[t] = "deliver"
    /\ LET d == Unpacked(t, Data(fs, Fd(t)))
       IN  Exit(t, [status |-> 0, err |-> d, pre |-> Before(t) + Within(d)],
                {ITmp(t), Fd(t)})
    /\ UNCHANGED <<source, key, read, seen>>

\* the rest of from_cache(): remove i_tmpfile, send both stderr files, exit(0)
Deliver(t) ==
    /\ pc[t] = "deliver"
    /\ LET d == Unpacked(t, Data(fs, Fd(t)))
       IN  Exit(t, [status |-> 0, err |-> d, pre |-> Before(t) + Within(d)],
                {ITmp(t), Cpp(t), Fd(t)})
    /\ UNCHANGED <<source, key, read, seen>>

-----------------------------------------------------------------------------
(* to_cache() and commit_to_cache() *)

\* The compiler opens its outputs for writing: SWIG's NewFile(name, "w")
\* truncates the inode that is there and writes into it.
WriteOuts(s, t, v, done) ==
    LET D(i) == [Output(v, i) EXCEPT !.whole = done]
        Mine(f) == \E i \in Files : Out(t, i) \in f.names
        old == {IF Mine(f)
                THEN [f EXCEPT !.data = D(CHOOSE i \in Files : Out(t, i) \in f.names)]
                ELSE f : f \in s}
        new == {[names |-> {Out(t, i)}, data |-> D(i)] :
                    i \in {j \in Files : ~Has(s, Out(t, j))}}
    IN  old \cup new

\* A compile error shows before or after the outputs were opened.
Failing(s, t, v) == {s, WriteOuts(s, t, v, FALSE)}

\* what execute() leaves in tmp_stdout, tmp_stderr and tmp_outfiles
Logged(s, t, v) ==
    LET a == Create(Create(s, COut(t), [of |-> v]),
                    CErr(t), Stderr(v, Env[t].input # "cpp"))
    IN  IF SWIG THEN Create(a, CLst(t), [of |-> v]) ELSE a


\* execute(): the compiler reads i_tmpfile, which is the preprocessed file,
\* or with CCACHE_CPP2 the source again, or the source itself when direct
Compile(t) ==
    /\ pc[t] = "compile"
    /\ IF Env[t].input = "cpp" /\ ~Has(fs, ITmp(t))
       THEN /\ read' = [read EXCEPT ![t] = key[t]]     \* no such input file
            /\ fs' = Logged(fs, t, key[t])
            /\ Goto(t, "status")
       ELSE LET v == IF Env[t].input = "cpp" THEN Data(fs, ITmp(t)).of
                     ELSE source[t]
            IN  /\ read' = [read EXCEPT ![t] = v]
                /\ IF Fails(v)
                   THEN /\ \E s \in Failing(fs, t, v) : fs' = Logged(s, t, v)
                        /\ Goto(t, "status")
                   ELSE /\ fs' = WriteOuts(fs, t, v, FALSE)
                        /\ Goto(t, "write")
    /\ UNCHANGED <<source, key, file, first, told, seen>>

\* the compiler finishes its outputs and exits with status 0
CompileEnd(t) ==
    /\ pc[t] = "write"
    /\ fs' = Logged(WriteOuts(fs, t, read[t], TRUE), t, read[t])
    /\ Goto(t, "stdout")
    /\ UNCHANGED <<source, key, file, first, read, told, seen>>

HasStdout(t) ==
    ~Has(fs, COut(t)) \/ (pc[t] = "stdout" /\ Verdict[read[t]] = "stdout")

\* "compiler produced stdout": forget the result and compile again
StdoutSeen(t) ==
    /\ pc[t] \in {"stdout", "status"}
    /\ HasStdout(t)
    /\ fs' = Remove(fs, {COut(t), CErr(t), CLst(t)}
                        \cup IF SWIG THEN {} ELSE Outs(t))
    /\ Goto(t, "exec")
    /\ UNCHANGED <<source, key, file, first, read, told, seen>>

StdoutEmpty(t) ==
    /\ pc[t] = "stdout"
    /\ ~HasStdout(t)
    /\ fs' = Remove(fs, {COut(t)})
    /\ Goto(t, "commit")
    /\ SetFile(t, 1)
    /\ UNCHANGED <<source, key, first, read, told, seen>>

\* mutant of CompileFailed: the status is lost
CompileFailedStatus0(t) ==
    /\ pc[t] = "status" /\ ~HasStdout(t) /\ Has(fs, CErr(t))
    /\ LET d == Data(fs, CErr(t))
       IN  Exit(t, [status |-> 0, err |-> d, pre |-> Before(t) + Within(d)],
                {COut(t), Cpp(t), CErr(t), ITmp(t)})
    /\ UNCHANGED <<source, key, read, seen>>

\* status # 0: hand tmp_stderr through, or compile again when it is gone
CompileFailed(t) ==
    /\ pc[t] = "status"
    /\ ~HasStdout(t)
    /\ IF Has(fs, CErr(t))
       THEN LET d == Data(fs, CErr(t))
            IN  Exit(t, [status |-> 1, err |-> d, pre |-> Before(t) + Within(d)],
                     {COut(t), Cpp(t), CErr(t), ITmp(t)})
       ELSE /\ fs' = Remove(fs, {COut(t), CLst(t)}
                                \cup IF SWIG THEN {} ELSE Outs(t))
            /\ Goto(t, "exec")
            /\ UNCHANGED <<file, first, told>>
    /\ UNCHANGED <<source, key, read, seen>>


\* the cache file that is being filled, and the file it is filled from
Dest(t) == IF file[t] = 0 THEN Err(key[t])
           ELSE IF file[t] = List THEN Lst(key[t]) ELSE Obj(key[t], file[t])
From(t) == IF file[t] = 0 THEN CErr(t) ELSE Out(t, file[t])

\* an error while storing: unlink(tmp_outfiles), then failed()
GiveUp(t) ==
    /\ Goto(t, "exec")
    /\ fs' = Remove(fs, {CLst(t)})

\* mutant of Commit: a hard link whatever CCACHE_HARDLINK says
CommitAlwaysLinks(t) ==
    /\ pc[t] = "commit"
    /\ IF Has(fs, From(t))
       THEN fs' = Remove(fs, {Dest(t)}) /\ Goto(t, "link")
       ELSE GiveUp(t)
    /\ UNCHANGED <<source, key, file, first, read, told, seen>>

\* commit_to_cache(): stat(src), unlink(dest), then link or copy
Commit(t) ==
    /\ pc[t] = "commit"
    /\ IF Has(fs, From(t))
       THEN /\ fs' = Remove(fs, {Dest(t)})
            /\ Goto(t, IF Env[t].hardlink /\ Env[t].nocompress
                       THEN "link" ELSE "copy")
       ELSE GiveUp(t)
    /\ UNCHANGED <<source, key, file, first, read, told, seen>>

\* link(2); EEXIST (another driver was faster) or any error leads to the copy
CommitLink(t) ==
    /\ pc[t] = "link"
    /\ \/ /\ ~Has(fs, Dest(t))
          /\ fs' = Link(fs, From(t), Dest(t))
          /\ Goto(t, "stored")
       \/ Goto(t, "copy") /\ UNCHANGED fs
    /\ UNCHANGED <<source, key, file, first, read, told, seen>>

\* copy_file_to_cache(): fill <dest>.XXXXXX, or meet a full disk
CopyToTmp(t) ==
    /\ pc[t] = "copy"
    /\ \/ /\ Has(fs, From(t))
          /\ fs' = Create(fs, Tmp(t, file[t]), Packed(t, Data(fs, From(t))))
          /\ Goto(t, "unlink")
       \/ GiveUp(t)
    /\ UNCHANGED <<source, key, file, first, read, told, seen>>

CopyUnlink(t) ==
    /\ pc[t] = "unlink"
    /\ fs' = Remove(fs, {Dest(t)})
    /\ Goto(t, "rename")
    /\ UNCHANGED <<source, key, file, first, read, told, seen>>

\* rename(tmp_name, dest); a cleanup may have removed the temporary file.
\* move_file() removes the source of a copied stderr.
CopyRename(t) ==
    /\ pc[t] = "rename"
    /\ IF Has(fs, Tmp(t, file[t]))
       THEN /\ fs' = Remove(Rename(fs, Tmp(t, file[t]), Dest(t)),
                            IF file[t] = 0 THEN {CErr(t)} ELSE {})
            /\ Goto(t, "stored")
       ELSE GiveUp(t)
    /\ UNCHANGED <<source, key, file, first, read, told, seen>>

\* to_cache_stats_helper() and on to the next file: the generated files, the
\* list of them when SWIG, and stderr, whose arrival makes the entry visible
Stored(t) ==
    /\ pc[t] = "stored"
    /\ IF Env[t].zlib /\ ~Has(fs, Dest(t))
       THEN GiveUp(t) /\ UNCHANGED <<file, first>>
       ELSE /\ UNCHANGED fs
            /\ first' = [first EXCEPT ![t] = file[t] # 0]
            /\ IF file[t] = 0
               THEN Goto(t, "open") /\ UNCHANGED file
               ELSE IF file[t] < NFiles
               THEN Goto(t, "commit") /\ SetFile(t, file[t] + 1)
               ELSE IF file[t] = NFiles /\ SWIG
               THEN Goto(t, "putlist") /\ SetFile(t, List)
               ELSE Goto(t, "puterr") /\ SetFile(t, 0)
    /\ UNCHANGED <<source, key, read, told, seen>>

\* safe_rename(): link(2), where EEXIST is a success, then unlink(2)
SafeRename(s, a, b) == Remove(IF Has(s, b) THEN s ELSE Link(s, a, b), {a})

PutList(t) ==
    /\ pc[t] = "putlist"
    /\ IF Has(fs, CLst(t))
       THEN fs' = SafeRename(fs, CLst(t), Lst(key[t])) /\ Goto(t, "stored")
       ELSE GiveUp(t)
    /\ UNCHANGED <<source, key, file, first, read, told, seen>>

\* move_file(tmp_stderr, path_stderr): safe_rename(), or with zlib a copy
PutStderr(t) ==
    /\ pc[t] = "puterr"
    /\ IF ~Has(fs, CErr(t)) THEN GiveUp(t)
       ELSE IF Env[t].zlib THEN Goto(t, "copy") /\ UNCHANGED fs
       ELSE /\ fs' = SafeRename(fs, CErr(t), Err(key[t]))
            /\ Goto(t, "stored")
    /\ UNCHANGED <<source, key, file, first, read, told, seen>>

-----------------------------------------------------------------------------
\* failed(): remove the temporary files, exec the compiler on the source;
\* hashname goes with the driver's memory
Exec(t) ==
    /\ pc[t] = "exec"
    /\ key'  = [key EXCEPT ![t] = source[t]]
    /\ read' = [read EXCEPT ![t] = source[t]]
    /\ LET s == Remove(fs, {ITmp(t), Cpp(t)})
       IN  IF Fails(source[t]) THEN fs' \in Failing(s, t, source[t])
           ELSE fs' = WriteOuts(s, t, source[t], FALSE)
    /\ Goto(t, "execend")
    /\ UNCHANGED <<source, file, first, told, seen>>

ExecEnd(t) ==
    /\ pc[t] = "execend"
    /\ End(t)
    /\ told' = [told EXCEPT ![t] =
                   [status |-> IF Fails(read[t]) THEN 1 ELSE 0,
                    err |-> Stderr(read[t], TRUE), pre |-> 1]]
    /\ fs' = IF Fails(read[t]) THEN fs ELSE WriteOuts(fs, t, read[t], TRUE)
    /\ UNCHANGED <<source, key, read, seen>>

-----------------------------------------------------------------------------
(* The surroundings of the drivers. *)

\* the user saves another version of the source, at any time
Edit(t) ==
    /\ \E k \in Key \ {source[t]} :
          /\ source' = [source EXCEPT ![t] = k]
          /\ seen' = IF pc[t] = "idle" THEN seen
                     ELSE [seen EXCEPT ![t] = @ \cup {k}]
    /\ UNCHANGED <<fs, pc, key, file, first, read, told>>

\* a driver is killed.  Its temporary files stay, under names with a process
\* id or a random suffix that no later driver uses: they leave the model.
Crash(t) ==
    /\ pc[t] # "idle"
    /\ End(t)
    /\ seen' = [seen EXCEPT ![t] = {}]
    /\ fs' = Remove(fs, Temps(t) \cup Tmps(t) \cup {Fd(t)})
    /\ UNCHANGED <<source, key, read, told>>

\* one unlink of sort_and_clean(), of "ccache -c" or of any driver whose
\* store exceeded the limits: it may choose any file below the cache's
\* subdirectories, the temporary files of unfinished copies included
Clean ==
    /\ \E n \in CacheNames : Has(fs, n) /\ fs' = Remove(fs, {n})
    /\ UNCHANGED <<source, pc, key, file, first, read, told, seen>>

\* one unlink of wipe_all(), which traverses the whole cache directory and
\* so meets temp/, the default place of the drivers' temporary files
Wipe ==
    /\ WIPE
    /\ \E t \in Tree : \E n \in Temps(t) :
          Has(fs, n) /\ fs' = Remove(fs, {n})
    /\ UNCHANGED <<source, pc, key, file, first, read, told, seen>>

Step(t) ==
    \/ OpenStderr(t) \/ StatObject(t) \/ TestEntry(t) \/ Drop(t)
    \/ OpenList(t) \/ Retrieve(t) \/ RetrieveLink(t) \/ RetrieveCopy(t)
    \/ DropFreed(t) \/ Deliver(t)
    \/ Compile(t) \/ CompileEnd(t)
    \/ StdoutSeen(t) \/ StdoutEmpty(t) \/ CompileFailed(t)
    \/ Commit(t) \/ CommitLink(t) \/ CopyToTmp(t) \/ CopyUnlink(t)
    \/ CopyRename(t) \/ Stored(t) \/ PutList(t) \/ PutStderr(t)
    \/ Exec(t) \/ ExecEnd(t)

Next ==
    \/ \E t \in Tree : Step(t) \/ FindHash(t) \/ Edit(t) \/ Crash(t)
    \/ Clean \/ Wipe

\* The operating system runs every driver; nobody has to start, edit, crash
\* or clean.
Fairness == \A t \in Tree : WF_vars(Step(t))

Spec == Init /\ [][Next]_vars /\ Fairness

-----------------------------------------------------------------------------
(* Properties. *)

Labels == {"idle", "open", "stat", "test", "drop", "list", "retrieve",
           "rlink", "rcopy", "bad", "deliver", "compile", "write", "stdout",
           "status", "commit", "link", "copy", "unlink", "rename", "stored",
           "putlist", "puterr", "exec", "execend"}

\* Every name that a file can have.
Names == CacheNames \cup UNION {Outs(t) \cup Temps(t) \cup {Fd(t)} : t \in Tree}

\* The variables keep their types, and the loops over the generated files
\* stay within them while a file is in hand.
TypeOK ==
    /\ source \in [Tree -> Key]
    /\ fs \subseteq [names : SUBSET Names, data : OutData \cup ErrData \cup TextData]
    /\ pc \in [Tree -> Labels]
    /\ key \in [Tree -> Key]
    /\ file \in [Tree -> 0 .. List]
    /\ \A t \in Tree : pc[t] \in {"retrieve", "rlink", "rcopy", "commit", "link"}
          => file[t] \in Files
    /\ first \in [Tree -> BOOLEAN]
    /\ read \in [Tree -> Key]
    /\ told \in [Tree -> Replies \cup {NoReply}]
    /\ seen \in [Tree -> SUBSET Key]

\* Every path through from_cache(), the copy functions and execute() closes
\* the descriptor and consumes the temporary file that it opened before the
\* same run opens the next one: no name stands for two inodes.
OneInodePerName ==
    \A f, g \in fs : f # g => f.names \cap g.names = {}

\* What a run of the plain compiler on version v leaves: its files, its exit
\* status, and its messages with the preprocessor's, once and readable.
LikeCompiler(t, v) ==
    /\ told[t].err = [Stderr(v, told[t].err.pp) EXCEPT !.gz = FALSE]
    /\ told[t].pre = 1
    /\ told[t].status = (IF Fails(v) THEN 1 ELSE 0)
    /\ ~Fails(v) => \A i \in Files :
          Has(fs, Out(t, i)) /\ Data(fs, Out(t, i)) = Output(v, i)

Answered(t) == pc[t] = "idle" /\ told[t] # NoReply

\* ccache.yo: "always produce exactly the same compiler output that you would
\* get without the cache".  A run that ended, and nothing but its own tree's
\* next run may undo it, left what the compiler would have made of one of the
\* versions that the source had during the run.
SameAsCompiler ==
    \A t \in Tree : Answered(t) => \E v \in seen[t] : LikeCompiler(t, v)

\* The result that a tree holds, and keeps until it asks for the next one.
Wrong == [wrong |-> TRUE]
Result(t) ==
    IF ~Answered(t) THEN NoReply
    ELSE LET vs == {v \in seen[t] : LikeCompiler(t, v)}
         IN  IF vs = {} THEN Wrong ELSE CHOOSE v \in vs : TRUE

Alone == INSTANCE PlainCompiler WITH
            waiting <- [t \in Tree |-> pc[t] # "idle"],
            result  <- [t \in Tree |-> Result(t)],
            None    <- NoReply

\* Drivers that share a cache implement compilers that share nothing.
ImplementsCompiler == Alone!Safety
ImplementsCompilerFairly == Alone!Spec

\* A file that stands under its final name in the cache is complete and was
\* made from the version that the name stands for, whatever was interrupted
\* or interleaved while it was put there.
CacheRight ==
    \A f \in fs : \A k \in Key :
        /\ \A i \in Files : Obj(k, i) \in f.names =>
              f.data.of = k /\ f.data.part = i /\ f.data.whole
        /\ Err(k) \in f.names => f.data.of = k

\* failed(), from_cache() and to_cache() each clean up for themselves: no
\* path out of a run forgets the preprocessed file, cpp_stderr, tmp_stdout,
\* the half-filled copy in the cache or the open stderr entry.  (tmp_stderr
\* and tmp_outfiles are forgotten on the error paths of to_cache().)
NoStrayTemps ==
    \A t \in Tree : Answered(t) =>
        /\ ~Has(fs, ITmp(t)) /\ ~Has(fs, Cpp(t)) /\ ~Has(fs, COut(t))
        /\ ~Has(fs, Fd(t)) /\ \A n \in Tmps(t) : ~Has(fs, n)

\* Every run ends: the second look at the cache, the fallback to the real
\* compiler and the races with other drivers never make a run start over.
EveryRunEnds == \A t \in Tree : pc[t] # "idle" ~> pc[t] = "idle"
=============================================================================
