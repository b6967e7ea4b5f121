------------------------------ MODULE RedisAof ------------------------------
(***************************************************************************)
(* The append only file of the Redis server that holds the job queue       *)
(* (src/redis-stable/src/aof.c): the commands executed, the buffer they    *)
(* are first appended to, the BASE and INCR files, the manifest that names *)
(* them, the background rewrite, the fsync thread of bio.c, and the death  *)
(* and restart of the process or of the machine.  The main thread runs one *)
(* handler at a time; a handler is cut into steps where a crash between    *)
(* two of its system calls leaves a different disk.                        *)
(***************************************************************************)
EXTENDS Integers, Sequences, FiniteSets, Functions

CONSTANTS
    Settings,     \* a policy (server.aof_fsync), the faults that may happen under
                  \* it and, a bound, the sequence numbers a manifest may reach
    MaxFaults,    \* bound: how many faults happen
    MaxWrites     \* bound: commands executed over all restarts

ASSUME PolicyAssumption == \A s \in Settings : s.policy \in {"always", "everysec", "no"}

VARIABLES
    proc,      \* "up", "down", or "refused" (loading failed, the server exited)
    srv,       \* the memory of the process
    bio,       \* the jobs queued for the AOF fsync worker
    files,     \* the files of the AOF directory: name -> content
    manifest,  \* the manifest file
    told,      \* the length of the dataset a client was told is on disk
    issued,    \* commands executed so far, over all restarts
    env        \* the policy, the faults that may happen and those that have

vars == <<proc, srv, bio, files, manifest, told, issued, env>>

\* Four operators that SequencesExt has too: the proofs take ten times as long in
\* the presence of that module and of Bags, which it extends.
Last(s) == s[Len(s)]
Front(s) == SubSeq(s, 1, Len(s) - 1)
IsPrefix(s, t) == Len(s) <= Len(t) /\ SubSeq(t, 1, Len(s)) = s
Concat(seqs) ==
    LET upto[i \in 0..Len(seqs)] == IF i = 0 THEN <<>> ELSE upto[i - 1] \o seqs[i]
    IN  upto[Len(seqs)]

----------------------------------------------------------------------------
(* Names and contents.  A command is two bytes, so that a write or a power *)
(* cut can leave half of it; a file is its bytes and how many of them have *)
(* been fsynced.  A BASE file is fsynced before it gets its name and holds *)
(* the dataset as whole commands.                                          *)

BaseName(n) == <<"base", n>>
IncrName(n) == <<"incr", n>>
TempIncr == <<"tempincr", 0>>
NoFd == <<"none", 0>>

Bytes(c) == << <<c, 1>>, <<c, 2>> >>
Encode(cmds) == Concat([i \in 1..Len(cmds) |-> Bytes(cmds[i])])
File(bytes, n) == [bytes |-> bytes, synced |-> n]
Written(cmds) == File(Encode(cmds), 2 * Len(cmds))
Empty == File(<<>>, 0)

\* Whole commands only, or whole commands and the first half of another one.
Whole(b) ==
    /\ Len(b) % 2 = 0
    /\ \A i \in 1..(Len(b) \div 2) :
          /\ b[2 * i - 1][2] = 1
          /\ b[2 * i] = <<b[2 * i - 1][1], 2>>
Cut(b) == IF Len(b) % 2 = 0 THEN b ELSE Front(b)
Truncated(b) == Len(b) % 2 = 1 /\ Whole(Front(b)) /\ Last(b)[2] = 1
Decode(b) == [i \in 1..(Len(b) \div 2) |-> b[2 * i][1]]

With(fs, name, f) ==
    [n \in DOMAIN fs \cup {name} |-> IF n = name THEN f ELSE fs[n]]
Without(fs, names) == [n \in DOMAIN fs \ names |-> fs[n]]
Rename(fs, from, to) == With(Without(fs, {from}), to, fs[from])

\* The files a manifest names, in the order they are loaded.
NoBase == 0
Chain(m) ==
    (IF m.base = NoBase THEN <<>> ELSE <<BaseName(m.base)>>)
       \o [i \in 1..Len(m.incrs) |-> IncrName(m.incrs[i])]

----------------------------------------------------------------------------
(* Loading (loadAppendOnlyFiles): every file of the manifest must exist,   *)
(* all must hold whole commands, and only the last may be truncated.       *)

Loadable(fs, m) ==
    LET chain == Chain(m)
    IN  \A i \in 1..Len(chain) :
           /\ chain[i] \in DOMAIN fs
           /\ \/ Whole(fs[chain[i]].bytes)
              \/ i = Len(chain) /\ Truncated(fs[chain[i]].bytes)

\* The bytes the chain holds, to the end of the last file.
ChainBytes(fs, m) ==
    Concat([i \in 1..Len(Chain(m)) |-> fs[Chain(m)[i]].bytes])
Loaded(fs, m) == Decode(Cut(ChainBytes(fs, m)))

\* aofLoadManifestFromFile: the sequence numbers continue from the entries read.
ReadManifest(m) ==
    [m EXCEPT !.bseq = m.base,
              !.iseq = IF m.incrs = <<>> THEN 0 ELSE Last(m.incrs)]

\* getNewBaseFileNameAndMarkPreAsHistory
NewBase(m) ==
    [m EXCEPT !.bseq = @ + 1, !.base = m.bseq + 1,
              !.hist = IF m.base = NoBase THEN @ ELSE @ \cup {BaseName(m.base)}]
\* getNewIncrAofName
NewIncr(m) ==
    [m EXCEPT !.iseq = @ + 1, !.incrs = Append(@, m.iseq + 1)]

\* markRewrittenIncrAofAsHistory: all but the file the descriptor writes.
IncrsToHistory(m, fd) ==
    LET kept == IF fd # NoFd /\ m.incrs # <<>> THEN <<Last(m.incrs)>> ELSE <<>>
    IN  [m EXCEPT !.incrs = kept,
                  !.hist = @ \cup {IncrName(n) : n \in Range(m.incrs) \ Range(kept)}]

----------------------------------------------------------------------------
Started(data, m, fd) ==
    [pc |-> "loop", ret |-> "loop", starting |-> FALSE,
     data |-> data, buf |-> <<>>, state |-> "on", fd |-> fd, man |-> m,
     child |-> "none", snap |-> <<>>, scheduled |-> FALSE,
     writeOk |-> TRUE, bioOk |-> TRUE,
     asked |-> IF fd \in DOMAIN files THEN Len(files[fd].bytes) ELSE 0,
     pending |-> 0, fsynced |-> 0, since |-> Len(data)]

\* The process dies: its memory and its fsync jobs are gone, the files stay.
Dead == [Started(srv.data, srv.man, NoFd) EXCEPT !.pc = "dead", !.since = 0]

FirstManifest == [base |-> 1, incrs |-> <<1>>, hist |-> {}, bseq |-> 1, iseq |-> 1]

\* The server has just started on an empty directory.
Init ==
    /\ proc = "up"
    /\ bio = <<>>
    /\ files = [name \in {BaseName(1), IncrName(1)} |-> Empty]
    /\ manifest = FirstManifest
    /\ srv = Started(<<>>, FirstManifest, IncrName(1))
    /\ told = 0
    /\ issued = 0
    /\ env \in {[policy |-> s.policy, may |-> s.may, seqs |-> s.seqs,
                 left |-> MaxFaults, had |-> {}] : s \in Settings}

Running(pc) == proc = "up" /\ srv.pc = pc
Policy == env.policy
Fault(f) ==
    /\ f \in env.may
    /\ env.left > 0
    /\ env' = [env EXCEPT !.left = @ - 1, !.had = @ \cup {f}]
NoFault == UNCHANGED env
Offset == Len(srv.data)

\* aofFsyncInProgress: only BIO_AOF_FSYNC jobs count.
FsyncInProgress == \E i \in DOMAIN bio : bio[i].type = "fsync"
\* aof_last_incr_size
Size == IF srv.fd \in DOMAIN files THEN Len(files[srv.fd].bytes) ELSE srv.asked

\* A flush returns to its caller; beforeSleep then publishes fsynced_reploff.
Return(s) ==
    [s EXCEPT !.pc = s.ret, !.ret = "loop",
              !.fsynced = IF s.ret = "loop" /\ s.state = "on" /\ @ # -1
                          THEN s.pending ELSE @]

----------------------------------------------------------------------------
(* Commands.                                                               *)

\* writeCommandsDeniedByDiskError
Denied == srv.state # "off" /\ ~(srv.writeOk /\ srv.bioOk)

\* feedAppendOnlyFile: is the command appended to aof_buf?
Logging == srv.state = "on" \/ (srv.state = "wait" /\ srv.child = "aof")

Command ==
    /\ Running("loop")
    /\ ~Denied
    /\ issued < MaxWrites
    /\ issued' = issued + 1
    /\ srv' = [srv EXCEPT !.data = Append(@, issued'),
                          !.buf = IF Logging THEN @ \o Bytes(issued') ELSE @]
    /\ NoFault
    /\ UNCHANGED <<proc, bio, files, manifest, told>>

\* A client whose last write made the dataset w long learns that it is safe:
\* from WAITAOF, or from the reply itself when the policy is always.
Tell ==
    /\ Running("loop")
    /\ \E w \in (srv.since + 1)..Offset :
          /\ srv.fsynced >= w
          /\ w > told
          /\ told' = w
    /\ NoFault
    /\ UNCHANGED <<proc, srv, bio, files, manifest, issued>>

----------------------------------------------------------------------------
(* flushAppendOnlyFile, called with the memory s; s.ret says for whom.     *)

\* Mutant: with an empty buffer there is nothing to do.
NothingToSync(s) == srv' = Return(s) /\ UNCHANGED <<proc, bio, files>>

\* The buffer is empty: nothing unsynced, or an fsync that is due.
FlushEmpty(s) ==
    /\ \/ /\ s.asked = Size
          /\ srv' = Return([s EXCEPT !.pending = IF FsyncInProgress THEN @ ELSE Offset])
       \/ /\ s.asked # Size
          /\ Policy = "always" \/ (Policy = "everysec" /\ ~FsyncInProgress)
          /\ srv' = [s EXCEPT !.pc = "fsync"]
       \/ /\ s.asked # Size
          /\ Policy # "always"      \* not due yet, or never
          /\ srv' = Return(s)
    /\ UNCHANGED <<proc, bio, files>>

Append2(bytes) ==
    IF srv.fd \in DOMAIN files
    THEN With(files, srv.fd, [files[srv.fd] EXCEPT !.bytes = @ \o bytes])
    ELSE files

\* The buffer is written whole; what follows is the label try_fsync.
FlushWrite(s) ==
    /\ files' = Append2(s.buf)
    /\ srv' = [s EXCEPT !.buf = <<>>, !.writeOk = TRUE, !.pc = "fsync"]
    /\ NoFault
    /\ UNCHANGED <<proc, bio>>

\* A write error: n bytes reached the file and could not be taken back.
FlushError(s) ==
    \E n \in 0..(Len(s.buf) - 1) :
       /\ Fault(IF n = 0 THEN "write" ELSE "short")
       /\ files' = Append2(SubSeq(s.buf, 1, n))
       /\ IF Policy = "always"
          THEN proc' = "down" /\ bio' = <<>> /\ srv' = Dead
          ELSE /\ srv' = Return([s EXCEPT !.buf = SubSeq(@, n + 1, Len(@)),
                                          !.writeOk = FALSE])
               /\ UNCHANGED <<proc, bio>>

Flush(s, force) ==
    \/ s.buf = <<>> /\ FlushEmpty(s) /\ NoFault
    \/ /\ s.buf # <<>>
       /\ Policy = "everysec" /\ ~force /\ FsyncInProgress   \* postponed
       /\ srv' = Return(s)
       /\ NoFault
       /\ UNCHANGED <<proc, bio, files>>
    \/ s.buf # <<>> /\ FlushWrite(s)
    \/ s.buf # <<>> /\ FlushError(s)

\* beforeSleep, and the calls of serverCron
BeforeSleep ==
    /\ Running("loop")
    /\ srv.state \in {"on", "wait"}
    /\ Flush([srv EXCEPT !.ret = "loop"], FALSE)
    /\ UNCHANGED <<manifest, told, issued>>

\* Mutant: the offset is published, and the fsync left to a later rewrite.
PublishFirst ==
    /\ Running("fsync")
    /\ Policy = "always"
    /\ IF srv.ret = "loop"
       THEN srv' = Return([srv EXCEPT !.pending = Offset]) /\ UNCHANGED files
       ELSE /\ files' = [files EXCEPT ![srv.fd].synced = Size]
            /\ srv' = Return([srv EXCEPT !.asked = Size, !.pending = Offset])
    /\ NoFault
    /\ UNCHANGED <<proc, bio, manifest, told, issued>>

FsyncAlways ==
    /\ Running("fsync")
    /\ Policy = "always"
    /\ files' = IF srv.fd \in DOMAIN files
                THEN [files EXCEPT ![srv.fd].synced = Size] ELSE files
    /\ srv' = Return([srv EXCEPT !.asked = Size, !.pending = Offset])
    /\ NoFault
    /\ UNCHANGED <<proc, bio, manifest, told, issued>>

FsyncJob(type, fd) == [type |-> type, fd |-> fd, offset |-> Offset]

\* Mutant: the offset is published when the job is queued, not when it is done.
PublishQueued ==
    /\ Running("fsync")
    /\ Policy = "everysec"
    /\ ~FsyncInProgress
    /\ bio' = Append(bio, FsyncJob("fsync", srv.fd))
    /\ srv' = Return([srv EXCEPT !.asked = Size, !.pending = Offset])
    /\ NoFault
    /\ UNCHANGED <<proc, files, manifest, told, issued>>

\* everysec, and a second has passed since the last fsync
FsyncEverysec ==
    /\ Running("fsync")
    /\ Policy = "everysec"
    /\ ~FsyncInProgress
    /\ bio' = Append(bio, FsyncJob("fsync", srv.fd))
    /\ srv' = Return([srv EXCEPT !.asked = Size])
    /\ NoFault
    /\ UNCHANGED <<proc, files, manifest, told, issued>>

\* not due, an fsync was in progress when the flush began, or policy "no"
FsyncSkipped ==
    /\ Running("fsync")
    /\ Policy # "always"
    /\ srv' = Return(srv)
    /\ NoFault
    /\ UNCHANGED <<proc, bio, files, manifest, told, issued>>

----------------------------------------------------------------------------
(* bioProcessBackgroundJobs, the worker of BIO_AOF_FSYNC and BIO_CLOSE_AOF *)

BioDone ==
    /\ proc = "up"
    /\ bio # <<>>
    /\ bio' = Tail(bio)
    /\ files' = IF Head(bio).fd \in DOMAIN files
                THEN [files EXCEPT ![Head(bio).fd].synced = Len(files[Head(bio).fd].bytes)]
                ELSE files
    /\ srv' = [srv EXCEPT !.bioOk = TRUE, !.pending = Head(bio).offset]
    /\ NoFault
    /\ UNCHANGED <<proc, manifest, told, issued>>

BioError ==
    /\ proc = "up"
    /\ bio # <<>>
    /\ Fault("bio")
    /\ bio' = Tail(bio)
    /\ srv' = [srv EXCEPT !.bioOk = FALSE]
    /\ UNCHANGED <<proc, files, manifest, told, issued>>

----------------------------------------------------------------------------
(* The background rewrite.                                                 *)

\* rewriteAppendOnlyFileBackground up to its forced flush.
BeginRewrite(s) == Flush([s EXCEPT !.ret = "open"], TRUE)

SeqLeft == srv.man.bseq < env.seqs /\ srv.man.iseq < env.seqs

\* bgrewriteaofCommand, and the automatic rewrite of serverCron
Rewrite ==
    /\ Running("loop")
    /\ SeqLeft
    /\ \/ srv.child = "none" /\ BeginRewrite(srv)
       \/ /\ srv.child = "rdb"
          /\ srv' = [srv EXCEPT !.scheduled = TRUE]
          /\ NoFault
          /\ UNCHANGED <<proc, bio, files>>
    /\ UNCHANGED <<manifest, told, issued>>

\* serverCron: a rewrite was scheduled.
ScheduledRewrite ==
    /\ Running("loop")
    /\ SeqLeft
    /\ srv.child = "none"
    /\ srv.scheduled
    /\ BeginRewrite(srv)
    /\ UNCHANGED <<manifest, told, issued>>

\* The rewrite could not start: startAppendOnly gives up, others just return.
NotRewritten(s) ==
    [s EXCEPT !.pc = "loop", !.starting = FALSE,
              !.state = IF s.starting THEN "off" ELSE @]

\* The new descriptor replaces the old one, which is fsynced and closed later.
SwitchFd(s, fd) == [s EXCEPT !.fd = fd, !.asked = 0]
CloseOld == IF srv.fd = NoFd THEN bio ELSE Append(bio, FsyncJob("close", srv.fd))

\* openNewIncrAofForAppend, the AOF being on: the new file, then the manifest.
OpenIncr ==
    /\ Running("open")
    /\ srv.state = "on"
    /\ LET m == NewIncr(srv.man)
           fd == IncrName(m.iseq)
       IN  /\ files' = With(files, fd, Empty)
           /\ \/ /\ manifest' = m
                 /\ srv' = [SwitchFd(srv, fd) EXCEPT !.man = m, !.pc = "fork"]
                 /\ bio' = CloseOld
                 /\ NoFault
              \/ /\ \/ Fault("persist") /\ UNCHANGED manifest
                    \/ Fault("dirsync") /\ manifest' = m
                 /\ srv' = NotRewritten(srv)
                 /\ UNCHANGED bio
    /\ UNCHANGED <<proc, told, issued>>

\* openNewIncrAofForAppend, waiting for the first rewrite: a temporary file.
OpenTempIncr ==
    /\ Running("open")
    /\ srv.state = "wait"
    /\ files' = With(files, TempIncr, Empty)
    /\ bio' = CloseOld
    /\ srv' = [SwitchFd(srv, TempIncr) EXCEPT !.pc = "drain"]
    /\ NoFault
    /\ UNCHANGED <<proc, manifest, told, issued>>

\* openNewIncrAofForAppend, the AOF being off: nothing to open.
OpenNothing ==
    /\ Running("open")
    /\ srv.state = "off"
    /\ srv' = [srv EXCEPT !.pc = "fork"]
    /\ NoFault
    /\ UNCHANGED <<proc, bio, files, manifest, told, issued>>

\* bioDrainWorker returns once the worker has nothing left to do.
Drained ==
    /\ Running("drain")
    /\ bio = <<>>
    /\ srv' = [srv EXCEPT !.pending = Offset, !.fsynced = 0, !.pc = "fork"]
    /\ NoFault
    /\ UNCHANGED <<proc, bio, files, manifest, told, issued>>

Fork ==
    /\ Running("fork")
    /\ \/ /\ srv' = [srv EXCEPT !.child = "aof", !.snap = srv.data, !.scheduled = FALSE,
                                !.writeOk = @ \/ srv.starting, !.bioOk = @ \/ srv.starting,
                                !.starting = FALSE, !.pc = "loop"]
          /\ NoFault
       \/ /\ Fault("fork")
          /\ srv' = NotRewritten(srv)
    /\ UNCHANGED <<proc, bio, files, manifest, told, issued>>

\* Mutant: a failed rewrite is not scheduled again.
CleanupUnscheduled(s) ==
    [s EXCEPT !.pc = "loop", !.child = "none", !.snap = <<>>,
              !.buf = IF s.state = "wait" THEN <<>> ELSE @]

\* The end of backgroundRewriteDoneHandler, on success and on failure.
Cleanup(s) ==
    [s EXCEPT !.pc = "loop", !.child = "none", !.snap = <<>>,
              !.buf = IF s.state = "wait" THEN <<>> ELSE @,
              !.scheduled = @ \/ s.state = "wait"]
LeftoverTemp(s) == IF s.state = "wait" THEN {TempIncr} ELSE {}

\* The child failed, or its file could not get its name.
RewriteFailed ==
    /\ Running("loop")
    /\ srv.child = "aof"
    /\ Fault("child")
    /\ files' = Without(files, LeftoverTemp(srv))
    /\ srv' = Cleanup(srv)
    /\ UNCHANGED <<proc, bio, manifest, told, issued>>

\* backgroundRewriteDoneHandler: rename the temporary BASE file.
RenameBase ==
    /\ Running("loop")
    /\ srv.child = "aof"
    /\ files' = With(files, BaseName(srv.man.bseq + 1), Written(srv.snap))
    /\ srv' = [srv EXCEPT !.pc = IF srv.state = "wait" THEN "incr" ELSE "persist"]
    /\ NoFault
    /\ UNCHANGED <<proc, bio, manifest, told, issued>>

\* Rename the temporary INCR file; the descriptor and the jobs follow it.
RenameIncr ==
    /\ Running("incr")
    /\ LET to == IncrName(srv.man.iseq + 1)
           Moved(fd) == IF fd = TempIncr THEN to ELSE fd
       IN  \/ /\ files' = Rename(files, TempIncr, to)
              /\ bio' = [i \in DOMAIN bio |-> [bio[i] EXCEPT !.fd = Moved(@)]]
              /\ srv' = [srv EXCEPT !.fd = Moved(@), !.pc = "persist"]
              /\ NoFault
           \/ /\ Fault("rename")
              /\ files' = Without(files, {BaseName(srv.man.bseq + 1), TempIncr})
              /\ srv' = Cleanup(srv)
              /\ UNCHANGED bio
    /\ UNCHANGED <<proc, manifest, told, issued>>

\* The manifest after the rewrite.
RewrittenManifest ==
    LET m == NewBase(srv.man)
    IN  IncrsToHistory(IF srv.state = "wait" THEN NewIncr(m) ELSE m, srv.fd)

\* Mutant: the history files are removed before the manifest drops them.
RemovedTooEarly ==
    /\ Running("persist")
    /\ manifest' = manifest
    /\ files' = Without(files, RewrittenManifest.hist)
    /\ srv' = [srv EXCEPT !.man = RewrittenManifest, !.pc = "forget"]
    /\ NoFault
    /\ UNCHANGED <<proc, bio, told, issued>>

\* Mutant: when the directory cannot be fsynced the new BASE file stays in the
\* manifest next to the INCR files it replaces.
HalfPersisted ==
    /\ Running("persist")
    /\ LET m == RewrittenManifest
       IN  \/ /\ manifest' = m
              /\ srv' = [srv EXCEPT !.man = m, !.pc = "history"]
              /\ NoFault
           \/ /\ Fault("dirsync")
              /\ manifest' = [m EXCEPT !.incrs = srv.man.incrs, !.hist = {}]
              /\ srv' = Cleanup(srv)
    /\ UNCHANGED <<proc, bio, files, told, issued>>

PersistRewritten ==
    /\ Running("persist")
    /\ LET m == RewrittenManifest
           new == {BaseName(m.bseq)} \cup (IF srv.state = "wait" THEN {IncrName(m.iseq)} ELSE {})
       IN  \/ /\ manifest' = m
              /\ srv' = [srv EXCEPT !.man = m, !.pc = "history"]
              /\ NoFault
              /\ UNCHANGED files
           \/ /\ \/ Fault("persist") /\ UNCHANGED manifest
                 \/ Fault("dirsync") /\ manifest' = m
              /\ files' = Without(files, new \cup LeftoverTemp(srv))
              /\ srv' = Cleanup(srv)
    /\ UNCHANGED <<proc, bio, told, issued>>

\* aofDelHistoryFiles: unlink, then persist a manifest without them.
DelHistory ==
    /\ Running("history")
    /\ files' = Without(files, srv.man.hist)
    /\ srv' = [srv EXCEPT !.man.hist = {}, !.pc = "forget"]
    /\ NoFault
    /\ UNCHANGED <<proc, bio, manifest, told, issued>>

RewriteDone ==
    /\ Running("forget")
    /\ \/ manifest' = srv.man /\ NoFault
       \/ Fault("persist") /\ UNCHANGED manifest
       \/ Fault("dirsync") /\ manifest' = srv.man
    /\ srv' = Cleanup([srv EXCEPT !.state = IF @ = "wait" THEN "on" ELSE @,
                                  !.fsynced = IF srv.state = "wait" THEN srv.pending ELSE @])
    /\ UNCHANGED <<proc, bio, files, told, issued>>

----------------------------------------------------------------------------
(* CONFIG SET appendonly, and the RDB child that delays a rewrite.         *)

\* stopAppendOnly: the forced flush, then the rest
StopAppendOnly ==
    /\ Running("loop")
    /\ srv.state # "off"
    /\ "config" \in env.may
    /\ Flush([srv EXCEPT !.ret = "stop"], TRUE)
    /\ UNCHANGED <<manifest, told, issued>>

Stopped ==
    /\ Running("stop")
    /\ files' = IF srv.fd \in DOMAIN files
                THEN [files EXCEPT ![srv.fd].synced = Size] ELSE files
    /\ srv' = [srv EXCEPT !.pc = "loop", !.fd = NoFd, !.state = "off", !.scheduled = FALSE,
                          !.asked = 0, !.fsynced = -1, !.pending = 0, !.buf = <<>>,
                          !.child = IF @ = "aof" THEN "none" ELSE @, !.snap = <<>>]
    /\ env' = [env EXCEPT !.had = @ \cup {"config"}]
    /\ UNCHANGED <<proc, bio, manifest, told, issued>>

StartAppendOnly ==
    /\ Running("loop")
    /\ SeqLeft
    /\ srv.state = "off"
    /\ \/ /\ srv.child = "rdb"
          /\ srv' = [srv EXCEPT !.state = "wait", !.scheduled = TRUE,
                                !.writeOk = TRUE, !.bioOk = TRUE]
          /\ NoFault
          /\ UNCHANGED <<proc, bio, files>>
       \/ /\ srv.child # "rdb"
          /\ BeginRewrite([srv EXCEPT !.state = "wait", !.starting = TRUE,
                                      !.child = "none", !.snap = <<>>])
    /\ UNCHANGED <<manifest, told, issued>>

BgSave ==
    /\ Running("loop")
    /\ srv.child = "none"
    /\ Fault("rdb")
    /\ srv' = [srv EXCEPT !.child = "rdb"]
    /\ UNCHANGED <<proc, bio, files, manifest, told, issued>>

BgSaveDone ==
    /\ Running("loop")
    /\ srv.child = "rdb"
    /\ srv' = [srv EXCEPT !.child = "none"]
    /\ NoFault
    /\ UNCHANGED <<proc, bio, files, manifest, told, issued>>

----------------------------------------------------------------------------
(* Death and restart.                                                      *)

Kill ==
    /\ proc = "up"
    /\ Fault("kill")
    /\ proc' = "down"
    /\ srv' = Dead
    /\ bio' = <<>>
    /\ UNCHANGED <<files, manifest, told, issued>>

\* The files a loss of power may leave: each keeps at least what was fsynced.
Unsynced(fs) == {n \in DOMAIN fs : fs[n].synced < Len(fs[n].bytes)}
Surviving(fs) ==
    {[n \in DOMAIN fs |-> IF n \in DOMAIN cut
                          THEN File(SubSeq(fs[n].bytes, 1, cut[n]), cut[n]) ELSE fs[n]] :
        cut \in {c \in [Unsynced(fs) -> 0..(2 * MaxWrites)] :
                    \A n \in Unsynced(fs) : c[n] \in fs[n].synced..Len(fs[n].bytes)}}

PowerLoss ==
    /\ Fault("power")
    /\ proc' = "down"
    /\ srv' = Dead
    /\ bio' = <<>>
    /\ files' \in Surviving(files)
    /\ UNCHANGED <<manifest, told, issued>>

\* truncateAppendOnlyFile: the file ends at its last whole command.
CutFile(f) ==
    LET b == Cut(f.bytes) IN File(b, IF Len(b) < f.synced THEN Len(b) ELSE f.synced)

\* main: aofLoadManifestFromDisk, loadDataFromDisk (which truncates the last
\* file), aofOpenIfNeededOnServerStart and aofDelHistoryFiles
Restart ==
    /\ proc \in {"down", "refused"}
    /\ Loadable(files, manifest)
    /\ LET read == ReadManifest(manifest)
           m == [(IF read.incrs = <<>> THEN NewIncr(read) ELSE read) EXCEPT !.hist = {}]
           fd == IncrName(Last(m.incrs))
           f == IF fd \in DOMAIN files THEN files[fd] ELSE Empty
           data == Loaded(files, manifest)
       IN  /\ files' = Without(With(files, fd, CutFile(f)), manifest.hist)
           /\ manifest' = m
           /\ srv' = [Started(data, m, fd) EXCEPT !.asked = Len(Cut(f.bytes))]
    /\ proc' = "up"
    /\ NoFault
    /\ UNCHANGED <<bio, told, issued>>

\* Loading fails.  A truncated file that is not the last has been cut by then
\* (loadSingleAppendOnlyFile), before loadAppendOnlyFiles calls it fatal.
Refused ==
    /\ proc = "down"
    /\ ~Loadable(files, manifest)
    /\ LET chain == Chain(manifest)
           broken == {i \in DOMAIN chain : ~Whole(files[chain[i]].bytes)}
           first == chain[CHOOSE i \in broken : \A j \in broken : i <= j]
       IN  files' = IF Range(chain) \subseteq DOMAIN files /\ Truncated(files[first].bytes)
                    THEN With(files, first, CutFile(files[first])) ELSE files
    /\ proc' = "refused"
    /\ NoFault
    /\ UNCHANGED <<srv, bio, manifest, told, issued>>

Next ==
    \/ Command \/ Tell \/ BeforeSleep
    \/ FsyncAlways \/ FsyncEverysec \/ FsyncSkipped \/ BioDone \/ BioError
    \/ Rewrite \/ ScheduledRewrite \/ OpenIncr \/ OpenTempIncr \/ OpenNothing \/ Drained \/ Fork
    \/ RewriteFailed \/ RenameBase \/ RenameIncr \/ PersistRewritten \/ DelHistory \/ RewriteDone
    \/ StopAppendOnly \/ Stopped \/ StartAppendOnly \/ BgSave \/ BgSaveDone
    \/ Kill \/ PowerLoss \/ Restart \/ Refused

Spec == Init /\ [][Next]_vars

\* The event loop keeps turning, the worker and the children end, a second
\* passes (the strongly fair steps are those that wait for it).
Fairness ==
    /\ WF_vars(BeforeSleep) /\ WF_vars(FsyncSkipped \/ FsyncAlways)
    /\ SF_vars(FsyncEverysec)
    /\ SF_vars(BeforeSleep /\ srv'.pc = "fsync")
    /\ WF_vars(BioDone)
    /\ SF_vars(ScheduledRewrite) /\ WF_vars(OpenIncr \/ OpenTempIncr \/ OpenNothing)
    /\ WF_vars(Drained) /\ WF_vars(Fork) /\ WF_vars(BgSaveDone)
    /\ SF_vars(RenameBase)
    /\ WF_vars(RenameIncr) /\ WF_vars(PersistRewritten) /\ WF_vars(DelHistory)
    /\ WF_vars(RewriteDone) /\ WF_vars(Stopped)

FairSpec == Spec /\ Fairness

----------------------------------------------------------------------------
\* Nothing has happened after which the files are known to repeat commands: a
\* failed write followed by a new INCR file, CONFIG SET appendonly followed by
\* a failed fork or a crash.
Unrepeated ==
    /\ env.had \cap {"write", "short"} # {} => srv.man.iseq = 1
    /\ "config" \in env.had => env.had \cap {"fork", "kill", "power"} = {}

\* Nor after which they are known to lack some in the middle: a manifest that
\* stays although its directory could not be fsynced, a loss of power, not
\* under "always", after a new INCR file was opened.
Undisturbed ==
    /\ Unrepeated
    /\ "dirsync" \notin env.had
    /\ "power" \in env.had => Policy = "always" \/ srv.man.iseq = 1

\* Whenever the process dies, the files the manifest names can be loaded and
\* hold the commands executed, in order, none twice and none missing: all of
\* them but the unwritten buffer while the AOF is on, an earlier prefix while
\* it is off (redis.conf: INCR files hold the commands "applied to the dataset
\* following the previous file").
CrashRecovers == Undisturbed =>
    /\ Loadable(files, manifest)
    /\ IsPrefix(Loaded(files, manifest), srv.data)
    /\ proc = "up" /\ srv.state = "on" =>
          Decode(Cut(ChainBytes(files, manifest) \o srv.buf)) = srv.data

\* Whatever a loss of power takes from the files, the server starts again and
\* finds every command a client was told is on disk (WAITAOF): so long as the
\* first INCR file is in use and no fsync failed.  Appendfsync always is the
\* subject of ImplementsLog.
ToldSurvives ==
    /\ Undisturbed
    /\ "bio" \notin env.had
    /\ Policy # "always" /\ srv.man.iseq = 1
    =>
    \A fs \in Surviving(files) :
       /\ Loadable(fs, manifest)
       /\ IsPrefix(Loaded(fs, manifest), srv.data)
       /\ Len(Loaded(fs, manifest)) >= told

\* flushAppendOnlyFile, before it publishes an offset for WAITAOF: "All data is
\* fsync'd already".  What a client was told of lies in fsynced bytes.
ToldSynced ==
    LET chain == Chain(manifest)
        full(i) == \A j \in 1..i : files[chain[j]].synced = Len(files[chain[j]].bytes)
        synced == {i \in 1..Len(chain) : i = 1 \/ full(i - 1)}
    IN  proc = "up" =>
          2 * told <= SumFunctionOnSet([i \in DOMAIN chain |-> files[chain[i]].synced], synced)

Log == INSTANCE DurableLog WITH Cmd <- 1..MaxWrites, log <- srv.data, promised <- told

\* The server behaves like a durable log: under appendfsync always a loss of
\* power, and under any policy the death of the process, takes back a suffix
\* that no client was told is on disk (flushAppendOnlyFile, Restart).
ImplementsLog == Log!Init /\ [][Undisturbed' => Log!Next]_<<srv.data, told>>

IsSubsequence(s, t) ==
    \E f \in [1..Len(s) -> 1..Len(t)] :
       /\ \A i, j \in 1..Len(s) : i < j => f[i] < f[j]
       /\ \A i \in 1..Len(s) : s[i] = t[f[i]]

\* Whatever is lost, a restart brings back commands that were executed, each at
\* most once and in their order; only a restart takes commands back.
OrderKept ==
    [][Unrepeated' =>
          \/ IsPrefix(srv.data, srv'.data)
          \/ proc # "up" /\ proc' = "up" /\ IsSubsequence(srv'.data, srv.data)]_vars

\* Except under "no" a command is fsynced in the end, even when no other command
\* follows it (flushAppendOnlyFile on an empty buffer).
EventuallySynced ==
    \A n \in 1..MaxWrites :
       (proc = "up" /\ Policy # "no" /\ srv.state = "on" /\ Offset >= n)
          ~> (proc # "up" \/ srv.state # "on" \/ srv.fsynced >= n)

\* An AOF that is being turned on is on in the end: a rewrite that fails is
\* scheduled again.
EventuallyOn == (srv.state = "wait") ~> (proc # "up" \/ srv.state # "wait")
=============================================================================
