--------------------------- MODULE RedisAofProofs ---------------------------
(***************************************************************************)
(* The files of the append only file and the manifest that names them: a   *)
(* process that dies between any two steps of a rewrite leaves a manifest  *)
(* all of whose files exist.  For every policy and number of faults.       *)
(***************************************************************************)
EXTENDS RedisAof, TLAPS

\* What the provers may take for a step.
USE SMTT(30), ZenonT(30)

\* No manifest stayed although its directory could not be fsynced (the files it names are
\* removed then), and no server that was told to turn the AOF off has died or failed to
\* write (the restart gives the number 1 again, which may be that of a file to be deleted).
Calm ==
    /\ "dirsync" \notin env.had
    /\ "config" \in env.had => env.had \cap {"kill", "power", "write", "short"} = {}

\* Every file the manifest names exists (persistAofManifest, aofDelHistoryFiles).
FilesPresent ==
    Calm => \A i \in 1..Len(Chain(manifest)) : Chain(manifest)[i] \in DOMAIN files

----------------------------------------------------------------------------
Fields ==
    {"pc", "ret", "starting", "data", "buf", "state", "fd", "man", "child", "snap",
     "scheduled", "writeOk", "bioOk", "asked", "pending", "fsynced", "since"}
EnvFields == {"policy", "may", "seqs", "left", "had"}
Callers == {"loop", "open", "stop"}
Manifests ==
    [base : Nat, incrs : Seq(Nat), hist : SUBSET ({"base", "incr"} \X Nat),
     bseq : Nat, iseq : Nat]

\* The files a manifest names, as a set.
Names(m) ==
    {BaseName(n) : n \in {m.base} \ {NoBase}} \cup {IncrName(n) : n \in Range(m.incrs)}

\* The memory of the process has its fields, and a flush returns to a caller of it.
Shape ==
    /\ DOMAIN srv = Fields
    /\ DOMAIN env = EnvFields
    /\ srv.ret \in Callers
    /\ srv.man \in Manifests
    /\ manifest \in Manifests
    /\ proc \in {"up", "down", "refused"}

\* The manifest on disk: its files exist, none of them is to be deleted, the INCR file
\* written last has the greatest number, and there is one unless the AOF was off.
DiskInv ==
    /\ Names(manifest) \subseteq DOMAIN files
    /\ Names(manifest) \cap manifest.hist = {}
    /\ \A n \in Range(manifest.incrs) : n <= Last(manifest.incrs)
    /\ "config" \notin env.had => manifest.incrs # <<>>

\* A running process: its manifest is the one on disk but for the history, its numbers
\* are ahead of the files, and the files a rewrite has renamed wait for the manifest.
UpInv ==
    /\ srv.man.base = manifest.base /\ srv.man.incrs = manifest.incrs
    /\ srv.man.base <= srv.man.bseq
    /\ \A n \in Range(srv.man.incrs) : n <= srv.man.iseq
    /\ srv.man.hist = IF srv.pc = "history" THEN manifest.hist ELSE {}
    /\ srv.pc \in {"incr", "persist"} => BaseName(srv.man.bseq + 1) \in DOMAIN files
    /\ srv.pc = "incr" => srv.state = "wait"
    /\ srv.pc = "persist" /\ srv.state = "wait" => IncrName(srv.man.iseq + 1) \in DOMAIN files
    /\ "config" \notin env.had => srv.fd # NoFd

FilesInv ==
    /\ Shape
    /\ Calm => /\ DiskInv
               /\ proc = "up" => UpInv
               /\ "config" \in env.had => proc = "up"

----------------------------------------------------------------------------
(* The operators.                                                          *)

\* A file written is in the directory.
LEMMA WithDomain ==
    ASSUME NEW fs, NEW name, NEW f
    PROVE  DOMAIN With(fs, name, f) = DOMAIN fs \cup {name}
BY Zenon DEF With

\* The files removed have left it.
LEMMA WithoutDomain ==
    ASSUME NEW fs, NEW gone
    PROVE  DOMAIN Without(fs, gone) = DOMAIN fs \ gone
BY Zenon DEF Without

\* A renamed file has left its name.
LEMMA Renamed ==
    ASSUME NEW fs, NEW from, NEW to
    PROVE  DOMAIN Rename(fs, from, to) = (DOMAIN fs \ {from}) \cup {to}
BY Zenon DEF Rename, With, Without

\* BASE and INCR files have different names, also from the temporary one.
LEMMA Named ==
    ASSUME NEW m \in Manifests, NEW n \in Nat
    PROVE  /\ BaseName(n) \in Names(m) <=> n = m.base /\ n # NoBase
           /\ IncrName(n) \in Names(m) <=> n \in Range(m.incrs)
           /\ TempIncr \notin Names(m)
<1>1. /\ \A a, b : BaseName(a) # IncrName(b) /\ TempIncr # BaseName(a) /\ TempIncr # IncrName(a)
      /\ \A a, b : BaseName(a) = BaseName(b) => a = b
      /\ \A a, b : IncrName(a) = IncrName(b) => a = b
  BY DEF BaseName, IncrName, TempIncr
<1> QED
  BY Zenon, <1>1 DEF Names

\* The numbers in a manifest are numbers.
LEMMA IncrNumbers ==
    ASSUME NEW m \in Manifests
    PROVE  /\ Range(m.incrs) \subseteq Nat
           /\ m.incrs # <<>> => Last(m.incrs) \in Range(m.incrs)
           /\ m.incrs = <<>> => Range(m.incrs) = {}
<1>1. m.incrs \in Seq(Nat)
  BY Zenon DEF Manifests
<1> QED
  BY <1>1 DEF Range, Last

\* Every file loaded is one of those the manifest names.
LEMMA ChainNames ==
    ASSUME NEW m \in Manifests, NEW i \in 1..Len(Chain(m))
    PROVE  Chain(m)[i] \in Names(m)
<1> DEFINE b == IF m.base = NoBase THEN <<>> ELSE <<BaseName(m.base)>>
           c == [j \in 1..Len(m.incrs) |-> IncrName(m.incrs[j])]
<1>1. m.incrs \in Seq(Nat) /\ Len(m.incrs) \in Nat
  BY DEF Manifests
<1>3. \A j \in 1..Len(m.incrs) : c[j] \in Names(m)
  BY <1>1 DEF Names, Range
<1>4. b \in Seq(Names(m)) /\ c \in Seq(Names(m))
  <2>1. b \in Seq(Names(m))
    <3>1. CASE m.base = NoBase
      BY <3>1
    <3>2. CASE m.base # NoBase
      <4>1. BaseName(m.base) \in Names(m)
        BY Zenon, <3>2 DEF Names
      <4>2. b = <<BaseName(m.base)>>
        BY Zenon, <3>2
      <4> QED
        BY <4>1, <4>2
    <3> QED
      BY Zenon, <3>1, <3>2
  <2>2. ASSUME NEW k \in Nat, NEW s \in [1..k -> Names(m)] PROVE s \in Seq(Names(m))
    OBVIOUS
  <2>3. c \in [1..Len(m.incrs) -> Names(m)]
    BY Zenon, <1>3
  <2> QED
    BY Zenon, <1>1, <2>1, <2>2, <2>3
<1>5. Chain(m) = b \o c
  BY Zenon DEF Chain
<1> HIDE DEF b, c
<1>6. b \o c \in Seq(Names(m))
  BY <1>4
<1> QED
  BY <1>5, <1>6

\* getNewIncrAofName.
LEMMA NewIncrFacts ==
    ASSUME NEW m \in Manifests
    PROVE  LET r == NewIncr(m)
           IN  /\ r \in Manifests
               /\ r.base = m.base /\ r.bseq = m.bseq /\ r.hist = m.hist
               /\ r.iseq = m.iseq + 1 /\ r.incrs # <<>> /\ Last(r.incrs) = m.iseq + 1
               /\ Range(r.incrs) = Range(m.incrs) \cup {m.iseq + 1}
<1> DEFINE s == m.incrs
           k == m.iseq + 1
<1>1. s \in Seq(Nat) /\ k \in Nat
  BY DEF Manifests
<1>2. NewIncr(m) = [m EXCEPT !.iseq = k, !.incrs = Append(s, k)]
  BY Zenon DEF NewIncr
<1> HIDE DEF s, k
<1>3. /\ Append(s, k) \in Seq(Nat) /\ Append(s, k) # <<>> /\ Last(Append(s, k)) = k
      /\ Range(Append(s, k)) = Range(s) \cup {k}
  <2>1. /\ Append(s, k) \in Seq(Nat) /\ Len(s) \in Nat /\ Len(Append(s, k)) = Len(s) + 1
        /\ Append(s, k)[Len(s) + 1] = k /\ DOMAIN s = 1..Len(s)
        /\ DOMAIN Append(s, k) = 1..(Len(s) + 1)
        /\ \A i \in 1..Len(s) : Append(s, k)[i] = s[i]
    BY <1>1
  <2>2. 1..(Len(s) + 1) = 1..Len(s) \cup {Len(s) + 1}
    BY <2>1
  <2>3. Append(s, k) # <<>>
    BY <1>1
  <2>4. Range(Append(s, k)) = Range(s) \cup {k}
    <3>1. ASSUME NEW x PROVE x \in Range(Append(s, k)) <=> x \in Range(s) \cup {k}
      <4>1. x \in Range(Append(s, k)) <=> \E i \in 1..Len(s) \cup {Len(s) + 1} : Append(s, k)[i] = x
        BY Zenon, <2>1, <2>2 DEF Range
      <4>2. x \in Range(s) <=> \E i \in 1..Len(s) : s[i] = x
        BY Zenon, <2>1 DEF Range
      <4> QED
        BY Zenon, <2>1, <4>1, <4>2
    <3> QED
      BY Zenon, <3>1
  <2> QED
    BY Zenon, <2>1, <2>3, <2>4 DEF Last
<1> QED
  BY Zenon, <1>1, <1>2, <1>3 DEF Manifests, s, k

\* getNewBaseFileNameAndMarkPreAsHistory.
LEMMA NewBaseFacts ==
    ASSUME NEW m \in Manifests
    PROVE  LET r == NewBase(m)
           IN  /\ r \in Manifests
               /\ r.base = m.bseq + 1 /\ r.bseq = m.bseq + 1
               /\ r.iseq = m.iseq /\ r.incrs = m.incrs
               /\ r.hist \subseteq m.hist \cup {BaseName(m.base)}
<1> DEFINE k == m.bseq + 1
           h == IF m.base = NoBase THEN m.hist ELSE m.hist \cup {BaseName(m.base)}
<1>1. k \in Nat
  BY DEF Manifests
<1>2. h \in SUBSET ({"base", "incr"} \X Nat) /\ h \subseteq m.hist \cup {BaseName(m.base)}
  <2>1. m.hist \in SUBSET ({"base", "incr"} \X Nat) /\ BaseName(m.base) \in {"base", "incr"} \X Nat
    BY DEF Manifests, BaseName
  <2> QED
    BY Zenon, <2>1
<1>3. NewBase(m) = [m EXCEPT !.bseq = k, !.base = k, !.hist = h]
  BY Zenon DEF NewBase
<1> HIDE DEF k, h
<1>4. NewBase(m) \in Manifests /\ NewBase(m).base = k /\ NewBase(m).bseq = k
      /\ NewBase(m).hist = h /\ NewBase(m).iseq = m.iseq /\ NewBase(m).incrs = m.incrs
  BY Zenon, <1>1, <1>2, <1>3 DEF Manifests
<1> QED
  BY Zenon, <1>2, <1>4 DEF k

\* markRewrittenIncrAofAsHistory keeps at most the last INCR file, and that one when a
\* descriptor is open.
LEMMA HistoryFacts ==
    ASSUME NEW m \in Manifests, NEW fd
    PROVE  LET r == IncrsToHistory(m, fd)
           IN  /\ r \in Manifests
               /\ r.base = m.base /\ r.bseq = m.bseq /\ r.iseq = m.iseq
               /\ r.incrs = <<>> \/ (m.incrs # <<>> /\ r.incrs = <<Last(m.incrs)>>)
               /\ fd # NoFd /\ m.incrs # <<>> => r.incrs # <<>>
               /\ r.hist \subseteq m.hist \cup {IncrName(n) : n \in Nat \ Range(r.incrs)}
<1> DEFINE kept == IF fd # NoFd /\ m.incrs # <<>> THEN <<Last(m.incrs)>> ELSE <<>>
           h == m.hist \cup {IncrName(n) : n \in Range(m.incrs) \ Range(kept)}
<1>1. Range(m.incrs) \subseteq Nat /\ (m.incrs # <<>> => Last(m.incrs) \in Nat)
  BY Zenon, IncrNumbers
<1>2. /\ kept \in Seq(Nat)
      /\ kept = <<>> \/ (m.incrs # <<>> /\ kept = <<Last(m.incrs)>>)
      /\ fd # NoFd /\ m.incrs # <<>> => kept # <<>>
  BY <1>1
<1>3. IncrsToHistory(m, fd) = [m EXCEPT !.incrs = kept, !.hist = h]
  BY Zenon DEF IncrsToHistory
<1> HIDE DEF kept
<1>4. /\ h \in SUBSET ({"base", "incr"} \X Nat)
      /\ h \subseteq m.hist \cup {IncrName(n) : n \in Nat \ Range(kept)}
  <2>1. \A n \in Nat : IncrName(n) \in {"base", "incr"} \X Nat
    BY DEF IncrName
  <2>2. m.hist \in SUBSET ({"base", "incr"} \X Nat)
    BY Zenon DEF Manifests
  <2> QED
    BY Zenon, <1>1, <2>1, <2>2
<1> HIDE DEF h
<1>5. LET r == IncrsToHistory(m, fd)
      IN  /\ r \in Manifests /\ r.incrs = kept /\ r.hist = h
          /\ r.base = m.base /\ r.bseq = m.bseq /\ r.iseq = m.iseq
  BY Zenon, <1>2, <1>3, <1>4 DEF Manifests
<1> QED
  BY Zenon, <1>2, <1>4, <1>5

\* A sequence of one.
LEMMA OneIncr ==
    ASSUME NEW k \in Nat
    PROVE  /\ Range(<<k>>) = {k} /\ Last(<<k>>) = k /\ <<k>> # <<>>
           /\ Range(<<>>) = {}
BY DEF Range, Last

\* A fault adds to those that have happened.
LEMMA FaultFacts ==
    ASSUME Shape, NEW f, Fault(f)
    PROVE  /\ env'.had = env.had \cup {f}
           /\ DOMAIN env' = EnvFields
BY Zenon DEF Fault, Shape, EnvFields

\* What has not happened yet has not happened before either.
LEMMA CalmBefore ==
    ASSUME env.had \subseteq env'.had, Calm'
    PROVE  Calm
BY Zenon DEF Calm

\* The return of a flush, of a rewrite that could not start and of one that has ended.
LEMMA MemoryFacts ==
    ASSUME NEW s, DOMAIN s = Fields
    PROVE  /\ DOMAIN Return(s) = Fields /\ Return(s).man = s.man /\ Return(s).fd = s.fd
           /\ Return(s).pc = s.ret /\ Return(s).ret = "loop"
           /\ DOMAIN NotRewritten(s) = Fields /\ NotRewritten(s).man = s.man
           /\ NotRewritten(s).fd = s.fd /\ NotRewritten(s).ret = s.ret
           /\ NotRewritten(s).pc = "loop"
           /\ DOMAIN Cleanup(s) = Fields /\ Cleanup(s).man = s.man /\ Cleanup(s).fd = s.fd
           /\ Cleanup(s).pc = "loop" /\ Cleanup(s).ret = s.ret
<1>1. /\ DOMAIN Return(s) = Fields /\ Return(s).man = s.man /\ Return(s).fd = s.fd
      /\ Return(s).pc = s.ret /\ Return(s).ret = "loop"
  BY Zenon DEF Return, Fields
<1>2. /\ DOMAIN NotRewritten(s) = Fields /\ NotRewritten(s).man = s.man
      /\ NotRewritten(s).fd = s.fd /\ NotRewritten(s).ret = s.ret
      /\ NotRewritten(s).pc = "loop"
  BY Zenon DEF NotRewritten, Fields
<1>3. /\ DOMAIN Cleanup(s) = Fields /\ Cleanup(s).man = s.man /\ Cleanup(s).fd = s.fd
      /\ Cleanup(s).pc = "loop" /\ Cleanup(s).ret = s.ret
  BY Zenon DEF Cleanup, Fields
<1> QED
  BY Zenon, <1>1, <1>2, <1>3

\* A process that has died.
LEMMA DeadFacts ==
    ASSUME Shape
    PROVE  DOMAIN Dead = Fields /\ Dead.ret = "loop" /\ Dead.man = srv.man
BY Zenon DEF Dead, Started, Fields, Shape

\* Bytes appended to a file leave the directory as it is.
LEMMA AppendKeeps ==
    ASSUME NEW b
    PROVE  DOMAIN Append2(b) = DOMAIN files
<1>1. CASE srv.fd \in DOMAIN files
  <2>1. \E f : Append2(b) = With(files, srv.fd, f)
    BY Zenon, <1>1 DEF Append2
  <2>2. DOMAIN Append2(b) = DOMAIN files \cup {srv.fd}
    BY Zenon, <2>1, WithDomain
  <2> QED
    BY Zenon, <1>1, <2>2
<1>2. CASE srv.fd \notin DOMAIN files
  BY Zenon, <1>2 DEF Append2
<1> QED
  BY Zenon, <1>1, <1>2

\* flushAppendOnlyFile leaves the directory and the manifest in memory as they are and
\* returns, goes on to its fsync, or ends the process on a write error.
LEMMA FlushFacts ==
    ASSUME Shape, NEW s, NEW force, Flush(s, force),
           DOMAIN s = Fields, s.ret \in Callers, s.man = srv.man, s.fd = srv.fd
    PROVE  /\ DOMAIN files' = DOMAIN files /\ DOMAIN env' = EnvFields
           /\ \/ /\ proc' = proc /\ UNCHANGED env
                 /\ DOMAIN srv' = Fields /\ srv'.man = srv.man /\ srv'.fd = srv.fd
                 /\ srv'.ret \in Callers /\ srv'.pc \in Callers \cup {"fsync"}
              \/ /\ proc' = proc /\ \E f \in {"write", "short"} : env'.had = env.had \cup {f}
                 /\ DOMAIN srv' = Fields /\ srv'.man = srv.man /\ srv'.fd = srv.fd
                 /\ srv'.ret \in Callers /\ srv'.pc \in Callers \cup {"fsync"}
              \/ /\ proc' = "down" /\ \E f \in {"write", "short"} : env'.had = env.had \cup {f}
                 /\ srv' = Dead
<1> DEFINE Kept(r) == /\ DOMAIN r = Fields /\ r.man = srv.man /\ r.fd = srv.fd
                      /\ r.ret \in Callers /\ r.pc \in Callers \cup {"fsync"}
<1>0. DOMAIN env = EnvFields
  BY Zenon DEF Shape
<1>1. ASSUME NEW r, DOMAIN r = Fields, r.ret = s.ret, r.man = s.man, r.fd = s.fd
      PROVE  Kept(Return(r))
  <2>1. /\ DOMAIN Return(r) = Fields /\ Return(r).man = r.man /\ Return(r).fd = r.fd
        /\ Return(r).pc = r.ret /\ Return(r).ret = "loop"
    BY Zenon, <1>1, MemoryFacts
  <2> QED
    BY Zenon, <1>1, <2>1 DEF Callers
<1>2. CASE s.buf = <<>> /\ FlushEmpty(s) /\ NoFault
  <2>1. /\ DOMAIN [s EXCEPT !.pc = "fsync"] = Fields
        /\ [s EXCEPT !.pc = "fsync"].man = s.man /\ [s EXCEPT !.pc = "fsync"].fd = s.fd
        /\ [s EXCEPT !.pc = "fsync"].ret = s.ret /\ [s EXCEPT !.pc = "fsync"].pc = "fsync"
    BY Zenon DEF Fields
  <2>2. ASSUME NEW n PROVE /\ DOMAIN [s EXCEPT !.pending = n] = Fields
                           /\ [s EXCEPT !.pending = n].man = s.man
                           /\ [s EXCEPT !.pending = n].fd = s.fd
                           /\ [s EXCEPT !.pending = n].ret = s.ret
    BY Zenon DEF Fields
  <2>3. \/ srv' = [s EXCEPT !.pc = "fsync"] \/ srv' = Return(s)
        \/ \E n : srv' = Return([s EXCEPT !.pending = n])
    BY Zenon, <1>2 DEF FlushEmpty
  <2>4. Kept(srv')
    <3>1. CASE srv' = [s EXCEPT !.pc = "fsync"]
      BY Zenon, <2>1, <3>1
    <3>2. CASE srv' = Return(s)
      BY Zenon, <1>1, <3>2
    <3>3. ASSUME NEW n, srv' = Return([s EXCEPT !.pending = n]) PROVE Kept(srv')
      <4>1. Kept(Return([s EXCEPT !.pending = n]))
        BY Zenon, <1>1, <2>2
      <4> QED
        BY Zenon, <3>3, <4>1
    <3> HIDE DEF Kept
    <3> QED
      BY Zenon, <2>3, <3>1, <3>2, <3>3
  <2> QED
    BY Zenon, <1>0, <1>2, <2>4 DEF FlushEmpty, NoFault
<1>3. CASE srv' = Return(s) /\ NoFault /\ UNCHANGED <<proc, bio, files>>
  BY Zenon, <1>0, <1>1, <1>3 DEF NoFault
<1>4. CASE FlushWrite(s)
  <2>1. Kept([s EXCEPT !.buf = <<>>, !.writeOk = TRUE, !.pc = "fsync"])
    BY Zenon DEF Fields
  <2>2. srv' = [s EXCEPT !.buf = <<>>, !.writeOk = TRUE, !.pc = "fsync"]
    BY Zenon, <1>4 DEF FlushWrite
  <2>3. Kept(srv')
    BY Zenon, <2>1, <2>2
  <2> QED
    BY Zenon, <1>0, <1>4, <2>3, AppendKeeps DEF FlushWrite, NoFault
<1>5. CASE FlushError(s)
  <2>1. PICK n \in 0..(Len(s.buf) - 1) :
          /\ Fault(IF n = 0 THEN "write" ELSE "short")
          /\ files' = Append2(SubSeq(s.buf, 1, n))
          /\ IF Policy = "always"
             THEN proc' = "down" /\ bio' = <<>> /\ srv' = Dead
             ELSE /\ srv' = Return([s EXCEPT !.buf = SubSeq(@, n + 1, Len(@)),
                                             !.writeOk = FALSE])
                  /\ UNCHANGED <<proc, bio>>
    BY Zenon, <1>5 DEF FlushError
  <2>2. PICK f \in {"write", "short"} : Fault(f)
    BY Zenon, <2>1
  <2>3. env'.had = env.had \cup {f} /\ DOMAIN env' = EnvFields
    BY Zenon, <2>2, FaultFacts
  <2>4. DOMAIN files' = DOMAIN files
    BY Zenon, <2>1, AppendKeeps
  <2>5. CASE Policy = "always"
    BY Zenon, <2>1, <2>3, <2>4, <2>5
  <2>6. CASE Policy # "always"
    <3> DEFINE r == [s EXCEPT !.buf = SubSeq(@, n + 1, Len(@)), !.writeOk = FALSE]
    <3>1. DOMAIN r = Fields /\ r.ret = s.ret /\ r.man = s.man /\ r.fd = s.fd
      BY Zenon DEF Fields
    <3>2. srv' = Return(r) /\ proc' = proc
      BY Zenon, <2>1, <2>6
    <3> HIDE DEF r
    <3>3. Kept(srv')
      BY Zenon, <1>1, <3>1, <3>2
    <3> QED
      BY Zenon, <2>3, <2>4, <3>2, <3>3
  <2> QED
    BY Zenon, <2>5, <2>6
<1> QED
  BY Zenon, <1>2, <1>3, <1>4, <1>5 DEF Flush

----------------------------------------------------------------------------
(* The steps.                                                              *)

Renaming == {"incr", "persist", "history"}

\* A step that leaves the manifest as it is and removes nothing, between which and the
\* next no rewrite renames files.
LEMMA FilesFrame ==
    ASSUME FilesInv, UNCHANGED <<proc, manifest>>, DOMAIN srv' = Fields, DOMAIN env' = EnvFields,
           srv'.ret \in Callers, srv'.man = srv.man, DOMAIN files \subseteq DOMAIN files',
           env.had \subseteq env'.had,
           "config" \in env'.had => "config" \in env.had \/ proc = "up",
           srv'.fd # NoFd \/ srv'.fd = srv.fd \/ "config" \in env'.had,
           \/ srv'.pc \notin Renaming /\ srv.pc # "history"
           \/ srv'.pc = srv.pc /\ srv'.state = srv.state
    PROVE  FilesInv'
<1>1. Shape'
  BY Zenon DEF FilesInv, Shape
<1>2. ASSUME Calm'
      PROVE  DiskInv' /\ (proc' = "up" => UpInv') /\ ("config" \in env'.had => proc' = "up")
  <2>1. Calm /\ DiskInv /\ (proc = "up" => UpInv) /\ ("config" \in env.had => proc = "up")
    BY Zenon, <1>2, CalmBefore DEF FilesInv
  <2>2. DiskInv'
    BY Zenon, <2>1 DEF DiskInv
  <2>3. ASSUME proc' = "up" PROVE UpInv'
    <3>1. UpInv
      BY Zenon, <2>1, <2>3
    <3> QED
      BY Zenon, <3>1 DEF UpInv, Renaming
  <2> QED
    BY Zenon, <2>1, <2>2, <2>3
<1> QED
  BY Zenon, <1>1, <1>2 DEF FilesInv

\* The process dies: the manifest and the names in the directory stay.
LEMMA FilesDeath ==
    ASSUME FilesInv, UNCHANGED manifest, proc' = "down", srv' = Dead, DOMAIN env' = EnvFields,
           DOMAIN files' = DOMAIN files, NEW f \in {"kill", "power", "write", "short"},
           env'.had = env.had \cup {f}
    PROVE  FilesInv'
<1>1. Shape'
  BY Zenon, DeadFacts DEF FilesInv, Shape, Callers
<1>2. ASSUME Calm' PROVE DiskInv' /\ "config" \notin env'.had
  <2>1. Calm /\ DiskInv
    BY Zenon, <1>2, CalmBefore DEF FilesInv
  <2>2. "config" \notin env'.had
    BY Zenon, <1>2 DEF Calm
  <2> QED
    BY Zenon, <2>1, <2>2 DEF DiskInv
<1> QED
  BY Zenon, <1>1, <1>2 DEF FilesInv

\* A flush on behalf of the event loop, of a rewrite or of stopAppendOnly.
LEMMA FilesFlush ==
    ASSUME FilesInv, Running("loop"), NEW s, NEW force, Flush(s, force),
           DOMAIN s = Fields, s.ret \in Callers, s.man = srv.man, s.fd = srv.fd,
           UNCHANGED manifest
    PROVE  FilesInv'
<1>1. Shape
  BY Zenon DEF FilesInv
<1>2. /\ DOMAIN files' = DOMAIN files /\ DOMAIN env' = EnvFields
      /\ \/ /\ proc' = proc
            /\ UNCHANGED env \/ \E f \in {"write", "short"} : env'.had = env.had \cup {f}
            /\ DOMAIN srv' = Fields /\ srv'.man = srv.man /\ srv'.fd = srv.fd
            /\ srv'.ret \in Callers /\ srv'.pc \in Callers \cup {"fsync"}
         \/ /\ proc' = "down" /\ \E f \in {"write", "short"} : env'.had = env.had \cup {f}
            /\ srv' = Dead
  BY Zenon, <1>1, FlushFacts
<1>3. CASE proc' = "down" /\ srv' = Dead /\ \E f \in {"write", "short"} : env'.had = env.had \cup {f}
  BY Zenon, <1>2, <1>3, FilesDeath
<1>4. CASE /\ proc' = proc
           /\ UNCHANGED env \/ \E f \in {"write", "short"} : env'.had = env.had \cup {f}
           /\ DOMAIN srv' = Fields /\ srv'.man = srv.man /\ srv'.fd = srv.fd
           /\ srv'.ret \in Callers /\ srv'.pc \in Callers \cup {"fsync"}
  <2>1. env.had \subseteq env'.had /\ ("config" \in env'.had => "config" \in env.had)
    BY Zenon, <1>4
  <2>2. srv'.pc \notin Renaming /\ srv.pc # "history"
    BY Zenon, <1>4 DEF Running, Callers, Renaming
  <2> QED
    BY Zenon, <1>2, <1>4, <2>1, <2>2, FilesFrame
<1> QED
  BY Zenon, <1>2, <1>3, <1>4

\* Commands, and the answers to WAITAOF.
LEMMA FilesCommand ==
    ASSUME FilesInv, Command \/ Tell
    PROVE  FilesInv'
<1>0. DOMAIN srv = Fields /\ DOMAIN env = EnvFields /\ srv.ret \in Callers
  BY Zenon DEF FilesInv, Shape
<1>1. /\ DOMAIN srv' = Fields /\ srv'.man = srv.man /\ srv'.ret = srv.ret /\ srv'.fd = srv.fd
      /\ srv'.pc = srv.pc /\ srv'.state = srv.state
  BY Zenon, <1>0 DEF Command, Tell, Fields
<1>2. UNCHANGED <<proc, files, manifest, env>>
  BY Zenon DEF Command, Tell, NoFault
<1> QED
  BY Zenon, <1>0, <1>1, <1>2, FilesFrame

\* The flushes of the event loop, before a rewrite and before the AOF is turned off.
LEMMA FilesFlushes ==
    ASSUME FilesInv, BeforeSleep \/ Rewrite \/ ScheduledRewrite \/ StopAppendOnly \/ StartAppendOnly
    PROVE  FilesInv'
<1>0. /\ DOMAIN srv = Fields /\ DOMAIN env = EnvFields /\ srv.ret \in Callers
      /\ Running("loop") /\ UNCHANGED manifest
  BY Zenon DEF FilesInv, Shape, BeforeSleep, Rewrite, ScheduledRewrite, StopAppendOnly,
               StartAppendOnly
<1>1. ASSUME NEW c \in Callers, NEW force, Flush([srv EXCEPT !.ret = c], force) PROVE FilesInv'
  <2>1. LET s == [srv EXCEPT !.ret = c]
        IN  DOMAIN s = Fields /\ s.ret = c /\ s.man = srv.man /\ s.fd = srv.fd
    BY Zenon, <1>0 DEF Fields
  <2> QED
    BY Zenon, <1>0, <1>1, <2>1, FilesFlush
<1>2. CASE /\ srv' = [srv EXCEPT !.scheduled = TRUE] \/
              srv' = [srv EXCEPT !.state = "wait", !.scheduled = TRUE,
                                 !.writeOk = TRUE, !.bioOk = TRUE]
           /\ UNCHANGED <<env, proc, files>>
  <2>1. /\ DOMAIN srv' = Fields /\ srv'.man = srv.man /\ srv'.ret = srv.ret /\ srv'.fd = srv.fd
        /\ srv'.pc = srv.pc
    BY Zenon, <1>0, <1>2 DEF Fields
  <2>2. srv'.pc \notin Renaming /\ srv.pc # "history"
    BY Zenon, <1>0, <2>1 DEF Running, Renaming
  <2> QED
    BY Zenon, <1>0, <1>2, <2>1, <2>2, FilesFrame
<1>3. ASSUME Flush([[srv EXCEPT !.state = "wait", !.starting = TRUE, !.child = "none",
                                !.snap = <<>>] EXCEPT !.ret = "open"], TRUE)
      PROVE  FilesInv'
  <2>1. LET s == [[srv EXCEPT !.state = "wait", !.starting = TRUE, !.child = "none",
                              !.snap = <<>>] EXCEPT !.ret = "open"]
        IN  DOMAIN s = Fields /\ s.ret \in Callers /\ s.man = srv.man /\ s.fd = srv.fd
    BY Zenon, <1>0 DEF Fields, Callers
  <2> QED
    BY Zenon, <1>0, <1>3, <2>1, FilesFlush
<1>4. "loop" \in Callers /\ "open" \in Callers /\ "stop" \in Callers
  BY Zenon DEF Callers
<1>5. CASE BeforeSleep
  BY Zenon, <1>1, <1>4, <1>5 DEF BeforeSleep
<1>6. CASE Rewrite \/ ScheduledRewrite
  BY Zenon, <1>1, <1>2, <1>4, <1>6 DEF Rewrite, ScheduledRewrite, BeginRewrite, NoFault
<1>7. CASE StopAppendOnly
  BY Zenon, <1>1, <1>4, <1>7 DEF StopAppendOnly
<1>8. CASE StartAppendOnly
  BY Zenon, <1>2, <1>3, <1>8 DEF StartAppendOnly, BeginRewrite, NoFault
<1> QED
  BY Zenon, <1>5, <1>6, <1>7, <1>8

\* The fsync of a flush, by the main thread or queued for the worker.
LEMMA FilesFsync ==
    ASSUME FilesInv, FsyncAlways \/ FsyncEverysec \/ FsyncSkipped
    PROVE  FilesInv'
<1>0. DOMAIN srv = Fields /\ DOMAIN env = EnvFields /\ srv.ret \in Callers
  BY Zenon DEF FilesInv, Shape
<1>1. PICK s : /\ srv' = Return(s) /\ DOMAIN s = Fields /\ s.man = srv.man /\ s.fd = srv.fd
               /\ s.ret = srv.ret
  <2>1. ASSUME NEW a, NEW b
        PROVE  LET s == [srv EXCEPT !.asked = a, !.pending = b]
               IN  DOMAIN s = Fields /\ s.man = srv.man /\ s.fd = srv.fd /\ s.ret = srv.ret
    BY Zenon, <1>0 DEF Fields
  <2>2. ASSUME NEW a
        PROVE  LET s == [srv EXCEPT !.asked = a]
               IN  DOMAIN s = Fields /\ s.man = srv.man /\ s.fd = srv.fd /\ s.ret = srv.ret
    BY Zenon, <1>0 DEF Fields
  <2>3. \/ \E a, b : srv' = Return([srv EXCEPT !.asked = a, !.pending = b])
        \/ \E a : srv' = Return([srv EXCEPT !.asked = a])
        \/ srv' = Return(srv)
    BY Zenon DEF FsyncAlways, FsyncEverysec, FsyncSkipped
  <2>4. ASSUME NEW a, NEW b, srv' = Return([srv EXCEPT !.asked = a, !.pending = b])
        PROVE  \E s : /\ srv' = Return(s) /\ DOMAIN s = Fields /\ s.man = srv.man
                      /\ s.fd = srv.fd /\ s.ret = srv.ret
    BY Zenon, <2>1, <2>4
  <2>5. CASE \E a : srv' = Return([srv EXCEPT !.asked = a])
    BY Zenon, <2>2, <2>5
  <2>6. CASE srv' = Return(srv)
    BY Zenon, <1>0, <2>6
  <2> QED
    BY Zenon, <2>3, <2>4, <2>5, <2>6
<1>2. /\ DOMAIN srv' = Fields /\ srv'.man = srv.man /\ srv'.fd = srv.fd
      /\ srv'.ret = "loop" /\ srv'.pc = srv.ret
  BY Zenon, <1>1, MemoryFacts
<1>3. DOMAIN files' = DOMAIN files
  <2>1. UNCHANGED files \/ files' = [files EXCEPT ![srv.fd].synced = Size]
    BY Zenon DEF FsyncAlways, FsyncEverysec, FsyncSkipped
  <2> QED
    BY Zenon, <2>1
<1>4. UNCHANGED <<proc, manifest, env>> /\ srv.pc = "fsync"
  BY Zenon DEF FsyncAlways, FsyncEverysec, FsyncSkipped, NoFault, Running
<1>5. srv'.pc \notin Renaming /\ srv.pc # "history" /\ srv'.ret \in Callers
  BY Zenon, <1>0, <1>2, <1>4 DEF Renaming, Callers
<1> QED
  BY Zenon, <1>0, <1>2, <1>3, <1>4, <1>5, FilesFrame

\* The worker of bio.c.
LEMMA FilesBio ==
    ASSUME FilesInv, BioDone \/ BioError
    PROVE  FilesInv'
<1>0. Shape /\ DOMAIN srv = Fields /\ DOMAIN env = EnvFields /\ srv.ret \in Callers
  BY Zenon DEF FilesInv, Shape
<1>1. /\ DOMAIN srv' = Fields /\ srv'.man = srv.man /\ srv'.ret = srv.ret /\ srv'.fd = srv.fd
      /\ srv'.pc = srv.pc /\ srv'.state = srv.state
  BY Zenon, <1>0 DEF BioDone, BioError, Fields
<1>2. UNCHANGED <<proc, manifest>> /\ DOMAIN files' = DOMAIN files
  BY Zenon DEF BioDone, BioError
<1>3. UNCHANGED env \/ (env'.had = env.had \cup {"bio"} /\ DOMAIN env' = EnvFields)
  BY Zenon, <1>0, FaultFacts DEF BioDone, BioError, NoFault
<1>4. DOMAIN env' = EnvFields /\ env.had \subseteq env'.had
      /\ ("config" \in env'.had => "config" \in env.had)
  BY Zenon, <1>0, <1>3
<1> QED
  BY Zenon, <1>0, <1>1, <1>2, <1>4, FilesFrame

\* NoFd is no file.
LEMMA NoFdApart ==
    ASSUME NEW n
    PROVE  NoFd # IncrName(n) /\ NoFd # TempIncr
BY DEF NoFd, IncrName, TempIncr

\* Quiet steps of a rewrite: the temporary INCR file, the fork.
LEMMA FilesFork ==
    ASSUME FilesInv, OpenTempIncr \/ OpenNothing \/ Drained \/ Fork
    PROVE  FilesInv'
<1>0. Shape /\ DOMAIN srv = Fields /\ DOMAIN env = EnvFields /\ srv.ret \in Callers
  BY Zenon DEF FilesInv, Shape
<1>1. /\ DOMAIN srv' = Fields /\ srv'.man = srv.man /\ srv'.ret = srv.ret
      /\ srv'.fd = srv.fd \/ srv'.fd = TempIncr
      /\ srv'.pc \in {"drain", "fork", "loop"}
  <2>1. CASE OpenTempIncr
    BY Zenon, <1>0, <2>1 DEF OpenTempIncr, SwitchFd, Fields
  <2>2. CASE OpenNothing \/ Drained
    BY Zenon, <1>0, <2>2 DEF OpenNothing, Drained, Fields
  <2>3. CASE Fork
    <3>1. CASE srv' = NotRewritten(srv)
      BY Zenon, <1>0, <3>1, MemoryFacts
    <3>2. CASE srv' # NotRewritten(srv)
      BY Zenon, <1>0, <2>3, <3>2 DEF Fork, Fields
    <3> QED
      BY Zenon, <3>1, <3>2
  <2> QED
    BY Zenon, <2>1, <2>2, <2>3
<1>2. UNCHANGED <<proc, manifest>> /\ srv.pc # "history"
  BY Zenon DEF OpenTempIncr, OpenNothing, Drained, Fork, Running
<1>3. DOMAIN files \subseteq DOMAIN files'
  <2>1. UNCHANGED files \/ files' = With(files, TempIncr, Empty)
    BY Zenon DEF OpenTempIncr, OpenNothing, Drained, Fork
  <2>2. DOMAIN With(files, TempIncr, Empty) = DOMAIN files \cup {TempIncr}
    BY Zenon, WithDomain
  <2> QED
    BY Zenon, <2>1, <2>2
<1>4. UNCHANGED env \/ (env'.had = env.had \cup {"fork"} /\ DOMAIN env' = EnvFields)
  BY Zenon, <1>0, FaultFacts DEF OpenTempIncr, OpenNothing, Drained, Fork, NoFault
<1>5. DOMAIN env' = EnvFields /\ env.had \subseteq env'.had
      /\ ("config" \in env'.had => "config" \in env.had)
  BY Zenon, <1>0, <1>4
<1>6. srv'.pc \notin Renaming /\ (srv'.fd # NoFd \/ srv'.fd = srv.fd)
  BY Zenon, <1>1, NoFdApart DEF Renaming
<1> QED
  BY Zenon, <1>0, <1>1, <1>2, <1>3, <1>5, <1>6, FilesFrame

\* The end of stopAppendOnly, and the RDB child.
LEMMA FilesStopped ==
    ASSUME FilesInv, Stopped \/ BgSave \/ BgSaveDone
    PROVE  FilesInv'
<1>0. Shape /\ DOMAIN srv = Fields /\ DOMAIN env = EnvFields /\ srv.ret \in Callers
  BY Zenon DEF FilesInv, Shape
<1>1. CASE Stopped
  <2>1. /\ DOMAIN srv' = Fields /\ srv'.man = srv.man /\ srv'.ret = srv.ret /\ srv'.pc = "loop"
    BY Zenon, <1>0, <1>1 DEF Stopped, Fields
  <2>2. env'.had = env.had \cup {"config"} /\ DOMAIN env' = EnvFields
    BY Zenon, <1>0, <1>1 DEF Stopped, EnvFields
  <2>3. UNCHANGED files \/ files' = [files EXCEPT ![srv.fd].synced = Size]
    BY Zenon, <1>1 DEF Stopped
  <2>4. DOMAIN files' = DOMAIN files
    BY Zenon, <2>3
  <2>5. UNCHANGED <<proc, manifest>> /\ srv.pc # "history" /\ proc = "up"
    BY Zenon, <1>1 DEF Stopped, Running
  <2>6. srv'.pc \notin Renaming
    BY Zenon, <2>1 DEF Renaming
  <2> QED
    BY Zenon, <1>0, <2>1, <2>2, <2>4, <2>5, <2>6, FilesFrame
<1>2. CASE BgSave \/ BgSaveDone
  <2>1. /\ DOMAIN srv' = Fields /\ srv'.man = srv.man /\ srv'.ret = srv.ret /\ srv'.fd = srv.fd
        /\ srv'.pc = srv.pc /\ srv'.state = srv.state
    BY Zenon, <1>0, <1>2 DEF BgSave, BgSaveDone, Fields
  <2>2. UNCHANGED <<proc, manifest, files>>
    BY Zenon, <1>2 DEF BgSave, BgSaveDone
  <2>3. UNCHANGED env \/ (env'.had = env.had \cup {"rdb"} /\ DOMAIN env' = EnvFields)
    BY Zenon, <1>0, <1>2, FaultFacts DEF BgSave, BgSaveDone, NoFault
  <2>4. DOMAIN env' = EnvFields /\ env.had \subseteq env'.had
        /\ ("config" \in env'.had => "config" \in env.had)
    BY Zenon, <1>0, <2>3
  <2> QED
    BY Zenon, <1>0, <2>1, <2>2, <2>4, FilesFrame
<1> QED
  BY Zenon, <1>1, <1>2

\* The death of the process or of the machine.
LEMMA FilesKill ==
    ASSUME FilesInv, Kill \/ PowerLoss
    PROVE  FilesInv'
<1>0. Shape
  BY Zenon DEF FilesInv
<1>1. ASSUME NEW fs \in Surviving(files) PROVE DOMAIN fs = DOMAIN files
  BY Zenon DEF Surviving
<1>2. DOMAIN files' = DOMAIN files
  BY Zenon, <1>1 DEF Kill, PowerLoss
<1>3. PICK f \in {"kill", "power"} : Fault(f)
  BY Zenon DEF Kill, PowerLoss
<1>4. env'.had = env.had \cup {f} /\ DOMAIN env' = EnvFields
  BY Zenon, <1>0, <1>3, FaultFacts
<1>5. proc' = "down" /\ srv' = Dead /\ UNCHANGED manifest
  BY Zenon DEF Kill, PowerLoss
<1> QED
  BY Zenon, <1>2, <1>4, <1>5, FilesDeath

\* Names differ when their numbers or their kinds do.
LEMMA NamesApart ==
    ASSUME NEW a, NEW b
    PROVE  /\ BaseName(a) # IncrName(b) /\ BaseName(a) # TempIncr /\ IncrName(a) # TempIncr
           /\ a # b => BaseName(a) # BaseName(b) /\ IncrName(a) # IncrName(b)
BY DEF BaseName, IncrName, TempIncr

\* A name in a manifest is its BASE file or one of its INCR files.
LEMMA NameCases ==
    ASSUME NEW m, NEW x \in Names(m)
    PROVE  x = BaseName(m.base) \/ \E n \in Range(m.incrs) : x = IncrName(n)
BY Zenon DEF Names

\* The history does not count among the names.
LEMMA NamesSame ==
    ASSUME NEW m, NEW k, m.base = k.base, m.incrs = k.incrs
    PROVE  Names(m) = Names(k)
BY Zenon DEF Names

\* A number of one more than a bound is beyond what the bound holds.
LEMMA Beyond ==
    ASSUME NEW k \in Nat, NEW n \in Nat, n <= k
    PROVE  n # k + 1 /\ n <= k + 1 /\ k + 1 <= k + 1 /\ k + 1 \in Nat
OBVIOUS

\* What a running server knows, in one place.
LEMMA UpFacts ==
    ASSUME FilesInv, proc = "up", Calm
    PROVE  /\ Shape /\ DiskInv /\ UpInv
           /\ srv.man.bseq \in Nat /\ srv.man.iseq \in Nat /\ srv.man.base \in Nat
           /\ Range(srv.man.incrs) \subseteq Nat
           /\ Names(srv.man) = Names(manifest)
           /\ srv.man.base # srv.man.bseq + 1
           /\ \A n \in Range(srv.man.incrs) : n # srv.man.iseq + 1
           /\ BaseName(srv.man.bseq + 1) \notin Names(manifest)
           /\ IncrName(srv.man.iseq + 1) \notin Names(manifest)
           /\ TempIncr \notin Names(manifest)
<1>1. Shape /\ DiskInv /\ UpInv
  BY Zenon DEF FilesInv
<1>2. srv.man.bseq \in Nat /\ srv.man.iseq \in Nat /\ srv.man.base \in Nat /\ srv.man \in Manifests
  BY Zenon, <1>1 DEF Shape, Manifests
<1>3. Range(srv.man.incrs) \subseteq Nat
  BY Zenon, <1>2, IncrNumbers
<1>4. Names(srv.man) = Names(manifest)
  BY Zenon, <1>1, NamesSame DEF UpInv
<1>5. srv.man.base # srv.man.bseq + 1 /\ \A n \in Range(srv.man.incrs) : n # srv.man.iseq + 1
  BY Zenon, <1>1, <1>2, <1>3, Beyond DEF UpInv
<1>6. srv.man.bseq + 1 \in Nat /\ srv.man.iseq + 1 \in Nat
  BY <1>2
<1>7. /\ BaseName(srv.man.bseq + 1) \notin Names(srv.man)
      /\ IncrName(srv.man.iseq + 1) \notin Names(srv.man)
      /\ TempIncr \notin Names(srv.man)
  BY Zenon, <1>2, <1>5, <1>6, Named
<1> QED
  BY Zenon, <1>1, <1>2, <1>3, <1>4, <1>5, <1>7

\* A rewrite that ends, well or not, without a change of the manifest: the files removed
\* are none it names.
LEMMA FilesCleaned ==
    ASSUME FilesInv, UNCHANGED <<proc, manifest>>, proc = "up", srv.pc # "history",
           srv' = Cleanup(srv), NEW gone, files' = Without(files, gone),
           Calm => gone \cap Names(manifest) = {},
           NEW f, f # "config", Fault(f)
    PROVE  FilesInv'
<1>0. Shape /\ DOMAIN srv = Fields
  BY Zenon DEF FilesInv, Shape
<1>1. /\ DOMAIN srv' = Fields /\ srv'.man = srv.man /\ srv'.fd = srv.fd
      /\ srv'.pc = "loop" /\ srv'.ret = srv.ret
  BY Zenon, <1>0, MemoryFacts
<1>2. env'.had = env.had \cup {f} /\ DOMAIN env' = EnvFields
  BY Zenon, <1>0, FaultFacts
<1>3. Shape'
  BY Zenon, <1>0, <1>1, <1>2 DEF Shape
<1>4. ASSUME Calm' PROVE DiskInv' /\ UpInv'
  <2>1. Calm
    BY Zenon, <1>2, <1>4, CalmBefore
  <2>2. DiskInv /\ UpInv
    BY Zenon, <2>1 DEF FilesInv
  <2>3. DOMAIN files' = DOMAIN files \ gone
    BY Zenon, WithoutDomain
  <2>4. DiskInv'
    BY Zenon, <1>2, <2>1, <2>2, <2>3 DEF DiskInv
  <2>5. UpInv'
    BY Zenon, <1>1, <1>2, <2>2 DEF UpInv
  <2> QED
    BY Zenon, <2>4, <2>5
<1> QED
  BY Zenon, <1>3, <1>4 DEF FilesInv

\* openNewIncrAofForAppend makes the file before the manifest names it.
LEMMA FilesOpenIncr ==
    ASSUME FilesInv, OpenIncr
    PROVE  FilesInv'
<1> DEFINE m == NewIncr(srv.man)
           fd == IncrName(m.iseq)
<1>0. /\ Shape /\ DOMAIN srv = Fields /\ DOMAIN env = EnvFields /\ srv.ret \in Callers
      /\ srv.man \in Manifests /\ proc = "up" /\ srv.pc = "open" /\ UNCHANGED proc
  BY Zenon DEF FilesInv, Shape, OpenIncr, Running
<1>1. /\ m \in Manifests /\ m.base = srv.man.base /\ m.bseq = srv.man.bseq
      /\ m.hist = srv.man.hist /\ m.iseq = srv.man.iseq + 1 /\ m.incrs # <<>>
      /\ Last(m.incrs) = srv.man.iseq + 1
      /\ Range(m.incrs) = Range(srv.man.incrs) \cup {srv.man.iseq + 1}
  BY Zenon, <1>0, NewIncrFacts
<1>2. /\ files' = With(files, fd, Empty)
      /\ \/ /\ manifest' = m /\ srv' = [SwitchFd(srv, fd) EXCEPT !.man = m, !.pc = "fork"]
            /\ UNCHANGED env
         \/ Fault("persist") /\ UNCHANGED manifest /\ srv' = NotRewritten(srv)
         \/ Fault("dirsync") /\ manifest' = m /\ srv' = NotRewritten(srv)
  BY Zenon DEF OpenIncr, NoFault
<1> HIDE DEF m
<1>3. DOMAIN files' = DOMAIN files \cup {fd}
  BY Zenon, <1>2, WithDomain
<1>4. /\ DOMAIN NotRewritten(srv) = Fields /\ NotRewritten(srv).man = srv.man
      /\ NotRewritten(srv).fd = srv.fd /\ NotRewritten(srv).ret = srv.ret
      /\ NotRewritten(srv).pc = "loop"
  BY Zenon, <1>0, MemoryFacts
<1>5. CASE /\ manifest' = m /\ srv' = [SwitchFd(srv, fd) EXCEPT !.man = m, !.pc = "fork"]
           /\ UNCHANGED env
  <2>1. /\ DOMAIN srv' = Fields /\ srv'.man = m /\ srv'.ret = srv.ret /\ srv'.fd = fd
        /\ srv'.pc = "fork"
    BY Zenon, <1>0, <1>5 DEF SwitchFd, Fields
  <2>2. Shape'
    BY Zenon, <1>0, <1>1, <1>5, <2>1 DEF Shape
  <2>3. ASSUME Calm PROVE DiskInv' /\ UpInv'
    <3>1. /\ DiskInv /\ UpInv /\ srv.man.iseq \in Nat /\ Range(srv.man.incrs) \subseteq Nat
          /\ Names(srv.man) = Names(manifest)
      BY Zenon, <1>0, <2>3, UpFacts
    <3>2. m.hist = {}
      BY Zenon, <1>0, <1>1, <3>1 DEF UpInv
    <3>3. Names(m) \subseteq Names(srv.man) \cup {fd}
      BY Zenon, <1>1 DEF Names
    <3>4. \A n \in Range(m.incrs) : n <= srv.man.iseq + 1
      <4>1. srv.man.iseq + 1 <= srv.man.iseq + 1
        BY <3>1
      <4>2. \A n \in Range(srv.man.incrs) : n <= srv.man.iseq + 1
        BY Zenon, <3>1, Beyond DEF UpInv
      <4> QED
        BY Zenon, <1>1, <4>1, <4>2
    <3>5. DiskInv'
      BY Zenon, <1>1, <1>3, <1>5, <3>1, <3>2, <3>3, <3>4 DEF DiskInv
    <3>6. UpInv'
      BY Zenon, <1>1, <1>5, <2>1, <3>1, <3>2, <3>4, NoFdApart DEF UpInv
    <3> QED
      BY Zenon, <3>5, <3>6
  <2>4. Calm' => Calm
    BY Zenon, <1>5 DEF Calm
  <2> QED
    BY Zenon, <1>0, <2>2, <2>3, <2>4 DEF FilesInv
<1>6. CASE Fault("persist") /\ UNCHANGED manifest /\ srv' = NotRewritten(srv)
  <2>1. env'.had = env.had \cup {"persist"} /\ DOMAIN env' = EnvFields
    BY Zenon, <1>0, <1>6, FaultFacts
  <2>2. srv'.pc \notin Renaming /\ srv.pc # "history"
    BY Zenon, <1>0, <1>4, <1>6 DEF Renaming
  <2> QED
    BY Zenon, <1>0, <1>3, <1>4, <1>6, <2>1, <2>2, FilesFrame
<1>7. CASE Fault("dirsync") /\ manifest' = m /\ srv' = NotRewritten(srv)
  <2>1. env'.had = env.had \cup {"dirsync"} /\ DOMAIN env' = EnvFields
    BY Zenon, <1>0, <1>7, FaultFacts
  <2>2. Shape'
    BY Zenon, <1>0, <1>1, <1>4, <1>7, <2>1 DEF Shape
  <2> QED
    BY Zenon, <2>1, <2>2 DEF FilesInv, Calm
<1> QED
  BY Zenon, <1>2, <1>5, <1>6, <1>7

\* The new BASE file gets its name; no manifest names it yet.
LEMMA FilesRenameBase ==
    ASSUME FilesInv, RenameBase
    PROVE  FilesInv'
<1> DEFINE new == BaseName(srv.man.bseq + 1)
<1>0. /\ Shape /\ DOMAIN srv = Fields /\ proc = "up" /\ srv.pc = "loop"
      /\ UNCHANGED <<proc, manifest, env>>
  BY Zenon DEF FilesInv, Shape, RenameBase, Running, NoFault
<1>1. /\ DOMAIN srv' = Fields /\ srv'.man = srv.man /\ srv'.ret = srv.ret /\ srv'.fd = srv.fd
      /\ srv'.state = srv.state
      /\ srv'.pc = IF srv.state = "wait" THEN "incr" ELSE "persist"
  BY Zenon, <1>0 DEF RenameBase, Fields
<1>2. files' = With(files, new, Written(srv.snap))
  BY Zenon DEF RenameBase
<1> HIDE DEF new
<1>3. DOMAIN files' = DOMAIN files \cup {new}
  BY Zenon, <1>2, WithDomain
<1>4. Shape'
  BY Zenon, <1>0, <1>1 DEF Shape
<1>5. ASSUME Calm PROVE DiskInv' /\ UpInv'
  <2>1. DiskInv /\ UpInv
    BY Zenon, <1>0, <1>5 DEF FilesInv
  <2>2. DiskInv'
    BY Zenon, <1>0, <1>3, <2>1 DEF DiskInv
  <2>3. UpInv'
    BY Zenon, <1>0, <1>1, <1>3, <2>1 DEF UpInv, new
  <2> QED
    BY Zenon, <2>2, <2>3
<1>6. Calm' => Calm
  BY Zenon, <1>0 DEF Calm
<1> QED
  BY Zenon, <1>0, <1>4, <1>5, <1>6 DEF FilesInv

\* The temporary INCR file gets its name, or both new files are removed.
LEMMA FilesRenameIncr ==
    ASSUME FilesInv, RenameIncr \/ RewriteFailed
    PROVE  FilesInv'
<1> DEFINE to == IncrName(srv.man.iseq + 1)
           base == BaseName(srv.man.bseq + 1)
<1>0. /\ Shape /\ DOMAIN srv = Fields /\ proc = "up" /\ srv.pc \in {"loop", "incr"}
      /\ UNCHANGED <<proc, manifest>>
  BY Zenon DEF FilesInv, Shape, RenameIncr, RewriteFailed, Running
<1>1. CASE RewriteFailed
  <2>1. Fault("child") /\ files' = Without(files, LeftoverTemp(srv)) /\ srv' = Cleanup(srv)
    BY Zenon, <1>1 DEF RewriteFailed
  <2>2. Calm => LeftoverTemp(srv) \cap Names(manifest) = {}
    BY Zenon, <1>0, UpFacts DEF LeftoverTemp
  <2> QED
    BY Zenon, <1>0, <2>1, <2>2, FilesCleaned
<1>2. CASE /\ Fault("rename") /\ files' = Without(files, {base, TempIncr})
           /\ srv' = Cleanup(srv)
  <2>1. Calm => {base, TempIncr} \cap Names(manifest) = {}
    BY Zenon, <1>0, UpFacts
  <2> QED
    BY Zenon, <1>0, <1>2, <2>1, FilesCleaned
<1>3. CASE /\ files' = Rename(files, TempIncr, to) /\ srv.pc = "incr" /\ UNCHANGED env
           /\ srv' = [srv EXCEPT !.fd = IF @ = TempIncr THEN to ELSE @, !.pc = "persist"]
  <2>1. /\ DOMAIN srv' = Fields /\ srv'.man = srv.man /\ srv'.ret = srv.ret
        /\ srv'.state = srv.state /\ srv'.pc = "persist"
        /\ srv'.fd = srv.fd \/ srv'.fd = to
    BY Zenon, <1>0, <1>3 DEF Fields
  <2>2. DOMAIN files' = (DOMAIN files \ {TempIncr}) \cup {to}
    <3>1. DOMAIN Rename(files, TempIncr, to) = (DOMAIN files \ {TempIncr}) \cup {to}
      BY Renamed
    <3> QED
      BY Zenon, <1>3, <3>1
  <2>3. Shape'
    BY Zenon, <1>0, <1>3, <2>1 DEF Shape
  <2>4. ASSUME Calm PROVE DiskInv' /\ UpInv'
    <3>1. DiskInv /\ UpInv /\ TempIncr \notin Names(manifest)
      BY Zenon, <1>0, <2>4, UpFacts
    <3>2. DiskInv'
      BY Zenon, <1>0, <1>3, <2>2, <3>1 DEF DiskInv
    <3>3. base \in DOMAIN files'
      BY Zenon, <1>3, <2>2, <3>1, NamesApart DEF UpInv
    <3>4. UpInv'
      BY Zenon, <1>0, <1>3, <2>1, <2>2, <3>1, <3>3, NoFdApart DEF UpInv
    <3> QED
      BY Zenon, <3>2, <3>4
  <2>5. Calm' => Calm
    BY Zenon, <1>3 DEF Calm
  <2> QED
    BY Zenon, <1>0, <2>3, <2>4, <2>5 DEF FilesInv
<1> QED
  BY Zenon, <1>1, <1>2, <1>3 DEF RenameIncr, Running, NoFault

\* The manifest after a rewrite: the new BASE file, at most one INCR file, and a history
\* of other files.
LEMMA RewrittenFacts ==
    ASSUME srv.man \in Manifests
    PROVE  LET r == RewrittenManifest
               k == IF srv.state = "wait" THEN srv.man.iseq + 1 ELSE srv.man.iseq
           IN  /\ r \in Manifests
               /\ r.base = srv.man.bseq + 1 /\ r.bseq = srv.man.bseq + 1 /\ r.iseq = k
               /\ \/ r.incrs = <<>>
                  \/ srv.state = "wait" /\ r.incrs = <<k>>
                  \/ /\ srv.state # "wait" /\ srv.man.incrs # <<>>
                     /\ r.incrs = <<Last(srv.man.incrs)>>
               /\ srv.fd # NoFd /\ srv.man.incrs # <<>> => r.incrs # <<>>
               /\ r.hist \subseteq srv.man.hist \cup {BaseName(srv.man.base)}
                                  \cup {IncrName(n) : n \in Nat \ Range(r.incrs)}
<1> DEFINE b == NewBase(srv.man)
           m == IF srv.state = "wait" THEN NewIncr(b) ELSE b
<1>1. /\ b \in Manifests /\ b.base = srv.man.bseq + 1 /\ b.bseq = srv.man.bseq + 1
      /\ b.iseq = srv.man.iseq /\ b.incrs = srv.man.incrs
      /\ b.hist \subseteq srv.man.hist \cup {BaseName(srv.man.base)}
  BY Zenon, NewBaseFacts
<1>2. RewrittenManifest = IncrsToHistory(m, srv.fd)
  BY Zenon DEF RewrittenManifest
<1> HIDE DEF b
<1>3. /\ m \in Manifests /\ m.base = b.base /\ m.bseq = b.bseq /\ m.hist = b.hist
      /\ srv.state = "wait" => m.iseq = b.iseq + 1 /\ m.incrs # <<>> /\ Last(m.incrs) = b.iseq + 1
      /\ srv.state # "wait" => m = b
  BY Zenon, <1>1, NewIncrFacts
<1> HIDE DEF m
<1>4. LET r == IncrsToHistory(m, srv.fd)
      IN  /\ r \in Manifests
          /\ r.base = m.base /\ r.bseq = m.bseq /\ r.iseq = m.iseq
          /\ r.incrs = <<>> \/ (m.incrs # <<>> /\ r.incrs = <<Last(m.incrs)>>)
          /\ srv.fd # NoFd /\ m.incrs # <<>> => r.incrs # <<>>
          /\ r.hist \subseteq m.hist \cup {IncrName(n) : n \in Nat \ Range(r.incrs)}
  BY Zenon, <1>3, HistoryFacts
<1> QED
  BY Zenon, <1>1, <1>2, <1>3, <1>4

\* The manifest that a rewrite persists names files that exist and are not history.
LEMMA RewrittenInv ==
    ASSUME FilesInv, Calm, Running("persist")
    PROVE  LET r == RewrittenManifest
           IN  /\ Names(r) \subseteq DOMAIN files /\ Names(r) \cap r.hist = {}
               /\ \A n \in Range(r.incrs) : n <= Last(r.incrs) /\ n <= r.iseq
               /\ "config" \notin env.had => r.incrs # <<>>
               /\ r.base <= r.bseq
<1> DEFINE r == RewrittenManifest
           k == IF srv.state = "wait" THEN srv.man.iseq + 1 ELSE srv.man.iseq
<1>0. /\ Shape /\ DiskInv /\ UpInv /\ srv.pc = "persist" /\ srv.man \in Manifests
      /\ srv.man.bseq \in Nat /\ srv.man.iseq \in Nat /\ srv.man.base \in Nat
      /\ Range(srv.man.incrs) \subseteq Nat /\ Names(srv.man) = Names(manifest)
      /\ srv.man.base # srv.man.bseq + 1
  BY Zenon, UpFacts DEF Running, Shape
<1>1. /\ r \in Manifests /\ r.base = srv.man.bseq + 1 /\ r.bseq = srv.man.bseq + 1 /\ r.iseq = k
      /\ \/ r.incrs = <<>>
         \/ srv.state = "wait" /\ r.incrs = <<k>>
         \/ srv.state # "wait" /\ srv.man.incrs # <<>> /\ r.incrs = <<Last(srv.man.incrs)>>
      /\ srv.fd # NoFd /\ srv.man.incrs # <<>> => r.incrs # <<>>
      /\ r.hist \subseteq srv.man.hist \cup {BaseName(srv.man.base)}
                         \cup {IncrName(n) : n \in Nat \ Range(r.incrs)}
  BY Zenon, <1>0, RewrittenFacts
<1> HIDE DEF r
<1>2. /\ k \in Nat /\ k <= k /\ srv.man.iseq + 1 \in Nat /\ srv.man.bseq + 1 \in Nat
      /\ srv.man.bseq + 1 <= srv.man.bseq + 1
  BY <1>0
<1>3. ASSUME NEW n \in Range(r.incrs)
      PROVE  n \in Nat /\ n <= Last(r.incrs) /\ n <= r.iseq /\ IncrName(n) \in DOMAIN files
  <2>1. CASE srv.state = "wait" /\ r.incrs = <<k>>
    <3>1. n = k /\ Last(r.incrs) = k
      BY Zenon, <1>2, <1>3, <2>1, OneIncr
    <3>2. IncrName(srv.man.iseq + 1) \in DOMAIN files
      BY Zenon, <1>0, <2>1 DEF UpInv
    <3> QED
      BY Zenon, <1>1, <1>2, <2>1, <3>1, <3>2
  <2>2. CASE srv.state # "wait" /\ srv.man.incrs # <<>> /\ r.incrs = <<Last(srv.man.incrs)>>
    <3>1. Last(srv.man.incrs) \in Range(srv.man.incrs)
      BY Zenon, <1>0, <2>2, IncrNumbers
    <3>2. n = Last(srv.man.incrs) /\ Last(r.incrs) = Last(srv.man.incrs)
      <4> DEFINE j == Last(srv.man.incrs)
      <4>1. j \in Nat
        BY Zenon, <1>0, <3>1
      <4>2. r.incrs = <<j>>
        BY Zenon, <2>2
      <4> HIDE DEF j
      <4>3. n = j /\ Last(r.incrs) = j
        <5>1. Range(<<j>>) = {j} /\ Last(<<j>>) = j
          BY <4>1, OneIncr
        <5> QED
          BY <1>3, <4>2, <5>1
      <4> QED
        BY Zenon, <4>3 DEF j
    <3>3. n \in Nat /\ n <= srv.man.iseq /\ IncrName(n) \in Names(srv.man)
      <4>1. n \in Nat /\ n \in Range(srv.man.incrs)
        BY Zenon, <1>0, <3>1, <3>2
      <4> QED
        BY Zenon, <1>0, <4>1, Named DEF UpInv
    <3>4. n <= n
      BY <3>3
    <3> QED
      BY Zenon, <1>0, <1>1, <2>2, <3>2, <3>3, <3>4 DEF DiskInv
  <2>3. CASE r.incrs = <<>>
    BY Zenon, <1>2, <1>3, <2>3, OneIncr
  <2> QED
    BY Zenon, <1>1, <2>1, <2>2, <2>3
<1>4. Names(r) \subseteq DOMAIN files
  <2>1. BaseName(r.base) \in DOMAIN files
    BY Zenon, <1>0, <1>1 DEF UpInv
  <2> QED
    BY Zenon, <1>3, <2>1, NameCases
<1>5. Names(r) \cap r.hist = {}
  <2>1. srv.man.hist = {}
    BY Zenon, <1>0 DEF UpInv
  <2>2. BaseName(r.base) \notin r.hist
    BY Zenon, <1>0, <1>1, <2>1, NamesApart
  <2>3. ASSUME NEW n \in Range(r.incrs) PROVE IncrName(n) \notin r.hist
    BY Zenon, <1>1, <2>1, <2>3, NamesApart
  <2> QED
    BY Zenon, <2>2, <2>3, NameCases
<1>6. "config" \notin env.had => r.incrs # <<>>
  BY Zenon, <1>0, <1>1 DEF UpInv, DiskInv
<1> QED
  BY Zenon, <1>1, <1>2, <1>3, <1>4, <1>5, <1>6 DEF r

\* The manifest after a rewrite is persisted; when that fails the new files are removed.
LEMMA FilesPersist ==
    ASSUME FilesInv, PersistRewritten
    PROVE  FilesInv'
<1> DEFINE m == RewrittenManifest
           gone == {BaseName(m.bseq)} \cup (IF srv.state = "wait" THEN {IncrName(m.iseq)} ELSE {})
                     \cup LeftoverTemp(srv)
<1>0. /\ Shape /\ DOMAIN srv = Fields /\ srv.man \in Manifests /\ proc = "up"
      /\ srv.pc = "persist" /\ Running("persist") /\ UNCHANGED proc /\ srv.ret \in Callers
  BY Zenon DEF FilesInv, Shape, PersistRewritten, Running
<1>1. /\ m \in Manifests /\ m.bseq = srv.man.bseq + 1
      /\ m.iseq = IF srv.state = "wait" THEN srv.man.iseq + 1 ELSE srv.man.iseq
  BY Zenon, <1>0, RewrittenFacts
<1>2. \/ /\ manifest' = m /\ srv' = [srv EXCEPT !.man = m, !.pc = "history"]
         /\ UNCHANGED <<env, files>>
      \/ /\ Fault("persist") /\ UNCHANGED manifest /\ files' = Without(files, gone)
         /\ srv' = Cleanup(srv)
      \/ Fault("dirsync") /\ manifest' = m /\ srv' = Cleanup(srv)
  BY Zenon DEF PersistRewritten, NoFault
<1>3. CASE /\ manifest' = m /\ srv' = [srv EXCEPT !.man = m, !.pc = "history"]
           /\ UNCHANGED <<env, files>>
  <2>1. /\ DOMAIN srv' = Fields /\ srv'.man = m /\ srv'.ret = srv.ret /\ srv'.fd = srv.fd
        /\ srv'.pc = "history"
    BY Zenon, <1>0, <1>3 DEF Fields
  <2>2. Shape'
    BY Zenon, <1>0, <1>1, <1>3, <2>1 DEF Shape
  <2>3. ASSUME Calm PROVE DiskInv' /\ UpInv'
    <3>1. /\ Names(m) \subseteq DOMAIN files /\ Names(m) \cap m.hist = {}
          /\ \A n \in Range(m.incrs) : n <= Last(m.incrs) /\ n <= m.iseq
          /\ "config" \notin env.had => m.incrs # <<>>
          /\ m.base <= m.bseq
      BY Zenon, <1>0, <2>3, RewrittenInv
    <3> HIDE DEF m
    <3>2. UpInv
      BY Zenon, <1>0, <2>3, UpFacts
    <3>3. DiskInv'
      BY Zenon, <1>3, <3>1 DEF DiskInv
    <3>4. UpInv'
      <4>1. /\ srv'.man.base = manifest'.base /\ srv'.man.incrs = manifest'.incrs
            /\ srv'.man.hist = manifest'.hist
        BY Zenon, <1>3, <2>1
      <4>2. /\ srv'.man.base <= srv'.man.bseq
            /\ \A n \in Range(srv'.man.incrs) : n <= srv'.man.iseq
        BY Zenon, <2>1, <3>1
      <4>3. "config" \notin env'.had => srv'.fd # NoFd
        BY Zenon, <1>3, <2>1, <3>2 DEF UpInv
      <4>4. srv'.pc = "history"
        BY Zenon, <2>1
      <4> QED
        BY Zenon, <4>1, <4>2, <4>3, <4>4 DEF UpInv
    <3> QED
      BY Zenon, <3>3, <3>4
  <2>4. Calm' => Calm
    BY Zenon, <1>3 DEF Calm
  <2> QED
    BY Zenon, <1>0, <2>2, <2>3, <2>4 DEF FilesInv
<1>4. CASE /\ Fault("persist") /\ UNCHANGED manifest /\ files' = Without(files, gone)
           /\ srv' = Cleanup(srv)
  <2>1. Calm => gone \cap Names(manifest) = {}
    <3>1. gone \subseteq {BaseName(srv.man.bseq + 1), IncrName(srv.man.iseq + 1), TempIncr}
      <4> HIDE DEF m
      <4>1. LeftoverTemp(srv) \subseteq {TempIncr}
        BY Zenon DEF LeftoverTemp
      <4>2. (IF srv.state = "wait" THEN {IncrName(m.iseq)} ELSE {})
               \subseteq {IncrName(srv.man.iseq + 1)}
        BY Zenon, <1>1
      <4> QED
        BY Zenon, <1>1, <4>1, <4>2
    <3> HIDE DEF gone
    <3> QED
      BY Zenon, <1>0, <3>1, UpFacts
  <2> HIDE DEF gone
  <2> QED
    BY Zenon, <1>0, <1>4, <2>1, FilesCleaned
<1>5. CASE Fault("dirsync") /\ manifest' = m /\ srv' = Cleanup(srv)
  <2> HIDE DEF m
  <2>1. env'.had = env.had \cup {"dirsync"} /\ DOMAIN env' = EnvFields
    BY Zenon, <1>0, <1>5, FaultFacts
  <2>2. DOMAIN srv' = Fields /\ srv'.man = srv.man /\ srv'.ret = srv.ret
    BY Zenon, <1>0, <1>5, MemoryFacts
  <2>3. Shape'
    BY Zenon, <1>0, <1>1, <1>5, <2>1, <2>2 DEF Shape
  <2> QED
    BY Zenon, <2>1, <2>3 DEF FilesInv, Calm
<1> QED
  BY Zenon, <1>2, <1>3, <1>4, <1>5

\* aofDelHistoryFiles removes what the manifest lists as history, and nothing it names.
LEMMA FilesDelHistory ==
    ASSUME FilesInv, DelHistory
    PROVE  FilesInv'
<1>0. /\ Shape /\ DOMAIN srv = Fields /\ srv.man \in Manifests /\ proc = "up"
      /\ srv.pc = "history" /\ UNCHANGED <<proc, manifest, env>>
      /\ files' = Without(files, srv.man.hist)
      /\ srv' = [srv EXCEPT !.man.hist = {}, !.pc = "forget"]
  BY Zenon DEF FilesInv, Shape, DelHistory, Running, NoFault
<1> DEFINE m == [srv.man EXCEPT !.hist = {}]
<1>1. /\ m \in Manifests /\ m.base = srv.man.base /\ m.incrs = srv.man.incrs /\ m.hist = {}
      /\ m.bseq = srv.man.bseq /\ m.iseq = srv.man.iseq
  BY Zenon, <1>0 DEF Manifests
<1>2. /\ DOMAIN srv' = Fields /\ srv'.man = m /\ srv'.ret = srv.ret /\ srv'.fd = srv.fd
      /\ srv'.pc = "forget"
  BY Zenon, <1>0 DEF Fields
<1> HIDE DEF m
<1>3. Shape'
  BY Zenon, <1>0, <1>1, <1>2 DEF Shape
<1>4. ASSUME Calm PROVE DiskInv' /\ UpInv'
  <2>1. DiskInv /\ UpInv
    BY Zenon, <1>0, <1>4 DEF FilesInv
  <2>2. srv.man.hist = manifest.hist
    BY Zenon, <1>0, <2>1 DEF UpInv
  <2>3. DOMAIN files' = DOMAIN files \ manifest.hist
    BY Zenon, <1>0, <2>2, WithoutDomain
  <2>4. DiskInv'
    BY Zenon, <1>0, <2>1, <2>3 DEF DiskInv
  <2>5. UpInv'
    BY Zenon, <1>0, <1>1, <1>2, <2>1 DEF UpInv
  <2> QED
    BY Zenon, <2>4, <2>5
<1>5. Calm' => Calm
  BY Zenon, <1>0 DEF Calm
<1> QED
  BY Zenon, <1>0, <1>3, <1>4, <1>5 DEF FilesInv

\* Then the manifest forgets them, or keeps listing them when it cannot be persisted.
LEMMA FilesRewriteDone ==
    ASSUME FilesInv, RewriteDone
    PROVE  FilesInv'
<1> DEFINE s == [srv EXCEPT !.state = IF @ = "wait" THEN "on" ELSE @,
                            !.fsynced = IF srv.state = "wait" THEN srv.pending ELSE @]
<1>0. /\ Shape /\ DOMAIN srv = Fields /\ DOMAIN env = EnvFields /\ srv.man \in Manifests
      /\ proc = "up" /\ srv.pc = "forget" /\ UNCHANGED <<proc, files>>
  BY Zenon DEF FilesInv, Shape, RewriteDone, Running
<1>1. srv' = Cleanup(s)
  BY Zenon DEF RewriteDone
<1>2. DOMAIN s = Fields /\ s.man = srv.man /\ s.ret = srv.ret /\ s.fd = srv.fd
  BY Zenon, <1>0 DEF Fields
<1> HIDE DEF s
<1>3. /\ DOMAIN srv' = Fields /\ srv'.man = srv.man /\ srv'.ret = srv.ret /\ srv'.fd = srv.fd
      /\ srv'.pc = "loop"
  BY Zenon, <1>1, <1>2, MemoryFacts
<1>4. \/ manifest' = srv.man /\ UNCHANGED env
      \/ Fault("persist") /\ UNCHANGED manifest
      \/ Fault("dirsync") /\ manifest' = srv.man
  BY Zenon DEF RewriteDone, NoFault
<1>5. /\ DOMAIN env' = EnvFields /\ env.had \subseteq env'.had
      /\ "config" \in env'.had => "config" \in env.had
  <2>1. ASSUME NEW f \in {"persist", "dirsync"}, Fault(f)
        PROVE  env'.had = env.had \cup {f} /\ DOMAIN env' = EnvFields
    BY Zenon, <1>0, <2>1, FaultFacts
  <2>2. CASE UNCHANGED env
    BY Zenon, <1>0, <2>2
  <2>3. CASE \E f \in {"persist", "dirsync"} : Fault(f)
    <3>1. PICK f \in {"persist", "dirsync"} : Fault(f)
      BY Zenon, <2>3
    <3>2. env'.had = env.had \cup {f} /\ DOMAIN env' = EnvFields /\ f # "config"
      BY Zenon, <2>1, <3>1
    <3> QED
      BY Zenon, <3>2
  <2> QED
    BY Zenon, <1>4, <2>2, <2>3
<1>6. Shape'
  BY Zenon, <1>0, <1>3, <1>4, <1>5 DEF Shape
<1>7. ASSUME Calm' PROVE DiskInv' /\ UpInv'
  <2>1. Calm
    BY Zenon, <1>5, <1>7, CalmBefore
  <2>2. DiskInv /\ UpInv /\ Names(srv.man) = Names(manifest)
    BY Zenon, <1>0, <2>1, UpFacts
  <2>3. manifest' = manifest \/ manifest' = srv.man
    BY Zenon, <1>4
  <2>4. /\ manifest'.base = manifest.base /\ manifest'.incrs = manifest.incrs
        /\ Names(manifest') = Names(manifest)
        /\ manifest'.hist = manifest.hist \/ manifest'.hist = {}
    BY Zenon, <1>0, <2>2, <2>3 DEF UpInv
  <2>5. DiskInv'
    BY Zenon, <1>0, <1>5, <2>2, <2>4 DEF DiskInv
  <2>6. UpInv'
    BY Zenon, <1>0, <1>3, <1>5, <2>2, <2>4 DEF UpInv
  <2> QED
    BY Zenon, <2>5, <2>6
<1> QED
  BY Zenon, <1>0, <1>6, <1>7 DEF FilesInv

\* aofLoadManifestFromDisk and aofOpenIfNeededOnServerStart: the numbers go on from the
\* files read, and a manifest with an INCR file keeps its files.
LEMMA ReadFacts ==
    ASSUME manifest \in Manifests
    PROVE  LET read == ReadManifest(manifest)
               m == [(IF read.incrs = <<>> THEN NewIncr(read) ELSE read) EXCEPT !.hist = {}]
           IN  /\ m \in Manifests /\ m.hist = {}
               /\ manifest.incrs # <<>> =>
                    /\ m.base = manifest.base /\ m.bseq = manifest.base
                    /\ m.incrs = manifest.incrs /\ m.iseq = Last(manifest.incrs)
<1> DEFINE k == IF manifest.incrs = <<>> THEN 0 ELSE Last(manifest.incrs)
           read == ReadManifest(manifest)
           n == IF read.incrs = <<>> THEN NewIncr(read) ELSE read
<1>1. k \in Nat
  BY Zenon, IncrNumbers
<1>2. read = [manifest EXCEPT !.bseq = manifest.base, !.iseq = k]
  BY Zenon DEF ReadManifest
<1> HIDE DEF k, read
<1>3. /\ read \in Manifests /\ read.base = manifest.base /\ read.bseq = manifest.base
      /\ read.incrs = manifest.incrs /\ read.iseq = k
  BY Zenon, <1>1, <1>2 DEF Manifests
<1>4. n \in Manifests /\ (manifest.incrs # <<>> => n = read)
  BY Zenon, <1>3, NewIncrFacts
<1> HIDE DEF n
<1>5. /\ [n EXCEPT !.hist = {}] \in Manifests /\ [n EXCEPT !.hist = {}].hist = {}
      /\ [n EXCEPT !.hist = {}].base = n.base /\ [n EXCEPT !.hist = {}].bseq = n.bseq
      /\ [n EXCEPT !.hist = {}].incrs = n.incrs /\ [n EXCEPT !.hist = {}].iseq = n.iseq
  BY Zenon, <1>4 DEF Manifests
<1> QED
  BY Zenon, <1>3, <1>4, <1>5 DEF k, read, n

\* A restart loads the files of the manifest, forgets its history and goes on.
LEMMA FilesRestart ==
    ASSUME FilesInv, Restart
    PROVE  FilesInv'
<1> DEFINE read == ReadManifest(manifest)
           m == [(IF read.incrs = <<>> THEN NewIncr(read) ELSE read) EXCEPT !.hist = {}]
           fd == IncrName(Last(m.incrs))
<1>0. /\ Shape /\ DOMAIN env = EnvFields /\ manifest \in Manifests
      /\ proc # "up" /\ proc' = "up" /\ UNCHANGED env
  BY Zenon DEF FilesInv, Shape, Restart, NoFault
<1>1. /\ m \in Manifests /\ m.hist = {}
      /\ manifest.incrs # <<>> => /\ m.base = manifest.base /\ m.bseq = manifest.base
                                  /\ m.incrs = manifest.incrs /\ m.iseq = Last(manifest.incrs)
  BY Zenon, <1>0, ReadFacts
<1>2. /\ manifest' = m
      /\ \E f : files' = Without(With(files, fd, f), manifest.hist)
      /\ \E d, n : srv' = [Started(d, m, fd) EXCEPT !.asked = n]
  BY Zenon DEF Restart
<1> HIDE DEF m
<1>3. /\ DOMAIN srv' = Fields /\ srv'.man = m /\ srv'.ret = "loop" /\ srv'.fd = fd
      /\ srv'.pc = "loop"
  <2>1. ASSUME NEW d, NEW n
        PROVE  LET s == [Started(d, m, fd) EXCEPT !.asked = n]
               IN  /\ DOMAIN s = Fields /\ s.man = m /\ s.ret = "loop" /\ s.fd = fd
                   /\ s.pc = "loop"
    BY Zenon DEF Started, Fields
  <2>2. PICK d, n : srv' = [Started(d, m, fd) EXCEPT !.asked = n]
    BY Zenon, <1>2
  <2> DEFINE s == [Started(d, m, fd) EXCEPT !.asked = n]
  <2>3. /\ DOMAIN s = Fields /\ s.man = m /\ s.ret = "loop" /\ s.fd = fd
        /\ s.pc = "loop"
    BY Zenon, <2>1
  <2>4. srv' = s
    BY Zenon, <2>2
  <2> HIDE DEF s, fd
  <2> QED
    BY Zenon, <2>3, <2>4
<1>4. DOMAIN files' = (DOMAIN files \cup {fd}) \ manifest.hist
  <2>1. PICK f : files' = Without(With(files, fd, f), manifest.hist)
    BY Zenon, <1>2
  <2>2. DOMAIN With(files, fd, f) = DOMAIN files \cup {fd}
    BY Zenon, WithDomain
  <2>3. DOMAIN Without(With(files, fd, f), manifest.hist) = DOMAIN With(files, fd, f) \ manifest.hist
    BY Zenon, WithoutDomain
  <2> QED
    BY Zenon, <2>1, <2>2, <2>3
<1>5. Shape'
  BY Zenon, <1>0, <1>1, <1>2, <1>3 DEF Shape, Callers
<1>6. ASSUME Calm PROVE DiskInv' /\ UpInv'
  <2>1. DiskInv /\ "config" \notin env.had
    BY Zenon, <1>0, <1>6 DEF FilesInv
  <2>2. manifest.incrs # <<>>
    BY Zenon, <2>1 DEF DiskInv
  <2>3. /\ m.base = manifest.base /\ m.bseq = manifest.base /\ m.hist = {}
        /\ m.incrs = manifest.incrs /\ m.iseq = Last(manifest.incrs)
    BY Zenon, <1>1, <2>2
  <2>4. Names(manifest') = Names(manifest)
    BY Zenon, <1>2, <2>3, NamesSame
  <2>5. Names(manifest') \subseteq DOMAIN files'
    BY Zenon, <1>4, <2>1, <2>4 DEF DiskInv
  <2>6. DiskInv'
    BY Zenon, <1>0, <1>2, <2>1, <2>3, <2>5 DEF DiskInv
  <2>7. m.base <= m.bseq
    <3>1. manifest.base \in Nat
      BY Zenon, <1>0 DEF Manifests
    <3> QED
      BY <2>3, <3>1
  <2>8. \A n \in Range(m.incrs) : n <= m.iseq
    BY Zenon, <2>1, <2>3 DEF DiskInv
  <2>9. UpInv'
    BY Zenon, <1>1, <1>2, <1>3, <2>7, <2>8, NoFdApart DEF UpInv
  <2> QED
    BY Zenon, <2>6, <2>9
<1>7. Calm' => Calm
  BY Zenon, <1>0 DEF Calm
<1> QED
  BY Zenon, <1>0, <1>5, <1>6, <1>7 DEF FilesInv

\* A server that refuses to load cuts a file at most.
LEMMA FilesRefused ==
    ASSUME FilesInv, Refused
    PROVE  FilesInv'
<1>0. /\ Shape /\ proc = "down" /\ proc' = "refused" /\ UNCHANGED <<srv, env, manifest>>
  BY Zenon DEF FilesInv, Refused, NoFault
<1>1. UNCHANGED files \/ \E x, f : files' = With(files, x, f)
  BY Zenon DEF Refused
<1>2. DOMAIN files \subseteq DOMAIN files'
  <2>1. ASSUME NEW x, NEW f, files' = With(files, x, f) PROVE DOMAIN files \subseteq DOMAIN files'
    <3>1. DOMAIN With(files, x, f) = DOMAIN files \cup {x}
      BY Zenon, WithDomain
    <3> QED
      BY Zenon, <2>1, <3>1
  <2> QED
    BY Zenon, <1>1, <2>1
<1>3. Shape'
  BY Zenon, <1>0 DEF Shape
<1>4. Calm' => DiskInv' /\ "config" \notin env'.had
  BY Zenon, <1>0, <1>2 DEF FilesInv, DiskInv, Calm
<1> QED
  BY Zenon, <1>0, <1>3, <1>4 DEF FilesInv

\* A server set up with an empty AOF: its manifest names the two files there are.
LEMMA FilesInit ==
    ASSUME Init
    PROVE  FilesInv
<1> DEFINE m == FirstManifest
<1>1. /\ proc = "up" /\ manifest = m /\ srv = Started(<<>>, m, IncrName(1))
  BY Zenon DEF Init
<1>2. DOMAIN env = EnvFields /\ env.had = {}
  <2>1. PICK s \in Settings :
            env = [policy |-> s.policy, may |-> s.may, seqs |-> s.seqs,
                   left |-> MaxFaults, had |-> {}]
    BY Zenon DEF Init
  <2> QED
    BY Zenon, <2>1 DEF EnvFields
<1>3. DOMAIN files = {BaseName(1), IncrName(1)}
  BY Zenon DEF Init
<1>4. m.base = 1 /\ m.bseq = 1 /\ m.iseq = 1 /\ m.hist = {} /\ m.incrs = <<1>>
  BY Zenon DEF FirstManifest
<1>5. <<1>> # <<>> /\ Last(<<1>>) = 1 /\ Range(<<1>>) = {1} /\ 1 <= 1 /\ <<1>> \in Seq(Nat)
  BY DEF Last, Range
<1>6. m \in Manifests
  BY DEF FirstManifest, Manifests
<1>7. Names(m) = {BaseName(1), IncrName(1)}
  <2>1. {1} \ {NoBase} = {1}
    BY DEF NoBase
  <2>2. Names(m) = {BaseName(n) : n \in {1}} \cup {IncrName(n) : n \in {1}}
    BY Zenon, <1>4, <1>5, <2>1 DEF Names
  <2> QED
    BY Zenon, <2>2
<1> HIDE DEF m
<1>8. /\ DOMAIN srv = Fields /\ srv.man = m /\ srv.ret = "loop" /\ srv.fd = IncrName(1)
      /\ srv.pc = "loop"
  BY Zenon, <1>1 DEF Started, Fields
<1>9. Shape
  BY Zenon, <1>1, <1>2, <1>6, <1>8 DEF Shape, Callers
<1>10. DiskInv
  BY Zenon, <1>1, <1>3, <1>4, <1>5, <1>7 DEF DiskInv
<1>11. UpInv
  BY Zenon, <1>1, <1>4, <1>5, <1>8, NoFdApart DEF UpInv
<1> QED
  BY Zenon, <1>1, <1>9, <1>10, <1>11 DEF FilesInv

\* The invariant is about nothing else than these variables.
LEMMA FilesStutter ==
    ASSUME FilesInv, UNCHANGED vars
    PROVE  FilesInv'
<1>1. UNCHANGED <<proc, srv, env, files, manifest>>
  BY Zenon DEF vars
<1> QED
  BY Zenon, <1>1 DEF FilesInv, Shape, Calm, DiskInv, UpInv

\* The invariant is inductive.
LEMMA FilesNext ==
    ASSUME FilesInv, [Next]_vars
    PROVE  FilesInv'
<1>1. CASE Command \/ Tell
  BY Zenon, <1>1, FilesCommand
<1>2. CASE BeforeSleep \/ Rewrite \/ ScheduledRewrite \/ StopAppendOnly \/ StartAppendOnly
  BY Zenon, <1>2, FilesFlushes
<1>3. CASE FsyncAlways \/ FsyncEverysec \/ FsyncSkipped
  BY Zenon, <1>3, FilesFsync
<1>4. CASE BioDone \/ BioError
  BY Zenon, <1>4, FilesBio
<1>5. CASE OpenTempIncr \/ OpenNothing \/ Drained \/ Fork
  BY Zenon, <1>5, FilesFork
<1>6. CASE OpenIncr
  BY Zenon, <1>6, FilesOpenIncr
<1>7. CASE RenameIncr \/ RewriteFailed
  BY Zenon, <1>7, FilesRenameIncr
<1>8. CASE RenameBase
  BY Zenon, <1>8, FilesRenameBase
<1>9. CASE PersistRewritten
  BY Zenon, <1>9, FilesPersist
<1>10. CASE DelHistory
  BY Zenon, <1>10, FilesDelHistory
<1>11. CASE RewriteDone
  BY Zenon, <1>11, FilesRewriteDone
<1>12. CASE Stopped \/ BgSave \/ BgSaveDone
  BY Zenon, <1>12, FilesStopped
<1>13. CASE Kill \/ PowerLoss
  BY Zenon, <1>13, FilesKill
<1>14. CASE Restart
  BY Zenon, <1>14, FilesRestart
<1>15. CASE Refused
  BY Zenon, <1>15, FilesRefused
<1>16. CASE UNCHANGED vars
  BY Zenon, <1>16, FilesStutter
<1> QED
  BY Zenon, <1>1, <1>2, <1>3, <1>4, <1>5, <1>6, <1>7, <1>8, <1>9, <1>10, <1>11, <1>12, <1>13,
     <1>14, <1>15, <1>16 DEF Next

\* The files of the manifest on disk are in the directory at every instant of a rewrite, of
\* its failure at any step and of a crash and restart after it (backgroundRewriteDoneHandler
\* renames before it persists the manifest and deletes after it): loadAppendOnlyFiles never
\* meets a missing file.  It holds of every number of commands and faults, unless the fsync of
\* the directory failed, or both CONFIG SET appendonly and a death or a failed write happened.
THEOREM ManifestFilesPresent == Spec => []FilesPresent
<1>1. Init => FilesInv
  BY Zenon, FilesInit
<1>2. FilesInv /\ [Next]_vars => FilesInv'
  BY Zenon, FilesNext
<1>3. FilesInv => FilesPresent
  <2> SUFFICES ASSUME FilesInv, Calm, NEW i \in 1 .. Len(Chain(manifest))
               PROVE  Chain(manifest)[i] \in DOMAIN files
    BY Zenon DEF FilesPresent
  <2>1. Names(manifest) \subseteq DOMAIN files /\ manifest \in Manifests
    BY Zenon DEF FilesInv, DiskInv, Shape
  <2>2. Chain(manifest)[i] \in Names(manifest)
    BY Zenon, <2>1, ChainNames
  <2> QED
    BY Zenon, <2>1, <2>2
<1> QED
  BY <1>1, <1>2, <1>3, PTL DEF Spec

=============================================================================
