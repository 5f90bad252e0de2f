----------------------------- MODULE UpdaterProofs -----------------------------
(***************************************************************************)
(* The self-update for every set of processes and every set of releases:   *)
(* what a process installs is what it fetched and verified, whatever other *)
(* processes, kills and publications come between its steps.               *)
(***************************************************************************)
EXTENDS Updater, WellFoundedInduction, TLAPS

-------------------------------------------------------------------------------
(* Loops.  A recursive function over 0 .. N is what its equations say because   *)
(* some function satisfies them, and a set of numbers has a least element.      *)

\* Any set of numbers has a least one.
LEMMA LeastElement ==
  ASSUME NEW T \in SUBSET Nat, T # {}
  PROVE  \E m \in T : \A k \in T : m <= k
<1> DEFINE R == OpToRel(<, Nat)
<1>1. ASSUME NEW m \in Nat, NEW k \in Nat, k < m PROVE <<k, m>> \in R
  BY <1>1 DEF OpToRel
<1>2. IsWellFoundedOn(R, Nat)
  BY NatLessThanWellFounded
<1> HIDE DEF R
<1>3. PICK m \in T : \A k \in T : ~(<<k, m>> \in R)
  BY <1>2, WFMin
<1>4. ASSUME NEW k \in T PROVE m <= k
  <2>1. m \in Nat /\ k \in Nat
    OBVIOUS
  <2>2. ~(k < m)
    BY <1>1, <1>3, <2>1
  <2> QED BY <2>1, <2>2
<1> QED BY <1>4

\* What holds before a loop and is kept by every round holds throughout.
LEMMA LoopInduction ==
  ASSUME NEW N \in Nat, NEW G, 0 \in G, \A n \in 1 .. N : n - 1 \in G => n \in G
  PROVE  0 .. N \subseteq G
<1> DEFINE T == (0 .. N) \ G
<1>1. SUFFICES ASSUME T # {} PROVE FALSE
  OBVIOUS
<1>2. PICK m \in T : \A k \in T : m <= k
  <2>1. T \in SUBSET Nat
    OBVIOUS
  <2> HIDE DEF T
  <2> QED BY <1>1, <2>1, LeastElement
<1>3. m \in 1 .. N /\ m - 1 \in 0 .. N
  OBVIOUS
<1>4. m - 1 \in G
  BY <1>2, <1>3
<1> QED BY <1>3, <1>4

\* The values that a loop over 1 .. N goes through; its body is a function.
LoopOf(f, N, A, base, step) ==
  /\ f \in [0 .. N -> A]
  /\ f[0] = base
  /\ \A n \in 1 .. N : f[n] = step[<<f[n - 1], n>>]

\* A loop over 1 .. N computes something: its recursive definition has a solution.
LEMMA LoopDefined ==
  ASSUME NEW N \in Nat, NEW A, NEW base \in A, NEW step \in [A \X (1 .. N) -> A]
  PROVE  \E f : LoopOf(f, N, A, base, step)
<1> DEFINE Sol(f, m) == LoopOf(f, m, A, base, step)
           G == {m \in 0 .. N : \E f : Sol(f, m)}
<1>1. 0 \in G
  <2> DEFINE f == [n \in 0 .. 0 |-> base]
  <2>1. Sol(f, 0)
    BY DEF LoopOf
  <2> HIDE DEF f
  <2> QED BY <2>1
<1>2. ASSUME NEW m \in 1 .. N, m - 1 \in G PROVE m \in G
  <2>1. PICK g : Sol(g, m - 1)
    BY <1>2
  <2>g. /\ g \in [0 .. m - 1 -> A] /\ g[0] = base
        /\ \A n \in 1 .. m - 1 : g[n] = step[<<g[n - 1], n>>]
    BY <2>1 DEF LoopOf
  <2> DEFINE f == [n \in 0 .. m |-> IF n = m THEN step[<<g[m - 1], m>>] ELSE g[n]]
  <2>2. g[m - 1] \in A
    BY <2>g
  <2>3. f \in [0 .. m -> A]
    <3>1. step[<<g[m - 1], m>>] \in A
      BY <2>2
    <3>2. \A n \in 0 .. m : n # m => g[n] \in A
      BY <2>g
    <3> QED BY <3>1, <3>2
  <2>4. f[0] = base
    BY <2>g
  <2>7. f[m] = step[<<g[m - 1], m>>] /\ \A n \in 0 .. m - 1 : f[n] = g[n]
    OBVIOUS
  <2> HIDE DEF f
  <2>5. ASSUME NEW n \in 1 .. m PROVE f[n] = step[<<f[n - 1], n>>]
    <3>1. n \in Int /\ n - 1 \in 0 .. m - 1 /\ (n # m => n \in 1 .. m - 1 /\ n \in 0 .. m - 1)
      OBVIOUS
    <3>2. f[n - 1] = g[n - 1]
      BY <2>7, <3>1
    <3>3. CASE n = m
      <4>1. f[m - 1] = g[m - 1]
        BY <3>2, <3>3
      <4>2. f[m] = step[<<f[m - 1], m>>]
        BY <2>7, <4>1
      <4> QED BY <3>3, <4>2
    <3>4. CASE n # m
      <4>1. f[n] = g[n] /\ g[n] = step[<<g[n - 1], n>>]
        BY <2>7, <2>g, <3>1, <3>4
      <4> QED BY <3>2, <4>1
    <3> QED BY <3>3, <3>4
  <2>6. Sol(f, m)
    BY <2>3, <2>4, <2>5 DEF LoopOf
  <2> QED BY <2>6
<1> HIDE DEF G
<1>3. N \in G
  BY <1>1, <1>2, LoopInduction
<1> QED BY <1>3 DEF G

-------------------------------------------------------------------------------
(* The manifest *)

\* The states that the loop over the lines can be in.
Accs(lines) == [malformed : BOOLEAN, digest : {NoDigest} \cup {lines[i].digest : i \in DOMAIN lines}]

\* The loop of expected_digest_from_manifest, line by line.
LEMMA ReadingFacts ==
  ASSUME NEW lines, Len(lines) \in Nat, DOMAIN lines = 1 .. Len(lines), NEW package
  PROVE  LET read == Reading(lines, package) IN
         /\ read[0] = [malformed |-> FALSE, digest |-> NoDigest]
         /\ \A n \in 1 .. Len(lines) : /\ read[n] = ReadLine(read[n - 1], lines[n], package)
                                       /\ read[n - 1] \in Accs(lines) /\ read[n] \in Accs(lines)
<1> DEFINE N == Len(lines)
           A == Accs(lines)
           base == [malformed |-> FALSE, digest |-> NoDigest]
           step == [x \in A \X (1 .. N) |-> ReadLine(x[1], lines[x[2]], package)]
           Eq(f) == f = [n \in 0 .. N |-> IF n = 0 THEN base ELSE ReadLine(f[n - 1], lines[n], package)]
<1>1. base \in A
  BY DEF Accs
<1>2. ASSUME NEW a \in A, NEW n \in 1 .. N PROVE ReadLine(a, lines[n], package) \in A
  <2> DEFINE D == {NoDigest} \cup {lines[i].digest : i \in DOMAIN lines}
             named == lines[n].words = 2 /\ Names(lines[n], package)
             worse == \/ a.malformed
                      \/ lines[n].words \notin {0, 2}
                      \/ named /\ (~lines[n].hex \/ a.digest # NoDigest)
  <2>1. lines[n].digest \in D /\ a.digest \in D
    BY DEF Accs
  <2>2. worse \in BOOLEAN
    OBVIOUS
  <2>3. ReadLine(a, lines[n], package) =
          [malformed |-> worse, digest |-> IF named THEN lines[n].digest ELSE a.digest]
    BY DEF ReadLine
  <2>4. A = [malformed : BOOLEAN, digest : D]
    BY DEF Accs
  <2> HIDE DEF A, D, worse, named
  <2> QED BY <2>1, <2>2, <2>3, <2>4
<1> HIDE DEF A, base
<1>3. step \in [A \X (1 .. N) -> A]
  BY <1>2
<1>n. N \in Nat
  OBVIOUS
<1>s. \A a \in A, n \in 1 .. N : step[<<a, n>>] = ReadLine(a, lines[n], package)
  OBVIOUS
<1>4. PICK f : LoopOf(f, N, A, base, step)
  <2> HIDE DEF step, N
  <2> QED BY <1>1, <1>3, <1>n, LoopDefined
<1>f. f \in [0 .. N -> A] /\ f[0] = base /\ \A n \in 1 .. N : f[n] = step[<<f[n - 1], n>>]
  BY <1>4, Zenon DEF LoopOf
<1>5. ASSUME NEW n \in 1 .. N PROVE f[n] = ReadLine(f[n - 1], lines[n], package)
  <2>1. f[n - 1] \in A
    <3>1. n - 1 \in 0 .. N
      BY <1>n
    <3> HIDE DEF N
    <3> QED BY <1>f, <3>1
  <2> HIDE DEF step, N
  <2> QED BY <1>f, <1>s, <2>1
<1>6. Eq(f)
  BY <1>f, <1>5
<1>7. Reading(lines, package) = CHOOSE g : Eq(g)
  BY DEF Reading, base
<1>8. Eq(Reading(lines, package))
  BY <1>6, <1>7
<1> DEFINE read == Reading(lines, package)
<1>9. read[0] = base /\ \A n \in 1 .. N : read[n] = ReadLine(read[n - 1], lines[n], package)
  <2>1. 0 \in 0 .. N /\ \A n \in 1 .. N : n \in 0 .. N /\ n # 0
    OBVIOUS
  <2> HIDE DEF N, read
  <2> QED BY <1>8, <2>1 DEF read
<1> DEFINE G == {n \in 0 .. N : read[n] \in A}
<1>10. 0 \in G /\ \A n \in 1 .. N : n - 1 \in G => n \in G
  <2> HIDE DEF read
  <2> QED BY <1>1, <1>2, <1>9
<1>11. 0 .. N \subseteq G
  <2> HIDE DEF G, N
  <2> QED BY <1>10, LoopInduction DEF N
<1>12. \A n \in 1 .. N : read[n - 1] \in A /\ read[n] \in A
  BY <1>11
<1> QED BY <1>9, <1>12 DEF base, A

\* Line i is an entry for the package.
Entry(lines, package, i) == lines[i].words = 2 /\ Names(lines[i], package)

\* What the loop knows of the first n lines unless they are malformed: the digest
\* is that of the only one that names the package, if there is one.
Found(lines, package, digest, n) ==
  /\ \A i \in 1 .. n : lines[i].words \in {0, 2}
  /\ digest = NoDigest => \A i \in 1 .. n : ~Entry(lines, package, i)
  /\ digest # NoDigest =>
       \E i \in 1 .. n : /\ Entry(lines, package, i) /\ lines[i].hex /\ lines[i].digest = digest
                         /\ \A j \in (1 .. n) \ {i} : ~Entry(lines, package, j)

\* The digest that the loop returns is that of the one line that names the package.
LEMMA DigestListed ==
  ASSUME NEW lines, Len(lines) \in Nat, DOMAIN lines = 1 .. Len(lines),
         \A i \in DOMAIN lines : lines[i].digest # NoDigest,
         NEW package, ExpectedDigest(lines, package) # NoDigest
  PROVE  Lists(lines, package, ExpectedDigest(lines, package))
<1> DEFINE N == Len(lines)
           read == Reading(lines, package)
           G == {n \in 0 .. N : read[n].malformed \/ Found(lines, package, read[n].digest, n)}
<1>1. /\ read[0] = [malformed |-> FALSE, digest |-> NoDigest]
      /\ \A n \in 1 .. N : /\ read[n] = ReadLine(read[n - 1], lines[n], package)
                           /\ read[n - 1] \in Accs(lines) /\ read[n] \in Accs(lines)
  BY ReadingFacts
<1> HIDE DEF read
<1>n. N \in Nat /\ \A i \in 1 .. N : lines[i].digest # NoDigest
  OBVIOUS
<1> HIDE DEF N
<1>2. 0 \in G
  <2>1. read[0].digest = NoDigest
    BY <1>1
  <2> QED BY <1>n, <2>1 DEF Found
<1>3. ASSUME NEW n \in 1 .. N, n - 1 \in G PROVE n \in G
  <2> DEFINE a == read[n - 1]
             b == read[n]
             named == Entry(lines, package, n)
  <2>1. b = ReadLine(a, lines[n], package) /\ lines[n].digest # NoDigest
    BY <1>1, <1>n
  <2>2. n \in 0 .. N /\ 1 .. n = (1 .. n - 1) \cup {n} /\ n \notin 1 .. n - 1
    BY <1>n
  <2>3. /\ b.malformed <=> \/ a.malformed
                           \/ lines[n].words \notin {0, 2}
                           \/ named /\ (~lines[n].hex \/ a.digest # NoDigest)
        /\ b.digest = IF named THEN lines[n].digest ELSE a.digest
    BY <2>1 DEF ReadLine, Entry
  <2>4. a.malformed \/ Found(lines, package, a.digest, n - 1)
    BY <1>3
  <2> HIDE DEF a, b
  <2> SUFFICES b.malformed \/ Found(lines, package, b.digest, n)
    BY <2>2 DEF b
  <2> SUFFICES ASSUME ~b.malformed PROVE Found(lines, package, b.digest, n)
    OBVIOUS
  <2>5. lines[n].words \in {0, 2} /\ Found(lines, package, a.digest, n - 1)
    BY <2>3, <2>4
  <2>6. \A i \in 1 .. n : lines[i].words \in {0, 2}
    BY <2>2, <2>5 DEF Found
  <2> HIDE DEF named
  <2>7. CASE ~named
    BY <2>2, <2>3, <2>5, <2>6, <2>7 DEF Found, named
  <2>8. CASE named
    <3>1. b.digest = lines[n].digest /\ lines[n].hex /\ a.digest = NoDigest
      BY <2>3, <2>8
    <3>2. \A i \in 1 .. n - 1 : ~Entry(lines, package, i)
      BY <2>5, <3>1 DEF Found
    <3> QED BY <2>1, <2>2, <2>6, <2>8, <3>1, <3>2 DEF Found, named
  <2> QED BY <2>7, <2>8
<1> HIDE DEF G
<1>4. 0 .. N \subseteq G
  BY <1>n, <1>2, <1>3, LoopInduction
<1>5. read[N].malformed \/ Found(lines, package, read[N].digest, N)
  BY <1>n, <1>4 DEF G
<1>6. ~read[N].malformed /\ ExpectedDigest(lines, package) = read[N].digest
  BY DEF ExpectedDigest, read, N
<1>7. DOMAIN lines = 1 .. N
  BY DEF N
<1> QED BY <1>5, <1>6, <1>7 DEF Lists, Found, Entry

-------------------------------------------------------------------------------
(* The invariant *)

FileSet == [package : Package, manifest : Manifests, signature : Signed \cup {NoSignature}]

Job == [at : Staged \cup {"idle", "fetch", "stage", "restart"}, own : Package,
        release : Releases \cup {NoRelease}, verified : Package, ok : BOOLEAN,
        report : {"none", "up_to_date", "updated", "failed"}, killed : BOOLEAN]

\* One process, the files of its directory and whether that is there: the installer
\* sees the files that were verified, whatever they were before, and a directory
\* without a user was left by a kill.
Sound(j, there, files) ==
  /\ j \in Job
  /\ there => files \in FileSet
  /\ j.at \in Staged \cup {"stage"} => j.release # NoRelease
  /\ j.at \in Staged => there
  /\ j.at = "install" => Verifies(j.release, files) /\ j.verified = files.package
  /\ there => j.at \in Staged \/ j.killed

UpdaterInv ==
  /\ latest \in Releases
  /\ installed \in Package /\ active \in Package
  /\ DOMAIN staging \subseteq Process
  /\ DOMAIN job = Process /\ job = [p \in Process |-> job[p]]
  /\ \A p \in Process : Sound(job[p], p \in DOMAIN staging, Files(p))

LEMMA NoFileTyped == NoFile \in FileSet
BY UpdaterAssumption DEF NoFile, FileSet, Package

\* A running daemon has a version; 0 says that none runs.
LEMMA PackageFacts == 0 \in Package /\ \A r \in Releases : r.version \in Package
BY DEF Package, Damaged, Version

LEMMA IdleTyped == Idle \in Job
BY PackageFacts DEF Idle, Job, Damaged

LEMMA UpdaterInvInit == UpdaterInit => UpdaterInv
<1> SUFFICES ASSUME UpdaterInit PROVE UpdaterInv
  OBVIOUS
<1>1. DOMAIN staging = {}
  BY DEF UpdaterInit, EmptyMap
<1>2. ASSUME NEW p \in Process PROVE Sound(job[p], p \in DOMAIN staging, Files(p))
  <2>1. job[p] = Idle
    BY DEF UpdaterInit
  <2>2. Idle.at = "idle"
    BY DEF Idle
  <2> QED BY <1>1, <2>1, <2>2, IdleTyped DEF Sound, Staged
<1>3. installed \in Package /\ active \in Package
  BY PackageFacts DEF UpdaterInit, Version
<1> QED BY <1>1, <1>2, <1>3 DEF UpdaterInit, UpdaterInv

\* A step of one process leaves the jobs and the directories of the others alone.
LEMMA StepOf ==
  ASSUME UpdaterInv, NEW p \in Process, NEW j, job' = [job EXCEPT ![p] = j],
         \/ staging' = staging
         \/ staging' = Insert(staging, p, NoFile)
         \/ staging' = Without(staging, p)
         \/ p \in DOMAIN staging /\ \E files : staging' = [staging EXCEPT ![p] = files],
         Sound(j, p \in DOMAIN staging', Files(p)'),
         UNCHANGED latest \/ latest' \in Releases, installed' \in Package,
         active' \in Package
  PROVE  UpdaterInv'
<1>1. DOMAIN staging' \subseteq Process
  BY DEF UpdaterInv, Insert, Without, Restrict
<1>2. DOMAIN job' = Process /\ job' = [q \in Process |-> job'[q]] /\ job'[p] = j
      /\ \A q \in Process \ {p} : job'[q] = job[q]
  BY DEF UpdaterInv
<1>3. ASSUME NEW q \in Process \ {p}
      PROVE  /\ q \in DOMAIN staging' <=> q \in DOMAIN staging
             /\ q \in DOMAIN staging => staging'[q] = staging[q]
  BY DEF Insert, Without, Restrict
<1>4. ASSUME NEW q \in Process PROVE Sound(job'[q], q \in DOMAIN staging', Files(q)')
  <2>1. CASE q = p
    BY <1>2, <2>1
  <2>2. CASE q # p
    <3>1. Files(q)' = Files(q)
      BY <1>3, <2>2 DEF Files, DirOf
    <3>2. Sound(job[q], q \in DOMAIN staging, Files(q))
      BY DEF UpdaterInv
    <3>3. job'[q] = job[q] /\ (q \in DOMAIN staging' <=> q \in DOMAIN staging)
      BY <1>2, <1>3, <2>2
    <3> QED BY <3>1, <3>2, <3>3 DEF Sound
  <2> QED BY <2>1, <2>2
<1>5. latest' \in Releases
  BY DEF UpdaterInv
<1> QED BY <1>1, <1>2, <1>4, <1>5 DEF UpdaterInv

\* An end of the process outside its directory, with whatever report.
LEMMA EndedSound ==
  ASSUME NEW p \in Process, Sound(job[p], p \in DOMAIN staging, Files(p)),
         job[p].at \notin Staged,
         NEW report \in {"none", "up_to_date", "updated", "failed"}
  PROVE  Sound([Idle EXCEPT !.report = report, !.killed = job[p].killed],
               p \in DOMAIN staging, Files(p))
<1> DEFINE j == [Idle EXCEPT !.report = report, !.killed = job[p].killed]
<1>1. job[p].killed \in BOOLEAN
  BY DEF Sound, Job
<1>2. j \in Job /\ j.at = "idle" /\ j.killed = job[p].killed
  BY <1>1, PackageFacts DEF Idle, Job, Damaged
<1> HIDE DEF j
<1>3. Sound(j, p \in DOMAIN staging, Files(p))
  BY <1>2 DEF Sound, Staged
<1> QED BY <1>3 DEF j

-------------------------------------------------------------------------------
(* The steps of one process *)

\* Before the directory is made, and after it is removed.
LEMMA OutsideStep ==
  ASSUME UpdaterInv, NEW p \in Process,
         \/ Launch(p) \/ UpToDate(p) \/ Fetch(p) \/ FetchFails(p)
         \/ Restart(p) \/ RestartFails(p)
  PROVE  UpdaterInv'
<1>0. /\ Sound(job[p], p \in DOMAIN staging, Files(p)) /\ job[p] \in Job
      /\ installed \in Package /\ active \in Package /\ latest \in Releases
  BY DEF UpdaterInv, Sound
<1>1. ASSUME NEW report \in {"none", "up_to_date", "updated", "failed"},
             End(p, report), job[p].at \notin Staged,
             UNCHANGED <<latest, installed, staging>>, active' \in Package
      PROVE  UpdaterInv'
  <2> DEFINE j == [Idle EXCEPT !.report = report, !.killed = job[p].killed]
  <2>1. Files(p)' = Files(p)
    BY <1>1 DEF Files
  <2>2. Sound(j, p \in DOMAIN staging, Files(p))
    BY <1>0, <1>1, EndedSound
  <2>4. Sound(j, p \in DOMAIN staging', Files(p)')
    BY <1>1, <2>1, <2>2
  <2>3. job' = [job EXCEPT ![p] = j]
    BY <1>1 DEF End
  <2> HIDE DEF j
  <2> QED BY <1>0, <1>1, <2>3, <2>4, StepOf
<1>2. CASE Launch(p)
  <2> DEFINE j == [Idle EXCEPT !.at = "fetch", !.own = installed, !.killed = job[p].killed]
  <2>1. job' = [job EXCEPT ![p] = j] /\ UNCHANGED <<latest, installed, active, staging>>
        /\ job[p].at = "idle"
    BY <1>2 DEF Launch
  <2>2. j \in Job /\ j.at = "fetch" /\ j.killed = job[p].killed
    BY <1>0, PackageFacts DEF Job, Idle, Damaged
  <2> HIDE DEF j
  <2>3. Files(p)' = Files(p)
    BY <2>1 DEF Files
  <2>4. Sound(j, p \in DOMAIN staging', Files(p)')
    BY <1>0, <2>1, <2>2, <2>3 DEF Sound, Staged
  <2> QED BY <1>0, <2>1, <2>4, StepOf
<1>3. CASE UpToDate(p)
  BY <1>0, <1>1, <1>3 DEF UpToDate, Staged
<1>4. CASE FetchFails(p)
  BY <1>0, <1>1, <1>4 DEF FetchFails, Staged
<1>5. CASE Restart(p)
  BY <1>0, <1>1, <1>5 DEF Restart, Staged
<1>6. CASE RestartFails(p)
  BY <1>0, <1>1, <1>6, PackageFacts DEF RestartFails, Staged
<1>7. CASE Fetch(p)
  <2> DEFINE j == [job[p] EXCEPT !.at = "stage", !.own = 0, !.release = latest]
  <2>1. job' = [job EXCEPT ![p] = j] /\ UNCHANGED <<latest, installed, active, staging>>
        /\ job[p].at = "fetch"
    BY <1>7 DEF Fetch, UpdaterInv
  <2>2. j \in Job /\ j.at = "stage" /\ j.killed = job[p].killed /\ j.release = latest
    BY <1>0, PackageFacts DEF Job
  <2> HIDE DEF j
  <2>3. Files(p)' = Files(p)
    BY <2>1 DEF Files
  <2>4. Sound(j, p \in DOMAIN staging', Files(p)')
    BY <1>0, <2>1, <2>2, <2>3, UpdaterAssumption DEF Sound, Staged
  <2> QED BY <1>0, <2>1, <2>4, StepOf
<1> QED BY <1>2, <1>3, <1>4, <1>5, <1>6, <1>7

\* Making the directory.
LEMMA StageStep ==
  ASSUME UpdaterInv, NEW p \in Process, Stage(p) \/ StageFails(p)
  PROVE  UpdaterInv'
<1>0. /\ Sound(job[p], p \in DOMAIN staging, Files(p)) /\ job[p] \in Job
      /\ installed \in Package /\ active \in Package /\ latest \in Releases
  BY DEF UpdaterInv, Sound
<1>1. CASE Stage(p)
  <2> DEFINE j == [job[p] EXCEPT !.at = "package", !.killed = FALSE]
  <2>1. /\ job' = [job EXCEPT ![p] = j] /\ UNCHANGED <<latest, installed, active>>
        /\ job[p].at = "stage" /\ staging' = Insert(staging, p, NoFile)
    BY <1>1 DEF Stage, UpdaterInv, DirOf
  <2>2. j \in Job /\ j.at = "package" /\ j.release = job[p].release
    BY <1>0 DEF Job, Staged
  <2> HIDE DEF j
  <2>3. Files(p)' = NoFile /\ p \in DOMAIN staging'
    BY <2>1 DEF Files, DirOf, Insert
  <2>4. Sound(j, p \in DOMAIN staging', Files(p)')
    BY <1>0, <2>1, <2>2, <2>3, NoFileTyped DEF Sound, Staged
  <2> QED BY <1>0, <2>1, <2>4, StepOf
<1>2. CASE StageFails(p)
  <2> DEFINE j == [Idle EXCEPT !.report = "failed", !.killed = job[p].killed]
  <2>1. /\ job' = [job EXCEPT ![p] = j] /\ UNCHANGED <<latest, installed, active>>
        /\ job[p].at \notin Staged
        /\ staging' = staging \/ staging' = Without(staging, p)
    BY <1>2 DEF StageFails, End, DirOf, Staged
  <2>2. /\ p \in DOMAIN staging' => p \in DOMAIN staging
        /\ p \in DOMAIN staging' => Files(p)' = Files(p)
    <3>1. CASE staging' = staging
      BY <3>1 DEF Files
    <3>2. CASE staging' = Without(staging, p)
      BY <3>2 DEF Without, Restrict
    <3> QED BY <2>1, <3>1, <3>2
  <2>3. Sound(j, p \in DOMAIN staging, Files(p))
    BY <1>0, <2>1, EndedSound
  <2>4. j.at = "idle"
    BY DEF Idle
  <2> HIDE DEF j
  <2>5. Sound(j, p \in DOMAIN staging', Files(p)')
    BY <2>2, <2>3, <2>4 DEF Sound, Staged
  <2> QED BY <1>0, <2>1, <2>5, StepOf
<1> QED BY <1>1, <1>2

\* A download replaces one file, by whatever it brings.
LEMMA DownloadStep ==
  ASSUME UpdaterInv, NEW p \in Process,
         NEW file \in {"package", "manifest", "signature"},
         NEW next \in {"manifest", "signature", "verify"}, Download(p, file, next)
  PROVE  UpdaterInv'
<1>0. /\ Sound(job[p], p \in DOMAIN staging, Files(p)) /\ job[p] \in Job
      /\ installed \in Package /\ active \in Package /\ latest \in Releases
  BY DEF UpdaterInv, Sound
<1> DEFINE j == [job[p] EXCEPT !.at = next]
<1>1. PICK content \in Content[file] :
        staging' = [staging EXCEPT ![p][file] = content]
  BY DEF Download, DirOf
<1>2. /\ job' = [job EXCEPT ![p] = j] /\ UNCHANGED <<latest, installed, active>>
      /\ p \in DOMAIN staging /\ job[p].at = file /\ file \in Staged /\ next \in Staged
  BY DEF Download, Goto, DirOf, UpdaterInv, Staged
<1>3. j \in Job /\ j.at = next /\ j.release = job[p].release /\ next # "install"
  BY <1>0, <1>2 DEF Job
<1> HIDE DEF j
<1> DEFINE old == Files(p)
           new == Files(p)'
<1>4. /\ old \in FileSet /\ new = [old EXCEPT ![file] = content]
      /\ p \in DOMAIN staging' /\ staging' = [staging EXCEPT ![p] = new]
  BY <1>0, <1>1, <1>2 DEF Files, DirOf, Sound
<1> HIDE DEF old, new
<1>5. new \in FileSet
  <2>1. CASE file = "package"
    BY <1>4, <2>1 DEF Content, FileSet
  <2>2. CASE file = "manifest"
    BY <1>4, <2>2 DEF Content, FileSet
  <2>3. CASE file = "signature"
    BY <1>4, <2>3 DEF Content, FileSet
  <2> QED BY <2>1, <2>2, <2>3
<1>6. Sound(j, p \in DOMAIN staging', Files(p)')
  BY <1>0, <1>2, <1>3, <1>4, <1>5 DEF Sound, new
<1> QED BY <1>0, <1>2, <1>4, <1>6, StepOf

\* Verification opens the way to the installer; every other step within the
\* directory closes it.
LEMMA StagedStep ==
  ASSUME UpdaterInv, NEW p \in Process,
         Verify(p) \/ StagedStepFails(p) \/ Install(p) \/ InstallFails(p)
  PROVE  /\ UpdaterInv'
         /\ installed' # installed =>
              job[p].at = "install" /\ installed' = job[p].verified
<1>0. /\ Sound(job[p], p \in DOMAIN staging, Files(p)) /\ job[p] \in Job
      /\ installed \in Package /\ active \in Package /\ latest \in Releases
  BY DEF UpdaterInv, Sound
<1>1. ASSUME NEW j \in Job, job' = [job EXCEPT ![p] = j], job[p].at \in Staged,
             j.at \in Staged, j.release = job[p].release,
             j.at = "install" =>
               Verifies(job[p].release, Files(p)) /\ j.verified = Files(p).package,
             UNCHANGED <<latest, active, staging>>, installed' \in Package
      PROVE  UpdaterInv'
  <2>1. Files(p)' = Files(p)
    BY <1>1 DEF Files
  <2>2. Sound(j, p \in DOMAIN staging', Files(p)')
    BY <1>0, <1>1, <2>1 DEF Sound
  <2> QED BY <1>0, <1>1, <2>2, StepOf
<1>2. ASSUME NEW at \in Staged
      PROVE  LET j == [job[p] EXCEPT !.at = at] IN
             j \in Job /\ j.at = at /\ j.release = job[p].release
  BY <1>0, <1>2 DEF Job
<1>3. CASE Verify(p)
  <2> DEFINE j == [job[p] EXCEPT !.at = "install", !.verified = Files(p).package]
  <2>1. /\ job' = [job EXCEPT ![p] = j] /\ UNCHANGED <<latest, installed, active, staging>>
        /\ job[p].at \in Staged /\ Verifies(job[p].release, Files(p))
    BY <1>3 DEF Verify, UpdaterInv, Staged
  <2>2. "install" \in Staged /\ Files(p).package \in Package
    BY <1>0, <2>1 DEF Staged, Sound, FileSet
  <2>3. /\ j \in Job /\ j.at = "install" /\ j.release = job[p].release
        /\ j.verified = Files(p).package
    BY <1>0, <2>2 DEF Job
  <2> HIDE DEF j
  <2> QED BY <1>0, <1>1, <2>1, <2>2, <2>3
<1>4. CASE StagedStepFails(p)
  <2> DEFINE j == [job[p] EXCEPT !.at = "clean"]
  <2>1. /\ job' = [job EXCEPT ![p] = j] /\ UNCHANGED <<latest, installed, active, staging>>
        /\ job[p].at \in Staged
    BY <1>4 DEF StagedStepFails, UpdaterInv, Staged
  <2>2. "clean" \in Staged
    BY DEF Staged
  <2>3. j \in Job /\ j.at = "clean" /\ j.release = job[p].release
    BY <1>2, <2>2
  <2> HIDE DEF j
  <2> QED BY <1>0, <1>1, <2>1, <2>2, <2>3
<1>5. ASSUME job[p].at = "install"
      PROVE  Files(p).package = job[p].verified /\ Files(p).package \in Package
  BY <1>0, <1>5 DEF Sound, Staged, FileSet
<1>6. CASE Install(p)
  <2> DEFINE j == [job[p] EXCEPT !.at = "clean", !.ok = TRUE]
  <2>1. /\ job' = [job EXCEPT ![p] = j] /\ UNCHANGED <<latest, active, staging>>
        /\ job[p].at = "install" /\ installed' = Files(p).package
    BY <1>6 DEF Install, UpdaterInv
  <2>2. "clean" \in Staged /\ "install" \in Staged
    BY DEF Staged
  <2>3. j \in Job /\ j.at = "clean" /\ j.release = job[p].release
    BY <1>0, <2>2 DEF Job
  <2> HIDE DEF j
  <2> QED BY <1>0, <1>1, <1>5, <2>1, <2>2, <2>3
<1>7. CASE InstallFails(p)
  <2> DEFINE j == [job[p] EXCEPT !.at = "clean"]
  <2>1. /\ job' = [job EXCEPT ![p] = j] /\ UNCHANGED <<latest, active, staging>>
        /\ job[p].at = "install" /\ installed' \in {installed, Files(p).package}
    BY <1>7 DEF InstallFails, Goto, UpdaterInv
  <2>2. "clean" \in Staged /\ "install" \in Staged
    BY DEF Staged
  <2>3. j \in Job /\ j.at = "clean" /\ j.release = job[p].release
    BY <1>2, <2>2
  <2> HIDE DEF j
  <2> QED BY <1>0, <1>1, <1>5, <2>1, <2>2, <2>3
<1> QED BY <1>3, <1>4, <1>6, <1>7

\* Removing the directory.
LEMMA CleanStep ==
  ASSUME UpdaterInv, NEW p \in Process, Clean(p)
  PROVE  UpdaterInv'
<1>0. /\ job[p] \in Job
      /\ installed \in Package /\ active \in Package /\ latest \in Releases
  BY DEF UpdaterInv, Sound
<1>1. staging' = Without(staging, p) /\ p \notin DOMAIN staging'
      /\ UNCHANGED <<latest, installed, active>>
  BY DEF Clean, DirOf, Without, Restrict
<1>2. ASSUME NEW j \in Job, j.at \in {"idle", "restart"}, job' = [job EXCEPT ![p] = j]
      PROVE  UpdaterInv'
  <2>1. Sound(j, p \in DOMAIN staging', Files(p)')
    BY <1>1, <1>2 DEF Sound, Staged
  <2> QED BY <1>0, <1>1, <1>2, <2>1, StepOf
<1>3. CASE job[p].ok
  <2> DEFINE j == [job[p] EXCEPT !.at = "restart"]
  <2>1. job' = [job EXCEPT ![p] = j]
    BY <1>3 DEF Clean, UpdaterInv
  <2>2. j \in Job /\ j.at = "restart"
    BY <1>0 DEF Job
  <2> HIDE DEF j
  <2> QED BY <1>2, <2>1, <2>2
<1>4. CASE ~job[p].ok
  <2> DEFINE j == [Idle EXCEPT !.report = "failed", !.killed = job[p].killed]
  <2>1. job' = [job EXCEPT ![p] = j]
    BY <1>4 DEF Clean, End
  <2>2. j \in Job /\ j.at = "idle"
    BY <1>0, PackageFacts DEF Job, Idle, Damaged
  <2> HIDE DEF j
  <2> QED BY <1>2, <2>1, <2>2
<1> QED BY <1>3, <1>4

LEMMA KillStep ==
  ASSUME UpdaterInv, NEW p \in Process, Kill(p)
  PROVE  UpdaterInv'
<1>0. /\ Sound(job[p], p \in DOMAIN staging, Files(p)) /\ job[p] \in Job
      /\ installed \in Package /\ active \in Package /\ latest \in Releases
  BY DEF UpdaterInv, Sound
<1> DEFINE gone == job[p].killed \/ job[p].at \in Staged
           j == [Idle EXCEPT !.report = "failed", !.killed = gone]
<1>1. job' = [job EXCEPT ![p] = j] /\ UNCHANGED <<latest, installed, active, staging>>
  BY DEF Kill
<1>2. gone \in BOOLEAN /\ (p \in DOMAIN staging => gone)
  BY <1>0 DEF Sound, Job
<1> HIDE DEF gone
<1>3. j \in Job /\ j.at = "idle" /\ j.killed = gone
  BY <1>2, PackageFacts DEF Idle, Job, Damaged
<1>4. Files(p)' = Files(p)
  BY <1>1 DEF Files
<1> HIDE DEF j
<1>5. Sound(j, p \in DOMAIN staging', Files(p)')
  BY <1>0, <1>1, <1>2, <1>3, <1>4 DEF Sound, Staged
<1> QED BY <1>0, <1>1, <1>5, StepOf

-------------------------------------------------------------------------------
(* The theorems *)

LEMMA UpdaterInvStep == UpdaterInv /\ [UpdaterNext]_updaterVars => UpdaterInv'
<1> SUFFICES ASSUME UpdaterInv, [UpdaterNext]_updaterVars PROVE UpdaterInv'
  OBVIOUS
<1>1. ASSUME NEW p \in Process, UpdateStep(p) PROVE UpdaterInv'
  <2>1. CASE Download(p, "package", "manifest")
    BY <2>1, DownloadStep
  <2>2. CASE Download(p, "manifest", "signature")
    BY <2>2, DownloadStep
  <2>3. CASE Download(p, "signature", "verify")
    BY <2>3, DownloadStep
  <2> QED BY <1>1, <2>1, <2>2, <2>3, OutsideStep, StageStep, StagedStep, CleanStep
          DEF UpdateStep
<1>2. ASSUME UNCHANGED <<staging, job>>, latest' \in Releases, installed' \in Package,
             active' \in Package
      PROVE  UpdaterInv'
  BY <1>2 DEF UpdaterInv, Files
<1>3. CASE Publish \/ ServiceStarts \/ ServiceStops \/ UNCHANGED updaterVars
  BY <1>2, <1>3, PackageFacts DEF Publish, ServiceStarts, ServiceStops, updaterVars, UpdaterInv
<1> QED BY <1>1, <1>3, KillStep DEF UpdaterNext

LEMMA UpdaterInvAlways == UpdaterSpec => []UpdaterInv
BY UpdaterInvInit, UpdaterInvStep, PTL DEF UpdaterSpec

\* Every reachable state of the self-update is well typed: a process that is in
\* its directory has one.
THEOREM UpdaterTypeCorrect == UpdaterSpec => []UpdaterTypeOK
<1>1. UpdaterInv => UpdaterTypeOK
  <2> SUFFICES ASSUME UpdaterInv PROVE UpdaterTypeOK
    OBVIOUS
  <2>1. ASSUME NEW d \in DOMAIN staging PROVE \A f \in DOMAIN Content : staging[d][f] \in Content[f]
    <3>1. d \in Process /\ Files(d) = staging[d] /\ Sound(job[d], d \in DOMAIN staging, Files(d))
      BY DEF UpdaterInv, Files, DirOf
    <3>2. DOMAIN Content = {"package", "manifest", "signature"}
      BY DEF Content
    <3> QED BY <3>1, <3>2 DEF Sound, FileSet, Content
  <2>2. ASSUME NEW p \in Process
        PROVE  /\ job[p] \in Job
               /\ job[p].at \in Staged => job[p].release # NoRelease /\ DirOf(p) \in DOMAIN staging
    BY DEF UpdaterInv, Sound, DirOf
  <2> QED BY <2>1, <2>2 DEF UpdaterInv, UpdaterTypeOK, Job
<1> QED BY <1>1, UpdaterInvAlways, PTL

\* However updates interleave, are killed and start again, a directory that no
\* running update uses was left by a killed one (src/bin/sshknockd.rs:119-120).
THEOREM NothingLeftBehind == UpdaterSpec => []StagingRemoved
<1>1. UpdaterInv => StagingRemoved
  BY DEF UpdaterInv, Sound, StagingRemoved, DirOf
<1> QED BY <1>1, UpdaterInvAlways, PTL

\* A manifest of any length from which the digest of a package was read lists that
\* package exactly once.
LEMMA VerifiedListed ==
  ASSUME NEW r, NEW files \in FileSet, Verifies(r, files)
  PROVE  files.manifest \in Signed /\ Lists(files.manifest, Asset(r).name, files.package)
<1> DEFINE lines == files.manifest
           name == Asset(r).name
<1>1. lines \in Signed /\ ExpectedDigest(lines, name) = files.package /\ files.package \in Nat
  BY UpdaterAssumption DEF Verifies, SignatureVerifies, FileSet, Package, Version, Damaged
<1>2. lines \in Manifests
  BY <1>1, UpdaterAssumption
<1>3. lines \in Seq(ToSet(lines)) /\ \A i \in DOMAIN lines : lines[i].digest \in Nat
  BY <1>2, UpdaterAssumption
<1> HIDE DEF lines, name
<1>4. Len(lines) \in Nat /\ DOMAIN lines = 1 .. Len(lines)
  BY <1>3
<1>5. ExpectedDigest(lines, name) # NoDigest /\ \A i \in DOMAIN lines : lines[i].digest # NoDigest
  BY <1>1, <1>3, UpdaterAssumption
<1>6. Lists(lines, name, ExpectedDigest(lines, name))
  BY <1>4, <1>5, DigestListed
<1> QED BY <1>1, <1>6 DEF lines, name

\* Who is at the installer has files that verify, and has verified that package.
LEMMA AtInstaller ==
  ASSUME UpdaterInv, NEW p \in Process, job[p].at = "install"
  PROVE  /\ Files(p) \in FileSet /\ Verifies(job[p].release, Files(p))
         /\ job[p].verified = Files(p).package
BY DEF UpdaterInv, Sound, Staged

\* What the installer is given comes with a well-formed manifest that lists it
\* exactly once, whatever was downloaded and however many lines the manifest has
\* (src/bin/sshknockd.rs:347-373).
THEOREM InstalledIsListed == UpdaterSpec => []ListedExactlyOnce
<1>1. UpdaterInv => ListedExactlyOnce
  BY AtInstaller, VerifiedListed DEF ListedExactlyOnce
<1> QED BY <1>1, UpdaterInvAlways, PTL

\* The package database only ever changes to what the installing process verified,
\* and that is a package which a signed manifest lists exactly once as the asset it
\* has chosen.  Nothing that happens between the verification and the installation
\* changes what is installed, whatever the downloads brought
\* (src/bin/sshknockd.rs:129-135, 151-166, 299-345).
THEOREM InstalledIsVerified == UpdaterSpec => OnlyVerifiedInstalled
<1> DEFINE By(p) == /\ job[p].at = "install"
                    /\ installed' = job[p].verified
                    /\ \E m \in Signed : Lists(m, Asset(job[p].release).name, installed')
           Right == installed' # installed => \E p \in Process : By(p)
<1>1. UpdaterInv /\ [UpdaterNext]_updaterVars => [Right]_updaterVars
  <2> SUFFICES ASSUME UpdaterInv, UpdaterNext, installed' # installed
               PROVE  \E p \in Process : By(p)
    OBVIOUS
  <2>1. PICK p \in Process : Install(p) \/ InstallFails(p)
    BY DEF UpdaterNext, UpdateStep, Launch, UpToDate, Fetch, FetchFails, Stage, StageFails,
           Download, Verify, StagedStepFails, Clean, Restart, RestartFails, Kill,
           Publish, ServiceStarts, ServiceStops
  <2>2. job[p].at = "install" /\ installed' = job[p].verified
    BY <2>1, StagedStep
  <2>3. \E m \in Signed : Lists(m, Asset(job[p].release).name, installed')
    BY <2>2, AtInstaller, VerifiedListed
  <2> QED BY <2>2, <2>3
<1>2. OnlyVerifiedInstalled <=> [][Right]_updaterVars
  BY DEF OnlyVerifiedInstalled
<1> HIDE DEF Right
<1> QED BY <1>1, <1>2, UpdaterInvAlways, PTL DEF UpdaterSpec
================================================================================
