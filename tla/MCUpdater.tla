------------------------------ MODULE MCUpdater ------------------------------
\* Two versions, and manifests with the mistakes that a signed one may have.  The
\* host takes amd64 packages.
EXTENDS Updater, TLC

Deb(n, arch) == [name |-> n, extension |-> "deb", arches |-> {arch}]
Rpm(n, arch) == [name |-> n, extension |-> "rpm", arches |-> {arch}]
Plain(n) == [name |-> n, extension |-> "none", arches |-> {}]

Sums == Plain("SHA256SUMS")
Signature == Plain("SHA256SUMS.sig")

Line(n, digest) == [words |-> 2, digest |-> digest, hex |-> TRUE, stars |-> 0, name |-> n]
Blank == [Line("", 0) EXCEPT !.words = 0]
Starred(line) == [line EXCEPT !.stars = @ + 1]

\* The digest of a package for another host.
Other == 9

First == [version |-> 1, assets |-> <<Deb("amd64.deb", "amd64"), Sums, Signature>>]
FirstSums == <<Line("amd64.deb", 1)>>

Second == [version |-> 2,
  assets |-> <<Signature, Sums, Rpm("x86_64.rpm", "x86_64"), Deb("arm64.deb", "arm64"),
               Deb("amd64.deb", "amd64")>>]

\* With a line that only looks as if it named the package.
SecondSums ==
  <<Starred(Starred(Line("amd64.deb", 1))), Blank, Line("arm64.deb", Other),
    Starred(Line("amd64.deb", 2))>>

MCReleases == {First, Second}

\* An entry too many, and a line too long.
MCSigned == {FirstSums, SecondSums,
  <<Line("amd64.deb", 1), Starred(Line("amd64.deb", 2))>>,
  <<Line("amd64.deb", 2), [Line("arm64.deb", Other) EXCEPT !.words = 3]>>}

\* One that nobody signed, for a file that nobody built, and an empty file.
MCManifests == MCSigned \cup {<<Line("amd64.deb", Damaged)>>, <<>>}

\* The same for a host that takes rpm packages.
RpmReleases ==
  {[version |-> v, assets |-> <<Rpm("x86_64.rpm", "x86_64"), Sums, Signature>>] : v \in {1, 2}}
RpmSigned == {<<Line("x86_64.rpm", v)>> : v \in {1, 2}}
RpmManifests == RpmSigned \cup {<<>>}

\* What the actions read.  The running daemon and the reports are only written, and
\* of them the properties of this run ask no more than their types.
View == <<latest, installed, staging, [p \in Process |-> [job[p] EXCEPT !.report = "none"]]>>

Symmetry == Permutations(Process)
===============================================================================
