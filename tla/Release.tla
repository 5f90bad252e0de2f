------------------------------- MODULE Release -------------------------------
(***************************************************************************)
(* What the self-update reads of a GitHub release, src/bin/sshknockd.rs:   *)
(* the choice of the package for this host among the assets, and the       *)
(* digest of that package in the checksum manifest.                        *)
(*                                                                         *)
(* An asset is its name, the extension the name ends in, and the names of  *)
(* architectures it contains.  A line of the manifest is its number of     *)
(* words and what the first two hold: a digest, whether that is 64         *)
(* hexadecimal digits, and a name after some stars.                        *)
(***************************************************************************)
EXTENDS Naturals, SequencesExt

CONSTANT NoDigest   \* expected_digest_from_manifest returned an error

ArchNames(extension, arch) ==
  CASE extension = "deb" -> {arch}
    [] extension = "rpm" /\ arch = "amd64" -> {"x86_64"}
    [] extension = "rpm" /\ arch = "arm64" -> {"aarch64", "arm64"}

\* Where the package for this host is among the assets, 0 when there is none.
SelectReleaseAsset(assets, extension, arch) ==
  SelectInSeq(assets, LAMBDA a :
    a.extension = extension /\ a.arches \cap ArchNames(extension, arch) # {})

SelectNamed(assets, name) == SelectInSeq(assets, LAMBDA a : a.name = name)

-------------------------------------------------------------------------------
(* expected_digest_from_manifest *)

\* strip_prefix takes one star away.
Names(line, package) == line.name = package /\ line.stars <= 1

\* Mutant: a second entry for the package replaces the first.
Mut_ReadLine(acc, line, package) ==
  LET named == line.words = 2 /\ Names(line, package)
  IN  [malformed |-> acc.malformed \/ line.words \notin {0, 2} \/ (named /\ ~line.hex),
       digest |-> IF named THEN line.digest ELSE acc.digest]

\* One line of the loop; `malformed` is an error that was returned.
ReadLine(acc, line, package) ==
  LET named == line.words = 2 /\ Names(line, package)
  IN  [malformed |-> \/ acc.malformed
                     \/ line.words \notin {0, 2}
                     \/ named /\ (~line.hex \/ acc.digest # NoDigest),
       digest |-> IF named THEN line.digest ELSE acc.digest]

\* What the loop has read after so many lines.
Reading(lines, package) ==
  LET read[n \in 0 .. Len(lines)] ==
        IF n = 0 THEN [malformed |-> FALSE, digest |-> NoDigest]
        ELSE ReadLine(read[n - 1], lines[n], package)
  IN  read

ExpectedDigest(lines, package) ==
  LET all == Reading(lines, package)[Len(lines)]
  IN  IF all.malformed THEN NoDigest ELSE all.digest

-------------------------------------------------------------------------------
\* What a manifest must be for its digest of a package to count: every line is
\* blank or has two words, and exactly one names the package, with this digest.
Lists(lines, package, digest) ==
  /\ \A i \in DOMAIN lines : lines[i].words \in {0, 2}
  /\ \E i \in DOMAIN lines :
       /\ lines[i].words = 2 /\ Names(lines[i], package)
       /\ lines[i].hex /\ lines[i].digest = digest
       /\ \A j \in DOMAIN lines \ {i} : lines[j].words = 2 => ~Names(lines[j], package)
===============================================================================
