------------------------------- MODULE Updater -------------------------------
(***************************************************************************)
(* `sshknockd update`, src/bin/sshknockd.rs: each process asks for the     *)
(* latest release, stages three downloads in a directory named after its   *)
(* process id, verifies them, runs the package manager and restarts the    *)
(* service.  One action is one of these steps.  Any of them can fail, and  *)
(* the process can be killed between any two.  Meanwhile other updates     *)
(* run, releases are published or withdrawn, and the service is started    *)
(* and stopped; a process id is used again after its process ended.        *)
(*                                                                         *)
(* A download can bring anything: the package of any release or none, any  *)
(* manifest, signed or not, and a signature for any of them.  A package is *)
(* the version it was built as, which also stands for its digest.  A       *)
(* failing install may have replaced the package or not.                   *)
(***************************************************************************)
EXTENDS Release, HashMap

CONSTANTS
  Process,     \* process ids
  Releases,    \* what can be published: a version and its assets
  Manifests,   \* what a manifest file may hold: sequences of lines
  Signed,      \* the manifests that were ever signed with the release key
  NoSignature, \* a signature file that is for none of them
  Extension,   \* what detect_package_extension finds, "deb" or "rpm"
  Arch,        \* what detect_architecture finds, "amd64" or "arm64"
  NoRelease    \* nothing fetched yet

ASSUME UpdaterAssumption ==
  /\ Extension \in {"deb", "rpm"} /\ Arch \in {"amd64", "arm64"}
  /\ \A r \in Releases : r.version \in Nat \ {0}
  /\ NoRelease \notin Releases
  /\ NoDigest \notin Nat
  /\ \A m \in Manifests : /\ m \in Seq(ToSet(m))
                           /\ \A i \in DOMAIN m : m[i].digest \in Nat
  /\ <<>> \in Manifests /\ Signed \subseteq Manifests /\ NoSignature \notin Signed

VARIABLES
  latest,      \* the release that GitHub names as the latest
  installed,   \* the version in the package database
  active,      \* the version of the running daemon, 0 when it does not run
  staging,     \* the staging directories that exist, and their files
  job          \* what each process is doing

updaterVars == <<latest, installed, active, staging, job>>

Version == {r.version : r \in Releases}

\* A file that is no package of the project.
Damaged == 0
Package == Version \cup {Damaged}

\* What a download can leave in each of the three files.
Content == [package |-> Package, manifest |-> Manifests, signature |-> Signed \cup {NoSignature}]

NoFile == [package |-> Damaged, manifest |-> <<>>, signature |-> NoSignature]

\* While a process is at one of these, its directory is there.
Staged == {"package", "manifest", "signature", "verify", "install", "clean"}

Idle == [at |-> "idle", own |-> 0, release |-> NoRelease, verified |-> Damaged, ok |-> FALSE,
         report |-> "none", killed |-> FALSE]

\* Mutant: one directory for all processes.
Mut_DirOf(p) == "sshknockd-staging"

DirOf(p) == p

\* What a process finds in its directory.
Files(p) == IF DirOf(p) \in DOMAIN staging THEN staging[DirOf(p)] ELSE NoFile

UpdaterTypeOK ==
  /\ latest \in Releases
  /\ installed \in Package /\ active \in Package
  /\ \A d \in DOMAIN staging : \A f \in DOMAIN Content : staging[d][f] \in Content[f]
  /\ \A p \in Process :
       /\ job[p].at \in Staged \cup {"idle", "fetch", "stage", "restart"}
       /\ job[p].own \in Package /\ job[p].verified \in Package
       /\ job[p].release \in Releases \cup {NoRelease}
       /\ job[p].report \in {"none", "up_to_date", "updated", "failed"}
       /\ job[p].at \in Staged => job[p].release # NoRelease /\ DirOf(p) \in DOMAIN staging

-------------------------------------------------------------------------------
(* update_from_latest_release *)

\* The package asset of the release a process has chosen.
Asset(r) == r.assets[SelectReleaseAsset(r.assets, Extension, Arch)]

Complete(r) ==
  /\ SelectReleaseAsset(r.assets, Extension, Arch) # 0
  /\ SelectNamed(r.assets, "SHA256SUMS") # 0 /\ SelectNamed(r.assets, "SHA256SUMS.sig") # 0

Goto(p, from, to) == job[p].at = from /\ job' = [job EXCEPT ![p].at = to]

\* The process ends and says how.
End(p, report) == job' = [job EXCEPT ![p] = [Idle EXCEPT !.report = report, !.killed = job[p].killed]]

\* The program knows the version it was built as, until it has compared it.
Launch(p) ==
  /\ job[p].at = "idle"
  /\ job' = [job EXCEPT ![p] = [Idle EXCEPT !.at = "fetch", !.own = installed, !.killed = job[p].killed]]
  /\ UNCHANGED <<latest, installed, active, staging>>

UpToDate(p) ==
  /\ job[p].at = "fetch"
  /\ latest.version = job[p].own
  /\ End(p, "up_to_date")
  /\ UNCHANGED <<latest, installed, active, staging>>

Fetch(p) ==
  /\ job[p].at = "fetch"
  /\ latest.version # job[p].own
  /\ Complete(latest)
  /\ job' = [job EXCEPT ![p].at = "stage", ![p].own = 0, ![p].release = latest]
  /\ UNCHANGED <<latest, installed, active, staging>>

\* No answer, an unsupported host, or an asset that is missing.
FetchFails(p) ==
  /\ job[p].at = "fetch"
  /\ End(p, "failed")
  /\ UNCHANGED <<latest, installed, active, staging>>

\* create_private_staging_dir removes what a killed process of this id left.
Stage(p) ==
  /\ job[p].at = "stage"
  /\ staging' = Insert(staging, DirOf(p), NoFile)
  /\ job' = [job EXCEPT ![p].at = "package", ![p].killed = FALSE]
  /\ UNCHANGED <<latest, installed, active>>

\* The directory cannot be created: the old one, if any, is gone or not.
StageFails(p) ==
  /\ job[p].at = "stage"
  /\ staging' \in {staging, Without(staging, DirOf(p))}
  /\ End(p, "failed")
  /\ UNCHANGED <<latest, installed, active>>

\* curl succeeds; what it brought only verification tells.
Download(p, file, next) ==
  /\ Goto(p, file, next)
  /\ DirOf(p) \in DOMAIN staging
  /\ \E content \in Content[file] :
       staging' = [staging EXCEPT ![DirOf(p)][file] = content]
  /\ UNCHANGED <<latest, installed, active>>

\* Mutant: the signature is not looked at.
Mut_SignatureVerifies(files) == TRUE

\* verify_manifest_signature: one key signs every release, so a signature says
\* that the manifest is one of the project's, not of which release.
SignatureVerifies(files) == files.manifest \in Signed /\ files.signature = files.manifest

\* verify_package_against_signed_manifest: the manifest that was downloaded is
\* read, and gives the digest of the package.
Verifies(r, files) ==
  /\ SignatureVerifies(files)
  /\ ExpectedDigest(files.manifest, Asset(r).name) = files.package

\* `verified` is an observation: the code keeps no record of what it read.
Verify(p) ==
  /\ job[p].at = "verify"
  /\ Verifies(job[p].release, Files(p))
  /\ job' = [job EXCEPT ![p].at = "install", ![p].verified = Files(p).package]
  /\ UNCHANGED <<latest, installed, active, staging>>

\* A failed download, a file that cannot be read or does not verify.
StagedStepFails(p) ==
  /\ job[p].at \in {"package", "manifest", "signature", "verify"}
  /\ job' = [job EXCEPT ![p].at = "clean"]
  /\ UNCHANGED <<latest, installed, active, staging>>

\* dpkg -i takes any version; rpm -Uvh only a newer one.
Installable(package) == Extension = "rpm" => package > installed

Install(p) ==
  /\ job[p].at = "install"
  /\ Installable(Files(p).package)
  /\ installed' = Files(p).package
  /\ job' = [job EXCEPT ![p].at = "clean", ![p].ok = TRUE]
  /\ UNCHANGED <<latest, active, staging>>

InstallFails(p) ==
  /\ Goto(p, "install", "clean")
  /\ \/ UNCHANGED installed
     \/ Installable(Files(p).package) /\ installed' = Files(p).package
  /\ UNCHANGED <<latest, active, staging>>

\* Mutant: an error returns before the directory is removed.
Mut_Clean(p) ==
  /\ job[p].at = "clean"
  /\ IF job[p].ok
     THEN staging' = Without(staging, DirOf(p)) /\ job' = [job EXCEPT ![p].at = "restart"]
     ELSE End(p, "failed") /\ UNCHANGED staging
  /\ UNCHANGED <<latest, installed, active>>

\* The directory is removed before an error of the steps in it returns.
Clean(p) ==
  /\ job[p].at = "clean"
  /\ staging' = Without(staging, DirOf(p))
  /\ IF job[p].ok THEN job' = [job EXCEPT ![p].at = "restart"] ELSE End(p, "failed")
  /\ UNCHANGED <<latest, installed, active>>

Restart(p) ==
  /\ job[p].at = "restart"
  /\ active' = installed
  /\ End(p, "updated")
  /\ UNCHANGED <<latest, installed, staging>>

\* systemctl does not run, or stops the old daemon and cannot start the new one.
RestartFails(p) ==
  /\ job[p].at = "restart"
  /\ active' \in {active, 0}
  /\ End(p, "failed")
  /\ UNCHANGED <<latest, installed, staging>>

\* A killed process leaves its directory behind.
Kill(p) ==
  /\ job[p].at # "idle"
  /\ job' = [job EXCEPT ![p] = [Idle EXCEPT !.report = "failed",
                                             !.killed = job[p].killed \/ job[p].at \in Staged]]
  /\ UNCHANGED <<latest, installed, active, staging>>

-------------------------------------------------------------------------------
(* GitHub and systemd *)

Publish == latest' \in Releases \ {latest} /\ UNCHANGED <<installed, active, staging, job>>

ServiceStarts == active' = installed /\ UNCHANGED <<latest, installed, staging, job>>

ServiceStops == active' = 0 /\ UNCHANGED <<latest, installed, staging, job>>

-------------------------------------------------------------------------------
UpdaterInit ==
  /\ latest \in Releases
  /\ installed \in Version /\ active = installed
  /\ staging = EmptyMap
  /\ job = [p \in Process |-> Idle]

UpdateStep(p) ==
  \/ Launch(p) \/ UpToDate(p) \/ Fetch(p) \/ FetchFails(p)
  \/ Stage(p) \/ StageFails(p)
  \/ Download(p, "package", "manifest")
  \/ Download(p, "manifest", "signature")
  \/ Download(p, "signature", "verify")
  \/ Verify(p) \/ StagedStepFails(p)
  \/ Install(p) \/ InstallFails(p)
  \/ Clean(p)
  \/ Restart(p) \/ RestartFails(p)

UpdaterNext ==
  \/ \E p \in Process : UpdateStep(p) \/ Kill(p)
  \/ Publish \/ ServiceStarts \/ ServiceStops

UpdaterSpec == UpdaterInit /\ [][UpdaterNext]_updaterVars

-------------------------------------------------------------------------------
(* Properties *)

\* Whatever other updates do meanwhile, and whatever the downloads bring, the
\* package database changes only to what an updating process verified itself, and
\* that is a package that some signed manifest lists exactly once as the asset the
\* process has chosen ("closes the verify/install swap window",
\* src/bin/sshknockd.rs:129-135, 151-166, 299-345).  It need not be of the release
\* that was fetched: nothing that is signed names a release.
OnlyVerifiedInstalled ==
  [][installed' # installed =>
       \E p \in Process :
         /\ job[p].at = "install"
         /\ installed' = job[p].verified
         /\ \E m \in Signed : Lists(m, Asset(job[p].release).name, installed')]_updaterVars

\* A package gets to the installer only beside a manifest that is well formed and
\* lists it exactly once (expected_digest_from_manifest,
\* src/bin/sshknockd.rs:347-373).
ListedExactlyOnce ==
  \A p \in Process :
    job[p].at = "install" =>
      Lists(Files(p).manifest, Asset(job[p].release).name, Files(p).package)

\* "a per-process, root-only temporary directory that is removed after
\* installation or on error" (README.md:135): a directory that no running update
\* uses was left by a killed one (src/bin/sshknockd.rs:119-120).
StagingRemoved ==
  \A d \in DOMAIN staging : \E p \in Process :
    d = DirOf(p) /\ (job[p].at \in Staged \/ job[p].killed)

\* "Download, install, and activate the latest package"
\* (src/bin/sshknockd.rs:31): after an update that ends without an error, the
\* daemon, if it runs, is the one of the release the update asked for.
SuccessActivates ==
  [][\A p \in Process :
       job[p].at # "idle" /\ job'[p].at = "idle" /\ job'[p].report # "failed" =>
         active' \in {0, IF job[p].release = NoRelease THEN latest.version
                         ELSE job[p].release.version}]_updaterVars
===============================================================================
