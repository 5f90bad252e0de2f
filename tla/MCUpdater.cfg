SPECIFICATION UpdaterSpec
CONSTANTS
  Process = {p1, p2}
  Releases <- MCReleases
  Manifests <- MCManifests
  Signed <- MCSigned
  NoSignature = NoSignature
  Extension = "deb"
  Arch = "amd64"
  NoRelease = NoRelease
  NoDigest = NoDigest
SYMMETRY Symmetry
VIEW View
INVARIANTS UpdaterTypeOK ListedExactlyOnce StagingRemoved
PROPERTIES OnlyVerifiedInstalled
