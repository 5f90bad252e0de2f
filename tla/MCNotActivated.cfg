SPECIFICATION UpdaterSpec
CONSTANTS
  Process = {p1}
  Releases <- RpmReleases
  Manifests <- RpmManifests
  Signed <- RpmSigned
  NoSignature = NoSignature
  Extension = "rpm"
  Arch = "amd64"
  NoRelease = NoRelease
  NoDigest = NoDigest
PROPERTIES SuccessActivates
