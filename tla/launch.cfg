\* One start of one pod ends, spawned or failed: no step follows.
CHECK_DEADLOCK FALSE
SPECIFICATION Spec
CONSTANTS
  NoOption = NoOption
  EmptyString = EmptyString
  None = NoOption
  Empty = EmptyString
  Word <- MCWords
  Program <- MCPrograms
  Name = {"PATH", "HOME", "TMPDIR", "A", "B"}
  Value = {"pod", "old", "new", "image", "agent", "proot", "/tmp"}
  Place <- MCPlaces
  Manifests <- MCManifests
  Pods <- MCPods
  Bodies <- MCBodies
  Configs <- MCConfigs
  Present <- MCPresent
  HostPaths = {"/data"}
  Dotted = {"ghcr.io", "node.js"}
  Hub = "registry-1.docker.io"
  Library = "library"
  Latest = "latest"
  Root = "/"
  Arch = "arm64"
  Inherited <- MCInherited
  Defaults <- MCDefaults
INVARIANTS TypeOK ReferenceIsRead PlatformIsRight RunsWhatPodSays PodHasLastWord
