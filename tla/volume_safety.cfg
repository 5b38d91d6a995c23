CONSTANTS
  sd = sd
  usb = usb
  nSd = nSd
  nSdDm = nSdDm
  nWhole = nWhole
  nP1 = nP1
  nP2 = nP2
  NoDev = NoDev
  Volumes = {sd, usb}
  Primary = sd
  EncVolumes = {sd}
  CryptoEncrypted = TRUE
  Nodes <- MCNodes
  WholeDisk <- MCWholeDisk
  NodeLists <- MCNodeLists
  Mapped <- MCMapped
  ExtraSlots = 1
  MaxCommands = 4

SPECIFICATION Spec

\* vold waits for commands once the bounded run has issued its last one.
CHECK_DEADLOCK FALSE

INVARIANTS
  TypeOK
  NoTransientStateAtRest
  MountedIsPublished
  DecryptedNodeMounted

PROPERTIES
  CommandsComplete
