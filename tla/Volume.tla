------------------------------- MODULE Volume -------------------------------
(***************************************************************************)
(* The removable-volume lifecycle controller of vold (src/vold/Volume.cpp). *)
(*                                                                         *)
(* Two threads act on the volumes.  The command thread runs mountVol,      *)
(* unmountVol and formatVol, one command at a time for all volumes (the    *)
(* variable cmd is its program counter).  The netlink thread delivers      *)
(* hot-plug events that move a volume between NoMedia, Pending and Idle    *)
(* (DirectVolume, outside src/, modelled from the spec); it runs while a   *)
(* command is in progress, which is why mountVol re-checks its state       *)
(* before mounting (Volume.cpp:541).                                       *)
(*                                                                         *)
(* The kernel's mount table is the variable mounts: how many mounts are    *)
(* stacked on each path the controller touches.  umount(2) of a path with  *)
(* nothing mounted fails EINVAL, of a path with a mount below it fails     *)
(* EBUSY, and otherwise succeeds or fails EBUSY (a process holds a file);  *)
(* MS_MOVE needs its source to be a mount point and carries the submounts  *)
(* along.  The directory .android_secure under the staging path exists     *)
(* only while the medium is mounted there.                                 *)
(***************************************************************************)
EXTENDS Integers, Sequences, FiniteSets

CONSTANTS
  Volumes,          \* the volumes of vold.fstab (model values)
  Primary,          \* the volume whose mount point is $EXTERNAL_STORAGE
  EncVolumes,       \* volumes flagged VOL_NONREMOVABLE | VOL_ENCRYPTABLE
  CryptoEncrypted,  \* ro.crypto.state is "encrypted"
  Nodes,            \* block device nodes (major:minor)
  WholeDisk,        \* the nodes whose minor is 255
  NodeLists,        \* [Volumes -> SUBSET Seq(Nodes)]: what getDeviceNodes returns
  Mapped,           \* [Volumes -> Nodes]: the node cryptfs_setup_volume creates
  ExtraSlots,       \* EXTRA_UDISK_NUM: capacity of the extra-partition table
  MaxCommands,      \* bound: commands the command thread accepts in a run
  NoDev             \* mCurrentlyMountedKdev == -1, an empty slot

ASSUME Primary \in Volumes
ASSUME EncVolumes \subseteq Volumes /\ CryptoEncrypted \in BOOLEAN
ASSUME WholeDisk \subseteq Nodes /\ NoDev \notin Nodes
ASSUME NodeLists \in [Volumes -> SUBSET Seq(Nodes)]
ASSUME Mapped \in [Volumes -> Nodes \ WholeDisk]
ASSUME ExtraSlots \in Nat \ {0} /\ MaxCommands \in Nat

VARIABLES
  vstate,      \* mState
  kdev,        \* mCurrentlyMountedKdev
  retryMount,  \* mRetryMount
  decrypted,   \* isDecrypted(): the volume points at its dm-crypt node
  mounts,      \* the kernel mount table: path -> number of stacked mounts
  slots,       \* extra_udisk_valid/devpath[0..EXTRA_UDISK_NUM]; the last is past the end
  cmd,         \* the command thread: command in progress and its locals
  commands     \* commands accepted so far (bounded by MaxCommands)

vars == <<vstate, kdev, retryMount, decrypted, mounts, slots, cmd, commands>>

(* Volume::State_*, the states stateToStr names. *)
States == {"Init", "NoMedia", "Idle", "Pending", "Checking", "Formatting",
           "Mounted", "Unmounting", "Shared", "SharedMnt"}
Transient == {"Checking", "Formatting", "Unmounting"}

(***************************************************************************)
(* Paths of the mount table.                                               *)
(***************************************************************************)
STG       == <<"staging", 0>>         \* /mnt/secure/staging
STGSEC    == <<"staging_secure", 0>>  \* /mnt/secure/staging/.android_secure
ASEC      == <<"asec", 0>>            \* /mnt/secure/asec (SEC_ASECDIR_EXT)
MP(v)     == <<"public", v>>          \* the volume's mount point
MPSEC(v)  == <<"public_secure", v>>   \* <mount point>/.android_secure
UD(j)     == <<"udisk", j>>           \* /storage/udisk<j+2>

Paths == {STG, STGSEC, ASEC} \cup {MP(v) : v \in Volumes}
           \cup {MPSEC(v) : v \in Volumes} \cup {UD(j) : j \in 0..ExtraSlots}

(* The mount below which p lies, if p is a submount path. *)
HasSubmount(m, p) ==
  \/ p = STG /\ m[STGSEC] > 0
  \/ \E v \in Volumes : p = MP(v) /\ m[MPSEC(v)] > 0

(* One umount(2): EINVAL when nothing is mounted, EBUSY with a submount or  *)
(* a holder, else the top mount goes.                                       *)
Umount(m, p) ==
  IF m[p] = 0 THEN {[ok |-> FALSE, m |-> m]}
  ELSE IF HasSubmount(m, p) THEN {[ok |-> FALSE, m |-> m]}
  ELSE {[ok |-> TRUE, m |-> [m EXCEPT ![p] = @ - 1]], [ok |-> FALSE, m |-> m]}

(* Volume::doUnmount: up to 10 umounts with escalating kills; EINVAL,      *)
(* ENOENT and EIO count as already unmounted.  A holder may survive the    *)
(* kills, a submount always makes every attempt fail EBUSY.                *)
DoUnmount(m, p) ==
  IF m[p] = 0 THEN {[ok |-> TRUE, m |-> m]}
  ELSE Umount(m, p)

(* MS_MOVE of the staging mount onto the mount point, submounts included. *)
MovedTable(m, v) ==
  [m EXCEPT ![STG] = @ - 1, ![MP(v)] = @ + 1,
            ![STGSEC] = 0, ![MPSEC(v)] = @ + m[STGSEC]]

(* Volume::doMoveMount(SEC_STGDIR, mountpoint): a source that is not a     *)
(* mount point fails EINVAL at once; EBUSY is retried 5 times and may last. *)
DoMoveMount(m, v) ==
  IF m[STG] = 0 THEN {[ok |-> FALSE, m |-> m]}
  ELSE {[ok |-> TRUE, m |-> MovedTable(m, v)], [ok |-> FALSE, m |-> m]}

(* mount(2) of a new filesystem or bind on p: fails if p does not exist,   *)
(* may fail otherwise.                                                     *)
MountAt(m, p) ==
  IF p = STGSEC /\ m[STG] = 0 THEN {[ok |-> FALSE, m |-> m]}
  ELSE {[ok |-> TRUE, m |-> [m EXCEPT ![p] = @ + 1]], [ok |-> FALSE, m |-> m]}

(* mount(SEC_STG_SECIMGDIR, SEC_ASECDIR_EXT, MS_BIND): the source is a     *)
(* directory of the staged medium.                                         *)
BindSecure(m) ==
  IF m[STG] = 0 THEN {[ok |-> FALSE, m |-> m]} ELSE MountAt(m, ASEC)

(* Volume::createBindMounts on a staged medium.  The directory checks may  *)
(* fail before anything is mounted; a failed tmpfs mount is followed by    *)
(* umount("/mnt/asec_secure"), a path nothing is mounted on, so the bind   *)
(* mount made just before stays.                                          *)
CreateBindMounts(m) ==
  LET binds == BindSecure(m)
  IN  {[ok |-> FALSE, m |-> m]}
        \cup {b \in binds : ~b.ok}
        \cup UNION {{IF t.ok THEN t ELSE [ok |-> FALSE, m |-> b.m]
                       : t \in MountAt(b.m, STGSEC)}
                      : b \in {x \in binds : x.ok}}

IsMountpointMounted(v) == mounts[MP(v)] > 0

(***************************************************************************)
(* Volume::setState: a no-op on the current state; leaving Pending for     *)
(* anything but Idle drops the retry latch; the broadcast is not modelled. *)
(***************************************************************************)
SetState(v, s) ==
  IF vstate[v] = s
  THEN UNCHANGED <<vstate, retryMount>>
  ELSE /\ vstate' = [vstate EXCEPT ![v] = s]
       /\ retryMount' = IF vstate[v] = "Pending" /\ s # "Idle"
                        THEN [retryMount EXCEPT ![v] = FALSE]
                        ELSE retryMount

NoCommand == [pc |-> "Free", vol |-> Primary, nodes |-> <<>>, i |-> 0,
              revert |-> FALSE]

Init ==
  /\ vstate = [v \in Volumes |-> "Init"]
  /\ kdev = [v \in Volumes |-> NoDev]
  /\ retryMount = [v \in Volumes |-> FALSE]
  /\ decrypted = [v \in Volumes |-> FALSE]
  /\ mounts = [p \in Paths |-> 0]
  /\ slots = [j \in 0..ExtraSlots |-> NoDev]
  /\ cmd = NoCommand
  /\ commands = 0

(***************************************************************************)
(* mountVol: the checks before the candidate loop.                         *)
(***************************************************************************)
Accept == /\ cmd = NoCommand
          /\ commands < MaxCommands
          /\ commands' = commands + 1

(* getDeviceNodes: after updateDeviceInfo it names the decrypted node. *)
Enumerate(v) == IF decrypted[v] THEN {<<Mapped[v]>>} ELSE NodeLists[v]

NeedsDecrypt(v) ==
  v = Primary /\ v \in EncVolumes /\ CryptoEncrypted /\ ~decrypted[v]

StartLoop(v, nodes) ==
  cmd' = [pc |-> "MountCheck", vol |-> v, nodes |-> nodes, i |-> 1,
          revert |-> FALSE]

(* Rejected: NoMedia, or the primary volume while vold.decrypt is "1" or   *)
(* an encryption is in progress; busy in any other state but Idle, which   *)
(* latches a retry if Pending.                                              *)
MountVolRejected(v) ==
  \E cryptBusy \in IF v = Primary THEN BOOLEAN ELSE {FALSE} :
    \/ /\ vstate[v] = "NoMedia" \/ cryptBusy
       /\ UNCHANGED retryMount
    \/ /\ ~(vstate[v] = "NoMedia" \/ cryptBusy)
       /\ vstate[v] # "Idle"
       /\ retryMount' = IF vstate[v] = "Pending"
                        THEN [retryMount EXCEPT ![v] = TRUE] ELSE retryMount

(* Idle but the mount table has the mount point: the state is "fixed" to  *)
(* Mounted and the device is left unrecorded.                              *)
MountVolFixup(v) ==
  /\ vstate[v] = "Idle" /\ IsMountpointMounted(v)
  /\ SetState(v, "Mounted")

(* Enumerate the nodes; an encryptable primary volume of an encrypted      *)
(* device must have exactly one, which is remapped through dm-crypt and    *)
(* enumerated again.                                                       *)
(* Variant of MountVolStart that keeps the raw node list after remapping  *)
(* instead of enumerating the nodes again.                                 *)
MountVolStartStaleNodes(v) ==
  /\ vstate[v] = "Idle" /\ ~IsMountpointMounted(v)
  /\ \E nodes \in Enumerate(v) :
       \/ /\ nodes = <<>> \/ (NeedsDecrypt(v) /\ Len(nodes) # 1)
          /\ UNCHANGED <<cmd, decrypted>>
       \/ /\ nodes # <<>> /\ ~NeedsDecrypt(v)
          /\ StartLoop(v, nodes)
          /\ UNCHANGED decrypted
       \/ /\ NeedsDecrypt(v) /\ Len(nodes) = 1
          /\ decrypted' = [decrypted EXCEPT ![v] = TRUE]
          /\ StartLoop(v, nodes)

MountVolStart(v) ==
  /\ vstate[v] = "Idle" /\ ~IsMountpointMounted(v)
  /\ \E nodes \in Enumerate(v) :
       \/ /\ nodes = <<>> \/ (NeedsDecrypt(v) /\ Len(nodes) # 1)
          /\ UNCHANGED <<cmd, decrypted>>
       \/ /\ nodes # <<>> /\ ~NeedsDecrypt(v)
          /\ StartLoop(v, nodes)
          /\ UNCHANGED decrypted
       \/ /\ NeedsDecrypt(v) /\ Len(nodes) = 1
          /\ \/ UNCHANGED <<cmd, decrypted>>   \* cryptfs_setup_volume failed
             \/ /\ decrypted' = [decrypted EXCEPT ![v] = TRUE]
                /\ StartLoop(v, <<Mapped[v]>>)

MountVol(v) ==
  /\ Accept
  /\ \/ MountVolRejected(v) /\ UNCHANGED <<vstate, cmd, decrypted>>
     \/ MountVolFixup(v) /\ UNCHANGED <<cmd, decrypted>>
     \/ MountVolStart(v) /\ UNCHANGED <<vstate, retryMount>>
  /\ UNCHANGED <<kdev, mounts, slots>>

(***************************************************************************)
(* mountVol: the loop over candidate nodes.                                *)
(***************************************************************************)
NextNode == cmd' = [cmd EXCEPT !.pc = "MountCheck", !.i = @ + 1]

Finish == cmd' = NoCommand

At(pc, v) == cmd.pc = pc /\ cmd.vol = v

(* Variant of MountCheck whose minor-255 skip does not advance the index. *)
MountCheckSkipStuck(v) ==
  /\ At("MountCheck", v)
  /\ \/ /\ cmd.i > Len(cmd.nodes)
        /\ SetState(v, "Idle")
        /\ Finish
     \/ /\ cmd.i <= Len(cmd.nodes) /\ cmd.nodes[cmd.i] \in WholeDisk
        /\ UNCHANGED <<vstate, retryMount, cmd>>
     \/ /\ cmd.i <= Len(cmd.nodes) /\ cmd.nodes[cmd.i] \notin WholeDisk
        /\ SetState(v, "Checking")
        /\ \/ NextNode
           \/ cmd' = [cmd EXCEPT !.pc = "MountStage"]
  /\ UNCHANGED <<kdev, decrypted, mounts, slots, commands>>

(* Skip minor 255, set Checking, run Fat::check; a failed check (no FAT or *)
(* a damaged one) moves on to the next node; past the last node the volume *)
(* goes back to Idle.                                                       *)
MountCheck(v) ==
  /\ At("MountCheck", v)
  /\ \/ /\ cmd.i > Len(cmd.nodes)
        /\ SetState(v, "Idle")
        /\ Finish
     \/ /\ cmd.i <= Len(cmd.nodes) /\ cmd.nodes[cmd.i] \in WholeDisk
        /\ NextNode
        /\ UNCHANGED <<vstate, retryMount>>
     \/ /\ cmd.i <= Len(cmd.nodes) /\ cmd.nodes[cmd.i] \notin WholeDisk
        /\ SetState(v, "Checking")
        /\ \/ NextNode
           \/ cmd' = [cmd EXCEPT !.pc = "MountStage"]
  /\ UNCHANGED <<kdev, decrypted, mounts, slots, commands>>

(* Give up if a remove event changed the state; mount the node on the     *)
(* staging path; on the primary volume build the bind mounts; a failure   *)
(* umounts the staging path, result ignored, and moves on.                *)
MountStage(v) ==
  /\ At("MountStage", v)
  /\ \/ /\ vstate[v] # "Checking"
        /\ Finish
        /\ UNCHANGED mounts
     \/ /\ vstate[v] = "Checking"
        /\ NextNode                              \* Fat::doMount failed
        /\ UNCHANGED mounts
     \/ /\ vstate[v] = "Checking"
        /\ LET staged == [mounts EXCEPT ![STG] = @ + 1]
               guards == IF v = Primary THEN CreateBindMounts(staged)
                         ELSE {[ok |-> TRUE, m |-> staged]}
           IN  \E b \in guards :
                 \/ /\ b.ok
                    /\ mounts' = b.m
                    /\ cmd' = [cmd EXCEPT !.pc = "MountMove"]
                 \/ /\ ~b.ok
                    /\ \E u \in Umount(b.m, STG) : mounts' = u.m
                    /\ NextNode
  /\ UNCHANGED <<vstate, retryMount, kdev, decrypted, slots, commands>>

(* Variant of MountMove that says Mounted whatever doMoveMount returned. *)
MountMoveUnchecked(v) ==
  /\ At("MountMove", v)
  /\ \E r \in DoMoveMount(mounts, v) :
       /\ mounts' = r.m
       /\ SetState(v, "Mounted")
       /\ kdev' = [kdev EXCEPT ![v] = cmd.nodes[cmd.i]]
       /\ cmd' = [cmd EXCEPT !.pc = "MountExtra", !.i = @ + 1]
  /\ UNCHANGED <<decrypted, slots, commands>>

(* Variant of MountMove that records the loop index, not the node. *)
MountMoveRecordsIndex(v) ==
  /\ At("MountMove", v)
  /\ \E r \in DoMoveMount(mounts, v) :
       \/ /\ r.ok
          /\ mounts' = r.m
          /\ SetState(v, "Mounted")
          /\ kdev' = [kdev EXCEPT ![v] = cmd.i]
          /\ cmd' = [cmd EXCEPT !.pc = "MountExtra", !.i = @ + 1]
       \/ /\ ~r.ok
          /\ \E u \in Umount(r.m, STG) : mounts' = u.m
          /\ NextNode
          /\ UNCHANGED <<vstate, retryMount, kdev>>
  /\ UNCHANGED <<decrypted, slots, commands>>

(* Move the staging mount onto the mount point; on success the volume is   *)
(* Mounted on this node; on failure the staging path is umounted (result   *)
(* ignored) and the next node is tried.                                    *)
MountMove(v) ==
  /\ At("MountMove", v)
  /\ \E r \in DoMoveMount(mounts, v) :
       \/ /\ r.ok
          /\ mounts' = r.m
          /\ SetState(v, "Mounted")
          /\ kdev' = [kdev EXCEPT ![v] = cmd.nodes[cmd.i]]
          /\ cmd' = [cmd EXCEPT !.pc = "MountExtra", !.i = @ + 1]
       \/ /\ ~r.ok
          /\ \E u \in Umount(r.m, STG) : mounts' = u.m
          /\ NextNode
          /\ UNCHANGED <<vstate, retryMount, kdev>>
  /\ UNCHANGED <<decrypted, slots, commands>>

(***************************************************************************)
(* Volume::mountExtraPartition: under udisk_sem take the first slot whose  *)
(* valid flag is 0; the scan ends at j = EXTRA_UDISK_NUM when none is, and *)
(* that index is used as well.  The slot is claimed after a successful     *)
(* Fat::check and Fat::doMount on /storage/udisk<j+2>.                     *)
(***************************************************************************)
FirstFreeSlot ==
  IF \E j \in 0..ExtraSlots - 1 : slots[j] = NoDev
  THEN CHOOSE j \in 0..ExtraSlots - 1 :
         slots[j] = NoDev /\ \A k \in 0..j - 1 : slots[k] # NoDev
  ELSE ExtraSlots

MountExtraPartition(n) ==
  LET j == FirstFreeSlot
  IN  \/ UNCHANGED <<mounts, slots>>         \* Fat::check or Fat::doMount failed
      \/ /\ mounts' = [mounts EXCEPT ![UD(j)] = @ + 1]
         /\ slots' = [slots EXCEPT ![j] = n]

(* After the volume is Mounted, every later node becomes an extra volume. *)
MountExtra(v) ==
  /\ At("MountExtra", v)
  /\ \/ /\ cmd.i > Len(cmd.nodes)
        /\ Finish
        /\ UNCHANGED <<mounts, slots>>
     \/ /\ cmd.i <= Len(cmd.nodes)
        /\ MountExtraPartition(cmd.nodes[cmd.i])
        /\ cmd' = [cmd EXCEPT !.i = @ + 1]
  /\ UNCHANGED <<vstate, retryMount, kdev, decrypted, commands>>

(***************************************************************************)
(* unmountVol: three unmounts, each failure entering the rollback chain at *)
(* a different label (fail_remount_tmpfs, fail_republish,                  *)
(* fail_recreate_bindmount).  The force flag only changes which signals    *)
(* the retry loops send, so it is folded into the nondeterministic         *)
(* outcome of each umount.                                                 *)
(***************************************************************************)
UnmountVol(v) ==
  /\ Accept
  /\ \/ /\ vstate[v] # "Mounted"                 \* UNMOUNT_NOT_MOUNTED_ERR
        /\ UNCHANGED <<vstate, retryMount, cmd>>
     \/ /\ vstate[v] = "Mounted"
        /\ SetState(v, "Unmounting")
        /\ \E revert \in BOOLEAN :
             cmd' = [pc |-> "Unmount1", vol |-> v, nodes |-> <<>>, i |-> 0,
                     revert |-> revert]
  /\ UNCHANGED <<kdev, decrypted, mounts, slots>>

(* Continue the command at label pc. *)
Goto(pc) == cmd' = [cmd EXCEPT !.pc = pc]

(* doUnmount(SEC_ASECDIR_EXT), for every volume. *)
Unmount1(v) ==
  /\ At("Unmount1", v)
  /\ \E r \in DoUnmount(mounts, ASEC) :
       mounts' = r.m /\ Goto(IF r.ok THEN "Unmount2" ELSE "RemountTmpfs")
  /\ UNCHANGED <<vstate, retryMount, kdev, decrypted, slots, commands>>

(* doUnmount(<mount point>/.android_secure). *)
Unmount2(v) ==
  /\ At("Unmount2", v)
  /\ \E r \in DoUnmount(mounts, MPSEC(v)) :
       mounts' = r.m /\ Goto(IF r.ok THEN "Unmount3" ELSE "Republish")
  /\ UNCHANGED <<vstate, retryMount, kdev, decrypted, slots, commands>>

(* doUnmount(<mount point>); then revert dm-crypt if asked and decrypted, *)
(* go Idle and forget the device.                                         *)
Unmount3(v) ==
  /\ At("Unmount3", v)
  /\ \E r \in DoUnmount(mounts, MP(v)) :
       \/ /\ r.ok
          /\ mounts' = r.m
          /\ decrypted' = [decrypted EXCEPT ![v] = @ /\ ~cmd.revert]
          /\ SetState(v, "Idle")
          /\ kdev' = [kdev EXCEPT ![v] = NoDev]
          /\ Finish
       \/ /\ ~r.ok
          /\ Goto("RecreateBindmount")
          /\ UNCHANGED <<mounts, decrypted, vstate, retryMount, kdev>>
  /\ UNCHANGED <<slots, commands>>

(* out_nomedia: a failed rollback step leaves the volume NoMedia. *)
OutNoMedia(v) == SetState(v, "NoMedia") /\ Finish /\ UNCHANGED mounts

(* fail_recreate_bindmount: bind SEC_STG_SECIMGDIR on SEC_ASECDIR_EXT. *)
RecreateBindmount(v) ==
  /\ At("RecreateBindmount", v)
  /\ \E r \in BindSecure(mounts) :
       \/ r.ok /\ mounts' = r.m /\ Goto("RemountTmpfs")
               /\ UNCHANGED <<vstate, retryMount>>
       \/ ~r.ok /\ OutNoMedia(v)
  /\ UNCHANGED <<kdev, decrypted, slots, commands>>

(* fail_remount_tmpfs: tmpfs on SEC_STG_SECIMGDIR. *)
RemountTmpfs(v) ==
  /\ At("RemountTmpfs", v)
  /\ \E r \in MountAt(mounts, STGSEC) :
       \/ r.ok /\ mounts' = r.m /\ Goto("Republish")
               /\ UNCHANGED <<vstate, retryMount>>
       \/ ~r.ok /\ OutNoMedia(v)
  /\ UNCHANGED <<kdev, decrypted, slots, commands>>

(* fail_republish: doMoveMount(SEC_STGDIR, mount point, force); Mounted again. *)
Republish(v) ==
  /\ At("Republish", v)
  /\ \E r \in DoMoveMount(mounts, v) :
       \/ r.ok /\ mounts' = r.m /\ SetState(v, "Mounted") /\ Finish
       \/ ~r.ok /\ OutNoMedia(v)
  /\ UNCHANGED <<kdev, decrypted, slots, commands>>

(***************************************************************************)
(* formatVol: refused without media or when not Idle; a mounted mount     *)
(* point "fixes" the state to Mounted; otherwise Formatting, then          *)
(* initializeMbr if whole-disk and Fat::format, and Idle whatever they     *)
(* return.                                                                 *)
(***************************************************************************)
FormatVol(v) ==
  /\ Accept
  /\ \/ /\ vstate[v] # "Idle"                     \* ENODEV or EBUSY
        /\ UNCHANGED <<vstate, retryMount, cmd>>
     \/ /\ vstate[v] = "Idle" /\ IsMountpointMounted(v)
        /\ SetState(v, "Mounted")
        /\ UNCHANGED cmd
     \/ /\ vstate[v] = "Idle" /\ ~IsMountpointMounted(v)
        /\ SetState(v, "Formatting")
        /\ cmd' = [NoCommand EXCEPT !.pc = "FormatRun", !.vol = v]
  /\ UNCHANGED <<kdev, decrypted, mounts, slots>>

(* Variant of FormatRun that returns without going back to Idle. *)
FormatRunNoReset(v) ==
  /\ At("FormatRun", v)
  /\ Finish
  /\ UNCHANGED <<vstate, retryMount, kdev, decrypted, mounts, slots, commands>>

FormatRun(v) ==
  /\ At("FormatRun", v)
  /\ SetState(v, "Idle")
  /\ Finish
  /\ UNCHANGED <<kdev, decrypted, mounts, slots, commands>>

(***************************************************************************)
(* The netlink thread (DirectVolume): a disk appears with its partitions  *)
(* (Idle) or with some still to come (Pending); the last partition turns  *)
(* Pending into Idle and consumes the retry latch; removal of a disk that *)
(* is not mounted makes the volume NoMedia.                                *)
(***************************************************************************)
DiskInserted(v) ==
  /\ vstate[v] \in {"Init", "NoMedia"}
  /\ \E s \in {"Idle", "Pending"} : SetState(v, s)
  /\ UNCHANGED <<kdev, decrypted, mounts, slots, cmd, commands>>

PartitionsComplete(v) ==
  /\ vstate[v] = "Pending"
  /\ vstate' = [vstate EXCEPT ![v] = "Idle"]
  /\ retryMount' = [retryMount EXCEPT ![v] = FALSE]
  /\ UNCHANGED <<kdev, decrypted, mounts, slots, cmd, commands>>

DiskRemoved(v) ==
  /\ vstate[v] \notin {"Init", "NoMedia", "Mounted"}
  /\ SetState(v, "NoMedia")
  /\ UNCHANGED <<kdev, decrypted, mounts, slots, cmd, commands>>

CommandStep(v) ==
  \/ MountCheck(v) \/ MountStage(v) \/ MountMove(v) \/ MountExtra(v)
  \/ Unmount1(v) \/ Unmount2(v) \/ Unmount3(v)
  \/ RecreateBindmount(v) \/ RemountTmpfs(v) \/ Republish(v)
  \/ FormatRun(v)

Next ==
  \E v \in Volumes :
    \/ MountVol(v) \/ UnmountVol(v) \/ FormatVol(v)
    \/ CommandStep(v)
    \/ DiskInserted(v) \/ PartitionsComplete(v) \/ DiskRemoved(v)

(* The command thread never blocks for good: every step of a command is   *)
(* enabled until the command returns.  Hot-plug events get no fairness.   *)
Spec == Init /\ [][Next]_vars /\ \A v \in Volumes : WF_vars(CommandStep(v))

(***************************************************************************)
(* Properties.                                                             *)
(***************************************************************************)
CmdPcs == {"Free", "MountCheck", "MountStage", "MountMove", "MountExtra",
           "Unmount1", "Unmount2", "Unmount3", "RecreateBindmount",
           "RemountTmpfs", "Republish", "FormatRun"}

TypeOK ==
  /\ vstate \in [Volumes -> States]
  /\ kdev \in [Volumes -> Nodes \cup {NoDev}]
  /\ retryMount \in [Volumes -> BOOLEAN]
  /\ decrypted \in [Volumes -> BOOLEAN]
  /\ mounts \in [Paths -> Nat]
  /\ slots \in [0..ExtraSlots -> Nodes \cup {NoDev}]
  /\ cmd \in [pc : CmdPcs, vol : Volumes, nodes : Seq(Nodes), i : Nat,
              revert : BOOLEAN]
  /\ commands \in 0..MaxCommands

(* Once a command has returned, no volume is left Checking, Formatting or  *)
(* Unmounting, whatever mountVol, formatVol or unmountVol failed on and    *)
(* whatever hot-plug events arrived meanwhile.                             *)
NoTransientStateAtRest ==
  cmd.pc = "Free" => \A v \in Volumes : vstate[v] \notin Transient

(* A volume that is Mounted has a filesystem on its mount point: mountVol  *)
(* and the republish rollback of unmountVol say Mounted only after the move *)
(* of the staging mount succeeded.                                         *)
MountedIsPublished ==
  \A v \in Volumes : vstate[v] = "Mounted" => mounts[MP(v)] > 0

(* A volume whose node was remapped through dm-crypt only ever records the *)
(* decrypted node as its mounted device, never the raw encrypted one:      *)
(* mountVol enumerates the nodes again after cryptfs_setup_volume.         *)
DecryptedNodeMounted ==
  \A v \in Volumes : decrypted[v] /\ kdev[v] # NoDev => kdev[v] = Mapped[v]

(* unmountVol tears the dm-crypt mapping down only after the filesystem on *)
(* it has left the mount point.                                            *)
RevertAfterUnmount ==
  [][\A v \in Volumes : decrypted[v] /\ ~decrypted'[v] => mounts'[MP(v)] = 0]_vars

(* Every command the command thread starts returns: the candidate loop of *)
(* mountVol, the extra-partition loop and the rollback chain all end.      *)
CommandsComplete == cmd.pc # "Free" ~> cmd.pc = "Free"

(* The spec's invariant: between commands, a volume is Mounted exactly     *)
(* when it records the device it mounted (mCurrentlyMountedKdev != -1).    *)
MountedIffKdev ==
  cmd.pc = "Free" =>
    \A v \in Volumes : (vstate[v] = "Mounted") <=> (kdev[v] # NoDev)

(* /mnt/asec belongs to the primary volume: no step of a command on        *)
(* another volume mounts or unmounts it (the teardown in unmountVol).      *)
AsecOwnedByPrimary ==
  [][cmd.pc # "Free" /\ cmd.vol # Primary => mounts'[ASEC] = mounts[ASEC]]_vars

(* The bind of the secure container on /mnt/asec never outlives the        *)
(* primary volume's mount: createBindMounts undoes its bind when the tmpfs *)
(* mount after it fails.                                                   *)
SecureBindReleased ==
  cmd.pc = "Free" /\ mounts[ASEC] > 0 => mounts[MP(Primary)] > 0

(* mountExtraPartition only writes entries of its EXTRA_UDISK_NUM-entry    *)
(* table.                                                                  *)
SlotsInBounds == slots[ExtraSlots] = NoDev

(* The refinement mapping: a volume is Mounted for its users while a       *)
(* filesystem is on its mount point, whatever mState says (this is what    *)
(* the "idle but mounted" fix of mountVol and formatVol restores); without *)
(* one, Init and NoMedia mean no medium and every other state a medium.    *)
LifeOf(v) ==
  IF mounts[MP(v)] > 0 THEN "Mounted"
  ELSE IF vstate[v] \in {"Init", "NoMedia"} THEN "NoMedia" ELSE "Idle"
Lifecycle == INSTANCE VolumeLifecycle WITH life <- [v \in Volumes |-> LifeOf(v)]

(* mountVol, unmountVol, formatVol and the hot-plug events together keep  *)
(* the lifecycle: a medium is never published after it was removed, and   *)
(* never removed while published.                                         *)
LifecycleRefined == Lifecycle!Spec

=============================================================================
