# TLA+ models of Vixen-system

This directory holds TLA+ models of the code under `src/`, the TLC configurations that check them, and `PROJECT.json`. `PROJECT.json` lists the components, the runs, the mutants, the definition-to-source map, the findings and the hazards.

## The system

| Part | Source | State it keeps | Operations |
|---|---|---|---|
| Volume controller | `src/vold/Volume.cpp` | `mState`, `mCurrentlyMountedKdev`, `mRetryMount`, the decrypted flag, and the kernel mount table it drives | `mountVol`, `unmountVol`, `formatVol`, `setState`, `createBindMounts`, `doMoveMount`, `doUnmount` |
| Extra-partition pool | `src/vold/Volume.cpp` | `extra_udisk_valid/devpath[EXTRA_UDISK_NUM]` under `udisk_sem` | `mountExtraPartition`, `udiskSetState` |
| USB power accounting | `src/vold/NetlinkHandler.cpp` | `max_power[5]` | `onEvent`, `process_usb_event`, `path2host`, `send2batterycal` |
| Property service | `src/core/init/property_service.c` | the shared property area, with `count`, `serial` per entry, and `persistent_properties_loaded` | `property_set`, `property_get`, `check_perms`, `load_*`, `handle_property_set_fd` |
| Fastboot engine and protocol | `src/core/fastboot/engine.c`, `protocol.c` | the action list, and the bootloader's download buffer on the other end | `queue_action`, `fb_queue_*`, `fb_execute_queue`, `fb_free_list`, `cb_check`, `match`, `fb_format`, `fb_getvar`, `check_response` |
| WMT updater | `src/core/fastboot/wmtupdater*.c` | the update sequence and the sparse chunk loop | `main`, `update_*`, `wfb_*` |
| su | `src/extras/su/su.c` | none, beyond one request | `main` |

### How the parts interact

- vold runs two threads over the volumes.
  - The command thread (CommandListener, not under `src/`) runs `mountVol`, `unmountVol` and `formatVol`. It runs one command at a time across all volumes.
  - The netlink thread calls `NetlinkHandler::onEvent`. That routes block events to DirectVolume (not under `src/`), which moves volumes between NoMedia, Pending and Idle.
  - The netlink thread's changes happen while a command is half-way through. `mountVol` re-checks its state before mounting (`Volume.cpp:542`) for this reason.
- `mountVol` reads the properties `vold.decrypt`, `vold.encrypt_progress` and `ro.crypto.state`. These are served by init's property service.
- The fastboot/WMT tools and `su` are separate programs.

### The hard behaviours

- Hot-plug events interleave with multi-step commands.
- Ordered setup runs with a fall-through rollback: mount on staging, bind plus tmpfs, move; then the unmount chain.
- Mounts stack in the kernel, and MS_MOVE carries submounts along.
- Busy retries escalate their signals.
- The extra-partition table is fixed-size and nothing under `src/` frees its entries.
- The dm-crypt remap changes which node is mounted.

## Modules

### `Volume.tla` (core): the volume controller

**Variables.**
- `vstate`, `kdev`, `retryMount` and `decrypted` are the members of `Volume`.
- `mounts` maps each path the controller touches to the number of mounts stacked on it. The paths are staging, staging/.android_secure, /mnt/secure/asec, each mount point, each mount point's .android_secure, and /storage/udiskN.
- `slots` is the extra-partition table. It has one entry past its end, which stands for the out-of-bounds index.
- `cmd` is the command thread's program counter and locals: the volume, the node list, the loop index, and the `revert` flag.
- `commands` counts accepted commands, up to `MaxCommands`.

**Actions.** Each action is one step of the code, between syscalls:
- `MountVol` covers lines 394–490: the early checks, the "idle but mounted" fix, enumeration, and the crypto remap.
- `MountCheck` covers the loop head, the minor-255 skip, `setState(Checking)`, `Fat::check`, and the end of the loop going back to Idle.
- `MountStage` covers the re-check of Checking, the staging mount, `createBindMounts`, and the unchecked umount of staging.
- `MountMove` covers `doMoveMount`, setting Mounted, and recording the device.
- `MountExtra` covers `mountExtraPartition` for every later node.
- `UnmountVol`, `Unmount1`, `Unmount2` and `Unmount3` are the teardown.
- `RecreateBindmount`, `RemountTmpfs` and `Republish` are the three rollback labels, which fall through into each other. Failure at any of them goes to `OutNoMedia`.
- `FormatVol` and `FormatRun` are `formatVol`.
- `DiskInserted`, `PartitionsComplete` and `DiskRemoved` are the netlink thread's DirectVolume handlers. They are modelled from the spec, because that code is not under `src/`.

**Kernel semantics.** These are the operators `Umount`, `DoUnmount`, `DoMoveMount`, `MountAt`, `BindSecure` and `CreateBindMounts`:
- `umount` of an unmounted path fails with EINVAL. `doUnmount` counts that as success.
- `umount` of a path with a submount always fails with EBUSY.
- In any other case, an umount or a move may succeed or stay busy through all retries.
- MS_MOVE of a path that is not a mount point fails with EINVAL at once.
- The staging `.android_secure` directory exists only while a medium is mounted on staging.

The force flag only changes which signals the retries send, so it is folded into that nondeterminism.

### `RetryPrimitives.tla`: the retry loops

`MoveLoop` and `UnmountLoop` translate the `while (retries--)` loops of `doMoveMount` (5 attempts, only EBUSY retried) and `doUnmount` (10 attempts, EINVAL/ENOENT/EIO taken as unmounted, everything else retried). Both are RECURSIVE operators that take the result of every attempt and return the return code, the errno, the number of attempts and the signals sent. `Escalation` is the shared `retries == 1 / 2` choice on the post-decremented counter.

`Policy` is the spec's policy (sections 4.3 and 8), written independently of the code. The spec's "hang-up at the second-to-last retry, kill at the last" is read as "before" those attempts.

### `SparseDownload.tla`: the fastboot sparse writer

`fb_download_data_sparse` of `protocol.c`, reached from the updater through `fb_queue_flash_sparse` and `OP_DOWNLOAD_SPARSE`. libsparse's callback hands `fb_download_data_sparse_write` chunks of any length. The writer tops up its `usb_buf`, sends it when full, sends the whole buffers left in a chunk straight from the chunk, and keeps the rest. `fb_download_data_sparse_flush` sends a partly filled buffer at the end, and its result is dropped. A byte is modelled by its position in the stream, so a transfer is the list of positions it carries and the bootloader's view is the concatenation of the transfers (`Delivered`). `SparseCallback` and `Cut` are RECURSIVE. `_command_data` fails at a chosen call number, or never. `USB_BUF_SIZE` (512) is the constant `BufSize`, 2 in the instance, so that chunks of 0..5 bytes straddle, fill and exceed the buffer.

### `FastbootEngine.tla`: the engine's client API and executor

The whole public API of `engine.c`, as pure operators. The queue is a sequence of `Action` records: `op`, `cmd` (a verb and its argument), `func` (the callback by name), `prod`, `data` and `size`. `queue_action` is `Act`, and each `fb_queue_*` call appends what the C function fills in. This includes the calls no program under `src/` makes: `fb_queue_require` (with `cb_require`/`cb_reject`), `fb_queue_format`, `fb_queue_erase`, `fb_queue_display`, `fb_queue_getvar_save`, `fb_queue_notice`, `fb_queue_download` and `fb_queue_flash_sparse`.

**Strings.** A string the engine inspects is a sequence of one-character strings: a getvar answer, a required value and `cur_product`. This lets `match` be the C code's `strcmp`, and its `strncmp` over `len-1` characters for a value ending in `*`. `strtoll(resp, NULL, 16)` is `strtoll16`, over real digit strings. Downloaded data is a sequence of byte positions, as in `SparseDownload`.

**Operations.**
- `cb_check` is the C function: a failed query fails, a check for another product than `cur_product` is `Ignored`, and otherwise the answer must match (or, for a reject, must not).
- `fb_format` is the C function with its four exchanges and its `skip_if_not_supported` returns (`Skipped`).
- `generate_ext4_image` stands for `load_buffer`, `make_ext4fs` and `cleanup_image`. An image exists exactly when the partition size is positive. At size 0, `mmap` of 0 bytes fails; under MinGW, `malloc(0)` may succeed, and `fb_download_data` then refuses the empty image. Either way the format fails with -1.
- `fb_execute_queue`/`ExecFrom` is the loop. Each op performs its exchange (`OP_DOWNLOAD_SPARSE` through `SparseDownload`'s `fb_download_data_sparse`), then runs its callback and breaks on a non-zero status. `OP_NOTICE` only prints.

**The bootloader** is the context `e`: its variables, its download buffer, and a log of the erase and flash commands it carried out (with the index of the action that sent each one). It refuses a getvar of an unknown variable and a flash with nothing downloaded. One chosen exchange (`fail`) fails; this stands for a USB error, a short transfer or a FAIL reply.

### `MC_Primitives.tla`: the pure helpers over all small inputs

The inputs are the initial state and `Next` leaves them unchanged, so each invariant is checked once per input:
- for the retry loops, a prefix of retried errors followed by any result, with and without force;
- for the sparse writer, every file of at most 3 chunks of 0..5 bytes, with `_command_data` failing at any of its calls or never;
- for the engine, three client programs:
  - an update: a product check, a version reject, erase, flash and reboot;
  - a format: a product check, `fb_queue_format` with and without skip, a notice, a sparse flash and a display;
  - the query and download calls.

  Each product check is taken with every restriction (none, `a`, `b`), inversion and value list (the bare `*`, the prefix `a*`, and `b` or `a`). The bootloaders answer product `a`, `ab` or `*`, version `a` or `b`, partition type `ext4` or another, and a size of `0x4` or a non-number. `cur_product` is `a` or `b`, and any one of the first `MaxExchanges` = 8 exchanges fails, or none does. The longest program makes 8 exchanges, so every exchange is a candidate for failure.

### `MC_Volume.tla`: the instance for TLC

The instance has these volumes and nodes:
- **The sdcard (primary).** It is an encryptable volume on an encrypted device. Its `getDeviceNodes` yields one node, or two, which the crypto path refuses. Remapping gives it the dm node `nSdDm`.
- **The USB disk.** Its `getDeviceNodes` yields no nodes, or a whole-disk node of minor 255 followed by two partitions. The second partition is an extra partition.

The bounds are `ExtraSlots = 1` and `MaxCommands = 4`. With these, the following all happen: two mounts of the USB disk (enough to fill the pool), a mount followed by a failed unmount and its rollback, and a format.

### `VolumeLifecycle.tla`: what a volume promises

This is the abstract specification. For each volume it records NoMedia, Idle (a medium, not published) or Mounted (the filesystem published at the mount point). It allows four moves:
- insert;
- removal of an unpublished medium;
- publish;
- withdraw.

`Volume.LifeOf` is the refinement mapping. A volume is Mounted while its mount point holds a filesystem, whatever `mState` says. That is the state the "idle but mounted" fix of `mountVol` and `formatVol` restores, so the fix is a stuttering step of the abstract spec. Without a filesystem, Init and NoMedia map to NoMedia, and every other state maps to Idle. The transient states therefore disappear. `LifecycleRefined` is `Lifecycle!Spec`, checked with the `INSTANCE ... WITH` mapping.

### `PropertyService.tla` and `MC_PropertyService.tla`: init's property service

**Variables.**
- `value`, `serial` and `count` are the shared property area.
- `disk` and `temp` are `/data/property` and its `.temp` file.
- `loaded` is `persistent_properties_loaded`.
- `phase` and `todo` are `start_property_service`'s loading sequence.
- `pend` is the `property_set` in progress.
- `rd` is a concurrent reader in bionic's `__system_property_read`, which is modelled from its documented seqlock protocol because bionic is not under `src/`. It takes three steps: `ReadSerial` reads an even serial, `ReadCopy` copies the value, and `ReadCheck` re-reads the serial and retries if it changed. A `SetBegin` that lands between `ReadSerial` and `ReadCheck` is caught only by that re-check. The client is started once init serves its socket. It begins its read while init waits in its loop (`serve` or `reloaded`) and reads once per boot. Its later steps interleave with every write: a client request, and the `load_persist_props` reload.

**Actions.**
- `property_set` is split at the points where a reader can see the area: `SetBegin`, `SetCopy` (the two halves of `update_prop_info`'s seqlock) and `SetTail`.
- `SetTail` covers the `net.*` notification through a nested `net.change` set, and the write-back of `persist.*`.
- The write-back is `PersistWrite`, then `PersistRename`. `write()`'s result is ignored, so the file may get the whole value or a short write; the empty prefix stands for every short write, because no property tells two proper prefixes apart.
- `update_prop_info`'s serial arithmetic `(len << 24) | ((serial + 1) & 0xffffff)` is written with `*`, `+` and `%`: the two fields do not overlap, so this is the same number.
- `LoadLine`, `LoadFileDone`, `LoadPersistFile` and `LoadPersistDone` are `load_properties_from_file`, `load_override_properties` and `load_persistent_properties`. Lines are parsed on real strings. `/data/local.prop` is read only when `ALLOW_LOCAL_PROP_OVERRIDE` (the constant `AllowLocalOverride`) is set and `property_get("ro.debuggable")` is "1".
- `load_persistent_properties` takes the files in one readdir order. Each file sets only its own name and nothing reads another file's result before `MainDev`, so the order does not matter to any property.
- `LoadPersistProps` is `load_persist_props`, which vold triggers once `/data` is mounted: after the socket is up, init loads the override and the persist files again (phases `relocal` and `repersist`) and then serves again (`reloaded`).
- `MainDev`, `RilModem` and `CreateSocket` finish `start_property_service`.
- `HandlePropertySetFd` is one client request, checked with `check_perms`/`check_control_perms` against the real permission tables.
- `Reboot` keeps only `/data/property`. A stray `.temp` is dropped: `load_persistent_properties` skips it (it is not a `persist.*` name) and the next write truncates it, so its content is never read.
- The reader's copy records only whether the bytes it copied were torn, and a finished read forgets its serial: `ReadsNeverTorn` tells nothing else apart.

**Fairness.** Init's own steps (`InitStep`) are weakly fair, because init runs them to completion. Clients and readers get no fairness.

**Bounds.** The area holds `PaCountMax = 8` entries. There is 1 client request and 1 reboot, and the reader reads one name. `wmt.main.externaldev` is "sdcard" and `/etc/ppp/ril.modem.type` holds one modem name; the other values of these inputs only change which value `MainDev` and `RilModem` set, and each doubles the states. With these bounds:
- the area fills up;
- a persisted set races a reboot;
- the reader overlaps a set;
- the reload's `local.prop` line and its rewrites of the persist files race a client request and a reboot.

### `NetlinkPower.tla` and `MC_NetlinkPower.tla`: USB power accounting

`OnEvent` is `NetlinkHandler::onEvent` with `process_usb_event`. It works on the real DEVPATH strings with `path2host` and `path2power`, and updates `max_power[5]`. An index outside 0..4, or the dereference of address 3 when a path has no "usb" in it, is recorded in `fault`.

### `Su.tla` and `MC_Su.tla`: the su helper

`main` of `su.c` runs as a sequence of steps:
1. the debug properties;
2. the request to SuService;
3. the one-byte `read`;
4. the 'y' test;
5. `setuid`;
6. `exec`.

SuService is not under `src/`. It may answer any byte, close the connection, or fail. `str[0]` starts as any byte, because it is uninitialised.

### `FastbootQueue.tla` and `MC_FastbootQueue.tla`: the WMT updater over the fastboot engine

**Variables.**
- `queue` is the `fb_action_list`. Each action carries the number of the `fb_execute_queue` call it was queued for.
- `at`, `cont` and `st` are `fb_execute_queue`'s loop position, the label it returns to, and its status.
- `pc`, `step`, `respBuf` and `y` are `main`'s position and the locals of `update_nand_yaffs2`/`update_nand_sparse`.
- `dev` is the bootloader: its download buffer, what it wrote to each partition, and whether it is in sparse-download mode.

**Actions.**
- `ExecAction` is one iteration of `fb_execute_queue`. It covers one exchange (`check_response` and the `_command_*` steps, collapsed to OKAY or FAIL), the callback, the `break` on a non-zero status, and `fb_free_list` on the way out.
- `opt` is what `main`'s `getopt` loop made of the command line: `GetOpt` is a RECURSIVE operator over the option letters of `Argvs`. `-h`/`-?` and `-L` end the run before the device is opened, `-R` queues only a reboot, and each file option names an image. `Given` is which images `main` goes on to write; the environment is written only when both `-e` and `-B` are given.
- `Start`, `Update`, `Return` and `EnvTail` are `main`, `update_spi`, `update_nand_raw` and `update_env`. `EnvTail` keeps the dropped results of `wfb_set_env`/`wfb_save_env`.
- `NandInfo` and `MaxDownload` are `update_nand_yaffs2`. They parse the bootloader's answers with `strstr`/`strtol` on real strings.
- `Sparse` is `update_nand_sparse`'s `fread` loop.

**The bootloader.** It is not under `src/` and may fail any exchange. A failed download leaves its buffer as it was, and "flash:" writes whatever the buffer holds.

**Bounds.** Yaffs2 image sizes are 16512, 24768 and 33024 bytes against a 16512-byte maximum. These give:
- an image that fits one download;
- a full chunk plus a short tail;
- exactly two full chunks.

One bootloader answer is malformed, and one download size is misaligned.

## Runs

| Run | Expect | What it shows |
|---|---|---|
| `volume_safety` | pass | Every behaviour satisfies the following. `TypeOK`. `NoTransientStateAtRest`: after a command returns, no volume is Checking, Formatting or Unmounting. `MountedIsPublished`: Mounted implies a filesystem on the mount point. `DecryptedNodeMounted`: a remapped volume records only the dm node. `CommandsComplete`: every command returns. About 87,000 distinct states. |
| `pure_helpers` | pass | <ul><li>`MoveFollowsPolicy`, `UnmountFollowsPolicy`: the two retry loops agree with the spec's policy on every input. In particular, five busy moves with force give exactly SIGHUP then SIGKILL, and an ENOENT first gives immediate success with no signal.</li><li>`SparseStreamDelivered`: without a failed transfer the sparse download succeeds, and whenever it succeeds the bootloader received the file's bytes in order, none lost or repeated.</li><li>`SparseWriterInBounds`: the writer never takes its "internal error" return, never copies past `usb_buf`, and every transfer but the last is a whole number of buffers.</li><li>`RequirementsGuardWrites`: the bootloader carries out no erase or flash that a require/reject queued before it does not allow. This is judged by a reference reading of the check, written apart from `match`/`cb_check`, whichever exchange fails.</li><li>`CompletedQueueTookEffect`: `fb_execute_queue` returns 0 only when every check held, every erase and flash was carried out by its own action with the bytes downloaded just before it, and every format without skip flashed an image.</li></ul> 36,116 distinct states. |
| `kdev_mounted` | violation | The spec's "Mounted iff a device is recorded" fails. `out_nomedia` keeps the device (`Volume.cpp:808`), and the idle-but-mounted fix at `Volume.cpp:431` sets Mounted without one. |
| `asec_cross_volume` | violation | Unmounting the USB disk unmounts the sdcard's `/mnt/secure/asec` (`Volume.cpp:745`). |
| `bind_leak` | violation | When the tmpfs mount fails, the bind is left in place, because the cleanup umounts `/mnt/asec_secure` (`Volume.cpp:654`). |
| `extra_slot_overflow` | violation | With the table full, `mountExtraPartition` writes at index `EXTRA_UDISK_NUM` (`Volume.cpp:345-377`). |
| `revert_stacked_mount` | violation | The sequence takes four steps: <ol><li>The staging umount result is ignored (`Volume.cpp:574`).</li><li>`fail_republish` moves that stale staging mount onto the mount point.</li><li>The mount point now holds two stacked mounts.</li><li>The next unmount reverts dm-crypt while a filesystem is still mounted.</li></ol> |
| `property_service` | pass | <ul><li>`ReadsNeverTorn`: a reader of the property area never returns a half-written value, however its copy interleaves with `update_prop_info`.</li><li>`DefaultsNeverStored`: a `persist.*` default from `build.prop` or `default.prop` that no one chose never reaches `/data/property`, across a reboot between the write and the rename. This is the guard at `property_service.c:413`.</li><li>`BootCompletes`: loading reaches the socket after every boot, and a `load_persist_props` reload finishes unless the device reboots.</li></ul> 336,219 distinct states, about 1.2 minutes with coverage. |
| `netlink_host_index` | violation | A uevent for USB host 5 makes `path2host` return -1, and `process_usb_event` writes `max_power[-1]` (`NetlinkHandler.cpp:124`). A path without "usb" dereferences address 3 (line 55). |
| `su_eof_grant` | violation | When SuService closes the connection, `read` returns 0 and su tests the uninitialised `str[0]` against 'y' (`su.c:113`). It may switch uid with nobody's approval. |
| `fastboot_queue` | pass | Against a bootloader that may fail any exchange: <ul><li>`FlashWritesItsOwnImage`: a partition is never flashed with the previous image left in the download buffer.</li><li>`NoStaleActions`: no action of an earlier `wfb_*` call is replayed, even after the ignored `wfb_set_env` failure.</li><li>`ImageFullyWritten`: a yaffs2 image the updater reports written was sent whole, chunk after chunk.</li><li>`SparseClosedAtExit`: the updater never exits with the bootloader in sparse-download mode.</li><li>`FlashedOnlyAsked`: only partitions whose image was named on the command line are written, and nothing at all after `-h`, `-L` or `-R`.</li></ul> 915 distinct states. |
| `mount_after_removal` | violation | `Volume` does not refine `VolumeLifecycle`. A remove event between `mountVol`'s re-check (`Volume.cpp:541`) and `doMoveMount` (line 572) is overwritten by `setState(State_Mounted)`, so a removed medium is published. The counterexample takes 7 steps. With that window closed, the refinement holds over all 87,006 states. |

Each property of a passing run has a mutant in `PROJECT.json`. The mutant is a plausible coding error of a mapped definition, defined just before it in the same module, and TLC finds the property violated when it is substituted. For example:
- the download branch of `fb_execute_queue` loses its `break`;
- `fb_free_list` runs only on success;
- the short tail chunk is not sent;
- a failed chunk jumps past `wfb_sparse_end`;
- `update_prop_info` skips the odd serial;
- the persist write-back happens before loading.

### Fairness

`Spec` assumes weak fairness of each volume's command-thread continuation, `CommandStep(v)`. The command thread never waits on anything but bounded retries and sleeps, so once a command has started, its next step stays enabled until it returns. Hot-plug events get no fairness: a disk may never be inserted or removed.

Deadlock is not checked in any run, and each program really stops:
- vold waits for its next command;
- init has served its bounded requests;
- the updater and su exit.

For vold: once the bounded run has issued `MaxCommands` commands, vold simply waits for the next one. A command thread that hangs would be caught by `CommandsComplete` instead.

`PropertyService.Spec` makes init's own steps weakly fair, because init runs them to completion. Clients and readers get no fairness. `FastbootQueue` and `Su` check only safety, so they assume no fairness.

## Not modelled, and why

- **DirectVolume/VolumeManager (outside `src/`).** Only their state changes are modelled, and only from the spec. The retried `mountVol` that DirectVolume runs on the netlink thread is not modelled.
- **Messages and layout.** Broadcast texts, SLOG calls and the autorun rename carry no state the controller reads.
- **`initializeMbr` and `Fat::format`.** These change only `formatVol`'s return value.
- **Parts of the fastboot engine.** `fb_format_supported` returns a boolean that no caller under `src/` uses. `queue_action`'s `die()` on a command of 64 characters or more is left out, because commands are abstracted to a verb and an argument. `make_ext4fs` is outside `src/`; it is taken to build an image exactly when the partition size is positive. libsparse is also outside `src/`: its callback is taken to deliver the file under any cutting into chunks. Messages and timings are left out.
- **Bytes of images.** They are offsets and lengths. So the oob-size mismatch of `update_nand_yaffs2` is listed as a hazard but not checked. That mismatch is alignment to the device's `oobsize` while `convyaffs2img` uses 64.
- **The `-L` device listing and usage text.** `getopt` is modelled; the listing and the text change no state.
- **The random `ethaddr`.** `main` formats it with `%02x` from `rand() % 0xFFFF` stored in `unsigned short`s and shifted right by 16. Every shift yields 0, so three of the six fields are always `00` and the others print up to four hex digits. Nothing reads the value back, so it is noted here and not modelled.
- **SELinux and `property_load_boot_defaults`.** The `HAVE_SELINUX` paths are not built for this platform. `property_load_boot_defaults` is called from `init.c`, which is not under `src/`.
- **The `net.change` comment.** The comment says `net.change` holds the last `net.*` value. That fails only once the area is full (`PA_COUNT_MAX = 247`, 8 in the model). It is listed as a hazard, and no run states it.
- **Bionic's reader and SuService.** They are not under `src/`. The reader follows the seqlock protocol. SuService may answer anything.

## Observations

- **`local.prop` replaces a stored `persist.*` value.** `load_persist_props` runs after `persistent_properties_loaded` is already 1. So a `persist.*` line of `/data/local.prop` is written through to `/data/property` on a debuggable build, and the user's stored value is lost. The comment at `property_service.c:415` keeps defaults from overwriting stored values; `local.prop` is an override file, so this may be intended. The comment at line 626 counts `local.prop` among the defaults loaded first, so the code contradicts it here. The run reaches this path: `ptp` replaces the stored `adb`. `DefaultsNeverStored` states only the `build.prop`/`default.prop` half of the rule, which the code keeps. Its table `UnchosenDefaults` leaves out `local.prop` values (`LocalValues`).
- **The reload rewrites every persist file.** For the same reason, `load_persist_props` sets each persist file's own value again and writes it back. With the ignored `write()` result, a short write at that point truncates a value that was already safely stored.

## Plan for the next sittings

1. Close the gap between `mountVol`'s re-check and `doMoveMount` in a model of the retried mount (`mRetryMount`, `Volume.cpp:424`). DirectVolume's retry is not under `src/` and would be modelled from the spec.
2. Add a liveness property for the updater: it reaches END once the device is open. This needs `batch` and the bootloader's write log to be bounded first, so that a looping mutant shows up as a repeating state.
3. Model the hot-plug delivery of DirectVolume from the spec. The engine's `queue_action` could also get command lengths, to check the 64-character `die()`.
