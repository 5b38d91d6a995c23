-------------------------- MODULE PropertyService --------------------------
(***************************************************************************)
(* init's property service (src/core/init/property_service.c): the shared *)
(* property area written by property_set, the boot-time loading order of  *)
(* build.prop, default.prop and /data/property, write-back of persist.*   *)
(* through a temp file and rename, the client handler, and the serial     *)
(* seqlock that lets other processes read the area while init writes it. *)
(* Names and values are real strings: the permission table and the       *)
(* prefix tests are evaluated on them.                                    *)
(***************************************************************************)
EXTENDS Integers, SequencesExt

CONSTANTS
    Names,          \* every property name that can be set in the instance
    NoValue,        \* __system_property_find found nothing
    Torn,           \* the value bytes while memcpy is half done
    NoFile,         \* no file of that name in /data/property
    PaCountMax,     \* PA_COUNT_MAX, the capacity of the area
    BuildProp,      \* lines of /system/build.prop
    DefaultProp,    \* lines of /system/default.prop
    LocalProp,      \* lines of /data/local.prop
    AllowLocalOverride, \* whether init was built with ALLOW_LOCAL_PROP_OVERRIDE
    InitDisk,       \* /data/property at first boot: persist name -> value
    Requests,       \* [uid, gid, name, value] messages clients may send
    MainDevParas,   \* what wmt_getsyspara("wmt.main.externaldev") yields
    ModemFiles,     \* contents of /etc/ppp/ril.modem.type (NoFile if none)
    ReadNames,      \* the names the reading client looks up
    MaxRequests,    \* bound on client connections over all boots
    MaxBoots        \* bound on power losses / reboots

PROP_NAME_MAX == 32
PROP_VALUE_MAX == 92
Prefix(p, s) == Len(p) <= Len(s) /\ SubSeq(s, 1, Len(p)) = p
HasSubstring(s, p) == \E i \in 1..(Len(s) - Len(p) + 1) : SubSeq(s, i, i + Len(p) - 1) = p
PersistNames == {n \in Names : Prefix("persist.", n)}

\* android_filesystem_config.h
AID == [ROOT |-> 0, SYSTEM |-> 1000, RADIO |-> 1001, BLUETOOTH |-> 1002,
        GRAPHICS |-> 1003, LOG |-> 1007, MEDIA |-> 1013, DHCP |-> 1014,
        SHELL |-> 2000]

\* property_perms[]: every gid is 0, so only the uid matters
property_perms == <<
  <<"net.rmnet0.", AID.RADIO>>, <<"net.gprs.", AID.RADIO>>, <<"net.ppp", AID.RADIO>>,
  <<"net.qmi", AID.RADIO>>, <<"net.lte", AID.RADIO>>, <<"net.cdma", AID.RADIO>>,
  <<"ril.", AID.RADIO>>, <<"gsm.", AID.RADIO>>, <<"persist.radio", AID.RADIO>>,
  <<"net.dns", AID.RADIO>>, <<"sys.usb.config", AID.RADIO>>, <<"net.", AID.SYSTEM>>,
  <<"dev.", AID.SYSTEM>>, <<"runtime.", AID.SYSTEM>>, <<"hw.", AID.SYSTEM>>,
  <<"sys.", AID.SYSTEM>>, <<"service.", AID.SYSTEM>>, <<"wlan.", AID.SYSTEM>>,
  <<"bluetooth.", AID.BLUETOOTH>>, <<"dhcp.", AID.SYSTEM>>, <<"dhcp.", AID.DHCP>>,
  <<"debug.", AID.SYSTEM>>, <<"debug.", AID.SHELL>>, <<"log.", AID.SHELL>>,
  <<"service.adb.root", AID.SHELL>>, <<"service.adb.tcp.port", AID.SHELL>>,
  <<"persist.sys.", AID.SYSTEM>>, <<"persist.service.", AID.SYSTEM>>,
  <<"persist.security.", AID.SYSTEM>>, <<"persist.service.bdroid.", AID.BLUETOOTH>>,
  <<"persist.mtk.wcn.combo.", AID.SYSTEM>>, <<"selinux.", AID.SYSTEM>>,
  <<"service.bootanim.exit", AID.GRAPHICS>>, <<"wmt.video.playing", AID.MEDIA>>,
  <<"msensor.memsicd", AID.SYSTEM>> >>
control_perms == {<<"dumpstate", AID.SHELL, AID.LOG>>, <<"ril-daemon", AID.RADIO, AID.RADIO>>}

\* check_mac_perms returns 1: SELinux is not enforcing on this platform.
check_perms(name, uid, gid) ==
    LET n == IF Prefix("ro.", name) THEN SubSeq(name, 4, Len(name)) ELSE name
    IN \/ uid = 0
       \/ Prefix("wmt.", n) \/ HasSubstring(n, ".wmt.")
       \/ \E i \in DOMAIN property_perms :
             Prefix(property_perms[i][1], n) /\ uid # 0 /\ property_perms[i][2] = uid

check_control_perms(name, uid, gid) ==
    \/ uid \in {AID.SYSTEM, AID.ROOT}
    \/ \E p \in control_perms :
          p[1] = name /\ ((uid # 0 /\ p[2] = uid) \/ (gid # 0 /\ p[3] = gid))

\* msg.name[PROP_NAME_MAX-1] = 0 and msg.value[PROP_VALUE_MAX-1] = 0
Truncate(s, max) == IF Len(s) >= max THEN SubSeq(s, 1, max - 1) ELSE s

\* load_properties: split at the first '=', trim, skip comments.
Space == {" ", "\t", "\r"}
RECURSIVE TrimLeft(_)
TrimLeft(s) == IF s # "" /\ SubSeq(s, 1, 1) \in Space
               THEN TrimLeft(SubSeq(s, 2, Len(s))) ELSE s
\* the trailing-space loops stop before the first character (tmp > key)
RECURSIVE TrimRight(_)
TrimRight(s) == IF Len(s) > 1 /\ SubSeq(s, Len(s), Len(s)) \in Space
                THEN TrimRight(SubSeq(s, 1, Len(s) - 1)) ELSE s
ParseLine(l) ==
    LET eq == {i \in 1..Len(l) : SubSeq(l, i, i) = "="}
        at == CHOOSE i \in eq : \A j \in eq : i <= j
        key == TrimRight(TrimLeft(SubSeq(l, 1, at - 1)))
        val == TrimRight(TrimLeft(SubSeq(l, at + 1, Len(l))))
    IN IF eq = {} \/ Prefix("#", key) THEN <<>> ELSE <<key, val>>

\* update_prop_info's serial: (len << 24) | ((serial + 1) & 0xffffff)
SerialDirtyDropped(s) == s
\* the fields do not overlap, so | is + and & 0xffffff is % 2^24
SerialDirty(s) == IF s % 2 = 0 THEN s + 1 ELSE s
SerialDone(s, len) == len * 2^24 + ((s + 1) % 2^24)

VARIABLES
    value,    \* pi->value per name; NoValue if not in the toc
    serial,   \* pi->serial per name
    count,    \* pa->count
    disk,     \* /data/property/<name> contents
    temp,     \* /data/property/.temp contents
    loaded,   \* persistent_properties_loaded
    phase,    \* where start_property_service or load_persist_props is,
              \* or "serve"/"reloaded" while serving, "down" with no socket
    todo,     \* lines of the current file, or persist files not yet read
    pend,     \* the property_set in progress
    rd,       \* a client process in __system_property_read
    started,  \* services handle_control_message was asked to run
    reqs, boots
vars == <<value, serial, count, disk, temp, loaded, phase, todo, pend, rd,
          started, reqs, boots>>

NoSet == [st |-> "none", name |-> "", val |-> ""]
Idle == pend = NoSet
Call(n, v) == pend' = [st |-> "begin", name |-> n, val |-> v]
NoRead == [st |-> "idle", name |-> "", s |-> 0, val |-> NoValue]

\* init_property_area and the start of a boot; /data/property survives
Init ==
    /\ value = [n \in Names |-> NoValue] /\ serial = [n \in Names |-> 0]
    /\ count = 0 /\ disk = InitDisk /\ temp = NoFile /\ loaded = FALSE
    /\ phase = "build" /\ todo = BuildProp /\ pend = NoSet /\ rd = NoRead
    /\ started = {} /\ reqs = 0 /\ boots = 0

(***************************************************************************)
(* property_set(name, value), one step per stretch the other processes    *)
(* can observe: the checks and the toc insert or the dirty mark, the      *)
(* memcpy and the new serial, the net.change / persist.* tail, and the    *)
(* two steps of write_persistent_property.                                *)
(***************************************************************************)
\* pa->count == PA_COUNT_MAX
IsFullOffByOne(c) == c > PaCountMax
IsFull(c) == c = PaCountMax
\* the tail's two conditions: not net.change itself; persist.* once loaded
NotifiesNetChange(n) == n # "net.change"
WritesBackEarly(n) == Prefix("persist.", n)
WritesBack(n) == loaded /\ Prefix("persist.", n)

Goto(st) == pend' = [pend EXCEPT !.st = st]
setKeeps == <<loaded, phase, todo, rd, started, reqs, boots>>
Done == pend' = NoSet

SetBegin ==
    LET n == pend.name  v == pend.val IN
    /\ pend.st = "begin"
    /\ \/ /\ \/ Len(n) >= PROP_NAME_MAX \/ Len(v) >= PROP_VALUE_MAX \/ Len(n) < 1
             \/ value[n] # NoValue /\ Prefix("ro.", n)
                /\ n \notin {"ro.secure", "ro.debuggable"}
             \/ value[n] = NoValue /\ IsFull(count)
          /\ Done /\ UNCHANGED <<value, serial, count>>
       \/ /\ Len(n) \in 1..PROP_NAME_MAX - 1 /\ Len(v) < PROP_VALUE_MAX
          /\ value[n] # NoValue
          /\ ~Prefix("ro.", n) \/ n \in {"ro.secure", "ro.debuggable"}
          /\ serial' = [serial EXCEPT ![n] = SerialDirty(@)]
          /\ value' = [value EXCEPT ![n] = Torn]
          /\ Goto("copy") /\ UNCHANGED count
       \/ /\ Len(n) \in 1..PROP_NAME_MAX - 1 /\ Len(v) < PROP_VALUE_MAX
          /\ value[n] = NoValue /\ ~IsFull(count)
          /\ serial' = [serial EXCEPT ![n] = Len(v) * 2^24]
          /\ value' = [value EXCEPT ![n] = v]
          /\ count' = count + 1
          /\ Goto("tail")
    /\ UNCHANGED <<disk, temp>> /\ UNCHANGED setKeeps

SetCopy ==
    /\ pend.st = "copy"
    /\ value' = [value EXCEPT ![pend.name] = pend.val]
    /\ serial' = [serial EXCEPT ![pend.name] = SerialDone(@, Len(pend.val))]
    /\ Goto("tail")
    /\ UNCHANGED <<count, disk, temp>> /\ UNCHANGED setKeeps

SetTail ==
    LET n == pend.name IN
    /\ pend.st = "tail"
    /\ \/ Prefix("net.", n) /\ ~NotifiesNetChange(n) /\ Done
       \/ Prefix("net.", n) /\ NotifiesNetChange(n)
          /\ Call("net.change", n)
       \/ ~Prefix("net.", n) /\ WritesBack(n) /\ Goto("persist")
       \/ ~Prefix("net.", n) /\ ~WritesBack(n) /\ Done
    /\ UNCHANGED <<value, serial, count, disk, temp>> /\ UNCHANGED setKeeps

\* open(.temp, O_TRUNC) may fail; write()'s result is ignored, so any
\* prefix of the value may be all that reached the file.  No property
\* tells two proper prefixes apart, so a short write is represented by
\* the empty one (ENOSPC before the first byte).
PersistWrite ==
    /\ pend.st = "persist"
    /\ \/ Done /\ UNCHANGED temp
       \/ \E k \in {0, Len(pend.val)} : temp' = SubSeq(pend.val, 1, k)
          /\ Goto("rename")
    /\ UNCHANGED <<value, serial, count, disk>> /\ UNCHANGED setKeeps

PersistRename ==
    /\ pend.st = "rename"
    /\ \/ temp' = NoFile /\ UNCHANGED disk
       \/ disk' = [disk EXCEPT ![pend.name] = temp] /\ temp' = NoFile
    /\ Done
    /\ UNCHANGED <<value, serial, count>> /\ UNCHANGED setKeeps

PropertySetStep == SetBegin \/ SetCopy \/ SetTail \/ PersistWrite \/ PersistRename

(***************************************************************************)
(* start_property_service, one step per file line, persist file or block, *)
(* each waiting for the property_set it calls to return.                 *)
(***************************************************************************)
bootKeeps == <<value, serial, count, disk, temp, started, reqs, boots, rd>>

\* property_get: names of PROP_NAME_MAX or more characters are never found
property_get(n) == IF Len(n) >= PROP_NAME_MAX THEN NoValue ELSE value[n]

\* load_override_properties: /data/local.prop, on a debuggable build only
OverrideLines ==
    IF AllowLocalOverride /\ property_get("ro.debuggable") = "1" THEN LocalProp ELSE <<>>
PersistFiles == SetToSeq({n \in PersistNames : disk[n] # NoFile})

\* sol = eol: the cursor moves to the next line before the line is examined
AdvanceAfterChecks(t, kv) == IF kv = <<>> THEN t ELSE Tail(t)
Advance(t, kv) == Tail(t)

\* load_properties_from_file: one line of the file
LoadLine ==
    /\ phase \in {"build", "default", "local", "relocal"} /\ Idle /\ todo # <<>>
    /\ LET kv == ParseLine(Head(todo)) IN
          /\ IF kv = <<>> THEN UNCHANGED pend ELSE Call(kv[1], kv[2])
          /\ todo' = Advance(todo, kv)
    /\ UNCHANGED <<loaded, phase>> /\ UNCHANGED bootKeeps

\* start_property_service: build.prop, default.prop, the override, the
\* persist files; load_persist_props: the override, the persist files
LoadFileDone ==
    /\ phase \in {"build", "default", "local", "relocal"} /\ Idle /\ todo = <<>>
    /\ CASE phase = "build" -> phase' = "default" /\ todo' = DefaultProp
         [] phase = "default" -> phase' = "local" /\ todo' = OverrideLines
         [] phase = "local" -> phase' = "persist" /\ todo' = PersistFiles
         [] OTHER -> phase' = "repersist" /\ todo' = PersistFiles
    /\ UNCHANGED <<loaded, pend>> /\ UNCHANGED bootKeeps

\* load_persistent_properties: one file per readdir entry; open/read may
\* fail; the value is read into a PROP_VALUE_MAX buffer.  Each file sets
\* only its own name, so the files are taken in one readdir order.
LoadPersistFile ==
    /\ phase \in {"persist", "repersist"} /\ Idle /\ todo # <<>>
    /\ todo' = Tail(todo)
    /\ \/ UNCHANGED pend
       \/ Call(Head(todo), Truncate(disk[Head(todo)], PROP_VALUE_MAX))
    /\ UNCHANGED <<loaded, phase>> /\ UNCHANGED bootKeeps

LoadPersistDone ==
    /\ phase \in {"persist", "repersist"} /\ Idle /\ todo = <<>>
    /\ loaded' = TRUE /\ phase' = IF phase = "persist" THEN "maindev" ELSE "reloaded"
    /\ UNCHANGED <<todo, pend>> /\ UNCHANGED bootKeeps

MAIN_DEV_PROP_NAME == "persist.wmt.maindev"

\* persist.wmt.maindev follows wmt.main.externaldev when app2sd is enabled
MainDev ==
    LET external == property_get(MAIN_DEV_PROP_NAME)
        enabled == property_get("persist.wmt.app2sd.enable")
    IN /\ phase = "maindev" /\ Idle
       /\ IF enabled = "true"
          THEN \E maindev \in MainDevParas :
                 IF maindev = "sdcard"
                 THEN IF external = NoValue \/ external # "1"
                      THEN Call(MAIN_DEV_PROP_NAME, "1") ELSE UNCHANGED pend
                 ELSE IF Len(maindev) <= 0 \/ external = NoValue \/ external # "0"
                      THEN Call(MAIN_DEV_PROP_NAME, "0") ELSE UNCHANGED pend
          ELSE UNCHANGED pend
       /\ phase' = "ril.modem.type"
       /\ UNCHANGED <<loaded, todo>> /\ UNCHANGED bootKeeps

Digits == "0123456789"
RECURSIVE Atoi(_, _)
Atoi(s, acc) ==
    IF s # "" /\ \E d \in 1..10 : SubSeq(Digits, d, d) = SubSeq(s, 1, 1)
    THEN Atoi(SubSeq(s, 2, Len(s)),
              acc * 10 + (CHOOSE d \in 0..9 : SubSeq(Digits, d + 1, d + 1) = SubSeq(s, 1, 1)))
    ELSE acc

\* fread(modemType, 7, 1, fp), then the last character is cut off
ModemType(c) ==
    LET r == SubSeq(c, 1, IF Len(c) < 7 THEN Len(c) ELSE 7) IN SubSeq(r, 1, Len(r) - 1)

\* ril.modem.type and then ril.modem.type2 from /etc/ppp, if ril.modem.enable is 1
RilModem ==
    LET enable == property_get("ril.modem.enable") IN
    /\ phase \in {"ril.modem.type", "ril.modem.type2"} /\ Idle
    /\ IF enable # NoValue /\ Atoi(TrimLeft(enable), 0) = 1
       THEN \E f \in ModemFiles :
              IF f # NoFile /\ Len(f) > 0 THEN Call(phase, ModemType(f)) ELSE UNCHANGED pend
       ELSE UNCHANGED pend
    /\ phase' = IF phase = "ril.modem.type" /\ enable # NoValue /\ Atoi(TrimLeft(enable), 0) = 1
                THEN "ril.modem.type2" ELSE "socket"
    /\ UNCHANGED <<loaded, todo>> /\ UNCHANGED bootKeeps

\* create_socket(PROP_SERVICE_NAME) may fail, and then nothing is served
CreateSocket ==
    /\ phase = "socket" /\ Idle
    /\ phase' \in {"serve", "down"}
    /\ UNCHANGED <<loaded, todo, pend>> /\ UNCHANGED bootKeeps

\* load_persist_props: vold, having mounted /data, has init load the
\* override and the persist files again, once
LoadPersistProps ==
    /\ phase = "serve" /\ Idle
    /\ phase' = "relocal" /\ todo' = OverrideLines
    /\ UNCHANGED <<loaded, pend>> /\ UNCHANGED bootKeeps

(***************************************************************************)
(* handle_property_set_fd: one connection from a client.                  *)
(***************************************************************************)
HandlePropertySetFd ==
    /\ phase \in {"serve", "reloaded"} /\ Idle /\ reqs < MaxRequests
    /\ reqs' = reqs + 1
    /\ \E r \in Requests :
        LET name == Truncate(r.name, PROP_NAME_MAX)
            val == Truncate(r.value, PROP_VALUE_MAX)
        IN \/ UNCHANGED <<pend, started>>     \* accept, getsockopt or recv failed
           \/ /\ Prefix("ctl.", name)
              /\ IF check_control_perms(val, r.uid, r.gid)
                 THEN started' = started \cup {<<SubSeq(name, 5, Len(name)), val>>}
                 ELSE UNCHANGED started
              /\ UNCHANGED pend
           \/ /\ ~Prefix("ctl.", name)
              /\ IF check_perms(name, r.uid, r.gid) THEN Call(name, val) ELSE UNCHANGED pend
              /\ UNCHANGED started
    /\ UNCHANGED <<value, serial, count, disk, temp, loaded, phase, todo, rd,
                   boots>>

(***************************************************************************)
(* A client process running bionic's __system_property_read on one name, *)
(* in its three steps: it reads the serial, waiting while it is odd; it   *)
(* copies the value; it re-reads the serial and starts again if it       *)
(* changed.  A writer may run between any two of them.  The client is   *)
(* started once init serves the socket and begins its read while init   *)
(* waits in its loop (its later steps interleave with any write); it    *)
(* reads once per boot.                                                  *)
(***************************************************************************)
\* The bytes the reader copied, told apart only by whether they are torn
Copied(v) == IF v = Torn THEN Torn ELSE "whole"
readKeeps == <<value, serial, count, disk, temp, loaded, phase, todo, pend,
               started, reqs, boots>>

ReadSerial(n) ==
    /\ phase \in {"serve", "reloaded"} /\ rd.st = "idle" /\ value[n] # NoValue /\ serial[n] % 2 = 0
    /\ rd' = [NoRead EXCEPT !.st = "started", !.name = n, !.s = serial[n]]
    /\ UNCHANGED readKeeps

ReadCopy ==
    /\ rd.st = "started"
    /\ rd' = [rd EXCEPT !.st = "copied", !.val = Copied(value[rd.name])]
    /\ UNCHANGED readKeeps

ReadCheck ==
    /\ rd.st = "copied"
    /\ rd' = IF serial[rd.name] = rd.s THEN [NoRead EXCEPT !.st = "done", !.val = rd.val]
             ELSE NoRead
    /\ UNCHANGED readKeeps

\* Power loss or reboot at any point: the area and init's statics are gone,
\* /data/property is kept.  A stray .temp is overwritten (O_TRUNC) by the
\* next write-back before it is renamed, so the model drops it.
Reboot ==
    /\ boots < MaxBoots
    /\ value' = [n \in Names |-> NoValue] /\ serial' = [n \in Names |-> 0]
    /\ count' = 0 /\ loaded' = FALSE /\ phase' = "build" /\ todo' = BuildProp
    /\ pend' = NoSet /\ rd' = NoRead /\ started' = {}
    /\ boots' = boots + 1
    /\ temp' = NoFile /\ UNCHANGED <<disk, reqs>>

InitStep == PropertySetStep \/ LoadLine \/ LoadFileDone \/ LoadPersistFile
            \/ LoadPersistDone \/ MainDev \/ RilModem \/ CreateSocket

Next == InitStep \/ LoadPersistProps \/ HandlePropertySetFd \/ Reboot
        \/ (\E n \in ReadNames : ReadSerial(n)) \/ ReadCopy \/ ReadCheck

\* init runs a single loop that never blocks inside these steps
Spec == Init /\ [][Next]_vars /\ WF_vars(InitStep)

-----------------------------------------------------------------------------
TypeOK ==
    /\ count \in 0..PaCountMax /\ loaded \in BOOLEAN /\ reqs \in 0..MaxRequests
    /\ pend.st \in {"none", "begin", "copy", "tail", "persist", "rename"}
    /\ rd.st \in {"idle", "started", "copied", "done"} /\ boots \in 0..MaxBoots
    /\ Cardinality({n \in Names : value[n] # NoValue}) = count
    /\ \A n \in Names : serial[n] \in Nat

\* The seqlock of update_prop_info (dirty serial, memcpy, new serial) and
\* __system_property_read together: a reader that returns never returns the
\* bytes of a value init was half-way through copying.
ReadsNeverTorn == rd.st = "done" => rd.val # Torn

\* The values the persist.* write-back may store: what the device started
\* with, what a client asked for, what MainDev decides, and a local.prop
\* line (load_persist_props sets it once persistent_properties_loaded is
\* already 1), each possibly cut short by the unchecked write().
LocalValues(n) ==
    {ParseLine(l)[2] : l \in {k \in ToSet(LocalProp) : ParseLine(k) # <<>> /\ ParseLine(k)[1] = n}}
ClientValues(n) ==
    {Truncate(r.value, PROP_VALUE_MAX) :
        r \in {q \in Requests : Truncate(q.name, PROP_NAME_MAX) = n}}
    \cup (IF n = MAIN_DEV_PROP_NAME THEN {"0", "1"} ELSE {})
    \cup (IF AllowLocalOverride THEN LocalValues(n) ELSE {})
Storable(n) ==
    {InitDisk[n]} \cup
    UNION {{SubSeq(v, 1, k) : k \in 0..Len(v)} :
              v \in ClientValues(n) \cup ({InitDisk[n]} \ {NoFile})}
\* The values build.prop and default.prop give a name
FileDefaults(n) ==
    {ParseLine(l)[2] : l \in {k \in ToSet(BuildProp) \cup ToSet(DefaultProp) :
                                ParseLine(k) # <<>> /\ ParseLine(k)[1] = n}}

\* per name, a constant table (the defaults no one chose)
UnchosenDefaults == [n \in PersistNames |-> FileDefaults(n) \ Storable(n)]

\* property_set writes persist.* to /data/property only once
\* persistent_properties_loaded is set (property_service.c 413-419), so a
\* default from build.prop or default.prop that nobody chose never
\* replaces the value the user stored, across reboots and power losses.
\* (local.prop, which the comment at 626 also counts among the defaults,
\* is loaded after the flag is set and does reach the disk: see README.)
DefaultsNeverStored == \A n \in PersistNames : disk[n] \notin UnchosenDefaults[n]

\* start_property_service returns: every file loop moves on, every
\* property_set it makes (with the nested net.change one and the
\* write-back) returns, and init reaches its socket, after every boot;
\* and a load_persist_props that vold asked for runs to its end, unless
\* power is lost first.
BootCompletes ==
    /\ phase = "build" ~> phase \in {"serve", "down"}
    /\ phase = "relocal" ~> phase \in {"reloaded", "build"}

====
