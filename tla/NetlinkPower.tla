---------------------------- MODULE NetlinkPower ----------------------------
(***************************************************************************)
(* vold's netlink thread, NetlinkHandler::onEvent (src/vold/               *)
(* NetlinkHandler.cpp): every uevent under /devices/pci0000:00 updates the  *)
(* per-host USB power table max_power[5] from the device's bMaxPower, and   *)
(* block events go on to VolumeManager (modelled in Volume.tla).           *)
(* DEVPATHs are real strings; path2host and path2power are evaluated on    *)
(* them.                                                                   *)
(***************************************************************************)
EXTENDS Integers, Sequences

CONSTANTS
    Events,      \* uevents the kernel may send: [path, action, subsys]
    BMaxPower,   \* /sys<prefix>/bMaxPower contents, by prefix
    MaxEvents    \* bound on the uevents delivered

EXAMPLE_PATH == "/devices/pci0000:00/0000:00:04.0/usb1/1-1"
Hosts == 0..4
Digits == "0123456789"

\* the first index at which s contains p, or 0 (strstr)
StrStr(s, p) ==
    LET at == {i \in 1..(Len(s) - Len(p) + 1) : SubSeq(s, i, i + Len(p) - 1) = p}
    IN IF at = {} THEN 0 ELSE CHOOSE i \in at : \A j \in at : i <= j

(***************************************************************************)
(* path2host: p = strstr(path, "usb"); p += 3; the NULL test comes after   *)
(* the increment, so a path without "usb" dereferences address 3.  The     *)
(* result is the next character minus '0' if that is 0..4, else -1.        *)
(***************************************************************************)
Segv == "SIGSEGV"
ReadsAddress3(path) == StrStr(path, "usb") = 0
path2host(path) ==
    LET u == StrStr(path, "usb")
        d == {k \in Hosts : SubSeq(Digits, k + 1, k + 1) = SubSeq(path, u + 3, u + 3)}
    IN IF d # {} THEN CHOOSE k \in d : TRUE ELSE -1

\* path2power: the first strlen(EXAMPLE_PATH) characters name the device;
\* fopen failing gives -1.
path2power(path) ==
    LET pre == SubSeq(path, 1, IF Len(path) < Len(EXAMPLE_PATH) THEN Len(path)
                                ELSE Len(EXAMPLE_PATH))
    IN IF pre \in DOMAIN BMaxPower THEN BMaxPower[pre] ELSE -1

VARIABLES
    max_power,   \* int max_power[5]
    fault,       \* "none", or the memory error the last event caused
    events       \* uevents delivered so far
vars == <<max_power, fault, events>>

Init == max_power = [h \in Hosts |-> 0] /\ fault = "none" /\ events = 0

\* max_power[host] = x; with host outside 0..4 the access (the compare before
\* it already) is outside the array
Store(host, x) ==
    IF host \in Hosts THEN max_power' = [max_power EXCEPT ![host] = x] /\ UNCHANGED fault
    ELSE fault' = "max_power[-1]" /\ UNCHANGED max_power

\* process_usb_event; send2batterycal only sums the table (its report call
\* is commented out), so it changes nothing.
ProcessUsbEvent(path, action) ==
    LET host == path2host(path)
        power == path2power(path)
    IN CASE ReadsAddress3(path) -> fault' = Segv /\ UNCHANGED max_power
         [] host \notin Hosts /\ (action = "remove" \/ (action = "add" /\ power > 0)) ->
              Store(host, IF action = "add" THEN power ELSE 0)
         [] action = "add" /\ power > 0 /\ max_power[host] # power -> Store(host, power)
         [] action = "remove" /\ max_power[host] # 0 -> Store(host, 0)
         [] OTHER -> UNCHANGED <<max_power, fault>>

\* onEvent: DEVPATH under /devices/pci0000:00 goes to process_usb_event;
\* a block event is then handed to VolumeManager::handleBlockEvent.
OnEvent ==
    /\ fault # Segv /\ events < MaxEvents
    /\ \E e \in Events :
          IF StrStr(e.path, "/devices/pci0000:00") # 0
          THEN ProcessUsbEvent(e.path, e.action)
          ELSE UNCHANGED <<max_power, fault>>
    /\ events' = events + 1

Next == OnEvent
Spec == Init /\ [][Next]_vars

\* The comment on max_power ("0~4 or 1~4") and path2host's range check:
\* the netlink thread only ever indexes max_power[0..4] and never
\* dereferences an invalid pointer, whatever DEVPATH the kernel sends.
MaxPowerIndexed == fault = "none"
====
