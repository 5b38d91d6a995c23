------------------------- MODULE MC_NetlinkPower ---------------------------
(* Uevents of a board with USB root hubs under /devices/pci0000:00: a     *)
(* device and its interface on usb1, a device on a sixth root hub (usb5), *)
(* and the SATA disk of the same PCI bus.                                 *)
EXTENDS NetlinkPower, TLC

Dev1 == "/devices/pci0000:00/0000:00:04.0/usb1/1-1"
Dev5 == "/devices/pci0000:00/0000:00:06.1/usb5/5-1"
MCEvents ==
    {[path |-> Dev1, action |-> a, subsys |-> "usb"] : a \in {"add", "remove"}}
    \cup {[path |-> Dev1 \o "/1-1:1.0", action |-> "add", subsys |-> "usb"],
          [path |-> Dev5, action |-> "add", subsys |-> "usb"],
          [path |-> "/devices/pci0000:00/0000:00:1f.2/ata1/host0/target0:0:0/0:0:0:0/block/sda",
           action |-> "add", subsys |-> "block"]}
MCBMaxPower == (Dev1 :> 500) @@ (Dev5 :> 100)
====
