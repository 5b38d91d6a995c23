------------------------ MODULE MC_PropertyService -------------------------
(* A device whose build.prop enables the modem and names a net.* property, *)
(* whose default.prop overrides ro.secure and carries a persist.* default, *)
(* and whose /data/property holds a user's choice for that same property.  *)
EXTENDS PropertyService

CONSTANTS NoValueV, TornV, NoFileV

MCBuildProp == <<"ro.secure=1", "# build properties", "ril.modem.enable = 1",
                 "net.bt.name=Android">>
MCDefaultProp == <<"ro.secure=0", "ro.product.model", "persist.sys.usb.config=mtp",
                   "ro.debuggable=1">>
MCLocalProp == <<"persist.sys.usb.config=ptp">>
MCInitDisk == [n \in {"persist.sys.usb.config", "persist.wmt.app2sd.enable",
                      "persist.wmt.maindev"} |->
                 CASE n = "persist.sys.usb.config" -> "adb"
                   [] n = "persist.wmt.app2sd.enable" -> "true"
                   [] OTHER -> NoFileV]
MCRequests ==
    {[uid |-> AID.SYSTEM, gid |-> 0, name |-> "persist.sys.usb.config", value |-> "rndis"],
     [uid |-> AID.RADIO, gid |-> AID.RADIO, name |-> "net.dns1", value |-> "8.8"],
     [uid |-> AID.SHELL, gid |-> AID.LOG, name |-> "ctl.start", value |-> "dumpstate"],
     [uid |-> 10001, gid |-> 10001, name |-> "ro.secure", value |-> "0"]}
MCNames == {"ro.secure", "ro.debuggable", "ril.modem.enable", "net.bt.name", "net.change",
            "persist.sys.usb.config", "persist.wmt.app2sd.enable",
            "persist.wmt.maindev", "ril.modem.type", "ril.modem.type2", "net.dns1"}
====
