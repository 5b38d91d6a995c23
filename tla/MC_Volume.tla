----------------------------- MODULE MC_Volume -----------------------------
(***************************************************************************)
(* Instance of Volume for TLC: an encryptable primary sdcard and a         *)
(* removable USB disk whose whole-disk node (minor 255) comes first,      *)
(* followed by two FAT partitions, so that the second one becomes an extra *)
(* partition.                                                              *)
(***************************************************************************)
EXTENDS Volume

CONSTANTS sd, usb, nSd, nSdDm, nWhole, nP1, nP2

MCNodes == {nSd, nSdDm, nWhole, nP1, nP2}
MCWholeDisk == {nWhole}

(* getDeviceNodes of the sdcard: one partition, or two (the crypto path    *)
(* refuses them); of the USB disk: nothing yet, or whole disk + 2 parts.   *)
MCNodeLists == [v \in {sd, usb} |->
                  IF v = sd THEN {<<nSd>>, <<nSd, nP1>>}
                  ELSE {<<>>, <<nWhole, nP1, nP2>>}]

MCMapped == [v \in {sd, usb} |-> IF v = sd THEN nSdDm ELSE nP1]
=============================================================================
