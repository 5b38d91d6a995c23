-------------------------------- MODULE MC_Su --------------------------------
(* str[0] is one of two bytes: 'y' or anything else. *)
EXTENDS Su
MCBytes == {"y", "n"}
MCAnswers == MCBytes \cup {"EOF", "EIO"}
====
