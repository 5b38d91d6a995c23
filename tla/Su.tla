-------------------------------- MODULE Su ---------------------------------
(***************************************************************************)
(* The su helper (src/extras/su/su.c): root is granted at once if one of   *)
(* debug.su, debug.su.force, persist.debug.su is "1"; otherwise su asks    *)
(* the SuService daemon over the abstract socket "su-wmt" and reads a      *)
(* one-byte answer.  SuService is not under src/: it may answer 'y' or     *)
(* 'n', close the connection, or fail the read.                            *)
(***************************************************************************)
EXTENDS Integers, Sequences

CONSTANTS
    Bytes,     \* the bytes str[0] may hold, 'y' among them
    Answers    \* what SuService may do: a byte of Bytes, "EOF" or "EIO"

props == <<"debug.su", "debug.su.force", "persist.debug.su">>
PropValues == {"0", "1"}

VARIABLES
    pc,        \* where main is
    prop,      \* property_get results of the three props (default "0")
    str0,      \* char str[20]: str[0], uninitialised until read() fills it
    answer,    \* what SuService did with the request, or "none"
    uidSet     \* setgid/setuid succeeded: the process now runs as the target
vars == <<pc, prop, str0, answer, uidSet>>

Init ==
    /\ pc = "props" /\ prop \in [DOMAIN props -> PropValues]
    /\ str0 \in Bytes /\ answer = "none" /\ uidSet = FALSE

Exit == pc' = "exit"

\* the loop over props[]: i = 888 on the first "1"
CheckProps ==
    /\ pc = "props"
    /\ pc' = IF \E i \in DOMAIN props : prop[i] = "1" THEN "setuid" ELSE "connect"
    /\ UNCHANGED <<prop, str0, answer, uidSet>>

\* socket_local_client and the write of "<myuid>\n"; either may fail
Request ==
    /\ pc = "connect"
    /\ \/ Exit /\ UNCHANGED answer
       \/ pc' = "read" /\ answer' \in Answers
    /\ UNCHANGED <<prop, str0, uidSet>>

\* read(fd, str, 1): -1 ends su; 0 (EOF) leaves str[0] as it was
Read ==
    /\ pc = "read"
    /\ CASE answer = "EIO" -> Exit /\ UNCHANGED str0
         [] answer = "EOF" -> pc' = "decide" /\ UNCHANGED str0
         [] OTHER -> pc' = "decide" /\ str0' = answer
    /\ UNCHANGED <<prop, answer, uidSet>>

Decide ==
    /\ pc = "decide"
    /\ IF str0 = "y" THEN pc' = "setuid" ELSE Exit
    /\ UNCHANGED <<prop, str0, answer, uidSet>>

\* setgid(gid) || setuid(uid), after a "y" (and likewise on the debug path)
SetUid ==
    /\ pc = "setuid"
    /\ \/ Exit /\ UNCHANGED uidSet
       \/ pc' = "exec" /\ uidSet' = TRUE
    /\ UNCHANGED <<prop, str0, answer>>

\* execlp(argv[2]) for argc == 3, execvp for argc > 3, else /bin/sh and
\* then /system/bin/sh; a failed exec returns
Exec ==
    /\ pc = "exec"
    /\ pc' \in {"running", "exit"}
    /\ UNCHANGED <<prop, str0, answer, uidSet>>

Next == CheckProps \/ Request \/ Read \/ Decide \/ SetUid \/ Exec
Spec == Init /\ [][Next]_vars

\* su's contract with SuService: the caller's identity changes only if a
\* debug property allows su, or SuService answered 'y'.
SuOnlyWhenApproved ==
    uidSet => (\E i \in DOMAIN props : prop[i] = "1") \/ answer = "y"
====
