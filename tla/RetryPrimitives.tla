--------------------------- MODULE RetryPrimitives ---------------------------
(***************************************************************************)
(* Volume::doMoveMount and Volume::doUnmount (src/vold/Volume.cpp) as pure *)
(* operators: given the result of every mount(2)/umount(2) attempt and the *)
(* force flag, what they return, how many attempts they make and which     *)
(* signals killProcessesWithOpenFiles sends to holders in between.         *)
(***************************************************************************)
EXTENDS Integers, Sequences, FiniteSets

(* What one mount(MS_MOVE) or umount(2) attempt returns: success or errno. *)
Results == {"OK", "EBUSY", "EINVAL", "ENOENT", "EIO", "EPERM"}

(* Process::killProcessesWithOpenFiles(path, action): action 1 sends       *)
(* SIGHUP, 2 SIGKILL, 0 only lists the holders.                            *)
Kill(action) ==
  IF action = 0 THEN <<>> ELSE <<IF action = 1 THEN "SIGHUP" ELSE "SIGKILL">>

(* The escalation of both loops, on the already decremented counter. *)
Escalation(force, retries) ==
  IF force /\ retries = 1 THEN 2
  ELSE IF force /\ retries = 2 THEN 1
  ELSE 0

Outcome(rc, errno, attempts, signals) ==
  [rc |-> rc, errno |-> errno, attempts |-> attempts, signals |-> signals]

(* Variant of MoveLoop that escalates on the counter before the decrement. *)
RECURSIVE MoveLoopEarlyEscalation(_, _, _, _, _)
MoveLoopEarlyEscalation(retries, results, force, done, signals) ==
  IF retries = 0 THEN Outcome(-1, "EBUSY", done, signals)
  ELSE LET res == results[done + 1]
       IN  IF res = "OK" THEN Outcome(0, "OK", done + 1, signals)
           ELSE IF res # "EBUSY" THEN Outcome(-1, res, done + 1, signals)
           ELSE MoveLoopEarlyEscalation(retries - 1, results, force, done + 1,
                                        signals \o Kill(Escalation(force, retries)))

(* while (retries--): a move succeeds, fails at once on any errno but      *)
(* EBUSY, and on EBUSY escalates and tries again; EBUSY once retries run   *)
(* out.  done counts the attempts made so far.                             *)
RECURSIVE MoveLoop(_, _, _, _, _)
MoveLoop(retries, results, force, done, signals) ==
  IF retries = 0 THEN Outcome(-1, "EBUSY", done, signals)
  ELSE LET res == results[done + 1]
       IN  IF res = "OK" THEN Outcome(0, "OK", done + 1, signals)
           ELSE IF res # "EBUSY" THEN Outcome(-1, res, done + 1, signals)
           ELSE MoveLoop(retries - 1, results, force, done + 1,
                         signals \o Kill(Escalation(force, retries - 1)))

DoMoveMount(results, force) == MoveLoop(5, results, force, 0, <<>>)

(* umount errors that doUnmount takes as "already unmounted". *)
Unmounted == {"OK", "EINVAL", "ENOENT", "EIO"}

(* Variant of UnmountLoop that retries on every errno, EINVAL included. *)
RECURSIVE UnmountLoopNoEinval(_, _, _, _, _)
UnmountLoopNoEinval(retries, results, force, done, signals) ==
  IF retries = 0 THEN Outcome(-1, "EBUSY", done, signals)
  ELSE LET res == results[done + 1]
       IN  IF res \in Unmounted \ {"EINVAL"} THEN Outcome(0, res, done + 1, signals)
           ELSE UnmountLoopNoEinval(retries - 1, results, force, done + 1,
                                    signals \o Kill(Escalation(force, retries - 1)))

(* doUnmount's loop: any failure but the "already unmounted" errnos is     *)
(* retried with the same escalation; EBUSY once retries run out.            *)
RECURSIVE UnmountLoop(_, _, _, _, _)
UnmountLoop(retries, results, force, done, signals) ==
  IF retries = 0 THEN Outcome(-1, "EBUSY", done, signals)
  ELSE LET res == results[done + 1]
       IN  IF res \in Unmounted THEN Outcome(0, res, done + 1, signals)
           ELSE UnmountLoop(retries - 1, results, force, done + 1,
                            signals \o Kill(Escalation(force, retries - 1)))

DoUnmount(results, force) == UnmountLoop(10, results, force, 0, <<>>)

(***************************************************************************)
(* The policy of spec sections 4.3 and 8, for n attempts: attempts whose   *)
(* error is in retried are repeated, the first other result ends the call, *)
(* successfully if it is in ok; exhausting the attempts reports EBUSY.     *)
(* With force, holders get a hang-up before the second-to-last attempt and *)
(* a kill before the last one, and nothing else.                           *)
(***************************************************************************)
Policy(n, results, force, ok, retried) ==
  LET busy == CHOOSE k \in 0..n :
                /\ \A i \in 1..k : results[i] \in retried
                /\ k = n \/ results[k + 1] \notin retried
      escalated == {n - 2, n - 1} \cap 1..busy
  IN  [rc       |-> IF busy < n /\ results[busy + 1] \in ok THEN 0 ELSE -1,
       errno    |-> IF busy = n THEN "EBUSY" ELSE results[busy + 1],
       attempts |-> IF busy = n THEN n ELSE busy + 1,
       signals  |-> IF force
                    THEN SubSeq(<<"SIGHUP", "SIGKILL">>, 1, Cardinality(escalated))
                    ELSE <<>>]

=============================================================================
