------------------------- MODULE MC_Primitives ------------------------------
(***************************************************************************)
(* The pure helpers, each on every input that can matter: every run of    *)
(* doMoveMount and doUnmount up to its attempt limit (a prefix of retried  *)
(* errors followed by any result, with and without force), and every way   *)
(* libsparse may cut a small file into chunks for fb_download_data_sparse, *)
(* with no transfer or any one of them failing.                           *)
(***************************************************************************)
EXTENDS RetryPrimitives, FastbootEngine

VARIABLES prim, results, force, file, failAt, prog, devVars, cur

vars == <<prim, results, force, file, failAt, prog, devVars, cur>>

Attempts == [p \in {"move", "unmount"} |-> IF p = "move" THEN 5 ELSE 10]
Retried == [p \in {"move", "unmount"} |->
              IF p = "move" THEN {"EBUSY"} ELSE Results \ Unmounted]

(* A prefix of k retried errors, then any result, padded to n entries. *)
Inputs(n, retried) ==
  UNION {{[i \in 1..n |-> IF i <= k THEN pre[i] ELSE last]
            : pre \in [1..k -> retried], last \in Results} : k \in 0..n}

(* A 2-byte usb_buf, and chunks shorter than it, exactly one buffer,       *)
(* between one and two, exactly two and beyond, up to three of them; a     *)
(* chunk makes at most two transfers and the flush one more.               *)
MCBufSize == 2
ChunkLens == 0..5
MaxChunks == 3
SparseFiles == {Cut(lens, 1) : lens \in BoundedSeq(ChunkLens, MaxChunks)}
FailPoints == 0..(2 * MaxChunks + 1)

(* Client programs of the engine: an update guarded by a product check    *)
(* and a version reject, a format between a product check and a sparse    *)
(* flash, and the query and download calls; each product check as any of  *)
(* these requirements.  Values are plain, a prefix "a*" and the bare "*".  *)
Requirements ==
    [prod : {Null, <<"a">>, <<"b">>}, invert : BOOLEAN,
     values : {<<<<"*">>>>, <<<<"a", "*">>>>, <<<<"b">>, <<"a">>>>}]
Checked(r) == fb_queue_require(<<>>, r.prod, <<"product">>, r.invert, r.values)
UpdateProg(r) ==
    fb_queue_reboot(fb_queue_flash(fb_queue_erase(
        fb_queue_require(Checked(r), Null, <<"version">>, TRUE, <<<<"b">>>>),
        "p1"), "p1", <<7, 8>>))
FormatProg(r, skip) ==
    fb_queue_display(fb_queue_flash_sparse(fb_queue_notice(
        fb_queue_format(Checked(r), "p2", skip)), "p1", Cut(<<2, 1>>, 1)), <<"version">>)
InfoProg ==
    fb_queue_notice(fb_queue_display(fb_queue_command(fb_queue_download(
        fb_queue_oemdisplay(fb_queue_getvar_save(<<>>, <<"version">>, 1), "x"),
        <<7>>), "y"), <<"serial">>))
Programs ==
    {UpdateProg(r) : r \in Requirements} \cup {InfoProg}
      \cup {FormatProg(r, skip) : r \in Requirements, skip \in BOOLEAN}
\* the bootloader's variables: product, version, and the type and size of p2
DeviceVars ==
    {(<<"product">> :> p) @@ (<<"version">> :> v) @@ (<<"partition-type", "p2">> :> ty)
       @@ (<<"partition-size", "p2">> :> sz)
       : p \in {<<"a">>, <<"a", "b">>, <<"*">>}, v \in {<<"a">>, <<"b">>},
         ty \in {Ext4, <<"y">>}, sz \in {<<"0", "x", "4">>, <<"z">>}}
MaxExchanges == 8

Init ==
  \/ /\ prim \in {"move", "unmount"}
     /\ results \in Inputs(Attempts[prim], Retried[prim])
     /\ force \in BOOLEAN
     /\ file = <<>> /\ failAt = 0
     /\ prog = <<>> /\ devVars = <<>> /\ cur = <<>>
  \/ /\ prim = "sparse" /\ results = <<>> /\ force = FALSE
     /\ file \in SparseFiles /\ failAt \in FailPoints
     /\ prog = <<>> /\ devVars = <<>> /\ cur = <<>>
  \/ /\ prim = "engine" /\ results = <<>> /\ force = FALSE /\ file = <<>>
     /\ prog \in Programs /\ devVars \in DeviceVars /\ cur \in {<<"a">>, <<"b">>}
     /\ failAt \in 0..MaxExchanges

Next == UNCHANGED vars

Spec == Init /\ [][Next]_vars

(* doMoveMount returns, tries and signals as the spec's policy says: only  *)
(* EBUSY is retried, five attempts, hang-up then kill only with force.     *)
MoveFollowsPolicy ==
  prim = "move" =>
    DoMoveMount(results, force) = Policy(5, results, force, {"OK"}, {"EBUSY"})

(* doUnmount returns, tries and signals as the spec's policy says: EINVAL, *)
(* ENOENT and EIO are success, other errors are retried ten times.          *)
UnmountFollowsPolicy ==
  prim = "unmount" =>
    DoUnmount(results, force)
      = Policy(10, results, force, Unmounted, Results \ Unmounted)

(* fb_download_data_sparse drops the final flush's result: with no         *)
(* transfer failing a non-empty sparse file is downloaded, and whenever it *)
(* returns 0 the bootloader received the file's bytes exactly once each    *)
(* and in order, however the chunks fell against the usb_buf boundaries.   *)
SparseStreamDelivered ==
  prim = "sparse" =>
    LET o == fb_download_data_sparse(file, failAt) IN
    /\ failAt = 0 /\ FlattenSeq(file) # <<>> => o.ret = 0
    /\ o.ret = 0 => Delivered(o.ctx) = FlattenSeq(file)

(* fb_download_data_sparse_write keeps within usb_buf: no memcpy runs past *)
(* its end, neither "internal error" return is taken, and every data       *)
(* transfer but the last is a whole number of buffers.                     *)
SparseWriterInBounds ==
  prim = "sparse" =>
    LET c == fb_download_data_sparse(file, failAt).ctx IN
    /\ ~c.internal /\ ~c.overflow
    /\ \A i \in 1..(Len(c.sent) - 1) : Len(c.sent[i]) % BufSize = 0

(***************************************************************************)
(* The engine on its inputs.  A check's reference meaning, written apart   *)
(* from match and cb_check: a requirement restricted to another product   *)
(* than cur_product says nothing; otherwise the device's answer must fit   *)
(* one of the values (a value longer than "*" and ending in it is a        *)
(* prefix), and for a reject must fit none.                                *)
(***************************************************************************)
Glob(val, str) ==
    IF Len(val) > 1 /\ Last(val) = "*" THEN IsPrefix(Front(val), str) ELSE val = str
IsCheck(a) == a.func \in {"require", "reject"}
Holds(a) ==
    a.prod \in {Null, cur} =>
      ((\E v \in Range(a.data) : Glob(v, devVars[a.cmd[2]])) <=> a.func = "require")
Final == fb_execute_queue(prog, Context(devVars, cur, failAt))

Guarded(log) == \A w \in Range(log) : \A j \in 1..(w.at - 1) : IsCheck(prog[j]) => Holds(prog[j])

(* fb_execute_queue with require/reject actions (cb_check and match): the  *)
(* bootloader carries out no erase or flash that a check queued before it  *)
(* in the same list does not allow, whichever exchange fails and whatever  *)
(* product restriction, wildcard or inversion the check has.               *)
RequirementsGuardWrites ==
    prim = "engine" => Guarded(Final.log)

Downloaded(j) ==
    IF prog[j - 1].op = "sparse" THEN FlattenSeq(prog[j - 1].data) ELSE prog[j - 1].data
Wrote(log, j, what, ptn) == {w \in Range(log) : w.at = j /\ w.what = what /\ w.ptn = ptn}
TookEffect(f) ==
    f.st = 0 =>
      \A j \in 1..Len(prog) :
        LET a == prog[j] IN
        /\ IsCheck(a) => Holds(a)
        /\ a.op = "command" /\ a.cmd[1] = "erase" => Wrote(f.log, j, "erase", a.cmd[2]) # {}
        /\ a.op = "command" /\ a.cmd[1] = "flash" =>
             \E w \in Wrote(f.log, j, "flash", a.cmd[2]) : w.data = Downloaded(j)
        /\ a.op = "format" /\ ~a.data =>
             \E w \in Wrote(f.log, j, "flash", a.cmd) : w.data # <<>>

(* fb_execute_queue returning 0 means the whole list took effect: every    *)
(* check holds, every erase and flash was carried out by that action, a    *)
(* flash after a download or sparse download wrote exactly those bytes,    *)
(* and every format without skip_if_not_supported flashed an image.        *)
CompletedQueueTookEffect == prim = "engine" => TookEffect(Final)
====
