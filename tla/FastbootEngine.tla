---------------------------- MODULE FastbootEngine ----------------------------
(***************************************************************************)
(* The client side of engine.c (src/core/fastboot): the fb_queue_* calls   *)
(* that build an action list, the callbacks, fb_format, and               *)
(* fb_execute_queue that runs the list against the bootloader.  Each is a  *)
(* pure operator: a queue is a sequence of Action records, and a run       *)
(* threads a context e through the exchanges with the bootloader.          *)
(*                                                                         *)
(* A string that the engine inspects (a getvar answer, a required value,   *)
(* cur_product) is a sequence of one-character strings, so that match's    *)
(* strcmp/strncmp are modelled by what they do.  Downloaded data is a      *)
(* sequence of byte positions, as in SparseDownload.                       *)
(***************************************************************************)
EXTENDS SparseDownload

Null == <<"NULL">>        \* a NULL char pointer (prod of an unrestricted check)
Ext4 == <<"e", "x", "t", "4">>

(***************************************************************************)
(* struct Action and queue_action: calloc'd, cmd formatted, cb_default.    *)
(* A cmd is <<verb, argument>>; OP_FORMAT keeps the bare partition.        *)
(***************************************************************************)
Act(op, cmd) ==
    [op |-> op, cmd |-> cmd, func |-> "default", prod |-> Null,
     data |-> <<>>, size |-> 0]

fb_queue_erase(q, ptn) == Append(q, Act("command", <<"erase", ptn>>))

fb_queue_format(q, ptn, skip) == Append(q, [Act("format", ptn) EXCEPT !.data = skip])

fb_queue_flash(q, ptn, data) ==
    q \o << [Act("download", <<"", "">>) EXCEPT !.data = data, !.size = Len(data)],
            Act("command", <<"flash", ptn>>) >>

fb_queue_flash_sparse(q, ptn, chunks) ==
    q \o << [Act("sparse", <<"", "">>) EXCEPT !.data = chunks],
            Act("command", <<"flash", ptn>>) >>

fb_queue_require(q, prod, var, invert, values) ==
    Append(q, [Act("query", <<"getvar", var>>) EXCEPT
                 !.prod = prod, !.data = values, !.size = Len(values),
                 !.func = IF invert THEN "reject" ELSE "require"])

fb_queue_display(q, var) == Append(q, [Act("query", <<"getvar", var>>) EXCEPT !.func = "display"])

fb_queue_getvar_save(q, var, size) ==
    Append(q, [Act("query", <<"getvar", var>>) EXCEPT !.func = "save", !.size = size])

fb_queue_reboot(q) == Append(q, [Act("command", <<"reboot", "">>) EXCEPT !.func = "nothing"])

fb_queue_oemdisplay(q, cmd) == Append(q, [Act("query", <<"oem", cmd>>) EXCEPT !.func = "oem_display"])

fb_queue_command(q, cmd) == Append(q, Act("command", <<"oem", cmd>>))

fb_queue_download(q, data) == Append(q, [Act("download", <<"", "">>) EXCEPT !.data = data, !.size = Len(data)])

fb_queue_notice(q) == Append(q, Act("notice", <<"", "">>))

fb_queue_is_empty(q) == q = <<>>

(***************************************************************************)
(* match: a value ending in '*' (and longer than the '*' alone) is a       *)
(* prefix, compared with strncmp over len-1 characters; any other value    *)
(* must equal the answer (strcmp).                                         *)
(***************************************************************************)
Matches(str, val) ==
    LET len == Len(val) IN
    IF len > 1 /\ val[len] = "*"
    THEN Len(str) >= len - 1 /\ SubSeq(str, 1, len - 1) = SubSeq(val, 1, len - 1)
    ELSE val = str

match(str, values) == \E n \in 1..Len(values) : Matches(str, values[n])

(* cb_check: a failed query fails; a check for another product than       *)
(* cur_product is ignored; otherwise the answer must match (or, for       *)
(* reject, must not).                                                      *)
IgnoredSameProduct(a, cur) == a.prod # Null /\ a.prod = cur
Ignored(a, cur) == a.prod # Null /\ a.prod # cur

cb_check(a, status, resp, invert, cur) ==
    CASE status # 0 -> status
      [] Ignored(a, cur) -> 0
      [] match(resp, a.data) # invert -> 0
      [] OTHER -> -1

(* The callback a->func, by name: cb_default, cb_display, cb_save and      *)
(* cb_oem_display return the status, cb_do_nothing returns 0.              *)
RunCallback(a, status, resp, cur) ==
    CASE a.func = "require" -> cb_check(a, status, resp, FALSE, cur)
      [] a.func = "reject" -> cb_check(a, status, resp, TRUE, cur)
      [] a.func = "nothing" -> 0
      [] OTHER -> status

(* cb_save: strncpy(a->data, resp, a->size) when the query succeeded       *)
cb_save(e, a, status, resp) ==
    IF a.func = "save" /\ status = 0
    THEN [e EXCEPT !.saved = SubSeq(resp, 1, IF a.size < Len(resp) THEN a.size ELSE Len(resp))]
    ELSE e

(***************************************************************************)
(* The bootloader, as the engine sees it through fb_command,              *)
(* fb_command_response and fb_download_data (protocol.c).  The context e:  *)
(* the device's variables (vars), cur_product (cur), the exchanges made    *)
(* so far (n) and the one that fails (fail; 0 for none: a usb error, a     *)
(* short transfer or a FAIL reply), the download buffer (buf) and the      *)
(* erase and flash commands it carried out (log), the index of the action  *)
(* running (at), the status (st) and the last cb_save copy (saved).        *)
(***************************************************************************)
Context(vars, cur, fail) ==
    [vars |-> vars, cur |-> cur, n |-> 0, fail |-> fail, buf |-> <<>>,
     log |-> <<>>, at |-> 0, st |-> 0, saved |-> <<>>]

Exchanged(e) == [e EXCEPT !.n = @ + 1]
FailsNext(e) == e.n + 1 = e.fail
Result(st, resp, e) == [st |-> st, resp |-> resp, e |-> e]

\* the bootloader answers getvar from its variables (FAIL for an unknown
\* one), erases, and flashes the buffer it last received (FAIL if none)
Refused(e, cmd) ==
    \/ cmd[1] = "getvar" /\ cmd[2] \notin DOMAIN e.vars
    \/ cmd[1] = "flash" /\ e.buf = <<>>
Carried(e, cmd) ==
    IF cmd[1] \in {"erase", "flash"}
    THEN [e EXCEPT !.log = Append(@, [at |-> e.at, what |-> cmd[1], ptn |-> cmd[2], data |-> e.buf])]
    ELSE e

fb_command(e, cmd) ==
    IF FailsNext(e) \/ Refused(e, cmd) THEN Result(-1, <<>>, Exchanged(e))
    ELSE Result(0, IF cmd[1] = "getvar" THEN e.vars[cmd[2]] ELSE <<>>,
                Carried(Exchanged(e), cmd))

\* fb_download_data: _command_send refuses size 0 before any exchange
fb_download_data(e, data) ==
    CASE Len(data) = 0 -> Result(-1, <<>>, e)
      [] FailsNext(e) -> Result(-1, <<>>, Exchanged(e))
      [] OTHER -> Result(0, <<>>, [Exchanged(e) EXCEPT !.buf = data])

\* OP_DOWNLOAD_SPARSE: SparseDownload's fb_download_data_sparse, whose
\* first data transfer fails when this exchange is the failing one
DownloadSparse(e, chunks) ==
    LET o == fb_download_data_sparse(chunks, IF FailsNext(e) THEN 1 ELSE 0) IN
    IF o.ret = 0 THEN Result(0, <<>>, [Exchanged(e) EXCEPT !.buf = Delivered(o.ctx)])
    ELSE Result(-1, <<>>, Exchanged(e))

\* fb_getvar: "getvar:" and the variable, through fb_command_response
fb_getvar(e, var) == fb_command(e, <<"getvar", var>>)

(* strtoll(response, NULL, 16): an optional 0x, then hex digits up to the  *)
(* first other character; none gives 0.                                   *)
HexDigit == ("0" :> 0) @@ ("1" :> 1) @@ ("4" :> 4) @@ ("a" :> 10)
RECURSIVE HexDigits(_, _)
HexDigits(s, acc) ==
    IF s = <<>> \/ Head(s) \notin DOMAIN HexDigit THEN acc
    ELSE HexDigits(Tail(s), 16 * acc + HexDigit[Head(s)])
strtoll16(s) ==
    HexDigits(IF Len(s) >= 2 /\ SubSeq(s, 1, 2) = <<"0", "x">> THEN SubSeq(s, 3, Len(s)) ELSE s, 0)

(* generate_ext4_image: make_ext4fs (outside src/) builds an image of the  *)
(* partition's length into a temporary file, which load_buffer maps.  A   *)
(* length of 0 builds nothing: mmap of 0 bytes fails, so the buffer is     *)
(* NULL (with MinGW, malloc(0) may not be NULL, and then                   *)
(* fb_download_data refuses the empty image: the same -1 either way).     *)
ImageOf(ptn) == <<9>>
generate_ext4_image(ptn, partition_size) ==
    IF partition_size > 0 THEN ImageOf(ptn) ELSE <<>>

(***************************************************************************)
(* fb_format: the partition's type must be "ext4" (the only generator)     *)
(* and its size known; the generated image is downloaded and flashed      *)
(* directly, not through the queue.  With skip_if_not_supported, a failed *)
(* getvar or an unsupported type returns 0 without formatting.            *)
(***************************************************************************)
Skipped(a, st, e) == Result(IF a.data THEN 0 ELSE st, <<>>, e)

fb_format(a, e) ==
    LET ptn == a.cmd
        ty == fb_getvar(e, <<"partition-type", ptn>>)
        sz == fb_getvar(ty.e, <<"partition-size", ptn>>)
        image == generate_ext4_image(ptn, strtoll16(sz.resp))
        dl == fb_download_data(sz.e, image)
    IN CASE ty.st # 0 -> Skipped(a, ty.st, ty.e)
         [] ty.resp # Ext4 -> Skipped(a, -1, ty.e)
         [] sz.st # 0 -> Skipped(a, sz.st, sz.e)
         [] image = <<>> -> Result(-1, <<>>, sz.e)
         [] dl.st # 0 -> dl
         [] OTHER -> fb_command(dl.e, <<"flash", ptn>>)

(***************************************************************************)
(* One action of fb_execute_queue's loop, with its callback: the exchange  *)
(* its op calls for, then a->func on the status and the response (or the   *)
(* error text); OP_NOTICE only prints and leaves the status alone.         *)
(***************************************************************************)
Perform(a, e) ==
    CASE a.op \in {"command", "query"} -> fb_command(e, a.cmd)
      [] a.op = "download" -> fb_download_data(e, a.data)
      [] a.op = "format" -> fb_format(a, e)
      [] a.op = "sparse" -> DownloadSparse(e, a.data)

ExecAction(a, e) ==
    IF a.op = "notice" THEN e
    ELSE LET r == Perform(a, e)
             st == RunCallback(a, r.st, r.resp, e.cur)
         IN [cb_save(r.e, a, r.st, r.resp) EXCEPT !.st = st]

\* "if (status) break;" after every op but OP_NOTICE
BreaksOnQueryIgnored(a, e) == a.op \notin {"notice", "query"} /\ e.st # 0
BreaksOn(a, e) == a.op # "notice" /\ e.st # 0

RECURSIVE ExecFrom(_, _, _)
\* the loop's test after action i ran
Continue(q, i, e) == IF BreaksOn(q[i], e) THEN e ELSE ExecFrom(q, i + 1, e)
ExecFrom(q, i, e) ==
    IF i > Len(q) THEN e ELSE Continue(q, i, ExecAction(q[i], [e EXCEPT !.at = i]))

(* fb_execute_queue: an empty list returns 0 at once; otherwise the loop, *)
(* then fb_free_list, and the last status is returned.                    *)
fb_execute_queue(q, e) ==
    IF fb_queue_is_empty(q) THEN e ELSE ExecFrom(q, 1, e)
====
