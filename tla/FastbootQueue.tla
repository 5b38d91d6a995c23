---------------------------- MODULE FastbootQueue ----------------------------
(***************************************************************************)
(* The fastboot host engine (src/core/fastboot/engine.c, protocol.c) as    *)
(* driven by the WMT updater (wmtupdater.c, wmtupdater_main.c).  The       *)
(* updater queues actions on one fb_action_list and runs them with          *)
(* fb_execute_queue; the bootloader on the other end of the USB cable is   *)
(* not under src/ and answers every exchange with OKAY or FAIL (transport   *)
(* errors of usb_read/usb_write give the host the same -1).  Image bytes    *)
(* are abstracted to [ptn, off, len] records naming what a download holds. *)
(***************************************************************************)
EXTENDS Integers, Sequences, TLC

CONSTANTS
    Argvs,        \* command lines main may be started with, as getopt's option letters
    NandInfos,    \* the bootloader's answers to "oem nand:<ptn>"
    MaxSizes,     \* its answers to "oem max-download-size"
    ImageSizes    \* sizes of the converted yaffs2 images

None == [ptn |-> "", off |-> 0, len |-> 0]

(* main's update sequence; update_env runs only with both -e and -B *)
Steps == <<"w-load", "u-boot", "boot", "recovery", "logo", "env", "system", "data">>
Kind(s) == CASE s \in {"w-load", "u-boot"} -> "spi"
             [] s \in {"boot", "recovery", "logo"} -> "raw"
             [] s = "env" -> "env"
             [] OTHER -> "yaffs2"
Ptns == ({Steps[i] : i \in DOMAIN Steps} \ {"env"}) \cup {"ram:C000000", "ram:E000000"}

\* strstr(s, p) != NULL, and the text after the first match
HasText(s, p) == \E i \in 1..(Len(s) - Len(p) + 1) : SubSeq(s, i, i + Len(p) - 1) = p
After(s, p) ==
    LET i == CHOOSE i \in 1..(Len(s) - Len(p) + 1) :
                /\ SubSeq(s, i, i + Len(p) - 1) = p
                /\ \A j \in 1..(i - 1) : SubSeq(s, j, j + Len(p) - 1) # p
    IN SubSeq(s, i + Len(p), Len(s))

\* strtol(s, &end, 10) on unsigned text: the leading decimal digits, or 0
DigitVal(c) == CHOOSE d \in 0..9 : SubSeq("0123456789", d + 1, d + 1) = c
RECURSIVE Strtol(_, _)
Strtol(s, acc) ==
    IF s = "" \/ ~HasText("0123456789", SubSeq(s, 1, 1)) THEN acc
    ELSE Strtol(SubSeq(s, 2, Len(s)), acc * 10 + DigitVal(SubSeq(s, 1, 1)))

(* ret |= status on the values these paths produce: 0, -1 and -100 *)
OrStatusAdded(a, b) == a + b
OrStatus(a, b) == IF a = 0 THEN b ELSE IF b = 0 \/ a = b THEN a ELSE -1

(***************************************************************************)
(* main's getopt_long loop over "w:u:b:r:s:d:l:S:hLRDe:B:".  A file option  *)
(* names the update it feeds; -L lists devices, -R reboots; -S (the serial) *)
(* and -D (delete the temp files) change nothing modelled; -h prints the   *)
(* usage and an unknown option or missing argument ('?') ends main, both   *)
(* returning 1.  The file names only matter for being given or not.        *)
(***************************************************************************)
OptFile == ("w" :> "w-load") @@ ("u" :> "u-boot") @@ ("b" :> "boot") @@ ("r" :> "recovery")
           @@ ("s" :> "system") @@ ("d" :> "data") @@ ("l" :> "logo")
           @@ ("e" :> "env") @@ ("B" :> "blacklist")
NoOpts == [files |-> {}, list |-> FALSE, reboot |-> FALSE, exit |-> FALSE]
RECURSIVE GetOpt(_, _)
GetOpt(argv, o) ==
    LET c == Head(argv) IN
    CASE argv = <<>> -> o
      [] c \in {"h", "?"} -> [o EXCEPT !.exit = TRUE]
      [] c \in DOMAIN OptFile -> GetOpt(Tail(argv), [o EXCEPT !.files = @ \cup {OptFile[c]}])
      [] c = "L" -> GetOpt(Tail(argv), [o EXCEPT !.list = TRUE])
      [] c = "R" -> GetOpt(Tail(argv), [o EXCEPT !.reboot = TRUE])
      [] OTHER -> GetOpt(Tail(argv), o)
\* the updates given a file; update_env runs only with both -e and -B
GivenEnvAlone(o) == o.files \ {"blacklist"}
Given(o) == (o.files \ {"env", "blacklist"})
            \cup (IF {"env", "blacklist"} \subseteq o.files THEN {"env"} ELSE {})

VARIABLES
    opt,      \* what main's getopt loop parsed from argv
    pc,       \* main's label, or "exec" while fb_execute_queue runs
    step,     \* index into Steps of the update main is in
    queue,    \* the fb_action_list: <<[op, cmd, data, func, batch]>>
    at,       \* the action fb_execute_queue is at
    cont,     \* the label fb_execute_queue returns to
    st,       \* fb_execute_queue's status, then its return value
    batch,    \* number of fb_execute_queue calls that returned
    respBuf,  \* update_nand_yaffs2's respBuf, filled by cb_save
    y,        \* update_nand_yaffs2/update_nand_sparse locals
    image,    \* size of each converted yaffs2 image
    dev       \* the bootloader: download buffer, written data, sparse mode
vars == <<opt, pc, step, queue, at, cont, st, batch, respBuf, y, image, dev>>

NoY == [page |-> 0, oob |-> 0, max |-> 0, left |-> 0, ret |-> 0]

Init ==
    /\ opt \in {GetOpt(a, NoOpts) : a \in Argvs}
    /\ pc = "start" /\ step = 1 /\ queue = <<>> /\ at = 0 /\ cont = "start"
    /\ st = 0 /\ batch = 0 /\ respBuf = "" /\ y = NoY
    /\ image = [p \in {"system", "data"} |-> 0]
    /\ dev = [buf |-> None, written |-> [p \in Ptns |-> <<>>], sparse |-> FALSE]

(***************************************************************************)
(* queue_action and the fb_queue_* functions the updater uses.  Every      *)
(* action gets func = cb_default unless the queueing function sets another. *)
(***************************************************************************)
queue_action(q, op, cmd, data, func) ==
    Append(q, [op |-> op, cmd |-> cmd, data |-> data, func |-> func, batch |-> batch])
fb_queue_flash(q, ptn, data) ==
    queue_action(queue_action(q, "download", "", data, "default"),
                 "command", "flash:" \o ptn, None, "default")
fb_queue_command(q, cmd) == queue_action(q, "command", cmd, None, "default")
fb_queue_oemsave(q, cmd) == queue_action(q, "query", cmd, None, "save")
fb_queue_reboot(q) == queue_action(q, "command", "reboot", None, "nothing")

\* fb_execute_queue is entered with the list built and returns to label c
Execute(q, c) == queue' = q /\ at' = 1 /\ cont' = c /\ pc' = "exec" /\ st' = 0

\* the bootloader's answer to a query
Answers(cmd) == IF cmd = "oem max-download-size" THEN MaxSizes ELSE NandInfos

(***************************************************************************)
(* One exchange with the bootloader, as the host sees it (fb_download_data, *)
(* fb_command, fb_command_response over _command_start/_command_data/      *)
(* check_response): the result, the OKAY text, and the bootloader after it. *)
(* A failed download leaves the previous download in its buffer; "flash:"  *)
(* writes that buffer, and fails when nothing was downloaded.              *)
(***************************************************************************)
SparseStart(cmd) == HasText(cmd, "oem sparsedownload:")
SparseEnd(cmd) == cmd = "oem sparsedownload end"
Received(cmd) == IF SparseEnd(cmd) THEN [dev EXCEPT !.sparse = FALSE] ELSE dev
Accepted(cmd) ==
    CASE HasText(cmd, "flash:") ->
            LET p == SubSeq(cmd, 7, Len(cmd))
            IN [dev EXCEPT !.written[p] = Append(@, dev.buf)]
      [] SparseStart(cmd) -> [dev EXCEPT !.sparse = TRUE]
      [] OTHER -> Received(cmd)
Fail(d) == [r |-> -1, resp |-> "", dev |-> d]
Outcomes(a) ==
    CASE a.op = "download" ->
            {Fail(dev), [r |-> 0, resp |-> "", dev |-> [dev EXCEPT !.buf = a.data]]}
      [] a.op = "query" ->
            {Fail(dev)} \cup {[r |-> 0, resp |-> x, dev |-> dev] : x \in Answers(a.cmd)}
      [] OTHER ->
            {Fail(Received(a.cmd))}
            \cup (IF HasText(a.cmd, "flash:") /\ dev.buf = None THEN {}
                  ELSE {[r |-> 0, resp |-> "", dev |-> Accepted(a.cmd)]})

\* the callbacks: cb_default and cb_save return the status, cb_do_nothing 0
Callback(func, r) == IF func = "nothing" THEN 0 ELSE r
\* cb_save: strncpy(a->data, resp, a->size) on success
Saved(func, o) == IF func = "save" /\ o.r = 0 THEN o.resp ELSE respBuf

\* the loop of fb_execute_queue: "if (status) break;" after every action
BreaksOnDownloadIgnored(a, r) == r # 0 /\ a.op # "download"
BreaksOn(a, r) == r # 0

\* fb_free_list after the loop, whichever way it ended
FreeListOnSuccess(r) == IF r = 0 THEN <<>> ELSE queue
fb_free_list(r) == <<>>

ExecAction ==
    /\ pc = "exec"
    /\ LET a == queue[at] IN
       \E o \in Outcomes(a) :
          LET r == Callback(a.func, o.r) IN
          /\ dev' = o.dev
          /\ respBuf' = Saved(a.func, o)
          /\ st' = r
          /\ IF BreaksOn(a, r) \/ at = Len(queue)
             THEN /\ queue' = fb_free_list(r) /\ batch' = batch + 1
                  /\ pc' = cont /\ UNCHANGED at
             ELSE at' = at + 1 /\ UNCHANGED <<queue, batch, pc>>
    /\ UNCHANGED <<step, cont, y, image>>

(***************************************************************************)
(* wmtupdater_main.c: main after getopt.  -h and '?' have returned; -L    *)
(* lists the devices and returns; init_fb_action_list may fail; open_device *)
(* is retried until the device is there; -R reboots and ends; otherwise    *)
(* the updates run in order, each "if(status < 0) goto END".               *)
(***************************************************************************)
mainKeeps == <<step, respBuf, y, image, dev, batch>>
Goto(l) == pc' = l /\ UNCHANGED <<queue, at, cont, st>>
Start ==
    /\ pc = "start"
    /\ CASE opt.exit \/ opt.list -> Goto("done")
         [] opt.reboot -> \/ Goto("done")
                          \/ Execute(fb_queue_reboot(queue), "done")
         [] OTHER -> \/ Goto("done")
                     \/ Goto("step")
    /\ UNCHANGED mainKeeps
Image(s) == [ptn |-> s, off |-> 0, len |-> 1]

(* update_spi, update_nand_raw, update_env and update_nand_yaffs2 up to its *)
(* first query; a NULL file returns 0 at once; load_file and the fopen/    *)
(* fread of update_env may fail, which returns -1, -2 or -3.               *)
Update ==
    /\ pc = "step"
    /\ IF step > Len(Steps) THEN Goto("done") /\ UNCHANGED step
       ELSE LET s == Steps[step] IN
            CASE s \notin Given(opt) -> Goto("step") /\ step' = step + 1
              [] Kind(s) \in {"spi", "raw"} ->
                    /\ \/ Goto("done")
                       \/ Execute(fb_queue_flash(queue, s, Image(s)), "ret")
                    /\ UNCHANGED step
              [] Kind(s) = "env" ->
                    /\ \/ Goto("done")
                       \/ Execute(fb_queue_command(
                            fb_queue_flash(fb_queue_flash(queue, "ram:C000000", Image("ram:C000000")),
                                           "ram:E000000", Image("ram:E000000")),
                            "oem syncenv:C000000 E000000"), "envret")
                    /\ UNCHANGED step
              [] OTHER -> Execute(fb_queue_oemsave(queue, "oem nand:" \o s), "nandret")
                          /\ UNCHANGED step
    /\ UNCHANGED <<respBuf, y, image, dev, batch>>

\* the end of an update: status < 0 goes to END, else the next update
Return ==
    /\ pc = "ret"
    /\ IF st < 0 THEN Goto("done") /\ UNCHANGED step ELSE Goto("step") /\ step' = step + 1
    /\ UNCHANGED <<respBuf, y, image, dev, batch>>

(* after update_env: wfb_set_env and wfb_save_env run and their results are *)
(* dropped; the "if(status < 0)" after each tests update_env's status.     *)
EnvTail ==
    /\ \/ pc = "envret" /\ st < 0 /\ Goto("done")
       \/ pc = "envret" /\ st >= 0 /\ Execute(fb_queue_command(queue, "oem setenv:ethaddr"), "setret")
       \/ pc = "setret" /\ Execute(fb_queue_command(queue, "oem saveenv"), "saveret")
       \/ pc = "saveret" /\ pc' = "ret" /\ st' = 0 /\ UNCHANGED <<queue, at, cont>>
    /\ UNCHANGED <<step, respBuf, y, image, dev, batch>>
(***************************************************************************)
(* update_nand_yaffs2 after "oem nand:<ptn>": pagesize= and oobsize= are   *)
(* parsed with strtol, then "oem max-download-size" is queried.            *)
(***************************************************************************)
NandInfo ==
    /\ pc = "nandret"
    /\ LET page == Strtol(After(respBuf, "pagesize="), 0)
           oob == Strtol(After(respBuf, "oobsize="), 0)
       IN IF st < 0 \/ ~HasText(respBuf, "pagesize=") \/ page <= 0
             \/ ~HasText(respBuf, "oobsize=") \/ oob <= 0
          THEN Goto("done") /\ UNCHANGED y
          ELSE /\ y' = [NoY EXCEPT !.page = page, !.oob = oob]
               /\ Execute(fb_queue_oemsave(queue, "oem max-download-size"), "maxret")
    /\ UNCHANGED <<step, respBuf, image, dev, batch>>

(***************************************************************************)
(* The size checks, convyaffs2img (with oob size 64) and file_size, which  *)
(* may fail; an image that fits goes down whole (load_file may fail), a    *)
(* larger one through update_nand_sparse, whose file_size, malloc and fopen *)
(* may fail before wfb_sparse_start.                                       *)
(***************************************************************************)
MaxDownload ==
    /\ pc = "maxret"
    /\ LET s == Steps[step]
           max == Strtol(respBuf, 0)
       IN IF st < 0 \/ max <= 0 \/ max % (y.page + y.oob) # 0
          THEN Goto("done") /\ UNCHANGED <<y, image>>
          ELSE \/ Goto("done") /\ UNCHANGED <<y, image>>
               \/ \E size \in ImageSizes :
                    /\ image' = [image EXCEPT ![s] = size]
                    /\ y' = [y EXCEPT !.max = max, !.left = size]
                    /\ IF size <= max
                       THEN \/ Goto("done")
                            \/ Execute(fb_queue_flash(queue, s, [ptn |-> s, off |-> 0, len |-> size]), "ret")
                       ELSE \/ Goto("done")
                            \/ Execute(fb_queue_command(queue, "oem sparsedownload:" \o ToString(size)),
                                       "sstart")
    /\ UNCHANGED <<step, respBuf, dev, batch>>

(***************************************************************************)
(* update_nand_sparse: a failed start returns at once; then fread of       *)
(* maxsize bytes at a time: a full buffer is flashed, a short one at EOF   *)
(* is flashed if not empty and ends the loop, a read error sets -100; any  *)
(* failed flash ends the loop; "oem sparsedownload end" is sent after the  *)
(* loop and its status or-ed into ret.                                     *)
(***************************************************************************)
FlushesTailDropped(left) == FALSE
FlushesTail(left) == left > 0
AfterChunkSkipsEnd(r, last) == IF r < 0 THEN "ret" ELSE IF last THEN "sendend" ELSE "chunk"
AfterChunk(r, last) == IF r < 0 \/ last THEN "sendend" ELSE "chunk"

Chunk(s) == [ptn |-> s, off |-> image[s] - y.left, len |-> IF y.left < y.max THEN y.left ELSE y.max]
Sparse ==
    /\ \/ pc = "sstart" /\ st < 0 /\ Goto("ret") /\ UNCHANGED y
       \/ pc = "sstart" /\ st >= 0 /\ Goto("chunk") /\ y' = [y EXCEPT !.ret = st]
       \/ pc = "chunk" /\ Goto("sendend") /\ y' = [y EXCEPT !.ret = -100]
       \/ pc = "chunk" /\ y.left >= y.max
          /\ Execute(fb_queue_flash(queue, Steps[step], Chunk(Steps[step])), "chunkret")
          /\ y' = [y EXCEPT !.left = y.left - y.max]
       \/ pc = "chunk" /\ y.left < y.max /\ FlushesTail(y.left)
          /\ Execute(fb_queue_flash(queue, Steps[step], Chunk(Steps[step])), "lastret")
          /\ y' = [y EXCEPT !.left = 0]
       \/ pc = "chunk" /\ y.left < y.max /\ ~FlushesTail(y.left) /\ Goto("sendend") /\ UNCHANGED y
       \/ pc \in {"chunkret", "lastret"} /\ y' = [y EXCEPT !.ret = st]
          /\ Goto(AfterChunk(st, pc = "lastret"))
       \/ pc = "sendend" /\ Execute(fb_queue_command(queue, "oem sparsedownload end"), "endret")
          /\ UNCHANGED y
       \/ pc = "endret" /\ pc' = "ret" /\ st' = OrStatus(y.ret, st) /\ UNCHANGED <<queue, at, cont, y>>
    /\ UNCHANGED <<step, respBuf, image, dev, batch>>

Next == (Start \/ Update \/ Return \/ EnvTail \/ NandInfo \/ MaxDownload \/ Sparse \/ ExecAction)
        /\ UNCHANGED opt
Spec == Init /\ [][Next]_vars
Data == [ptn : Ptns \cup {""}, off : Nat, len : Nat]
TypeOK ==
    /\ step \in 1..(Len(Steps) + 1) /\ at \in Nat /\ batch \in Nat
    /\ queue \in Seq([op : {"download", "command", "query"}, cmd : STRING, data : Data,
                      func : {"default", "save", "nothing"}, batch : Nat])
    /\ st \in {0, -1, -100}
    /\ dev \in [buf : Data, written : [Ptns -> Seq(Data)], sparse : BOOLEAN]

\* fb_execute_queue breaks on the first failed action, so a "flash:<ptn>"
\* never follows a failed download: whatever the bootloader writes to a
\* partition is data the updater downloaded for that partition, never the
\* previous image still in its download buffer.
FlashWritesItsOwnImage ==
    \A p \in Ptns : \A i \in DOMAIN dev.written[p] : dev.written[p][i].ptn = p

\* fb_free_list empties the list on both ways out of fb_execute_queue, so
\* the device only ever runs actions the current wfb_* call queued, even
\* after a failure whose status the caller ignores (wfb_set_env).
NoStaleActions == pc = "exec" => queue[at].batch = batch

\* update_nand_sparse's fread loop: once update_nand_yaffs2 has returned
\* success for system or data, the partition holds the whole converted
\* image, chunk after chunk, with no gap, overlap or missing tail.
Contiguous(w, size) ==
    /\ Len(w) > 0 /\ w[1].off = 0 /\ w[Len(w)].off + w[Len(w)].len = size
    /\ \A i \in 2..Len(w) : w[i].off = w[i - 1].off + w[i - 1].len
ImageFullyWritten ==
    \A i \in DOMAIN Steps :
        Kind(Steps[i]) = "yaffs2" /\ Steps[i] \in Given(opt) /\ i < step
            => Contiguous(dev.written[Steps[i]], image[Steps[i]])

\* update_nand_sparse sends "oem sparsedownload end" after every accepted
\* start, whichever way the chunk loop ends: the updater never exits with
\* the bootloader left in sparse-download mode.
SparseClosedAtExit == pc = "done" => ~dev.sparse
\* main flashes only what its command line asked for: a partition is
\* written only if its option named a file (the two RAM buffers only when
\* both -e and -B did), and nothing at all after -R, -L, -h or a bad option.
FlashedOnlyAsked ==
    \A p \in Ptns :
        dev.written[p] # <<>> =>
            /\ ~opt.reboot /\ ~opt.list /\ ~opt.exit
            /\ \/ p \in opt.files
               \/ p \in {"ram:C000000", "ram:E000000"} /\ {"env", "blacklist"} \subseteq opt.files
====
