---------------------------- MODULE SparseDownload ----------------------------
(***************************************************************************)
(* fb_download_data_sparse (src/core/fastboot/protocol.c), reached through *)
(* fb_queue_flash_sparse and OP_DOWNLOAD_SPARSE in fb_execute_queue.       *)
(* libsparse's sparse_file_callback hands fb_download_data_sparse_write    *)
(* the file in chunks of any length; the writer gathers them in the        *)
(* 512-byte usb_buf of its sparse_context and sends whole buffers, or      *)
(* whole multiples of the buffer straight from the chunk, with             *)
(* _command_data.  A byte is modelled by its position in the stream, so a  *)
(* transfer is the sequence of positions it carries.                       *)
(***************************************************************************)
EXTENDS Integers, Sequences, SequencesExt

CONSTANT BufSize     \* USB_BUF_SIZE (512), scaled down

\* the min and round_down macros
minOfRequest(a, b) == b
min(a, b) == IF a < b THEN a ELSE b
RoundDownSkipped(a, b) == a
round_down(a, b) == a - (a % b)

(***************************************************************************)
(* The sparse_context: usb_buf (usb_buf_len is its length), the transfers  *)
(* the bootloader received, the writer's last result, whether it took an   *)
(* "internal error" return, whether a memcpy ran past usb_buf's end (an   *)
(* overflow of the context); calls counts the _command_data calls so that   *)
(* the one numbered failAt can fail (usb_write error or short transfer).   *)
(***************************************************************************)
NewContext(failAt) ==
    [buf |-> <<>>, sent |-> <<>>, r |-> 0, internal |-> FALSE, overflow |-> FALSE,
     calls |-> 0, failAt |-> failAt]

_command_data(c, data) ==
    IF c.calls + 1 = c.failAt THEN [c EXCEPT !.r = -1, !.calls = @ + 1]
    ELSE [c EXCEPT !.sent = Append(@, data), !.calls = @ + 1]

\* memcpy(context->usb_buf + context->usb_buf_len, ptr, to_write)
Fill(c, bytes) ==
    [c EXCEPT !.buf = @ \o bytes, !.overflow = @ \/ Len(c.buf) + Len(bytes) > BufSize]

InternalError(c) == [c EXCEPT !.r = -1, !.internal = TRUE]

\* context->usb_buf_len = 0 once the buffer went out
EmptiedKeepsBuf(c) == c
Emptied(c) == IF c.r = 0 THEN [c EXCEPT !.buf = <<>>] ELSE c

\* fb_download_data_sparse_write: top up a partly filled buffer, send it
\* when full, send the whole buffers left in the chunk, keep the rest
fb_download_data_sparse_write(c, data) ==
    LET tw == IF c.buf # <<>> THEN min(BufSize - Len(c.buf), Len(data)) ELSE 0
        c1 == Fill(c, SubSeq(data, 1, tw))
        p1 == SubSeq(data, tw + 1, Len(data))
        c2 == IF Len(c1.buf) = BufSize THEN Emptied(_command_data(c1, c1.buf)) ELSE c1
        big == c2.r = 0 /\ Len(p1) > BufSize
        whole == round_down(Len(p1), BufSize)
        c3 == CASE ~big -> c2
                [] c2.buf # <<>> -> InternalError(c2)
                [] OTHER -> _command_data(c2, SubSeq(p1, 1, whole))
        p2 == IF big THEN SubSeq(p1, whole + 1, Len(p1)) ELSE p1
    IN CASE c3.r # 0 \/ p2 = <<>> -> c3
         [] Len(p2) > BufSize -> InternalError(c3)
         [] OTHER -> [c3 EXCEPT !.buf = p2]

\* sparse_file_callback: the chunks in order, stopping at the first error
RECURSIVE SparseCallback(_, _)
SparseCallback(c, chunks) ==
    IF chunks = <<>> \/ c.r # 0 THEN c
    ELSE SparseCallback(fb_download_data_sparse_write(c, Head(chunks)), Tail(chunks))

\* fb_download_data_sparse_flush: a partly filled buffer goes out
fb_download_data_sparse_flush(c) ==
    IF c.buf # <<>> THEN Emptied(_command_data(c, c.buf)) ELSE c

Delivered(c) == FlattenSeq(c.sent)

(***************************************************************************)
(* fb_download_data_sparse.  "download:%08x" announces size bytes; the      *)
(* flush's result is dropped; _command_end reads the bootloader's status,   *)
(* which (outside src/) is OKAY once exactly size bytes arrived, and else  *)
(* never comes, so check_response's usb_read fails.  Returns the result    *)
(* and the context it ended with.                                          *)
(***************************************************************************)
fb_download_data_sparse(chunks, failAt) ==
    LET size == Len(FlattenSeq(chunks))
        done == SparseCallback(NewContext(failAt), chunks)
        c == fb_download_data_sparse_flush(done)
    IN IF size <= 0 THEN [ret |-> -1, ctx |-> NewContext(failAt)]
       ELSE IF done.r < 0 THEN [ret |-> -1, ctx |-> done]
       ELSE [ret |-> IF Len(Delivered(c)) = size THEN 0 ELSE -1, ctx |-> c]

\* The chunks of a sparse file whose chunk lengths are lens, cutting 1..n
RECURSIVE Cut(_, _)
Cut(lens, from) ==
    IF lens = <<>> THEN <<>>
    ELSE <<[i \in 1..Head(lens) |-> from + i - 1]>> \o Cut(Tail(lens), from + Head(lens))
====
