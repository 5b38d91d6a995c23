--------------------------- MODULE MC_FastbootQueue ---------------------------
EXTENDS FastbootQueue

\* every update but recovery given a file (with -S and -D); -e without -B;
\* a reboot, alone and after a file; a listing; an unknown option after a file; yaffs2 images that
\* fit one download, that take a full and a short chunk, and that take
\* exactly two full chunks of the 16512-byte (2 * (8192 + 64)) maximum
MCArgvs == {<<"S", "w", "u", "b", "l", "e", "B", "s", "d", "D">>, <<"e", "s">>,
            <<"R">>, <<"s", "R">>, <<"L", "R">>, <<"s", "?", "d">>}
MCNandInfos == {"pagesize=8192,oobsize=64", "oobsize=64"}
MCMaxSizes == {"16512", "12"}
MCImageSizes == {16512, 24768, 33024}
====
