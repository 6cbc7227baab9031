---------------------------- MODULE MC_GscvdRanges ----------------------------
EXTENDS GscvdRanges

\* An 8-byte image with uint32_t scaled to 3 bits: WP_RO is bytes 0..5 and
\* RO_GSCVD, inside it as in real images, bytes 4..5.  Room for two ranges
\* (MAX_RANGES is 32 in the code): enough for the pairwise overlap loop and
\* for a count one past the container.
MCW == 3
MCMaxRanges == 2
MCWpRo == [area_offset |-> 0, area_size |-> 6]
MCRoGscvd == [area_offset |-> 4, area_size |-> 2]

\* Ranges whose end does not wrap a uint32_t.
MCRangesNoWrap ==
    {r \in [offset : 0 .. 2^MCW - 1, size : 0 .. 2^MCW - 1] :
        r.offset + r.size < 2^MCW}

\* Every range a file can hold.
MCRangesAll == [offset : 0 .. 2^MCW - 1, size : 0 .. 2^MCW - 1]
====
