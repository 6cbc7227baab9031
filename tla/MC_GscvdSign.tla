----------------------------- MODULE MC_GscvdSign -----------------------------
EXTENDS GscvdSign

\* The layout of MC_GscvdRanges (WP_RO bytes 0..5, RO_GSCVD 4..5 of an
\* 8-byte image).  The ranges: two that tile bytes 0..3, one overlapping
\* both, one reaching into RO_GSCVD and one outside WP_RO.
MCW == 3
MCMaxRanges == 2
MCWpRo == [area_offset |-> 0, area_size |-> 6]
MCRoGscvd == [area_offset |-> 4, area_size |-> 2]
MCRangeSet == {[offset |-> 0, size |-> 2], [offset |-> 2, size |-> 2],
               [offset |-> 1, size |-> 2], [offset |-> 3, size |-> 2],
               [offset |-> 6, size |-> 1]}

\* The work buffer scaled with the word: 4 bytes of an 8-value uint32_t,
\* aligned to 2; the keyblock check needs 2 bytes after the copy.
MCAlign == 2
MCWbSize == 4
MCVerifyWb == 2
\* A GVD of one byte; a keyblock file of one byte (fits RO_GSCVD after the
\* GVD) or of two (passes the key check, does not fit).
MCGvdSize == 1
MCKbSizes == {1, 2}
\* Changed sizes: too small for the GVD's headers (0), in the area or at
\* its end (3), at or past the end of the image (4, 5), too big for the
\* work buffer (5) and one whose round-up wraps to 0 (7).
MCSizeSet == {0, 3, 4, 5, 7}

\* Two changes between signing and validation.
MCMaxTamper == 2
====
