----------------------------- MODULE GscvdRanges -----------------------------
(***************************************************************************)
(* The RO-range checks of futility's gscvd command (cmd_gscvd.c) on the    *)
(* validation path: validate_gvd checks the range count read from the      *)
(* file, copy_ranges copies the ranges into the fixed container and calls  *)
(* verify_ranges, and calculate_ranges_digest then reads every range of    *)
(* the mapped file.  The signing path runs the same verify_ranges and the  *)
(* same digest over the ranges given on the command line.                  *)
(*                                                                         *)
(* Offsets and sizes are uint32_t, scaled down to W bits; sums of two      *)
(* uint32_t wrap, a uint32_t plus a size_t (64-bit on the host) does not.  *)
(***************************************************************************)
EXTENDS Integers, Sequences, FiniteSets

CONSTANTS
    W,            \* width of a uint32_t, scaled down
    MAX_RANGES,   \* MAX_RANGES, the capacity of struct gscvd_ro_ranges
    WP_RO,        \* the WP_RO FMAP area: [area_offset, area_size]
    RO_GSCVD,     \* the RO_GSCVD FMAP area
    RangeSet      \* the struct gscvd_ro_range values a file may hold

Word == 2^W

ASSUME /\ MAX_RANGES \in Nat \ {0}
       /\ RangeSet \subseteq [offset : 0 .. Word - 1, size : 0 .. Word - 1]

\* A sum stored in, or computed as, a uint32_t.
U(x) == x % Word

VARIABLES
    pc,          \* the step that runs next
    gvd,         \* the file's GVD header: range_count and the ranges
    ranges,      \* the local struct gscvd_ro_ranges
    i,           \* the loop index of verify_ranges and of the digest loop
    errorcount,  \* verify_ranges' error count
    reads,       \* the file offsets the digest has read
    rv           \* what validate_gscvd's checks end with

vars == <<pc, gvd, ranges, i, errorcount, reads, rv>>

\* A GVD as read from the file: any range count up to one past the
\* container, followed by that many ranges.
Gvds == UNION {[range_count : {c}, ranges : [1 .. c -> RangeSet]] :
                  c \in 0 .. MAX_RANGES + 1}

-----------------------------------------------------------------------------
(* The range helpers *)

\* in_range: the end of the area is included.
InRange(offset, ah) ==
    offset >= ah.area_offset /\ offset <= U(ah.area_offset + ah.area_size)

\* range_fits: both the start and the (uint32_t) end are in the area.
RangeFits(range, ah) ==
    InRange(range.offset, ah) /\ InRange(U(range.offset + range.size), ah)

\* Variant of range_overlaps that counts touching ranges as overlapping.
RangeOverlapsTouching(range, offset, size) ==
    ~(U(range.offset + range.size) < offset \/ offset + size < range.offset)

\* range_overlaps: the range's end is a uint32_t sum, the area's end a
\* size_t one.
RangeOverlaps(range, offset, size) ==
    ~(U(range.offset + range.size) <= offset \/ offset + size <= range.offset)

\* The errors one iteration of verify_ranges' outer loop adds, with the
\* inner loop starting at j = i + 1 (indices here are 1-based).
Iteration(rs, k, first) ==
    LET r == rs[k]
        later == {j \in first .. Len(rs) :
                    RangeOverlaps(r, rs[j].offset, rs[j].size)}
    IN (IF RangeFits(r, WP_RO) THEN 0 ELSE 1)
       + (IF RangeOverlaps(r, RO_GSCVD.area_offset, RO_GSCVD.area_size)
          THEN 1 ELSE 0)
       + (IF k = Len(rs) THEN 0 ELSE Cardinality(later))

\* Variant whose "last range" break comes before the RO_GSCVD check.
RangeErrorsBreakFirst(rs, k) ==
    IF k = Len(rs) THEN (IF RangeFits(rs[k], WP_RO) THEN 0 ELSE 1)
    ELSE Iteration(rs, k, k + 1)

\* Variant whose inner loop starts one range too late.
RangeErrorsSkipNext(rs, k) == Iteration(rs, k, k + 2)

\* One iteration of verify_ranges' outer loop.
RangeErrors(rs, k) == Iteration(rs, k, k + 1)

-----------------------------------------------------------------------------
(* validate_gscvd, from validate_gvd to the ranges digest *)

Init ==
    /\ pc = "ValidateGvd"
    /\ gvd \in Gvds
    /\ ranges = <<>> /\ i = 1 /\ errorcount = 0
    /\ reads = {} /\ rv = 0

\* Variant of validate_gvd without the upper bound on range_count.
ValidateGvdNoMax ==
    /\ pc = "ValidateGvd"
    /\ IF gvd.range_count = 0
       THEN pc' = "Done" /\ rv' = -1
       ELSE pc' = "CopyRanges" /\ UNCHANGED rv
    /\ UNCHANGED <<gvd, ranges, i, errorcount, reads>>

\* validate_gvd's range-count check (the magic, FMAP and key checks are
\* not about ranges and are taken to pass).
ValidateGvd ==
    /\ pc = "ValidateGvd"
    /\ IF gvd.range_count = 0 \/ gvd.range_count > MAX_RANGES
       THEN pc' = "Done" /\ rv' = -1
       ELSE pc' = "CopyRanges" /\ UNCHANGED rv
    /\ UNCHANGED <<gvd, ranges, i, errorcount, reads>>

\* copy_ranges: memcpy range_count ranges into the container, then
\* verify_ranges looks up WP_RO, which the file may lack.
CopyRanges ==
    /\ pc = "CopyRanges"
    /\ ranges' = gvd.ranges
    /\ \/ pc' = "VerifyRanges" /\ i' = 1 /\ errorcount' = 0 /\ UNCHANGED rv
       \/ pc' = "Done" /\ rv' = 1 /\ UNCHANGED <<i, errorcount>>
    /\ UNCHANGED <<gvd, reads>>

\* One pass of verify_ranges' outer loop.
VerifyRange ==
    /\ pc = "VerifyRanges" /\ i <= Len(ranges)
    /\ errorcount' = errorcount + RangeErrors(ranges, i)
    /\ i' = i + 1
    /\ UNCHANGED <<pc, gvd, ranges, reads, rv>>

\* verify_ranges returns; copy_ranges' failure ends validate_gscvd, success
\* goes on to calculate_ranges_digest, whose vb2_digest_init fails for a
\* hash_alg the file names but vb2 does not support.
VerifyRangesDone ==
    /\ pc = "VerifyRanges" /\ i > Len(ranges)
    /\ \/ errorcount # 0 /\ pc' = "Done" /\ rv' = -1 /\ UNCHANGED i
       \/ errorcount = 0 /\ pc' = "Digest" /\ i' = 1 /\ UNCHANGED rv
       \/ errorcount = 0 /\ pc' = "Done" /\ rv' = 1 /\ UNCHANGED i
    /\ UNCHANGED <<gvd, ranges, errorcount, reads>>

\* vb2_digest_extend over data + ranges[i].offset, ranges[i].size bytes
\* (pointer arithmetic on the host: no wrap).
DigestExtend ==
    /\ pc = "Digest" /\ i <= Len(ranges)
    /\ reads' = reads \cup (ranges[i].offset .. ranges[i].offset
                                                 + ranges[i].size - 1)
    /\ i' = i + 1
    /\ UNCHANGED <<pc, gvd, ranges, errorcount, rv>>

\* vb2_digest_finalize; the digest is then compared with the file's.
DigestDone ==
    /\ pc = "Digest" /\ i > Len(ranges)
    /\ pc' = "Done" /\ rv' = 0
    /\ UNCHANGED <<gvd, ranges, i, errorcount, reads>>

Next ==
    \/ ValidateGvd \/ CopyRanges \/ VerifyRange \/ VerifyRangesDone
    \/ DigestExtend \/ DigestDone

Spec == Init /\ [][Next]_vars

-----------------------------------------------------------------------------
(* Reference: ranges as sets of file offsets, in unbounded integers *)

Region(lo, n) == lo .. lo + n - 1

AreaBytes(ah) == Region(ah.area_offset, ah.area_size)

RangeBytes(r) == Region(r.offset, r.size)

\* What verify_ranges' comment promises of a set of ranges: each lies in
\* WP_RO, none meets RO_GSCVD, no two meet.
RangesValid(rs) ==
    /\ \A k \in DOMAIN rs :
          /\ RangeBytes(rs[k]) \subseteq AreaBytes(WP_RO)
          /\ RangeBytes(rs[k]) \cap AreaBytes(RO_GSCVD) = {}
    /\ \A k, l \in DOMAIN rs :
          k # l => RangeBytes(rs[k]) \cap RangeBytes(rs[l]) = {}

-----------------------------------------------------------------------------
(* Properties *)

\* The local container never holds more ranges than it has room for
\* (copy_ranges memcpys range_count entries into ranges[MAX_RANGES]).
TypeOK ==
    /\ pc \in {"ValidateGvd", "CopyRanges", "VerifyRanges", "Digest", "Done"}
    /\ gvd \in Gvds
    /\ ranges \in UNION {[1 .. c -> RangeSet] : c \in 0 .. MAX_RANGES}
    /\ i \in 1 .. MAX_RANGES + 1
    /\ errorcount \in Nat /\ reads \subseteq Nat /\ rv \in {-1, 0, 1}

\* calculate_ranges_digest reads only bytes of WP_RO outside RO_GSCVD: the
\* ranges verify_ranges let through never reach outside the protected
\* area, into the verification data itself, or past the mapped file.
DigestReadsInsideWpRo ==
    reads \subseteq AreaBytes(WP_RO) \ AreaBytes(RO_GSCVD)

\* Ranges validate_gscvd accepts and hashes do not overlap one another.
AcceptedRangesDisjoint ==
    (pc = "Done" /\ rv = 0) => RangesValid(ranges)

\* Every GVD whose range count fits and whose nonempty ranges are valid is
\* accepted, unless the file lacks WP_RO or names an unsupported hash: the
\* checks of verify_ranges are not stricter than its comment.
ValidRangesAccepted ==
    (/\ pc = "Done" /\ rv # 1
     /\ gvd.range_count \in 1 .. MAX_RANGES
     /\ RangesValid(gvd.ranges)
     /\ \A k \in DOMAIN gvd.ranges : gvd.ranges[k].size > 0)
        => rv = 0

====
