------------------------------- MODULE WorkBuf -------------------------------
(***************************************************************************)
(* The work-buffer bump allocator of 2common.c (vb2_align,                 *)
(* vb2_workbuf_init, _alloc, _realloc, _free) driven by a caller that      *)
(* frees in LIFO order, as the allocator's contract demands.  Pointers and *)
(* the uint32_t sizes are W-bit words (the 32-bit firmware build scaled    *)
(* down); ALIGN is VB2_WORKBUF_ALIGN.                                      *)
(***************************************************************************)
EXTENDS Integers, Sequences, Bitwise

CONSTANTS
    W,        \* word width in bits of uintptr_t and uint32_t
    ALIGN,    \* VB2_WORKBUF_ALIGN, a power of two
    Sizes,    \* the sizes the caller asks for
    MaxLive   \* bound on the number of live allocations

ASSUME /\ W \in Nat /\ ALIGN \in {2^k : k \in 1..W-1}
       /\ Sizes \subseteq 0..2^W-1 /\ MaxLive \in Nat

Word == 2^W
Words == 0 .. Word - 1

\* A value stored into a W-bit unsigned variable.
U(x) == x % Word

VARIABLES
    wb,       \* struct vb2_workbuf: [buf, size]
    base,     \* the region passed to vb2_workbuf_init ...
    len,      \* ... and its length
    initWb,   \* wb as vb2_workbuf_init left it
    live      \* the caller's allocations, oldest first: [ptr, n]

vars == <<wb, base, len, initWb, live>>

-----------------------------------------------------------------------------
(* 2common.c *)

\* Variant of vb2_align without the "*size < offs" check.
AlignNoSizeCheck(p, size, align, want_size) ==
    LET offs0 == p & (align - 1)
        p2    == IF offs0 # 0 THEN U(p + align - offs0) ELSE p
        size2 == IF offs0 # 0 THEN U(size - (align - offs0)) ELSE size
    IN [err |-> IF size2 < want_size THEN "ALIGN_SIZE" ELSE "SUCCESS",
        ptr |-> p2, size |-> size2]

\* vb2_align: the pointer and size after the call, and its return code.
\* Both are written before the final size check can fail.
Align(p, size, align, want_size) ==
    LET offs0 == p & (align - 1)
        offs  == align - offs0
        p2    == IF offs0 # 0 THEN U(p + offs) ELSE p
        size2 == IF offs0 # 0 THEN size - offs ELSE size
    IN IF offs0 # 0 /\ size < offs
       THEN [err |-> "ALIGN_BIGGER_THAN_SIZE", ptr |-> p, size |-> size]
       ELSE [err |-> IF size2 < want_size THEN "ALIGN_SIZE" ELSE "SUCCESS",
             ptr |-> p2, size |-> size2]

\* vb2_wb_round_up, stored into the uint32_t size of the caller.
RoundUp(n) == U(((n + ALIGN - 1) \div ALIGN) * ALIGN)

\* Variant of vb2_workbuf_init that does not align the buffer.
WorkbufInitNoAlign(b, l) == [buf |-> b, size |-> l]

\* vb2_workbuf_init: align the start; a region too small to align is empty.
WorkbufInit(b, l) ==
    LET r == Align(b, l, ALIGN, 0)
    IN [buf |-> r.ptr, size |-> IF r.err # "SUCCESS" THEN 0 ELSE r.size]

\* Variant of vb2_workbuf_alloc without the "size > wb->size" check.
WorkbufAllocNoCheck(w, n) ==
    [null |-> FALSE, ptr |-> w.buf,
     wb  |-> [buf |-> U(w.buf + RoundUp(n)), size |-> U(w.size - RoundUp(n))]]

\* vb2_workbuf_alloc: whether it returns NULL, the pointer otherwise, and
\* the work buffer after the call.
WorkbufAlloc(w, n) ==
    IF RoundUp(n) > w.size
    THEN [null |-> TRUE, ptr |-> 0, wb |-> w]
    ELSE [null |-> FALSE, ptr |-> w.buf,
          wb  |-> [buf |-> U(w.buf + RoundUp(n)), size |-> w.size - RoundUp(n)]]

\* Variant of vb2_workbuf_free that rewinds the unrounded size.
WorkbufFreeUnrounded(w, n) == [buf |-> U(w.buf - n), size |-> U(w.size + n)]

\* vb2_workbuf_free: rewind by the rounded size.
WorkbufFree(w, n) ==
    [buf |-> U(w.buf - RoundUp(n)), size |-> U(w.size + RoundUp(n))]

\* Variant of vb2_workbuf_realloc that allocates before it frees.
WorkbufReallocAllocFirst(w, oldn, newn) ==
    LET r == WorkbufAlloc(w, newn)
    IN IF r.null THEN [r EXCEPT !.wb = WorkbufFree(w, oldn)]
       ELSE [r EXCEPT !.wb = WorkbufFree(r.wb, oldn)]

\* vb2_workbuf_realloc: free the old size, then allocate the new one.
WorkbufRealloc(w, oldn, newn) == WorkbufAlloc(WorkbufFree(w, oldn), newn)

-----------------------------------------------------------------------------
(* The caller *)

\* A caller starts over with a fresh region of memory (it does this once
\* per boot stage); no allocation of the old region is live any more.
CallInit ==
    /\ live = <<>>
    /\ \E b \in Words, l \in Words :
          /\ b + l <= Word
          /\ base' = b /\ len' = l
          /\ wb' = WorkbufInit(b, l) /\ initWb' = wb'
    /\ UNCHANGED live

\* vb2_workbuf_alloc(&wb, n); a non-NULL result becomes live.
CallAlloc ==
    /\ Len(live) < MaxLive
    /\ \E n \in Sizes :
          LET r == WorkbufAlloc(wb, n)
          IN /\ wb' = r.wb
             /\ live' = IF r.null THEN live
                        ELSE Append(live, [ptr |-> r.ptr, n |-> n])
    /\ UNCHANGED <<base, len, initWb>>

\* vb2_workbuf_free of the newest allocation.
CallFree ==
    /\ live # <<>>
    /\ wb' = WorkbufFree(wb, live[Len(live)].n)
    /\ live' = SubSeq(live, 1, Len(live) - 1)
    /\ UNCHANGED <<base, len, initWb>>

\* vb2_workbuf_realloc of the newest allocation to a new size; on failure
\* the old allocation has been freed.
CallRealloc ==
    /\ live # <<>>
    /\ \E n \in Sizes :
          LET r == WorkbufRealloc(wb, live[Len(live)].n, n)
              rest == SubSeq(live, 1, Len(live) - 1)
          IN /\ wb' = r.wb
             /\ live' = IF r.null THEN rest
                        ELSE Append(rest, [ptr |-> r.ptr, n |-> n])
    /\ UNCHANGED <<base, len, initWb>>

Init ==
    /\ base = 0 /\ len = 0
    /\ wb = [buf |-> 0, size |-> 0] /\ initWb = wb
    /\ live = <<>>

Next == CallInit \/ CallAlloc \/ CallFree \/ CallRealloc

Spec == Init /\ [][Next]_vars

-----------------------------------------------------------------------------
(* Properties *)

\* [lo, lo + n) as a set of addresses, in unbounded integers.
Region(lo, n) == lo .. lo + n - 1

\* The work buffer and every live allocation are regions of the address
\* space (they do not run past its top).
TypeOK ==
    /\ wb.buf \in Words /\ wb.size \in Words /\ wb.buf + wb.size <= Word
    /\ base \in Words /\ len \in Words /\ base + len <= Word
    /\ live \in Seq([ptr : Words, n : Sizes])
    /\ \A i \in DOMAIN live : live[i].ptr + live[i].n <= Word

\* Every byte a live allocation hands out lies in the region given to
\* vb2_workbuf_init, no two live allocations share a byte, and none shares
\* a byte with what the allocator still considers free: alloc, realloc and
\* LIFO free never give one byte to two owners.
AllocationsExclusive ==
    LET owned == [i \in DOMAIN live |-> Region(live[i].ptr, live[i].n)]
    IN /\ \A i \in DOMAIN live : owned[i] \subseteq Region(base, len)
       /\ \A i, j \in DOMAIN live : i # j => owned[i] \cap owned[j] = {}
       /\ \A i \in DOMAIN live : owned[i] \cap Region(wb.buf, wb.size) = {}

\* Every pointer vb2_workbuf_alloc returns for at least one byte is
\* VB2_WORKBUF_ALIGN-aligned, even in a region that did not start aligned.
\* (A region too small to align keeps its unaligned start with size 0, so
\* only a zero-byte allocation can get that pointer.)
AllocationsAligned ==
    \A i \in DOMAIN live : live[i].n > 0 => live[i].ptr % ALIGN = 0

\* Once the caller has freed everything it allocated, the work buffer is
\* exactly as vb2_workbuf_init left it: rounding on free matches rounding
\* on alloc.
FreeAllRestores ==
    live = <<>> => wb = initWb

\* A successful vb2_workbuf_realloc returns the pointer it was given (the
\* guarantee its comment states).
ReallocKeepsPointer ==
    [][CallRealloc /\ Len(live') = Len(live)
         => live'[Len(live')].ptr = live[Len(live)].ptr]_vars

====
