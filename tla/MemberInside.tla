---------------------------- MODULE MemberInside ----------------------------
(***************************************************************************)
(* vb2_offset_of and vb2_verify_member_inside (2common.c) with machine     *)
(* arithmetic at a word width of W bits: uintptr_t and size_t are W-bit    *)
(* unsigned, ptrdiff_t is W-bit two's complement.  A W-bit machine is the  *)
(* 32-bit firmware build scaled down; every wrap the checks guard against  *)
(* happens at this width too.                                              *)
(*                                                                         *)
(* One behaviour is one call: the arguments are any W-bit values, and the *)
(* call's single step computes its return code.                            *)
(***************************************************************************)
EXTENDS Integers

CONSTANT W   \* word width in bits

ASSUME W \in Nat /\ W >= 2

Word == 2^W
Words == 0 .. Word - 1

\* A value stored into a W-bit unsigned variable (uintptr_t, size_t).
U(x) == x % Word

\* A value stored into a W-bit signed variable (ptrdiff_t); the conversion
\* of an out-of-range unsigned value is modulo 2^W in the builds vboot
\* supports (gcc and clang define it so).  The signed overflow of
\* member_offs + member_data_offset is undefined; no later comparison lets
\* the compiler fold it away, so the build performs a machine add, which
\* wraps.
S(x) == IF U(x) >= Word \div 2 THEN U(x) - Word ELSE U(x)

\* The values of a W-bit ptrdiff_t.
SWords == -(Word \div 2) .. Word \div 2 - 1

\* The C relational operators on a ptrdiff_t and a size_t: the signed
\* operand is converted to size_t first (usual arithmetic conversions).
GtUnsigned(sgn, usz) == U(sgn) > usz

VARIABLES
    args,   \* the six arguments of the call
    ret     \* its return code; "pending" before it returns

vars == <<args, ret>>

\* enum vb2_return_code values of vb2_verify_member_inside.
Rets == {"SUCCESS", "INSIDE_PARENT_WRAPS", "INSIDE_MEMBER_WRAPS",
         "INSIDE_MEMBER_OUTSIDE", "INSIDE_DATA_OVERLAP",
         "INSIDE_DATA_WRAPS", "INSIDE_DATA_OUTSIDE"}

\* Pointers and sizes are words; member_data_offset is a ptrdiff_t given
\* by its W-bit pattern.
Args == [parent : Words, parent_size : Words, member : Words,
         member_size : Words, member_data_offset : Words,
         member_data_size : Words]

\* vb2_offset_of: the pointer difference as a ptrdiff_t.
OffsetOf(base, ptr) == S(ptr - base)

\* The const locals of vb2_verify_member_inside.
Locals(a) ==
    LET member_offs == OffsetOf(a.parent, a.member)
        data_offs   == S(member_offs + S(a.member_data_offset))
    IN [parent_end      |-> U(a.parent + a.parent_size),
        member_offs     |-> member_offs,
        member_end_offs |-> S(member_offs + a.member_size),
        data_offs       |-> data_offs,
        data_end_offs   |-> S(data_offs + a.member_data_size)]

\* Variant without the member wrap check ("member_end_offs < member_offs").
VerifyMemberInsideNoWrapCheck(a) ==
    LET l == Locals(a)
    IN CASE l.parent_end < a.parent -> "INSIDE_PARENT_WRAPS"
         [] \/ l.member_offs < 0
            \/ GtUnsigned(l.member_offs, a.parent_size)
            \/ GtUnsigned(l.member_end_offs, a.parent_size)
              -> "INSIDE_MEMBER_OUTSIDE"
         [] a.member_data_size > 0 /\ l.data_offs < l.member_end_offs
              -> "INSIDE_DATA_OVERLAP"
         [] l.data_end_offs < l.data_offs -> "INSIDE_DATA_WRAPS"
         [] \/ l.data_offs < 0
            \/ GtUnsigned(l.data_offs, a.parent_size)
            \/ GtUnsigned(l.data_end_offs, a.parent_size)
              -> "INSIDE_DATA_OUTSIDE"
         [] OTHER -> "SUCCESS"

\* Variant that uses >= where the code's comment insists on > (a member
\* that ends exactly at the end of the parent).
VerifyMemberInsideGe(a) ==
    LET l == Locals(a)
    IN CASE l.parent_end < a.parent -> "INSIDE_PARENT_WRAPS"
         [] l.member_end_offs < l.member_offs -> "INSIDE_MEMBER_WRAPS"
         [] \/ l.member_offs < 0
            \/ GtUnsigned(l.member_offs, a.parent_size)
            \/ U(l.member_end_offs) >= a.parent_size
              -> "INSIDE_MEMBER_OUTSIDE"
         [] a.member_data_size > 0 /\ l.data_offs < l.member_end_offs
              -> "INSIDE_DATA_OVERLAP"
         [] l.data_end_offs < l.data_offs -> "INSIDE_DATA_WRAPS"
         [] \/ l.data_offs < 0
            \/ GtUnsigned(l.data_offs, a.parent_size)
            \/ GtUnsigned(l.data_end_offs, a.parent_size)
              -> "INSIDE_DATA_OUTSIDE"
         [] OTHER -> "SUCCESS"

\* vb2_verify_member_inside: the checks in code order on its locals.
VerifyMemberInside(a) ==
    LET l == Locals(a)
    IN CASE l.parent_end < a.parent -> "INSIDE_PARENT_WRAPS"
         [] l.member_end_offs < l.member_offs -> "INSIDE_MEMBER_WRAPS"
         [] \/ l.member_offs < 0
            \/ GtUnsigned(l.member_offs, a.parent_size)
            \/ GtUnsigned(l.member_end_offs, a.parent_size)
              -> "INSIDE_MEMBER_OUTSIDE"
         [] a.member_data_size > 0 /\ l.data_offs < l.member_end_offs
              -> "INSIDE_DATA_OVERLAP"
         [] l.data_end_offs < l.data_offs -> "INSIDE_DATA_WRAPS"
         [] \/ l.data_offs < 0
            \/ GtUnsigned(l.data_offs, a.parent_size)
            \/ GtUnsigned(l.data_end_offs, a.parent_size)
              -> "INSIDE_DATA_OUTSIDE"
         [] OTHER -> "SUCCESS"

Init == args \in Args /\ ret = "pending"

\* The call returns.
Return ==
    /\ ret = "pending"
    /\ ret' = VerifyMemberInside(args)
    /\ UNCHANGED args

Next == Return

Spec == Init /\ [][Next]_vars

-----------------------------------------------------------------------------
(* Reference: the regions as sets of addresses in unbounded integers *)

\* The half-open address range [lo, lo + n) with no wrap.
Region(lo, n) == lo .. lo + n - 1

\* What the caller relies on after a success: the parent does not wrap the
\* address space, the member lies in it, its data lies in it, and nonempty
\* data does not overlap the member.  The data's address is member plus the
\* signed data offset, as vb2_member_of computes it.
Contained(a) ==
    LET dataAt == a.member + S(a.member_data_offset)
    IN /\ a.parent + a.parent_size <= Word
       /\ a.parent <= a.member
       /\ a.member + a.member_size <= a.parent + a.parent_size
       /\ a.parent <= dataAt
       /\ dataAt + a.member_data_size <= a.parent + a.parent_size
       /\ a.member_data_size > 0 =>
            Region(dataAt, a.member_data_size)
              \cap Region(a.member, a.member_size) = {}

-----------------------------------------------------------------------------
(* Properties *)

\* vb2_verify_member_inside accepts only a member and member data that lie
\* wholly inside a parent that does not wrap, whatever the wraps of its own
\* ptrdiff_t and uintptr_t sums: a success is never given to a region that
\* reaches past the parent or around the address space.
SuccessImpliesContained ==
    ret = "SUCCESS" => Contained(args)

\* vb2_verify_member_inside rejects nothing that is contained, as long as
\* the parent ends below the top of the address space and its offsets fit
\* a ptrdiff_t: the checks are not stricter than containment.
ContainedImpliesSuccess ==
    (/\ ret # "pending" /\ Contained(args)
     /\ args.parent + args.parent_size < Word
     /\ args.parent_size < Word \div 2
     /\ args.member_data_offset < Word \div 2)
        => ret = "SUCCESS"

====
