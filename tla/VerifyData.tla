------------------------------ MODULE VerifyData ------------------------------
(***************************************************************************)
(* vb2_verify_data and vb2_verify_digest (2common.c): hash the signed data *)
(* on the hardware engine or in software, then check the signature on the  *)
(* hardware RSA engine or in software, with the digest kept at the start   *)
(* of a local copy of the work buffer.  vb2_safe_memcmp is the compare the *)
(* software RSA path ends with.                                            *)
(*                                                                         *)
(* One behaviour is one call.  Its arguments are abstracted to what the    *)
(* code decides on; each answer of a hardware engine is chosen when the    *)
(* engine is called.  A digest is a short byte sequence.                   *)
(***************************************************************************)
EXTENDS Integers, Sequences, Bitwise

CONSTANTS
    W,            \* word width of the work buffer's pointers and sizes
    ALIGN,        \* VB2_WORKBUF_ALIGN
    Bytes,        \* values of a byte
    DLEN,         \* vb2_digest_size of a known hash algorithm
    RSA_SCRATCH,  \* work buffer the software RSA verify allocates
    WbSizes       \* sizes of the work buffer the caller passes

ASSUME DLEN \in Nat \ {0} /\ RSA_SCRATCH \in Nat /\ WbSizes \subseteq Nat

VARIABLES
    pc,         \* the step that runs next
    in,         \* the call's arguments, abstracted
    wb0,        \* *wb as passed by the caller
    wbl,        \* wblocal
    digestAt,   \* where the digest was allocated
    digest,     \* the digest bytes in the work buffer
    rv,         \* the return value
    engineErr   \* the error a hardware engine answered, "None" if none

vars == <<pc, in, wb0, wbl, digestAt, digest, rv, engineErr>>

WB == INSTANCE WorkBuf WITH Sizes <- {DLEN}, MaxLive <- 0,
                           wb <- wbl, base <- 0, len <- 0, initWb <- wbl,
                           live <- <<>>

Digests == [1 .. DLEN -> Bytes]

\* The digest of the signed data, and a different digest that a signature
\* over other data embeds (they differ in the last byte only).
DataDigest == [i \in 1 .. DLEN |-> 1]
OtherDigest == [DataDigest EXCEPT ![DLEN] = 2]

\* The arguments: whether sig->data_size <= size, whether the signature is
\* the key's signature over these data, whether the hash algorithm has a
\* digest size, whether sig->sig_size fits the key's algorithm, whether
\* the key allows hardware crypto, and the work buffer size.
Inputs == [dataFits : BOOLEAN, valid : BOOLEAN, algKnown : BOOLEAN,
           sigSizeOk : BOOLEAN, allowHw : BOOLEAN, wbSize : WbSizes]

\* The digest the signature embeds.
Embedded == IF in.valid THEN DataDigest ELSE OtherDigest

Rets == {"SUCCESS", "VDATA_NOT_ENOUGH_DATA", "VDATA_DIGEST_SIZE",
         "VDATA_WORKBUF_DIGEST", "VDATA_SIG_SIZE", "HW_ERROR", "HW_UNSUPPORTED",
         "RSA_WORKBUF", "RSA_VERIFY_DIGEST"}

Return(r) == pc' = "Done" /\ rv' = r

-----------------------------------------------------------------------------
(* vb2_safe_memcmp *)

\* Variant of the loop that runs "while (--size)" and skips a byte.
RECURSIVE MemcmpAccShort(_, _, _)
MemcmpAccShort(s1, s2, k) ==
    IF k <= 1 THEN 0 ELSE MemcmpAccShort(s1, s2, k - 1) | (s1[k] ^^ s2[k])

\* The loop: result |= *us1++ ^ *us2++ over the first k bytes.
RECURSIVE MemcmpAcc(_, _, _)
MemcmpAcc(s1, s2, k) ==
    IF k = 0 THEN 0 ELSE MemcmpAcc(s1, s2, k - 1) | (s1[k] ^^ s2[k])

\* vb2_safe_memcmp: 0 when the first size bytes are equal, 1 otherwise.
SafeMemcmp(s1, s2, size) ==
    IF size = 0 THEN 0 ELSE IF MemcmpAcc(s1, s2, size) # 0 THEN 1 ELSE 0

-----------------------------------------------------------------------------
(* vb2_verify_data *)

Init ==
    /\ pc = "Start"
    /\ in \in Inputs
    /\ wb0 = [buf |-> 0, size |-> in.wbSize] /\ wbl = wb0
    /\ digestAt = 0 /\ digest = DataDigest
    /\ rv = "SUCCESS" /\ engineErr = "None"

\* The checks before hashing and the digest allocation from wblocal; the
\* allocated bytes hold whatever the buffer held before.
Start ==
    /\ pc = "Start"
    /\ \/ ~in.dataFits /\ Return("VDATA_NOT_ENOUGH_DATA")
          /\ UNCHANGED <<wbl, digestAt, digest>>
       \/ in.dataFits /\ ~in.algKnown /\ Return("VDATA_DIGEST_SIZE")
          /\ UNCHANGED <<wbl, digestAt, digest>>
       \/ /\ in.dataFits /\ in.algKnown
          /\ LET r == WB!WorkbufAlloc(wbl, DLEN)
             IN \/ r.null /\ Return("VDATA_WORKBUF_DIGEST")
                   /\ UNCHANGED <<wbl, digestAt, digest>>
                \/ /\ ~r.null
                   /\ wbl' = r.wb /\ digestAt' = r.ptr
                   /\ digest' \in Digests
                   /\ pc' = IF in.allowHw THEN "HwInit" ELSE "SwDigest"
                   /\ UNCHANGED rv
    /\ UNCHANGED <<in, wb0, engineErr>>

\* Variant that falls back to software hashing on any engine error.
HwInitFallbackOnError ==
    /\ pc = "HwInit"
    /\ \/ pc' = "HwDigest" /\ UNCHANGED <<rv, engineErr>>
       \/ pc' = "SwDigest" /\ UNCHANGED <<rv, engineErr>>
       \/ pc' = "SwDigest" /\ engineErr' = "HW_ERROR" /\ UNCHANGED rv
    /\ UNCHANGED <<in, wb0, wbl, digestAt, digest>>

\* vb2ex_hwcrypto_digest_init: success, unsupported (use software) or an
\* engine error, which is returned.
HwInit ==
    /\ pc = "HwInit"
    /\ \/ pc' = "HwDigest" /\ UNCHANGED <<rv, engineErr>>
       \/ pc' = "SwDigest" /\ UNCHANGED <<rv, engineErr>>
       \/ Return("HW_ERROR") /\ engineErr' = "HW_ERROR"
    /\ UNCHANGED <<in, wb0, wbl, digestAt, digest>>

\* VB2_TRY(vb2ex_hwcrypto_digest_extend(...)) then
\* VB2_TRY(vb2ex_hwcrypto_digest_finalize(digest, ...)).
HwDigest ==
    /\ pc = "HwDigest"
    /\ \/ digest' = DataDigest /\ pc' = "SigSize"
          /\ UNCHANGED <<rv, engineErr>>
       \/ Return("HW_ERROR") /\ engineErr' = "HW_ERROR" /\ UNCHANGED digest
    /\ UNCHANGED <<in, wb0, wbl, digestAt>>

\* VB2_TRY(vb2_digest_buffer(data, sig->data_size, ..., digest, ...)); the
\* digest size is that of the same algorithm, so software hashing of a
\* known algorithm does not fail.
SwDigest ==
    /\ pc = "SwDigest"
    /\ digest' = DataDigest /\ pc' = "SigSize"
    /\ UNCHANGED <<in, wb0, wbl, digestAt, rv, engineErr>>

-----------------------------------------------------------------------------
(* vb2_verify_digest(key, sig, digest, &wblocal) *)

\* Variant that hands the RSA code the caller's work buffer, whose start
\* is where the digest lives.
VerifyDigestWbCaller == wb0

\* The work buffer vb2_verify_data passes on: wblocal, past the digest.
VerifyDigestWb == wbl

SigSize ==
    /\ pc = "SigSize"
    /\ \/ ~in.sigSizeOk /\ Return("VDATA_SIG_SIZE")
       \/ /\ in.sigSizeOk
          /\ pc' = IF in.allowHw THEN "HwRsa" ELSE "SwRsa"
          /\ UNCHANGED rv
    /\ UNCHANGED <<in, wb0, wbl, digestAt, digest, engineErr>>

\* Variant that returns the engine's answer even when it is "unsupported".
HwRsaNoFallback ==
    /\ pc = "HwRsa"
    /\ \/ Return(IF digest = Embedded THEN "SUCCESS"
                 ELSE "RSA_VERIFY_DIGEST") /\ UNCHANGED engineErr
       \/ Return("HW_UNSUPPORTED") /\ UNCHANGED engineErr
       \/ Return("HW_ERROR") /\ engineErr' = "HW_ERROR"
    /\ UNCHANGED <<in, wb0, wbl, digestAt, digest>>

\* vb2ex_hwcrypto_rsa_verify_digest: the engine's verdict, "unsupported"
\* (use software), or an engine error; all but "unsupported" are returned.
HwRsa ==
    /\ pc = "HwRsa"
    /\ \/ Return(IF digest = Embedded THEN "SUCCESS"
                 ELSE "RSA_VERIFY_DIGEST") /\ UNCHANGED engineErr
       \/ pc' = "SwRsa" /\ UNCHANGED <<rv, engineErr>>
       \/ Return("HW_ERROR") /\ engineErr' = "HW_ERROR"
    /\ UNCHANGED <<in, wb0, wbl, digestAt, digest>>

\* vb2_rsa_verify_digest: allocate its scratch from the work buffer it is
\* given (what it writes there is lost to whatever else lives there), then
\* compare the digest the signature embeds with vb2_safe_memcmp.
SwRsa ==
    /\ pc = "SwRsa"
    /\ LET w == VerifyDigestWb
           scratch == w.buf .. w.buf + RSA_SCRATCH - 1
           clobbered == scratch \cap (digestAt .. digestAt + DLEN - 1) # {}
       IN \/ w.size < RSA_SCRATCH /\ Return("RSA_WORKBUF")
             /\ UNCHANGED digest
          \/ /\ w.size >= RSA_SCRATCH
             /\ digest' \in IF clobbered THEN Digests ELSE {digest}
             /\ Return(IF SafeMemcmp(digest', Embedded, DLEN) = 0
                       THEN "SUCCESS" ELSE "RSA_VERIFY_DIGEST")
    /\ UNCHANGED <<in, wb0, wbl, digestAt, engineErr>>

Next == Start \/ HwInit \/ HwDigest \/ SwDigest \/ SigSize \/ HwRsa \/ SwRsa

Spec == Init /\ [][Next]_vars

-----------------------------------------------------------------------------
(* Properties *)

\* vb2_safe_memcmp reports equal exactly when the first size bytes are
\* equal: for the digest the work buffer holds (every byte pattern, since
\* the allocation is uninitialised), any other digest and any size.
SafeMemcmpIsEquality ==
    \A s2 \in Digests, k \in 0 .. DLEN :
        (SafeMemcmp(digest, s2, k) = 0) <=> (\A i \in 1 .. k : digest[i] = s2[i])

\* vb2_verify_data succeeds only for the key's signature over data that fit
\* the buffer, whichever of the hardware and software paths hashed and
\* verified, and whatever the uninitialised work buffer held.
AcceptsOnlyValid ==
    (pc = "Done" /\ rv = "SUCCESS") => (in.valid /\ in.dataFits)

\* vb2_verify_data accepts a good signature whenever no engine failed and
\* the work buffer is big enough: an engine that is merely unsupported
\* falls back to software rather than failing the check.
AcceptsValid ==
    (/\ pc = "Done" /\ engineErr = "None"
     /\ in.valid /\ in.dataFits /\ in.algKnown /\ in.sigSizeOk
     /\ in.wbSize >= WB!RoundUp(DLEN) + RSA_SCRATCH)
        => rv = "SUCCESS"

\* An engine error other than "unsupported" ends the call with that error;
\* it never falls back to software (the hardware may have been tampered
\* with, and the spec says such errors are returned verbatim).
EngineErrorReturned ==
    (pc = "Done" /\ engineErr # "None") => rv = engineErr

====
