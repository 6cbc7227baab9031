------------------------------ MODULE GscvdSign ------------------------------
(***************************************************************************)
(* futility gscvd end to end (cmd_gscvd.c): do_gscvd signs the RO ranges   *)
(* of an AP firmware image and writes the GSC verification data (GVD) and  *)
(* the platform keyblock into RO_GSCVD; then whoever holds the image may   *)
(* change it; then validate_gscvd checks the image, optionally against the *)
(* hash of the root key.  The range checks are those of GscvdRanges.       *)
(*                                                                         *)
(* Keys are names: "root" is the root key whose hash the GSC holds, "plat" *)
(* the platform key the root key signs a keyblock for, "evil" a key of     *)
(* whoever changes the image.  A signature is its signer and what it       *)
(* covers; a digest is the byte string it hashes.                          *)
(*                                                                         *)
(* The GVD's size and the keyblock's keyblock_size are uint32_t values    *)
(* (W bits, like the image's offsets).  Validation finds the keyblock at   *)
(* gvd + gvd->size and copies keyblock_size bytes of it into an 8 KiB      *)
(* work buffer (WB_SIZE) taken with vb2_workbuf_alloc of WorkBuf.          *)
(***************************************************************************)
EXTENDS Integers, Sequences, SequencesExt

CONSTANTS
    W, MAX_RANGES, WP_RO, RO_GSCVD, RangeSet,   \* as in GscvdRanges
    ALIGN,        \* VB2_WORKBUF_ALIGN
    WB_SIZE,      \* the 8192 bytes of init_wb in validate_pubk_signature
    VERIFY_WB,    \* work buffer vb2_verify_keyblock needs after the copy
    GVD_SIZE,     \* gvd->size as create_gvd computes it
    KbSizes,      \* keyblock_size of the keyblock files do_gscvd is given
    SizeSet,      \* values a changed gvd->size or keyblock_size may take
    MaxTamper     \* bound on the changes made to the signed image

GR == INSTANCE GscvdRanges WITH pc <- "Done", gvd <- <<>>, ranges <- <<>>,
                               i <- 1, errorcount <- 0, reads <- {}, rv <- 0

WB == INSTANCE WorkBuf WITH Sizes <- {}, MaxLive <- 0,
                            wb <- [buf |-> 0, size |-> 0], base <- 0,
                            len <- 0, initWb <- [buf |-> 0, size |-> 0],
                            live <- <<>>

Addr == 0 .. 2^W - 1
Vals == {0, 1}

VARIABLES
    pc,            \* the step that runs next
    image,         \* the image's bytes
    sign,          \* do_gscvd's inputs: ranges, keyblock signer, private key
    stored,        \* the GVD (with its keyblock) RO_GSCVD holds
    signRv,        \* do_gscvd's return value
    signedImage,   \* the image the ranges digest was taken of
    signedRanges,  \* the ranges do_gscvd signed
    tampers,       \* changes made to the image since signing
    rootArg,       \* the root key hash given to validate_gscvd, if any
    rv,            \* validate_gscvd's return value
    kbReads,       \* image offsets validation read through kblock
    kbWrites,      \* work-buffer offsets the keyblock copy wrote
    wbLeft         \* work buffer left after the keyblock copy

vars == <<pc, image, sign, stored, signRv, signedImage, signedRanges,
          tampers, rootArg, rv, kbReads, kbWrites, wbLeft>>

\* The n bytes from offset o (host size_t arithmetic, no wrap).
Region(o, n) == {o + j : j \in 0 .. n - 1}

\* init_wb: a malloc'd buffer (at address 0; a failed malloc is not
\* modelled) handed to vb2_workbuf_init.
InitWb(size) == WB!WorkbufInit(0, size)

\* validate_pubk_signature: init_wb(&wb, 8192), then
\* vb2_workbuf_alloc(&wb, kbsize).
KbWork(kbsize) == WB!WorkbufAlloc(InitWb(WB_SIZE), kbsize)

\* vb2_verify_keyblock on the copy: the root key signed this keyblock as
\* it is, keyblock_size included, and the digest fits what is left of the
\* work buffer.
KeyblockVerifies(kb, rootKey, left) ==
    /\ kb.signer = rootKey /\ kb.size = kb.signed_size
    /\ left >= VERIFY_WB

\* Sequences of at least lo ranges that fit the container.
RangeSeqs(lo) == UNION {[1 .. c -> RangeSet] : c \in lo .. MAX_RANGES}

\* calculate_ranges_digest: the hash of the ranges' bytes, in order.
RangesDigest(img, rs) ==
    FlattenSeq([k \in DOMAIN rs |->
                  [j \in 1 .. rs[k].size |-> img[rs[k].offset + j - 1]]])

\* Variant that leaves the size out of the signed header.
SignedPartNoSize(g) ==
    [range_count |-> g.range_count, ranges |-> g.ranges, digest |-> g.digest]

\* The bytes create_gvd signs and validate_gvd_signature verifies: the GVD
\* header (size, range count, ranges digest) and the ranges array after it.
SignedPart(g) ==
    [size |-> g.size, range_count |-> g.range_count, ranges |-> g.ranges,
     digest |-> g.digest]

\* A keyblock: its data key, who signed it, its keyblock_size and the
\* keyblock_size its signature covers.
Keyblock(key, signer, size) ==
    [data_key |-> key, signer |-> signer, size |-> size, signed_size |-> size]

\* An RO_GSCVD area without a GVD (gv_magic does not match).
NoGvd == [magic |-> FALSE, size |-> 0, range_count |-> 0, ranges |-> <<>>,
          digest |-> <<>>, root_key |-> "none",
          kblock |-> Keyblock("none", "none", 0),
          sig |-> [signer |-> "none", body |-> <<>>]]

\* create_gvd: the GVD for ranges rs over image img, carrying rootKey and
\* followed by keyblock kblock, signed with privk.
MakeGvd(rs, img, rootKey, kblock, privk) ==
    LET g == [NoGvd EXCEPT !.magic = TRUE, !.size = GVD_SIZE,
                           !.range_count = Len(rs),
                           !.ranges = rs, !.digest = RangesDigest(img, rs),
                           !.root_key = rootKey, !.kblock = kblock]
    IN [g EXCEPT !.sig = [signer |-> privk, body |-> SignedPart(g)]]

\* verify_ranges returns 0.
RangesOk(rs) == \A k \in DOMAIN rs : GR!RangeErrors(rs, k) = 0

Init ==
    /\ pc = "SignArgs"
    /\ image = [a \in Addr |-> 0]
    /\ sign \in [ranges : RangeSeqs(0), kblock_signer : {"root", "evil"},
                 privk : {"plat", "evil"}, kb_size : KbSizes]
    /\ stored = NoGvd /\ signRv = 1
    /\ signedImage = image /\ signedRanges = <<>>
    /\ tampers = 0 /\ rootArg = "none" /\ rv = -1
    /\ kbReads = {} /\ kbWrites = {} /\ wbLeft = 0

\* The variables only validation's keyblock copy changes.
kbVars == <<kbReads, kbWrites, wbLeft>>

-----------------------------------------------------------------------------
(* do_gscvd *)

\* The command line must give at least one range (the other options are
\* taken as given).
SignArgs ==
    /\ pc = "SignArgs"
    /\ pc' = IF sign.ranges = <<>> THEN "Tamper" ELSE "SignKeys"
    /\ UNCHANGED <<image, sign, stored, signRv, signedImage, signedRanges,
                   tampers, rootArg, rv, kbVars>>

\* The keyblock file given with -k.
SignKeyblock == Keyblock("plat", sign.kblock_signer, sign.kb_size)

\* validate_pubk_signature(root_pubk, kblock) on the keyblock file.
SignPubkOk ==
    LET r == KbWork(SignKeyblock.size)
    IN ~r.null /\ KeyblockVerifies(SignKeyblock, "root", r.wb.size)

\* validate_privk: the modulus of the private key equals that of the
\* keyblock's data key (BN_cmp returns 0).  A key is its modulus here; the
\* data key of a keyblock that passed validate_pubk_signature unpacks.
ValidatePrivk == sign.privk = SignKeyblock.data_key

\* Variant without validate_privk.
SignKeysNoPrivk ==
    /\ pc = "SignKeys"
    /\ pc' = IF SignPubkOk THEN "SignRanges" ELSE "Tamper"
    /\ UNCHANGED <<image, sign, stored, signRv, signedImage, signedRanges,
                   tampers, rootArg, rv, kbVars>>

\* validate_pubk_signature: the keyblock is signed by the root key;
\* validate_privk: the private key is the keyblock's key.
SignKeys ==
    /\ pc = "SignKeys"
    /\ pc' = IF SignPubkOk /\ ValidatePrivk THEN "SignRanges"
             ELSE "Tamper"
    /\ UNCHANGED <<image, sign, stored, signRv, signedImage, signedRanges,
                   tampers, rootArg, rv, kbVars>>

\* verify_ranges on the command line's ranges.
SignRanges ==
    /\ pc = "SignRanges"
    /\ pc' = IF RangesOk(sign.ranges) THEN "CreateGvd" ELSE "Tamper"
    /\ UNCHANGED <<image, sign, stored, signRv, signedImage, signedRanges,
                   tampers, rootArg, rv, kbVars>>

\* fill_gvd_area's room check: gvd->size + keyblock_size, a uint32_t sum,
\* against the area's size.
GvdFits == WB!U(GVD_SIZE + sign.kb_size) <= RO_GSCVD.area_size

\* create_gvd (whose calloc or signing may fail), then fill_gvd_area: GVD
\* and keyblock are written into RO_GSCVD, whose bytes change, unless they
\* do not fit the area.
CreateGvd ==
    /\ pc = "CreateGvd"
    /\ signedImage' = image /\ signedRanges' = sign.ranges
    /\ \/ UNCHANGED <<stored, signRv, image>>
       \/ ~GvdFits /\ UNCHANGED <<stored, signRv, image>>
       \/ /\ GvdFits
          /\ stored' = MakeGvd(sign.ranges, image, "root", SignKeyblock,
                               sign.privk)
          /\ signRv' = 0
          /\ \E bytes \in [GR!AreaBytes(RO_GSCVD) -> Vals] :
                image' = [a \in Addr |->
                            IF a \in DOMAIN bytes THEN bytes[a] ELSE image[a]]
    /\ pc' = "Tamper"
    /\ UNCHANGED <<sign, tampers, rootArg, rv, kbVars>>

-----------------------------------------------------------------------------
(* Whoever holds the image between signing and validation *)

\* A byte of the image is flipped.
TamperByte ==
    /\ pc = "Tamper" /\ tampers < MaxTamper
    /\ \E a \in Addr : image' = [image EXCEPT ![a] = 1 - @]
    /\ tampers' = tampers + 1
    /\ UNCHANGED <<pc, sign, stored, signRv, signedImage, signedRanges,
                   rootArg, rv, kbVars>>

\* The GVD's ranges are rewritten.
TamperRanges ==
    /\ pc = "Tamper" /\ tampers < MaxTamper
    /\ \E rs \in RangeSeqs(1) :
          stored' = [stored EXCEPT !.ranges = rs, !.range_count = Len(rs)]
    /\ tampers' = tampers + 1
    /\ UNCHANGED <<pc, image, sign, signRv, signedImage, signedRanges,
                   rootArg, rv, kbVars>>

\* gvd->size or the keyblock's keyblock_size is rewritten.
TamperSizes ==
    /\ pc = "Tamper" /\ tampers < MaxTamper
    /\ \E n \in SizeSet :
          \/ stored' = [stored EXCEPT !.size = n]
          \/ stored' = [stored EXCEPT !.kblock.size = n]
    /\ tampers' = tampers + 1
    /\ UNCHANGED <<pc, image, sign, signRv, signedImage, signedRanges,
                   rootArg, rv, kbVars>>

\* The GVD is replaced by one made with futility and the attacker's keys.
TamperResign ==
    /\ pc = "Tamper" /\ tampers < MaxTamper
    /\ \E rs \in RangeSeqs(1), n \in KbSizes :
          stored' = MakeGvd(rs, image, "evil", Keyblock("evil", "evil", n),
                            "evil")
    /\ tampers' = tampers + 1
    /\ UNCHANGED <<pc, image, sign, signRv, signedImage, signedRanges,
                   rootArg, rv, kbVars>>

\* validate_gscvd is run, with or without the root key hash.
StartValidate ==
    /\ pc = "Tamper"
    /\ \E arg \in {"none", "root"} : rootArg' = arg
    /\ pc' = "ValidateGvd"
    /\ UNCHANGED <<image, sign, stored, signRv, signedImage, signedRanges,
                   tampers, rv, kbVars>>

-----------------------------------------------------------------------------
(* validate_gscvd: each check that fails ends it with -1 *)

\* Go on to step next if cond holds, else return.
Check(cond, next) ==
    /\ pc' = IF cond THEN next ELSE "Done"
    /\ UNCHANGED <<image, sign, stored, signRv, signedImage, signedRanges,
                   tampers, rootArg, rv, kbVars>>

\* validate_gvd: the magic, the range count, and the signature and root
\* key inside gvd->size bytes (create_gvd lays them out in GVD_SIZE; the
\* FMAP location is written by create_gvd and not changed).
ValidateGvd ==
    /\ pc = "ValidateGvd"
    /\ Check(/\ stored.magic /\ stored.range_count \in 1 .. MAX_RANGES
             /\ stored.size >= GVD_SIZE,
             "CopyRanges")

\* copy_ranges: verify_ranges on the GVD's ranges.
CopyRanges ==
    /\ pc = "CopyRanges"
    /\ Check(RangesOk(stored.ranges), "RangesDigest")

\* calculate_ranges_digest and the memcmp with gvd->ranges_digest.
RangesDigestCheck ==
    /\ pc = "RangesDigest"
    /\ Check(RangesDigest(image, stored.ranges) = stored.digest, "RootKeyHash")

\* With a root key hash argument, vb2_hash_verify of the GVD's root key.
RootKeyHash ==
    /\ pc = "RootKeyHash"
    /\ Check(rootArg = "none" \/ stored.root_key = rootArg, "KeyblockCopy")

\* kblock = gvd + gvd->size, then validate_pubk_signature up to its copy:
\* kblock->keyblock_size is read, vb2_workbuf_alloc takes that much of the
\* 8 KiB buffer, and memcpy copies as many bytes from kblock into it.  A
\* NULL allocation returns -1.
KeyblockCopy ==
    /\ pc = "KeyblockCopy"
    /\ LET kblock == RO_GSCVD.area_offset + stored.size
           kbsize == stored.kblock.size
           r == KbWork(kbsize)
       IN \/ /\ r.null
             /\ kbReads' = {kblock} /\ pc' = "Done"
             /\ UNCHANGED <<kbWrites, wbLeft>>
          \/ /\ ~r.null
             /\ kbReads' = {kblock} \cup Region(kblock, kbsize)
             /\ kbWrites' = Region(r.ptr, kbsize)
             /\ wbLeft' = r.wb.size
             /\ pc' = "PubkSignature"
    /\ UNCHANGED <<image, sign, stored, signRv, signedImage, signedRanges,
                   tampers, rootArg, rv>>

\* vb2_verify_keyblock on the copy, with the GVD's root key.
PubkSignature ==
    /\ pc = "PubkSignature"
    /\ Check(KeyblockVerifies(stored.kblock, stored.root_key, wbLeft),
             "GvdSignature")

\* validate_gvd_signature: the GVD's signature is the keyblock's key's,
\* over the GVD header and ranges as they are now; success ends the call.
GvdSignature ==
    /\ pc = "GvdSignature"
    /\ rv' = IF /\ stored.sig.signer = stored.kblock.data_key
                /\ stored.sig.body = SignedPart(stored)
             THEN 0 ELSE rv
    /\ pc' = "Done"
    /\ UNCHANGED <<image, sign, stored, signRv, signedImage, signedRanges,
                   tampers, rootArg, kbVars>>

Next ==
    \/ SignArgs \/ SignKeys \/ SignRanges \/ CreateGvd
    \/ TamperByte \/ TamperRanges \/ TamperSizes \/ TamperResign
    \/ StartValidate
    \/ ValidateGvd \/ CopyRanges \/ RangesDigestCheck \/ RootKeyHash
    \/ KeyblockCopy \/ PubkSignature \/ GvdSignature

Spec == Init /\ [][Next]_vars

-----------------------------------------------------------------------------
(* Properties *)

\* An image do_gscvd signed successfully and nobody changed validates,
\* with or without the root key hash: signing and validation agree, and
\* writing the GVD into RO_GSCVD does not change what the digest covers.
SignedImageValidates ==
    (pc = "Done" /\ signRv = 0 /\ tampers = 0) => rv = 0

\* validate_gscvd, given the root key hash, accepts only the ranges that
\* do_gscvd signed, over bytes that are those it signed, with the GVD
\* and keyblock sizes it wrote: no change to the image, the GVD, its keys
\* or the sizes that locate the keyblock gets past it.
AcceptedMeansSigned ==
    (pc = "Done" /\ rv = 0 /\ rootArg = "root") =>
        /\ signRv = 0
        /\ stored.size = GVD_SIZE /\ stored.kblock.size = sign.kb_size
        /\ stored.ranges = signedRanges
        /\ \A k \in DOMAIN signedRanges :
              \A a \in GR!RangeBytes(signedRanges[k]) :
                  image[a] = signedImage[a]

\* validate_gscvd reads the keyblock only inside the image file it has
\* mapped, and the copy in validate_pubk_signature writes only inside the
\* work buffer it allocated: whatever gvd->size and keyblock_size a
\* changed image holds, both read before any signature is checked.
KeyblockReadsInFile == kbReads \subseteq Addr
KeyblockCopyInBuffer == kbWrites \subseteq 0 .. WB_SIZE - 1
KeyblockAccessInBounds == KeyblockReadsInFile /\ KeyblockCopyInBuffer

====
