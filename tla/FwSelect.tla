------------------------------ MODULE FwSelect ------------------------------
(***************************************************************************)
(* Firmware slot selection across boots: the NV try counters and per-slot *)
(* results (spec 4.5), the secure-storage version floor and its lock       *)
(* (4.6), the selector (4.8), the outcome of the verification pipeline     *)
(* (4.9) and the recovery decision (4.10).  The selector and the storage   *)
(* code are not part of the repository's src/; their steps follow the     *)
(* spec.  The per-boot record sd has the fields of struct vb2_shared_data  *)
(* in 2struct.h that these steps read and write.                           *)
(*                                                                         *)
(* A boot runs Init -> Select -> Verify* -> Handoff -> Os.  A reboot is a  *)
(* reset in which nv, sec and the slots survive and sd is rebuilt (spec    *)
(* 5).  The OS reports a good boot, writes the slot it did not boot from   *)
(* as the next try slot, requests recovery or tries to write the floor.    *)
(* Faults: power loss inside a boot, an NV record with a bad checksum, an  *)
(* unreadable secure storage and a corrupted slot, MaxFaults in all.      *)
(***************************************************************************)
EXTENDS Naturals, Sequences, SequencesExt, FiniteSets

CONSTANTS
    MaxVersion,     \* versions are 0..MaxVersion
    MaxTries,       \* tries given to a freshly written slot
    MaxUpdates,     \* bound on OS firmware updates
    MaxFaults       \* bound on injected faults

ASSUME MaxVersion \in Nat /\ MaxTries \in Nat \ {0}
ASSUME MaxUpdates \in Nat /\ MaxFaults \in Nat

Slots == {0, 1}                                  \* 0 = A, 1 = B
Versions == 0..MaxVersion
Results == {"unknown", "success", "failure"}     \* enum vb2_fw_result
Reasons == {"none", "requested", "tpm", "rollback", "signature", "no_good_slot"}
SdStatus == {"NV_REINIT", "NV_INIT", "SECDATA_INIT", "CHOSE_SLOT"}
Phases == {"Init", "Select", "Verify", "Handoff", "Os", "Recovery"}

NvRec == [tries : 0..MaxTries, trySlot : Slots,
          result : [Slots -> Results], recReq : BOOLEAN]
SecRec == [floor : Versions, locked : BOOLEAN]
SlotRec == [version : Versions, sigOk : BOOLEAN, works : BOOLEAN]
SdRec == [recovery_reason : Reasons, fw_slot : Slots, fw_version : Versions,
          fw_version_secdata : Versions, status : SUBSET SdStatus]

VARIABLES
    pc,        \* phase of the current boot
    nv,        \* NV record (persistent)
    sec,       \* secure storage: firmware version floor and lock (persistent)
    slot,      \* contents of the two RW firmware slots (persistent)
    sd,        \* vb2_shared_data of the current boot
    cands,     \* candidates the pipeline has still to try this boot
    worst,     \* most severe slot failure seen this boot
    good,      \* history: versions that booted to the OS and were reported good
    updates, faults

vars == <<pc, nv, sec, slot, sd, cands, worst, good, updates, faults>>

\* The record zeroed by an NV re-initialisation.
NvZero == [tries |-> 0, trySlot |-> 0,
           result |-> [s \in Slots |-> "unknown"], recReq |-> FALSE]

\* vb2_shared_data as the initialisation step builds it.
SdZero == [recovery_reason |-> "none", fw_slot |-> 0, fw_version |-> 0,
           fw_version_secdata |-> 0, status |-> {}]

\* Severity order of slot failures (4.10): signature > rollback.
Severity(r) == CASE r = "signature" -> 2 [] r = "rollback" -> 1 [] OTHER -> 0
Worse(a, b) == IF Severity(b) > Severity(a) THEN b ELSE a

----------------------------------------------------------------------------
(* Secure storage facade (4.6). *)

\* Mutant: the facade writes whatever it is given.
SecdataFwWriteUnchecked(v) == [sec EXCEPT !.floor = v]

\* A write that would decrease the version, or any write after lock, is
\* rejected.
SecdataFwWrite(v) ==
    IF sec.locked \/ v < sec.floor THEN sec ELSE [sec EXCEPT !.floor = v]

----------------------------------------------------------------------------
(* Firmware selector (4.8). *)

\* Mutant: the floor comparison off by one.
AboveFloorOffByOne(s) == slot[s].version + 1 >= sec.floor

\* A slot whose rollback-forbidden version is below the floor is skipped.
AboveFloor(s) == slot[s].version >= sec.floor

\* Mutant: a zero try count still takes the try path.
TryPathOffByOne == nv.tries >= 0

\* Tries remain on the try slot.
TryPath == nv.tries > 0

\* Mutant: the try count is not decremented.
NvAfterTryNoDec == nv

\* Choosing the try slot decrements its tries in the NV record.
NvAfterTry == [nv EXCEPT !.tries = @ - 1]

\* Higher version first, ties to slot A.
Preferred(a, b) ==
    \/ slot[a].version > slot[b].version
    \/ slot[a].version = slot[b].version /\ a < b

\* Slots whose last known result was success, in order of preference.
SuccessOrder ==
    SetToSortSeq({s \in Slots : nv.result[s] = "success"
                                /\ ~(TryPath /\ s = nv.trySlot)}, Preferred)

\* Candidates in the order the selector considers them.
Candidates ==
    (IF TryPath THEN <<nv.trySlot>> ELSE <<>>) \o SuccessOrder

Allowed == SelectSeq(Candidates, AboveFloor)

----------------------------------------------------------------------------
(* Verification pipeline outcome (4.9) and roll-forward of the floor. *)

\* The key block and preamble verify and neither version is rolled back.
Verifies(s) == slot[s].sigOk /\ AboveFloor(s)

\* Mutant: the floor rolls forward on any boot, try boots included.
RollForwardOnTry(s) == SecdataFwWrite(slot[s].version)

\* The floor moves up to the version of a slot only when that slot's last
\* boot was reported good; a try boot leaves it alone.
RollForward(s) ==
    IF nv.result[s] = "success" THEN SecdataFwWrite(slot[s].version) ELSE sec

\* The reason a slot is rejected.
FailReason(s) == IF slot[s].sigOk THEN "rollback" ELSE "signature"


----------------------------------------------------------------------------
(* Firmware steps of one boot. *)

Init ==
    \E v \in Versions, fl \in Versions :
        /\ fl <= v
        /\ pc = "Init"
        /\ nv = [NvZero EXCEPT !.result = [s \in Slots |-> "success"]]
        /\ sec = [floor |-> fl, locked |-> FALSE]
        /\ slot = [s \in Slots |-> [version |-> v, sigOk |-> TRUE, works |-> TRUE]]
        /\ sd = SdZero
        /\ cands = <<>>
        /\ worst = "none"
        /\ good = {v}
        /\ updates = 0
        /\ faults = 0

\* NV and secure storage initialised; the lock is clear on a fresh boot.
BootInit ==
    /\ pc = "Init"
    /\ sd' = [SdZero EXCEPT !.status = {"NV_INIT", "SECDATA_INIT"},
                            !.fw_version_secdata = sec.floor]
    /\ sec' = [sec EXCEPT !.locked = FALSE]
    /\ pc' = "Select"
    /\ UNCHANGED <<nv, slot, cands, worst, good, updates, faults>>

\* The NV checksum is wrong: the record is zeroed and NV_REINIT set.
NvReinit ==
    /\ pc = "Init"
    /\ faults < MaxFaults
    /\ nv' = NvZero
    /\ sd' = [SdZero EXCEPT !.status = {"NV_REINIT", "NV_INIT", "SECDATA_INIT"},
                            !.fw_version_secdata = sec.floor]
    /\ sec' = [sec EXCEPT !.locked = FALSE]
    /\ pc' = "Select"
    /\ faults' = faults + 1
    /\ UNCHANGED <<slot, cands, worst, good, updates>>

\* Secure storage fails its integrity check: fatal, recovery "TPM error".
SecReadFails ==
    /\ pc = "Init"
    /\ faults < MaxFaults
    /\ sd' = [SdZero EXCEPT !.status = {"NV_INIT"}, !.recovery_reason = "tpm"]
    /\ pc' = "Recovery"
    /\ faults' = faults + 1
    /\ UNCHANGED <<nv, sec, slot, cands, worst, good, updates>>

\* A recovery request in NV: no slot is chosen.  The request is consumed.
SelectRecovery ==
    /\ pc = "Select"
    /\ nv.recReq
    /\ nv' = [nv EXCEPT !.recReq = FALSE]
    /\ sd' = [sd EXCEPT !.recovery_reason = "requested"]
    /\ pc' = "Recovery"
    /\ UNCHANGED <<sec, slot, cands, worst, good, updates, faults>>

\* The selector orders the candidates (decrementing the tries when the try
\* slot is among them) and skips those below the floor; with none left the
\* boot goes to recovery, "rollback" if any was skipped.
SelectSlot ==
    /\ pc = "Select"
    /\ ~nv.recReq
    /\ nv' = IF TryPath THEN NvAfterTry ELSE nv
    /\ worst' = IF Len(Allowed) < Len(Candidates) THEN "rollback" ELSE "none"
    /\ cands' = Allowed
    /\ \/ /\ Allowed # <<>>
          /\ pc' = "Verify"
          /\ UNCHANGED sd
       \/ /\ Allowed = <<>>
          /\ pc' = "Recovery"
          /\ sd' = [sd EXCEPT !.recovery_reason =
                       IF Candidates # <<>> THEN "rollback" ELSE "no_good_slot"]
    /\ UNCHANGED <<sec, slot, good, updates, faults>>

\* The pipeline accepts the first candidate: sd records the slot, the floor
\* rolls forward if the slot is proven, the secure storage is locked.
VerifyPass ==
    LET s == Head(cands) IN
    /\ pc = "Verify"
    /\ Verifies(s)
    /\ sec' = [RollForward(s) EXCEPT !.locked = TRUE]
    /\ sd' = [sd EXCEPT !.fw_slot = s, !.fw_version = slot[s].version,
                        !.fw_version_secdata = RollForward(s).floor,
                        !.status = @ \cup {"CHOSE_SLOT"}]
    /\ cands' = <<>>
    /\ pc' = "Handoff"
    /\ UNCHANGED <<nv, slot, worst, good, updates, faults>>

\* The pipeline rejects the candidate and falls through to the next; with
\* none left the boot goes to recovery with the most severe reason.
VerifyFail ==
    LET s == Head(cands)
        w == Worse(worst, FailReason(s)) IN
    /\ pc = "Verify"
    /\ ~Verifies(s)
    /\ nv' = [nv EXCEPT !.result[s] = "failure"]
    /\ worst' = w
    /\ cands' = Tail(cands)
    /\ \/ /\ Tail(cands) # <<>>
          /\ UNCHANGED <<pc, sd>>
       \/ /\ Tail(cands) = <<>>
          /\ pc' = "Recovery"
          /\ sd' = [sd EXCEPT !.recovery_reason = w]
    /\ UNCHANGED <<sec, slot, good, updates, faults>>

\* The chosen firmware runs and reaches the OS, or crashes and the device
\* resets.
HandoffOs ==
    /\ pc = "Handoff"
    /\ slot[sd.fw_slot].works
    /\ pc' = "Os"
    /\ UNCHANGED <<nv, sec, slot, sd, cands, worst, good, updates, faults>>

HandoffCrash ==
    /\ pc = "Handoff"
    /\ ~slot[sd.fw_slot].works
    /\ pc' = "Init"
    /\ UNCHANGED <<nv, sec, slot, sd, cands, worst, good, updates, faults>>

----------------------------------------------------------------------------
(* The OS and the environment. *)

\* The OS reports a good boot: last result success, try slot cleared.
OsReportsGood ==
    /\ pc = "Os"
    /\ nv' = [nv EXCEPT !.result[sd.fw_slot] = "success", !.tries = 0]
    /\ good' = good \cup {sd.fw_version}
    /\ UNCHANGED <<pc, sec, slot, sd, cands, worst, updates, faults>>

\* After a good report, the updater writes the other slot (any version,
\* signed or not, working or not) and makes it the try slot.
OsUpdate ==
    /\ pc = "Os"
    /\ nv.result[sd.fw_slot] = "success"
    /\ updates < MaxUpdates
    /\ \E r \in SlotRec :
          LET t == 1 - sd.fw_slot IN
          /\ slot' = [slot EXCEPT ![t] = r]
          /\ nv' = [nv EXCEPT !.trySlot = t, !.tries = MaxTries,
                              !.result[t] = "unknown"]
    /\ updates' = updates + 1
    /\ UNCHANGED <<pc, sec, sd, cands, worst, good, faults>>

\* The OS asks for recovery on the next boot.
OsRequestRecovery ==
    /\ pc = "Os"
    /\ ~nv.recReq
    /\ nv' = [nv EXCEPT !.recReq = TRUE]
    /\ UNCHANGED <<pc, sec, slot, sd, cands, worst, good, updates, faults>>

\* Code running in the OS writes the firmware version space.
OsSecWrite ==
    /\ pc = "Os"
    /\ \E v \in Versions : sec' = SecdataFwWrite(v)
    /\ UNCHANGED <<pc, nv, slot, sd, cands, worst, good, updates, faults>>

\* An ordinary reboot from the OS or from recovery.
Reboot ==
    /\ pc \in {"Os", "Recovery"}
    /\ pc' = "Init"
    /\ UNCHANGED <<nv, sec, slot, sd, cands, worst, good, updates, faults>>

\* Power is lost during a boot; what was written to nv and sec stays.
PowerLoss ==
    /\ pc \in {"Select", "Verify", "Handoff"}
    /\ faults < MaxFaults
    /\ pc' = "Init"
    /\ faults' = faults + 1
    /\ UNCHANGED <<nv, sec, slot, sd, cands, worst, good, updates>>

\* A slot's flash is corrupted (spec scenario 2): it no longer verifies.
FlashCorrupt ==
    /\ faults < MaxFaults
    /\ \E s \in Slots :
          /\ slot[s].sigOk
          /\ slot' = [slot EXCEPT ![s].sigOk = FALSE]
    /\ faults' = faults + 1
    /\ UNCHANGED <<pc, nv, sec, sd, cands, worst, good, updates>>

Firmware ==
    \/ BootInit \/ SelectRecovery \/ SelectSlot
    \/ VerifyPass \/ VerifyFail \/ HandoffOs \/ HandoffCrash

Next ==
    \/ Firmware
    \/ NvReinit \/ SecReadFails \/ PowerLoss \/ FlashCorrupt
    \/ OsReportsGood \/ OsUpdate \/ OsRequestRecovery \/ OsSecWrite \/ Reboot

\* The firmware runs single-threaded to the end of its boot (spec 5): each
\* of its steps is weakly fair.  The OS, the user and the faults are not.
Spec == Init /\ [][Next]_vars /\ WF_vars(Firmware)

----------------------------------------------------------------------------
(* Properties. *)

TypeOK ==
    /\ pc \in Phases
    /\ nv \in NvRec
    /\ sec \in SecRec
    /\ slot \in [Slots -> SlotRec]
    /\ sd \in SdRec
    /\ cands \in Seq(Slots)
    /\ worst \in Reasons
    /\ good \subseteq Versions
    /\ updates \in 0..MaxUpdates /\ faults \in 0..MaxFaults

\* Selector rollback safety (spec 8; 2struct.h: fw_version_secdata "must
\* be <= fw_version to boot"): a boot that hands off to a slot, or is in
\* the OS, runs a version at or above both the floor it read and the floor
\* now in secure storage, and that version is still the booted slot's.
RollbackSafe ==
    pc \in {"Handoff", "Os"} =>
        /\ sd.fw_version_secdata <= sd.fw_version
        /\ sec.floor <= sd.fw_version
        /\ slot[sd.fw_slot].version = sd.fw_version

\* No lockout by roll-forward: the floor never rises above a version that
\* has booted to the OS and been reported good.  A floor raised on a try
\* boot of an image that then crashes, or written by the OS past a missing
\* lock, would leave every working slot below it.
FloorBackedByGoodBoot ==
    \E v \in good : sec.floor <= v

\* A boot that hands off to firmware that crashes does not loop: the tries
\* run out and the device gets back to the OS or to recovery.
BrokenTryFallsBack ==
    (pc = "Handoff" /\ ~slot[sd.fw_slot].works) ~> (pc \in {"Os", "Recovery"})

----------------------------------------------------------------------------
(* Refinement of FwSelectAbstract: the running version is the one sd      *)
(* records from handoff until the boot ends; the floor is the one in       *)
(* secure storage.  Every other step of FwSelect is a stutter of it.       *)

AbsRunning == IF pc \in {"Handoff", "Os"} THEN {sd.fw_version} ELSE {}

Abs == INSTANCE FwSelectAbstract WITH floor <- sec.floor,
                                      running <- AbsRunning, good <- good

\* FwSelect implements FwSelectAbstract: secure storage's floor never goes
\* down, changes only in the step that starts a version (VerifyPass, before
\* the lock), and then only to that version once it has booted good; and
\* every version handed off is at or above the floor.
AbsSpec == Abs!Spec

====
