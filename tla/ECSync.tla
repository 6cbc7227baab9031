------------------------------- MODULE ECSync -------------------------------
(***************************************************************************)
(* EC software sync (src/firmware/2lib/2ec_sync.c) across boots.           *)
(*                                                                         *)
(* The AP firmware runs vb2api_ec_sync once per boot, single-threaded.     *)
(* Each step below is one helper of 2ec_sync.c, or one call into the EC    *)
(* (the vb2ex_ec_ functions), whose answer is an input: the EC may fail *)
(* any call while fewer than MaxFaults faults have happened.  A boot ends *)
(* in a return value that the caller turns into a reboot (AP only, EC to *)
(* RO, EC slot switch) or into kernel selection.  Only the NV record that *)
(* was committed before a reboot survives it; power may fail at any step. *)
(*                                                                         *)
(* An EC image is "Good" when it hashes to the value the running AP        *)
(* firmware expects, "Bad" otherwise; hashes themselves are abstracted.    *)
(***************************************************************************)
EXTENDS Naturals, FiniteSets

CONSTANTS
    MaxFaults,   \* bound on EC call failures and power losses in a behaviour
    RO_RETRIES   \* 2ec_sync.c:227, maximum times to retry flashing RO

ASSUME /\ MaxFaults \in Nat /\ RO_RETRIES \in Nat \ {0}

VARIABLES
    pc,           \* which step of the boot runs next
    dev,          \* ctx/GBB configuration of the device (fixed)
    recMode,      \* ctx VB2_CONTEXT_RECOVERY_MODE (and sd->recovery_reason)
    displayAvail, \* sd flag VB2_SD_FLAG_DISPLAY_AVAILABLE
    sd,           \* the EC-sync bits of sd->flags
    nv,           \* NV record as held in memory this boot
    nvSaved,      \* NV record as committed to the platform's NV sink
    ec,           \* the EC: executing image, images, protection, jumps
    phase1Rv,     \* result of ec_sync_phase1 held until it is examined
    rv,           \* value vb2api_ec_sync returns to its caller
    numTries,     \* num_tries of the RO update loop in sync_ec
    roSnapshot,   \* recovery_request saved before the RO update loop
    faults        \* EC failures and power losses so far

vars == <<pc, dev, recMode, displayAvail, sd, nv, nvSaved, ec, phase1Rv, rv,
          numTries, roSnapshot, faults>>

-----------------------------------------------------------------------------
(* Data *)

\* enum vb2_firmware_selection: EC RO, active EC RW, and (on EFS devices)
\* the RW slot that is updated and switched to on the next EC boot.
Sel == {"RO", "Active", "Update"}
Img == {"Good", "Bad"}

\* VB2_RECOVERY_* values written by 2ec_sync.c; "None" is "not requested".
HashErrors == {"EC_HASH_FAILED", "EC_EXPECTED_HASH", "EC_HASH_SIZE"}
RecReasons == {"None", "EC_UPDATE", "EC_UNKNOWN_IMAGE", "EC_JUMP_RW",
               "EC_PROTECT", "EC_SOFTWARE_SYNC"} \cup HashErrors

\* Return values: VB2_SUCCESS, VBERROR_EC_REBOOT_TO_RO_REQUIRED,
\* VBERROR_EC_REBOOT_TO_SWITCH_RW, VBERROR_REBOOT_REQUIRED, other errors.
Rvs == {"SUCCESS", "REBOOT_TO_RO", "SWITCH_RW", "REBOOT_REQUIRED", "ERROR"}

\* Bits of sd->flags: VB2_SD_FLAG_ECSYNC_EC_RO / _EC_RW / _EC_IN_RW and the
\* EC-sync-complete bit that vb2api_ec_sync keeps in the same word.
SdBits == {"EC_RO", "EC_RW", "EC_IN_RW", "COMPLETE"}

Pcs == {"Boot", "Entry", "Phase1", "HashRW", "HashRO", "WaitScreen",
        "SyncRW", "Jump", "SyncRO", "UpdateRO", "ProtectRO", "ProtectRW",
        "DisableJump", "Done", "Return", "Kernel"}

NvRec == [recReq : RecReasons, tryRoSync : BOOLEAN, displayReq : BOOLEAN]
EcRec == [running : {"RO", "RW"}, img : [Sel -> Img],
          protected : SUBSET Sel, jumpDisabled : BOOLEAN]
\* The device: EFS or not, EC sync supported, GBB flag disabling it, a
\* slow update, and the sd->flags bit VB2_SD_STATUS_EC_SYNC_COMPLETE is.
\* That name is not among the sd->flags bits of 2struct.h; the build's
\* value may be a bit of its own or one of theirs.
DevRec == [efs : BOOLEAN, supported : BOOLEAN, gbbDisable : BOOLEAN,
           slow : BOOLEAN, completeBit : SdBits]

TypeOK ==
    /\ pc \in Pcs
    /\ dev \in DevRec
    /\ recMode \in BOOLEAN
    /\ displayAvail \in BOOLEAN
    /\ sd \subseteq SdBits
    /\ nv \in NvRec
    /\ nvSaved \in NvRec
    /\ ec \in EcRec
    /\ phase1Rv \in Rvs
    /\ rv \in Rvs
    /\ numTries \in 0..RO_RETRIES
    /\ roSnapshot \in RecReasons
    /\ faults \in 0..MaxFaults

-----------------------------------------------------------------------------
(* Helpers of 2ec_sync.c *)

\* SYNC_FLAG(select)
SYNC_FLAG(sel) == IF sel = "RO" THEN "EC_RO" ELSE "EC_RW"

\* select_rw in sync_ec: the slot that is updated and protected.
SelectRW == IF dev.efs THEN "Update" ELSE "Active"

\* The image the EC is executing (an EC in RW runs its active slot).
Running(sel) ==
    \/ sel = "RO" /\ ec.running = "RO"
    \/ sel = "Active" /\ ec.running = "RW"

\* request_recovery: vb2_nv_set(ctx, VB2_NV_RECOVERY_REQUEST, r)
RequestRecovery(r) == nv' = [nv EXCEPT !.recReq = r]

\* Outcomes of one EC call that may fail, within the fault budget.
Budget(S) == {o \in S : faults + o.fault <= MaxFaults}

\* check_ec_hash on an image: the EC hash or the expected hash cannot be
\* read, or their sizes differ (each requests recovery and fails), or the
\* hashes are compared and a mismatch sets SYNC_FLAG.
CheckEcHash(i) ==
    Budget({[err |-> "None", bad |-> i = "Bad", fault |-> 0]}
           \cup {[err |-> e, bad |-> FALSE, fault |-> 1] : e \in HashErrors})

\* Variant of update_ec without the re-hash after a successful write (a
\* bug that drops update_ec's "Verify the EC was updated properly" step).
UpdateEcNoRehash(sel) ==
    LET old == ec.img[sel]
    IN IF Running(sel) \/ sel \in ec.protected
       THEN {[rv |-> "REBOOT_TO_RO", img |-> old, rec |-> "keep",
              flag |-> TRUE, fault |-> 0]}
       ELSE Budget({[rv |-> "SUCCESS", img |-> w, rec |-> "keep",
                     flag |-> FALSE, fault |-> IF w = "Bad" THEN 1 ELSE 0]
                    : w \in Img})

\* update_ec(select): vb2ex_ec_update_image, then clear SYNC_FLAG and hash
\* the image again.  The EC answers "reboot to RO" when it cannot write the
\* image now (it runs it, or it is protected until the EC resets); a write
\* may fail (image left as it was or damaged) or report success over a
\* damaged image.  Fields: rv returned, image after, recovery request
\* written ("keep" if none), SYNC_FLAG set afterwards, faults used.
UpdateEc(sel) ==
    LET old == ec.img[sel]
        Written(w, wf) ==
            {[rv |-> IF h.err = "None" /\ ~h.bad THEN "SUCCESS"
                                                ELSE "REBOOT_TO_RO",
              img |-> w,
              rec |-> IF h.err # "None" THEN h.err
                      ELSE IF h.bad THEN "EC_UPDATE" ELSE "keep",
              flag |-> h.bad,
              fault |-> wf + h.fault] : h \in CheckEcHash(w)}
    IN IF Running(sel) \/ sel \in ec.protected
       THEN {[rv |-> "REBOOT_TO_RO", img |-> old, rec |-> "keep",
              flag |-> TRUE, fault |-> 0]}
       ELSE Budget(Written("Good", 0) \cup Written("Bad", 1)
                   \cup {[rv |-> "ERROR", img |-> i, rec |-> "EC_UPDATE",
                          flag |-> TRUE, fault |-> 1] : i \in {old, "Bad"}})

\* The state an update_ec outcome leaves in the EC, sd and fault count.
ApplyUpdate(sel, o) ==
    /\ ec' = [ec EXCEPT !.img[sel] = o.img]
    /\ sd' = IF o.flag THEN sd \cup {SYNC_FLAG(sel)} ELSE sd \ {SYNC_FLAG(sel)}
    /\ faults' = faults + o.fault

\* The NV record after an update_ec outcome.
NvAfter(o) == IF o.rec = "keep" THEN nv ELSE [nv EXCEPT !.recReq = o.rec]

\* ec_will_update_slowly
EcWillUpdateSlowly ==
    /\ {"EC_RO", "EC_RW"} \cap sd # {}
    /\ dev.slow

\* The checks at the top of ec_sync_phase1 and ec_sync_allowed.
SyncConfigured == dev.supported /\ ~dev.gbbDisable

\* ec_sync_allowed
EcSyncAllowed == SyncConfigured /\ ~recMode

Goto(p) == pc' = p /\ UNCHANGED rv
Return(r) == pc' = "Return" /\ rv' = r

-----------------------------------------------------------------------------
(* Steps of vb2api_ec_sync *)

\* vb2api_ec_sync: skip when already complete this boot or in recovery.
EcSyncEntry ==
    /\ pc = "Entry"
    /\ \/ dev.completeBit \in sd /\ Return("SUCCESS")
       \/ dev.completeBit \notin sd /\ recMode /\ Return("SUCCESS")
       \/ dev.completeBit \notin sd /\ ~recMode /\ Goto("Phase1")
    /\ UNCHANGED <<dev, recMode, displayAvail, sd, nv, nvSaved, ec, phase1Rv,
                   numTries, roSnapshot, faults>>

\* ec_sync_phase1 up to check_ec_active (vb2ex_ec_running_rw).
Phase1 ==
    /\ pc = "Phase1"
    /\ \/ /\ ~SyncConfigured
          /\ phase1Rv' = "SUCCESS" /\ Goto("WaitScreen")
          /\ UNCHANGED <<sd, nv, faults>>
       \/ /\ SyncConfigured /\ faults < MaxFaults
          /\ RequestRecovery("EC_UNKNOWN_IMAGE") /\ faults' = faults + 1
          /\ phase1Rv' = "REBOOT_TO_RO" /\ Goto("WaitScreen")
          /\ UNCHANGED sd
       \/ /\ SyncConfigured
          /\ sd' = IF ec.running = "RW" THEN sd \cup {"EC_IN_RW"} ELSE sd
          /\ Goto("HashRW")
          /\ UNCHANGED <<nv, faults, phase1Rv>>
       \* EC-RW says it runs RO: the code trusts it (207-211).
       \/ /\ SyncConfigured /\ ec.running = "RW" /\ faults < MaxFaults
          /\ faults' = faults + 1
          /\ Goto("HashRW")
          /\ UNCHANGED <<sd, nv, phase1Rv>>
    /\ UNCHANGED <<dev, recMode, displayAvail, nvSaved, ec, numTries,
                   roSnapshot>>

\* ec_sync_phase1: check_ec_hash of the active RW image.
HashRW ==
    /\ pc = "HashRW"
    /\ \E h \in CheckEcHash(ec.img["Active"]) :
          /\ faults' = faults + h.fault
          /\ \/ /\ h.err # "None"
                /\ RequestRecovery(h.err) /\ phase1Rv' = "REBOOT_TO_RO"
                /\ Goto("WaitScreen") /\ UNCHANGED sd
             \/ /\ h.err = "None"
                /\ sd' = IF h.bad THEN sd \cup {"EC_RW"} ELSE sd
                /\ Goto("HashRO") /\ UNCHANGED <<nv, phase1Rv>>
    /\ UNCHANGED <<dev, recMode, displayAvail, nvSaved, ec, numTries,
                   roSnapshot>>

\* Variants of the end of ec_sync_phase1: one that never asks a running
\* non-A/B RW to reboot to RO, one that also sends A/B ECs back to RO.
Phase1TailNoRunningCheck(s) ==
    /\ sd' = s
    /\ phase1Rv' = "SUCCESS"
    /\ Goto("WaitScreen")

Phase1TailIgnoringEfs(s) ==
    /\ sd' = s
    /\ phase1Rv' = IF "EC_RW" \in s /\ "EC_IN_RW" \in s
                   THEN "REBOOT_TO_RO" ELSE "SUCCESS"
    /\ Goto("WaitScreen")

\* The end of ec_sync_phase1 once the flags in s are known: an EC running
\* a non-A/B RW that must be updated has to reboot to RO first.
Phase1Tail(s) ==
    /\ sd' = s
    /\ phase1Rv' = IF "EC_RW" \in s /\ "EC_IN_RW" \in s /\ ~dev.efs
                   THEN "REBOOT_TO_RO" ELSE "SUCCESS"
    /\ Goto("WaitScreen")

\* ec_sync_phase1: check_ec_hash of RO when VB2_NV_TRY_RO_SYNC is set.
HashRO ==
    /\ pc = "HashRO"
    /\ \/ ~nv.tryRoSync /\ Phase1Tail(sd) /\ UNCHANGED <<nv, faults>>
       \/ /\ nv.tryRoSync
          /\ \E h \in CheckEcHash(ec.img["RO"]) :
                /\ faults' = faults + h.fault
                /\ \/ /\ h.err # "None"
                      /\ RequestRecovery(h.err) /\ phase1Rv' = "REBOOT_TO_RO"
                      /\ Goto("WaitScreen") /\ UNCHANGED sd
                   \/ /\ h.err = "None"
                      /\ Phase1Tail(IF h.bad THEN sd \cup {"EC_RO"} ELSE sd)
                      /\ UNCHANGED nv
    /\ UNCHANGED <<dev, recMode, displayAvail, nvSaved, ec, numTries,
                   roSnapshot>>

\* vb2api_ec_sync between phase 1 and phase 2: the wait screen needs a
\* display (check_reboot_for_display), then the phase-1 result, then
\* ec_sync_allowed decides whether sync_ec runs.
WaitScreen ==
    /\ pc = "WaitScreen"
    /\ \/ /\ EcWillUpdateSlowly /\ ~displayAvail
          /\ nv' = [nv EXCEPT !.displayReq = TRUE]
          /\ Return("REBOOT_REQUIRED")
       \/ /\ ~(EcWillUpdateSlowly /\ ~displayAvail)
          /\ UNCHANGED nv
          /\ \/ phase1Rv # "SUCCESS" /\ Return(phase1Rv)
             \/ phase1Rv = "SUCCESS" /\ ~EcSyncAllowed /\ Goto("Done")
             \/ phase1Rv = "SUCCESS" /\ EcSyncAllowed /\ Goto("SyncRW")
    /\ UNCHANGED <<dev, recMode, displayAvail, sd, nvSaved, ec, phase1Rv,
                   numTries, roSnapshot, faults>>

\* sync_ec: update the RW image if its hash mismatched; an A/B EC must then
\* reboot to switch to the new slot.
SyncRW ==
    /\ pc = "SyncRW"
    /\ \/ /\ SYNC_FLAG(SelectRW) \notin sd
          /\ Goto("Jump") /\ UNCHANGED <<ec, sd, nv, faults>>
       \/ /\ SYNC_FLAG(SelectRW) \in sd
          /\ \E o \in UpdateEc(SelectRW) :
                /\ ApplyUpdate(SelectRW, o)
                /\ nv' = NvAfter(o)
                /\ IF o.rv # "SUCCESS" THEN Return("REBOOT_TO_RO")
                   ELSE IF dev.efs THEN Return("SWITCH_RW")
                   ELSE Goto("Jump")
    /\ UNCHANGED <<dev, recMode, displayAvail, nvSaved, phase1Rv, numTries,
                   roSnapshot>>

Jump ==
    /\ pc = "Jump"
    /\ \/ /\ "EC_IN_RW" \in sd
          /\ Goto("SyncRO") /\ UNCHANGED <<ec, nv, faults>>
       \/ /\ "EC_IN_RW" \notin sd /\ ~ec.jumpDisabled
          /\ ec' = [ec EXCEPT !.running = "RW"]
          /\ Goto("SyncRO") /\ UNCHANGED <<nv, faults>>
       \/ /\ "EC_IN_RW" \notin sd
          /\ ec.jumpDisabled \/ faults < MaxFaults
          /\ faults' = IF ec.jumpDisabled THEN faults ELSE faults + 1
          /\ Return("REBOOT_TO_RO") /\ UNCHANGED <<ec, nv>>
       \/ /\ "EC_IN_RW" \notin sd /\ ~ec.jumpDisabled /\ faults < MaxFaults
          /\ RequestRecovery("EC_JUMP_RW") /\ faults' = faults + 1
          /\ Return("REBOOT_TO_RO") /\ UNCHANGED ec
    /\ UNCHANGED <<dev, recMode, displayAvail, sd, nvSaved, phase1Rv,
                   numTries, roSnapshot>>

\* sync_ec: before updating RO, clear VB2_NV_TRY_RO_SYNC and save the
\* current recovery request.
SyncRO ==
    /\ pc = "SyncRO"
    /\ \/ /\ "EC_RO" \notin sd
          /\ Goto("ProtectRO") /\ UNCHANGED <<nv, numTries, roSnapshot>>
       \/ /\ "EC_RO" \in sd
          /\ nv' = [nv EXCEPT !.tryRoSync = FALSE]
          /\ roSnapshot' = nv.recReq
          /\ numTries' = 0
          /\ Goto("UpdateRO")
    /\ UNCHANGED <<dev, recMode, displayAvail, sd, nvSaved, ec, phase1Rv,
                   faults>>

\* Variant of the RO update loop that forgets to restore the saved
\* recovery request after a failed try (the "else if (num_tries)" branch).
UpdateRONoRestore ==
    /\ pc = "UpdateRO"
    /\ \E o \in UpdateEc("RO") :
          /\ ApplyUpdate("RO", o)
          /\ nv' = NvAfter(o)
          /\ \/ o.rv = "SUCCESS" /\ Goto("ProtectRO") /\ UNCHANGED numTries
             \/ /\ o.rv # "SUCCESS"
                /\ numTries' = numTries + 1
                /\ IF numTries + 1 = RO_RETRIES THEN Return("REBOOT_TO_RO")
                                                ELSE Goto("UpdateRO")
    /\ UNCHANGED <<dev, recMode, displayAvail, nvSaved, phase1Rv,
                   roSnapshot>>

\* Variant of the RO update loop with its bound off by one (a loop written
\* "num_tries <= RO_RETRIES").
UpdateROOffByOne ==
    /\ pc = "UpdateRO"
    /\ \E o \in UpdateEc("RO") :
          /\ ApplyUpdate("RO", o)
          /\ nv' = NvAfter(o)
          /\ \/ o.rv = "SUCCESS" /\ Goto("ProtectRO") /\ UNCHANGED numTries
             \/ /\ o.rv # "SUCCESS"
                /\ numTries' = numTries + 1
                /\ IF numTries = RO_RETRIES THEN Return("REBOOT_TO_RO")
                                            ELSE Goto("UpdateRO")
    /\ UNCHANGED <<dev, recMode, displayAvail, nvSaved, phase1Rv,
                   roSnapshot>>

\* Variant of the RO update loop without its retry bound: it tries again
\* for as long as the EC fails.
UpdateROUnbounded ==
    /\ pc = "UpdateRO"
    /\ \E o \in UpdateEc("RO") :
          /\ ApplyUpdate("RO", o)
          /\ nv' = NvAfter(o)
          /\ IF o.rv = "SUCCESS" THEN Goto("ProtectRO") ELSE Goto("UpdateRO")
    /\ UNCHANGED <<dev, recMode, displayAvail, nvSaved, phase1Rv, numTries,
                   roSnapshot>>

\* sync_ec: one pass of the RO update loop.  A success after a failed try
\* restores the saved recovery request.
UpdateRO ==
    /\ pc = "UpdateRO"
    /\ \E o \in UpdateEc("RO") :
          /\ ApplyUpdate("RO", o)
          /\ \/ /\ o.rv = "SUCCESS"
                /\ nv' = IF numTries > 0
                         THEN [NvAfter(o) EXCEPT !.recReq = roSnapshot]
                         ELSE NvAfter(o)
                /\ Goto("ProtectRO") /\ UNCHANGED numTries
             \/ /\ o.rv # "SUCCESS"
                /\ nv' = NvAfter(o)
                /\ numTries' = numTries + 1
                /\ IF numTries + 1 = RO_RETRIES THEN Return("REBOOT_TO_RO")
                                                ELSE Goto("UpdateRO")
    /\ UNCHANGED <<dev, recMode, displayAvail, nvSaved, phase1Rv,
                   roSnapshot>>

\* protect_ec(sel), continuing at next on success.
ProtectEc(sel, next) ==
    /\ \/ /\ ec' = [ec EXCEPT !.protected = @ \cup {sel}]
          /\ Goto(next) /\ UNCHANGED <<nv, faults>>
       \/ /\ faults < MaxFaults /\ faults' = faults + 1
          /\ Return("REBOOT_TO_RO") /\ UNCHANGED <<ec, nv>>
       \/ /\ faults < MaxFaults /\ faults' = faults + 1
          /\ RequestRecovery("EC_PROTECT")
          /\ Return("ERROR") /\ UNCHANGED ec
    /\ UNCHANGED <<dev, recMode, displayAvail, sd, nvSaved, phase1Rv,
                   numTries, roSnapshot>>

\* sync_ec: protect RO flash.
ProtectRO == pc = "ProtectRO" /\ ProtectEc("RO", "ProtectRW")

\* sync_ec: protect the RW flash of select_rw.
ProtectRW == pc = "ProtectRW" /\ ProtectEc(SelectRW, "DisableJump")

\* sync_ec: vb2ex_ec_disable_jump.
DisableJump ==
    /\ pc = "DisableJump"
    /\ \/ /\ ec' = [ec EXCEPT !.jumpDisabled = TRUE]
          /\ Goto("Done") /\ UNCHANGED <<nv, faults>>
       \/ /\ faults < MaxFaults /\ faults' = faults + 1
          /\ RequestRecovery("EC_SOFTWARE_SYNC")
          /\ Return("REBOOT_TO_RO") /\ UNCHANGED ec
    /\ UNCHANGED <<dev, recMode, displayAvail, sd, nvSaved, phase1Rv,
                   numTries, roSnapshot>>

\* vb2api_ec_sync phase 3: vb2ex_ec_vboot_done, then mark sync complete.
Done ==
    /\ pc = "Done"
    /\ \/ /\ sd' = sd \cup {dev.completeBit}
          /\ Return("SUCCESS") /\ UNCHANGED faults
       \/ /\ faults < MaxFaults /\ faults' = faults + 1
          /\ Return("ERROR") /\ UNCHANGED sd
    /\ UNCHANGED <<dev, recMode, displayAvail, nv, nvSaved, ec, phase1Rv,
                   numTries, roSnapshot>>

-----------------------------------------------------------------------------
(* The caller of vb2api_ec_sync, the boot, the OS and the power supply.    *)
(* These are not in 2ec_sync.c; they follow the return-value contract and  *)
(* the NV and recovery semantics of spec.md sections 4.5, 4.10 and 5.     *)

\* An EC cold reset: it restarts in RO (an A/B EC may verify and run its
\* active RW by itself), protection and the jump lock are gone.
EcReset(img) ==
    \E r \in (IF dev.efs THEN {"RO", "RW"} ELSE {"RO"}) :
        ec' = [running |-> r, img |-> img, protected |-> {},
               jumpDisabled |-> FALSE]

\* The caller commits NV and continues to kernel selection.
CallerContinue ==
    /\ pc = "Return" /\ rv = "SUCCESS"
    /\ nvSaved' = nv /\ pc' = "Kernel"
    /\ UNCHANGED <<dev, recMode, displayAvail, sd, nv, ec, phase1Rv, rv,
                   numTries, roSnapshot, faults>>

\* VBERROR_EC_REBOOT_TO_RO_REQUIRED: commit NV, reset the EC, reboot.
CallerRebootEcToRO ==
    /\ pc = "Return" /\ rv = "REBOOT_TO_RO"
    /\ nvSaved' = nv /\ pc' = "Boot"
    /\ EcReset(ec.img)
    /\ UNCHANGED <<dev, recMode, displayAvail, sd, nv, phase1Rv, rv,
                   numTries, roSnapshot, faults>>

\* VBERROR_EC_REBOOT_TO_SWITCH_RW: the EC resets into the updated slot.
CallerSwitchRW ==
    /\ pc = "Return" /\ rv = "SWITCH_RW"
    /\ nvSaved' = nv /\ pc' = "Boot"
    /\ EcReset([ec.img EXCEPT !["Active"] = ec.img["Update"],
                              !["Update"] = ec.img["Active"]])
    /\ UNCHANGED <<dev, recMode, displayAvail, sd, nv, phase1Rv, rv,
                   numTries, roSnapshot, faults>>

\* VBERROR_REBOOT_REQUIRED or another error: commit NV, reboot the AP.
CallerRebootAP ==
    /\ pc = "Return" /\ rv \in {"REBOOT_REQUIRED", "ERROR"}
    /\ nvSaved' = nv /\ pc' = "Boot"
    /\ UNCHANGED <<dev, recMode, displayAvail, sd, nv, ec, phase1Rv, rv,
                   numTries, roSnapshot, faults>>

\* A boot: NV is loaded, a pending recovery request becomes this boot's
\* recovery reason and is cleared, the shared data starts empty, and the
\* display is up when the previous boot asked for it.
Boot ==
    /\ pc = "Boot"
    /\ recMode' = (nvSaved.recReq # "None")
    /\ nv' = [nvSaved EXCEPT !.recReq = "None"]
    /\ sd' = {}
    /\ displayAvail' \in IF nvSaved.displayReq THEN {TRUE} ELSE BOOLEAN
    /\ phase1Rv' = "SUCCESS" /\ rv' = "SUCCESS"
    /\ numTries' = 0 /\ roSnapshot' = "None"
    /\ pc' = "Entry"
    /\ UNCHANGED <<dev, nvSaved, ec, faults>>

\* Kernel selection calls vb2api_ec_sync again in the same boot.
CallAgain ==
    /\ pc = "Kernel"
    /\ pc' = "Entry"
    /\ UNCHANGED <<dev, recMode, displayAvail, sd, nv, nvSaved, ec, phase1Rv,
                   rv, numTries, roSnapshot, faults>>

\* The OS (or the recovery UI) reboots the AP; the EC keeps running.
OsWarmReboot ==
    /\ pc = "Kernel"
    /\ pc' = "Boot"
    /\ UNCHANGED <<dev, recMode, displayAvail, sd, nv, nvSaved, ec, phase1Rv,
                   rv, numTries, roSnapshot, faults>>

\* The OS installs AP firmware with new expected EC hashes (the images in
\* `changed` no longer match), may request an RO sync, and reboots.
OsFirmwareUpdate ==
    /\ pc = "Kernel"
    /\ \E changed \in SUBSET Sel \ {{}}, try \in BOOLEAN :
          /\ ec' = [ec EXCEPT !.img = [s \in Sel |->
                                         IF s \in changed THEN "Bad" ELSE @[s]]]
          /\ nvSaved' = [nvSaved EXCEPT !.tryRoSync = @ \/ try]
    /\ pc' = "Boot"
    /\ UNCHANGED <<dev, recMode, displayAvail, sd, nv, phase1Rv, rv,
                   numTries, roSnapshot, faults>>

\* Power is lost while the firmware runs: memory and uncommitted NV are
\* lost and the EC resets with the AP.
PowerLoss ==
    /\ pc \notin {"Kernel", "Boot"}
    /\ faults < MaxFaults /\ faults' = faults + 1
    /\ EcReset(ec.img)
    /\ sd' = {} /\ pc' = "Boot"
    /\ UNCHANGED <<dev, recMode, displayAvail, nv, nvSaved, phase1Rv, rv,
                   numTries, roSnapshot>>

-----------------------------------------------------------------------------
(* Specification *)

\* A device as shipped: any configuration, EC in RO with images matching
\* the AP firmware, clean NV.
Init ==
    /\ dev \in DevRec
    /\ pc = "Boot"
    /\ recMode = FALSE /\ displayAvail = FALSE
    /\ sd = {}
    /\ nv = [recReq |-> "None", tryRoSync |-> FALSE, displayReq |-> FALSE]
    /\ nvSaved = nv
    /\ ec = [running |-> "RO", img |-> [s \in Sel |-> "Good"],
             protected |-> {}, jumpDisabled |-> FALSE]
    /\ phase1Rv = "SUCCESS" /\ rv = "SUCCESS"
    /\ numTries = 0 /\ roSnapshot = "None"
    /\ faults = 0

\* The firmware's own steps and the caller's handling of their results.
Firmware ==
    \/ EcSyncEntry \/ Phase1 \/ HashRW \/ HashRO \/ WaitScreen \/ SyncRW
    \/ Jump \/ SyncRO \/ UpdateRO \/ ProtectRO \/ ProtectRW \/ DisableJump
    \/ Done \/ CallerContinue \/ CallerRebootEcToRO \/ CallerSwitchRW
    \/ CallerRebootAP \/ Boot

Environment == CallAgain \/ OsWarmReboot \/ OsFirmwareUpdate \/ PowerLoss

Next == Firmware \/ Environment

\* The firmware runs to completion once started: every step of it is
\* weakly fair.  The OS, the user and power losses are not.
Fairness ==
    /\ WF_vars(EcSyncEntry) /\ WF_vars(Phase1) /\ WF_vars(HashRW)
    /\ WF_vars(HashRO) /\ WF_vars(WaitScreen) /\ WF_vars(SyncRW)
    /\ WF_vars(Jump) /\ WF_vars(SyncRO) /\ WF_vars(UpdateRO)
    /\ WF_vars(ProtectRO) /\ WF_vars(ProtectRW) /\ WF_vars(DisableJump)
    /\ WF_vars(Done) /\ WF_vars(CallerContinue)
    /\ WF_vars(CallerRebootEcToRO) /\ WF_vars(CallerSwitchRW)
    /\ WF_vars(CallerRebootAP) /\ WF_vars(Boot)

Spec == Init /\ [][Next]_vars /\ Fairness

-----------------------------------------------------------------------------
(* Properties *)

\* When vb2api_ec_sync has marked sync complete on a boot that syncs, the
\* EC runs an RW image whose hash is the one the AP expects, RO and the
\* select_rw slot are write-protected and further jumps are disabled
\* (sync_ec, update_ec's re-hash, ec_sync_phase1's reboot rules).  It holds
\* until the boot ends (pc = "Boot" is the reboot, where memory is lost).
\* Stated for a completion bit of its own: where it aliases another bit,
\* that bit is set on the way, and AbsSpec is the property that applies.
CompleteImpliesEcConformant ==
    (dev.completeBit = "COMPLETE" /\ "COMPLETE" \in sd /\ EcSyncAllowed /\ pc # "Boot") =>
        /\ ec.running = "RW"
        /\ ec.img["Active"] = "Good"
        /\ {"RO", SelectRW} \subseteq ec.protected
        /\ ec.jumpDisabled

\* A vb2api_ec_sync that returns success leaves no recovery request in NV:
\* every request_recovery on the way is followed by a failing return, or
\* undone when a later RO update try succeeds (sync_ec's RO retry loop).
SuccessLeavesNoRecoveryRequest ==
    (pc = "Return" /\ rv = "SUCCESS") => nv.recReq = "None"

\* The AP never asks the EC to rewrite the image it is executing: a
\* non-A/B RW update happens only from RO (ec_sync_phase1's last check)
\* when vb2ex_ec_running_rw told the truth (a lying EC-RW is flashed while
\* it runs, as 2ec_sync.c:207-211 accepts), and RO is updated only after
\* the jump to RW (sync_ec).
NeverUpdateRunningImage ==
    /\ (/\ pc = "SyncRW" /\ SYNC_FLAG(SelectRW) \in sd
        /\ ("EC_IN_RW" \in sd) = (ec.running = "RW"))
           => ~Running(SelectRW)
    /\ pc = "UpdateRO" => ~Running("RO")

SyncReachesKernel == (pc = "Entry") ~> (pc = "Kernel")

\* sync_ec clears VB2_NV_TRY_RO_SYNC before it writes RO.  When, on a
\* device where sync runs and the completion bit is a bit of its own, it
\* gives up and returns to the caller while the RO image it found stale is
\* still stale, the RO sync request is still pending or recovery is
\* requested, so the "reboot to RO and restart the flow" that follows
\* retries it.
RoSyncNotDropped ==
    (/\ dev.completeBit = "COMPLETE" /\ SyncConfigured
     /\ pc = "Return" /\ "EC_RO" \in sd /\ ec.img["RO"] = "Bad")
        => (nv.tryRoSync \/ nv.recReq # "None")

-----------------------------------------------------------------------------
(* Refinement of ECSyncAbstract: the firmware and its caller between Boot  *)
(* and Kernel are the abstract "Sync" phase; recovery is recMode.          *)

AbsPhase == CASE pc = "Boot"   -> "Boot"
              [] pc = "Kernel" -> "Kernel"
              [] OTHER         -> "Sync"

AbsDev == [efs |-> dev.efs, supported |-> dev.supported,
           gbbDisable |-> dev.gbbDisable, slow |-> dev.slow]

Abs == INSTANCE ECSyncAbstract WITH phase <- AbsPhase, dev <- AbsDev,
                                    recovery <- recMode

\* ECSync implements the boot-level promise of EC software sync: the EC is
\* changed only by a boot that syncs (never in recovery or with sync
\* disabled), a boot that syncs reaches the kernel only with a locked
\* conformant EC, reboots and power losses keep or reset the EC, and no
\* boot stays in vb2api_ec_sync and its retries forever.
AbsSpec == Abs!Spec

=============================================================================
