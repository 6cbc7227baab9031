---------------------------- MODULE ECSyncAbstract ----------------------------
(***************************************************************************)
(* What EC software sync promises the boot flow, boot by boot, without the *)
(* steps of 2ec_sync.c.  A boot starts (in recovery or not), syncs, and    *)
(* either reaches kernel selection or reboots.  While it syncs, only a     *)
(* boot in which sync is allowed changes the EC; it reaches the kernel     *)
(* only with the EC running a matching RW image, write-protected and       *)
(* jump-locked; a reboot leaves the EC as it is or resets it; and no boot *)
(* syncs forever.  The OS may change the expected images before a reboot.  *)
(***************************************************************************)
EXTENDS Naturals

VARIABLES
    phase,     \* "Boot", "Sync" (firmware running) or "Kernel"
    dev,       \* the device configuration
    recovery,  \* whether this boot is a recovery boot
    ec         \* the EC: running image, images, protection, jump lock

avars == <<phase, dev, recovery, ec>>

Sel == {"RO", "Active", "Update"}
Img == {"Good", "Bad"}
EcStates == [running : {"RO", "RW"}, img : [Sel -> Img],
             protected : SUBSET Sel, jumpDisabled : BOOLEAN]
Devs == [efs : BOOLEAN, supported : BOOLEAN, gbbDisable : BOOLEAN,
         slow : BOOLEAN]

\* Sync runs on this boot.
Allowed == dev.supported /\ ~dev.gbbDisable /\ ~recovery

\* The EC as a completed sync leaves it.
Locked(e) ==
    /\ e.running = "RW" /\ e.img["Active"] = "Good"
    /\ {"RO", IF dev.efs THEN "Update" ELSE "Active"} \subseteq e.protected
    /\ e.jumpDisabled

\* The EC after a cold reset: unprotected, unlocked, in RO or in an RW
\* slot, possibly with its A/B slots switched.
Resets(e) ==
    {[running |-> r, img |-> i, protected |-> {}, jumpDisabled |-> FALSE] :
        r \in {"RO", "RW"},
        i \in {e.img, [e.img EXCEPT !["Active"] = e.img["Update"],
                                    !["Update"] = e.img["Active"]]}}

Init ==
    /\ phase = "Boot" /\ dev \in Devs /\ recovery = FALSE
    /\ ec = [running |-> "RO", img |-> [s \in Sel |-> "Good"],
             protected |-> {}, jumpDisabled |-> FALSE]

StartBoot ==
    /\ phase = "Boot" /\ phase' = "Sync"
    /\ recovery' \in BOOLEAN
    /\ UNCHANGED <<dev, ec>>

SyncStep ==
    /\ phase = "Sync" /\ Allowed
    /\ ec' \in EcStates
    /\ UNCHANGED <<phase, dev, recovery>>

EnterKernel ==
    /\ phase = "Sync" /\ phase' = "Kernel"
    /\ Allowed => Locked(ec)
    /\ UNCHANGED <<dev, recovery, ec>>

Reboot ==
    /\ phase = "Sync" /\ phase' = "Boot"
    /\ ec' \in {ec} \cup Resets(ec)
    /\ UNCHANGED <<dev, recovery>>

SyncAgain ==
    /\ phase = "Kernel" /\ phase' = "Sync"
    /\ UNCHANGED <<dev, recovery, ec>>

LeaveOs ==
    /\ phase = "Kernel" /\ phase' = "Boot"
    /\ \E i \in [Sel -> Img] : ec' = [ec EXCEPT !.img = i]
    /\ UNCHANGED <<dev, recovery>>

Next ==
    \/ StartBoot \/ SyncStep \/ EnterKernel \/ Reboot \/ SyncAgain \/ LeaveOs

\* A boot that syncs ends its sync, in the kernel or in a reboot.
Spec == Init /\ [][Next]_avars /\ WF_avars(EnterKernel \/ Reboot)

====
