--------------------------- MODULE FwSelectAbstract ---------------------------
(***************************************************************************)
(* What firmware selection and the secure-storage floor promise, boot by   *)
(* boot, without the selector, the NV record or the slots.  A boot starts  *)
(* a version at or above the floor, and only at that moment may the floor  *)
(* move: up, to the version being started, and only if that version has   *)
(* already run and been reported good.  The floor never moves down, and    *)
(* never while a version is running.                                       *)
(***************************************************************************)
EXTENDS Naturals

CONSTANT MaxVersion

VARIABLES
    floor,     \* the firmware version floor in secure storage
    running,   \* {v} while version v runs on the device, {} otherwise
    good       \* versions that have run and been reported good

avars == <<floor, running, good>>

Versions == 0..MaxVersion

Init ==
    \E v \in Versions :
        /\ good = {v}
        /\ floor \in 0..v
        /\ running = {}

\* Start version v; the floor may roll forward to it if it is proven.
Start(v) ==
    /\ running = {}
    /\ v >= floor
    /\ running' = {v}
    /\ floor' \in {floor} \cup ({v} \cap good)
    /\ UNCHANGED good

\* The running version is reported good.
Report ==
    /\ running # {}
    /\ good' = good \cup running
    /\ UNCHANGED <<floor, running>>

\* The version stops: reboot, crash or power loss.
Stop ==
    /\ running # {}
    /\ running' = {}
    /\ UNCHANGED <<floor, good>>

Next == (\E v \in Versions : Start(v)) \/ Report \/ Stop

Spec == Init /\ [][Next]_avars

====
