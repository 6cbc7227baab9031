---------------------------- MODULE MC_FwSelect ----------------------------
(* Two slots, versions 0..2, two tries, two OS updates, two faults. *)
EXTENDS FwSelect

MCMaxVersion == 2
MCMaxTries == 2
MCMaxUpdates == 2
MCMaxFaults == 2
====
