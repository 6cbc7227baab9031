------------------------------ MODULE MC_ECSync ------------------------------
(* ECSync instantiated for TLC. *)
EXTENDS ECSync

\* Three faults per behaviour: enough for an RO update that fails once and
\* then succeeds, or a fault on each of two consecutive boots.
MCMaxFaults == 3

\* RO_RETRIES as defined in 2ec_sync.c.
MCRoRetries == 2

=============================================================================
