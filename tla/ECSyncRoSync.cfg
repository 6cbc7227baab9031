\* No faults at all: the RO sync request is dropped by a warm reboot alone.
CONSTANTS
    MaxFaults = 0
    RO_RETRIES <- MCRoRetries
SPECIFICATION Spec
INVARIANTS
    RoSyncNotDropped
