SPECIFICATION Spec
CONSTANTS
    Replicas = {s1, s2}
    Tasks = {t1}
    Runs = {r1, r2, r3}
    Limit = 2
    Ceiling = 1
    Faults = {"crash", "delete", "deaf", "teardown"}
    Callers = {}
SYMMETRY Symmetry
INVARIANT TypeOK
INVARIANT LeaseRowsWithinLimit
INVARIANT NoOrphanLease
INVARIANT InstancesWithinLimit
CHECK_DEADLOCK FALSE
