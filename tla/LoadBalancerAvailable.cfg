\* Two connections and the two servers of NewLB.
SPECIFICATION Spec
CONSTANTS
    Request = {r1, r2}
    N = 2
    Nobody = Nobody
INVARIANTS
    AvailableIsServed
CHECK_DEADLOCK FALSE
