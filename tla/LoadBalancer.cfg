\* Two overlapping connections, the two servers of NewLB.
SPECIFICATION Spec
CONSTANTS
    Request = {r1, r2}
    N = 2
    Nobody = Nobody
INVARIANTS
    NoLostCount
    RotationResumes
PROPERTIES
    EveryRequestDialled
CHECK_DEADLOCK FALSE
