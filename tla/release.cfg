SPECIFICATION Spec
CONSTANTS
    m0 = m0  m1 = m1  m2 = m2  r1 = r1  r2 = r2
    Manifests = {m0, m1}
    Current = m0
    Expanded = {m1}
    Legacy = {m0}
    Releases = {r1, r2}
    NoRelease = NoRelease
SYMMETRY AnyRelease
INVARIANTS WorkersAreCurrent
PROPERTIES MigratedOnceBeforeUse
CHECK_DEADLOCK FALSE
