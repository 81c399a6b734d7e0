\* Two sessions race on main and dev; each operation is atomic.
CONSTANTS
    s1 = s1  s2 = s2  s3 = s3  main = main  dev = dev  a = a  b = b
    Zero = Zero  NoRow = NoRow  None = None
    Sessions <- MCSessions
    RefNames = {main, dev}
    Ids = {a, b}
    InitRefs <- MCInitRefs
SPECIFICATION Spec
INVARIANT TypeOK
PROPERTY RefStoreRefinesAbs
CHECK_DEADLOCK FALSE
