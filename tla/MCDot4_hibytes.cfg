SPECIFICATION Spec
CONSTANTS
    c1 = c1
    c2 = c2
    Chans = {c1, c2}
    Profiles <- WithHiBytes
    BufSize = 2
    MaxTries = 0
    CreditMod = 65536
INVARIANTS
    DataConserved
