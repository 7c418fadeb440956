CONSTANTS
    Addr = {a1, a2, a3}
    Nobody = Nobody
    FreshCount = 3
    FreshSize = 1
    UsedCount = 1
    UsedSize = 1
    MaxRefs = 8
    Percent = 50
    MaxSaved = 1
    UsedBucket <- OneBucket
SPECIFICATION Spec
SYMMETRY Interchangeable
INVARIANTS
    TablesAgree
    ReadsBack
    FewRefs
