SPECIFICATION FairSpec
CONSTANTS
    Ids = {1, 2, 7}
    Names = {"A", "B"}
    Families <- MCFamilies
INVARIANTS
    OneValuePerPath
    DescribedFirst
    DrawnOrReported
PROPERTIES
    IsBatchStream
    HeardOut
