SPECIFICATION FairSpec
CONSTANTS
    Ids = {1, 2, 3, 4, 5, 6, 7, 8, 9}
    Tables <- MCTables
    Sizes = {1, 2, 5}
INVARIANTS
    EdgesOnce
    ChildrenAreNumbered
PROPERTIES
    IsPaged
