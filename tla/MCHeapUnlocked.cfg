CONSTANTS
    NThreads = 2
    NBlocks = 2
    NPages = 3
    PageSize = 7
    Header = 1
    Sizes = {1, 3, 4}
    CallsStartMt = FALSE
SPECIFICATION HeapSpec
INVARIANTS BlocksAreSafe
