\* A layer with a file, and one with its whiteout; nothing fails.
CONSTANTS
    Names = {"a", "b"}
    Depth = 3
    MaxLinks = 2
    TopEntries = 0
    Images <- Deleted
    MaxLayers = 3
    MayFail = FALSE
SPECIFICATION Spec
INVARIANTS LayersFlattened
