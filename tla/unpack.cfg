\* Every layer of up to two entries over three base layers, of one entry over three
\* more, and images of none, three and too many; any step may fail.
CONSTANTS
    Names = {"a", "b"}
    Depth = 3
    MaxLinks = 2
    TopEntries = 2
    Images <- Small
    MaxLayers = 3
    MayFail = TRUE
SPECIFICATION FairSpec
INVARIANTS Inv LayersApplied NothingLeft
PROPERTIES BundleEnds
