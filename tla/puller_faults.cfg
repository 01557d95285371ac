\* Two processes pull the same image; any step may fail, any process may be killed.
CONSTANTS
    p1 = p1  p2 = p2  app = app  tool = tool  big = big
    base = base  top = top  latest = latest  multi = multi
    NoHash = NoHash
    Procs = {p1, p2}
    Images = {app}
    Layers = {base, top}
    LayersOf <- OneImage
    MaxLayers = 2
    Tags = {latest}
    Indexes = {}
    Platform <- NoPlatform
    MayFail = TRUE
SYMMETRY ProcSymmetry
SPECIFICATION Spec
INVARIANTS Inv MappedImageComplete ReturnedImageComplete NoTempLeft
PROPERTIES CacheSpec
