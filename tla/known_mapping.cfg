\* Two processes pull the same tag without any failure.
CONSTANTS
    p1 = p1  p2 = p2  app = app  tool = tool  big = big
    base = base  top = top  latest = latest  multi = multi
    NoHash = NoHash
    Procs = {p1, p2}
    Images = {app}
    Layers = {base, top}
    LayersOf <- OneImage
    MaxLayers = 2
    Tags = {latest}
    Indexes = {}
    Platform <- NoPlatform
    MayFail = FALSE
SPECIFICATION Spec
INVARIANTS KnownMappingKept
