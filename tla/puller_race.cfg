\* Two processes pull by tag and by digest; the tag may move; no failures.
CONSTANTS
    p1 = p1  p2 = p2  app = app  tool = tool  big = big
    base = base  top = top  latest = latest  multi = multi
    NoHash = NoHash
    Procs = {p1, p2}
    Images = {app, tool}
    Layers = {base, top}
    LayersOf <- TwoImages
    MaxLayers = 2
    Tags = {latest}
    Indexes = {}
    Platform <- NoPlatform
    MayFail = FALSE
SYMMETRY ProcSymmetry
SPECIFICATION Spec
INVARIANTS TypeOK MappedImageComplete AnswerIsNamed PullSucceeds
