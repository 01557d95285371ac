\* One process pulls every kind of reference, an image of too many layers among them; any step may fail.
CONSTANTS
    p1 = p1  p2 = p2  app = app  tool = tool  big = big
    base = base  top = top  latest = latest  multi = multi
    NoHash = NoHash
    Procs = {p1}
    Images = {app, big}
    Layers = {base, top}
    LayersOf <- WithBig
    MaxLayers = 2
    Tags = {latest}
    Indexes = {multi}
    Platform <- MultiIsApp
    MayFail = TRUE
SPECIFICATION FairSpec
INVARIANTS AnswerIsNamed PullSucceeds
PROPERTIES NeverOnlyReads CallReturns
