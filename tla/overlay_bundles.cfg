\* Two processes bundle images; any system call may fail, any process may be killed.
CONSTANTS
    p1 = p1  p2 = p2  f1 = f1  f2 = f2  base = base  lean = lean  top = top
    del = del  app = app  slim = slim  lone = lone  big = big  bare = bare
    Nothing = Nothing
    Whiteout = Whiteout
    Missing = Missing
    Procs = {p1, p2}
    Files = {f1, f2}
    Layers = {base, lean, del, top}
    Adds <- LayerAdds
    Dels <- LayerDels
    Images = {app, lone, big, bare}
    LayersOf <- Numbers
    MaxLayers = 2
    MayFail = TRUE
SPECIFICATION FairSpec
INVARIANTS Inv CachedLayerWhole RootfsHasOwnFiles BundleSucceeds NothingLeft
PROPERTIES CachedLayerKept LayerCacheSpec BundleEnds
