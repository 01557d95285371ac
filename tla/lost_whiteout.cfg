\* One process bundles two images whose last layer has the same diff ID.
CONSTANTS
    p1 = p1  p2 = p2  f1 = f1  f2 = f2  base = base  lean = lean  top = top
    del = del  app = app  slim = slim  lone = lone  big = big  bare = bare
    Nothing = Nothing
    Whiteout = Whiteout
    Missing = Missing
    Procs = {p1}
    Files = {f1, f2}
    Layers = {base, lean, top, del}
    Adds <- LayerAdds
    Dels <- LayerDels
    Images = {app, slim}
    LayersOf <- SharedTop
    MaxLayers = 3
    MayFail = FALSE
SPECIFICATION Spec
INVARIANTS WhiteoutsConverted
