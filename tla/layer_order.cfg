\* One process bundles an image that replaces a file of its base layer.
CONSTANTS
    p1 = p1  p2 = p2  f1 = f1  f2 = f2  base = base  lean = lean  top = top
    del = del  app = app  slim = slim  lone = lone  big = big  bare = bare
    Nothing = Nothing
    Whiteout = Whiteout
    Missing = Missing
    Procs = {p1}
    Files = {f1, f2}
    Layers = {base, lean, top, del}
    Adds <- LayerAdds
    Dels <- LayerDels
    Images = {app}
    LayersOf <- Replaced
    MaxLayers = 3
    MayFail = FALSE
SPECIFICATION Spec
INVARIANTS RootfsFlattened
