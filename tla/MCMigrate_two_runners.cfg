\* Two runners on one target.
CONSTANTS
    r1 = r1  r2 = r2
    Targets <- CoreOnly
    Core = "core"
    All = "all"
    Files <- TwoFiles
    Runner <- TwoRunners
SPECIFICATION Spec
PROPERTIES RefusesDirty
