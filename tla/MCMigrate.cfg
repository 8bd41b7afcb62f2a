\* One runner at a time, any number of commands, over the core and two plugins.
CONSTANTS
    r1 = r1  r2 = r2
    Targets <- CoreAndPlugins
    Core = "core"
    All = "all"
    Files <- FilesOfEach
    Runner <- OneRunner
SPECIFICATION FairSpec
INVARIANTS CleanIsRecorded AppliedInOrder
PROPERTIES PluginsOnCore EveryCommandEnds
