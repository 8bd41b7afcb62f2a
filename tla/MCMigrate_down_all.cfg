\* A down-all without --plugin, as the README gives it.
CONSTANTS
    r1 = r1  r2 = r2
    Targets <- CoreAndPlugins
    Core = "core"
    All = "all"
    Files <- FilesOfEach
    Runner <- OneRunner
SPECIFICATION Spec
PROPERTIES DownAllPluginsFirst
