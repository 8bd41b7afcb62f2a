----------------------------- MODULE MCMigrate -----------------------------
(* The core and two plugins, with one, two and one migrations.             *)
EXTENDS Migrate

CONSTANTS r1, r2

CoreAndPlugins == <<"core", "auth", "billing">>
FilesOfEach == [core |-> {1}, auth |-> {1, 2}, billing |-> {1}]
CoreOnly == <<"core">>
TwoFiles == [core |-> {1, 2}]
OneRunner == {r1}
TwoRunners == {r1, r2}
=============================================================================
