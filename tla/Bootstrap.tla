------------------------------ MODULE Bootstrap ------------------------------
(***************************************************************************)
(* How the server and the console put themselves together                  *)
(* (internal/app/bootstrap.go, internal/plugins/registry.go,               *)
(* internal/console/root.go and seed.go): the database, the store, the     *)
(* flash messages, the router with its groups, the plugins' middleware,    *)
(* services and routes, in the order the code takes them, with every step  *)
(* that may fail.                                                          *)
(*                                                                         *)
(* A handler chain is a sequence: gin copies the handlers of a group into  *)
(* every group and every route made from it at the time it is made, and    *)
(* Use adds to the group alone.  What a middleware or a handler does, the  *)
(* matching of an origin and the text of a route are left out.             *)
(***************************************************************************)
EXTENDS Integers, FiniteSets, SequencesExt

CONSTANTS Plugins,        \* the plugins that may be registered
          Descriptors,    \* the middleware they may offer
          MaxPlugins,     \* bound: plugins registered by one program
          MaxDescriptors, \* bound: middleware of one plugin
          NoDeps          \* RegisterServices has not set p.deps

VARIABLES program,     \* which of the two programs this process is
          stage,       \* the step it takes next, or how it ended
          past,        \* how many plugins the current loop is past
          db,          \* the connection is open
          store,       \* the store is there
          client,      \* keydb.Client is set
          registered,  \* plugins.registered
          offered,     \* RegisterMiddleware of each plugin
          uses,        \* the handlers of the engine and of each group
          routes,      \* the routes: whose, on which group, their handlers
          deps,        \* p.deps of each plugin
          seeded       \* the plugins whose Seed ran

bootVars == <<program, stage, past, db, store, client, registered, offered,
              uses, routes, deps, seeded>>

Groups == {"engine", "global", "admin", "api"}
Targets == {"global", "admin", "api", "store"}
Cors == [name |-> "cors", priority |-> 0, target |-> "engine", order |-> 0]

(***************************************************************************)
(* A middleware as its plugin describes it; a nil Handler is allowed.      *)
(***************************************************************************)
ASSUME DescriptorsAssumption ==
    Descriptors \subseteq
      [target: Targets, priority: Int, handler: BOOLEAN]
Deps == [db: BOOLEAN, store: BOOLEAN]
ASSUME BootAssumption ==
    /\ MaxPlugins \in Nat /\ MaxDescriptors \in Nat
    /\ NoDeps \notin Deps
Lists(S, n) == UNION {[1 .. k -> S] : k \in 0 .. n}

BootInit ==
    /\ program \in {"server", "console"}
    /\ stage = IF program = "server" THEN "db" ELSE "register"
    /\ past = 0
    /\ db = FALSE /\ store = FALSE /\ client = FALSE
    /\ registered = <<>>
    /\ offered = <<>>
    /\ uses = [g \in Groups |-> <<>>]
    /\ routes = {}
    /\ deps = [p \in Plugins |-> NoDeps]
    /\ seeded = <<>>

Fail == stage' = "failed"
Goto(s) == stage' = s /\ past' = 0

(***************************************************************************)
(* GetGormDB.  The console opens the database for a seed only.             *)
(***************************************************************************)
OpenDB ==
    /\ stage = "db"
    /\ \/ db' = TRUE /\ Goto("storage")
       \/ Fail /\ UNCHANGED <<db, past>>
    /\ UNCHANGED <<program, store, client, registered, offered, uses, routes,
                   deps, seeded>>

(***************************************************************************)
(* LoadConfig and NewStore.  Only a local store whose directory can be     *)
(* made is ever returned: another driver is refused by LoadConfig, and s3, *)
(* which it takes, by NewStore.  The server ends there; a seed goes on     *)
(* without a store.                                                        *)
(***************************************************************************)
LoadsConfig(driver, complete) == driver = "local" \/ (driver = "s3" /\ complete)
OpensStore(driver, writable) == driver = "local" /\ writable
OpenStore ==
    /\ stage = "storage"
    /\ \E driver \in {"local", "s3", "other"}, complete, writable \in BOOLEAN :
          store' = (LoadsConfig(driver, complete) /\ OpensStore(driver, writable))
    /\ IF program = "console" THEN Goto("services")
       ELSE IF store' THEN Goto("keydb")
       ELSE Fail /\ UNCHANGED past
    /\ UNCHANGED <<program, db, client, registered, offered, uses, routes,
                   deps, seeded>>

(***************************************************************************)
(* keydb.Init sets the client before it pings, and New goes on whatever    *)
(* the ping says.                                                          *)
(***************************************************************************)
InitKeyDB ==
    /\ stage = "keydb"
    /\ client' \in BOOLEAN
    /\ Goto("router")
    /\ UNCHANGED <<program, db, store, registered, offered, uses, routes,
                   deps, seeded>>

(***************************************************************************)
(* The entries of CORS_ALLOWED_ORIGINS, blank ones dropped, by kind: an    *)
(* origin with its scheme, a pattern with a star, a bare host.  cors.New   *)
(* panics on a bare host, and when neither an origin nor a pattern is      *)
(* left; without the variable the default is used.                         *)
(***************************************************************************)
BadOrigins(kinds) ==
    \/ "bare" \in kinds
    \/ kinds = {}

(***************************************************************************)
(* gin.Default, Use(cors) and the three groups, each of which copies the   *)
(* engine's handlers; then the routes of the program's own.                *)
(***************************************************************************)
Route(p, g, chain) == [plugin |-> p, group |-> g, chain |-> chain]
MakeRouter ==
    /\ stage = "router"
    /\ \/ /\ uses' = [g \in Groups |-> <<Cors>>]
          /\ routes' = {Route("core", "engine", <<Cors>>)}
          /\ Goto("register")
       \/ /\ \E kinds \in SUBSET {"origin", "pattern", "bare"} :
                BadOrigins(kinds)
          /\ Fail
          /\ UNCHANGED <<uses, routes, past>>
    /\ UNCHANGED <<program, db, store, client, registered, offered, deps,
                   seeded>>

(***************************************************************************)
(* RegisterCorePlugins, which registers none, and the plugins of the       *)
(* program's main.                                                         *)
(***************************************************************************)
RegisterPlugins ==
    /\ stage = "register"
    /\ registered' \in Lists(Plugins, MaxPlugins)
    /\ Goto(IF program = "server" THEN "middleware" ELSE "command")
    /\ UNCHANGED <<program, db, store, client, offered, uses, routes, deps,
                   seeded>>

(***************************************************************************)
(* AttachMiddleware: every descriptor in the order of registration, sorted *)
(* by priority, equal ones left in order; one with an unknown target or    *)
(* without a handler is skipped.                                           *)
(***************************************************************************)
Collected(lists) ==
    FlattenSeq([k \in 1 .. Len(registered) |-> lists[registered[k]]])
InTurn(all, j, k) == j < k   \* a mutation: registration order only
Before(all, j, k) ==
    \/ all[j].priority < all[k].priority
    \/ all[j].priority = all[k].priority /\ j < k
Nth(all, S, n) ==
    CHOOSE k \in S : Cardinality({j \in S : Before(all, j, k)}) = n - 1
Row(all, k) ==
    [name |-> "plugin", priority |-> all[k].priority, order |-> k,
     target |-> all[k].target, handler |-> all[k].handler]
UsedBy(g, all) ==
    LET used == {k \in DOMAIN all : all[k].target = g /\ all[k].handler}
    IN [n \in 1 .. Cardinality(used) |-> Row(all, Nth(all, used, n))]

AttachMiddleware ==
    /\ stage = "middleware"
    /\ offered' \in [Plugins -> Lists(Descriptors, MaxDescriptors)]
    /\ \A p \in Plugins : p \notin Range(registered) => offered'[p] = <<>>
    /\ uses' = [g \in Groups |->
                  uses[g] \o UsedBy(g, Collected(offered'))]
    /\ Goto("services")
    /\ UNCHANGED <<program, db, store, client, registered, routes, deps,
                   seeded>>

(***************************************************************************)
(* One round of RegisterAllServices: the first error ends it, and the      *)
(* program.                                                                *)
(***************************************************************************)
IgnoredRefusal == past' = past + 1 /\ UNCHANGED <<stage, deps>>   \* a mutation
Refused == Fail /\ UNCHANGED <<past, deps>>
RegisterServices ==
    /\ stage = "services"
    /\ past < Len(registered)
    /\ \/ /\ deps' = [deps EXCEPT ![registered[past + 1]] =
                         [db |-> db, store |-> store]]
          /\ past' = past + 1
          /\ UNCHANGED stage
       \/ Refused
    /\ UNCHANGED <<program, db, store, client, registered, offered, uses,
                   routes, seeded>>

ServicesRegistered ==
    /\ stage = "services"
    /\ past = Len(registered)
    /\ Goto(IF program = "server" THEN "routes" ELSE "seed")
    /\ UNCHANGED <<program, db, store, client, registered, offered, uses,
                   routes, deps, seeded>>

(***************************************************************************)
(* One round of RegisterAllRoutes: a plugin puts routes on the engine and  *)
(* on the two groups, as billing does (the others leave the engine out),   *)
(* and each takes the handlers its group has by then.                      *)
(* A route that is there already panics: a plugin registered twice.        *)
(***************************************************************************)
RoutesOf(p) == {Route(p, g, uses[g]) : g \in {"engine", "admin", "api"}}
RegisterRoutes ==
    /\ stage = "routes"
    /\ past < Len(registered)
    /\ \/ /\ ~ \E r \in routes : r.plugin = registered[past + 1]
          /\ routes' = routes \cup RoutesOf(registered[past + 1])
          /\ past' = past + 1
          /\ UNCHANGED stage
       \/ Fail /\ UNCHANGED <<routes, past>>
    /\ UNCHANGED <<program, db, store, client, registered, offered, uses,
                   deps, seeded>>

(***************************************************************************)
(* The swagger routes, and the listener, whose address may be taken.       *)
(***************************************************************************)
Listen ==
    /\ stage = "routes"
    /\ past = Len(registered)
    /\ \/ Goto("serving")
       \/ Fail /\ UNCHANGED past
    /\ UNCHANGED <<program, db, store, client, registered, offered, uses,
                   routes, deps, seeded>>

(***************************************************************************)
(* The seed command: from a file of SQL on a connection of its own, or     *)
(* through the plugins.                                                    *)
(***************************************************************************)
SeedFromFile ==
    /\ stage = "command"
    /\ \/ Goto("done")
       \/ Fail /\ UNCHANGED past
    /\ UNCHANGED <<program, db, store, client, registered, offered, uses,
                   routes, deps, seeded>>

SeedByServices ==
    /\ stage = "command"
    /\ Goto("db")
    /\ UNCHANGED <<program, db, store, client, registered, offered, uses,
                   routes, deps, seeded>>

(***************************************************************************)
(* seedPlugins: nothing for "core", the first plugin of the name asked     *)
(* for, or all of them up to the first error.                              *)
(***************************************************************************)
SeedOne ==
    /\ stage = "seed"
    /\ past = 0
    /\ \E asked \in Plugins \cup {"core"} :
          IF asked \in Range(registered)
          THEN /\ seeded' = <<asked>>
               /\ \/ Goto("done")
                  \/ Fail /\ UNCHANGED past
          ELSE /\ IF asked = "core" THEN Goto("done") ELSE Fail /\ UNCHANGED past
               /\ UNCHANGED seeded
    /\ UNCHANGED <<program, db, store, client, registered, offered, uses,
                   routes, deps>>

SeedAll ==
    /\ stage = "seed"
    /\ \/ /\ past < Len(registered)
          /\ seeded' = Append(seeded, registered[past + 1])
          /\ \/ past' = past + 1 /\ UNCHANGED stage
             \/ Fail /\ UNCHANGED past
       \/ /\ past = Len(registered)
          /\ Goto("done")
          /\ UNCHANGED seeded
    /\ UNCHANGED <<program, db, store, client, registered, offered, uses,
                   routes, deps>>

BootNext ==
    \/ OpenDB \/ OpenStore \/ InitKeyDB \/ MakeRouter \/ RegisterPlugins
    \/ AttachMiddleware \/ RegisterServices \/ ServicesRegistered
    \/ RegisterRoutes \/ Listen
    \/ SeedFromFile \/ SeedByServices \/ SeedOne \/ SeedAll

BootSpec == BootInit /\ [][BootNext]_bootVars

-----------------------------------------------------------------------------
(***************************************************************************)
(* Every route a server serves for a plugin on /admin or /api runs CORS    *)
(* first and then each middleware that some registered plugin aims at that *)
(* group, once, by rising priority, equal ones in the order of             *)
(* registration (AttachMiddleware before RegisterAllRoutes; SliceStable).  *)
(***************************************************************************)
Aimed(g) ==
    LET all == Collected(offered)
    IN {k \in DOMAIN all : all[k].target = g /\ all[k].handler}
ChainsInOrder ==
    stage = "serving" =>
      \A r \in routes : r.group \in {"admin", "api"} =>
        /\ r.chain[1] = Cors
        /\ {r.chain[n].order : n \in 2 .. Len(r.chain)} = Aimed(r.group)
        /\ Len(r.chain) = 1 + Cardinality(Aimed(r.group))
        /\ \A m, n \in 2 .. Len(r.chain) : m < n =>
             \/ r.chain[m].priority < r.chain[n].priority
             \/ /\ r.chain[m].priority = r.chain[n].priority
                /\ r.chain[m].order < r.chain[n].order

(***************************************************************************)
(* Nothing is served or seeded before every plugin has its services: the   *)
(* server serves no route, and the console runs no Seed, of a program with *)
(* a plugin whose RegisterServices failed or has not run; and the routes   *)
(* of a server have a store as well (RegisterAllServices).  It is about    *)
(* these two hooks: RegisterMiddleware and ConsoleCommands come before the *)
(* services, and RegisterRoutes only makes the routes.                     *)
(***************************************************************************)
ServesWithServices ==
    stage = "serving" \/ seeded # <<>> =>
      \A p \in Range(registered) :
        /\ deps[p] # NoDeps
        /\ deps[p].db
        /\ stage = "serving" => deps[p].store

(***************************************************************************)
(* README.md:389 has the global middleware run on every request by         *)
(* priority.  It does not hold of the code: "global" names the group made  *)
(* by Group(""), whose Use reaches none of the routes, because the plugins *)
(* are given the engine and the other two groups.                          *)
(***************************************************************************)
GlobalReachesPlugins ==
    stage = "serving" =>
      \A r \in routes : r.plugin # "core" =>
        Aimed("global") \subseteq {r.chain[n].order : n \in 1 .. Len(r.chain)}

(***************************************************************************)
(* types.go:14 names "store" as the third target.  It does not hold of the *)
(* code: the map New passes has "api" in its place, and a middleware aimed *)
(* at "store" is dropped without a word.                                   *)
(***************************************************************************)
StoreTargetRuns ==
    stage = "serving" =>
      Aimed("store") \subseteq
        UNION {{r.chain[n].order : n \in 1 .. Len(r.chain)} : r \in routes}
=============================================================================
