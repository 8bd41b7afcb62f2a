# Formal models of app_node

TLA+ modules for the parts of this service where requests, goroutines, commands
and failures overlap; TLC configurations that check them on small instances; and
machine-checked proofs of every safety property those runs check. Paths below are relative to
the repository (`plugins/...`, `internal/...`).

## The system

One Go process serves HTTP (gin) over a PostgreSQL database (gorm), another
binary is the console. Plugins bring their tables, services and routes; they
share the database and nothing else.

| Component | State it keeps | Operations | What makes it hard | What must be true |
|---|---|---|---|---|
| `plugins/billing` wallets and top-ups | `customers.wallet_balance`, `wallet_transactions`, `topup_requests` | admin adjustment and refund, purchase, create / confirm / cancel a top-up, three webhooks | concurrent transactions on the same rows, notifications repeated and reordered, a customer deleted under a payment, deadlocks | the ledger adds up, a payment is credited once, a success stays one |
| `plugins/billing` gateways | `payment_gateways` | CRUD, toggle, the check and price of a top-up | read-then-save, count-then-delete, check-then-insert, rounding | every top-up has its gateway, what is switched off stays off, a customer pays amount and fee |
| `plugins/node` deployments | `containers`, `nodes` | create / update / delete / deploy / reconcile a container, CRUD of nodes | a deployment is two transactions around an HTTP call with a timeout; rows are read, then saved whole | the RAM a node accounts for is what its containers hold |
| `plugins/node` proxies | `node_proxies`, `nodes.proxy_id` | CRUD, toggle, assign; saving a node saves its proxy | an update is validated against a row read before, an assignment checks and then writes | no dangling reference, no credentials lost, a closed proxy takes no node |
| `plugins/node` templates | `app_templates`, `containers.app_template_id` | CRUD of both, the start of a deployment | rows saved whole, partial updates validated, deletion against deployment | a container's template is there, deployments start on active ones, stored configurations parse |
| `plugins/auth` accounts and sessions | `admins`, `admin_sessions` (and the same for customers) | login, refresh, logout, CRUD of accounts | several statements without a transaction | refresh tokens rotate, a logout is final |
| `internal/console` migrate | `migrations`, `migration_targets`, the schema itself | up, down, down-all, over the targets that `--plugin` selects | killed between two statements, started twice | records say what the schema is |
| `internal/mail` | a channel of 200 jobs, one worker | `Queue`, `Send` | retries, a full channel, restarts | no mail sent after its end, every mail ends |
| `internal/events` | handlers per event | `Subscribe`, its unsubscribe function, `Publish` | publishing while handlers come and go | a publication reaches the handlers subscribed when it began |
| `internal/app`, `plugins`, `pluginloader`, `console` root and seed, `cmd` | the registered plugins, the router, what plugins are given | start-up of the server, `seed` of the console | order decides which middleware a route runs; any step may fail | every route has its middleware in order, nothing is served or seeded before every plugin has its services |
| `internal/db`, `keydb`, `storage`, `auth`, `uuid` | connection pool, Redis client, files, keys | opened at start-up; one call each | no interplay in this repository | - |

How they interact: Billing's and Node's rows hang on the customer rows of the
auth plugin by foreign keys with ON DELETE CASCADE, so deleting a customer is an
operation of both `Billing` and `NodeDeploy`, and saving one (`UpdateCustomer`) of
`Billing`. `DeductBalance` is written for the node plugin's deployment, which does not
call it yet. A template, a proxy and a gateway each meet the rest at one reference: a container's
template (`Templates`; what the deployment does afterwards is `NodeDeploy`), a node's proxy (`Proxies`), a
top-up's gateway (`Gateways`; what becomes of the top-up is `Billing`). The mailer and the event bus have no callers in the repository
outside their own package; they are modelled as they offer themselves.

## Modules

| Module | Models | Variables and what they stand for |
|---|---|---|
| `Billing` | `services/wallet.go`, `topup.go`, `purchase.go`, their handlers, the customer rows | four tables; a holder per row lock; per request its stage (`pc`), what it carries (`req`) and the balance it read under the lock (`seen`) |
| `WalletLedger` | what Billing promises about money, without requests or locks | wallets, bills, which bills are paid |
| `Gateways` | `services/gateway.go`, the gateway handlers, the check in `CreateTopupRequest` | two tables; per request what it still has to do; the history `off` |
| `NodeDeploy` | `plugins/node/services/resource.go` and its handlers | two tables; per request what it still has to do and the row it remembers; the history `disturbed` |
| `Proxies` | `services/proxy.go`, `handlers/proxy_admin.go`, the saves of `nodes` | two tables; per request what it still has to do; the histories `closed` and `removed` |
| `Templates` | templates and container rows in `services/resource.go` and its handlers | two tables; per request what it still has to do, the locks of a deployment included |
| `Sessions` | `plugins/auth/services/service.go` and its handlers | two tables; per request what it still has to do; the history `loggedOut` |
| `Migrate` | `internal/console/migrate.go` | the schema in effect, the two tracking tables, what each runner is doing and over which targets |
| `Mailer` | `internal/mail/mailer.go` | the channel; where each mail is, its retries, how often it was sent |
| `MailService` | what the queue promises its callers, without channel or worker | the state of each mail, how often it was tried |
| `EventBus` | `internal/events/events.go`, for one event | the slice; captured indexes; copies being published; goroutines; histories |
| `Bootstrap` | `internal/app/bootstrap.go`, `plugins/registry.go`, `console/root.go`, `seed.go` | where the program is, what it has opened, registered plugins, handlers of each group, routes, services, seeded plugins |
| `...Proofs` | theorems about `Billing`, `Gateways`, `NodeDeploy`, `Proxies`, `Templates`, `Sessions`, `Migrate`, and, together in `InternalProofs`, `Mailer`, `EventBus` and `Bootstrap` | - |
| `MC...` | model values and small sets for TLC | - |

An action named for a function of the code (`RecordTransaction`, `PrepareDeploy`,
`RefreshTokens`, ...) is that function, or the part of it up to the next point where
another actor can get in between. Definitions commented "(Mutation: ...)" are not part of the
system: each is the definition after it with a plausible mistake, kept to show that
a property notices.

`Bootstrap` sorts the middleware of a group without a sorting algorithm: the n-th is the one that n - 1 others come
before (`Before`, `Nth`, `UsedBy`), which is what a stable sort by priority means.

### Where the steps are

* **Billing**: each request is one transaction at READ COMMITTED. A step is a
  `SELECT ... FOR UPDATE` (it waits for the row lock and then sees the latest committed row)
  or the COMMIT, which makes the transaction's writes visible at once. A request
  whose check fails under the lock rolls back. Deleting a customer locks the customer, then its top-ups one
  by one (the cascade). `Abort` rolls back a transaction at any point (a statement fails,
  a connection drops, the server dies); `DeadlockVictim` is PostgreSQL's detector.
* **NodeDeploy**: the transactions of the service lock in one order (container,
  template, node) and hold on to the end, so each is a step. The call to the node, the
  DELETE and the release after it, and every read-modify-Save of a handler are
  separate steps.
* **Gateways**, **Proxies**, **Templates**: each SQL statement of a handler is a step, except the start of a
  deployment in Templates, which holds its row locks from one step to the next. gorm's `Save` is an UPDATE
  of every column and, if no row was there, an INSERT ... ON CONFLICT DO UPDATE. They are two steps where the INSERT writes something else
  than the UPDATE would (`is_active` of gateways, templates and, in Sessions, admins takes the default TRUE; a node's comes with another INSERT of its proxy
  in Proxies), and one step where either leaves
  the same columns of the model (customers in Billing, containers, nodes in NodeDeploy): whatever comes between the two, the second has the effect that both
  have in one.
* **Bootstrap**: each call of `New` or `seed` that may fail is a step, and so is each turn of a loop over the plugins.
* **Sessions**, **Migrate**: no transactions; every statement is a step, and the
  request or the command may die between any two.
* **Mailer**, **EventBus**: channel operations and critical sections are steps.

### What is abstracted

The handlers take amounts as floats with any number of decimals, and the columns are DECIMAL(15,2). In Billing a
request carries its amount in parts of a cent, of which a cent has `Cent`, the tables have whole cents, and `Column` is what a column makes of a value:
the nearest cent, and of half a cent either (the code computes in binary floating point). The amount of an entry and the new balance
are rounded apart from each other. A top-up's fee does not reach the wallet and is
left out of Billing; Gateways has it, rounded in the same way. Status strings outside the enum are one value, `INVALID` (PostgreSQL refuses them).
Names, slugs, addresses and order of display of gateways, proxies and templates decide nothing. A proxy's credentials are
the set of those that are not blank; a configuration is the set of formats it parses in. In Bootstrap a middleware is
its target, its priority and whether its handler is nil. In NodeDeploy, every container has its own customer, any eligible node may be
chosen, and fields no decision about capacity reads are left out. Choosing a node and waiting for its lock are one step:
a row that was chosen before the wait is tested again after it, because PostgreSQL evaluates the WHERE of a `FOR UPDATE` on the latest version of the row,
and which of the eligible nodes comes first by then decides nothing the properties speak of. Passwords and tokens are their owners'
knowledge and left out. In Migrate a file takes effect as a whole or not at all: PostgreSQL runs the
statements of one Exec as one transaction. The core is a target only if `migrations/{db}` exists: the module allows both, the runs
have it. (On MySQL, which the command also accepts, DDL commits by itself: a failed file
may be half in effect, still marked dirty. That is not modelled.)

Row ids are UUIDs: an id the code generates is new. `AssignExternalId` stands for the
payment integration that CreateTopupRequest leaves as a TODO (topup.go:92): no code
of the repository writes `external_id`, and a webhook finds a top-up by nothing else.
The JSONB columns are taken to accept what is written to them: `TopupRequest.WebhookData` and
`WalletTransaction.Metadata` are Go strings that are inserted as `''` when empty, which PostgreSQL
does not take as JSON; on such a database the request ends as `Abort` ends it.

## Runs

| Run | Instance | Distinct states | Checks |
|---|---|---|---|
| `billing` | 2 requests at a time, 4 in all, 1 customer, 2 top-ups, amounts of half a cent, with fairness | 417,292 | `TypeOK`, `LedgerChain`, `CreditedOnce`, `CreditFindsCustomer`, `SuccessIsFinal`, `WalletRefinement`, `EveryRequestEnds` |
| `gateways` | 3 at a time, 6 in all, 1 gateway, 2 top-ups, fee 2.5 % + 0.05 | 614,338 | `TypeOK`, `TopupsHaveGateway`, `OffStaysOff`, `TotalNearSum` |
| `node_deploy` | 2 at a time, 4 in all, 2 containers, 2 nodes of 1 or 2 units | 360,514 | `TypeOK`, `ReservationsExact`, `FullWhenUsedUp`, `OneDeployment` |
| `proxies` | 2 at a time, 5 in all, 1 proxy, 1 node | 178,403 | `TypeOK`, `AssignedExists`, `ClosedTakesNoNodes`, `CredentialsKept` |
| `templates` | 2 at a time, 5 in all, 1 template, 1 container | 46,100 | `TypeOK`, `TemplatesExist`, `ContentParses`, `StartsOnActive` |
| `sessions` | 2 at a time, 8 in all, 2 accounts, 3 sessions | 53,322 | `TypeOK`, `SuccessorReplaces`, `LogoutIsFinal`, `SessionsHaveAccounts` |
| `session_refresh_consumes` | 2 at a time, 5 in all, 1 account | - | `RefreshConsumes` is violated |
| `migrate` | 1 runner, core, a plugin of two files and one of one, any `--plugin`; unbounded, with fairness | 11,322 | `CleanIsRecorded`, `AppliedInOrder`, `PluginsOnCore`, `EveryCommandEnds`, and no deadlock |
| `migrate_two_runners` | 2 runners, one target of two files | - | `RefusesDirty` is violated |
| `mailer` | 3 mails, a channel of 2, 3 retries, with fairness | 22,553 | `OnePlace`, `SendsBounded`, `ServesMail` |
| `event_bus` | 3 handlers, 1 publication, with fairness | 10,968 | `CalledOnce`, `UnsubscribesNested`, `AllCalled` |
| `bootstrap` | server and console, up to 2 plugins of up to 2 middleware each | 91,905 | `ChainsInOrder`, `ServesWithServices` |

Configurations to be run on demand, as `tlc -config X.cfg MC...`: two larger instances of Billing
(`MCBilling_safety.cfg`: three requests at a time, six in all, in whole cents, 306,609 states; `MCBilling_two_accounts.cfg`: two
customers, three requests, 127,608 states), and the counterexamples listed under "Where the code and its words differ".

### Bounds, and why they are enough

`MaxRequests` bounds the requests of a behaviour in the modules with requests; nothing else is capped there.
Billing's four are a create and three notifications, confirmations, cancellations or
deletions that overlap, which is what any two-row conflict needs; `MCBilling_safety.cfg` has six, three of them overlapping. `Cent` is 2 and the one amount 1, half a cent:
the largest error a rounding can make, which four requests may add up. In
NodeDeploy nodes may exist at the start, so that four requests create two containers and deploy both, or create one, deploy it, move
it to the other node by an edit while that is under way, and deploy it there again (larger instances were run once: five requests, 6 million states).
Sessions' eight allow three generations of one refresh chain with an overlapping logout and a deletion. Gateways'
six are two updates, a toggle, a deletion and two top-ups, three of them overlapping. Proxies' five are the shortest
history in which a deleted proxy comes back and an update validated before writes to it; Templates' five let
two partial updates, a deletion and a deployment of a new container overlap. An admin's edit in
NodeDeploy changes one field at a time (`Edits`, `NodeEdits`); larger edits are
sequences of these. The channel of two and three mails make it full; the code's 200
differs in nothing else. Two plugins with two middleware have equal and inverted priorities within and across
plugins, every target, and a nil handler. Migrate, EventBus and Bootstrap are finite as they are.

Bounds mislead: with one node, `OneDeployment` held in a form that two nodes refute, and with four requests `CredentialsKept`
held of proxies that had been deleted. Both were found by failed proofs, and the properties and bounds corrected. What is proved (below) does
not depend on any of them.

Deadlock is checked where the system must always be able to go on (`migrate`). In the others
a behaviour may stop: the requests of the bound are used up, all mails have ended, or
everyone has been called.

## What the runs show

**Billing.** `LedgerChain`: no interleaving loses an update of a balance or separates it from
its entry: each entry starts where the one before it ended, and the last ends at the balance. An entry may miss its own sum by a cent, since amount
and balance are rounded apart: 0.01 adjusted by -0.005 is stored as amount -0.01, before 0.01, after 0.01. One that credits a top-up does not
miss, because that amount comes from a column. (A top-up whose amount rounds to zero can never be settled: `RecordTransaction` refuses
zero.) `CreditedOnce`: however often a payment is notified, confirmed and cancelled at the
same time, exactly one entry credits it, to its owner and for its amount.
`CreditFindsCustomer`: the lock a payment holds on its top-up keeps the cascade, and so the
deletion of its customer, waiting. `SuccessIsFinal`: nothing that comes late takes a success back. (Other
end states are not final: a notification may turn CANCELLED or FAILED into anything.)
`WalletRefinement`: all of it together implements `WalletLedger`, under the mapping wallet =
`balance`, paid = the top-ups that are SUCCESS, bill = the owner and amount of their rows.

**Gateways.** `TopupsHaveGateway`: a deletion that counted no top-ups and a top-up that found its gateway cannot both
succeed: the foreign key decides. `OffStaysOff`: a gateway switched off while no update of it is under way
stays off and takes no top-up that was checked later (one that was checked before is still inserted). `TotalNearSum`: what
a customer pays is amount plus fee, or a cent off.

**Node.** An admin edit of a reserving container or of `used_ram_mb`, a reconciliation that
changes its status, deleting a container that is DEPLOYING or has changed since it was read, deleting its customer,
and dying before a release each leave a node's account wrong: the code has no step that would
repair it. `disturbed` collects those nodes. `ReservationsExact` and `FullWhenUsedUp` say
that nothing else does: no overlap of deployments, failures, timeouts, crashes and deletions.
`OneDeployment` says the same of the deployment in progress. (A deployment whose container was edited away from it still writes RUNNING
or ERROR to it when its node answers, whoever deploys it by then: that disturbs the node the container is on.)

**Proxies.** `AssignedExists`: the foreign key and the SET NULL of a deletion leave no node with a proxy that is gone.
`CredentialsKept`: two updates, each validated against the row before the other, cannot leave a valid proxy without what its type
asks for, because credentials can be given but not taken away. `ClosedTakesNoNodes`: after a deactivation only the
nodes that had the proxy, or were being given it, have it.

**Templates.** `StartsOnActive`: the row lock of a deployment makes a deactivation or deletion wait. `ContentParses`:
no order of partial updates stores what no parser took.

**Bootstrap.** `ChainsInOrder`: a route under `/admin` or `/api` runs CORS and then exactly the middleware aimed at its group, by
priority, stable; attaching before routes are made is what this rests on, since gin copies a group's handlers into a route.
`ServesWithServices`: no half of the plugins serves or seeds when the other half failed to register its services. It is about
serving and seeding: `RegisterMiddleware` and `ConsoleCommands` come before the services.

**Sessions.** `SuccessorReplaces`: wherever a refresh is cut short there are never two usable tokens
of one chain link (there may be none: the client must log in again). `LogoutIsFinal` holds of logouts
with no refresh of the same session under way; a refresh that has passed its check
still gets its successor.

**Migrate.** With one runner, a target that is not dirty has exactly the recorded migrations in
effect, whatever was killed where (`CleanIsRecorded`). `PluginsOnCore` is about up and down-all with `--plugin all`, whatever the
commands before them were given: up adds to a plugin only on top of a complete core, and down-all takes from the core only when no
record of a plugin is left, nor anything of it in effect unless it is dirty. Every other command may do the contrary: one over
the core alone (the default) or one plugin looks at nothing else, and `down` over all targets takes one step from each, so
that the core's may go under a plugin that has more.

**Mailer.** A mail is sent at most four times, given up only after the fourth, never sent again once
it has ended, and always ends: the queue implements `MailService`, its fairness included (`ServesMail`, with the state of a mail
mapped from its place and the tries from its sends). It may end `dropped` (a retry finds the channel full),
`unnoticed` (the server refuses the finished message: the error of the deferred `Close` is not looked at)
or `lost` in a restart.

**EventBus.** A publication calls the handlers subscribed when it began, each once.

### Where the code and its words differ

Each of these configurations ends in a counterexample against a sentence of the repository. The first two are among the
runs.

| Configuration | The sentence | The behaviour |
|---|---|---|
| `MCSessions_consume` | `RefreshTokens` "consumes" its token | two calls with one token (a client's retry) both pass the check, and both get a session |
| `MCMigrate_two_runners` | the README: the CLI refuses to continue when a target is dirty | both runners pass the check; one marks the target and begins its file, the other begins too |
| `MCMigrate_dirty` | the same | up fails in the first file of a plugin; down-all finds no version there and goes on to the next target without looking at dirty |
| `MCMigrate_down_all` | the README: `migrate down-all` rolls back "all migrations (plugins first, then core)" | `--plugin` is the core unless given: up with `--plugin all`, then down-all as the README has it, takes the core away under the plugins |
| `MCBilling_append_only` | the schema: `wallet_transactions` is APPEND-ONLY | deleting a customer cascades to the ledger |
| `MCGateways_disabled` | "ToggleGatewayStatus - Enable/disable gateway" | an update reads the row, the gateway is disabled, the update of another field saves `is_active` as it was |
| `MCGateways_deleted` | "DeleteGateway - Delete payment gateway" | the same with a deletion: Save finds nothing to UPDATE and inserts the row again |
| `MCGateways_total` | the schema: `total_paid` is amount + fee | 10003.40 at 2.5 % has a fee of 250.085, stored as 250.09; the total of 10253.485 may be stored as 10253.48 |
| `MCProxies_active` | AssignProxy: "ensure proxy exists and is active" | checked, deactivated, assigned |
| `MCProxies_deleted` | "Delete removes a proxy" | a node is read with its proxy for an update, the proxy is deleted, saving the node inserts it again |
| `MCTemplates_config` | "Validate config content if provided" | an update that names no type is parsed as YAML and stored as content of type json |
| `MCEventBus_unsubscribe` | the function unsubscribes its handler | it removes by an index that is stale once an older subscription was removed |
| `MCBootstrap_global` | the README: global middleware execute for a request by priority | "global" is a group of its own; plugins get the engine and two other groups, so no plugin route has it |
| `MCBootstrap_target` | types.go: a target is "global", "admin", or "store" | the map of groups has "api" in its place; middleware for "store" is dropped |

Met while modelling and not the subject of a configuration: a proxy that comes back with a node has the credentials that were
read with the node, and an update that was validated against the deleted row may then change its type to one they do not suffice for
(`CredentialsKept` excludes it); `migrate down` is documented as "plugins last"
(migrate.go:103) but visits plugins first; `migrate up`, "core then plugins" in the README, is up of the core alone without `--plugin`, and in this repository,
which has no `migrations/postgres`, it ends with "no migration paths found"; `UpdateAdmin` and `UpdateCustomer` save with gorm's
Save, which inserts the row again when it was deleted in between; such an insert, and the
creation of a customer or a gateway with `is_active` false, takes the column's default TRUE; the ping timeout of
keydb's `Init` is five nanoseconds (client.go:23), and when the ping fails bootstrap.go:85 logs that flash messages are
unavailable although `Client` is set; a second caller of `GetGormDB` after a failed first one
gets neither a database nor an error (gorm.go:28).

## Fairness

* Billing: weak fairness of `Progress` for every request: its goroutine runs on, PostgreSQL grants
  a row lock that stays free, and its deadlock detector runs. Every stage of a request has its
  steps in `Progress`; beginning a request and failing are not assumed. With it, `EveryRequestEnds`.
* Migrate: weak fairness of a runner's next statement. Nobody has to start or repair anything.
* Mailer: weak fairness of receiving, of the end of an SMTP exchange and of the pause. The code sets
  no deadline on the exchange: that it ends is a promise of the server and the network.
* EventBus: weak fairness of the publishing loop and of the goroutines it starts.

## Proofs

Each theorem holds for every value of the constants: any number of customers, rows, requests, mails, targets, plugins,
handlers, any amounts and capacities. The only assumptions are the ones the modules name (`BillingAssumption`,
`NodeAssumption`, ...), which TLC evaluates in every run. They say that bounds and amounts are numbers, that `None` is not
one of the values it stands beside, that `Targets` of Migrate is a list with the core first, if it is there, and, for the sums of NodeDeploy, that there are finitely many
containers and requests. Three theorems of `MigrateProofs` also assume `OneRunner`: commands that are not run at the same
time. With two runners a target can be clean and wrong (`migrate_two_runners`).

| Module | Theorems (besides `Invariance`: `Spec => []IInv`) |
|---|---|
| `BillingProofs` | `TypeCorrect`, `LedgerIntact` (`LedgerChain`), `CreditedExactlyOnce` (`CreditedOnce`), `PayerExists` (`CreditFindsCustomer`), `SuccessStays` (`SuccessIsFinal`), `BillingImplementsLedger` (`WalletRefinement`) |
| `GatewaysProofs` | `TypeCorrect`, `GatewaysKept` (`TopupsHaveGateway`), `SwitchedOffStays` (`OffStaysOff`), `TotalIsNear` (`TotalNearSum`) |
| `NodeDeployProofs` | `TypeCorrect`, `FullIsUsedUp` (`FullWhenUsedUp`), `DeploysAlone` (`OneDeployment`), `AccountsExact` (`ReservationsExact`) |
| `ProxiesProofs` | `TypeCorrect`, `NoneDangles` (`AssignedExists`), `ClosedStays` (`ClosedTakesNoNodes`), `CredentialsStay` (`CredentialsKept`) |
| `TemplatesProofs` | `TypeCorrect`, `TemplatesStay` (`TemplatesExist`), `ContentIsParsed` (`ContentParses`), `DeploysActive` (`StartsOnActive`) |
| `SessionsProofs` | `TypeCorrect`, `SuccessorsReplace` (`SuccessorReplaces`), `LogoutsAreFinal` (`LogoutIsFinal`), `SessionsAreOwned` (`SessionsHaveAccounts`) |
| `MigrateProofs` | `TypeCorrect`, for any number of runners; `CleanIsTrue` (`CleanIsRecorded`), `InOrder` (`AppliedInOrder`), `CoreFirstAndLast` (`PluginsOnCore`), for one at a time |
| `InternalProofs` | Mailer: `OnePlaceEach` (`OnePlace`), `SendsAreBounded` (`SendsBounded`), `Serves` (the safety part of `ServesMail`). EventBus: `BusInvariance`, `BusCallsOnce` (`CalledOnce`), `BusMissesNobody` (the safety part of `AllCalled`), `BusUnsubscribesNested` (`UnsubscribesNested`). Bootstrap: `BootServesWithServices` (`ServesWithServices`), `BootChainsInOrder` (`ChainsInOrder`) |

### Billing

`LedgerChain` and `CreditedOnce` say nothing about requests in progress, so they are not
inductive: a COMMIT keeps them only because of what the request read under its locks.
`Core` says what that is, stage by stage (`HoldsItsRows`): a request about to commit a
mutation holds the lock of the customer row and has seen its current balance; one that
settles a top-up holds its row, which is not SUCCESS and has the owner and the amount
it remembers. To be inductive itself, `Core` needs that ids are used once (`FreshIds`) and
that the owner of a top-up exists (`ForeignKey`), which is also why `PayerExists` holds.

1. `CoreInductive`: one lemma per action (`LockTopupCore`, `CommitCore`, `CommitDeleteCore`, ...), over
   the frame lemma `Frame` for what the action leaves alone.
2. `MoneySteps`: every step is one of four kinds (quiet, a commit, an insert, a deletion). The
   later proofs look only at these.
3. `ChainInductive` and `CreditInductive`: `LedgerChain` and `CreditedOnce` are inductive relative to `Core`.
4. `CommitRefines`, `InsertRefines`, `DeleteRefines`: the kinds map to `Move` or `Pay`, `Bill`, `Close`.

The rounding enters in two places: what `Column` returns is at most half a cent off, so that the errors of an entry's amount and of its
balance are a cent together (`LedgerChain`), and whole cents stay what they are, which is why a top-up is credited to the cent and
`WalletLedger` needs no rounding.

### The others

Each has one lemma per action (`...Keeps`), and in `IInv`, besides the properties, what makes them inductive:

* Gateways: `Quiet`: every update under way of a gateway that is off for good has read it as off and is still to
  UPDATE it (an INSERT would take the default TRUE). `TotalNearSum` is a fact about rounding, proved of `Fee` and `TotalPaid`.
* NodeDeploy: `Sized`: no amount of RAM that is added or given back is zero, without which giving some back would leave a node
  FULL. `OneDeployment` is inductive because `disturbed` records every write to a container that is being deployed
  (`Overwritten`); the one delicate step is a deployment that ends (`EndKeeps`). `ReservationsExact` stands on that and on
  `Fresh`: no container and no deletion under way names a node that was never there, so a new node starts with nothing
  to account for. `KeepsAccounts` reduces a step to two questions, how the RAM a node has given out changes and how what it owes does; the
  answers come from `SumChanges`: when one term changes, the sum changes by as much.
* Proxies: `Enough`: an update under way that changes the type found the credentials it needs, and they are still there. `Unasked`: of
  a closed proxy, nobody asks to activate it. `Known`, `Absent`: requests know only proxies that were created, nodes
  without a row have none.
* Templates: `Locks`: the template that a deployment has locked is there, active, and its container's. `Parsed`: so
  is the content of a row on its way to the table.
* Sessions: `Known`: a refresh under way inserts a successor only when the session is revoked or gone. `Out`: a session
  logged out for good is in no refresh.
* Migrate: `Knows`: at each stage, how schema and records of the runner's target differ, and whether it is marked dirty.
  `Ready`: the file a runner has begun is the next one, up or down, which makes `AppliedInOrder` inductive. `LeftBehind`: on its
  way over all targets, up has left a complete core behind it and down-all no record, which makes `PluginsOnCore` so.
* Mailer: `Counted`: how the sends of a mail follow from its retries and its place. `AppendOne` and `TailOne` are
  about the channel as a sequence without repetition.
* EventBus: `Apart`: what a publication has left to start, has started and has called are disjoint, and together they are who was subscribed
  when it began. `InPlace`: as long as unsubscriptions nest, each handler is at the index its function captured.
* Bootstrap: `BootIInv` says what has been put together by the time of each step; `Served`, what a plugin has been given. `Chains`: from
  `AttachMiddleware` on a group has its whole chain, and each route made from it has it too. That the chain is the right one
  is `UsedByRows`: the priorities and positions order the middleware of a group totally, so that each rank is taken by exactly one
  (`Ranks`, by the pigeonhole principle).

### Induction

The library's induction theorems take an operator, which the provers cannot instantiate. The proofs use its
well-founded orders in their place: a set of exceptions, if not empty, has a least member, and that one is refuted (`Least`,
`UpTo`, `SubsetInduction`). Recursive functions need one argument more: what the community modules define by
CHOOSE (`SumFunction`, `FlattenSeq`) is what its equation says only if a function satisfies the equation, and that is shown by
the same means (`RecursExists`, `FlattenExists`).

### Only model-checked

Liveness (`EveryRequestEnds`, `AllCalled`, `EveryCommandEnds`, the fairness of `ServesMail`) and the absence of deadlock in
`migrate`: the prover does not do liveness under fairness, nor ENABLED. The counterexamples of the runs and configurations that expect one
are TLC's.

## Not modelled

* The plugin generator (`console/plugin.go`) and `migrate create` and `list`: they write or print text, once.
* `internal/storage`'s Put, Get, Delete, List and `internal/keydb`'s flash messages: one call to the file system or one
  command of Redis each, without a caller in the repository. Opening them is in `Bootstrap`.
* `internal/db`: pool settings and DSN parsing have no state; `WithTransaction` has no caller.
* Token signing, password hashing, ids: pure functions of libraries. The models take generated ids and tokens to be new.
* What middleware and handlers answer (parsing of tokens, validation messages, response bodies): stateless. `Sessions` has what a
  request does to the tables.
* The customer half of the auth plugin's sessions: the same code on `customers` and `customer_sessions`; the customer rows are in
  `Billing`.
* API keys, audit logs and password resets: tables without code. `docs/swagger` is generated.

## Plan

Done: the models of every component with state that several actors or failures touch, two abstract
specifications with their refinements, and the proofs above.

Left: an abstract specification of a node's capacity that `NodeDeploy` implements for undisturbed nodes, by the same invariant; and
one of refresh chains for `Sessions`.
