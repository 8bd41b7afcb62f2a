----------------------------- MODULE NodeDeploy -----------------------------
(***************************************************************************)
(* The node plugin: containers, the nodes they are deployed to, and the    *)
(* RAM a deployment reserves on its node (plugins/node/services/           *)
(* resource.go and the handlers that call it).                             *)
(*                                                                         *)
(* A deployment is two transactions with an HTTP call to the node between  *)
(* them.  Every transaction of the service locks, in the same order        *)
(* (container, template, node), each row it decides on, and keeps the lock *)
(* to the end: it is one step here.  What is NOT in one transaction is     *)
(* several steps: the call, a DELETE and the release that follows it, and  *)
(* the handlers that read a row, change some fields, and Save all of it.   *)
(***************************************************************************)
EXTENDS Integers, FiniteSetsExt

CONSTANTS
    Container,      \* container ids
    Node,           \* node ids
    Proc,           \* concurrent requests
    Rams,           \* amounts of RAM a container may ask for
    Capacities,     \* amounts of RAM a node may have
    MaxRequests,    \* bound: requests begun in a behaviour
    None            \* SQL NULL

ASSUME NodeAssumption ==
    /\ Rams \subseteq Nat \ {0}
    /\ Capacities \subseteq Nat \ {0}
    /\ MaxRequests \in Nat
    /\ None \notin Node
    /\ IsFiniteSet(Container) /\ IsFiniteSet(Proc)

\* The enums of the schema.  A row that is not there: its id was never used, it
\* was deleted, or (NOOWNER) its customer was, so it cannot be inserted again.
ContainerStatus == {"PENDING", "DEPLOYING", "RUNNING", "ERROR"}
NodeStatus == {"ACTIVE", "MAINTENANCE", "FULL"}

ContainerRow == [status : ContainerStatus \cup {"NEW", "GONE", "NOOWNER"},
                 node : Node \cup {None}, ram : Nat, external : BOOLEAN]
NodeRow == [status : NodeStatus \cup {"NEW", "GONE"}, max : Nat, used : Nat]

NoContainer(s) == [status |-> s, node |-> None, ram |-> 0, external |-> FALSE]
NoNode(s) == [status |-> s, max |-> 0, used |-> 0]

\* What a request still has to do, and what it remembers to do it with.
Idle == [stage |-> "idle"]
Task ==
    {Idle}
        \cup [stage : {"calling", "finalize", "fail"},
              container : Container, node : Node, ram : Nat]
        \cup [stage : {"asking", "save", "delete"},
              container : Container, row : ContainerRow]
        \cup [stage : {"release"}, node : Node, ram : Nat]
        \cup [stage : {"saveNode"}, node : Node, row : NodeRow]

VARIABLES
    container,      \* table containers
    node,           \* table nodes
    task,           \* what each request is doing
    disturbed,      \* history: nodes whose accounts something else has changed
                    \* than a deployment that had its container to itself, or a
                    \* plain deletion
    begun           \* requests begun so far

vars == <<container, node, task, disturbed, begun>>

HasRow(c) == container[c].status \in ContainerStatus
HasNode(n) == node[n].status \in NodeStatus

TypeOK ==
    /\ container \in [Container -> ContainerRow]
    /\ node \in [Node -> NodeRow]
    /\ \A n \in Node : node[n].used <= node[n].max
    /\ task \in [Proc -> Task]
    /\ disturbed \subseteq Node
    /\ begun \in Nat

\* Some nodes were there before the first container.
Init ==
    /\ container = [c \in Container |-> NoContainer("NEW")]
    /\ node \in [Node -> {NoNode("NEW")}
                            \cup [status : {"ACTIVE"}, max : Capacities, used : {0}]]
    /\ task = [p \in Proc |-> Idle]
    /\ disturbed = {}
    /\ begun = 0

-----------------------------------------------------------------------------
(* Reservations.                                                           *)

\* A container in one of these states holds its RAM on its node.
Reserves(row) == row.status \in {"DEPLOYING", "RUNNING"} /\ row.node # None

\* (Mutation: a node that is used up stays ACTIVE.)
ReserveOnly(row, ram) == [row EXCEPT !.used = @ + ram]

Reserve(row, ram) ==
    [row EXCEPT !.used = @ + ram,
                !.status = IF row.used + ram >= row.max THEN "FULL" ELSE @]

Release(row, ram) ==
    LET left == IF row.used < ram THEN 0 ELSE row.used - ram IN
    [row EXCEPT !.used = left,
                !.status = IF @ = "FULL" /\ left < row.max THEN "ACTIVE" ELSE @]

\* (Mutation: the free RAM is compared off by one.)
EligibleOneShort(n, ram) ==
    node[n].status = "ACTIVE" /\ node[n].max - node[n].used >= ram - 1

\* SelectBestNode's WHERE.
Eligible(n, ram) == node[n].status = "ACTIVE" /\ node[n].max - node[n].used >= ram

\* The nodes that lose their exact account when row `new` overwrites row `old`.
Disturbs(old, new) ==
    IF /\ Reserves(old) \/ Reserves(new)
       /\ <<old.status, old.node, old.ram>> # <<new.status, new.node, new.ram>>
    THEN {old.node, new.node} \ {None}
    ELSE {}

-----------------------------------------------------------------------------
(* Deployment.                                                             *)

Begun == begun < MaxRequests /\ begun' = begun + 1

Becomes(p, t) == task' = [task EXCEPT ![p] = t]

\* (Mutation: a container that is being deployed is deployed once more.)
PrepareDeployAgain(p, c, n) ==
    LET row == container[c] IN
    /\ task[p] = Idle
    /\ Begun
    /\ row.status \in {"PENDING", "ERROR", "DEPLOYING"}
    /\ row.node \in {None, n}
    /\ Eligible(n, row.ram)
    /\ container' = [container EXCEPT ![c].status = "DEPLOYING", ![c].node = n]
    /\ node' = [node EXCEPT ![n] = Reserve(@, row.ram)]
    /\ Becomes(p, [stage |-> "calling", container |-> c, node |-> n, ram |-> row.ram])
    /\ UNCHANGED disturbed

\* prepareDeploy and resolveDeployNode: the container keeps the node it has or
\* gets an eligible one.  The code asks for the one with most free RAM, but the
\* row is chosen before its lock is waited for, so any eligible node may be it.
\* A refusal (no template, no node, wrong state) changes nothing.
PrepareDeploy(p, c, n) ==
    LET row == container[c] IN
    /\ task[p] = Idle
    /\ Begun
    /\ row.status \in {"PENDING", "ERROR"}
    /\ row.node \in {None, n}
    /\ Eligible(n, row.ram)
    /\ container' = [container EXCEPT ![c].status = "DEPLOYING", ![c].node = n]
    /\ node' = [node EXCEPT ![n] = Reserve(@, row.ram)]
    /\ Becomes(p, [stage |-> "calling", container |-> c, node |-> n, ram |-> row.ram])
    /\ UNCHANGED disturbed

\* callNodeDeploy: the node has deployed the container, or it has not, or
\* nobody knows because the call timed out; the last two are errors.
NodeAnswers(p, outcome) ==
    /\ task[p].stage = "calling"
    /\ Becomes(p, [task[p] EXCEPT !.stage = outcome])
    /\ UNCHANGED <<container, node, disturbed, begun>>

\* The container still is as PrepareDeploy left it to request p.
StillPrepared(p) ==
    LET row == container[task[p].container] IN
    <<row.status, row.node, row.ram>> = <<"DEPLOYING", task[p].node, task[p].ram>>

\* How a deployment ends for its container, if that is still there: whatever has
\* become of it, the status is written.
Ends(p, row) ==
    LET c == task[p].container IN
    IF HasRow(c)
    THEN /\ container' = [container EXCEPT ![c] = row]
         /\ disturbed' = IF StillPrepared(p) THEN disturbed
                         ELSE disturbed \cup Disturbs(container[c], row)
    ELSE UNCHANGED <<container, disturbed>>

FinalizeDeploy(p) ==
    /\ task[p].stage = "finalize"
    /\ Ends(p, [container[task[p].container] EXCEPT !.status = "RUNNING", !.external = TRUE])
    /\ Becomes(p, Idle)
    /\ UNCHANGED <<node, begun>>

\* (Mutation: the container becomes ERROR, its RAM stays reserved.)
FailDeployKeepingRam(p) ==
    /\ task[p].stage = "fail"
    /\ Ends(p, [container[task[p].container] EXCEPT !.status = "ERROR"])
    /\ Becomes(p, Idle)
    /\ UNCHANGED <<node, begun>>

\* failDeploy: one transaction, undone as a whole when the node is gone.
FailDeploy(p) ==
    LET n == task[p].node IN
    /\ task[p].stage = "fail"
    /\ IF HasNode(n)
       THEN /\ Ends(p, [container[task[p].container] EXCEPT !.status = "ERROR"])
            /\ node' = [node EXCEPT ![n] = Release(@, task[p].ram)]
       ELSE UNCHANGED <<container, node, disturbed>>
    /\ Becomes(p, Idle)
    /\ UNCHANGED begun

-----------------------------------------------------------------------------
(* The other operations on containers.                                     *)

\* A customer may name a node, an admin a status and an external id too.
NewContainers ==
    {[status |-> s, node |-> n, ram |-> ram, external |-> s = "RUNNING"] :
         s \in ContainerStatus, n \in Node \cup {None}, ram \in Rams}

\* INSERT; the foreign key to the node must hold.
CreateContainer(c, row) ==
    /\ Begun
    /\ container[c].status = "NEW"
    /\ row.node # None => HasNode(row.node)
    /\ container' = [container EXCEPT ![c] = row]
    /\ disturbed' = disturbed \cup Disturbs(container[c], row)
    /\ UNCHANGED <<node, task>>

\* DeleteContainer: the row is read first, without a lock.
DeleteContainer(p, c) ==
    /\ task[p] = Idle
    /\ Begun
    /\ HasRow(c)
    /\ Becomes(p, [stage |-> "delete", container |-> c, row |-> container[c]])
    /\ UNCHANGED <<container, node, disturbed>>

\* Then it is deleted, whatever it has become, or was deleted already; what was
\* read decides whether RAM is released.  The account stays exact when the row
\* still is what was read and is not being deployed.
DeleteRow(p) ==
    LET c == task[p].container
        row == task[p].row
        now == container[c]
    IN  /\ task[p].stage = "delete"
        /\ container' = IF HasRow(c)
                        THEN [container EXCEPT ![c] = NoContainer("GONE")]
                        ELSE container
        /\ disturbed' = disturbed \cup Disturbs(now, row)
                            \cup IF now.status = "DEPLOYING" THEN {now.node} \ {None} ELSE {}
        /\ Becomes(p, IF row.status = "RUNNING" /\ row.node # None
                      THEN [stage |-> "release", node |-> row.node, ram |-> row.ram]
                      ELSE Idle)
        /\ UNCHANGED <<node, begun>>

\* releaseNodeResource, a transaction of its own.
ReleaseNodeResource(p) ==
    LET n == task[p].node IN
    /\ task[p].stage = "release"
    /\ node' = IF HasNode(n) THEN [node EXCEPT ![n] = Release(@, task[p].ram)] ELSE node
    /\ Becomes(p, Idle)
    /\ UNCHANGED <<container, disturbed, begun>>

\* ReconcileContainer reads the row without a lock, then asks its node.
ReconcileContainer(p, c) ==
    /\ task[p] = Idle
    /\ Begun
    /\ HasRow(c)
    /\ container[c].node # None
    /\ container[c].external
    /\ Becomes(p, [stage |-> "asking", container |-> c, row |-> container[c]])
    /\ UNCHANGED <<container, node, disturbed>>

\* queryNodeContainerStatus: the node reports a status (ERROR when it does not
\* know the container), or nothing of use; a new status will be saved.
NodeReports(p, s) ==
    /\ task[p].stage = "asking"
    /\ Becomes(p, IF s \in ContainerStatus \ {task[p].row.status}
                  THEN [task[p] EXCEPT !.stage = "save", !.row.status = s]
                  ELSE Idle)
    /\ UNCHANGED <<container, node, disturbed, begun>>

\* UpdateContainer: the handler reads the row and changes fields of it.
UpdateContainer(p, c, row) ==
    /\ task[p] = Idle
    /\ Begun
    /\ HasRow(c)
    /\ Becomes(p, [stage |-> "save", container |-> c, row |-> row])
    /\ UNCHANGED <<container, node, disturbed>>

\* What an admin makes of a row.  (Bound: one field at a time.)
Edits(row) ==
    {row, [row EXCEPT !.external = TRUE]}
        \cup {[row EXCEPT !.ram = r] : r \in Rams}
        \cup {[row EXCEPT !.node = n] : n \in Node}
        \cup {[row EXCEPT !.status = s] : s \in ContainerStatus}

\* gorm's Save of the whole row as it was read, or INSERT when it is gone; the
\* foreign keys must hold.
SaveContainer(p) ==
    LET c == task[p].container
        row == task[p].row
    IN  /\ task[p].stage = "save"
        /\ IF /\ container[c].status # "NOOWNER"
              /\ row.node # None => HasNode(row.node)
           THEN /\ container' = [container EXCEPT ![c] = row]
                /\ disturbed' = disturbed \cup Disturbs(container[c], row)
           ELSE UNCHANGED <<container, disturbed>>
        /\ Becomes(p, Idle)
        /\ UNCHANGED <<node, begun>>

\* The auth plugin deletes the customer: ON DELETE CASCADE takes the container
\* along and nobody releases its RAM.  (Each container has its own customer.)
DeleteCustomer(c) ==
    /\ Begun
    /\ container[c].status # "NOOWNER"
    /\ container' = [container EXCEPT ![c] = NoContainer("NOOWNER")]
    /\ disturbed' = disturbed \cup Disturbs(container[c], NoContainer("NOOWNER"))
    /\ UNCHANGED <<node, task>>

-----------------------------------------------------------------------------
(* Nodes.                                                                  *)

\* A status that says of the RAM what the service would say.
Matches(row) == row.status # "MAINTENANCE" => (row.status = "FULL" <=> row.used = row.max)

\* INSERT of what the admin typed in, used_ram_mb and status included.
CreateNode(n, row) ==
    /\ Begun
    /\ node[n].status = "NEW"
    /\ row.used <= row.max
    /\ node' = [node EXCEPT ![n] = row]
    /\ disturbed' = IF row.used = 0 /\ Matches(row) THEN disturbed ELSE disturbed \cup {n}
    /\ UNCHANGED <<container, task>>

\* UpdateNode: the handler reads the row and changes fields of it.
UpdateNode(p, n, row) ==
    /\ task[p] = Idle
    /\ Begun
    /\ HasNode(n)
    /\ Becomes(p, [stage |-> "saveNode", node |-> n, row |-> row])
    /\ UNCHANGED <<container, node, disturbed>>

\* (Bound: one field at a time.)
NodeEdits(row) ==
    {row} \cup {[row EXCEPT !.max = m] : m \in Capacities}
          \cup {[row EXCEPT !.used = u] : u \in {0} \cup Rams}
          \cup {[row EXCEPT !.status = s] : s \in NodeStatus}

\* What an admin creates.  (Bound: at most one field of a plain node is changed.)
NewNodes ==
    UNION {NodeEdits([status |-> "ACTIVE", max |-> m, used |-> 0]) : m \in Capacities}

\* Save of the whole row; the CHECK constraints must hold.  It disturbs the node
\* when it changes used_ram_mb, or the status to one that does not fit.
SaveNode(p) ==
    LET n == task[p].node
        row == task[p].row
    IN  /\ task[p].stage = "saveNode"
        /\ IF row.used <= row.max
           THEN /\ node' = [node EXCEPT ![n] = row]
                /\ disturbed' = IF HasNode(n) /\ node[n].used = row.used /\ Matches(row)
                                THEN disturbed
                                ELSE disturbed \cup {n}
           ELSE UNCHANGED <<node, disturbed>>
        /\ Becomes(p, Idle)
        /\ UNCHANGED <<container, begun>>

\* DELETE, refused by the foreign key of containers.
DeleteNode(n) ==
    /\ Begun
    /\ HasNode(n)
    /\ \A c \in Container : HasRow(c) => container[c].node # n
    /\ node' = [node EXCEPT ![n] = NoNode("GONE")]
    /\ UNCHANGED <<container, task, disturbed>>

-----------------------------------------------------------------------------
\* A request ends with an error or its server dies; only a release that was
\* due and is not made changes what the accounts should say.
Crash(p) ==
    /\ task[p] # Idle
    /\ disturbed' = IF task[p].stage = "release" THEN disturbed \cup {task[p].node}
                                                 ELSE disturbed
    /\ Becomes(p, Idle)
    /\ UNCHANGED <<container, node, begun>>

BeginRequest(p) ==
    \/ \E c \in Container :
          \/ \E n \in Node : PrepareDeploy(p, c, n)
          \/ DeleteContainer(p, c)
          \/ ReconcileContainer(p, c)
          \/ \E row \in Edits(container[c]) : UpdateContainer(p, c, row)
    \/ \E n \in Node : \E row \in NodeEdits(node[n]) : UpdateNode(p, n, row)

Progress(p) ==
    \/ \E outcome \in {"finalize", "fail"} : NodeAnswers(p, outcome)
    \/ FinalizeDeploy(p)
    \/ FailDeploy(p)
    \/ DeleteRow(p)
    \/ ReleaseNodeResource(p)
    \/ \E s \in ContainerStatus \cup {"nothing"} : NodeReports(p, s)
    \/ SaveContainer(p)
    \/ SaveNode(p)

AtOnce ==
    \/ \E c \in Container :
          \/ \E row \in NewContainers : CreateContainer(c, row)
          \/ DeleteCustomer(c)
    \/ \E n \in Node :
          \/ DeleteNode(n)
          \/ \E row \in NewNodes : CreateNode(n, row)

Next == AtOnce \/ \E p \in Proc : BeginRequest(p) \/ Progress(p) \/ Crash(p)

Spec == Init /\ [][Next]_vars

-----------------------------------------------------------------------------
(* Properties.                                                             *)

\* The RAM a container holds on node n, and the RAM of a deleted one that a
\* request has still to give back to it.
Held(row, n) == IF Reserves(row) /\ row.node = n THEN row.ram ELSE 0
Due(t, n) == IF t.stage = "release" /\ t.node = n THEN t.ram ELSE 0

\* The RAM that belongs to node n.
Owed(n) == SumFunction([c \in Container |-> Held(container[c], n)])
               + SumFunction([p \in Proc |-> Due(task[p], n)])

\* Whatever deployments, failures, timeouts, crashes and deletions overlap: as
\* long as no admin edit, reconciliation or deletion in mid-deployment got in
\* between, used_ram_mb is exactly what the containers of the node hold.
ReservationsExact ==
    \A n \in Node \ disturbed : HasNode(n) => node[n].used = Owed(n)

\* Such a node is FULL exactly when its RAM is used up: it neither takes a
\* container it has no room for nor is it passed over once room is back.
FullWhenUsedUp == \A n \in Node \ disturbed : HasNode(n) => Matches(node[n])

\* A request that deploys a container has it to itself: the row says DEPLOYING on
\* the node and with the RAM the request will finalize or give back, and no
\* other such request is deploying it.  (One that lost its container to an edit
\* still writes to it when its node answers: that disturbs the node it is on now.)
Deploying(p) == task[p].stage \in {"calling", "finalize", "fail"}
OneDeployment ==
    \A p \in Proc : Deploying(p) /\ task[p].node \notin disturbed =>
        /\ StillPrepared(p)
        /\ \A q \in Proc :
              Deploying(q) /\ task[q].node \notin disturbed
                  /\ task[q].container = task[p].container => q = p

=============================================================================
