------------------------------- MODULE Proxies -------------------------------
(***************************************************************************)
(* Proxies and the nodes they are assigned to (plugins/node/services/      *)
(* proxy.go, AssignProxy and UpdateNode of resource.go, their handlers).   *)
(*                                                                         *)
(* An update of a proxy validates a candidate made from the row it read,   *)
(* and then writes only the columns it was asked to change.  An assignment *)
(* checks that the proxy is active, then writes it to the node.  An update *)
(* of a node reads it with its proxy, and gorm saves both.                 *)
(***************************************************************************)
EXTENDS Integers

CONSTANTS
    Proxy,          \* proxy ids
    Node,           \* node ids
    Proc,           \* concurrent requests
    MaxRequests,    \* bound: requests begun in a behaviour
    Gives,          \* the sets of credentials an update may give
    None            \* SQL NULL, or a field that a request leaves out

AuthType == {"user_password", "api_key"}
Credential == {"user", "password", "token"}

ASSUME ProxyAssumption ==
    /\ MaxRequests \in Nat
    /\ Gives \subseteq SUBSET Credential
    /\ None \notin Proxy /\ None \notin AuthType /\ None \notin BOOLEAN

\* A proxy's row; creds are the credentials that are not blank.
ProxyRow == [status : {"ROW"}, auth : AuthType, creds : SUBSET Credential, active : BOOLEAN]
NoProxy(s) == [status |-> s, auth |-> "api_key", creds |-> {}, active |-> FALSE]

\* What a request changes: credentials can only be given, not taken away.
Changes == [auth : AuthType \cup {None}, give : Gives,
            active : BOOLEAN \cup {None}]

Idle == [stage |-> "idle"]
Task ==
    {Idle}
        \cup [stage : {"update"}, proxy : Proxy, changes : Changes]
        \cup [stage : {"assign"}, node : Node, proxy : Proxy]
        \cup [stage : {"saveNode", "insertNode"}, node : Node,
              proxy : Proxy \cup {None}, row : ProxyRow \cup {NoProxy("NEW")}]

VARIABLES
    proxy,          \* table node_proxies
    node,           \* table nodes: the rows that are there
    assigned,       \* nodes.proxy_id
    task,           \* what each request still has to do
    closed,         \* history: proxies that were deactivated and that nobody
                    \* has asked to activate since, with the nodes that had
                    \* them, or were being given them, at that moment
    removed,        \* history: proxies that were deleted
    begun           \* requests begun so far

vars == <<proxy, node, assigned, task, closed, removed, begun>>

Open == [is |-> FALSE, nodes |-> {}]

HasRow(x) == proxy[x].status = "ROW"

TypeOK ==
    /\ proxy \in [Proxy -> ProxyRow \cup {NoProxy("NEW"), NoProxy("GONE")}]
    /\ node \subseteq Node
    /\ assigned \in [Node -> Proxy \cup {None}]
    /\ task \in [Proc -> Task]
    /\ closed \in [Proxy -> [is : BOOLEAN, nodes : SUBSET Node]]
    /\ removed \subseteq Proxy
    /\ begun \in 0..MaxRequests

\* The nodes are older than proxies.  The migration that added auth_type derived
\* it from the credentials that are not NULL, blank ones included, for rows older
\* than it.
DerivedAuth(given) ==
    IF {"user", "password"} \subseteq given THEN "user_password" ELSE "api_key"

Init ==
    /\ proxy \in [Proxy -> {row \in ProxyRow :
                                \E given \in SUBSET Credential :
                                    row.creds \subseteq given /\ row.auth = DerivedAuth(given)}
                               \cup {NoProxy("NEW")}]
    /\ node \in SUBSET Node
    /\ assigned = [n \in Node |-> None]
    /\ task = [p \in Proc |-> Idle]
    /\ closed = [x \in Proxy |-> Open]
    /\ removed = {}
    /\ begun = 0

-----------------------------------------------------------------------------
\* A request of one statement is one step; one of several is carried on by p.
Once == begun < MaxRequests /\ begun' = begun + 1

Begin(p) == task[p] = Idle /\ Once

Becomes(p, t) == task' = [task EXCEPT ![p] = t]

\* validateProxyAuthConfig.
Valid(auth, creds) ==
    IF auth = "user_password" THEN {"user", "password"} \subseteq creds ELSE "token" \in creds

\* What an INSERT makes of a row: gorm leaves a false is_active to the column,
\* whose default is TRUE.
Inserted(row) == [row EXCEPT !.active = TRUE]

Asks(t, x) == t.stage = "update" /\ t.proxy = x /\ t.changes.active = TRUE

\* Requests that will write proxy x to node n.
Giving(n, x) ==
    \E p \in Proc : /\ task[p].stage \in {"assign", "saveNode", "insertNode"}
                    /\ task[p].node = n /\ task[p].proxy = x

\* The history, when x is deactivated: it is closed, unless some request under
\* way asks to activate it.
Closing(x) ==
    [is |-> \A p \in Proc : ~Asks(task[p], x),
     nodes |-> {n \in Node : (n \in node /\ assigned[n] = x) \/ Giving(n, x)}]

-----------------------------------------------------------------------------
(* Proxies.                                                                *)

CreateProxy(x) ==
    /\ proxy[x].status = "NEW"
    /\ Once
    /\ \E row \in ProxyRow : /\ Valid(row.auth, row.creds)
                             /\ proxy' = [proxy EXCEPT ![x] = Inserted(row)]
    /\ UNCHANGED <<node, assigned, task, closed, removed>>

\* The row with the columns of a request written to it.
Changed(row, ch) ==
    [row EXCEPT !.auth = IF ch.auth = None THEN @ ELSE ch.auth,
                !.creds = @ \cup ch.give,
                !.active = IF ch.active = None THEN @ ELSE ch.active]

\* (Mutation: blank credentials are passed on, and so can be taken away.)
ChangedAndCleared(row, ch) ==
    [Changed(row, ch) EXCEPT !.creds = IF ch.give = {} THEN {} ELSE @]

\* What the UPDATE of the columns in ch makes of the row.
Written(row, ch) == Changed(row, ch)

\* Update reads the row and validates the candidate.
ReadForUpdate(p, x, ch) ==
    /\ HasRow(x)
    /\ LET candidate == Changed(proxy[x], ch) IN Valid(candidate.auth, candidate.creds)
    /\ Begin(p)
    /\ Becomes(p, [stage |-> "update", proxy |-> x, changes |-> ch])
    /\ closed' = IF ch.active = TRUE THEN [closed EXCEPT ![x] = Open] ELSE closed
    /\ UNCHANGED <<proxy, node, assigned, removed>>

\* (Mutation: the columns are saved, not updated: a missing row is inserted.)
WriteOrInsert(p) ==
    /\ task[p].stage = "update"
    /\ LET x == task[p].proxy  ch == task[p].changes IN
           /\ proxy' = [proxy EXCEPT ![x] = Written(@, ch)]
           /\ closed' = IF ch.active = FALSE
                        THEN [closed EXCEPT ![x] = Closing(x)] ELSE closed
    /\ Becomes(p, Idle)
    /\ UNCHANGED <<node, assigned, removed, begun>>

\* ... then writes the changed columns, if the row is still there.
WriteUpdate(p) ==
    /\ task[p].stage = "update"
    /\ LET x == task[p].proxy  ch == task[p].changes IN
       IF HasRow(x)
       THEN /\ proxy' = [proxy EXCEPT ![x] = Written(@, ch)]
            /\ closed' = IF ch.active = FALSE
                         THEN [closed EXCEPT ![x] = Closing(x)] ELSE closed
       ELSE UNCHANGED <<proxy, closed>>
    /\ Becomes(p, Idle)
    /\ UNCHANGED <<node, assigned, removed, begun>>

\* ToggleActive: one UPDATE of one column.
ToggleActive(x, on) ==
    /\ Once
    /\ IF HasRow(x)
       THEN /\ proxy' = [proxy EXCEPT ![x].active = on]
            /\ closed' = [closed EXCEPT ![x] = IF on THEN Open ELSE Closing(x)]
       ELSE UNCHANGED <<proxy, closed>>
    /\ UNCHANGED <<node, assigned, task, removed>>

\* (Mutation: proxy_id is a plain column.)
Dangling(x) == assigned

\* nodes.proxy_id REFERENCES node_proxies ON DELETE SET NULL.
SetNull(x) == [n \in Node |-> IF assigned[n] = x THEN None ELSE assigned[n]]

DeleteProxy(x) ==
    /\ HasRow(x)
    /\ Once
    /\ proxy' = [proxy EXCEPT ![x] = NoProxy("GONE")]
    /\ assigned' = SetNull(x)
    /\ closed' = [closed EXCEPT ![x] = Open]
    /\ removed' = removed \cup {x}
    /\ UNCHANGED <<node, task>>

-----------------------------------------------------------------------------
(* Assignment.                                                             *)

\* (Mutation: an inactive proxy may be assigned.)
AssignableInactive(x) == HasRow(x)

Assignable(x) == HasRow(x) /\ proxy[x].active

\* AssignProxy looks for the active proxy, ...
CheckAssign(p, n, x) ==
    /\ Assignable(x)
    /\ Begin(p)
    /\ Becomes(p, [stage |-> "assign", node |-> n, proxy |-> x])
    /\ UNCHANGED <<proxy, node, assigned, closed, removed>>

\* ... then writes it to the node, unless the foreign key or the lack of a node
\* is in the way.
WriteAssign(p) ==
    /\ task[p].stage = "assign"
    /\ LET n == task[p].node  x == task[p].proxy IN
       assigned' = IF n \in node /\ HasRow(x) THEN [assigned EXCEPT ![n] = x] ELSE assigned
    /\ Becomes(p, Idle)
    /\ UNCHANGED <<proxy, node, closed, removed, begun>>

Unassign(n) ==
    /\ n \in node
    /\ Once
    /\ assigned' = [assigned EXCEPT ![n] = None]
    /\ UNCHANGED <<proxy, node, task, closed, removed>>

-----------------------------------------------------------------------------
(* Nodes.                                                                  *)

CreateNode(n) ==
    /\ n \notin node
    /\ Once
    /\ node' = node \cup {n}
    /\ UNCHANGED <<proxy, assigned, task, closed, removed>>

DeleteNode(n) ==
    /\ n \in node
    /\ Once
    /\ node' = node \ {n}
    /\ assigned' = [assigned EXCEPT ![n] = None]
    /\ UNCHANGED <<proxy, task, closed, removed>>

\* UpdateNode reads the node and its proxy (Preload).  These are two SELECTs,
\* but one step here: the proxy's row is only used when it is gone by then, and
\* a save without it is refused, as by Fail.
ReadNode(p, n) ==
    /\ n \in node
    /\ Begin(p)
    /\ LET x == assigned[n] IN
       Becomes(p, [stage |-> "saveNode", node |-> n, proxy |-> x,
                   row |-> IF x = None THEN NoProxy("NEW") ELSE proxy[x]])
    /\ UNCHANGED <<proxy, node, assigned, closed, removed>>

\* Before a row is saved, gorm inserts the row it belongs to, ON CONFLICT DO
\* NOTHING.
ProxyEnsured(t) ==
    IF t.proxy # None /\ ~HasRow(t.proxy)
    THEN [proxy EXCEPT ![t.proxy] = Inserted(t.row)] ELSE proxy

\* Save's UPDATE, in one transaction with that INSERT.
SaveNode(p) ==
    /\ task[p].stage = "saveNode"
    /\ proxy' = ProxyEnsured(task[p])
    /\ LET n == task[p].node IN
       IF n \in node
       THEN /\ assigned' = [assigned EXCEPT ![n] = task[p].proxy]
            /\ Becomes(p, Idle)
       ELSE /\ Becomes(p, [task[p] EXCEPT !.stage = "insertNode"])
            /\ UNCHANGED assigned
    /\ UNCHANGED <<node, closed, removed, begun>>

\* When it changed no row, Save's INSERT of the node, again after its proxy.
InsertNode(p) ==
    /\ task[p].stage = "insertNode"
    /\ proxy' = ProxyEnsured(task[p])
    /\ node' = node \cup {task[p].node}
    /\ assigned' = [assigned EXCEPT ![task[p].node] = task[p].proxy]
    /\ Becomes(p, Idle)
    /\ UNCHANGED <<closed, removed, begun>>

\* A statement fails or the server dies: what is done stays, the rest is not.
Fail(p) ==
    /\ task[p] # Idle
    /\ Becomes(p, Idle)
    /\ UNCHANGED <<proxy, node, assigned, closed, removed, begun>>

Next ==
    \/ \E x \in Proxy :
           \/ CreateProxy(x)
           \/ \E on \in BOOLEAN : ToggleActive(x, on)
           \/ DeleteProxy(x)
    \/ \E n \in Node :
           \/ Unassign(n)
           \/ CreateNode(n)
           \/ DeleteNode(n)
    \/ \E p \in Proc :
           \/ \E x \in Proxy, ch \in Changes : ReadForUpdate(p, x, ch)
           \/ WriteUpdate(p)
           \/ \E x \in Proxy, n \in Node : CheckAssign(p, n, x)
           \/ WriteAssign(p)
           \/ \E n \in Node : ReadNode(p, n)
           \/ SaveNode(p)
           \/ InsertNode(p)
           \/ Fail(p)

Spec == Init /\ [][Next]_vars

-----------------------------------------------------------------------------
(* Properties.                                                             *)

\* A node's proxy is there, whatever deletions, assignments and node updates
\* overlap (proxy.go:121-128, 136-146; the foreign key of migration 000002).
AssignedExists == \A n \in node : assigned[n] # None => HasRow(assigned[n])

\* A proxy that has the credentials its auth type needs does not lose them by
\* updates that each validated only their own change, against a row read before
\* the other's (proxy.go:80-111).  Not so for a proxy that was deleted and came
\* back with a node: it has the credentials from before updates that were
\* validated against the deleted row.
CredentialsKept ==
    [][\A x \in Proxy :
          (HasRow(x) /\ Valid(proxy[x].auth, proxy[x].creds) /\ HasRow(x)' /\ x \notin removed)
              => Valid(proxy'[x].auth, proxy'[x].creds)]_vars

\* A deactivated proxy stays inactive and gets no node that it did not have, or
\* was not being given, when it was deactivated, until it is deleted or somebody
\* asks to activate it; updates that overlap do not bring it back, since they
\* write only the columns they change (proxy.go:111, 131-132, 136-146).
ClosedTakesNoNodes ==
    \A x \in Proxy : closed[x].is =>
        /\ ~proxy[x].active
        /\ \A n \in Node : (n \in node /\ assigned[n] = x) \/ Giving(n, x)
                               => n \in closed[x].nodes

\* What the comment in AssignProxy says it ensures, "ensure proxy exists and is
\* active": a proxy that is put on a node is active then.  It does not hold: the
\* proxy is checked in one statement and written in another.
AssignsActive ==
    [][\A p \in Proc : (task[p].stage = "assign" /\ task'[p] = Idle)
           => \A n \in Node : assigned'[n] \in {assigned[n], None}
                                  \/ proxy[assigned'[n]].active]_vars

\* What the comment of Delete says, "Delete removes a proxy. It will set proxy_id
\* to NULL on nodes": a deleted proxy does not come back.  It does not hold: the
\* Save of a node that was read with the proxy inserts it again.
DeletedStaysDeleted ==
    [][\A x \in Proxy : proxy[x].status = "GONE" => proxy'[x].status = "GONE"]_vars
=============================================================================
