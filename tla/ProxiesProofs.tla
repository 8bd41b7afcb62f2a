---------------------------- MODULE ProxiesProofs ----------------------------
(***************************************************************************)
(* What Proxies.tla promises, for any number of proxies, nodes and         *)
(* requests.                                                               *)
(*                                                                         *)
(* The invariants of the model are not inductive.  Absent says that a node *)
(* without a row has no proxy, Known that a request knows only proxies     *)
(* that were created, Enough that an update under way which changes the    *)
(* auth type found the credentials for it, and Unasked that a closed proxy *)
(* has its row and nobody who asks to activate it.                         *)
(***************************************************************************)
EXTENDS Proxies, TLAPS

Row == ProxyRow \cup {NoProxy("NEW"), NoProxy("GONE")}

Absent == \A n \in Node : n \notin node => assigned[n] = None

ReadRow(w) ==
    w.stage \in {"saveNode", "insertNode"} /\ w.proxy # None =>
        w.row \in ProxyRow /\ proxy[w.proxy].status # "NEW"

Known ==
    /\ \A x \in Proxy : proxy[x].status = "GONE" => x \in removed
    /\ \A p \in Proc : task[p].stage = "update" => proxy[task[p].proxy].status # "NEW"
    /\ \A p \in Proc : ReadRow(task[p])

\* What an update that changes the auth type found when it was validated.
Suffices(w) ==
    (w.stage = "update" /\ HasRow(w.proxy) /\ w.proxy \notin removed /\ w.changes.auth # None)
        => Valid(w.changes.auth, proxy[w.proxy].creds \cup w.changes.give)

Enough == \A p \in Proc : Suffices(task[p])

Unasked == \A x \in Proxy : closed[x].is => HasRow(x) /\ \A p \in Proc : ~Asks(task[p], x)

IInv ==
    /\ TypeOK
    /\ Absent
    /\ AssignedExists
    /\ Known
    /\ Enough
    /\ Unasked
    /\ ClosedTakesNoNodes

-----------------------------------------------------------------------------
(* Rows, changes and tasks.                                                *)

LEMMA RowShape ==
    ASSUME NEW row \in Row
    PROVE  /\ row.auth \in AuthType /\ row.creds \in SUBSET Credential
           /\ row.active \in BOOLEAN /\ row.status \in {"ROW", "NEW", "GONE"}
           /\ row.status = "ROW" => row \in ProxyRow
           /\ row.status # "ROW" => ~row.active
<1>1. CASE row \in ProxyRow BY <1>1 DEF ProxyRow
<1>2. ASSUME NEW s \in {"NEW", "GONE"}, row = NoProxy(s)
      PROVE  /\ row.auth \in AuthType /\ row.creds \in SUBSET Credential
             /\ row.active = FALSE /\ row.status = s
  BY <1>2 DEF NoProxy, AuthType
<1> QED BY <1>1, <1>2 DEF Row

LEMMA WrittenRow ==
    ASSUME NEW row \in ProxyRow, NEW ch \in Changes
    PROVE  /\ Written(row, ch) \in ProxyRow
           /\ Written(row, ch).status = "ROW"
           /\ Written(row, ch).auth = IF ch.auth = None THEN row.auth ELSE ch.auth
           /\ Written(row, ch).creds = row.creds \cup ch.give
           /\ ch.active # None => Written(row, ch).active = ch.active
<1>1. /\ ch.auth \in AuthType \cup {None} /\ ch.give \in SUBSET Credential
      /\ ch.active \in BOOLEAN \cup {None}
  BY ProxyAssumption DEF Changes
<1>2. /\ row.creds \in SUBSET Credential /\ row.auth \in AuthType /\ row.active \in BOOLEAN
  BY DEF ProxyRow
<1> QED BY <1>1, <1>2 DEF Written, Changed, ProxyRow

LEMMA InsertedRow ==
    ASSUME NEW row \in ProxyRow
    PROVE  Inserted(row) \in ProxyRow /\ Inserted(row).status = "ROW"
BY DEF ProxyRow, Inserted

LEMMA ActiveRow ==
    ASSUME NEW row \in ProxyRow, NEW on \in BOOLEAN
    PROVE  /\ [row EXCEPT !.active = on] \in ProxyRow
           /\ [row EXCEPT !.active = on].active = on
           /\ [row EXCEPT !.active = on].status = "ROW"
           /\ [row EXCEPT !.active = on].auth = row.auth
           /\ [row EXCEPT !.active = on].creds = row.creds
BY DEF ProxyRow

LEMMA MoreIsValid ==
    ASSUME NEW auth, NEW creds, NEW more, creds \subseteq more, Valid(auth, creds)
    PROVE  Valid(auth, more)
BY DEF Valid

LEMMA IdleTask == Idle \in Task /\ Idle.stage = "idle"
BY DEF Task, Idle

LEMMA UpdateTask ==
    ASSUME NEW w \in Task, w.stage = "update"
    PROVE  w.proxy \in Proxy /\ w.changes \in Changes
BY DEF Task, Idle

LEMMA AssignTask ==
    ASSUME NEW w \in Task, w.stage = "assign"
    PROVE  w.node \in Node /\ w.proxy \in Proxy
BY DEF Task, Idle

LEMMA NodeTask ==
    ASSUME NEW w \in Task, w.stage \in {"saveNode", "insertNode"}
    PROVE  /\ w.node \in Node /\ w.proxy \in Proxy \cup {None}
           /\ [w EXCEPT !.stage = "insertNode"] \in Task
           /\ [w EXCEPT !.stage = "insertNode"].stage = "insertNode"
           /\ [w EXCEPT !.stage = "insertNode"].node = w.node
           /\ [w EXCEPT !.stage = "insertNode"].proxy = w.proxy
           /\ [w EXCEPT !.stage = "insertNode"].row = w.row
<1>1. w \in [stage : {"saveNode", "insertNode"}, node : Node,
             proxy : Proxy \cup {None}, row : ProxyRow \cup {NoProxy("NEW")}]
  BY DEF Task, Idle
<1>2. [w EXCEPT !.stage = "insertNode"]
        \in [stage : {"saveNode", "insertNode"}, node : Node,
             proxy : Proxy \cup {None}, row : ProxyRow \cup {NoProxy("NEW")}]
  BY <1>1
<1> QED BY <1>1, <1>2 DEF Task

\* One request changes its task.
LEMMA Becoming ==
    ASSUME TypeOK, NEW p \in Proc, NEW w \in Task, Becomes(p, w)
    PROVE  /\ task' \in [Proc -> Task]
           /\ task'[p] = w
           /\ \A q \in Proc \ {p} : task'[q] = task[q]
BY DEF Becomes, TypeOK

-----------------------------------------------------------------------------
(* What every step keeps whose rows only grow.                             *)

RowsGrow ==
    /\ removed \subseteq removed'
    /\ \A x \in Proxy :
          /\ proxy'[x].status = "NEW" => proxy[x].status = "NEW"
          /\ proxy'[x].status = "GONE" => x \in removed'
          /\ (proxy'[x].status = "ROW" /\ x \notin removed') =>
                \/ proxy[x].status = "NEW"
                \/ HasRow(x) /\ proxy[x].creds \subseteq proxy'[x].creds

LEMMA GrowingKeeps ==
    ASSUME IInv, RowsGrow,
           \A q \in Proc : task'[q] = task[q]
                              \/ (task'[q].stage # "update" /\ ReadRow(task[q])')
    PROVE  Known' /\ Enough'
<1>1. Known'
  <2>1. ASSUME NEW q \in Proc, task'[q].stage = "update"
        PROVE  proxy'[task'[q].proxy].status # "NEW"
    <3>1. task'[q] = task[q] BY <2>1
    <3>2. task[q].proxy \in Proxy BY <2>1, <3>1, UpdateTask DEF IInv, TypeOK
    <3> QED BY <2>1, <3>1, <3>2 DEF IInv, Known, RowsGrow
  <2>2. ASSUME NEW q \in Proc PROVE ReadRow(task[q])' \/ task'[q] # task[q]
    <3>1. ReadRow(task[q]) BY DEF IInv, Known
    <3>2. task[q].stage \in {"saveNode", "insertNode"} => task[q].proxy \in Proxy \cup {None}
      BY NodeTask DEF IInv, TypeOK
    <3> QED BY <3>1, <3>2 DEF ReadRow, RowsGrow
  <2>3. \A q \in Proc : ReadRow(task[q])'
    BY <2>2
  <2> QED BY <2>1, <2>3 DEF Known, RowsGrow
<1>2. Enough'
  <2> SUFFICES ASSUME NEW q \in Proc PROVE Suffices(task[q])'
    BY DEF Enough
  <2> DEFINE w == task[q]
  <2>1. CASE task'[q].stage # "update"
    BY <2>1 DEF Suffices
  <2>2. CASE task'[q] = w /\ w.stage = "update"
    <3>1. w.proxy \in Proxy /\ w.changes \in Changes
      BY <2>2, UpdateTask DEF IInv, TypeOK
    <3>2. proxy[w.proxy].status # "NEW" /\ Suffices(w)
      BY <2>2 DEF IInv, Known, Enough
    <3> SUFFICES ASSUME HasRow(w.proxy)', w.proxy \notin removed', w.changes.auth # None
                 PROVE  Valid(w.changes.auth, proxy'[w.proxy].creds \cup w.changes.give)
      BY <2>2 DEF Suffices
    <3>3. HasRow(w.proxy) /\ proxy[w.proxy].creds \subseteq proxy'[w.proxy].creds
          /\ w.proxy \notin removed
      BY <2>2, <3>1, <3>2 DEF RowsGrow, HasRow
    <3>4. Valid(w.changes.auth, proxy[w.proxy].creds \cup w.changes.give)
      BY <2>2, <3>2, <3>3 DEF Suffices
    <3> QED BY <3>3, <3>4, MoreIsValid
  <2> QED BY <2>1, <2>2
<1> QED BY <1>1, <1>2

\* Nodes that have proxy x or are being given it.
Concerns(n, x) == (n \in node /\ assigned[n] = x) \/ Giving(n, x)

LEMMA StaysClosed ==
    ASSUME IInv, NEW x \in Proxy, closed'[x].is, closed'[x] \in {closed[x], Closing(x)},
           HasRow(x)', ~proxy'[x].active,
           \A n \in Node : Concerns(n, x)' => Concerns(n, x),
           \A p \in Proc : Asks(task'[p], x) => Asks(task[p], x)
    PROVE  /\ HasRow(x)' /\ \A p \in Proc : ~Asks(task'[p], x)
           /\ ~proxy'[x].active
           /\ \A n \in Node : Concerns(n, x)' => n \in closed'[x].nodes
<1>1. CASE closed'[x] = closed[x]
  BY <1>1 DEF IInv, Unasked, ClosedTakesNoNodes, Concerns
<1>2. CASE closed'[x] = Closing(x)
  <2>1. \A p \in Proc : ~Asks(task[p], x)
    BY <1>2 DEF Closing
  <2>2. closed'[x].nodes = {n \in Node : Concerns(n, x)}
    BY <1>2 DEF Closing, Concerns
  <2> QED BY <2>1, <2>2
<1> QED BY <1>1, <1>2

\* A history that is closed stays right if each closed proxy stays closed.
LEMMA AllStayClosed ==
    ASSUME IInv,
           \A x \in Proxy : closed'[x].is =>
                /\ closed'[x] \in {closed[x], Closing(x)}
                /\ HasRow(x)' /\ ~proxy'[x].active
                /\ \A n \in Node : Concerns(n, x)' => Concerns(n, x)
                /\ \A p \in Proc : Asks(task'[p], x) => Asks(task[p], x)
    PROVE  Unasked' /\ ClosedTakesNoNodes'
<1>1. \A x \in Proxy : closed'[x].is =>
           /\ HasRow(x)' /\ \A p \in Proc : ~Asks(task'[p], x)
           /\ ~proxy'[x].active
           /\ \A n \in Node : Concerns(n, x)' => n \in closed'[x].nodes
  BY StaysClosed
<1> QED BY <1>1 DEF Unasked, ClosedTakesNoNodes, Concerns

\* Rows that are left alone grow.
LEMMA SameRowsGrow ==
    ASSUME IInv, UNCHANGED <<proxy, removed>>
    PROVE  RowsGrow
<1>1. \A x \in Proxy : proxy[x].status \in {"ROW", "NEW", "GONE"}
  BY RowShape DEF IInv, TypeOK, Row
<1>2. \A x \in Proxy : proxy[x].status = "GONE" => x \in removed
  BY DEF IInv, Known
<1> QED BY <1>1, <1>2 DEF RowsGrow, HasRow

-----------------------------------------------------------------------------
(* The invariant holds initially and is kept by every action.              *)

LEMMA InitIInv == Init => IInv
<1> SUFFICES ASSUME Init PROVE IInv
  OBVIOUS
<1>1. TypeOK
  <2>1. proxy \in [Proxy -> Row]
    BY DEF Init, Row
  <2> QED BY <2>1, IdleTask, ProxyAssumption DEF Init, TypeOK, Open, Row
<1>2. Absent /\ AssignedExists
  BY DEF Init, Absent, AssignedExists
<1>3. Known /\ Enough
  <2>1. \A p \in Proc : task[p].stage = "idle"
    BY IdleTask DEF Init
  <2>2. \A x \in Proxy : proxy[x].status # "GONE"
    <3>1. \A x \in Proxy : proxy[x] \in ProxyRow \cup {NoProxy("NEW")}
      BY DEF Init
    <3>2. \A row \in ProxyRow : row.status = "ROW"
      BY DEF ProxyRow
    <3>3. NoProxy("NEW").status = "NEW"
      BY DEF NoProxy
    <3> QED BY <3>1, <3>2, <3>3
  <2> QED BY <2>1, <2>2 DEF Known, ReadRow, Enough, Suffices
<1>4. Unasked /\ ClosedTakesNoNodes
  BY DEF Init, Unasked, ClosedTakesNoNodes, Open
<1> QED BY <1>1, <1>2, <1>3, <1>4 DEF IInv

LEMMA CreateProxyKeeps ==
    ASSUME IInv, NEW x \in Proxy, CreateProxy(x)
    PROVE  IInv'
<1>1. PICK row \in ProxyRow : proxy' = [proxy EXCEPT ![x] = Inserted(row)]
  BY DEF CreateProxy
<1>2. /\ proxy[x].status = "NEW" /\ ~HasRow(x)
      /\ UNCHANGED <<node, assigned, task, closed, removed>> /\ begun' \in 0..MaxRequests
  BY ProxyAssumption DEF CreateProxy, Once, HasRow, IInv, TypeOK
<1>3. proxy'[x] \in ProxyRow /\ HasRow(x)' /\ \A y \in Proxy \ {x} : proxy'[y] = proxy[y]
  BY <1>1, InsertedRow DEF IInv, TypeOK, HasRow
<1>4. TypeOK'
  BY <1>1, <1>2, InsertedRow DEF IInv, TypeOK
<1>5. Absent' /\ AssignedExists'
  BY <1>2, <1>3 DEF IInv, TypeOK, Absent, AssignedExists, HasRow
<1>6. RowsGrow
  <2>1. \A y \in Proxy : proxy[y].status \in {"ROW", "NEW", "GONE"}
    BY RowShape DEF IInv, TypeOK, Row
  <2> QED BY <1>2, <1>3, <2>1 DEF RowsGrow, HasRow, IInv, Known
<1>7. Known' /\ Enough'
  BY <1>2, <1>6, GrowingKeeps
<1>8. Unasked' /\ ClosedTakesNoNodes'
  <2>1. \A y \in Proxy : closed'[y].is => y # x /\ proxy'[y] = proxy[y]
    BY <1>2, <1>3 DEF IInv, Unasked
  <2> QED BY <1>2, <2>1, AllStayClosed
          DEF IInv, Unasked, ClosedTakesNoNodes, HasRow, Concerns, Giving
<1> QED BY <1>4, <1>5, <1>7, <1>8 DEF IInv

\* A request that read something and is going to write it.
LEMMA ReadKeeps ==
    ASSUME IInv, NEW p \in Proc, NEW w \in Task, Becomes(p, w),
           UNCHANGED <<proxy, node, assigned, removed>>,
           begun' \in 0..MaxRequests,
           closed' \in [Proxy -> [is : BOOLEAN, nodes : SUBSET Node]],
           Known', Enough',
           \A x \in Proxy : closed'[x].is =>
                /\ closed'[x] = closed[x]
                /\ ~Asks(w, x)
                /\ w.stage \in {"assign", "saveNode", "insertNode"} /\ w.proxy = x =>
                        Concerns(w.node, x)
    PROVE  IInv'
<1>1. /\ task' \in [Proc -> Task] /\ task'[p] = w
      /\ \A q \in Proc \ {p} : task'[q] = task[q]
  BY Becoming DEF IInv
<1>2. TypeOK'
  BY <1>1 DEF IInv, TypeOK
<1>3. Absent' /\ AssignedExists'
  BY DEF IInv, Absent, AssignedExists, HasRow
<1>4. Unasked' /\ ClosedTakesNoNodes'
  <2>1. ASSUME NEW x \in Proxy, closed'[x].is
        PROVE  /\ closed'[x] = closed[x]
               /\ HasRow(x)' /\ ~proxy'[x].active
               /\ \A n \in Node : Concerns(n, x)' => Concerns(n, x)
               /\ \A q \in Proc : Asks(task'[q], x) => Asks(task[q], x)
    <3>1. HasRow(x)' /\ ~proxy'[x].active
      BY <2>1 DEF IInv, Unasked, ClosedTakesNoNodes, HasRow
    <3>2. \A q \in Proc : Asks(task'[q], x) => Asks(task[q], x)
      BY <1>1, <2>1
    <3>3. ASSUME NEW n \in Node, Concerns(n, x)' PROVE Concerns(n, x)
      BY <1>1, <2>1, <3>3 DEF Concerns, Giving
    <3> QED BY <2>1, <3>1, <3>2, <3>3
  <2> QED BY <2>1, AllStayClosed
<1> QED BY <1>2, <1>3, <1>4 DEF IInv

LEMMA BeginKeeps ==
    ASSUME IInv, Once
    PROVE  begun' \in 0..MaxRequests
BY ProxyAssumption DEF Once, IInv, TypeOK

LEMMA ReadForUpdateKeeps ==
    ASSUME IInv, NEW p \in Proc, NEW x \in Proxy, NEW ch \in Changes, ReadForUpdate(p, x, ch)
    PROVE  IInv'
<1> DEFINE w == [stage |-> "update", proxy |-> x, changes |-> ch]
<1>1. /\ w \in Task /\ w.stage = "update" /\ w.proxy = x /\ w.changes = ch
      /\ Becomes(p, w) /\ HasRow(x)
      /\ UNCHANGED <<proxy, node, assigned, removed>> /\ begun' \in 0..MaxRequests
      /\ closed' = IF ch.active = TRUE THEN [closed EXCEPT ![x] = Open] ELSE closed
      /\ Valid(Changed(proxy[x], ch).auth, Changed(proxy[x], ch).creds)
  BY BeginKeeps DEF ReadForUpdate, Begin, Task
<1> HIDE DEF w
<1>2. /\ task'[p] = w /\ \A q \in Proc \ {p} : task'[q] = task[q]
  BY <1>1, Becoming DEF IInv
<1>3. Open \in [is : BOOLEAN, nodes : SUBSET Node] /\ Open.is = FALSE
  BY DEF Open
<1>4. closed' \in [Proxy -> [is : BOOLEAN, nodes : SUBSET Node]]
  BY <1>1, <1>3 DEF IInv, TypeOK
<1>5. Known'
  BY <1>1, <1>2 DEF IInv, Known, ReadRow, HasRow
<1>6. Enough'
  <2>1. Suffices(w)
    <3>1. proxy[x] \in ProxyRow
      BY <1>1, RowShape DEF IInv, TypeOK, Row, HasRow
    <3> QED BY <1>1, <3>1, WrittenRow DEF Suffices, Written
  <2> QED BY <1>1, <1>2, <2>1 DEF IInv, Enough, Suffices, HasRow
<1>7. \A y \in Proxy : closed'[y].is => closed'[y] = closed[y] /\ ~Asks(w, y)
  <2>1. CASE ch.active = TRUE
    BY <1>1, <1>3, <2>1 DEF IInv, TypeOK, Asks
  <2>2. CASE ch.active # TRUE
    BY <1>1, <2>2 DEF Asks
  <2> QED BY <2>1, <2>2
<1> QED BY <1>1, <1>4, <1>5, <1>6, <1>7, ReadKeeps

LEMMA CheckAssignKeeps ==
    ASSUME IInv, NEW p \in Proc, NEW n \in Node, NEW x \in Proxy, CheckAssign(p, n, x)
    PROVE  IInv'
<1> DEFINE w == [stage |-> "assign", node |-> n, proxy |-> x]
<1>1. /\ w \in Task /\ w.stage = "assign" /\ w.proxy = x /\ w.node = n
      /\ Becomes(p, w) /\ proxy[x].active
      /\ UNCHANGED <<proxy, node, assigned, closed, removed>> /\ begun' \in 0..MaxRequests
  BY BeginKeeps DEF CheckAssign, Begin, Task, Assignable
<1> HIDE DEF w
<1>2. /\ task'[p] = w /\ \A q \in Proc \ {p} : task'[q] = task[q]
  BY <1>1, Becoming DEF IInv
<1>3. Known' /\ Enough'
  BY <1>1, <1>2, SameRowsGrow, GrowingKeeps DEF ReadRow
<1>4. closed' \in [Proxy -> [is : BOOLEAN, nodes : SUBSET Node]]
  BY <1>1 DEF IInv, TypeOK
<1>5. \A y \in Proxy : closed'[y].is => y # x /\ ~Asks(w, y)
  BY <1>1 DEF IInv, ClosedTakesNoNodes, Asks
<1> QED BY <1>1, <1>3, <1>4, <1>5, ReadKeeps

LEMMA ReadNodeKeeps ==
    ASSUME IInv, NEW p \in Proc, NEW n \in Node, ReadNode(p, n)
    PROVE  IInv'
<1> DEFINE x == assigned[n]
           w == [stage |-> "saveNode", node |-> n, proxy |-> x,
                 row |-> IF x = None THEN NoProxy("NEW") ELSE proxy[x]]
<1>1. /\ Becomes(p, w) /\ n \in node /\ x \in Proxy \cup {None}
      /\ UNCHANGED <<proxy, node, assigned, closed, removed>> /\ begun' \in 0..MaxRequests
  BY BeginKeeps DEF ReadNode, Begin, IInv, TypeOK
<1>2. x # None => proxy[x] \in ProxyRow /\ proxy[x].status = "ROW"
  BY <1>1, RowShape DEF IInv, AssignedExists, HasRow, TypeOK, Row
<1>3. /\ w \in Task /\ w.stage = "saveNode" /\ w.node = n /\ w.proxy = x
      /\ w.proxy # None => w.row = proxy[x]
  BY <1>1, <1>2 DEF Task
<1> HIDE DEF w, x
<1>4. /\ task'[p] = w /\ \A q \in Proc \ {p} : task'[q] = task[q]
  BY <1>1, <1>3, Becoming DEF IInv
<1>5. Known' /\ Enough'
  <2>1. ReadRow(task[p])'
    BY <1>1, <1>2, <1>3, <1>4 DEF ReadRow
  <2> QED BY <1>1, <1>3, <1>4, <2>1, SameRowsGrow, GrowingKeeps
<1>6. closed' \in [Proxy -> [is : BOOLEAN, nodes : SUBSET Node]]
  BY <1>1 DEF IInv, TypeOK
<1>7. \A y \in Proxy : ~Asks(w, y) /\ (w.proxy = y => Concerns(w.node, y))
  BY <1>1, <1>3 DEF Asks, Concerns, x
<1> QED BY <1>1, <1>3, <1>5, <1>6, <1>7, ReadKeeps

\* A step that changes no proxy keeps the invariant if every node is given a
\* proxy that is there, and no closed one that it was not given before.
LEMMA NodesKeep ==
    ASSUME IInv, UNCHANGED <<proxy, closed, removed>>,
           node' \subseteq Node, assigned' \in [Node -> Proxy \cup {None}],
           task' \in [Proc -> Task], begun' \in 0..MaxRequests,
           \A q \in Proc : task'[q] = task[q] \/ task'[q] = Idle
                              \/ (task'[q].stage = "insertNode" /\ ReadRow(task[q])'),
           \A n \in Node : assigned'[n] # None => n \in node' /\ HasRow(assigned'[n]),
           \A n \in Node, x \in Proxy : Concerns(n, x)' => Concerns(n, x)
    PROVE  IInv'
<1>1. TypeOK'
  BY DEF IInv, TypeOK
<1>2. Absent' /\ AssignedExists'
  BY DEF Absent, AssignedExists, HasRow
<1>3. Known' /\ Enough'
  <2>1. \A q \in Proc : task'[q] = Idle => task'[q].stage # "update" /\ ReadRow(task[q])'
    BY IdleTask DEF ReadRow
  <2> QED BY <2>1, SameRowsGrow, GrowingKeeps
<1>4. Unasked' /\ ClosedTakesNoNodes'
  <2>1. \A q \in Proc, x \in Proxy : Asks(task'[q], x) => Asks(task[q], x)
    BY IdleTask DEF Asks
  <2> QED BY <2>1, AllStayClosed DEF IInv, Unasked, ClosedTakesNoNodes, HasRow
<1> QED BY <1>1, <1>2, <1>3, <1>4 DEF IInv

LEMMA WriteAssignKeeps ==
    ASSUME IInv, NEW p \in Proc, WriteAssign(p)
    PROVE  IInv'
<1> DEFINE n == task[p].node
           x == task[p].proxy
<1>1. /\ task[p].stage = "assign" /\ Becomes(p, Idle)
      /\ UNCHANGED <<proxy, node, closed, removed, begun>>
      /\ assigned' = IF n \in node /\ HasRow(x) THEN [assigned EXCEPT ![n] = x] ELSE assigned
  BY DEF WriteAssign
<1>2. n \in Node /\ x \in Proxy
  BY <1>1, AssignTask DEF IInv, TypeOK
<1>3. Giving(n, x)
  BY <1>1 DEF Giving
<1> HIDE DEF n, x
<1>4. /\ task' \in [Proc -> Task] /\ task'[p] = Idle
      /\ \A q \in Proc \ {p} : task'[q] = task[q]
  BY <1>1, Becoming, IdleTask DEF IInv
<1>5. assigned' \in [Node -> Proxy \cup {None}]
  BY <1>1, <1>2 DEF IInv, TypeOK
<1>6. \A m \in Node : assigned'[m] = assigned[m]
                         \/ (m = n /\ assigned'[m] = x /\ n \in node /\ HasRow(x))
  BY <1>1, <1>2 DEF IInv, TypeOK
<1>7. \A m \in Node : assigned'[m] # None => m \in node' /\ HasRow(assigned'[m])
  BY <1>1, <1>6 DEF IInv, Absent, AssignedExists
<1>8. \A m \in Node, y \in Proxy : Giving(m, y)' => Giving(m, y)
  BY <1>4, IdleTask DEF Giving
<1>9. \A m \in Node, y \in Proxy : Concerns(m, y)' => Concerns(m, y)
  BY <1>1, <1>3, <1>6, <1>8 DEF Concerns
<1> QED BY <1>1, <1>4, <1>5, <1>7, <1>9, NodesKeep DEF IInv, TypeOK

LEMMA UnassignKeeps ==
    ASSUME IInv, NEW n \in Node, Unassign(n) \/ DeleteNode(n) \/ CreateNode(n)
    PROVE  IInv'
<1>1. UNCHANGED <<proxy, task, closed, removed>> /\ begun' \in 0..MaxRequests
  BY BeginKeeps DEF Unassign, DeleteNode, CreateNode
<1>2. /\ node' \subseteq Node /\ assigned' \in [Node -> Proxy \cup {None}]
      /\ \A m \in Node : assigned'[m] \in {assigned[m], None}
      /\ \A m \in Node : m \in node' => m \in node \/ assigned'[m] = None
      /\ \A m \in node : m \in node' \/ assigned'[m] = None
  <2>1. CASE Unassign(n)
    BY <2>1 DEF Unassign, IInv, TypeOK
  <2>2. CASE DeleteNode(n)
    BY <2>2 DEF DeleteNode, IInv, TypeOK
  <2>3. CASE CreateNode(n)
    BY <2>3 DEF CreateNode, IInv, TypeOK, Absent
  <2> QED BY <2>1, <2>2, <2>3
<1>3. \A m \in Node : assigned'[m] # None => m \in node' /\ HasRow(assigned'[m])
  BY <1>2 DEF IInv, Absent, AssignedExists
<1>4. \A m \in Node, y \in Proxy : Concerns(m, y)' => Concerns(m, y)
  BY <1>1, <1>2, ProxyAssumption DEF Concerns, Giving
<1> QED BY <1>1, <1>2, <1>3, <1>4, NodesKeep DEF IInv, TypeOK

LEMMA FailKeeps ==
    ASSUME IInv, NEW p \in Proc, Fail(p)
    PROVE  IInv'
<1>1. Becomes(p, Idle) /\ UNCHANGED <<proxy, node, assigned, closed, removed, begun>>
  BY DEF Fail
<1>2. /\ task' \in [Proc -> Task] /\ task'[p] = Idle
      /\ \A q \in Proc \ {p} : task'[q] = task[q]
  BY <1>1, Becoming, IdleTask DEF IInv
<1>3. \A m \in Node : assigned'[m] # None => m \in node' /\ HasRow(assigned'[m])
  BY <1>1 DEF IInv, Absent, AssignedExists
<1>4. \A m \in Node, y \in Proxy : Concerns(m, y)' => Concerns(m, y)
  BY <1>1, <1>2, IdleTask DEF Concerns, Giving
<1> QED BY <1>1, <1>2, <1>3, <1>4, NodesKeep DEF IInv, TypeOK

\* A step that rewrites the row of one proxy.
LEMMA RewriteKeeps ==
    ASSUME IInv, NEW x \in Proxy, NEW row \in ProxyRow, NEW on,
           HasRow(x), proxy' = [proxy EXCEPT ![x] = row], row.status = "ROW",
           proxy[x].creds \subseteq row.creds,
           on \in BOOLEAN => row.active = on,
           on \notin BOOLEAN /\ closed[x].is => ~row.active,
           \/ closed' = closed /\ on # TRUE
           \/ closed' = [closed EXCEPT ![x] = Open]
           \/ closed' = [closed EXCEPT ![x] = Closing(x)] /\ on = FALSE,
           UNCHANGED <<node, assigned, removed>>, begun' \in 0..MaxRequests,
           task' \in [Proc -> Task],
           \A q \in Proc : task'[q] = task[q] \/ task'[q] = Idle
    PROVE  IInv'
<1>1. /\ proxy' \in [Proxy -> Row] /\ proxy'[x] = row
      /\ \A y \in Proxy \ {x} : proxy'[y] = proxy[y]
      /\ \A y \in Proxy : HasRow(y)' <=> HasRow(y)
  BY DEF IInv, TypeOK, Row, HasRow
<1>2. /\ Open \in [is : BOOLEAN, nodes : SUBSET Node] /\ Open.is = FALSE
      /\ Closing(x) \in [is : BOOLEAN, nodes : SUBSET Node]
  BY DEF Open, Closing
<1>3. TypeOK'
  <2>1. closed' \in [Proxy -> [is : BOOLEAN, nodes : SUBSET Node]]
    BY <1>2 DEF IInv, TypeOK
  <2> QED BY <1>1, <2>1 DEF IInv, TypeOK, Row
<1>4. Absent' /\ AssignedExists'
  BY <1>1 DEF IInv, TypeOK, Absent, AssignedExists
<1>5. RowsGrow
  <2>1. \A y \in Proxy : proxy[y].status \in {"ROW", "NEW", "GONE"}
    BY RowShape DEF IInv, TypeOK, Row
  <2> QED BY <1>1, <2>1 DEF RowsGrow, HasRow, IInv, Known
<1>6. Known' /\ Enough'
  <2>1. \A q \in Proc : task'[q] = Idle => task'[q].stage # "update" /\ ReadRow(task[q])'
    BY IdleTask DEF ReadRow
  <2> QED BY <1>5, <2>1, GrowingKeeps
<1>7. Unasked' /\ ClosedTakesNoNodes'
  <2>1. /\ \A q \in Proc, y \in Proxy : Asks(task'[q], y) => Asks(task[q], y)
        /\ \A n \in Node, y \in Proxy : Concerns(n, y)' => Concerns(n, y)
    BY IdleTask DEF Asks, Concerns, Giving
  <2>2. ASSUME NEW y \in Proxy, closed'[y].is
        PROVE  /\ closed'[y] \in {closed[y], Closing(y)}
               /\ HasRow(y)' /\ ~proxy'[y].active
    <3>1. CASE y # x
      <4>1. closed'[y] = closed[y] /\ proxy'[y] = proxy[y]
        BY <1>1, <3>1 DEF IInv, TypeOK
      <4> QED BY <1>1, <2>2, <4>1 DEF IInv, Unasked, ClosedTakesNoNodes
    <3>2. CASE y = x
      <4>1. \/ closed'[x] = closed[x] /\ on # TRUE
            \/ closed'[x] = Closing(x) /\ on = FALSE
        BY <1>2, <2>2, <3>2 DEF IInv, TypeOK
      <4> QED BY <1>1, <2>2, <3>2, <4>1
    <3> QED BY <3>1, <3>2
  <2> QED BY <2>1, <2>2, AllStayClosed
<1> QED BY <1>3, <1>4, <1>6, <1>7 DEF IInv

LEMMA WriteUpdateKeeps ==
    ASSUME IInv, NEW p \in Proc, WriteUpdate(p)
    PROVE  IInv'
<1> DEFINE x == task[p].proxy
           ch == task[p].changes
           row == Written(proxy[x], ch)
<1>1. /\ task[p].stage = "update" /\ Becomes(p, Idle)
      /\ UNCHANGED <<node, assigned, removed, begun>>
      /\ IF HasRow(x)
         THEN /\ proxy' = [proxy EXCEPT ![x] = row]
              /\ closed' = IF ch.active = FALSE
                           THEN [closed EXCEPT ![x] = Closing(x)] ELSE closed
         ELSE UNCHANGED <<proxy, closed>>
  <2>1. x \in Proxy
    BY UpdateTask DEF WriteUpdate, IInv, TypeOK
  <2> QED BY <2>1 DEF WriteUpdate, IInv, TypeOK
<1>2. x \in Proxy /\ ch \in Changes
  BY <1>1, UpdateTask DEF IInv, TypeOK
<1>3. ch.active \in BOOLEAN \cup {None}
  BY <1>2 DEF Changes
<1>4. closed[x].is => ch.active # TRUE
  BY <1>1, <1>2 DEF IInv, Unasked, Asks
<1> HIDE DEF x, ch
<1>5. /\ task' \in [Proc -> Task] /\ task'[p] = Idle
      /\ \A q \in Proc \ {p} : task'[q] = task[q]
  BY <1>1, Becoming, IdleTask DEF IInv
<1>6. CASE ~HasRow(x)
  <2>1. \A m \in Node : assigned'[m] # None => m \in node' /\ HasRow(assigned'[m])
    BY <1>1 DEF IInv, Absent, AssignedExists
  <2>2. \A m \in Node, y \in Proxy : Concerns(m, y)' => Concerns(m, y)
    BY <1>1, <1>5, IdleTask DEF Concerns, Giving
  <2> QED BY <1>1, <1>5, <1>6, <2>1, <2>2, NodesKeep DEF IInv, TypeOK
<1>7. CASE HasRow(x)
  <2>1. proxy[x] \in ProxyRow
    BY <1>2, <1>7, RowShape DEF IInv, TypeOK, Row, HasRow
  <2>2. /\ row \in ProxyRow /\ row.status = "ROW" /\ row.creds = proxy[x].creds \cup ch.give
        /\ ch.active # None => row.active = ch.active
        /\ ch.active = None => row.active = proxy[x].active
    BY <1>2, <2>1, WrittenRow DEF Written, Changed, ProxyRow
  <2>3. closed[x].is => ~proxy[x].active
    BY <1>2 DEF IInv, ClosedTakesNoNodes
  <2> HIDE DEF row
  <2>4. CASE ch.active = TRUE /\ ~closed[x].is
    <3>1. closed' = closed /\ proxy' = [proxy EXCEPT ![x] = row]
      BY <1>1, <1>7, <2>4
    <3> QED BY <1>1, <1>2, <1>5, <1>7, <2>2, <2>4, <3>1, RewriteKeeps, ProxyAssumption
            DEF IInv, TypeOK
  <2>5. CASE ch.active = FALSE
    <3>1. closed' = [closed EXCEPT ![x] = Closing(x)] /\ proxy' = [proxy EXCEPT ![x] = row]
      BY <1>1, <1>7, <2>5
    <3> QED BY <1>1, <1>2, <1>5, <1>7, <2>2, <2>5, <3>1, RewriteKeeps, ProxyAssumption
            DEF IInv, TypeOK
  <2>6. CASE ch.active = None
    <3>1. closed' = closed /\ proxy' = [proxy EXCEPT ![x] = row]
      BY <1>1, <1>7, <2>6, ProxyAssumption
    <3> QED BY <1>1, <1>2, <1>5, <1>7, <2>2, <2>3, <2>6, <3>1, RewriteKeeps, ProxyAssumption
            DEF IInv, TypeOK
  <2> QED BY <1>3, <1>4, <2>4, <2>5, <2>6
<1> QED BY <1>6, <1>7

LEMMA ToggleActiveKeeps ==
    ASSUME IInv, NEW x \in Proxy, NEW on \in BOOLEAN, ToggleActive(x, on)
    PROVE  IInv'
<1>1. UNCHANGED <<node, assigned, task, removed>> /\ begun' \in 0..MaxRequests
  BY BeginKeeps DEF ToggleActive
<1>2. CASE ~HasRow(x)
  <2>1. UNCHANGED <<proxy, closed>>
    BY <1>2 DEF ToggleActive
  <2>2. \A m \in Node : assigned'[m] # None => m \in node' /\ HasRow(assigned'[m])
    BY <1>1 DEF IInv, Absent, AssignedExists
  <2>3. \A m \in Node, y \in Proxy : Concerns(m, y)' => Concerns(m, y)
    BY <1>1 DEF Concerns, Giving
  <2> QED BY <1>1, <2>1, <2>2, <2>3, NodesKeep DEF IInv, TypeOK
<1>3. CASE HasRow(x)
  <2> DEFINE row == [proxy[x] EXCEPT !.active = on]
  <2>1. proxy[x] \in ProxyRow
    BY <1>3, RowShape DEF IInv, TypeOK, Row, HasRow
  <2>2. row \in ProxyRow /\ row.status = "ROW" /\ row.active = on /\ row.creds = proxy[x].creds
    BY <2>1, ActiveRow
  <2>3. /\ proxy' = [proxy EXCEPT ![x] = row]
        /\ closed' = [closed EXCEPT ![x] = IF on THEN Open ELSE Closing(x)]
    BY <1>3 DEF ToggleActive, IInv, TypeOK
  <2> HIDE DEF row
  <2> QED BY <1>1, <1>3, <2>2, <2>3, RewriteKeeps DEF IInv, TypeOK
<1> QED BY <1>2, <1>3

LEMMA DeleteProxyKeeps ==
    ASSUME IInv, NEW x \in Proxy, DeleteProxy(x)
    PROVE  IInv'
<1>1. /\ proxy' = [proxy EXCEPT ![x] = NoProxy("GONE")]
      /\ assigned' = [n \in Node |-> IF assigned[n] = x THEN None ELSE assigned[n]]
      /\ closed' = [closed EXCEPT ![x] = Open]
      /\ removed' = removed \cup {x}
      /\ UNCHANGED <<node, task>> /\ begun' \in 0..MaxRequests
  BY BeginKeeps DEF DeleteProxy, SetNull
<1>2. /\ proxy' \in [Proxy -> Row] /\ proxy'[x].status = "GONE"
      /\ \A y \in Proxy \ {x} : proxy'[y] = proxy[y]
  BY <1>1 DEF IInv, TypeOK, Row, NoProxy
<1>3. Open \in [is : BOOLEAN, nodes : SUBSET Node] /\ Open.is = FALSE
  BY DEF Open
<1>4. TypeOK'
  BY <1>1, <1>2, <1>3 DEF IInv, TypeOK, Row
<1>5. Absent' /\ AssignedExists'
  BY <1>1, <1>2 DEF IInv, TypeOK, Absent, AssignedExists, HasRow
<1>6. RowsGrow
  <2>1. \A y \in Proxy : proxy[y].status \in {"ROW", "NEW", "GONE"}
    BY RowShape DEF IInv, TypeOK, Row
  <2> QED BY <1>1, <1>2, <2>1 DEF RowsGrow, HasRow, IInv, Known
<1>7. Known' /\ Enough'
  BY <1>1, <1>6, GrowingKeeps
<1>8. Unasked' /\ ClosedTakesNoNodes'
  <2>1. ASSUME NEW y \in Proxy, closed'[y].is
        PROVE  closed'[y] = closed[y] /\ proxy'[y] = proxy[y] /\ y # x
    BY <1>1, <1>2, <1>3, <2>1 DEF IInv, TypeOK
  <2>2. \A n \in Node, y \in Proxy : Concerns(n, y)' => Concerns(n, y)
    BY <1>1, ProxyAssumption DEF Concerns, Giving
  <2> QED BY <1>1, <2>1, <2>2, AllStayClosed DEF IInv, Unasked, ClosedTakesNoNodes, HasRow
<1> QED BY <1>4, <1>5, <1>7, <1>8 DEF IInv

\* The INSERT of a node's proxy adds its row only if it was deleted.
LEMMA EnsuredRows ==
    ASSUME IInv, NEW p \in Proc, task[p].stage \in {"saveNode", "insertNode"},
           proxy' = ProxyEnsured(task[p]), UNCHANGED removed
    PROVE  /\ proxy' \in [Proxy -> Row]
           /\ \A x \in Proxy : HasRow(x) => proxy'[x] = proxy[x]
           /\ \A x \in Proxy : proxy'[x].status # "ROW" => proxy'[x] = proxy[x]
           /\ task[p].proxy # None => task[p].proxy \in Proxy /\ proxy'[task[p].proxy].status = "ROW"
           /\ RowsGrow
<1> DEFINE x == task[p].proxy
           row == Inserted(task[p].row)
<1>1. x \in Proxy \cup {None} /\ \A y \in Proxy : proxy[y].status \in {"ROW", "NEW", "GONE"}
  BY NodeTask, RowShape DEF IInv, TypeOK, Row
<1>2. x # None => task[p].row \in ProxyRow /\ proxy[x].status # "NEW"
  BY DEF IInv, Known, ReadRow
<1>3. x # None => row \in ProxyRow /\ row.status = "ROW"
  BY <1>2, InsertedRow
<1>4. proxy' = IF x # None /\ ~HasRow(x) THEN [proxy EXCEPT ![x] = row] ELSE proxy
  BY DEF ProxyEnsured
<1> HIDE DEF row, x
<1>5. proxy' \in [Proxy -> Row]
  BY <1>1, <1>3, <1>4 DEF IInv, TypeOK, Row
<1>6. /\ \A y \in Proxy : y # x \/ HasRow(y) => proxy'[y] = proxy[y]
      /\ x # None => x \in Proxy /\ proxy'[x].status = "ROW"
  BY <1>1, <1>3, <1>4 DEF IInv, TypeOK, HasRow
<1>7. x # None /\ ~HasRow(x) => x \in removed
  BY <1>1, <1>2 DEF IInv, Known, HasRow
<1>8. RowsGrow
  <2>1. \A y \in Proxy : proxy[y].status = "GONE" => y \in removed
    BY DEF IInv, Known
  <2>2. \A y \in Proxy : proxy'[y] = proxy[y] \/ (y \in removed /\ proxy'[y].status = "ROW")
    BY <1>6, <1>7, ProxyAssumption
  <2> QED BY <1>1, <2>1, <2>2 DEF RowsGrow, HasRow
<1>9. /\ \A y \in Proxy : HasRow(y) => proxy'[y] = proxy[y]
      /\ \A y \in Proxy : proxy'[y].status # "ROW" => proxy'[y] = proxy[y]
  BY <1>6, ProxyAssumption
<1>10. x # None => x \in Proxy /\ proxy'[x].status = "ROW"
  BY <1>6
<1> QED BY <1>5, <1>8, <1>9, <1>10 DEF x

\* An UPDATE or INSERT of a node with the proxy that was read with it.
LEMMA SavedKeeps ==
    ASSUME IInv, NEW p \in Proc, task[p].stage \in {"saveNode", "insertNode"},
           proxy' = ProxyEnsured(task[p]), UNCHANGED <<closed, removed, begun>>,
           NEW w \in Task, Becomes(p, w),
           \/ /\ w = Idle
              /\ node' = node \cup {task[p].node}
              /\ assigned' = [assigned EXCEPT ![task[p].node] = task[p].proxy]
           \/ /\ w = [task[p] EXCEPT !.stage = "insertNode"]
              /\ UNCHANGED <<node, assigned>>
    PROVE  IInv'
<1> DEFINE n == task[p].node
           x == task[p].proxy
<1>1. /\ task' \in [Proc -> Task] /\ task'[p] = w
      /\ \A q \in Proc \ {p} : task'[q] = task[q]
  BY Becoming DEF IInv
<1>2. n \in Node /\ x \in Proxy \cup {None} /\ Giving(n, x)
  BY NodeTask DEF IInv, TypeOK, Giving
<1>3. /\ proxy' \in [Proxy -> Row]
      /\ \A y \in Proxy : HasRow(y) => proxy'[y] = proxy[y]
      /\ \A y \in Proxy : proxy'[y].status # "ROW" => proxy'[y] = proxy[y]
      /\ x # None => x \in Proxy /\ proxy'[x].status = "ROW"
      /\ RowsGrow
  BY EnsuredRows
<1>4. \/ w.stage = "idle"
      \/ w.stage = "insertNode" /\ w.node = n /\ w.proxy = x /\ w.row = task[p].row
  <2>1. CASE w = Idle BY <2>1, IdleTask
  <2>2. CASE w = [task[p] EXCEPT !.stage = "insertNode"]
    BY <2>2, NodeTask DEF IInv, TypeOK
  <2> QED BY <2>1, <2>2
<1>5. \/ UNCHANGED <<node, assigned>>
      \/ node' = node \cup {n} /\ assigned' = [assigned EXCEPT ![n] = x]
  OBVIOUS
<1>6. ReadRow(task[p])
  BY DEF IInv, Known
<1>7. ReadRow(task[p])'
  <2>1. CASE w.stage = "idle"
    BY <1>1, <2>1 DEF ReadRow
  <2>2. CASE w.stage = "insertNode" /\ w.proxy = x /\ w.row = task[p].row
    BY <1>1, <1>3, <1>6, <2>2 DEF ReadRow, HasRow
  <2> QED BY <1>4, <2>1, <2>2
<1> HIDE DEF n, x
<1>8. TypeOK'
  BY <1>1, <1>2, <1>3, <1>5 DEF IInv, TypeOK, Row
<1>9. Absent' /\ AssignedExists'
  <2>1. \A m \in Node : assigned[m] # None => m \in node /\ proxy'[assigned[m]].status = "ROW"
    BY <1>3 DEF IInv, TypeOK, Absent, AssignedExists, HasRow
  <2>2. \A m \in Node : assigned'[m] # None => m \in node' /\ proxy'[assigned'[m]].status = "ROW"
    <3>1. x # None => proxy'[x].status = "ROW"
      BY <1>3
    <3>2. CASE UNCHANGED <<node, assigned>>
      BY <2>1, <3>2
    <3>3. CASE node' = node \cup {n} /\ assigned' = [assigned EXCEPT ![n] = x]
      <4>1. \A m \in Node : assigned'[m] = IF m = n THEN x ELSE assigned[m]
        BY <1>2, <3>3 DEF IInv, TypeOK
      <4> QED BY <2>1, <3>1, <3>3, <4>1
    <3> QED BY <1>5, <3>2, <3>3
  <2> QED BY <1>8, <2>2 DEF Absent, AssignedExists, TypeOK, HasRow
<1>10. Known' /\ Enough'
  BY <1>1, <1>3, <1>4, <1>7, GrowingKeeps
<1>11. Unasked' /\ ClosedTakesNoNodes'
  <2>1. \A q \in Proc, y \in Proxy : Asks(task'[q], y) => Asks(task[q], y)
    BY <1>1, <1>4 DEF Asks
  <2>2. \A m \in Node, y \in Proxy : Giving(m, y)' => Giving(m, y)
    BY <1>1, <1>2, <1>4 DEF Giving, n, x
  <2>3. \A m \in Node, y \in Proxy : Concerns(m, y)' => Concerns(m, y)
    BY <1>2, <1>5, <2>2 DEF Concerns, IInv, TypeOK
  <2> QED BY <1>3, <2>1, <2>3, AllStayClosed DEF IInv, Unasked, ClosedTakesNoNodes, HasRow
<1> QED BY <1>8, <1>9, <1>10, <1>11 DEF IInv

LEMMA SaveNodeKeeps ==
    ASSUME IInv, NEW p \in Proc, SaveNode(p)
    PROVE  IInv'
<1>1. /\ task[p].stage = "saveNode" /\ proxy' = ProxyEnsured(task[p])
      /\ UNCHANGED <<node, closed, removed, begun>>
  BY DEF SaveNode
<1>2. CASE task[p].node \in node
  <2>1. /\ Becomes(p, Idle) /\ node' = node \cup {task[p].node}
        /\ assigned' = [assigned EXCEPT ![task[p].node] = task[p].proxy]
    BY <1>1, <1>2 DEF SaveNode
  <2> QED BY <1>1, <2>1, IdleTask, SavedKeeps
<1>3. CASE task[p].node \notin node
  <2>1. Becomes(p, [task[p] EXCEPT !.stage = "insertNode"]) /\ UNCHANGED assigned
    BY <1>3 DEF SaveNode
  <2>2. [task[p] EXCEPT !.stage = "insertNode"] \in Task
    BY <1>1, NodeTask DEF IInv, TypeOK
  <2> QED BY <1>1, <2>1, <2>2, SavedKeeps
<1> QED BY <1>2, <1>3

LEMMA InsertNodeKeeps ==
    ASSUME IInv, NEW p \in Proc, InsertNode(p)
    PROVE  IInv'
BY IdleTask, SavedKeeps DEF InsertNode

LEMMA NextKeeps == IInv /\ [Next]_vars => IInv'
<1> SUFFICES ASSUME IInv, [Next]_vars PROVE IInv'
  OBVIOUS
<1>1. CASE UNCHANGED vars
  BY <1>1 DEF vars, IInv, TypeOK, Absent, AssignedExists, Known, ReadRow, Enough, Suffices,
              Unasked, ClosedTakesNoNodes, HasRow, Giving
<1>2. ASSUME NEW x \in Proxy, CreateProxy(x) \/ DeleteProxy(x) \/ \E on \in BOOLEAN : ToggleActive(x, on)
      PROVE  IInv'
  BY <1>2, CreateProxyKeeps, DeleteProxyKeeps, ToggleActiveKeeps
<1>3. ASSUME NEW n \in Node, Unassign(n) \/ CreateNode(n) \/ DeleteNode(n)
      PROVE  IInv'
  BY <1>3, UnassignKeeps
<1>4. ASSUME NEW p \in Proc,
             \/ \E x \in Proxy, ch \in Changes : ReadForUpdate(p, x, ch)
             \/ \E x \in Proxy, n \in Node : CheckAssign(p, n, x)
             \/ \E n \in Node : ReadNode(p, n)
      PROVE  IInv'
  BY <1>4, ReadForUpdateKeeps, CheckAssignKeeps, ReadNodeKeeps
<1>5. ASSUME NEW p \in Proc,
             WriteUpdate(p) \/ WriteAssign(p) \/ SaveNode(p) \/ InsertNode(p) \/ Fail(p)
      PROVE  IInv'
  BY <1>5, WriteUpdateKeeps, WriteAssignKeeps, SaveNodeKeeps, InsertNodeKeeps, FailKeeps
<1> QED BY <1>1, <1>2, <1>3, <1>4, <1>5 DEF Next

-----------------------------------------------------------------------------
(* No proxy that was never deleted loses the credentials it needs.         *)

LEMMA UpdateKeepsCredentials ==
    ASSUME IInv, NEW p \in Proc, WriteUpdate(p), NEW x \in Proxy,
           HasRow(x), x \notin removed, Valid(proxy[x].auth, proxy[x].creds)
    PROVE  Valid(proxy'[x].auth, proxy'[x].creds)
<1> DEFINE y == task[p].proxy
           ch == task[p].changes
<1>1. /\ task[p].stage = "update"
      /\ IF HasRow(y) THEN proxy' = [proxy EXCEPT ![y] = Written(@, ch)] ELSE UNCHANGED proxy
  BY DEF WriteUpdate
<1>2. y \in Proxy /\ ch \in Changes
  BY <1>1, UpdateTask DEF IInv, TypeOK
<1>3. Suffices(task[p])
  BY DEF IInv, Enough
<1>4. CASE y = x
  <2>1. proxy'[x] = Written(proxy[x], ch) /\ proxy[x] \in ProxyRow
    BY <1>1, <1>2, <1>4, RowShape DEF IInv, TypeOK, Row, HasRow
  <2>2. /\ proxy'[x].auth = IF ch.auth = None THEN proxy[x].auth ELSE ch.auth
        /\ proxy'[x].creds = proxy[x].creds \cup ch.give
    BY <1>2, <2>1, WrittenRow
  <2>3. CASE ch.auth = None
    BY <2>2, <2>3, MoreIsValid
  <2>4. CASE ch.auth # None
    BY <1>1, <1>3, <1>4, <2>2, <2>4 DEF Suffices
  <2> QED BY <2>3, <2>4
<1>5. CASE y # x
  <2>1. proxy'[x] = proxy[x]
    BY <1>1, <1>2, <1>5 DEF IInv, TypeOK
  <2> QED BY <2>1
<1> QED BY <1>4, <1>5

LEMMA ToggleKeepsCredentials ==
    ASSUME IInv, NEW y \in Proxy, NEW on \in BOOLEAN, ToggleActive(y, on), NEW x \in Proxy,
           HasRow(x)
    PROVE  proxy'[x].auth = proxy[x].auth /\ proxy'[x].creds = proxy[x].creds
<1>1. proxy[x] \in ProxyRow
  BY RowShape DEF IInv, TypeOK, Row, HasRow
<1>2. proxy'[x] = proxy[x] \/ proxy'[x] = [proxy[x] EXCEPT !.active = on]
  BY DEF ToggleActive, IInv, TypeOK
<1>3. CASE proxy'[x] = [proxy[x] EXCEPT !.active = on]
  <2>1. /\ [proxy[x] EXCEPT !.active = on].auth = proxy[x].auth
        /\ [proxy[x] EXCEPT !.active = on].creds = proxy[x].creds
    BY <1>1, ActiveRow
  <2> QED BY <1>3, <2>1
<1> QED BY <1>2, <1>3

LEMMA StepKeepsCredentials ==
    ASSUME IInv, [Next]_vars, NEW x \in Proxy,
           HasRow(x), HasRow(x)', x \notin removed, Valid(proxy[x].auth, proxy[x].creds)
    PROVE  Valid(proxy'[x].auth, proxy'[x].creds)
<1>1. CASE proxy'[x] = proxy[x]
  BY <1>1
<1>2. ASSUME NEW y \in Proxy, CreateProxy(y) \/ DeleteProxy(y)
      PROVE  proxy'[x] = proxy[x]
  <2>1. CASE CreateProxy(y)
    BY <2>1 DEF CreateProxy, HasRow, IInv, TypeOK
  <2>2. CASE DeleteProxy(y)
    BY <2>2 DEF DeleteProxy, HasRow, IInv, TypeOK, NoProxy
  <2> QED BY <1>2, <2>1, <2>2
<1>3. ASSUME NEW p \in Proc, SaveNode(p) \/ InsertNode(p)
      PROVE  proxy'[x] = proxy[x]
  BY <1>3, EnsuredRows DEF SaveNode, InsertNode
<1>4. ASSUME UNCHANGED proxy
      PROVE  proxy'[x] = proxy[x]
  BY <1>4
<1>5. UNCHANGED vars => UNCHANGED proxy
  BY DEF vars
<1>6. ASSUME NEW n \in Node, Unassign(n) \/ CreateNode(n) \/ DeleteNode(n)
      PROVE  UNCHANGED proxy
  BY <1>6 DEF Unassign, CreateNode, DeleteNode
<1>7. ASSUME NEW p \in Proc,
             \/ \E y \in Proxy, ch \in Changes : ReadForUpdate(p, y, ch)
             \/ \E y \in Proxy, n \in Node : CheckAssign(p, n, y)
             \/ \E n \in Node : ReadNode(p, n)
             \/ WriteAssign(p) \/ Fail(p)
      PROVE  UNCHANGED proxy
  BY <1>7 DEF ReadForUpdate, CheckAssign, ReadNode, WriteAssign, Fail
<1>8. ASSUME NEW y \in Proxy, NEW on \in BOOLEAN, ToggleActive(y, on)
      PROVE  Valid(proxy'[x].auth, proxy'[x].creds)
  BY <1>8, ToggleKeepsCredentials
<1>9. ASSUME NEW p \in Proc, WriteUpdate(p)
      PROVE  Valid(proxy'[x].auth, proxy'[x].creds)
  BY <1>9, UpdateKeepsCredentials
<1> QED BY <1>1, <1>2, <1>3, <1>4, <1>5, <1>6, <1>7, <1>8, <1>9 DEF Next

-----------------------------------------------------------------------------
(* Theorems.                                                               *)

\* The invariant holds of every reachable state.
THEOREM Invariance == Spec => []IInv
BY InitIInv, NextKeeps, PTL DEF Spec

\* Every variable keeps its type.
THEOREM TypeCorrect == Spec => []TypeOK
<1>1. IInv => TypeOK BY DEF IInv
<1> QED BY <1>1, Invariance, PTL

\* A node's proxy is there, however deletions, assignments and node updates
\* overlap (proxy.go:121-146, resource.go).
THEOREM NoneDangles == Spec => []AssignedExists
<1>1. IInv => AssignedExists BY DEF IInv
<1> QED BY <1>1, Invariance, PTL

\* A deactivated proxy stays inactive and gets no further node until somebody
\* asks for it (proxy.go:111, 131-146).
THEOREM ClosedStays == Spec => []ClosedTakesNoNodes
<1>1. IInv => ClosedTakesNoNodes BY DEF IInv
<1> QED BY <1>1, Invariance, PTL

\* Updates that were each validated against a row read earlier never add up to a
\* proxy without the credentials of its auth type (proxy.go:80-111).
THEOREM CredentialsStay == Spec => CredentialsKept
<1>1. IInv /\ [Next]_vars =>
        [\A x \in Proxy :
           (HasRow(x) /\ Valid(proxy[x].auth, proxy[x].creds) /\ HasRow(x)' /\ x \notin removed)
               => Valid(proxy'[x].auth, proxy'[x].creds)]_vars
  BY StepKeepsCredentials
<1> QED BY <1>1, Invariance, PTL DEF Spec, CredentialsKept
=============================================================================
