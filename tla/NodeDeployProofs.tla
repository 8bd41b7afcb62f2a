-------------------------- MODULE NodeDeployProofs --------------------------
(***************************************************************************)
(* What NodeDeploy.tla promises, for any number of containers, nodes and   *)
(* requests and any amounts of RAM.                                        *)
(*                                                                         *)
(* OneDeployment is inductive beside the types, since the history records  *)
(* every write to a container that is being deployed.  FullWhenUsedUp      *)
(* needs Sized: no amount of RAM that is added or given back is zero.      *)
(*                                                                         *)
(* ReservationsExact is about two sums.  SumFunction is a fold: it unfolds *)
(* one element at a time because a function that does exists on every      *)
(* subset of a finite set (SubsetInduction: a least counterexample), and   *)
(* from that its value changes by as much as one of its terms.  Accounts   *)
(* adds to it that a node not yet there owes nothing (Fresh), so that a    *)
(* name is never taken over with the debts of another node.                *)
(***************************************************************************)
EXTENDS NodeDeploy, FiniteSetTheorems, TLAPS

SizedTask(t) ==
    /\ t.stage \in {"calling", "finalize", "fail", "release"} => t.ram > 0
    /\ t.stage \in {"asking", "save", "delete"} => t.row.ram > 0
    /\ t.stage = "saveNode" => t.row.max > 0 /\ t.row.status \in NodeStatus

Sized ==
    /\ \A n \in Node : HasNode(n) => node[n].max > 0
    /\ \A c \in Container : HasRow(c) => container[c].ram > 0
    /\ \A p \in Proc : SizedTask(task[p])

IInv ==
    /\ TypeOK
    /\ Sized
    /\ FullWhenUsedUp
    /\ OneDeployment

-----------------------------------------------------------------------------
(* Rows and tasks.                                                         *)

LEMMA RowShape ==
    ASSUME NEW row \in ContainerRow
    PROVE  /\ row.status \in ContainerStatus \cup {"NEW", "GONE", "NOOWNER"}
           /\ row.node \in Node \cup {None} /\ row.ram \in Nat /\ row.external \in BOOLEAN
BY DEF ContainerRow

LEMMA NodeShape ==
    ASSUME NEW row \in NodeRow
    PROVE  /\ row.status \in NodeStatus \cup {"NEW", "GONE"}
           /\ row.max \in Nat /\ row.used \in Nat
BY DEF NodeRow

LEMMA NoRows ==
    /\ \A s \in {"NEW", "GONE", "NOOWNER"} :
          /\ NoContainer(s) \in ContainerRow
          /\ NoContainer(s).status = s /\ NoContainer(s).status \notin ContainerStatus
    /\ \A s \in {"NEW", "GONE"} :
          /\ NoNode(s) \in NodeRow /\ NoNode(s).used = 0 /\ NoNode(s).max = 0
          /\ NoNode(s).status \notin NodeStatus
BY DEF NoContainer, NoNode, ContainerRow, NodeRow, ContainerStatus, NodeStatus

LEMMA IdleTask == Idle \in Task /\ Idle.stage = "idle"
BY DEF Task, Idle

LEMMA DeployTask ==
    ASSUME NEW t \in Task, t.stage \in {"calling", "finalize", "fail"}
    PROVE  /\ t.container \in Container /\ t.node \in Node /\ t.ram \in Nat
           /\ \A s \in {"finalize", "fail"} : [t EXCEPT !.stage = s] \in Task
<1>1. t \in [stage : {"calling", "finalize", "fail"},
             container : Container, node : Node, ram : Nat]
  BY DEF Task, Idle
<1>2. \A s \in {"finalize", "fail"} :
        [t EXCEPT !.stage = s] \in [stage : {"calling", "finalize", "fail"},
                                    container : Container, node : Node, ram : Nat]
  BY <1>1
<1> QED BY <1>1, <1>2 DEF Task

LEMMA RowTask ==
    ASSUME NEW t \in Task, t.stage \in {"asking", "save", "delete"}
    PROVE  t.container \in Container /\ t.row \in ContainerRow
BY DEF Task, Idle

LEMMA ReleaseTask ==
    ASSUME NEW t \in Task, t.stage = "release"
    PROVE  t.node \in Node /\ t.ram \in Nat
BY DEF Task, Idle

LEMMA NodeTask ==
    ASSUME NEW t \in Task, t.stage = "saveNode"
    PROVE  t.node \in Node /\ t.row \in NodeRow
BY DEF Task, Idle

LEMMA Becoming ==
    ASSUME TypeOK, Sized, NEW p \in Proc, NEW t \in Task, Becomes(p, t), SizedTask(t)
    PROVE  /\ task' \in [Proc -> Task]
           /\ task'[p] = t
           /\ \A q \in Proc \ {p} : task'[q] = task[q]
           /\ \A q \in Proc : SizedTask(task'[q])
<1>1. task' \in [Proc -> Task] /\ task'[p] = t /\ \A q \in Proc \ {p} : task'[q] = task[q]
  BY DEF Becomes, TypeOK
<1>2. \A q \in Proc : SizedTask(task[q])
  BY DEF Sized
<1> QED BY <1>1, <1>2

-----------------------------------------------------------------------------
(* Reservations.                                                           *)

LEMMA ReserveRow ==
    ASSUME NEW row \in NodeRow, NEW ram \in Nat, row.status = "ACTIVE",
           row.max - row.used >= ram
    PROVE  /\ Reserve(row, ram) \in NodeRow
           /\ Reserve(row, ram).used <= Reserve(row, ram).max
           /\ Reserve(row, ram).max = row.max
           /\ Matches(Reserve(row, ram))
<1> DEFINE new == Reserve(row, ram)
<1>1. row.max \in Nat /\ row.used \in Nat
  BY NodeShape
<1>2. /\ new.used = row.used + ram /\ new.max = row.max
      /\ new.status = IF row.used + ram >= row.max THEN "FULL" ELSE "ACTIVE"
  BY DEF NodeRow, Reserve
<1>a. row.used + ram \in Nat /\ {"ACTIVE", "FULL"} \subseteq NodeStatus
  BY <1>1 DEF NodeStatus
<1>3. new \in NodeRow
  BY <1>a DEF NodeRow, Reserve
<1> HIDE DEF new
<1>4. new.used <= new.max /\ new.status = "FULL" <=> new.used = new.max
  BY <1>1, <1>2
<1>5. new.used <= new.max
  BY <1>1, <1>2
<1> QED BY <1>2, <1>3, <1>4, <1>5 DEF Matches, new

LEMMA ReleaseRow ==
    ASSUME NEW row \in NodeRow, NEW ram \in Nat, row.used <= row.max
    PROVE  /\ Release(row, ram) \in NodeRow
           /\ Release(row, ram).used <= Release(row, ram).max
           /\ Release(row, ram).max = row.max
           /\ row.status \in NodeStatus <=> Release(row, ram).status \in NodeStatus
           /\ ram > 0 /\ row.max > 0 /\ Matches(row) => Matches(Release(row, ram))
<1> DEFINE left == IF row.used < ram THEN 0 ELSE row.used - ram
           new == Release(row, ram)
<1>1. /\ row.max \in Nat /\ row.used \in Nat
      /\ row.status \in NodeStatus \cup {"NEW", "GONE"}
  BY NodeShape
<1>2. left \in Nat /\ left <= row.used /\ (ram > 0 /\ row.max > 0 => left < row.max)
  BY <1>1
<1>3. /\ new.used = left /\ new.max = row.max
      /\ new.status = IF row.status = "FULL" /\ left < row.max THEN "ACTIVE" ELSE row.status
  BY DEF NodeRow, Release
<1>4. new \in NodeRow
  BY <1>1, <1>2 DEF NodeRow, NodeStatus, Release
<1> HIDE DEF new, left
<1>5. new.used <= new.max
  BY <1>1, <1>2, <1>3
<1>6. row.status \in NodeStatus <=> new.status \in NodeStatus
  BY <1>1, <1>3 DEF NodeStatus
<1>7. ram > 0 /\ row.max > 0 /\ Matches(row) => Matches(new)
  <2> SUFFICES ASSUME ram > 0, row.max > 0, Matches(row), new.status # "MAINTENANCE"
               PROVE  new.status = "FULL" <=> new.used = new.max
    BY DEF Matches
  <2>1. left < row.max /\ new.used # new.max
    BY <1>1, <1>2, <1>3
  <2>2. new.status # "FULL"
    BY <1>3, <2>1
  <2> QED BY <2>1, <2>2
<1> QED BY <1>3, <1>4, <1>5, <1>6, <1>7 DEF new

LEMMA NodeEditRow ==
    ASSUME NEW row \in NodeRow, row.status \in NodeStatus, row.max > 0, NEW new \in NodeEdits(row)
    PROVE  new \in NodeRow /\ new.max > 0 /\ new.status \in NodeStatus
<1>1. CASE new = row
  BY <1>1
<1>2. ASSUME NEW m \in Capacities, new = [row EXCEPT !.max = m]
      PROVE  new \in NodeRow /\ new.max > 0 /\ new.status \in NodeStatus
  BY <1>2, NodeAssumption DEF NodeRow
<1>3. ASSUME NEW u \in {0} \cup Rams, new = [row EXCEPT !.used = u]
      PROVE  new \in NodeRow /\ new.max > 0 /\ new.status \in NodeStatus
  BY <1>3, NodeAssumption DEF NodeRow
<1>4. ASSUME NEW s \in NodeStatus, new = [row EXCEPT !.status = s]
      PROVE  new \in NodeRow /\ new.max > 0 /\ new.status \in NodeStatus
  BY <1>4 DEF NodeRow
<1> QED BY <1>1, <1>2, <1>3, <1>4 DEF NodeEdits

LEMMA EditRow ==
    ASSUME NEW row \in ContainerRow, row.ram > 0, NEW new \in Edits(row)
    PROVE  new \in ContainerRow /\ new.ram > 0
<1>1. CASE new = row
  BY <1>1
<1>2. CASE new = [row EXCEPT !.external = TRUE]
  BY <1>2 DEF ContainerRow
<1>3. ASSUME NEW r \in Rams, new = [row EXCEPT !.ram = r]
      PROVE  new \in ContainerRow /\ new.ram > 0
  BY <1>3, NodeAssumption DEF ContainerRow
<1>4. ASSUME NEW n \in Node, new = [row EXCEPT !.node = n]
      PROVE  new \in ContainerRow /\ new.ram > 0
  BY <1>4 DEF ContainerRow
<1>5. ASSUME NEW s \in ContainerStatus, new = [row EXCEPT !.status = s]
      PROVE  new \in ContainerRow /\ new.ram > 0
  BY <1>5 DEF ContainerRow
<1> QED BY <1>1, <1>2, <1>3, <1>4, <1>5 DEF Edits

-----------------------------------------------------------------------------
(* When a step keeps the parts of the invariant.                           *)

LEMMA KeepsFull ==
    ASSUME IInv, disturbed \subseteq disturbed',
           \A n \in Node : n \notin disturbed' /\ HasNode(n)' =>
               \/ HasNode(n) /\ node'[n] = node[n]
               \/ Matches(node'[n])
               \/ HasNode(n) /\ (Matches(node[n]) => Matches(node'[n]))
    PROVE  FullWhenUsedUp'
<1> SUFFICES ASSUME NEW n \in Node, n \notin disturbed', HasNode(n)'
             PROVE  Matches(node'[n])
  BY DEF FullWhenUsedUp, Matches
<1>1. HasNode(n) => Matches(node[n])
  BY DEF IInv, FullWhenUsedUp
<1>2. CASE HasNode(n) /\ node'[n] = node[n]
  BY <1>1, <1>2 DEF Matches
<1>3. CASE Matches(node'[n])
  BY <1>3
<1>4. CASE HasNode(n) /\ (Matches(node[n]) => Matches(node'[n]))
  BY <1>1, <1>4
<1> QED BY <1>2, <1>3, <1>4

What(row) == <<row.status, row.node, row.ram>>

\* Requests that deploy go on or end, and no container is written that one of
\* them has to itself, except to what it is.
LEMMA KeepsOneDeployment ==
    ASSUME IInv, disturbed \subseteq disturbed',
           \A q \in Proc : \/ task'[q] = task[q]
                           \/ task'[q].stage \notin {"calling", "finalize", "fail"}
                           \/ /\ Deploying(q)
                              /\ task'[q].container = task[q].container
                              /\ task'[q].node = task[q].node
                              /\ task'[q].ram = task[q].ram,
           \A q \in Proc : Deploying(q)' /\ task[q].node \notin disturbed' =>
               What(container'[task[q].container]) = What(container[task[q].container])
    PROVE  OneDeployment'
<1>1. ASSUME NEW q \in Proc, Deploying(q)'
      PROVE  /\ Deploying(q) /\ task'[q].container = task[q].container
             /\ task'[q].node = task[q].node /\ task'[q].ram = task[q].ram
  BY <1>1 DEF Deploying
<1>2. ASSUME NEW p \in Proc, Deploying(p)', task'[p].node \notin disturbed'
      PROVE  StillPrepared(p)'
  <2>1. StillPrepared(p)
    BY <1>1, <1>2 DEF IInv, OneDeployment
  <2> QED BY <1>1, <1>2, <2>1 DEF StillPrepared, What
<1>3. ASSUME NEW p \in Proc, Deploying(p)', task'[p].node \notin disturbed',
             NEW q \in Proc, Deploying(q)', task'[q].node \notin disturbed',
             task'[q].container = task'[p].container
      PROVE  q = p
  BY <1>1, <1>3 DEF IInv, OneDeployment
<1> QED BY <1>2, <1>3 DEF OneDeployment

\* A row that is overwritten: if a deployment had it to itself, its node is
\* disturbed or nothing that counts has changed.
LEMMA Overwritten ==
    ASSUME IInv, disturbed \subseteq disturbed', NEW c \in Container, NEW row \in ContainerRow,
           container' = [container EXCEPT ![c] = row],
           container[c].status = "DEPLOYING" => Disturbs(container[c], row) \subseteq disturbed'
    PROVE  \A q \in Proc : Deploying(q) /\ task[q].node \notin disturbed' =>
               What(container'[task[q].container]) = What(container[task[q].container])
<1> SUFFICES ASSUME NEW q \in Proc, Deploying(q), task[q].node \notin disturbed'
             PROVE  What(container'[task[q].container]) = What(container[task[q].container])
  OBVIOUS
<1>1. StillPrepared(q)
  BY DEF IInv, OneDeployment
<1>2. task[q] \in Task
  BY DEF IInv, TypeOK
<1>3. task[q].container \in Container /\ task[q].node \in Node
  BY <1>2, DeployTask DEF Deploying
<1>4. CASE task[q].container # c
  BY <1>3, <1>4 DEF IInv, TypeOK
<1>5. CASE task[q].container = c
  <2>1. container[c].status = "DEPLOYING" /\ container[c].node = task[q].node
    BY <1>1, <1>5 DEF StillPrepared
  <2>2. container[c].node # None
    BY <1>3, <2>1, NodeAssumption
  <2>3. Reserves(container[c])
    BY <2>1, <2>2 DEF Reserves
  <2>4. container'[c] = row
    BY DEF IInv, TypeOK
  <2>5. container[c].node \notin Disturbs(container[c], row)
    BY <2>1
  <2>6. What(container[c]) = What(row)
    BY <2>2, <2>3, <2>5 DEF Disturbs, What
  <2> QED BY <1>5, <2>4, <2>6
<1> QED BY <1>4, <1>5

\* A step of request p that leaves the tables alone.
LEMMA OnlyTask ==
    ASSUME IInv, NEW p \in Proc, NEW t \in Task, SizedTask(t), Becomes(p, t),
           \/ t.stage \notin {"calling", "finalize", "fail"}
           \/ /\ Deploying(p)
              /\ t.container = task[p].container /\ t.node = task[p].node
              /\ t.ram = task[p].ram,
           container' = container, node' = node, disturbed' = disturbed, begun' \in Nat
    PROVE  IInv'
<1>1. /\ task' \in [Proc -> Task]
      /\ task'[p] = t
      /\ \A q \in Proc \ {p} : task'[q] = task[q]
      /\ \A q \in Proc : SizedTask(task'[q])
  BY Becoming DEF IInv
<1>2. TypeOK'
  BY <1>1 DEF IInv, TypeOK
<1>3. Sized'
  BY <1>1 DEF IInv, Sized, HasNode, HasRow
<1>4. FullWhenUsedUp'
  BY KeepsFull DEF HasNode
<1>5. \A q \in Proc : \/ task'[q] = task[q]
                        \/ task'[q].stage \notin {"calling", "finalize", "fail"}
                        \/ /\ Deploying(q)
                           /\ task'[q].container = task[q].container
                           /\ task'[q].node = task[q].node
                           /\ task'[q].ram = task[q].ram
  BY <1>1
<1>6. \A q \in Proc : What(container'[task[q].container]) = What(container[task[q].container])
  OBVIOUS
<1>7. OneDeployment'
  BY <1>5, <1>6, KeepsOneDeployment
<1> QED BY <1>2, <1>3, <1>4, <1>7 DEF IInv

\* A container is overwritten, by a request that is done or by no request.
LEMMA OnlyContainer ==
    ASSUME IInv, NEW c \in Container, NEW row \in ContainerRow,
           row.status \in ContainerStatus => row.ram > 0,
           container' = [container EXCEPT ![c] = row],
           task' \in [Proc -> Task], \A q \in Proc : SizedTask(task'[q]),
           \A q \in Proc : \/ task'[q] = task[q]
                           \/ task'[q].stage \notin {"calling", "finalize", "fail"},
           node' = node, begun' \in Nat,
           disturbed \subseteq disturbed', disturbed' \subseteq Node,
           container[c].status = "DEPLOYING" => Disturbs(container[c], row) \subseteq disturbed'
    PROVE  IInv'
<1>1. container' \in [Container -> ContainerRow]
  BY DEF IInv, TypeOK
<1>2. TypeOK'
  BY <1>1 DEF IInv, TypeOK
<1>3. \A d \in Container : HasRow(d)' => container'[d].ram > 0
  BY DEF IInv, TypeOK, Sized, HasRow
<1>4. Sized'
  BY <1>3 DEF IInv, Sized, HasNode
<1>5. FullWhenUsedUp'
  BY KeepsFull DEF HasNode
<1>6. \A q \in Proc : Deploying(q) /\ task[q].node \notin disturbed' =>
           What(container'[task[q].container]) = What(container[task[q].container])
  BY Overwritten
<1>7. \A q \in Proc : Deploying(q)' => Deploying(q) /\ task'[q] = task[q]
  BY DEF Deploying
<1>8. OneDeployment'
  BY <1>6, <1>7, KeepsOneDeployment
<1> QED BY <1>2, <1>4, <1>5, <1>8 DEF IInv

\* A node is overwritten, by a request that is done or by no request.
LEMMA OnlyNode ==
    ASSUME IInv, NEW n \in Node, NEW row \in NodeRow,
           row.used <= row.max, row.status \in NodeStatus => row.max > 0,
           node' = [node EXCEPT ![n] = row],
           task' \in [Proc -> Task], \A q \in Proc : SizedTask(task'[q]),
           \A q \in Proc : \/ task'[q] = task[q]
                           \/ task'[q].stage \notin {"calling", "finalize", "fail"},
           container' = container, begun' \in Nat,
           disturbed \subseteq disturbed', disturbed' \subseteq Node,
           n \notin disturbed' /\ row.status \in NodeStatus =>
               Matches(row) \/ (HasNode(n) /\ (Matches(node[n]) => Matches(row)))
    PROVE  IInv'
<1>1. node' \in [Node -> NodeRow] /\ node'[n] = row /\ \A m \in Node \ {n} : node'[m] = node[m]
  BY DEF IInv, TypeOK
<1>2. TypeOK'
  BY <1>1 DEF IInv, TypeOK
<1>3. Sized'
  BY <1>1 DEF IInv, Sized, HasNode, HasRow
<1>4. FullWhenUsedUp'
  <2>1. ASSUME NEW m \in Node, m \notin disturbed', HasNode(m)'
        PROVE  \/ HasNode(m) /\ node'[m] = node[m]
               \/ Matches(node'[m])
               \/ HasNode(m) /\ (Matches(node[m]) => Matches(node'[m]))
    BY <1>1, <2>1 DEF HasNode
  <2> QED BY <2>1, KeepsFull
<1>5. \A q \in Proc : Deploying(q)' => Deploying(q) /\ task'[q] = task[q]
  BY DEF Deploying
<1>6. \A q \in Proc : What(container'[task[q].container]) = What(container[task[q].container])
  OBVIOUS
<1>7. OneDeployment'
  BY <1>5, <1>6, KeepsOneDeployment
<1> QED BY <1>2, <1>3, <1>4, <1>7 DEF IInv

\* A request that ends.
LEMMA Ending ==
    ASSUME IInv, NEW p \in Proc, Becomes(p, Idle)
    PROVE  /\ task' \in [Proc -> Task]
           /\ task'[p] = Idle
           /\ \A q \in Proc \ {p} : task'[q] = task[q]
           /\ \A q \in Proc : SizedTask(task'[q])
           /\ \A q \in Proc : \/ task'[q] = task[q]
                              \/ task'[q].stage \notin {"calling", "finalize", "fail"}
<1>1. SizedTask(Idle)
  BY IdleTask DEF SizedTask
<1> QED BY <1>1, IdleTask, Becoming DEF IInv

LEMMA Counted == ASSUME IInv, Begun PROVE begun' \in Nat
BY DEF IInv, TypeOK, Begun

LEMMA DisturbsNodes ==
    ASSUME NEW old \in ContainerRow, NEW new \in ContainerRow
    PROVE  Disturbs(old, new) \subseteq Node
BY DEF Disturbs, ContainerRow

-----------------------------------------------------------------------------
(* Every action keeps the invariant.                                       *)

LEMMA InitIInv == Init => IInv
<1> SUFFICES ASSUME Init PROVE IInv
  OBVIOUS
<1> DEFINE start == [status : {"ACTIVE"}, max : Capacities, used : {0}]
<1>1. node \in [Node -> {NoNode("NEW")} \cup start]
  BY DEF Init
<1>2. \A row \in start : /\ row \in NodeRow /\ row.status = "ACTIVE"
                         /\ row.max \in Nat /\ row.max > 0 /\ row.used = 0
  <2> SUFFICES ASSUME NEW row \in start
               PROVE  /\ row \in NodeRow /\ row.status = "ACTIVE"
                      /\ row.max \in Nat /\ row.max > 0 /\ row.used = 0
    OBVIOUS
  <2>1. row.status = "ACTIVE" /\ row.max \in Capacities /\ row.used = 0
    OBVIOUS
  <2>2. row = [status |-> row.status, max |-> row.max, used |-> row.used]
    OBVIOUS
  <2>a. \A m \in Capacities : m \in Nat /\ m > 0
    BY NodeAssumption
  <2>3. row.max \in Nat /\ row.max > 0
    BY <2>1, <2>a
  <2>4. row \in NodeRow
    BY <2>1, <2>2, <2>3 DEF NodeRow, NodeStatus
  <2> QED BY <2>1, <2>3, <2>4
<1>d. \A row \in {NoNode("NEW")} \cup start : row \in NodeRow /\ row.used <= row.max
  BY <1>2, NoRows
<1>e. \A row \in {NoNode("NEW")} \cup start :
          row.status \in NodeStatus => row.max > 0 /\ row.used # row.max /\ row.status # "FULL"
  BY <1>2, NoRows
<1> HIDE DEF start
<1>3. \A c \in Container : container[c] = NoContainer("NEW") /\ ~HasRow(c)
  BY NoRows DEF Init, HasRow
<1>4. \A p \in Proc : task[p] = Idle
  BY DEF Init
<1>a. container \in [Container -> ContainerRow]
  BY NoRows DEF Init
<1>b. node \in [Node -> NodeRow]
  BY <1>1, <1>d
<1>c. task \in [Proc -> Task]
  BY IdleTask DEF Init
<1>5. TypeOK
  BY <1>1, <1>a, <1>b, <1>c, <1>d DEF Init, TypeOK
<1>6. Sized
  BY <1>1, <1>3, <1>4, <1>e, IdleTask DEF Sized, SizedTask, HasNode
<1>7. FullWhenUsedUp
  BY <1>1, <1>e DEF FullWhenUsedUp, HasNode, Matches
<1>8. OneDeployment
  BY <1>4, IdleTask DEF OneDeployment, Deploying
<1> QED BY <1>5, <1>6, <1>7, <1>8 DEF IInv

LEMMA PrepareDeployKeeps ==
    ASSUME IInv, NEW p \in Proc, NEW c \in Container, NEW n \in Node, PrepareDeploy(p, c, n)
    PROVE  IInv'
<1> DEFINE row == container[c]
           t == [stage |-> "calling", container |-> c, node |-> n, ram |-> row.ram]
<1>1. row \in ContainerRow /\ node[n] \in NodeRow /\ HasRow(c) /\ HasNode(n)
  BY DEF IInv, TypeOK, PrepareDeploy, Eligible, HasRow, HasNode, ContainerStatus, NodeStatus
<1>2. row.ram \in Nat /\ row.ram > 0
  BY <1>1, RowShape DEF IInv, Sized
<1>3. t \in Task /\ SizedTask(t)
  BY <1>2 DEF Task, SizedTask
<1>4. /\ task' \in [Proc -> Task]
      /\ task'[p] = t
      /\ \A q \in Proc \ {p} : task'[q] = task[q]
      /\ \A q \in Proc : SizedTask(task'[q])
  BY <1>3, Becoming DEF IInv, PrepareDeploy
<1>5. /\ Reserve(node[n], row.ram) \in NodeRow
      /\ Reserve(node[n], row.ram).used <= Reserve(node[n], row.ram).max
      /\ Reserve(node[n], row.ram).max = node[n].max
      /\ Matches(Reserve(node[n], row.ram))
  BY <1>1, <1>2, ReserveRow DEF PrepareDeploy, Eligible
<1>6. /\ node' \in [Node -> NodeRow] /\ node'[n] = Reserve(node[n], row.ram)
      /\ \A m \in Node \ {n} : node'[m] = node[m]
  BY <1>5 DEF PrepareDeploy, IInv, TypeOK
<1>7. /\ container' \in [Container -> ContainerRow]
      /\ container'[c].status = "DEPLOYING" /\ container'[c].node = n
      /\ container'[c].ram = row.ram
      /\ \A d \in Container \ {c} : container'[d] = container[d]
  <2> DEFINE new == [row EXCEPT !.status = "DEPLOYING", !.node = n]
  <2>1. container' = [container EXCEPT ![c] = new]
    BY DEF PrepareDeploy, IInv, TypeOK
  <2>2. /\ new \in ContainerRow /\ new.status = "DEPLOYING"
        /\ new.node = n /\ new.ram = row.ram
    BY <1>1 DEF ContainerRow, ContainerStatus
  <2> HIDE DEF new
  <2> QED BY <2>1, <2>2 DEF IInv, TypeOK
<1>8. disturbed' = disturbed
  BY DEF PrepareDeploy
<1>9. TypeOK'
  BY <1>4, <1>5, <1>6, <1>7, <1>8, Counted DEF IInv, TypeOK, PrepareDeploy
<1>10. Sized'
  <2>1. \A m \in Node : HasNode(m)' => node'[m].max > 0
    BY <1>1, <1>5, <1>6 DEF IInv, Sized, HasNode
  <2>2. \A d \in Container : HasRow(d)' => container'[d].ram > 0
    BY <1>2, <1>7 DEF IInv, Sized, HasRow
  <2> QED BY <1>4, <2>1, <2>2 DEF Sized
<1>11. FullWhenUsedUp'
  <2>1. \A m \in Node : HasNode(m)' => (HasNode(m) /\ node'[m] = node[m]) \/ Matches(node'[m])
    BY <1>5, <1>6 DEF HasNode
  <2> QED BY <1>8, <2>1, KeepsFull
<1>12. OneDeployment'
  <2>1. ASSUME NEW q \in Proc, Deploying(q), task[q].node \notin disturbed
        PROVE  StillPrepared(q) /\ task[q].container # c
    <3>1. StillPrepared(q)
      BY <2>1 DEF IInv, OneDeployment
    <3> QED BY <3>1 DEF StillPrepared, PrepareDeploy
  <2>2. ASSUME NEW q \in Proc, q # p, Deploying(q)', task'[q].node \notin disturbed'
        PROVE  /\ Deploying(q) /\ task'[q] = task[q] /\ task'[q].container # c
               /\ StillPrepared(q)'
    <3>1. Deploying(q) /\ task'[q] = task[q]
      BY <1>4, <2>2 DEF Deploying
    <3>2. StillPrepared(q) /\ task[q].container # c
      BY <1>8, <2>1, <2>2, <3>1
    <3>3. task[q].container \in Container
      BY <3>1, DeployTask DEF Deploying, IInv, TypeOK
    <3> QED BY <1>7, <3>1, <3>2, <3>3 DEF StillPrepared
  <2>3. StillPrepared(p)' /\ task'[p].container = c
    BY <1>4, <1>7 DEF StillPrepared
  <2>4. ASSUME NEW q \in Proc, q # p, NEW r \in Proc, r # p, Deploying(q)', Deploying(r)',
               task'[q].node \notin disturbed', task'[r].node \notin disturbed',
               task'[r].container = task'[q].container
        PROVE  r = q
    BY <1>8, <2>2, <2>4 DEF IInv, OneDeployment
  <2> QED BY <2>2, <2>3, <2>4 DEF OneDeployment
<1> QED BY <1>9, <1>10, <1>11, <1>12 DEF IInv

LEMMA NodeAnswersKeeps ==
    ASSUME IInv, NEW p \in Proc, NEW outcome \in {"finalize", "fail"}, NodeAnswers(p, outcome)
    PROVE  IInv'
<1> DEFINE t == [task[p] EXCEPT !.stage = outcome]
<1>1. task[p] \in Task /\ task[p].stage = "calling" /\ Deploying(p) /\ SizedTask(task[p])
  BY DEF IInv, TypeOK, Sized, NodeAnswers, Deploying
<1>2. t \in Task
  BY <1>1, DeployTask
<1>3. /\ t.stage = outcome /\ t.container = task[p].container
      /\ t.node = task[p].node /\ t.ram = task[p].ram
  <2>1. task[p] \in [stage : {"calling", "finalize", "fail"},
                     container : Container, node : Node, ram : Nat]
    BY <1>1 DEF Task, Idle
  <2> QED BY <2>1
<1>4. SizedTask(t)
  BY <1>1, <1>3 DEF SizedTask
<1>5. Becomes(p, t) /\ container' = container /\ node' = node /\ disturbed' = disturbed
      /\ begun' \in Nat
  BY DEF NodeAnswers, IInv, TypeOK
<1> HIDE DEF t
<1> QED BY <1>1, <1>2, <1>3, <1>4, <1>5, OnlyTask

-----------------------------------------------------------------------------
(* The end of a deployment.                                                *)

\* No request but p has the container of p to itself, unless its node is
\* disturbed by what p writes.
LEMMA EndKeeps ==
    ASSUME IInv, NEW p \in Proc, Deploying(p), NEW s \in {"RUNNING", "ERROR"},
           NEW row \in ContainerRow,
           row.status = s, row.node = container[task[p].container].node,
           row.ram = container[task[p].container].ram,
           Ends(p, row), Becomes(p, Idle)
    PROVE  /\ container' \in [Container -> ContainerRow]
           /\ \A c \in Container : HasRow(c)' => container'[c].ram > 0
           /\ disturbed \subseteq disturbed' /\ disturbed' \subseteq Node
           /\ OneDeployment'
<1> DEFINE c == task[p].container
<1>1. c \in Container /\ task[p].node \in Node
  BY DeployTask DEF IInv, TypeOK, Deploying
<1>2. container[c] \in ContainerRow
  BY <1>1 DEF IInv, TypeOK
<1>3. Disturbs(container[c], row) \subseteq Node
  BY <1>2, DisturbsNodes
<1>4. disturbed \subseteq disturbed' /\ disturbed' \subseteq Node
  BY <1>3 DEF Ends, IInv, TypeOK
<1>5. container' \in [Container -> ContainerRow]
  BY DEF Ends, IInv, TypeOK
<1>6. \A d \in Container : HasRow(d)' => container'[d].ram > 0
  <2>1. \A d \in Container : HasRow(d) => container[d].ram > 0
    BY DEF IInv, Sized
  <2>2. CASE HasRow(c)
    BY <1>1, <2>1, <2>2 DEF Ends, IInv, TypeOK, HasRow
  <2>3. CASE ~HasRow(c)
    BY <2>1, <2>3 DEF Ends, HasRow
  <2> QED BY <2>2, <2>3
<1>7. \A q \in Proc : Deploying(q)' => q # p /\ Deploying(q) /\ task'[q] = task[q]
  BY Ending, IdleTask DEF Deploying
<1>8. ASSUME NEW q \in Proc, Deploying(q)', task[q].node \notin disturbed'
      PROVE  What(container'[task[q].container]) = What(container[task[q].container])
  <2>1. q # p /\ Deploying(q) /\ task[q].node \notin disturbed
    BY <1>4, <1>7, <1>8
  <2>2. StillPrepared(q) /\ task[q].container \in Container /\ task[q].node \in Node
    BY <2>1, DeployTask DEF IInv, TypeOK, OneDeployment, Deploying
  <2>3. CASE ~HasRow(c) \/ task[q].container # c
    BY <1>1, <2>2, <2>3 DEF Ends, IInv, TypeOK
  <2>4. CASE HasRow(c) /\ task[q].container = c
    <3>1. container[c].status = "DEPLOYING" /\ container[c].node = task[q].node
      BY <2>2, <2>4 DEF StillPrepared
    <3>2. CASE StillPrepared(p)
      <4>1. task[p].node = task[q].node
        BY <3>1, <3>2 DEF StillPrepared
      <4> QED BY <2>1, <2>4, <4>1 DEF IInv, OneDeployment
    <3>3. CASE ~StillPrepared(p)
      <4>1. disturbed' = disturbed \cup Disturbs(container[c], row)
        BY <2>4, <3>3 DEF Ends
      <4>2. container[c].node # None
        BY <2>2, <3>1, NodeAssumption
      <4>3. task[q].node \in Disturbs(container[c], row)
        BY <3>1, <4>2 DEF Disturbs, Reserves
      <4> QED BY <1>8, <4>1, <4>3
    <3> QED BY <3>2, <3>3
  <2> QED BY <2>3, <2>4
<1>9. OneDeployment'
  <2>1. \A q \in Proc : \/ task'[q] = task[q]
                          \/ task'[q].stage \notin {"calling", "finalize", "fail"}
    BY Ending
  <2>2. \A q \in Proc : Deploying(q)' /\ task[q].node \notin disturbed' =>
             What(container'[task[q].container]) = What(container[task[q].container])
    BY <1>8
  <2> QED BY <1>4, <2>1, <2>2, KeepsOneDeployment
<1> QED BY <1>4, <1>5, <1>6, <1>9

LEMMA FinalizeDeployKeeps ==
    ASSUME IInv, NEW p \in Proc, FinalizeDeploy(p)
    PROVE  IInv'
<1> DEFINE old == container[task[p].container]
           row == [old EXCEPT !.status = "RUNNING", !.external = TRUE]
<1>1. Deploying(p) /\ Ends(p, row) /\ Becomes(p, Idle) /\ node' = node /\ begun' = begun
  BY DEF FinalizeDeploy, Deploying
<1>2. old \in ContainerRow
  BY <1>1, DeployTask DEF IInv, TypeOK, Deploying
<1>3. /\ row \in ContainerRow /\ row.status = "RUNNING"
      /\ row.node = old.node /\ row.ram = old.ram
  BY <1>2 DEF ContainerRow, ContainerStatus
<1> HIDE DEF row
<1>4. /\ container' \in [Container -> ContainerRow]
      /\ \A c \in Container : HasRow(c)' => container'[c].ram > 0
      /\ disturbed \subseteq disturbed' /\ disturbed' \subseteq Node
      /\ OneDeployment'
  BY <1>1, <1>3, EndKeeps
<1>5. task' \in [Proc -> Task] /\ \A q \in Proc : SizedTask(task'[q])
  BY <1>1, Ending
<1>6. TypeOK'
  BY <1>1, <1>4, <1>5 DEF IInv, TypeOK
<1>7. Sized'
  BY <1>1, <1>4, <1>5 DEF IInv, Sized, HasNode
<1>8. FullWhenUsedUp'
  BY <1>1, <1>4, KeepsFull DEF HasNode
<1> QED BY <1>4, <1>6, <1>7, <1>8 DEF IInv

LEMMA FailDeployKeeps ==
    ASSUME IInv, NEW p \in Proc, FailDeploy(p)
    PROVE  IInv'
<1> DEFINE n == task[p].node
           old == container[task[p].container]
           row == [old EXCEPT !.status = "ERROR"]
           left == Release(node[n], task[p].ram)
<1>1. Deploying(p) /\ Becomes(p, Idle) /\ begun' = begun
  BY DEF FailDeploy, Deploying
<1>2. /\ old \in ContainerRow /\ n \in Node /\ task[p].ram \in Nat
      /\ node[n] \in NodeRow /\ node[n].used <= node[n].max
  BY <1>1, DeployTask DEF IInv, TypeOK, Deploying
<1>3. CASE HasNode(n)
  <2>1. Ends(p, row) /\ node' = [node EXCEPT ![n] = left]
    BY <1>3 DEF FailDeploy
  <2>2. /\ row \in ContainerRow /\ row.status = "ERROR"
        /\ row.node = old.node /\ row.ram = old.ram
    BY <1>2 DEF ContainerRow, ContainerStatus
  <2> HIDE DEF row
  <2>3. /\ container' \in [Container -> ContainerRow]
        /\ \A c \in Container : HasRow(c)' => container'[c].ram > 0
        /\ disturbed \subseteq disturbed' /\ disturbed' \subseteq Node
        /\ OneDeployment'
    BY <1>1, <2>1, <2>2, EndKeeps
  <2>4. task' \in [Proc -> Task] /\ \A q \in Proc : SizedTask(task'[q])
    BY <1>1, Ending
  <2>5. task[p].ram > 0 /\ node[n].max > 0
    <3>1. SizedTask(task[p])
      BY DEF IInv, Sized
    <3> QED BY <1>1, <1>2, <1>3, <3>1 DEF IInv, Sized, SizedTask, Deploying
  <2>6. /\ left \in NodeRow /\ left.used <= left.max /\ left.max = node[n].max
        /\ Matches(node[n]) => Matches(left)
    BY <1>2, <2>5, ReleaseRow
  <2> HIDE DEF left
  <2>7. node'[n] = left /\ (\A m \in Node \ {n} : node'[m] = node[m])
        /\ node' \in [Node -> NodeRow]
    BY <1>2, <2>1, <2>6 DEF IInv, TypeOK
  <2>8. TypeOK'
    BY <1>1, <2>3, <2>4, <2>6, <2>7 DEF IInv, TypeOK
  <2>9. Sized'
    <3>1. \A m \in Node : HasNode(m)' => node'[m].max > 0
      BY <2>5, <2>6, <2>7 DEF IInv, Sized, HasNode
    <3> QED BY <2>3, <2>4, <3>1 DEF Sized
  <2>10. FullWhenUsedUp'
    <3>1. ASSUME NEW m \in Node, m \notin disturbed', HasNode(m)'
          PROVE  \/ HasNode(m) /\ node'[m] = node[m]
                 \/ HasNode(m) /\ (Matches(node[m]) => Matches(node'[m]))
      BY <1>3, <2>6, <2>7, <3>1 DEF HasNode
    <3> QED BY <2>3, <3>1, KeepsFull
  <2> QED BY <2>3, <2>8, <2>9, <2>10 DEF IInv
<1>4. CASE ~HasNode(n)
  <2>1. container' = container /\ node' = node /\ disturbed' = disturbed
    BY <1>4 DEF FailDeploy
  <2>2. SizedTask(Idle)
    BY IdleTask DEF SizedTask
  <2>3. begun' \in Nat
    BY <1>1 DEF IInv, TypeOK
  <2> QED BY <1>1, <2>1, <2>2, <2>3, IdleTask, OnlyTask
<1> QED BY <1>3, <1>4

-----------------------------------------------------------------------------
(* The other operations on containers.                                     *)

LEMMA NewContainerRow ==
    ASSUME NEW row \in NewContainers
    PROVE  row \in ContainerRow /\ row.ram > 0
<1>1. PICK s \in ContainerStatus, n \in Node \cup {None}, ram \in Rams :
        row = [status |-> s, node |-> n, ram |-> ram, external |-> s = "RUNNING"]
  BY DEF NewContainers
<1>2. ram \in Nat /\ ram > 0
  BY NodeAssumption
<1>3. (s = "RUNNING") \in BOOLEAN
  OBVIOUS
<1> QED BY <1>1, <1>2, <1>3 DEF ContainerRow

LEMMA CreateContainerKeeps ==
    ASSUME IInv, NEW c \in Container, NEW row \in NewContainers, CreateContainer(c, row)
    PROVE  IInv'
<1>2. row \in ContainerRow /\ row.ram > 0
  BY NewContainerRow
<1>3. container[c] \in ContainerRow /\ container[c].status # "DEPLOYING"
  BY DEF CreateContainer, IInv, TypeOK
<1>4. disturbed \subseteq disturbed' /\ disturbed' \subseteq Node
  BY <1>2, <1>3, DisturbsNodes DEF CreateContainer, IInv, TypeOK
<1>5. container' = [container EXCEPT ![c] = row] /\ node' = node /\ task' = task
  BY DEF CreateContainer
<1>6. task' \in [Proc -> Task] /\ \A q \in Proc : SizedTask(task'[q])
  BY <1>5 DEF IInv, TypeOK, Sized
<1>7. begun' \in Nat
  BY Counted DEF CreateContainer
<1> QED BY <1>2, <1>3, <1>4, <1>5, <1>6, <1>7, OnlyContainer

LEMMA DeleteContainerKeeps ==
    ASSUME IInv, NEW p \in Proc, NEW c \in Container, DeleteContainer(p, c)
    PROVE  IInv'
<1> DEFINE t == [stage |-> "delete", container |-> c, row |-> container[c]]
<1>1. container[c] \in ContainerRow /\ container[c].ram > 0
  BY DEF DeleteContainer, IInv, TypeOK, Sized
<1>2. t \in Task /\ SizedTask(t) /\ t.stage = "delete"
  BY <1>1 DEF Task, SizedTask
<1>3. Becomes(p, t) /\ container' = container /\ node' = node /\ disturbed' = disturbed
      /\ begun' \in Nat
  BY Counted DEF DeleteContainer
<1> HIDE DEF t
<1> QED BY <1>2, <1>3, OnlyTask

LEMMA DeleteRowKeeps ==
    ASSUME IInv, NEW p \in Proc, DeleteRow(p)
    PROVE  IInv'
<1> DEFINE c == task[p].container
           row == task[p].row
           now == container[c]
           t == IF row.status = "RUNNING" /\ row.node # None
                THEN [stage |-> "release", node |-> row.node, ram |-> row.ram]
                ELSE Idle
           gone == NoContainer("GONE")
<1>1. task[p] \in Task /\ task[p].stage = "delete" /\ SizedTask(task[p])
  BY DEF DeleteRow, IInv, TypeOK, Sized
<1>2. c \in Container /\ row \in ContainerRow /\ row.ram > 0 /\ now \in ContainerRow
  BY <1>1, RowTask DEF SizedTask, IInv, TypeOK
<1>3. row.ram \in Nat /\ row.node \in Node \cup {None} /\ now.node \in Node \cup {None}
  BY <1>2, RowShape
<1>4. /\ t \in Task /\ SizedTask(t) /\ t.stage \notin {"calling", "finalize", "fail"}
  <2>1. CASE t = Idle
    BY <2>1, IdleTask DEF SizedTask
  <2>2. CASE t = [stage |-> "release", node |-> row.node, ram |-> row.ram] /\ row.node # None
    BY <1>2, <1>3, <2>2 DEF Task, SizedTask
  <2> QED BY <2>1, <2>2
<1>5. Becomes(p, t) /\ node' = node /\ begun' = begun /\ begun' \in Nat
  BY DEF DeleteRow, IInv, TypeOK
<1> HIDE DEF t
<1>6. disturbed' = disturbed \cup Disturbs(now, row)
                     \cup IF now.status = "DEPLOYING" THEN {now.node} \ {None} ELSE {}
  BY DEF DeleteRow
<1>7. disturbed \subseteq disturbed' /\ disturbed' \subseteq Node
  BY <1>2, <1>3, <1>6, DisturbsNodes DEF IInv, TypeOK
<1>8. /\ task' \in [Proc -> Task] /\ task'[p] = t
      /\ \A q \in Proc \ {p} : task'[q] = task[q]
      /\ \A q \in Proc : SizedTask(task'[q])
  BY <1>4, <1>5, Becoming DEF IInv
<1>9. \A q \in Proc : \/ task'[q] = task[q]
                        \/ task'[q].stage \notin {"calling", "finalize", "fail"}
  BY <1>4, <1>8
<1>10. gone \in ContainerRow /\ gone.status \notin ContainerStatus /\ gone.node = None
  BY NoRows DEF NoContainer
<1> HIDE DEF gone
<1>11. CASE HasRow(c)
  <2>1. container' = [container EXCEPT ![c] = gone]
    BY <1>11 DEF DeleteRow, gone
  <2>2. now.status = "DEPLOYING" => Disturbs(now, gone) \subseteq disturbed'
    BY <1>6, <1>10 DEF Disturbs
  <2> QED BY <1>2, <1>5, <1>7, <1>8, <1>9, <1>10, <2>1, <2>2, OnlyContainer
<1>12. CASE ~HasRow(c)
  <2>1. container' = container
    BY <1>12 DEF DeleteRow
  <2>2. container' = [container EXCEPT ![c] = now]
    BY <2>1 DEF IInv, TypeOK
  <2>3. now.status \notin ContainerStatus
    BY <1>12 DEF HasRow
  <2>4. now.status # "DEPLOYING"
    BY <2>3 DEF ContainerStatus
  <2> QED BY <1>2, <1>5, <1>7, <1>8, <1>9, <2>2, <2>3, <2>4, OnlyContainer
<1> QED BY <1>11, <1>12

LEMMA ReleaseNodeResourceKeeps ==
    ASSUME IInv, NEW p \in Proc, ReleaseNodeResource(p)
    PROVE  IInv'
<1> DEFINE n == task[p].node
           ram == task[p].ram
           left == Release(node[n], ram)
<1>1. task[p] \in Task /\ task[p].stage = "release" /\ SizedTask(task[p])
  BY DEF ReleaseNodeResource, IInv, TypeOK, Sized
<1>2. n \in Node /\ ram \in Nat /\ ram > 0
  BY <1>1, ReleaseTask DEF SizedTask
<1>3. node[n] \in NodeRow /\ node[n].used <= node[n].max
  BY <1>2 DEF IInv, TypeOK
<1>4. /\ Becomes(p, Idle) /\ container' = container /\ disturbed' = disturbed
      /\ disturbed' \subseteq Node /\ begun' = begun /\ begun' \in Nat
  BY DEF ReleaseNodeResource, IInv, TypeOK
<1>5. CASE HasNode(n)
  <2>1. node' = [node EXCEPT ![n] = left]
    BY <1>5 DEF ReleaseNodeResource
  <2>2. node[n].max > 0
    BY <1>2, <1>5 DEF IInv, Sized
  <2>3. /\ left \in NodeRow /\ left.used <= left.max /\ left.max > 0
        /\ Matches(node[n]) => Matches(left)
    BY <1>2, <1>3, <2>2, ReleaseRow
  <2> HIDE DEF left
  <2> QED BY <1>2, <1>4, <1>5, <2>1, <2>3, Ending, OnlyNode
<1>6. CASE ~HasNode(n)
  <2>1. node' = node /\ SizedTask(Idle)
    BY <1>6, IdleTask DEF ReleaseNodeResource, SizedTask
  <2> QED BY <1>4, <2>1, IdleTask, OnlyTask
<1> QED BY <1>5, <1>6

LEMMA ReconcileContainerKeeps ==
    ASSUME IInv, NEW p \in Proc, NEW c \in Container, ReconcileContainer(p, c)
    PROVE  IInv'
<1> DEFINE t == [stage |-> "asking", container |-> c, row |-> container[c]]
<1>1. container[c] \in ContainerRow /\ container[c].ram > 0
  BY DEF ReconcileContainer, IInv, TypeOK, Sized
<1>2. t \in Task /\ SizedTask(t) /\ t.stage = "asking"
  BY <1>1 DEF Task, SizedTask
<1>3. Becomes(p, t) /\ container' = container /\ node' = node /\ disturbed' = disturbed
      /\ begun' \in Nat
  BY Counted DEF ReconcileContainer
<1> HIDE DEF t
<1> QED BY <1>2, <1>3, OnlyTask

LEMMA NodeReportsKeeps ==
    ASSUME IInv, NEW p \in Proc, NEW s \in ContainerStatus \cup {"nothing"}, NodeReports(p, s)
    PROVE  IInv'
<1>1. /\ task[p] \in Task /\ task[p].stage = "asking" /\ SizedTask(task[p])
      /\ container' = container /\ node' = node /\ disturbed' = disturbed /\ begun' \in Nat
  BY DEF NodeReports, IInv, TypeOK, Sized
<1>2. CASE s \in ContainerStatus \ {task[p].row.status}
  <2> DEFINE t == [task[p] EXCEPT !.stage = "save", !.row.status = s]
  <2>1. task[p] \in [stage : {"asking", "save", "delete"},
                     container : Container, row : ContainerRow]
    BY <1>1 DEF Task, Idle
  <2>2. /\ [task[p].row EXCEPT !.status = s] \in ContainerRow
        /\ [task[p].row EXCEPT !.status = s].ram = task[p].row.ram
    BY <1>2, <2>1 DEF ContainerRow
  <2>3. t \in Task /\ t.stage = "save" /\ t.row = [task[p].row EXCEPT !.status = s]
    BY <2>1, <2>2 DEF Task
  <2>4. SizedTask(t)
    BY <1>1, <2>2, <2>3 DEF SizedTask
  <2>5. Becomes(p, t)
    BY <1>2 DEF NodeReports
  <2> HIDE DEF t
  <2> QED BY <1>1, <2>3, <2>4, <2>5, OnlyTask
<1>3. CASE s \notin ContainerStatus \ {task[p].row.status}
  <2>1. Becomes(p, Idle) /\ SizedTask(Idle)
    BY <1>3, IdleTask DEF NodeReports, SizedTask
  <2> QED BY <1>1, <2>1, IdleTask, OnlyTask
<1> QED BY <1>2, <1>3

LEMMA UpdateContainerKeeps ==
    ASSUME IInv, NEW p \in Proc, NEW c \in Container, NEW row \in Edits(container[c]),
           UpdateContainer(p, c, row)
    PROVE  IInv'
<1> DEFINE t == [stage |-> "save", container |-> c, row |-> row]
<1>1. container[c] \in ContainerRow /\ container[c].ram > 0
  BY DEF UpdateContainer, IInv, TypeOK, Sized
<1>2. row \in ContainerRow /\ row.ram > 0
  BY <1>1, EditRow
<1>3. t \in Task /\ SizedTask(t) /\ t.stage = "save"
  BY <1>2 DEF Task, SizedTask
<1>4. Becomes(p, t) /\ container' = container /\ node' = node /\ disturbed' = disturbed
      /\ begun' \in Nat
  BY Counted DEF UpdateContainer
<1> HIDE DEF t
<1> QED BY <1>3, <1>4, OnlyTask

LEMMA SaveContainerKeeps ==
    ASSUME IInv, NEW p \in Proc, SaveContainer(p)
    PROVE  IInv'
<1> DEFINE c == task[p].container
           row == task[p].row
           saved == container[c].status # "NOOWNER" /\ (row.node # None => HasNode(row.node))
<1>1. task[p] \in Task /\ task[p].stage = "save" /\ SizedTask(task[p])
  BY DEF SaveContainer, IInv, TypeOK, Sized
<1>2. c \in Container /\ row \in ContainerRow /\ row.ram > 0 /\ container[c] \in ContainerRow
  BY <1>1, RowTask DEF SizedTask, IInv, TypeOK
<1>3. Becomes(p, Idle) /\ node' = node /\ begun' = begun /\ begun' \in Nat
  BY DEF SaveContainer, IInv, TypeOK
<1>4. CASE saved
  <2>1. /\ container' = [container EXCEPT ![c] = row]
        /\ disturbed' = disturbed \cup Disturbs(container[c], row)
    BY <1>4 DEF SaveContainer
  <2>2. disturbed' \subseteq Node
    BY <1>2, <2>1, DisturbsNodes DEF IInv, TypeOK
  <2>3. /\ task' \in [Proc -> Task] /\ \A q \in Proc : SizedTask(task'[q])
        /\ \A q \in Proc : \/ task'[q] = task[q]
                           \/ task'[q].stage \notin {"calling", "finalize", "fail"}
    BY <1>3, Ending
  <2> QED BY <1>2, <1>3, <2>1, <2>2, <2>3, OnlyContainer
<1>5. CASE ~saved
  <2>1. container' = container /\ disturbed' = disturbed /\ SizedTask(Idle)
    BY <1>5, IdleTask DEF SaveContainer, SizedTask
  <2> QED BY <1>3, <2>1, IdleTask, OnlyTask
<1> QED BY <1>4, <1>5

LEMMA DeleteCustomerKeeps ==
    ASSUME IInv, NEW c \in Container, DeleteCustomer(c)
    PROVE  IInv'
<1> DEFINE gone == NoContainer("NOOWNER")
<1>1. gone \in ContainerRow /\ gone.status \notin ContainerStatus
  BY NoRows
<1> HIDE DEF gone
<1>2. container[c] \in ContainerRow
  BY DEF IInv, TypeOK
<1>3. /\ container' = [container EXCEPT ![c] = gone] /\ node' = node /\ task' = task
      /\ disturbed' = disturbed \cup Disturbs(container[c], gone)
  BY DEF DeleteCustomer, gone
<1>4. disturbed' \subseteq Node
  BY <1>1, <1>2, <1>3, DisturbsNodes DEF IInv, TypeOK
<1>5. task' \in [Proc -> Task] /\ \A q \in Proc : SizedTask(task'[q])
  BY <1>3 DEF IInv, TypeOK, Sized
<1>6. begun' \in Nat
  BY Counted DEF DeleteCustomer
<1> QED BY <1>1, <1>3, <1>4, <1>5, <1>6, OnlyContainer

-----------------------------------------------------------------------------
(* Nodes.                                                                  *)

LEMMA NewNodeRow ==
    ASSUME NEW row \in NewNodes
    PROVE  row \in NodeRow /\ row.max > 0 /\ row.status \in NodeStatus
<1>1. PICK m \in Capacities : row \in NodeEdits([status |-> "ACTIVE", max |-> m, used |-> 0])
  BY DEF NewNodes
<1> DEFINE new == [status |-> "ACTIVE", max |-> m, used |-> 0]
<1>2. m \in Nat /\ m > 0
  BY NodeAssumption
<1>3. new \in NodeRow /\ new.status \in NodeStatus /\ new.max > 0
  BY <1>2 DEF NodeRow, NodeStatus
<1>4. row \in NodeEdits(new)
  BY <1>1
<1> HIDE DEF new
<1> QED BY <1>3, <1>4, NodeEditRow

LEMMA CreateNodeKeeps ==
    ASSUME IInv, NEW n \in Node, NEW row \in NewNodes, CreateNode(n, row)
    PROVE  IInv'
<1>4. row \in NodeRow /\ row.max > 0 /\ row.used <= row.max
  BY NewNodeRow DEF CreateNode
<1>5. /\ node' = [node EXCEPT ![n] = row] /\ container' = container /\ task' = task
      /\ disturbed' = IF row.used = 0 /\ Matches(row) THEN disturbed ELSE disturbed \cup {n}
  BY DEF CreateNode
<1>6. /\ disturbed \subseteq disturbed' /\ disturbed' \subseteq Node
      /\ n \notin disturbed' => Matches(row)
  BY <1>5 DEF IInv, TypeOK
<1>7. task' \in [Proc -> Task] /\ \A q \in Proc : SizedTask(task'[q])
  BY <1>5 DEF IInv, TypeOK, Sized
<1>8. begun' \in Nat
  BY Counted DEF CreateNode
<1> QED BY <1>4, <1>5, <1>6, <1>7, <1>8, OnlyNode

LEMMA UpdateNodeKeeps ==
    ASSUME IInv, NEW p \in Proc, NEW n \in Node, NEW row \in NodeEdits(node[n]),
           UpdateNode(p, n, row)
    PROVE  IInv'
<1> DEFINE t == [stage |-> "saveNode", node |-> n, row |-> row]
<1>1. node[n] \in NodeRow /\ node[n].max > 0 /\ node[n].status \in NodeStatus
  BY DEF UpdateNode, IInv, TypeOK, Sized, HasNode
<1>2. row \in NodeRow /\ row.max > 0 /\ row.status \in NodeStatus
  BY <1>1, NodeEditRow
<1>3. t \in Task /\ SizedTask(t) /\ t.stage = "saveNode"
  BY <1>2 DEF Task, SizedTask
<1>4. Becomes(p, t) /\ container' = container /\ node' = node /\ disturbed' = disturbed
      /\ begun' \in Nat
  BY Counted DEF UpdateNode
<1> HIDE DEF t
<1> QED BY <1>3, <1>4, OnlyTask

LEMMA SaveNodeKeeps ==
    ASSUME IInv, NEW p \in Proc, SaveNode(p)
    PROVE  IInv'
<1> DEFINE n == task[p].node
           row == task[p].row
<1>1. task[p] \in Task /\ task[p].stage = "saveNode" /\ SizedTask(task[p])
  BY DEF SaveNode, IInv, TypeOK, Sized
<1>2. n \in Node /\ row \in NodeRow /\ row.max > 0
  BY <1>1, NodeTask DEF SizedTask
<1>3. Becomes(p, Idle) /\ container' = container /\ begun' = begun /\ begun' \in Nat
  BY DEF SaveNode, IInv, TypeOK
<1>4. CASE row.used <= row.max
  <2>1. /\ node' = [node EXCEPT ![n] = row]
        /\ disturbed' = IF HasNode(n) /\ node[n].used = row.used /\ Matches(row)
                        THEN disturbed ELSE disturbed \cup {n}
    BY <1>4 DEF SaveNode
  <2>2. /\ disturbed \subseteq disturbed' /\ disturbed' \subseteq Node
        /\ n \notin disturbed' => Matches(row)
    BY <1>2, <2>1 DEF IInv, TypeOK
  <2>3. /\ task' \in [Proc -> Task] /\ \A q \in Proc : SizedTask(task'[q])
        /\ \A q \in Proc : \/ task'[q] = task[q]
                           \/ task'[q].stage \notin {"calling", "finalize", "fail"}
    BY <1>3, Ending
  <2> QED BY <1>2, <1>3, <1>4, <2>1, <2>2, <2>3, OnlyNode
<1>5. CASE ~(row.used <= row.max)
  <2>1. node' = node /\ disturbed' = disturbed /\ SizedTask(Idle)
    BY <1>5, IdleTask DEF SaveNode, SizedTask
  <2> QED BY <1>3, <2>1, IdleTask, OnlyTask
<1> QED BY <1>4, <1>5

LEMMA DeleteNodeKeeps ==
    ASSUME IInv, NEW n \in Node, DeleteNode(n)
    PROVE  IInv'
<1> DEFINE gone == NoNode("GONE")
<1>1. gone \in NodeRow /\ gone.used <= gone.max /\ gone.status \notin NodeStatus
  BY NoRows
<1> HIDE DEF gone
<1>2. /\ node' = [node EXCEPT ![n] = gone] /\ container' = container /\ task' = task
      /\ disturbed' = disturbed
  BY DEF DeleteNode, gone
<1>3. task' \in [Proc -> Task] /\ (\A q \in Proc : SizedTask(task'[q])) /\ disturbed' \subseteq Node
  BY <1>2 DEF IInv, TypeOK, Sized
<1>4. begun' \in Nat
  BY Counted DEF DeleteNode
<1> QED BY <1>1, <1>2, <1>3, <1>4, OnlyNode

LEMMA CrashKeeps ==
    ASSUME IInv, NEW p \in Proc, Crash(p)
    PROVE  IInv'
<1>1. task[p] \in Task
  BY DEF IInv, TypeOK
<1>2. disturbed \subseteq disturbed' /\ disturbed' \subseteq Node
  BY <1>1, ReleaseTask DEF Crash, IInv, TypeOK
<1>3. /\ Becomes(p, Idle) /\ container' = container /\ node' = node
      /\ begun' = begun /\ begun' \in Nat
  BY DEF Crash, IInv, TypeOK
<1>4. /\ task' \in [Proc -> Task] /\ \A q \in Proc : SizedTask(task'[q])
      /\ \A q \in Proc : \/ task'[q] = task[q]
                         \/ task'[q].stage \notin {"calling", "finalize", "fail"}
  BY <1>3, Ending
<1>5. TypeOK'
  BY <1>2, <1>3, <1>4 DEF IInv, TypeOK
<1>6. Sized'
  BY <1>3, <1>4 DEF IInv, Sized, HasNode, HasRow
<1>7. FullWhenUsedUp'
  BY <1>2, <1>3, KeepsFull DEF HasNode
<1>8. \A q \in Proc : What(container'[task[q].container]) = What(container[task[q].container])
  BY <1>3
<1>9. OneDeployment'
  BY <1>2, <1>4, <1>8, KeepsOneDeployment
<1> QED BY <1>5, <1>6, <1>7, <1>9 DEF IInv

LEMMA StutterKeeps == ASSUME IInv, UNCHANGED vars PROVE IInv'
<1>1. TypeOK'
  BY DEF IInv, TypeOK, vars
<1>2. Sized'
  BY DEF IInv, Sized, HasNode, HasRow, vars
<1>3. FullWhenUsedUp'
  BY KeepsFull DEF vars, HasNode
<1>4. \A q \in Proc : task'[q] = task[q]
  BY DEF vars
<1>5. \A q \in Proc : What(container'[task[q].container]) = What(container[task[q].container])
  BY DEF vars
<1>6. disturbed' = disturbed
  BY DEF vars
<1>7. OneDeployment'
  BY <1>4, <1>5, <1>6, KeepsOneDeployment
<1> QED BY <1>1, <1>2, <1>3, <1>7 DEF IInv

LEMMA NextKeeps == ASSUME IInv, [Next]_vars PROVE IInv'
<1>1. ASSUME NEW p \in Proc, BeginRequest(p)
      PROVE  IInv'
  BY <1>1, PrepareDeployKeeps, DeleteContainerKeeps, ReconcileContainerKeeps,
     UpdateContainerKeeps, UpdateNodeKeeps DEF BeginRequest
<1>2. ASSUME NEW p \in Proc, Progress(p)
      PROVE  IInv'
  BY <1>2, NodeAnswersKeeps, FinalizeDeployKeeps, FailDeployKeeps, DeleteRowKeeps,
     ReleaseNodeResourceKeeps, NodeReportsKeeps, SaveContainerKeeps, SaveNodeKeeps
     DEF Progress
<1>5. ASSUME AtOnce
      PROVE  IInv'
  BY <1>5, CreateContainerKeeps, CreateNodeKeeps, DeleteCustomerKeeps, DeleteNodeKeeps
     DEF AtOnce
<1> QED BY <1>1, <1>2, <1>5, CrashKeeps, StutterKeeps DEF Next

-----------------------------------------------------------------------------
(* Sums over finite sets.  The recursion behind SumFunctionOnSet is        *)
(* unfolded, and facts about every subset of a finite set are proved from  *)
(* the well-founded order of its subsets.                                  *)

Pick(s) == CHOOSE x \in s : TRUE

Recurs(w, S, g) ==
    g = [s \in SUBSET S |-> IF s = {} THEN 0 ELSE w[Pick(s)] + g[s \ {Pick(s)}]]

\* SumFunctionOnSet is the value of any function g that Recurs.
LEMMA SumChooses ==
    ASSUME NEW w, NEW S
    PROVE  SumFunctionOnSet(w, S) = (CHOOSE g : Recurs(w, S, g))[S]
BY DEF SumFunctionOnSet, FoldFunctionOnSet, MapThenFoldSet, Recurs, Pick

LEMMA Picked == ASSUME NEW s, s # {} PROVE Pick(s) \in s
BY DEF Pick

\* What holds of a subset when it holds of all smaller ones holds of every subset.
LEMMA SubsetInduction ==
    ASSUME NEW D, IsFiniteSet(D), NEW Z,
           \A T \in SUBSET D : (\A U \in SUBSET T : U # T => U \in Z) => T \in Z
    PROVE  \A T \in SUBSET D : T \in Z
<1> SUFFICES ASSUME NEW B \in SUBSET D, B \notin Z PROVE FALSE
  OBVIOUS
<1> DEFINE Bad == {T \in SUBSET D : T \notin Z}
           R == StrictSubsetOrdering(D)
<1>1. FiniteSubsetsOf(D) = SUBSET D
  BY FS_FiniteSubsetsOfFinite
<1>2. IsWellFoundedOn(R, FiniteSubsetsOf(D))
  BY FS_StrictSubsetOrderingWellFounded, Zenon
<1>3. Bad # {} /\ Bad \subseteq FiniteSubsetsOf(D)
  BY <1>1
<1>4. \E T \in Bad : \A U \in Bad : ~(<<U, T>> \in R)
  <2> HIDE DEF R, Bad
  <2> QED BY <1>2, <1>3, WFMin
<1>6. PICK T \in Bad : \A U \in Bad : <<U, T>> \notin R
  BY <1>4
<1>5. ASSUME NEW U \in SUBSET T, U # T PROVE U \in Z
  <2>1. <<U, T>> \in R
    BY <1>5 DEF R, StrictSubsetOrdering
  <2> QED BY <1>6, <2>1
<1> QED BY <1>6, <1>5

\* Two functions that Recurs agree where both are defined.
LEMMA RecursOnce ==
    ASSUME NEW D, IsFiniteSet(D), NEW w, NEW S \in SUBSET D, NEW T \in SUBSET D,
           NEW g, NEW h, Recurs(w, S, g), Recurs(w, T, h)
    PROVE  \A U \in SUBSET (S \cap T) : g[U] = h[U]
<1> DEFINE Z == {U \in SUBSET D : U \subseteq S \cap T => g[U] = h[U]}
<1>1. ASSUME NEW U \in SUBSET D, \A V \in SUBSET U : V # U => V \in Z
      PROVE  U \in Z
  <2> SUFFICES ASSUME U \subseteq S \cap T PROVE g[U] = h[U]
    OBVIOUS
  <2>1. /\ g[U] = IF U = {} THEN 0 ELSE w[Pick(U)] + g[U \ {Pick(U)}]
        /\ h[U] = IF U = {} THEN 0 ELSE w[Pick(U)] + h[U \ {Pick(U)}]
    BY DEF Recurs
  <2>2. CASE U = {}
    BY <2>1, <2>2
  <2>3. CASE U # {}
    <3>1. Pick(U) \in U
      BY <2>3, Picked
    <3>2. U \ {Pick(U)} \in Z
      BY <1>1, <3>1
    <3> QED BY <2>1, <2>3, <3>2
  <2> QED BY <2>2, <2>3
<1> HIDE DEF Z
<1>2. \A U \in SUBSET D : U \in Z
  BY <1>1, SubsetInduction
<1> QED BY <1>2 DEF Z

LEMMA SumUnfoldsOn ==
    ASSUME NEW D, IsFiniteSet(D), NEW w, NEW U \in SUBSET D,
           \A V \in SUBSET U : \E g : Recurs(w, V, g)
    PROVE  SumFunctionOnSet(w, U) =
               IF U = {} THEN 0
               ELSE w[Pick(U)] + SumFunctionOnSet(w, U \ {Pick(U)})
<1> DEFINE H(s) == CHOOSE g : Recurs(w, s, g)
           V == U \ {Pick(U)}
<1>1. Recurs(w, U, H(U)) /\ Recurs(w, V, H(V))
  OBVIOUS
<1> HIDE DEF H
<1>2. H(U)[V] = H(V)[V]
  BY <1>1, RecursOnce
<1>3. H(U)[U] = IF U = {} THEN 0 ELSE w[Pick(U)] + H(U)[V]
  BY <1>1 DEF Recurs
<1>4. SumFunctionOnSet(w, U) = H(U)[U] /\ SumFunctionOnSet(w, V) = H(V)[V]
  BY SumChooses DEF H
<1> QED BY <1>2, <1>3, <1>4

LEMMA RecursExists ==
    ASSUME NEW D, IsFiniteSet(D), NEW w
    PROVE  \A T \in SUBSET D : \E g : Recurs(w, T, g)
<1> DEFINE Z == {T \in SUBSET D : \E g : Recurs(w, T, g)}
<1>1. ASSUME NEW T \in SUBSET D, \A U \in SUBSET T : U # T => U \in Z
      PROVE  T \in Z
  <2> DEFINE F(s) == SumFunctionOnSet(w, s)
             G == [s \in SUBSET T |-> IF s = {} THEN 0
                                      ELSE w[Pick(s)] + F(s \ {Pick(s)})]
  <2> HIDE DEF F
  <2>1. ASSUME NEW s \in SUBSET T, s # {}
        PROVE  G[s \ {Pick(s)}] = F(s \ {Pick(s)})
    <3> DEFINE U == s \ {Pick(s)}
    <3>1. Pick(s) \in s
      BY <2>1, Picked
    <3>2. U \in SUBSET T /\ U # T
      BY <3>1
    <3> HIDE DEF U
    <3>3. \A V \in SUBSET U : \E g : Recurs(w, V, g)
      BY <1>1, <3>2
    <3>4. F(U) = IF U = {} THEN 0 ELSE w[Pick(U)] + F(U \ {Pick(U)})
      BY <3>2, <3>3, SumUnfoldsOn DEF F
    <3> QED BY <3>2, <3>4 DEF U
  <2>2. G = [s \in SUBSET T |-> IF s = {} THEN 0 ELSE w[Pick(s)] + G[s \ {Pick(s)}]]
    BY <2>1
  <2> QED BY <2>2 DEF Recurs
<1> HIDE DEF Z
<1>2. \A T \in SUBSET D : T \in Z
  BY <1>1, SubsetInduction
<1> QED BY <1>2 DEF Z

\* A sum is one of its terms and the sum of the others.
LEMMA SumUnfolds ==
    ASSUME NEW D, IsFiniteSet(D), NEW w, NEW U \in SUBSET D
    PROVE  SumFunctionOnSet(w, U) =
               IF U = {} THEN 0
               ELSE w[Pick(U)] + SumFunctionOnSet(w, U \ {Pick(U)})
BY SumUnfoldsOn, RecursExists

LEMMA SumType ==
    ASSUME NEW D, IsFiniteSet(D), NEW w \in [D -> Nat]
    PROVE  \A U \in SUBSET D : SumFunctionOnSet(w, U) \in Nat
<1> DEFINE F(s) == SumFunctionOnSet(w, s)
           Z == {U \in SUBSET D : F(U) \in Nat}
<1>1. \A U \in SUBSET D : F(U) = IF U = {} THEN 0 ELSE w[Pick(U)] + F(U \ {Pick(U)})
  BY SumUnfolds
<1> HIDE DEF F
<1>2. ASSUME NEW T \in SUBSET D, \A U \in SUBSET T : U # T => U \in Z
      PROVE  T \in Z
  <2>1. CASE T = {}
    <3>1. F(T) = 0
      BY <1>1, <2>1
    <3> QED BY <3>1
  <2>2. CASE T # {}
    <3>1. Pick(T) \in T
      BY <2>2, Picked
    <3>2. F(T \ {Pick(T)}) \in Nat /\ w[Pick(T)] \in Nat
      BY <1>2, <3>1
    <3> QED BY <1>1, <2>2, <3>2
  <2> QED BY <2>1, <2>2
<1> HIDE DEF Z
<1>3. \A U \in SUBSET D : U \in Z
  BY <1>2, SubsetInduction
<1> QED BY <1>3 DEF Z, F

\* Whichever term is taken first.
LEMMA SumTakesOut ==
    ASSUME NEW D, IsFiniteSet(D), NEW w \in [D -> Nat]
    PROVE  \A U \in SUBSET D : \A x \in U :
               SumFunctionOnSet(w, U) = w[x] + SumFunctionOnSet(w, U \ {x})
<1> DEFINE F(s) == SumFunctionOnSet(w, s)
           Z == {U \in SUBSET D : \A x \in U : F(U) = w[x] + F(U \ {x})}
<1>1. \A U \in SUBSET D : F(U) = IF U = {} THEN 0 ELSE w[Pick(U)] + F(U \ {Pick(U)})
  BY SumUnfolds
<1>2. \A U \in SUBSET D : F(U) \in Nat
  BY SumType
<1> HIDE DEF F
<1>3. ASSUME NEW T \in SUBSET D, \A U \in SUBSET T : U # T => U \in Z
      PROVE  T \in Z
  <2> SUFFICES ASSUME NEW x \in T PROVE F(T) = w[x] + F(T \ {x})
    OBVIOUS
  <2> DEFINE y == Pick(T)
  <2>1. y \in T
    BY Picked
  <2> HIDE DEF y
  <2>2. F(T) = w[y] + F(T \ {y})
    BY <1>1 DEF y
  <2>3. CASE x = y
    BY <2>2, <2>3
  <2>4. CASE x # y
    <3>1. T \ {y} \in Z /\ T \ {x} \in Z
      BY <1>3, <2>1
    <3>2. F(T \ {y}) = w[x] + F((T \ {y}) \ {x})
      BY <2>4, <3>1
    <3>3. F(T \ {x}) = w[y] + F((T \ {x}) \ {y})
      BY <2>1, <2>4, <3>1
    <3>4. (T \ {y}) \ {x} = (T \ {x}) \ {y}
      OBVIOUS
    <3>5. F((T \ {x}) \ {y}) \in Nat /\ w[x] \in Nat /\ w[y] \in Nat
      BY <1>2, <2>1
    <3> QED BY <2>2, <3>2, <3>3, <3>4, <3>5
  <2> QED BY <2>3, <2>4
<1> HIDE DEF Z
<1>4. \A U \in SUBSET D : U \in Z
  BY <1>3, SubsetInduction
<1> QED BY <1>4 DEF Z, F

LEMMA SumAgrees ==
    ASSUME NEW D, IsFiniteSet(D), NEW v, NEW w
    PROVE  \A U \in SUBSET D : (\A x \in U : v[x] = w[x]) =>
               SumFunctionOnSet(v, U) = SumFunctionOnSet(w, U)
<1> DEFINE F(s) == SumFunctionOnSet(v, s)
           G(s) == SumFunctionOnSet(w, s)
           Z == {U \in SUBSET D : (\A x \in U : v[x] = w[x]) => F(U) = G(U)}
<1>1. \A U \in SUBSET D : F(U) = IF U = {} THEN 0 ELSE v[Pick(U)] + F(U \ {Pick(U)})
  BY SumUnfolds
<1>2. \A U \in SUBSET D : G(U) = IF U = {} THEN 0 ELSE w[Pick(U)] + G(U \ {Pick(U)})
  BY SumUnfolds
<1> HIDE DEF F, G
<1>3. ASSUME NEW T \in SUBSET D, \A U \in SUBSET T : U # T => U \in Z
      PROVE  T \in Z
  <2> SUFFICES ASSUME \A x \in T : v[x] = w[x] PROVE F(T) = G(T)
    OBVIOUS
  <2>1. CASE T = {}
    BY <1>1, <1>2, <2>1
  <2>2. CASE T # {}
    <3>1. Pick(T) \in T
      BY <2>2, Picked
    <3>2. F(T \ {Pick(T)}) = G(T \ {Pick(T)})
      BY <1>3, <3>1
    <3> QED BY <1>1, <1>2, <2>2, <3>1, <3>2
  <2> QED BY <2>1, <2>2
<1> HIDE DEF Z
<1>4. \A U \in SUBSET D : U \in Z
  BY <1>3, SubsetInduction
<1> QED BY <1>4 DEF Z, F, G

\* When one term changes, the sum changes by as much.
LEMMA SumChanges ==
    ASSUME NEW D, IsFiniteSet(D), NEW v \in [D -> Nat], NEW w \in [D -> Nat], NEW x \in D,
           \A y \in D \ {x} : w[y] = v[y]
    PROVE  /\ SumFunction(v) \in Nat /\ v[x] <= SumFunction(v)
           /\ SumFunction(w) = SumFunction(v) - v[x] + w[x]
<1> DEFINE F == SumFunctionOnSet(v, D)
           G == SumFunctionOnSet(w, D)
           R == SumFunctionOnSet(v, D \ {x})
           Q == SumFunctionOnSet(w, D \ {x})
<1>1. F = v[x] + R /\ G = w[x] + Q
  BY SumTakesOut
<1>2. Q = R
  BY SumAgrees
<1>3. F \in Nat /\ R \in Nat /\ v[x] \in Nat /\ w[x] \in Nat
  BY SumType
<1>4. SumFunction(v) = F /\ SumFunction(w) = G
  BY DEF SumFunction
<1> HIDE DEF F, G, R, Q
<1> QED BY <1>1, <1>2, <1>3, <1>4

LEMMA SumOfNothing ==
    ASSUME NEW D, IsFiniteSet(D), NEW w, \A x \in D : w[x] = 0
    PROVE  \A U \in SUBSET D : SumFunctionOnSet(w, U) = 0
<1> DEFINE F(s) == SumFunctionOnSet(w, s)
           Z == {U \in SUBSET D : F(U) = 0}
<1>1. \A U \in SUBSET D : F(U) = IF U = {} THEN 0 ELSE w[Pick(U)] + F(U \ {Pick(U)})
  BY SumUnfolds
<1> HIDE DEF F
<1>2. ASSUME NEW T \in SUBSET D, \A U \in SUBSET T : U # T => U \in Z
      PROVE  T \in Z
  <2>1. CASE T = {}
    BY <1>1, <2>1
  <2>2. CASE T # {}
    <3>1. Pick(T) \in T
      BY <2>2, Picked
    <3>2. F(T \ {Pick(T)}) = 0 /\ w[Pick(T)] = 0
      BY <1>2, <3>1
    <3> QED BY <1>1, <2>2, <3>2
  <2> QED BY <2>1, <2>2
<1> HIDE DEF Z
<1>3. \A U \in SUBSET D : U \in Z
  BY <1>2, SubsetInduction
<1> QED BY <1>3 DEF Z, F
-----------------------------------------------------------------------------
(* The accounts of the nodes.                                              *)

\* What request t still has to do names node n as the node of a deleted container.
Names(t, n) == \/ t.stage = "delete" /\ t.row.node = n
               \/ t.stage = "release" /\ t.node = n

\* A node that was never there owes nothing, and no deletion under way names it.
Fresh ==
    \A n \in Node : node[n].status = "NEW" =>
        /\ \A c \in Container : container[c].node # n
        /\ \A p \in Proc : ~Names(task[p], n)

Accounts == Fresh /\ ReservationsExact

AllHeld(n) == SumFunction([c \in Container |-> Held(container[c], n)])
AllDue(n) == SumFunction([p \in Proc |-> Due(task[p], n)])

LEMMA HeldType ==
    ASSUME NEW row \in ContainerRow, NEW n
    PROVE  Held(row, n) \in Nat
BY RowShape DEF Held

LEMMA DueType ==
    ASSUME NEW t \in Task, NEW n
    PROVE  Due(t, n) \in Nat
BY ReleaseTask DEF Due

LEMMA HeldStays ==
    ASSUME NEW old \in ContainerRow, NEW new \in ContainerRow, NEW n \in Node,
           n \notin Disturbs(old, new)
    PROVE  Held(new, n) = Held(old, n)
<1>1. n # None
  BY NodeAssumption
<1>2. CASE ~Reserves(old) /\ ~Reserves(new)
  BY <1>2 DEF Held
<1>3. CASE <<old.status, old.node, old.ram>> = <<new.status, new.node, new.ram>>
  BY <1>3 DEF Held, Reserves
<1>4. CASE old.node # n /\ new.node # n
  BY <1>4 DEF Held
<1> QED BY <1>1, <1>2, <1>3, <1>4 DEF Disturbs

LEMMA HeldChanges ==
    ASSUME container \in [Container -> ContainerRow], container' \in [Container -> ContainerRow],
           NEW c \in Container, \A d \in Container \ {c} : container'[d] = container[d],
           NEW n \in Node
    PROVE  /\ AllHeld(n) \in Nat /\ Held(container[c], n) <= AllHeld(n)
           /\ AllHeld(n)' = AllHeld(n) - Held(container[c], n) + Held(container'[c], n)
<1> DEFINE v == [d \in Container |-> Held(container[d], n)]
           w == [d \in Container |-> Held(container'[d], n)]
<1>1. v \in [Container -> Nat] /\ w \in [Container -> Nat]
  BY HeldType
<1>2. IsFiniteSet(Container)
  BY NodeAssumption
<1>3. \A d \in Container \ {c} : w[d] = v[d]
  OBVIOUS
<1>4. v[c] = Held(container[c], n) /\ w[c] = Held(container'[c], n)
  OBVIOUS
<1>5. AllHeld(n) = SumFunction(v) /\ AllHeld(n)' = SumFunction(w)
  BY DEF AllHeld, Held, Reserves
<1> HIDE DEF v, w
<1> QED BY <1>1, <1>2, <1>3, <1>4, <1>5, SumChanges

LEMMA DueChanges ==
    ASSUME task \in [Proc -> Task], task' \in [Proc -> Task],
           NEW p \in Proc, \A q \in Proc \ {p} : task'[q] = task[q],
           NEW n \in Node
    PROVE  /\ AllDue(n) \in Nat /\ Due(task[p], n) <= AllDue(n)
           /\ AllDue(n)' = AllDue(n) - Due(task[p], n) + Due(task'[p], n)
<1> DEFINE v == [q \in Proc |-> Due(task[q], n)]
           w == [q \in Proc |-> Due(task'[q], n)]
<1>1. v \in [Proc -> Nat] /\ w \in [Proc -> Nat]
  BY DueType
<1>2. IsFiniteSet(Proc)
  BY NodeAssumption
<1>3. \A q \in Proc \ {p} : w[q] = v[q]
  OBVIOUS
<1>4. v[p] = Due(task[p], n) /\ w[p] = Due(task'[p], n)
  OBVIOUS
<1>5. AllDue(n) = SumFunction(v) /\ AllDue(n)' = SumFunction(w)
  BY DEF AllDue, Due
<1> HIDE DEF v, w
<1> QED BY <1>1, <1>2, <1>3, <1>4, <1>5, SumChanges

LEMMA SumTypes ==
    ASSUME TypeOK, NEW n \in Node
    PROVE  AllHeld(n) \in Nat /\ AllDue(n) \in Nat
<1> DEFINE v == [d \in Container |-> Held(container[d], n)]
           w == [q \in Proc |-> Due(task[q], n)]
<1>1. v \in [Container -> Nat] /\ w \in [Proc -> Nat]
  BY HeldType, DueType DEF TypeOK
<1>2. IsFiniteSet(Container) /\ IsFiniteSet(Proc)
  BY NodeAssumption
<1>3. /\ AllHeld(n) = SumFunctionOnSet(v, Container)
      /\ AllDue(n) = SumFunctionOnSet(w, Proc)
  BY DEF AllHeld, AllDue, SumFunction
<1> HIDE DEF v, w
<1> QED BY <1>1, <1>2, <1>3, SumType

LEMMA SumsOfNothing ==
    ASSUME NEW n \in Node, \A c \in Container : Held(container[c], n) = 0,
           \A p \in Proc : Due(task[p], n) = 0
    PROVE  AllHeld(n) = 0 /\ AllDue(n) = 0
<1> DEFINE v == [d \in Container |-> Held(container[d], n)]
           w == [q \in Proc |-> Due(task[q], n)]
<1>1. (\A c \in Container : v[c] = 0) /\ (\A p \in Proc : w[p] = 0)
  OBVIOUS
<1>2. IsFiniteSet(Container) /\ IsFiniteSet(Proc)
  BY NodeAssumption
<1>3. /\ AllHeld(n) = SumFunctionOnSet(v, Container)
      /\ AllDue(n) = SumFunctionOnSet(w, Proc)
  BY DEF AllHeld, AllDue, SumFunction
<1> HIDE DEF v, w
<1> QED BY <1>1, <1>2, <1>3, SumOfNothing

\* A step keeps the accounts when it makes no node new again, gives rows and
\* deletions only names of nodes that are there, and changes what a node has
\* given out as it changes what the node owes.
LEMMA KeepsAccounts ==
    ASSUME IInv, Accounts, disturbed \subseteq disturbed',
           \A n \in Node : node'[n].status = "NEW" => node[n].status = "NEW",
           \A c \in Container, n \in Node :
               container'[c].node = n => container[c].node = n \/ HasNode(n),
           \A p \in Proc, n \in Node :
               Names(task'[p], n) =>
                   \/ Names(task[p], n)
                   \/ \E c \in Container : container[c].node = n,
           \A n \in Node :
               /\ n \notin disturbed' /\ HasNode(n)'
               /\ HasNode(n) => node[n].used = AllHeld(n) + AllDue(n)
               => node'[n].used = AllHeld(n)' + AllDue(n)'
    PROVE  Accounts'
<1>1. ASSUME NEW n \in Node, node'[n].status = "NEW"
      PROVE  /\ \A c \in Container : container'[c].node # n
             /\ \A p \in Proc : ~Names(task'[p], n)
  <2>1. node[n].status = "NEW" /\ ~HasNode(n)
    BY <1>1 DEF HasNode, NodeStatus
  <2>2. /\ \A c \in Container : container[c].node # n
        /\ \A p \in Proc : ~Names(task[p], n)
    BY <2>1 DEF Accounts, Fresh
  <2> QED BY <2>1, <2>2
<1>2. Fresh'
  BY <1>1 DEF Fresh, Names
<1>3. ASSUME NEW n \in Node, n \notin disturbed', HasNode(n)'
      PROVE  node'[n].used = AllHeld(n)' + AllDue(n)'
  <2>1. HasNode(n) => node[n].used = AllHeld(n) + AllDue(n)
    BY <1>3 DEF Accounts, ReservationsExact, Owed, AllHeld, AllDue
  <2> QED BY <1>3, <2>1
<1>4. ReservationsExact'
  BY <1>3 DEF ReservationsExact, Owed, AllHeld, AllDue
<1> QED BY <1>2, <1>4 DEF Accounts

\* A request goes on to another task that gives back what the old one would.
LEMMA TaskMovesOn ==
    ASSUME IInv, Accounts, NEW p \in Proc, NEW t \in Task, Becomes(p, t),
           container' = container, node' = node, disturbed \subseteq disturbed',
           \A n \in Node : n \notin disturbed' => Due(t, n) = Due(task[p], n),
           \A n \in Node : Names(t, n) => \/ Names(task[p], n)
                                          \/ \E c \in Container : container[c].node = n
    PROVE  Accounts'
<1>1. /\ task \in [Proc -> Task] /\ task' \in [Proc -> Task]
      /\ task'[p] = t /\ \A q \in Proc \ {p} : task'[q] = task[q]
  BY DEF IInv, TypeOK, Becomes
<1>2. ASSUME NEW n \in Node, n \notin disturbed', HasNode(n)',
             HasNode(n) => node[n].used = AllHeld(n) + AllDue(n)
      PROVE  node'[n].used = AllHeld(n)' + AllDue(n)'
  <2>1. HasNode(n) /\ node'[n].used = node[n].used
    BY <1>2 DEF HasNode
  <2>2. AllHeld(n)' = AllHeld(n)
    BY DEF AllHeld
  <2>3. AllDue(n) \in Nat /\ AllDue(n)' = AllDue(n) - Due(task[p], n) + Due(task'[p], n)
    BY <1>1, DueChanges
  <2>4. Due(task'[p], n) = Due(task[p], n) /\ Due(task[p], n) \in Nat
    BY <1>1, <1>2, DueType
  <2> QED BY <1>2, <2>1, <2>2, <2>3, <2>4
<1>3. \A q \in Proc, n \in Node :
          Names(task'[q], n) => \/ Names(task[q], n)
                                \/ \E c \in Container : container[c].node = n
  BY <1>1
<1>4. \A c \in Container, n \in Node :
          container'[c].node = n => container[c].node = n \/ HasNode(n)
  OBVIOUS
<1> QED BY <1>2, <1>3, <1>4, KeepsAccounts

\* A container is overwritten, and the nodes that feel it are disturbed.
LEMMA ContainerMovesOn ==
    ASSUME IInv, Accounts, NEW c \in Container, NEW row \in ContainerRow,
           container' = [container EXCEPT ![c] = row], node' = node,
           \A n \in Node : n \notin disturbed' => Held(row, n) = Held(container[c], n),
           disturbed \subseteq disturbed',
           task' \in [Proc -> Task],
           \A n \in Node : AllDue(n)' = AllDue(n),
           \A p \in Proc, n \in Node : Names(task'[p], n) => Names(task[p], n),
           row.node = container[c].node \/ row.node = None \/ HasNode(row.node)
    PROVE  Accounts'
<1>1. /\ container \in [Container -> ContainerRow] /\ container' \in [Container -> ContainerRow]
      /\ container'[c] = row /\ \A d \in Container \ {c} : container'[d] = container[d]
  BY DEF IInv, TypeOK
<1>2. ASSUME NEW n \in Node, n \notin disturbed', HasNode(n)',
             HasNode(n) => node[n].used = AllHeld(n) + AllDue(n)
      PROVE  node'[n].used = AllHeld(n)' + AllDue(n)'
  <2>1. HasNode(n) /\ node'[n].used = node[n].used
    BY <1>2 DEF HasNode
  <2>2. AllHeld(n) \in Nat
        /\ AllHeld(n)' = AllHeld(n) - Held(container[c], n) + Held(container'[c], n)
    BY <1>1, HeldChanges
  <2>3. Held(container'[c], n) = Held(container[c], n) /\ Held(container[c], n) \in Nat
    BY <1>1, <1>2, HeldType
  <2> QED BY <1>2, <2>1, <2>2, <2>3
<1>3. \A n \in Node : n # None
  BY NodeAssumption
<1>4. \A d \in Container, n \in Node :
          container'[d].node = n => container[d].node = n \/ HasNode(n)
  BY <1>1, <1>3
<1>5. \A n \in Node : node'[n].status = "NEW" => node[n].status = "NEW"
  OBVIOUS
<1> QED BY <1>2, <1>4, <1>5, KeepsAccounts

LEMMA IdleOwesNothing ==
    /\ \A n : Due(Idle, n) = 0 /\ ~Names(Idle, n)
    /\ \A t, n : t.stage # "release" => Due(t, n) = 0
    /\ \A t, n : t.stage \notin {"delete", "release"} => ~Names(t, n)
BY IdleTask DEF Due, Names

\* The actions that only move one request on.
LEMMA QuietAccounts ==
    ASSUME IInv, Accounts, NEW p \in Proc, NEW t \in Task, Becomes(p, t),
           task[p].stage # "release", t.stage # "release",
           container' = container, node' = node, disturbed' = disturbed,
           t.stage = "delete" => \E c \in Container : t.row = container[c]
    PROVE  Accounts'
<1>1. \A n \in Node : Due(t, n) = Due(task[p], n)
  BY IdleOwesNothing
<1>2. \A n \in Node : Names(t, n) => \E c \in Container : container[c].node = n
  BY DEF Names
<1> QED BY <1>1, <1>2, TaskMovesOn

LEMMA BeginAccounts ==
    ASSUME IInv, Accounts, NEW p \in Proc,
           \/ \E c \in Container : \/ DeleteContainer(p, c)
                                   \/ ReconcileContainer(p, c)
                                   \/ \E row \in Edits(container[c]) : UpdateContainer(p, c, row)
           \/ \E n \in Node : \E row \in NodeEdits(node[n]) : UpdateNode(p, n, row)
    PROVE  Accounts'
<1>0. task[p] = Idle => task[p].stage # "release"
  BY IdleTask
<1>t. container \in [Container -> ContainerRow] /\ node \in [Node -> NodeRow]
  BY DEF IInv, TypeOK
<1>1. ASSUME NEW c \in Container, DeleteContainer(p, c)
      PROVE  Accounts'
  <2> DEFINE t == [stage |-> "delete", container |-> c, row |-> container[c]]
  <2>1. t \in Task
    BY <1>t DEF Task
  <2>2. t.stage = "delete" /\ t.row = container[c]
    OBVIOUS
  <2>3. Becomes(p, t) /\ container' = container /\ node' = node /\ disturbed' = disturbed
    BY <1>1 DEF DeleteContainer
  <2>4. task[p].stage # "release"
    BY <1>0, <1>1 DEF DeleteContainer
  <2> HIDE DEF t
  <2> QED BY <2>1, <2>2, <2>3, <2>4, QuietAccounts
<1>2. ASSUME NEW c \in Container, ReconcileContainer(p, c)
      PROVE  Accounts'
  <2> DEFINE t == [stage |-> "asking", container |-> c, row |-> container[c]]
  <2>1. t \in Task
    BY <1>t DEF Task
  <2>2. t.stage = "asking"
    OBVIOUS
  <2>3. Becomes(p, t) /\ container' = container /\ node' = node /\ disturbed' = disturbed
    BY <1>2 DEF ReconcileContainer
  <2>4. task[p].stage # "release"
    BY <1>0, <1>2 DEF ReconcileContainer
  <2> HIDE DEF t
  <2> QED BY <2>1, <2>2, <2>3, <2>4, QuietAccounts
<1>3. ASSUME NEW c \in Container, NEW row \in Edits(container[c]), UpdateContainer(p, c, row)
      PROVE  Accounts'
  <2> DEFINE t == [stage |-> "save", container |-> c, row |-> row]
  <2>0. container[c] \in ContainerRow /\ container[c].ram > 0
    BY <1>3, <1>t DEF UpdateContainer, IInv, Sized
  <2>1. t \in Task
    BY <2>0, EditRow DEF Task
  <2>2. t.stage = "save"
    OBVIOUS
  <2>3. Becomes(p, t) /\ container' = container /\ node' = node /\ disturbed' = disturbed
    BY <1>3 DEF UpdateContainer
  <2>4. task[p].stage # "release"
    BY <1>0, <1>3 DEF UpdateContainer
  <2> HIDE DEF t
  <2> QED BY <2>1, <2>2, <2>3, <2>4, QuietAccounts
<1>4. ASSUME NEW n \in Node, NEW row \in NodeEdits(node[n]), UpdateNode(p, n, row)
      PROVE  Accounts'
  <2> DEFINE t == [stage |-> "saveNode", node |-> n, row |-> row]
  <2>0. node[n] \in NodeRow /\ node[n].status \in NodeStatus /\ node[n].max > 0
    BY <1>4, <1>t DEF UpdateNode, IInv, Sized, HasNode
  <2>1. t \in Task
    BY <2>0, NodeEditRow DEF Task
  <2>2. t.stage = "saveNode"
    OBVIOUS
  <2>3. Becomes(p, t) /\ container' = container /\ node' = node /\ disturbed' = disturbed
    BY <1>4 DEF UpdateNode
  <2>4. task[p].stage # "release"
    BY <1>0, <1>4 DEF UpdateNode
  <2> HIDE DEF t
  <2> QED BY <2>1, <2>2, <2>3, <2>4, QuietAccounts
<1> QED BY <1>1, <1>2, <1>3, <1>4

LEMMA NodeAnswersAccounts ==
    ASSUME IInv, Accounts, NEW p \in Proc, NEW outcome \in {"finalize", "fail"},
           NodeAnswers(p, outcome)
    PROVE  Accounts'
<1> DEFINE t == [task[p] EXCEPT !.stage = outcome]
<1>0. task[p] \in Task /\ task[p].stage = "calling"
  BY DEF IInv, TypeOK, NodeAnswers
<1>1. t \in Task
  BY <1>0, DeployTask
<1>2. t.stage = outcome
  BY <1>0, DeployTask DEF Task, Idle
<1>3. Becomes(p, t) /\ container' = container /\ node' = node /\ disturbed' = disturbed
  BY DEF NodeAnswers
<1> HIDE DEF t
<1> QED BY <1>0, <1>1, <1>2, <1>3, QuietAccounts

LEMMA NodeReportsAccounts ==
    ASSUME IInv, Accounts, NEW p \in Proc, NEW s \in ContainerStatus \cup {"nothing"},
           NodeReports(p, s)
    PROVE  Accounts'
<1> DEFINE t == [task[p] EXCEPT !.stage = "save", !.row.status = s]
<1>0. task[p] \in Task /\ task[p].stage = "asking"
  BY DEF IInv, TypeOK, NodeReports
<1>1. container' = container /\ node' = node /\ disturbed' = disturbed
  BY DEF NodeReports
<1>2. CASE s \in ContainerStatus \ {task[p].row.status}
  <2>1. t \in [stage : {"asking", "save", "delete"}, container : Container, row : ContainerRow]
        /\ t.stage = "save"
    <3>1. task[p] \in [stage : {"asking", "save", "delete"}, container : Container,
                       row : ContainerRow]
      BY <1>0 DEF Task, Idle
    <3>2. [task[p].row EXCEPT !.status = s] \in ContainerRow
      BY <1>2, <3>1 DEF ContainerRow
    <3> QED BY <3>1, <3>2
  <2>2. t \in Task /\ Becomes(p, t)
    BY <1>2, <2>1 DEF Task, NodeReports
  <2> HIDE DEF t
  <2> QED BY <1>0, <1>1, <2>1, <2>2, QuietAccounts
<1>3. CASE s \notin ContainerStatus \ {task[p].row.status}
  <2>1. Becomes(p, Idle)
    BY <1>3 DEF NodeReports
  <2> QED BY <1>0, <1>1, <2>1, IdleTask, QuietAccounts
<1> QED BY <1>2, <1>3

\* A crash keeps the RAM of a container that was deleted: its node is disturbed.
LEMMA CrashAccounts ==
    ASSUME IInv, Accounts, NEW p \in Proc, Crash(p)
    PROVE  Accounts'
<1>1. \A n \in Node : n \notin disturbed' => Due(Idle, n) = Due(task[p], n)
  BY IdleOwesNothing DEF Crash, Due
<1>2. /\ Becomes(p, Idle) /\ container' = container /\ node' = node
      /\ disturbed \subseteq disturbed'
  BY DEF Crash
<1> QED BY <1>1, <1>2, IdleTask, IdleOwesNothing, TaskMovesOn

\* A request that ends gives up what it owed.
LEMMA EndingOwes ==
    ASSUME IInv, NEW p \in Proc, Becomes(p, Idle)
    PROVE  /\ task' \in [Proc -> Task]
           /\ \A n \in Node : /\ AllDue(n) \in Nat /\ Due(task[p], n) <= AllDue(n)
                              /\ AllDue(n)' = AllDue(n) - Due(task[p], n)
           /\ \A q \in Proc, n \in Node : Names(task'[q], n) => Names(task[q], n)
<1>1. /\ task \in [Proc -> Task] /\ task' \in [Proc -> Task]
      /\ task'[p] = Idle /\ \A q \in Proc \ {p} : task'[q] = task[q]
  BY IdleTask DEF IInv, TypeOK, Becomes
<1>2. ASSUME NEW n \in Node
      PROVE  /\ AllDue(n) \in Nat /\ Due(task[p], n) <= AllDue(n)
             /\ AllDue(n)' = AllDue(n) - Due(task[p], n)
  <2>1. /\ AllDue(n) \in Nat /\ Due(task[p], n) <= AllDue(n)
        /\ AllDue(n)' = AllDue(n) - Due(task[p], n) + Due(task'[p], n)
    BY <1>1, DueChanges
  <2>2. Due(task'[p], n) = 0 /\ Due(task[p], n) \in Nat
    BY <1>1, IdleOwesNothing, DueType
  <2> QED BY <2>1, <2>2
<1>3. \A q \in Proc, n \in Node : Names(task'[q], n) => Names(task[q], n)
  BY <1>1, IdleOwesNothing
<1> QED BY <1>1, <1>2, <1>3

\* The same of a request that owed nothing.
LEMMA EndingQuietly ==
    ASSUME IInv, NEW p \in Proc, Becomes(p, Idle), task[p].stage # "release"
    PROVE  /\ task' \in [Proc -> Task]
           /\ \A n \in Node : AllDue(n)' = AllDue(n)
           /\ \A q \in Proc, n \in Node : Names(task'[q], n) => Names(task[q], n)
<1>1. \A n \in Node : Due(task[p], n) = 0
  BY IdleOwesNothing
<1> QED BY <1>1, EndingOwes

\* How a deployment ends for its container, as long as the request has it to itself.
LEMMA EndsAccounts ==
    ASSUME IInv, NEW p \in Proc, Deploying(p), NEW row \in ContainerRow, Ends(p, row),
           row.node = container[task[p].container].node,
           row.ram = container[task[p].container].ram
    PROVE  LET c == task[p].container IN
           /\ c \in Container /\ disturbed \subseteq disturbed'
           /\ container' = [container EXCEPT ![c] = container'[c]]
           /\ container'[c] \in ContainerRow
           /\ container'[c].node = container[c].node
           /\ \A n \in Node :
                 /\ n \notin disturbed' /\ ~StillPrepared(p)
                 => Held(container'[c], n) = Held(container[c], n)
           /\ StillPrepared(p) => container'[c] = row /\ disturbed' = disturbed
<1> DEFINE c == task[p].container
<1>1. task[p] \in Task /\ container \in [Container -> ContainerRow]
  BY DEF IInv, TypeOK
<1>2. c \in Container
  BY <1>1, DeployTask DEF Deploying
<1>3. container[c] \in ContainerRow
  BY <1>1, <1>2
<1>4. StillPrepared(p) => HasRow(c)
  BY DEF StillPrepared, HasRow, ContainerStatus
<1>5. CASE HasRow(c)
  <2>1. container' = [container EXCEPT ![c] = row]
    BY <1>5 DEF Ends
  <2>2. disturbed' = IF StillPrepared(p) THEN disturbed
                     ELSE disturbed \cup Disturbs(container[c], row)
    BY <1>5 DEF Ends
  <2>3. container'[c] = row
    BY <1>1, <1>2, <2>1
  <2>4. ASSUME NEW n \in Node, n \notin disturbed', ~StillPrepared(p)
        PROVE  Held(container'[c], n) = Held(container[c], n)
    BY <1>3, <2>2, <2>3, <2>4, HeldStays
  <2> HIDE DEF c
  <2> QED BY <1>2, <2>1, <2>2, <2>3, <2>4 DEF c
<1>6. CASE ~HasRow(c)
  <2>1. container' = container /\ disturbed' = disturbed /\ ~StillPrepared(p)
    BY <1>4, <1>6 DEF Ends
  <2>2. container = [container EXCEPT ![c] = container[c]]
    BY <1>1, <1>2
  <2>3. \A n \in Node : Held(container'[c], n) = Held(container[c], n)
    BY <2>1
  <2> HIDE DEF c
  <2> QED BY <1>2, <1>3, <2>1, <2>2, <2>3 DEF c
<1> QED BY <1>5, <1>6

LEMMA FinalizeDeployAccounts ==
    ASSUME IInv, Accounts, NEW p \in Proc, FinalizeDeploy(p)
    PROVE  Accounts'
<1> DEFINE c == task[p].container
           row == [container[c] EXCEPT !.status = "RUNNING", !.external = TRUE]
<1>1. /\ task[p].stage = "finalize" /\ Ends(p, row) /\ Becomes(p, Idle) /\ node' = node
  BY DEF FinalizeDeploy
<1>2. task[p] \in Task /\ container \in [Container -> ContainerRow]
  BY DEF IInv, TypeOK
<1>3. c \in Container
  BY <1>1, <1>2, DeployTask
<1>4. container[c] \in ContainerRow
  BY <1>2, <1>3
<1>5. /\ row \in ContainerRow /\ row.node = container[c].node /\ row.ram = container[c].ram
      /\ row.status = "RUNNING"
  BY <1>4 DEF ContainerRow, ContainerStatus
<1> HIDE DEF c, row
<1>6. Deploying(p)
  BY <1>1 DEF Deploying
<1>7. /\ c \in Container /\ disturbed \subseteq disturbed'
      /\ container' = [container EXCEPT ![c] = container'[c]]
      /\ container'[c] \in ContainerRow
      /\ container'[c].node = container[c].node
      /\ \A n \in Node : n \notin disturbed' /\ ~StillPrepared(p)
                            => Held(container'[c], n) = Held(container[c], n)
      /\ StillPrepared(p) => container'[c] = row /\ disturbed' = disturbed
  BY <1>1, <1>5, <1>6, EndsAccounts DEF c
<1>8. ASSUME NEW n \in Node, StillPrepared(p)
      PROVE  Held(container'[c], n) = Held(container[c], n)
  <2>1. container[c].status = "DEPLOYING"
    BY <1>8 DEF StillPrepared, c
  <2> QED BY <1>5, <1>7, <1>8, <2>1 DEF Held, Reserves
<1>9. /\ task' \in [Proc -> Task]
      /\ \A n \in Node : AllDue(n)' = AllDue(n)
      /\ \A q \in Proc, n \in Node : Names(task'[q], n) => Names(task[q], n)
  BY <1>1, EndingQuietly
<1>10. \A n \in Node : n \notin disturbed' => Held(container'[c], n) = Held(container[c], n)
  BY <1>7, <1>8
<1> QED BY <1>1, <1>7, <1>9, <1>10, ContainerMovesOn

LEMMA SaveContainerAccounts ==
    ASSUME IInv, Accounts, NEW p \in Proc, SaveContainer(p)
    PROVE  Accounts'
<1> DEFINE c == task[p].container
           row == task[p].row
<1>1. task[p].stage = "save" /\ Becomes(p, Idle) /\ node' = node
  BY DEF SaveContainer
<1>2. task[p] \in Task /\ container \in [Container -> ContainerRow]
  BY DEF IInv, TypeOK
<1>3. c \in Container /\ row \in ContainerRow
  BY <1>1, <1>2, RowTask
<1>4. CASE container[c].status # "NOOWNER" /\ (row.node # None => HasNode(row.node))
  <2>1. /\ container' = [container EXCEPT ![c] = row]
        /\ disturbed' = disturbed \cup Disturbs(container[c], row)
    BY <1>4 DEF SaveContainer
  <2>2. ASSUME NEW n \in Node, n \notin disturbed'
        PROVE  Held(row, n) = Held(container[c], n)
    BY <1>2, <1>3, <2>1, <2>2, HeldStays
  <2>3. /\ task' \in [Proc -> Task]
        /\ \A n \in Node : AllDue(n)' = AllDue(n)
        /\ \A q \in Proc, n \in Node : Names(task'[q], n) => Names(task[q], n)
    BY <1>1, EndingQuietly
  <2>4. disturbed \subseteq disturbed'
    BY <2>1
  <2> HIDE DEF c, row
  <2> QED BY <1>1, <1>3, <1>4, <2>1, <2>2, <2>3, <2>4, ContainerMovesOn
<1>5. CASE ~(container[c].status # "NOOWNER" /\ (row.node # None => HasNode(row.node)))
  <2>1. container' = container /\ disturbed' = disturbed
    BY <1>5 DEF SaveContainer
  <2> QED BY <1>1, <2>1, IdleTask, QuietAccounts
<1> QED BY <1>4, <1>5

LEMMA CreateContainerAccounts ==
    ASSUME IInv, Accounts, NEW c \in Container, NEW row \in NewContainers,
           CreateContainer(c, row)
    PROVE  Accounts'
<1>1. /\ container' = [container EXCEPT ![c] = row] /\ node' = node /\ task' = task
      /\ disturbed' = disturbed \cup Disturbs(container[c], row)
      /\ row.node = None \/ HasNode(row.node)
  BY DEF CreateContainer
<1>2. row \in ContainerRow /\ container[c] \in ContainerRow
  BY NewContainerRow DEF IInv, TypeOK
<1>3. \A n \in Node : n \notin disturbed' => Held(row, n) = Held(container[c], n)
  BY <1>1, <1>2, HeldStays
<1>4. task' \in [Proc -> Task]
  BY <1>1 DEF IInv, TypeOK
<1>5. \A n \in Node : AllDue(n)' = AllDue(n)
  BY <1>1 DEF AllDue
<1> QED BY <1>1, <1>2, <1>3, <1>4, <1>5, ContainerMovesOn

LEMMA DeleteCustomerAccounts ==
    ASSUME IInv, Accounts, NEW c \in Container, DeleteCustomer(c)
    PROVE  Accounts'
<1> DEFINE row == NoContainer("NOOWNER")
<1>1. /\ container' = [container EXCEPT ![c] = row] /\ node' = node /\ task' = task
      /\ disturbed' = disturbed \cup Disturbs(container[c], row)
  BY DEF DeleteCustomer
<1>2. row \in ContainerRow /\ row.node = None /\ container[c] \in ContainerRow
  BY NoRows DEF IInv, TypeOK, NoContainer
<1> HIDE DEF row
<1>3. \A n \in Node : n \notin disturbed' => Held(row, n) = Held(container[c], n)
  BY <1>1, <1>2, HeldStays
<1>4. task' \in [Proc -> Task]
  BY <1>1 DEF IInv, TypeOK
<1>5. \A n \in Node : AllDue(n)' = AllDue(n)
  BY <1>1 DEF AllDue
<1> QED BY <1>1, <1>2, <1>3, <1>4, <1>5, ContainerMovesOn

LEMMA PrepareDeployAccounts ==
    ASSUME IInv, Accounts, NEW p \in Proc, NEW c \in Container, NEW n \in Node,
           PrepareDeploy(p, c, n)
    PROVE  Accounts'
<1> DEFINE row == container[c]
           new == container'[c]
           t == [stage |-> "calling", container |-> c, node |-> n, ram |-> row.ram]
<1>1. /\ container \in [Container -> ContainerRow] /\ node \in [Node -> NodeRow]
      /\ task \in [Proc -> Task]
  BY DEF IInv, TypeOK
<1>2. row \in ContainerRow /\ row.ram \in Nat /\ n # None
  BY <1>1, RowShape, NodeAssumption
<1>3. /\ task[p] = Idle /\ row.status \in {"PENDING", "ERROR"} /\ Eligible(n, row.ram)
      /\ container' = [container EXCEPT ![c].status = "DEPLOYING", ![c].node = n]
      /\ node' = [node EXCEPT ![n] = Reserve(@, row.ram)]
      /\ Becomes(p, t) /\ disturbed' = disturbed
  BY DEF PrepareDeploy
<1>4. /\ new \in ContainerRow /\ new.status = "DEPLOYING" /\ new.node = n /\ new.ram = row.ram
      /\ container' \in [Container -> ContainerRow]
      /\ \A d \in Container \ {c} : container'[d] = container[d]
  BY <1>1, <1>2, <1>3 DEF ContainerRow, ContainerStatus
<1>5. \A m \in Node : /\ Held(row, m) = 0
                      /\ Held(new, m) = IF m = n THEN row.ram ELSE 0
  BY <1>2, <1>3, <1>4 DEF Held, Reserves
<1>6. /\ node[n] \in NodeRow /\ node[n].status = "ACTIVE" /\ node[n].used \in Nat
      /\ node[n].max - node[n].used >= row.ram
  BY <1>1, <1>3, NodeShape DEF Eligible
<1>7. /\ node'[n].used = node[n].used + row.ram
      /\ node'[n].status \in {"ACTIVE", "FULL"}
      /\ \A m \in Node \ {n} : node'[m] = node[m]
  BY <1>1, <1>3, <1>6 DEF Reserve, NodeRow
<1>8. t \in Task /\ t.stage = "calling"
  BY <1>2 DEF Task
<1> HIDE DEF row, new, t
<1>9. /\ task' \in [Proc -> Task] /\ task'[p] = t
      /\ \A q \in Proc \ {p} : task'[q] = task[q]
  BY <1>1, <1>3, <1>8 DEF Becomes
<1>10. ASSUME NEW m \in Node
       PROVE  /\ AllHeld(m) \in Nat
              /\ AllHeld(m)' = AllHeld(m) + IF m = n THEN row.ram ELSE 0
  BY <1>1, <1>2, <1>4, <1>5, HeldChanges DEF row, new
<1>11. ASSUME NEW m \in Node
       PROVE  AllDue(m)' = AllDue(m) /\ AllDue(m) \in Nat
  <2>1. Due(task[p], m) = 0 /\ Due(task'[p], m) = 0
    BY <1>3, <1>8, <1>9, IdleOwesNothing
  <2> QED BY <1>1, <1>9, <2>1, DueChanges
<1>12. ASSUME NEW m \in Node, HasNode(m) => node[m].used = AllHeld(m) + AllDue(m), HasNode(m)'
       PROVE  node'[m].used = AllHeld(m)' + AllDue(m)'
  <2>1. HasNode(m)
    BY <1>6, <1>7, <1>12 DEF HasNode, NodeStatus
  <2>2. node[m].used = AllHeld(m) + AllDue(m)
    BY <1>12, <2>1
  <2>3. CASE m = n
    BY <1>2, <1>7, <1>10, <1>11, <2>2, <2>3 DEF row
  <2>4. CASE m # n
    BY <1>7, <1>10, <1>11, <2>2, <2>4
  <2> QED BY <2>3, <2>4
<1>13. \A m \in Node : node'[m].status = "NEW" => node[m].status = "NEW"
  BY <1>7
<1>14. \A d \in Container, m \in Node :
           container'[d].node = m => container[d].node = m \/ HasNode(m)
  BY <1>4, <1>6 DEF HasNode, NodeStatus, new
<1>15. \A q \in Proc, m \in Node : Names(task'[q], m) => Names(task[q], m)
  BY <1>8, <1>9, IdleOwesNothing
<1> QED BY <1>3, <1>12, <1>13, <1>14, <1>15, KeepsAccounts

\* What Release does when the node has given out what is given back.
LEMMA ReleaseExact ==
    ASSUME NEW row \in NodeRow, NEW ram \in Nat, ram <= row.used
    PROVE  Release(row, ram).used = row.used - ram
BY NodeShape DEF Release, NodeRow

LEMMA FailDeployAccounts ==
    ASSUME IInv, Accounts, NEW p \in Proc, FailDeploy(p)
    PROVE  Accounts'
<1> DEFINE c == task[p].container
           n == task[p].node
           row == [container[c] EXCEPT !.status = "ERROR"]
<1>1. task[p].stage = "fail" /\ Becomes(p, Idle)
  BY DEF FailDeploy
<1>2. /\ task[p] \in Task /\ container \in [Container -> ContainerRow]
      /\ node \in [Node -> NodeRow]
  BY DEF IInv, TypeOK
<1>3. c \in Container /\ n \in Node /\ task[p].ram \in Nat
  BY <1>1, <1>2, DeployTask
<1>4. CASE ~HasNode(n)
  <2>1. container' = container /\ node' = node /\ disturbed' = disturbed
    BY <1>4 DEF FailDeploy
  <2> QED BY <1>1, <2>1, IdleTask, QuietAccounts
<1>5. CASE HasNode(n)
  <2>1. Ends(p, row) /\ node' = [node EXCEPT ![n] = Release(@, task[p].ram)]
    BY <1>5 DEF FailDeploy
  <2>2. container[c] \in ContainerRow /\ node[n] \in NodeRow
    BY <1>2, <1>3
  <2>3. /\ row \in ContainerRow /\ row.node = container[c].node /\ row.ram = container[c].ram
        /\ row.status = "ERROR"
    BY <2>2 DEF ContainerRow, ContainerStatus
  <2> HIDE DEF c, row, n
  <2>4. Deploying(p)
    BY <1>1 DEF Deploying
  <2>5. /\ disturbed \subseteq disturbed'
        /\ container' = [container EXCEPT ![c] = container'[c]]
        /\ container'[c] \in ContainerRow
        /\ container'[c].node = container[c].node
        /\ \A m \in Node : m \notin disturbed' /\ ~StillPrepared(p)
                              => Held(container'[c], m) = Held(container[c], m)
        /\ StillPrepared(p) => container'[c] = row /\ disturbed' = disturbed
    BY <2>1, <2>3, <2>4, EndsAccounts DEF c
  <2>6. /\ task' \in [Proc -> Task]
        /\ \A m \in Node : AllDue(m)' = AllDue(m)
        /\ \A q \in Proc, m \in Node : Names(task'[q], m) => Names(task[q], m)
    BY <1>1, EndingQuietly
  <2>7. /\ container' \in [Container -> ContainerRow]
        /\ \A d \in Container \ {c} : container'[d] = container[d]
    BY <1>2, <1>3, <2>5
  <2>8. /\ node'[n] = Release(node[n], task[p].ram)
        /\ \A m \in Node \ {n} : node'[m] = node[m]
        /\ node'[n].status \in NodeStatus
    <3>1. node[n].used <= node[n].max
      BY <1>3 DEF IInv, TypeOK
    <3> QED BY <1>2, <1>3, <1>5, <2>1, <2>2, <3>1, ReleaseRow DEF HasNode
  <2>9. ASSUME NEW m \in Node, m \notin disturbed', HasNode(m)',
               HasNode(m) => node[m].used = AllHeld(m) + AllDue(m)
        PROVE  node'[m].used = AllHeld(m)' + AllDue(m)'
    <3>1. /\ AllHeld(m) \in Nat /\ Held(container[c], m) <= AllHeld(m)
          /\ AllHeld(m)' = AllHeld(m) - Held(container[c], m) + Held(container'[c], m)
      BY <1>2, <1>3, <2>7, HeldChanges
    <3>2. AllDue(m)' = AllDue(m) /\ AllDue(m) \in Nat
      BY <2>6, SumTypes DEF IInv
    <3>3. node[m].used = AllHeld(m) + AllDue(m)
      BY <1>5, <2>8, <2>9 DEF HasNode
    <3>4. CASE m = n
      <4>1. n \notin disturbed
        BY <2>5, <2>9, <3>4
      <4>2. StillPrepared(p)
        BY <2>4, <4>1 DEF IInv, OneDeployment, n
      <4>3. /\ container[c].status = "DEPLOYING" /\ container[c].node = n
            /\ container[c].ram = task[p].ram
        BY <4>2 DEF StillPrepared, c, n
      <4>4. Held(container[c], m) = task[p].ram /\ Held(container'[c], m) = 0
        <5>1. n # None
          BY <1>3, NodeAssumption
        <5>2. container'[c].status = "ERROR"
          BY <2>3, <2>5, <4>2
        <5> QED BY <3>4, <4>3, <5>1, <5>2 DEF Held, Reserves
      <4>5. task[p].ram <= node[m].used /\ node[m].used \in Nat
        BY <1>3, <3>1, <3>2, <3>3, <4>4
      <4>6. node'[m].used = node[m].used - task[p].ram
        BY <1>3, <2>2, <2>8, <3>4, <4>5, ReleaseExact
      <4> QED BY <1>3, <3>1, <3>2, <3>3, <4>4, <4>6
    <3>5. CASE m # n
      <4>1. Held(container'[c], m) = Held(container[c], m)
        <5>1. CASE StillPrepared(p)
          <6>1. container[c].node = n
            BY <5>1 DEF StillPrepared, c, n
          <6>2. container'[c].node = n
            BY <2>5, <6>1
          <6> QED BY <3>5, <6>1, <6>2 DEF Held
        <5>2. CASE ~StillPrepared(p)
          BY <2>5, <2>9, <5>2
        <5> QED BY <5>1, <5>2
      <4>2. Held(container[c], m) \in Nat
        BY <2>2, HeldType
      <4>3. node'[m].used = node[m].used
        BY <2>8, <3>5
      <4> QED BY <3>1, <3>2, <3>3, <4>1, <4>2, <4>3
    <3> QED BY <3>4, <3>5
  <2>10. \A m \in Node : node'[m].status = "NEW" => node[m].status = "NEW"
    BY <2>8 DEF NodeStatus
  <2>11. \A d \in Container, m \in Node :
             container'[d].node = m => container[d].node = m \/ HasNode(m)
    BY <2>5, <2>7
  <2> QED BY <2>5, <2>6, <2>9, <2>10, <2>11, KeepsAccounts
<1> QED BY <1>4, <1>5

LEMMA DeleteRowAccounts ==
    ASSUME IInv, Accounts, NEW p \in Proc, DeleteRow(p)
    PROVE  Accounts'
<1> DEFINE c == task[p].container
           row == task[p].row
           now == container[c]
           new == container'[c]
           t == IF row.status = "RUNNING" /\ row.node # None
                THEN [stage |-> "release", node |-> row.node, ram |-> row.ram]
                ELSE Idle
<1>1. /\ container \in [Container -> ContainerRow] /\ task \in [Proc -> Task]
      /\ task[p] \in Task /\ task[p].stage = "delete"
  BY DEF IInv, TypeOK, DeleteRow
<1>2. c \in Container /\ row \in ContainerRow /\ now \in ContainerRow
  BY <1>1, RowTask
<1>3. /\ container' = IF HasRow(c) THEN [container EXCEPT ![c] = NoContainer("GONE")]
                                   ELSE container
      /\ disturbed' = disturbed \cup Disturbs(now, row)
                          \cup IF now.status = "DEPLOYING" THEN {now.node} \ {None} ELSE {}
      /\ Becomes(p, t) /\ node' = node
  BY DEF DeleteRow
<1>4. /\ container' \in [Container -> ContainerRow]
      /\ \A d \in Container \ {c} : container'[d] = container[d]
      /\ HasRow(c) => new.node = None /\ new.status = "GONE"
      /\ ~HasRow(c) => new = now /\ now.status \notin ContainerStatus
  BY <1>1, <1>2, <1>3, NoRows DEF NoContainer, HasRow
<1>5. /\ t \in Task
      /\ \A n \in Node : Names(t, n) => row.node = n
      /\ \A n \in Node : Due(t, n) = IF row.status = "RUNNING" /\ row.node = n
                                     THEN row.ram ELSE 0
  <2>1. CASE row.status = "RUNNING" /\ row.node # None
    <3>1. row.node \in Node /\ row.ram \in Nat
      BY <1>2, <2>1, RowShape
    <3>2. t = [stage |-> "release", node |-> row.node, ram |-> row.ram]
      BY <2>1
    <3> HIDE DEF t
    <3>3. t \in Task /\ t.stage = "release" /\ t.node = row.node /\ t.ram = row.ram
      BY <3>1, <3>2 DEF Task
    <3> QED BY <2>1, <3>3 DEF Names, Due
  <2>2. CASE ~(row.status = "RUNNING" /\ row.node # None)
    <3>1. t = Idle
      BY <2>2
    <3> HIDE DEF t
    <3>2. \A n \in Node : n # None
      BY NodeAssumption
    <3> QED BY <2>2, <3>1, <3>2, IdleTask, IdleOwesNothing
  <2> QED BY <2>1, <2>2
<1> HIDE DEF c, row, now, new, t
<1>6. /\ task' \in [Proc -> Task] /\ task'[p] = t
      /\ \A q \in Proc \ {p} : task'[q] = task[q]
  BY <1>1, <1>3, <1>5 DEF Becomes
<1>7. ASSUME NEW n \in Node, n \notin disturbed'
      PROVE  Held(new, n) + Due(t, n) = Held(now, n)
  <2>0. n # None
    BY NodeAssumption
  <2>1. Held(row, n) = Held(now, n) /\ Held(row, n) \in Nat
    BY <1>2, <1>3, <1>7, HeldStays, HeldType
  <2>2. now.status = "DEPLOYING" => now.node # n
    BY <1>3, <1>7, <2>0
  <2>3. row.status = "DEPLOYING" => row.node # n
    <3> SUFFICES ASSUME row.status = "DEPLOYING", row.node = n PROVE FALSE
      OBVIOUS
    <3>1. Reserves(row) /\ n \notin Disturbs(now, row)
      BY <1>3, <1>7, <2>0 DEF Reserves
    <3>2. now.status = "DEPLOYING" /\ now.node = n
      BY <2>0, <3>1 DEF Disturbs
    <3> QED BY <2>2, <3>2
  <2>4. Held(row, n) = Due(t, n)
    BY <1>5, <2>0, <2>3 DEF Held, Reserves
  <2>5. CASE HasRow(c)
    <3>1. Held(new, n) = 0
      BY <1>4, <2>0, <2>5 DEF Held
    <3> QED BY <2>1, <2>4, <3>1
  <2>6. CASE ~HasRow(c)
    <3>1. Held(new, n) = 0 /\ Held(now, n) = 0
      BY <1>4, <2>6 DEF Held, Reserves, ContainerStatus
    <3> QED BY <2>1, <2>4, <3>1
  <2> QED BY <2>5, <2>6
<1>8. ASSUME NEW n \in Node, n \notin disturbed', HasNode(n)',
             HasNode(n) => node[n].used = AllHeld(n) + AllDue(n)
      PROVE  node'[n].used = AllHeld(n)' + AllDue(n)'
  <2>1. node[n].used = AllHeld(n) + AllDue(n) /\ node'[n].used = node[n].used
    BY <1>3, <1>8 DEF HasNode
  <2>2. AllHeld(n) \in Nat /\ AllHeld(n)' = AllHeld(n) - Held(now, n) + Held(new, n)
    BY <1>1, <1>2, <1>4, HeldChanges DEF now, new
  <2>3. AllDue(n) \in Nat /\ AllDue(n)' = AllDue(n) - Due(task[p], n) + Due(t, n)
    BY <1>1, <1>6, DueChanges
  <2>4. Due(task[p], n) = 0 /\ Due(t, n) \in Nat /\ Held(now, n) \in Nat /\ Held(new, n) \in Nat
    BY <1>1, <1>2, <1>4, <1>5, IdleOwesNothing, DueType, HeldType DEF new
  <2>5. Held(new, n) + Due(t, n) = Held(now, n)
    BY <1>7, <1>8
  <2> QED BY <2>1, <2>2, <2>3, <2>4, <2>5
<1>9. \A q \in Proc, n \in Node : Names(task'[q], n) => Names(task[q], n)
  BY <1>1, <1>5, <1>6 DEF Names, row
<1>10. \A d \in Container, n \in Node :
           container'[d].node = n => container[d].node = n \/ HasNode(n)
  <2>1. \A n \in Node : n # None
    BY NodeAssumption
  <2> QED BY <1>4, <2>1 DEF new, now
<1>11. disturbed \subseteq disturbed' /\ \A n \in Node : node'[n] = node[n]
  BY <1>3
<1> QED BY <1>8, <1>9, <1>10, <1>11, KeepsAccounts

LEMMA ReleaseNodeResourceAccounts ==
    ASSUME IInv, Accounts, NEW p \in Proc, ReleaseNodeResource(p)
    PROVE  Accounts'
<1> DEFINE n == task[p].node
           ram == task[p].ram
<1>1. /\ task[p].stage = "release" /\ Becomes(p, Idle)
      /\ node' = IF HasNode(n) THEN [node EXCEPT ![n] = Release(@, ram)] ELSE node
      /\ container' = container /\ disturbed' = disturbed
  BY DEF ReleaseNodeResource
<1>2. task[p] \in Task /\ node \in [Node -> NodeRow]
  BY DEF IInv, TypeOK
<1>3. n \in Node /\ ram \in Nat
  BY <1>1, <1>2, ReleaseTask
<1>4. \A m \in Node : Due(task[p], m) = IF m = n THEN ram ELSE 0
  BY <1>1 DEF Due
<1> HIDE DEF n, ram
<1>5. /\ \A m \in Node : /\ AllDue(m) \in Nat /\ Due(task[p], m) <= AllDue(m)
                         /\ AllDue(m)' = AllDue(m) - Due(task[p], m)
      /\ \A q \in Proc, m \in Node : Names(task'[q], m) => Names(task[q], m)
  BY <1>1, EndingOwes
<1>6. /\ \A m \in Node \ {n} : node'[m] = node[m]
      /\ HasNode(n) => /\ node'[n] = Release(node[n], ram)
                       /\ node'[n].status \in NodeStatus
      /\ ~HasNode(n) => node'[n] = node[n]
  <2>1. node[n] \in NodeRow /\ node[n].used <= node[n].max
    BY <1>2, <1>3 DEF IInv, TypeOK
  <2> QED BY <1>1, <1>2, <1>3, <2>1, ReleaseRow DEF HasNode
<1>7. ASSUME NEW m \in Node, m \notin disturbed', HasNode(m)',
             HasNode(m) => node[m].used = AllHeld(m) + AllDue(m)
      PROVE  node'[m].used = AllHeld(m)' + AllDue(m)'
  <2>1. HasNode(m) /\ node[m].used = AllHeld(m) + AllDue(m)
    BY <1>6, <1>7 DEF HasNode
  <2>2. AllHeld(m)' = AllHeld(m) /\ AllHeld(m) \in Nat
    BY <1>1, SumTypes DEF AllHeld, IInv
  <2>3. CASE m = n
    <3>1. ram <= AllDue(m) /\ AllDue(m)' = AllDue(m) - ram /\ AllDue(m) \in Nat
      BY <1>4, <1>5, <2>3
    <3>2. ram <= node[m].used /\ node[m] \in NodeRow
      BY <1>2, <1>3, <2>1, <2>2, <3>1
    <3>3. node'[m].used = node[m].used - ram
      BY <1>3, <1>6, <2>1, <2>3, <3>2, ReleaseExact
    <3> QED BY <1>3, <2>1, <2>2, <3>1, <3>3
  <2>4. CASE m # n
    BY <1>4, <1>5, <1>6, <2>1, <2>2, <2>4
  <2> QED BY <2>3, <2>4
<1>8. \A m \in Node : node'[m].status = "NEW" => node[m].status = "NEW"
  BY <1>6 DEF NodeStatus
<1>9. \A d \in Container, m \in Node :
          container'[d].node = m => container[d].node = m \/ HasNode(m)
  BY <1>1
<1>10. disturbed \subseteq disturbed'
  BY <1>1
<1> QED BY <1>5, <1>7, <1>8, <1>9, <1>10, KeepsAccounts

LEMMA SaveNodeAccounts ==
    ASSUME IInv, Accounts, NEW p \in Proc, SaveNode(p)
    PROVE  Accounts'
<1> DEFINE n == task[p].node
           row == task[p].row
<1>1. task[p].stage = "saveNode" /\ Becomes(p, Idle) /\ container' = container
  BY DEF SaveNode
<1>2. task[p] \in Task /\ node \in [Node -> NodeRow]
  BY DEF IInv, TypeOK
<1>3. n \in Node /\ row \in NodeRow /\ row.status \in NodeStatus
  BY <1>1, <1>2, NodeTask DEF IInv, Sized, SizedTask
<1>4. CASE row.used > row.max
  <2>1. row.used \in Nat /\ row.max \in Nat
    BY <1>3, NodeShape
  <2>2. node' = node /\ disturbed' = disturbed
    BY <1>4, <2>1 DEF SaveNode
  <2> QED BY <1>1, <2>2, IdleTask, QuietAccounts
<1>5. CASE row.used <= row.max
  <2>1. /\ node' = [node EXCEPT ![n] = row]
        /\ disturbed' = IF HasNode(n) /\ node[n].used = row.used /\ Matches(row)
                        THEN disturbed ELSE disturbed \cup {n}
    BY <1>5 DEF SaveNode
  <2> HIDE DEF n, row
  <2>2. node'[n] = row /\ \A m \in Node \ {n} : node'[m] = node[m]
    BY <1>2, <1>3, <2>1
  <2>3. /\ \A m \in Node : AllDue(m)' = AllDue(m)
        /\ \A q \in Proc, m \in Node : Names(task'[q], m) => Names(task[q], m)
    BY <1>1, EndingQuietly
  <2>4. \A m \in Node : AllHeld(m)' = AllHeld(m)
    BY <1>1 DEF AllHeld
  <2>5. ASSUME NEW m \in Node, m \notin disturbed', HasNode(m)',
               HasNode(m) => node[m].used = AllHeld(m) + AllDue(m)
        PROVE  node'[m].used = AllHeld(m)' + AllDue(m)'
    <3>1. HasNode(m) /\ node'[m].used = node[m].used
      BY <2>1, <2>2, <2>5 DEF HasNode
    <3> QED BY <2>3, <2>4, <2>5, <3>1
  <2>6. \A m \in Node : node'[m].status = "NEW" => node[m].status = "NEW"
    BY <1>3, <2>2 DEF NodeStatus
  <2>7. \A d \in Container, m \in Node :
            container'[d].node = m => container[d].node = m \/ HasNode(m)
    BY <1>1
  <2>8. disturbed \subseteq disturbed'
    BY <2>1
  <2> QED BY <2>3, <2>5, <2>6, <2>7, <2>8, KeepsAccounts
<1>6. row.used \in Nat /\ row.max \in Nat
  BY <1>3, NodeShape
<1> HIDE DEF row
<1> QED BY <1>4, <1>5, <1>6

LEMMA CreateNodeAccounts ==
    ASSUME IInv, Accounts, NEW n \in Node, NEW row \in NewNodes, CreateNode(n, row)
    PROVE  Accounts'
<1>1. /\ node[n].status = "NEW" /\ node' = [node EXCEPT ![n] = row]
      /\ disturbed' = IF row.used = 0 /\ Matches(row) THEN disturbed ELSE disturbed \cup {n}
      /\ container' = container /\ task' = task
  BY DEF CreateNode
<1>2. row.status \in NodeStatus /\ row \in NodeRow
  BY NewNodeRow
<1>3. node'[n] = row /\ \A m \in Node \ {n} : node'[m] = node[m]
  BY <1>1, <1>2 DEF IInv, TypeOK
<1>4. \A m \in Node : AllHeld(m)' = AllHeld(m) /\ AllDue(m)' = AllDue(m)
  BY <1>1 DEF AllHeld, AllDue
<1>5. AllHeld(n) = 0 /\ AllDue(n) = 0
  <2>1. /\ \A c \in Container : container[c].node # n
        /\ \A p \in Proc : ~Names(task[p], n)
    BY <1>1 DEF Accounts, Fresh
  <2> QED BY <2>1, SumsOfNothing DEF Held, Due, Names
<1>6. ASSUME NEW m \in Node, m \notin disturbed', HasNode(m)',
             HasNode(m) => node[m].used = AllHeld(m) + AllDue(m)
      PROVE  node'[m].used = AllHeld(m)' + AllDue(m)'
  <2>1. CASE m = n
    <3>1. row.used = 0
      BY <1>1, <1>6, <2>1
    <3> QED BY <1>3, <1>4, <1>5, <2>1, <3>1
  <2>2. CASE m # n
    BY <1>3, <1>4, <1>6, <2>2 DEF HasNode
  <2> QED BY <2>1, <2>2
<1>7. \A m \in Node : node'[m].status = "NEW" => node[m].status = "NEW"
  BY <1>2, <1>3 DEF NodeStatus
<1>8. /\ \A d \in Container, m \in Node :
             container'[d].node = m => container[d].node = m \/ HasNode(m)
      /\ \A q \in Proc, m \in Node : Names(task'[q], m) => Names(task[q], m)
      /\ disturbed \subseteq disturbed'
  BY <1>1
<1> QED BY <1>6, <1>7, <1>8, KeepsAccounts

LEMMA DeleteNodeAccounts ==
    ASSUME IInv, Accounts, NEW n \in Node, DeleteNode(n)
    PROVE  Accounts'
<1>1. /\ node' = [node EXCEPT ![n] = NoNode("GONE")] /\ disturbed' = disturbed
      /\ container' = container /\ task' = task
  BY DEF DeleteNode
<1>2. /\ node'[n].status = "GONE" /\ ~HasNode(n)'
      /\ \A m \in Node \ {n} : node'[m] = node[m]
  <2>1. DOMAIN node = Node
    BY DEF IInv, TypeOK
  <2>2. NoNode("GONE").status = "GONE"
    BY DEF NoNode
  <2>3. node'[n].status = "GONE"
    BY <1>1, <2>1, <2>2
  <2>4. \A m \in Node \ {n} : node'[m] = node[m]
    BY <1>1, <2>1
  <2>5. "GONE" \notin NodeStatus
    BY DEF NodeStatus
  <2> QED BY <2>3, <2>4, <2>5 DEF HasNode
<1>3. \A m \in Node : AllHeld(m)' = AllHeld(m) /\ AllDue(m)' = AllDue(m)
  BY <1>1 DEF AllHeld, AllDue
<1>4. ASSUME NEW m \in Node, HasNode(m)',
             HasNode(m) => node[m].used = AllHeld(m) + AllDue(m)
      PROVE  node'[m].used = AllHeld(m)' + AllDue(m)'
  BY <1>2, <1>3, <1>4 DEF HasNode
<1>5. \A m \in Node : node'[m].status = "NEW" => node[m].status = "NEW"
  BY <1>2
<1>6. /\ \A d \in Container, m \in Node :
             container'[d].node = m => container[d].node = m \/ HasNode(m)
      /\ \A q \in Proc, m \in Node : Names(task'[q], m) => Names(task[q], m)
      /\ disturbed \subseteq disturbed'
  BY <1>1
<1> QED BY <1>4, <1>5, <1>6, KeepsAccounts

LEMMA StutterAccounts == ASSUME Accounts, UNCHANGED vars PROVE Accounts'
BY DEF Accounts, Fresh, ReservationsExact, Owed, Held, Due, Reserves, HasNode, Names, vars

LEMMA InitAccounts == Init => Accounts
<1> SUFFICES ASSUME Init PROVE Accounts
  OBVIOUS
<1>1. TypeOK
  BY InitIInv DEF IInv
<1>2. /\ \A c \in Container : container[c] = NoContainer("NEW")
      /\ \A p \in Proc : task[p] = Idle
  BY DEF Init
<1>3. /\ \A n \in Node : n # None
      /\ NoContainer("NEW").node = None /\ NoContainer("NEW").status = "NEW"
  BY NodeAssumption DEF NoContainer
<1>4. Fresh
  BY <1>2, <1>3, IdleOwesNothing DEF Fresh
<1>5. ASSUME NEW n \in Node, HasNode(n)
      PROVE  node[n].used = Owed(n)
  <2>1. AllHeld(n) = 0 /\ AllDue(n) = 0
    BY <1>2, <1>3, IdleOwesNothing, SumsOfNothing DEF Held
  <2>2. node[n].used = 0
    BY NoRows DEF Init
  <2> QED BY <2>1, <2>2 DEF Owed, AllHeld, AllDue
<1> QED BY <1>4, <1>5 DEF Accounts, ReservationsExact

LEMMA NextAccounts == ASSUME IInv, Accounts, [Next]_vars PROVE Accounts'
<1>1. ASSUME NEW p \in Proc, BeginRequest(p)
      PROVE  Accounts'
  BY <1>1, PrepareDeployAccounts, BeginAccounts DEF BeginRequest
<1>2. ASSUME NEW p \in Proc, Progress(p)
      PROVE  Accounts'
  BY <1>2, NodeAnswersAccounts, FinalizeDeployAccounts, FailDeployAccounts, DeleteRowAccounts,
     ReleaseNodeResourceAccounts, NodeReportsAccounts, SaveContainerAccounts, SaveNodeAccounts
     DEF Progress
<1>3. ASSUME AtOnce
      PROVE  Accounts'
  BY <1>3, CreateContainerAccounts, CreateNodeAccounts, DeleteCustomerAccounts,
     DeleteNodeAccounts DEF AtOnce
<1> QED BY <1>1, <1>2, <1>3, CrashAccounts, StutterAccounts DEF Next
-----------------------------------------------------------------------------
(* The theorems.                                                           *)

\* The parts of the invariant hold in every state.
THEOREM Invariance == Spec => []IInv
<1>1. Init => IInv
  BY InitIInv
<1>2. IInv /\ [Next]_vars => IInv'
  BY NextKeeps
<1> QED BY <1>1, <1>2, PTL DEF Spec

\* Tables and tasks have their types and no node gives out more RAM than it has,
\* whatever admins type in: the CHECK of the schema and the service agree.
THEOREM TypeCorrect == Spec => []TypeOK
<1>1. IInv => TypeOK
  BY DEF IInv
<1> QED BY <1>1, Invariance, PTL

\* A node nobody interfered with is FULL exactly when its RAM is used up.
THEOREM FullIsUsedUp == Spec => []FullWhenUsedUp
<1>1. IInv => FullWhenUsedUp
  BY DEF IInv
<1> QED BY <1>1, Invariance, PTL

\* Two requests never deploy one container, and the row a deployment comes back
\* to is as it left it, unless its node was interfered with.
THEOREM DeploysAlone == Spec => []OneDeployment
<1>1. IInv => OneDeployment
  BY DEF IInv
<1> QED BY <1>1, Invariance, PTL

\* used_ram_mb of a node nobody interfered with is, in every state, the sum of
\* the RAM of the containers deployed or being deployed there and of the deleted
\* ones whose release is still to come: no interleaving of deployments, failures,
\* timeouts, crashes and deletions counts a reservation twice or loses one.
THEOREM AccountsExact == Spec => []ReservationsExact
<1>1. Init => Accounts
  BY InitAccounts
<1>2. IInv /\ Accounts /\ [Next]_vars => Accounts'
  BY NextAccounts
<1>3. Accounts => ReservationsExact
  BY DEF Accounts
<1> QED BY <1>1, <1>2, <1>3, Invariance, PTL DEF Spec
=============================================================================
