--------------------------- MODULE TemplatesProofs ---------------------------
(***************************************************************************)
(* What Templates.tla promises, for any number of templates, containers,   *)
(* requests and configurations.                                            *)
(*                                                                         *)
(* Parsed says that a row on its way to the table was parsed as well;      *)
(* Locks, that the template a deployment has locked is there, active and   *)
(* its container's until the deployment commits.                           *)
(***************************************************************************)
EXTENDS Templates, TLAPS

Row == TemplateRow \cup {NoTemplate("NEW"), NoTemplate("GONE")}

IsParsed(content) == content # None => \E format \in Formats : format \in content

Parsed ==
    \A p \in Proc : task[p].stage \in {"save", "insert"} => IsParsed(task[p].row.content)

Locks ==
    \A p \in Proc : task[p].stage = "deploy" =>
        /\ HasRow(task[p].template)
        /\ template[task[p].template].active
        /\ container[task[p].container].template = task[p].template

IInv ==
    /\ TypeOK
    /\ TemplatesExist
    /\ ContentParses
    /\ Parsed
    /\ Locks

-----------------------------------------------------------------------------
(* Rows and tasks.                                                         *)

LEMMA RowShape ==
    ASSUME NEW row \in Row
    PROVE  /\ row.content \in Contents \cup {None} /\ row.type \in Types
           /\ row.active \in BOOLEAN
           /\ row.status = "ROW" => row \in TemplateRow
           /\ row.status = "NEW" => row = NoTemplate("NEW")
<1>1. CASE row \in TemplateRow BY <1>1 DEF TemplateRow
<1>2. ASSUME NEW s \in {"NEW", "GONE"}, row = NoTemplate(s)
      PROVE  /\ row.content = None /\ row.type \in Types
             /\ row.active = FALSE /\ row.status = s
  BY <1>2, TemplateAssumption DEF NoTemplate
<1> QED BY <1>1, <1>2 DEF Row

LEMMA InsertedRow ==
    ASSUME NEW row \in TemplateRow
    PROVE  /\ Inserted(row) \in TemplateRow /\ Inserted(row).status = "ROW"
           /\ Inserted(row).content = row.content
BY DEF TemplateRow, Inserted

LEMMA CreatedRow ==
    ASSUME NEW content \in Contents \cup {None}, NEW type \in Types
    PROVE  LET new == Inserted([NoTemplate("NEW") EXCEPT !.content = content, !.type = type]) IN
           new \in TemplateRow /\ new.status = "ROW" /\ new.content = content
BY DEF TemplateRow, Inserted, NoTemplate

LEMMA ContainerShape ==
    ASSUME NEW row \in ContainerRow \cup {NoContainer}
    PROVE  /\ row.template \in Template \cup {None}
           /\ row # NoContainer => row \in ContainerRow
           /\ row.template # None => row \in ContainerRow
           /\ row.status \in {"IDLE", "BUSY"} => row \in ContainerRow
           /\ row \in ContainerRow => \A s \in {"IDLE", "BUSY"} :
                  /\ [row EXCEPT !.status = s] \in ContainerRow
                  /\ [row EXCEPT !.status = s].template = row.template
<1>1. CASE row \in ContainerRow BY <1>1 DEF ContainerRow
<1>2. CASE row = NoContainer /\ row \notin ContainerRow BY <1>2 DEF NoContainer
<1> QED BY <1>1, <1>2

LEMMA IdleTask == Idle \in Task /\ Idle.stage = "idle"
BY DEF Task, Idle

LEMMA SaveTask ==
    ASSUME NEW w \in Task, w.stage \in {"save", "insert"}
    PROVE  /\ w.template \in Template /\ w.row \in TemplateRow
           /\ [w EXCEPT !.stage = "insert"] \in Task
           /\ [w EXCEPT !.stage = "insert"].stage = "insert"
           /\ [w EXCEPT !.stage = "insert"].row = w.row
<1>1. w \in [stage : {"save", "insert"}, template : Template, row : TemplateRow]
  BY DEF Task, Idle
<1>2. [w EXCEPT !.stage = "insert"]
        \in [stage : {"save", "insert"}, template : Template, row : TemplateRow]
  BY <1>1
<1> QED BY <1>1, <1>2 DEF Task

LEMMA ContainerTask ==
    ASSUME NEW w \in Task, w.stage = "saveContainer"
    PROVE  w.container \in Container /\ w.row \in ContainerRow
BY DEF Task, Idle

LEMMA DeployTask ==
    ASSUME NEW w \in Task, w.stage = "deploy"
    PROVE  w.container \in Container /\ w.template \in Template
BY DEF Task, Idle

LEMMA Becoming ==
    ASSUME TypeOK, NEW p \in Proc, NEW w \in Task, Becomes(p, w)
    PROVE  /\ task' \in [Proc -> Task]
           /\ task'[p] = w
           /\ \A q \in Proc \ {p} : task'[q] = task[q]
BY DEF Becomes, TypeOK

LEMMA BeginKeeps ==
    ASSUME IInv, Once
    PROVE  begun' \in 0..MaxRequests
<1>1. MaxRequests \in Nat /\ begun \in 0..MaxRequests
  BY TemplateAssumption DEF IInv, TypeOK
<1> QED BY <1>1 DEF Once

\* What the handlers let through was parsed.
LEMMA HandlerParsed ==
    ASSUME NEW content \in Contents \cup {None}, NEW type, Parses(content, type)
    PROVE  IsParsed(content)
BY TemplateAssumption DEF Parses, IsParsed

-----------------------------------------------------------------------------
(* The invariant holds initially and is kept by every action.              *)

LEMMA InitIInv == Init => IInv
<1> SUFFICES ASSUME Init PROVE IInv
  OBVIOUS
<1> DEFINE first == [NoTemplate("ROW") EXCEPT !.active = TRUE]
<1>1. first \in TemplateRow /\ first.content = None /\ NoTemplate("NEW").content = None
  BY TemplateAssumption DEF TemplateRow, NoTemplate
<1>2. \A x \in Template : template[x] \in {NoTemplate("NEW"), first}
  BY DEF Init
<1>3. TypeOK
  <2>1. begun \in 0..MaxRequests
    <3>1. MaxRequests \in Nat BY TemplateAssumption
    <3> QED BY <3>1 DEF Init
  <2>2. template \in [Template -> Row]
    BY <1>1 DEF Init, Row
  <2> QED BY <2>1, <2>2, IdleTask DEF Init, TypeOK, Row
<1>4. TemplatesExist
  BY DEF Init, TemplatesExist, NoContainer
<1>5. ContentParses
  BY <1>1, <1>2 DEF ContentParses
<1>6. Parsed /\ Locks
  BY IdleTask DEF Init, Parsed, Locks
<1> QED BY <1>3, <1>4, <1>5, <1>6 DEF IInv

\* A request reads, ends or goes on, and changes no table.
LEMMA TaskKeeps ==
    ASSUME IInv, NEW p \in Proc, NEW w \in Task, Becomes(p, w),
           UNCHANGED <<template, container>>, begun' \in 0..MaxRequests,
           w.stage \in {"save", "insert"} => IsParsed(w.row.content),
           w.stage = "deploy" => /\ HasRow(w.template) /\ template[w.template].active
                                 /\ container[w.container].template = w.template
    PROVE  IInv'
<1>1. /\ task' \in [Proc -> Task] /\ task'[p] = w
      /\ \A q \in Proc \ {p} : task'[q] = task[q]
  BY Becoming DEF IInv
<1>2. TypeOK'
  BY <1>1 DEF IInv, TypeOK
<1>3. TemplatesExist' /\ ContentParses'
  BY DEF IInv, TemplatesExist, ContentParses, HasRow
<1>4. Parsed'
  BY <1>1 DEF IInv, Parsed
<1>5. Locks'
  BY <1>1 DEF IInv, Locks, HasRow
<1> QED BY <1>2, <1>3, <1>4, <1>5 DEF IInv

\* The row of a template that is not locked is written, and the request ends.
LEMMA WriteKeeps ==
    ASSUME IInv, NEW x \in Template, NEW row \in TemplateRow, ~Locked(x),
           template' = [template EXCEPT ![x] = row], row.status = "ROW",
           IsParsed(row.content),
           UNCHANGED container, begun' \in 0..MaxRequests, task' \in [Proc -> Task],
           \A q \in Proc : task'[q] = task[q] \/ task'[q] = Idle
    PROVE  IInv'
<1>1. /\ template' \in [Template -> Row] /\ template'[x] = row
      /\ \A y \in Template \ {x} : template'[y] = template[y]
  BY DEF IInv, TypeOK, Row
<1>2. TypeOK'
  BY <1>1 DEF IInv, TypeOK, Row
<1>3. TemplatesExist'
  <2>1. \A c \in Container : container[c].template \in Template \cup {None}
    BY ContainerShape DEF IInv, TypeOK
  <2> QED BY <1>1, <2>1 DEF IInv, TemplatesExist, HasRow
<1>4. ContentParses'
  BY <1>1 DEF IInv, ContentParses, IsParsed
<1>5. Parsed'
  BY IdleTask DEF IInv, Parsed
<1>6. Locks'
  <2>1. ASSUME NEW q \in Proc, task'[q].stage = "deploy"
        PROVE  task'[q] = task[q] /\ task[q].template \in Template \ {x}
    <3>1. task'[q] = task[q] BY <2>1, IdleTask
    <3> QED BY <2>1, <3>1, DeployTask DEF Locked, IInv, TypeOK
  <2> QED BY <1>1, <2>1 DEF IInv, Locks, HasRow
<1> QED BY <1>2, <1>3, <1>4, <1>5, <1>6 DEF IInv

LEMMA CreateTemplateKeeps ==
    ASSUME IInv, NEW x \in Template, NEW content \in Contents \cup {None}, NEW type \in Types,
           CreateTemplate(x, content, type)
    PROVE  IInv'
<1> DEFINE row == Inserted([NoTemplate("NEW") EXCEPT !.content = content, !.type = type])
<1>1. template[x] = NoTemplate("NEW") /\ template[x].status = "NEW"
  BY RowShape DEF CreateTemplate, IInv, TypeOK, Row
<1>2. template' = [template EXCEPT ![x] = row]
  BY <1>1 DEF CreateTemplate, IInv, TypeOK
<1>3. row \in TemplateRow /\ row.status = "ROW" /\ row.content = content
  BY CreatedRow
<1>4. ~Locked(x)
  BY <1>1 DEF Locked, IInv, Locks, HasRow
<1>5. /\ UNCHANGED <<container, task>> /\ begun' \in 0..MaxRequests /\ IsParsed(content)
  BY BeginKeeps, HandlerParsed DEF CreateTemplate
<1> HIDE DEF row
<1> QED BY <1>2, <1>3, <1>4, <1>5, WriteKeeps DEF IInv, TypeOK

LEMMA ReadTemplateKeeps ==
    ASSUME IInv, NEW p \in Proc, NEW x \in Template, NEW content \in Contents \cup {None},
           NEW type \in Types, NEW active \in BOOLEAN \cup {None},
           ReadTemplate(p, x, content, type, active)
    PROVE  IInv'
<1> DEFINE old == template[x]
           c == IF content = None THEN old.content ELSE content
           t == IF type = "" THEN old.type ELSE type
           a == IF active = None THEN old.active ELSE active
           row == [old EXCEPT !.content = c, !.type = t, !.active = a]
           w == [stage |-> "save", template |-> x, row |-> row]
<1>1. old \in TemplateRow /\ c \in Contents \cup {None} /\ t \in Types /\ a \in BOOLEAN
  <2>1. old \in TemplateRow
    BY RowShape DEF ReadTemplate, HasRow, IInv, TypeOK, Row
  <2> QED BY <2>1 DEF TemplateRow
<1>2. row \in TemplateRow /\ row.content = c
  <2> HIDE DEF old, c, t, a
  <2> QED BY <1>1 DEF TemplateRow
<1>3. IsParsed(c)
  <2>1. IsParsed(content)
    BY HandlerParsed DEF ReadTemplate
  <2>2. IsParsed(old.content)
    BY DEF IInv, ContentParses, IsParsed
  <2> QED BY <2>1, <2>2
<1>4. Becomes(p, w) /\ UNCHANGED <<template, container>> /\ begun' \in 0..MaxRequests
  BY BeginKeeps DEF ReadTemplate, Begin
<1> HIDE DEF row
<1>5. w \in Task /\ w.stage = "save" /\ w.row = row
  BY <1>2 DEF Task
<1> HIDE DEF w, c
<1> QED BY <1>2, <1>3, <1>4, <1>5, TaskKeeps

LEMMA SaveTemplateKeeps ==
    ASSUME IInv, NEW p \in Proc, SaveTemplate(p) \/ InsertTemplate(p)
    PROVE  IInv'
<1> DEFINE x == task[p].template
           row == task[p].row
<1>1. /\ task[p].stage \in {"save", "insert"} /\ ~Locked(x)
      /\ UNCHANGED <<container, begun>>
  BY DEF SaveTemplate, InsertTemplate
<1>2. x \in Template /\ row \in TemplateRow /\ row.status = "ROW" /\ IsParsed(row.content)
  <2>1. x \in Template /\ row \in TemplateRow
    BY <1>1, SaveTask DEF IInv, TypeOK
  <2> QED BY <1>1, <2>1 DEF IInv, Parsed, TemplateRow
<1>3. CASE Becomes(p, [task[p] EXCEPT !.stage = "insert"]) /\ UNCHANGED template
  <2> DEFINE w == [task[p] EXCEPT !.stage = "insert"]
  <2>1. w \in Task /\ w.stage = "insert" /\ w.row = row
    BY <1>1, SaveTask DEF IInv, TypeOK
  <2> HIDE DEF w
  <2>2. IsParsed(w.row.content) /\ Becomes(p, w) /\ begun' \in 0..MaxRequests
    BY <1>1, <1>2, <1>3, <2>1 DEF w, IInv, TypeOK
  <2> QED BY <1>1, <1>3, <2>1, <2>2, TaskKeeps
<1>4. ASSUME NEW new \in {row, Inserted(row)}, Becomes(p, Idle),
             template' = [template EXCEPT ![x] = new]
      PROVE  IInv'
  <2>1. new \in TemplateRow /\ new.status = "ROW" /\ IsParsed(new.content)
    BY <1>2, InsertedRow
  <2>2. /\ task' \in [Proc -> Task] /\ task'[p] = Idle
        /\ \A q \in Proc \ {p} : task'[q] = task[q]
    BY <1>4, Becoming, IdleTask DEF IInv
  <2> HIDE DEF x
  <2> QED BY <1>1, <1>2, <1>4, <2>1, <2>2, WriteKeeps DEF IInv, TypeOK
<1> QED BY <1>3, <1>4 DEF SaveTemplate, InsertTemplate

LEMMA DeleteTemplateKeeps ==
    ASSUME IInv, NEW x \in Template, DeleteTemplate(x)
    PROVE  IInv'
<1>1. /\ template' = [template EXCEPT ![x] = NoTemplate("GONE")]
      /\ ~Locked(x) /\ Unreferenced(x)
      /\ UNCHANGED <<container, task>> /\ begun' \in 0..MaxRequests
  BY BeginKeeps DEF DeleteTemplate
<1>2. /\ template' \in [Template -> Row] /\ template'[x].content = None
      /\ \A y \in Template \ {x} : template'[y] = template[y]
  BY <1>1 DEF IInv, TypeOK, Row, NoTemplate
<1>3. TypeOK'
  BY <1>1, <1>2 DEF IInv, TypeOK, Row
<1>4. TemplatesExist'
  <2>1. \A c \in Container : container[c].template \in (Template \ {x}) \cup {None}
    BY <1>1, ContainerShape DEF IInv, TypeOK, Unreferenced
  <2> QED BY <1>1, <1>2, <2>1 DEF IInv, TemplatesExist, HasRow
<1>5. ContentParses'
  BY <1>2 DEF IInv, ContentParses
<1>6. Parsed'
  BY <1>1 DEF IInv, Parsed
<1>7. Locks'
  <2>1. ASSUME NEW q \in Proc, task[q].stage = "deploy"
        PROVE  task[q].template \in Template \ {x}
    BY <1>1, <2>1, DeployTask DEF Locked, IInv, TypeOK
  <2> QED BY <1>1, <1>2, <2>1 DEF IInv, Locks, HasRow
<1> QED BY <1>3, <1>4, <1>5, <1>6, <1>7 DEF IInv

\* The row of a container is written, and its template is there.
LEMMA ContainerKeeps ==
    ASSUME IInv, NEW c \in Container, NEW row \in ContainerRow \cup {NoContainer},
           container' = [container EXCEPT ![c] = row],
           row.template # None => HasRow(row.template),
           row.template = container[c].template \/ ~ContainerLocked(c)
               \/ \A q \in Proc : task'[q].stage = "deploy" => container[c] = NoContainer,
           UNCHANGED template, begun' \in 0..MaxRequests, task' \in [Proc -> Task],
           \A q \in Proc : task'[q] = task[q] \/ task'[q] = Idle
    PROVE  IInv'
<1>1. /\ container' \in [Container -> ContainerRow \cup {NoContainer}] /\ container'[c] = row
      /\ \A d \in Container \ {c} : container'[d] = container[d]
  BY DEF IInv, TypeOK
<1>2. TypeOK'
  BY <1>1 DEF IInv, TypeOK
<1>3. TemplatesExist'
  BY <1>1 DEF IInv, TemplatesExist, HasRow
<1>4. ContentParses' /\ Parsed'
  BY IdleTask DEF IInv, ContentParses, Parsed
<1>5. Locks'
  <2> SUFFICES ASSUME NEW q \in Proc, task'[q].stage = "deploy"
               PROVE  /\ HasRow(task[q].template)'
                      /\ template'[task'[q].template].active
                      /\ container'[task'[q].container].template = task'[q].template
    BY DEF Locks
  <2>1. task'[q] = task[q] BY IdleTask
  <2>2. /\ HasRow(task[q].template) /\ template[task[q].template].active
        /\ container[task[q].container].template = task[q].template
    BY <2>1 DEF IInv, Locks
  <2>3. task[q].container \in Container /\ task[q].template \in Template
    BY <2>1, DeployTask DEF IInv, TypeOK
  <2>4. container[task[q].container] # NoContainer
    <3>1. None \notin Template /\ NoContainer.template = None
      BY TemplateAssumption DEF NoContainer
    <3> QED BY <2>2, <2>3, <3>1
  <2>5. task[q].container = c => row.template = container[c].template
    BY <2>1, <2>4 DEF ContainerLocked
  <2> QED BY <1>1, <2>1, <2>2, <2>3, <2>5 DEF HasRow
<1> QED BY <1>2, <1>3, <1>4, <1>5 DEF IInv

LEMMA CreateContainerKeeps ==
    ASSUME IInv, NEW c \in Container, NEW row \in ContainerRow, CreateContainer(c, row)
    PROVE  IInv'
<1>1. /\ container[c] = NoContainer /\ References(c, row.template)
      /\ container' = [container EXCEPT ![c] = row]
      /\ UNCHANGED <<template, task>> /\ begun' \in 0..MaxRequests
  BY BeginKeeps DEF CreateContainer, HasContainer
<1>2. row.template # None => HasRow(row.template)
  BY <1>1 DEF References, NoContainer
<1> QED BY <1>1, <1>2, ContainerKeeps DEF IInv, TypeOK

LEMMA ReadContainerKeeps ==
    ASSUME IInv, NEW p \in Proc, NEW c \in Container, NEW row \in ContainerRow,
           ReadContainer(p, c, row)
    PROVE  IInv'
<1> DEFINE w == [stage |-> "saveContainer", container |-> c, row |-> row]
<1>1. /\ w \in Task /\ w.stage = "saveContainer" /\ Becomes(p, w)
      /\ UNCHANGED <<template, container>> /\ begun' \in 0..MaxRequests
  BY BeginKeeps DEF ReadContainer, Begin, Task
<1> HIDE DEF w
<1> QED BY <1>1, TaskKeeps

LEMMA SaveContainerKeeps ==
    ASSUME IInv, NEW p \in Proc, SaveContainer(p)
    PROVE  IInv'
<1> DEFINE c == task[p].container
           row == task[p].row
<1>1. /\ task[p].stage = "saveContainer" /\ ~ContainerLocked(c)
      /\ References(c, row.template)
      /\ container' = [container EXCEPT ![c] = row]
      /\ Becomes(p, Idle) /\ UNCHANGED <<template, begun>>
  BY DEF SaveContainer
<1>2. c \in Container /\ row \in ContainerRow
  BY <1>1, ContainerTask DEF IInv, TypeOK
<1>3. row.template # None => HasRow(row.template)
  BY <1>1, <1>2 DEF References, IInv, TemplatesExist
<1>4. /\ task' \in [Proc -> Task] /\ task'[p] = Idle
      /\ \A q \in Proc \ {p} : task'[q] = task[q]
  BY <1>1, Becoming, IdleTask DEF IInv
<1> HIDE DEF c, row
<1> QED BY <1>1, <1>2, <1>3, <1>4, ContainerKeeps DEF IInv, TypeOK

LEMMA DeleteContainerKeeps ==
    ASSUME IInv, NEW c \in Container, DeleteContainer(c)
    PROVE  IInv'
<1>1. /\ container' = [container EXCEPT ![c] = NoContainer] /\ ~ContainerLocked(c)
      /\ UNCHANGED <<template, task>> /\ begun' \in 0..MaxRequests
  BY BeginKeeps DEF DeleteContainer
<1>2. NoContainer.template = None
  BY DEF NoContainer
<1> QED BY <1>1, <1>2, ContainerKeeps DEF IInv, TypeOK

LEMMA LockTemplateKeeps ==
    ASSUME IInv, NEW p \in Proc, NEW c \in Container, LockTemplate(p, c)
    PROVE  IInv'
<1> DEFINE x == container[c].template
           w == [stage |-> "deploy", container |-> c, template |-> x]
<1>1. /\ Becomes(p, w) /\ x # None /\ HasRow(x) /\ template[x].active
      /\ UNCHANGED <<template, container>> /\ begun' \in 0..MaxRequests
  BY BeginKeeps DEF LockTemplate, Begin
<1>2. x \in Template
  BY <1>1, ContainerShape DEF IInv, TypeOK
<1>3. /\ w \in Task /\ w.stage = "deploy" /\ w.container = c /\ w.template = x
  BY <1>2 DEF Task
<1> HIDE DEF w
<1> QED BY <1>1, <1>3, TaskKeeps

\* The status of a container is written.
LEMMA StatusKeeps ==
    ASSUME IInv, NEW c \in Container, container[c] \in ContainerRow,
           NEW s \in {"IDLE", "BUSY"}, container' = [container EXCEPT ![c].status = s],
           UNCHANGED template, begun' \in 0..MaxRequests, task' \in [Proc -> Task],
           \A q \in Proc : task'[q] = task[q] \/ task'[q] = Idle
    PROVE  IInv'
<1> DEFINE row == [container[c] EXCEPT !.status = s]
<1>1. row \in ContainerRow /\ row.template = container[c].template
  BY ContainerShape
<1>2. container' = [container EXCEPT ![c] = row]
  BY DEF IInv, TypeOK
<1>3. row.template # None => HasRow(row.template)
  BY <1>1 DEF IInv, TemplatesExist
<1> HIDE DEF row
<1> QED BY <1>1, <1>2, <1>3, ContainerKeeps

LEMMA StartDeployKeeps ==
    ASSUME IInv, NEW p \in Proc, StartDeploy(p)
    PROVE  IInv'
<1> DEFINE c == task[p].container
<1>1. /\ task[p].stage = "deploy" /\ container' = [container EXCEPT ![c].status = "BUSY"]
      /\ Becomes(p, Idle) /\ UNCHANGED <<template, begun>>
  BY DEF StartDeploy
<1>2. c \in Container /\ container[c] \in ContainerRow
  <2>1. c \in Container /\ task[p].template \in Template
    BY <1>1, DeployTask DEF IInv, TypeOK
  <2>2. container[c].template # None
    BY <1>1, <2>1, TemplateAssumption DEF IInv, Locks
  <2> QED BY <2>1, <2>2, ContainerShape DEF IInv, TypeOK
<1>3. /\ task' \in [Proc -> Task] /\ task'[p] = Idle
      /\ \A q \in Proc \ {p} : task'[q] = task[q]
  BY <1>1, Becoming, IdleTask DEF IInv
<1> HIDE DEF c
<1> QED BY <1>1, <1>2, <1>3, StatusKeeps DEF IInv, TypeOK

LEMMA EndDeployKeeps ==
    ASSUME IInv, NEW c \in Container, EndDeploy(c)
    PROVE  IInv'
<1>1. container[c] \in ContainerRow
  BY ContainerShape DEF EndDeploy, IInv, TypeOK
<1> QED BY <1>1, StatusKeeps DEF EndDeploy, IInv, TypeOK

LEMMA FailKeeps ==
    ASSUME IInv, NEW p \in Proc, Fail(p)
    PROVE  IInv'
<1>1. Becomes(p, Idle) /\ UNCHANGED <<template, container, begun>>
  BY DEF Fail
<1> QED BY <1>1, IdleTask, TaskKeeps DEF IInv, TypeOK

LEMMA NextKeeps == IInv /\ [Next]_vars => IInv'
<1> SUFFICES ASSUME IInv, [Next]_vars PROVE IInv'
  OBVIOUS
<1>1. CASE UNCHANGED vars
  BY <1>1 DEF vars, IInv, TypeOK, TemplatesExist, ContentParses, Parsed, Locks, HasRow
<1>2. CASE Next
  BY <1>2, CreateTemplateKeeps, ReadTemplateKeeps, SaveTemplateKeeps, DeleteTemplateKeeps,
     CreateContainerKeeps, ReadContainerKeeps, SaveContainerKeeps, DeleteContainerKeeps,
     LockTemplateKeeps, StartDeployKeeps, EndDeployKeeps, FailKeeps DEF Next
<1> QED BY <1>1, <1>2

-----------------------------------------------------------------------------
(* Theorems.                                                               *)

\* The invariant holds of every reachable state.
THEOREM Invariance == Spec => []IInv
BY InitIInv, NextKeeps, PTL DEF Spec

\* Every variable keeps its type.
THEOREM TypeCorrect == Spec => []TypeOK
<1>1. IInv => TypeOK BY DEF IInv
<1> QED BY <1>1, Invariance, PTL

\* The template of a container is there, whatever saves and deletions overlap
\* (resource.go:211-213, 280-289).
THEOREM TemplatesStay == Spec => []TemplatesExist
<1>1. IInv => TemplatesExist BY DEF IInv
<1> QED BY <1>1, Invariance, PTL

\* Whatever is stored as a configuration was parsed, however partial updates
\* overlap (handlers/resource.go:331-357, 409-435).
THEOREM ContentIsParsed == Spec => []ContentParses
<1>1. IInv => ContentParses BY DEF IInv
<1> QED BY <1>1, Invariance, PTL

\* A deployment starts only when its template is active at that very moment
\* (resource.go:351-359).
THEOREM DeploysActive == Spec => StartsOnActive
<1> DEFINE Starts ==
      \A p \in Proc : (task[p].stage = "deploy" /\ container' # container /\ task'[p] = Idle)
          => /\ template[task[p].template].active
             /\ container'[task[p].container].template = task[p].template
<1>1. IInv /\ [Next]_vars => [Starts]_vars
  <2> SUFFICES ASSUME IInv, Next, NEW p \in Proc, task[p].stage = "deploy",
                      container' # container, task'[p] = Idle
               PROVE  /\ template[task[p].template].active
                      /\ container'[task[p].container].template = task[p].template
    OBVIOUS
  <2>1. /\ template[task[p].template].active
        /\ container[task[p].container].template = task[p].template
    BY DEF IInv, Locks
  <2>2. task'[p] # task[p]
    BY IdleTask
  <2>3. CASE \E q \in Proc : StartDeploy(q)
    <3>1. PICK q \in Proc : StartDeploy(q)
      BY <2>3
    <3>2. Becomes(q, Idle) /\ task[q].stage = "deploy"
          /\ container' = [container EXCEPT ![task[q].container].status = "BUSY"]
      BY <3>1 DEF StartDeploy
    <3>3. q = p
      BY <2>2, <3>2 DEF Becomes, IInv, TypeOK
    <3>4. task[p].container \in Container /\ task[p].template \in Template
      BY DeployTask DEF IInv, TypeOK
    <3>5. container[task[p].container] \in ContainerRow
      <4>1. container[task[p].container].template # None
        BY <2>1, <3>4, TemplateAssumption
      <4> QED BY <3>4, <4>1, ContainerShape DEF IInv, TypeOK
    <3>6. container'[task[p].container] = [container[task[p].container] EXCEPT !.status = "BUSY"]
      BY <3>2, <3>3, <3>4 DEF IInv, TypeOK
    <3>7. container'[task[p].container].template = container[task[p].container].template
      BY <3>5, <3>6, ContainerShape
    <3> QED BY <2>1, <3>7
  <2>4. CASE \E q \in Proc : SaveContainer(q)
    <3>1. PICK q \in Proc : SaveContainer(q)
      BY <2>4
    <3>2. Becomes(q, Idle) /\ task[q].stage = "saveContainer"
      BY <3>1 DEF SaveContainer
    <3>3. q = p
      BY <2>2, <3>2 DEF Becomes, IInv, TypeOK
    <3> QED BY <3>2, <3>3
  <2>5. UNCHANGED task \/ UNCHANGED container \/ \E q \in Proc : StartDeploy(q) \/ SaveContainer(q)
    BY DEF Next, CreateTemplate, ReadTemplate, SaveTemplate, InsertTemplate, DeleteTemplate,
           CreateContainer, ReadContainer, DeleteContainer, LockTemplate, EndDeploy, Fail
  <2> QED BY <2>2, <2>3, <2>4, <2>5
<1> QED BY <1>1, Invariance, PTL DEF Spec, StartsOnActive
=============================================================================
