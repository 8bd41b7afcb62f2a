------------------------------ MODULE Templates ------------------------------
(***************************************************************************)
(* App templates, the containers that refer to them and the deployments    *)
(* that start from them (plugins/node/services/resource.go and             *)
(* handlers/resource.go).                                                  *)
(*                                                                         *)
(* Templates and containers are edited by reading a row, changing fields   *)
(* and saving all of it.  A deployment locks its container and then its    *)
(* template, and keeps both locks until it commits.  What it does on its   *)
(* node is the subject of NodeDeploy.                                      *)
(***************************************************************************)
EXTENDS Integers

CONSTANTS
    Template,       \* template ids
    Container,      \* container ids
    Proc,           \* concurrent requests
    Contents,       \* configurations, each as the set of formats it parses in
    Types,          \* what a request may name as config_type; "" if nothing
    MaxRequests,    \* bound: requests begun in a behaviour
    None            \* SQL NULL, or a field that a request leaves out

\* The formats the handlers can parse.
Formats == {"yaml", "json", "toml"}

ASSUME TemplateAssumption ==
    /\ \A content \in Contents : content \subseteq Formats
    /\ Types \subseteq STRING /\ "" \in Types
    /\ MaxRequests \in Nat
    /\ None \notin Template /\ None \notin Contents /\ None \notin BOOLEAN

TemplateRow == [status : {"ROW"}, content : Contents \cup {None}, type : Types,
                active : BOOLEAN]
NoTemplate(s) == [status |-> s, content |-> None, type |-> "", active |-> FALSE]

\* A container is BUSY when it is DEPLOYING or RUNNING, IDLE when it is PENDING
\* or in ERROR.
ContainerRow == [status : {"IDLE", "BUSY"}, template : Template \cup {None}]
NoContainer == [status |-> "GONE", template |-> None]

Idle == [stage |-> "idle"]
Task ==
    {Idle}
        \cup [stage : {"save", "insert"}, template : Template, row : TemplateRow]
        \cup [stage : {"saveContainer"}, container : Container, row : ContainerRow]
        \cup [stage : {"deploy"}, container : Container, template : Template]

VARIABLES
    template,       \* table app_templates
    container,      \* table containers
    task,           \* what each request still has to do
    begun           \* requests begun so far

vars == <<template, container, task, begun>>

HasRow(x) == template[x].status = "ROW"
HasContainer(c) == container[c] # NoContainer

TypeOK ==
    /\ template \in [Template -> TemplateRow \cup {NoTemplate("NEW"), NoTemplate("GONE")}]
    /\ container \in [Container -> ContainerRow \cup {NoContainer}]
    /\ task \in [Proc -> Task]
    /\ begun \in 0..MaxRequests

\* The first templates are older than config_content.
Init ==
    /\ template \in [Template -> {NoTemplate("NEW"),
                                  [NoTemplate("ROW") EXCEPT !.active = TRUE]}]
    /\ container = [c \in Container |-> NoContainer]
    /\ task = [p \in Proc |-> Idle]
    /\ begun = 0

-----------------------------------------------------------------------------
\* A request of one statement is one step; one of several is carried on by p.
Once == begun < MaxRequests /\ begun' = begun + 1

Begin(p) == task[p] = Idle /\ Once

Becomes(p, t) == task' = [task EXCEPT ![p] = t]

\* Row locks: a deployment holds its template's and its container's.
\* (Mutation: the template is read without FOR UPDATE.)
NeverLocked(x) == FALSE

Locked(x) == \E p \in Proc : task[p].stage = "deploy" /\ task[p].template = x

ContainerLocked(c) == \E p \in Proc : task[p].stage = "deploy" /\ task[p].container = c

\* The foreign key of containers.template_id, when container c is written: another
\* template than it has must be there, and the check waits for its lock.
References(c, x) == x \notin {None, container[c].template} => HasRow(x) /\ ~Locked(x)

\* (Mutation: containers.template_id references nothing.)
NothingRefers(x) == TRUE

\* The same key, when a template is deleted.
Unreferenced(x) == \A c \in Container : container[c].template # x

-----------------------------------------------------------------------------
(* Templates.                                                              *)

\* (Mutation: content of a type that is not supported is taken as it is.)
LenientParse(content, type) ==
    content # None /\ type \in Formats => type \in content

\* The handlers parse the content of a request as the type it names, as YAML
\* when it names none.
Parses(content, type) ==
    content # None => (IF type = "" THEN "yaml" ELSE type) \in content

\* What an INSERT makes of a row: gorm leaves a false is_active to the column,
\* whose default is TRUE.
Inserted(row) == [row EXCEPT !.status = "ROW", !.active = TRUE]

CreateTemplate(x, content, type) ==
    /\ template[x].status = "NEW"
    /\ Parses(content, type)
    /\ Once
    /\ template' = [template EXCEPT ![x] =
                       Inserted([@ EXCEPT !.content = content, !.type = type])]
    /\ UNCHANGED <<container, task>>

\* UpdateAppTemplate reads the row and changes what the request names.
ReadTemplate(p, x, content, type, active) ==
    /\ HasRow(x)
    /\ Parses(content, type)
    /\ Begin(p)
    /\ Becomes(p, [stage |-> "save", template |-> x,
                   row |-> [template[x] EXCEPT
                               !.content = IF content = None THEN @ ELSE content,
                               !.type = IF type = "" THEN @ ELSE type,
                               !.active = IF active = None THEN @ ELSE active]])
    /\ UNCHANGED <<template, container>>

\* Save's UPDATE of every column.
SaveTemplate(p) ==
    /\ task[p].stage = "save"
    /\ LET x == task[p].template IN
       /\ ~Locked(x)
       /\ IF HasRow(x)
          THEN /\ template' = [template EXCEPT ![x] = task[p].row]
               /\ Becomes(p, Idle)
          ELSE /\ Becomes(p, [task[p] EXCEPT !.stage = "insert"])
               /\ UNCHANGED template
    /\ UNCHANGED <<container, begun>>

\* When it changed no row, Save's INSERT ... ON CONFLICT DO UPDATE.
InsertTemplate(p) ==
    /\ task[p].stage = "insert"
    /\ ~Locked(task[p].template)
    /\ template' = [template EXCEPT ![task[p].template] = Inserted(task[p].row)]
    /\ Becomes(p, Idle)
    /\ UNCHANGED <<container, begun>>

\* (Mutation: the row is only marked as deleted.)
MarkDeleted(x) ==
    /\ HasRow(x)
    /\ ~Locked(x)
    /\ Unreferenced(x)
    /\ Once
    /\ template' = [template EXCEPT ![x].status = "GONE"]
    /\ UNCHANGED <<container, task>>

DeleteTemplate(x) ==
    /\ HasRow(x)
    /\ ~Locked(x)
    /\ Unreferenced(x)
    /\ Once
    /\ template' = [template EXCEPT ![x] = NoTemplate("GONE")]
    /\ UNCHANGED <<container, task>>

-----------------------------------------------------------------------------
(* Containers.                                                             *)

\* An admin may name the status too.
CreateContainer(c, row) ==
    /\ ~HasContainer(c)
    /\ References(c, row.template)
    /\ Once
    /\ container' = [container EXCEPT ![c] = row]
    /\ UNCHANGED <<template, task>>

\* UpdateContainer reads the row and changes its template (to another one, not to
\* none), its status, or something that does not matter here.
ReadContainer(p, c, row) ==
    /\ HasContainer(c)
    /\ row.template = None => container[c].template = None
    /\ Begin(p)
    /\ Becomes(p, [stage |-> "saveContainer", container |-> c, row |-> row])
    /\ UNCHANGED <<template, container>>

\* Its Save, which inserts the row again when it is gone.
SaveContainer(p) ==
    /\ task[p].stage = "saveContainer"
    /\ ~ContainerLocked(task[p].container)
    /\ References(task[p].container, task[p].row.template)
    /\ container' = [container EXCEPT ![task[p].container] = task[p].row]
    /\ Becomes(p, Idle)
    /\ UNCHANGED <<template, begun>>

DeleteContainer(c) ==
    /\ HasContainer(c)
    /\ ~ContainerLocked(c)
    /\ Once
    /\ container' = [container EXCEPT ![c] = NoContainer]
    /\ UNCHANGED <<template, task>>

-----------------------------------------------------------------------------
(* Deployments.                                                            *)

\* prepareDeploy locks the container, then the template it names, and looks at
\* both.
LockTemplate(p, c) ==
    LET x == container[c].template IN
    /\ container[c].status = "IDLE"
    /\ ~ContainerLocked(c)
    /\ x # None /\ HasRow(x) /\ ~Locked(x)
    /\ template[x].active
    /\ Begin(p)
    /\ Becomes(p, [stage |-> "deploy", container |-> c, template |-> x])
    /\ UNCHANGED <<template, container>>

\* The COMMIT of prepareDeploy.
StartDeploy(p) ==
    /\ task[p].stage = "deploy"
    /\ container' = [container EXCEPT ![task[p].container].status = "BUSY"]
    /\ Becomes(p, Idle)
    /\ UNCHANGED <<template, begun>>

\* failDeploy, or a reconciliation that finds the container stopped.
EndDeploy(c) ==
    /\ container[c].status = "BUSY"
    /\ container' = [container EXCEPT ![c].status = "IDLE"]
    /\ UNCHANGED <<template, task, begun>>

\* A statement fails or the server dies: a transaction is rolled back and its
\* locks are released.
Fail(p) ==
    /\ task[p] # Idle
    /\ Becomes(p, Idle)
    /\ UNCHANGED <<template, container, begun>>

Next ==
    \/ \E x \in Template :
           \/ \E content \in Contents \cup {None}, type \in Types :
                  CreateTemplate(x, content, type)
           \/ DeleteTemplate(x)
    \/ \E c \in Container :
           \/ \E row \in ContainerRow : CreateContainer(c, row)
           \/ DeleteContainer(c)
           \/ EndDeploy(c)
    \/ \E p \in Proc :
           \/ \E x \in Template, content \in Contents \cup {None}, type \in Types,
                 active \in BOOLEAN \cup {None} : ReadTemplate(p, x, content, type, active)
           \/ SaveTemplate(p)
           \/ InsertTemplate(p)
           \/ \E c \in Container : \/ \E row \in ContainerRow : ReadContainer(p, c, row)
                                   \/ LockTemplate(p, c)
           \/ SaveContainer(p)
           \/ StartDeploy(p)
           \/ Fail(p)

Spec == Init /\ [][Next]_vars

-----------------------------------------------------------------------------
(* Properties.                                                             *)

\* The template of a container is there, whatever saves and deletions overlap
\* (resource.go:211-213, 280-289; the foreign key of migration 000001).
TemplatesExist ==
    \A c \in Container : container[c].template # None => HasRow(container[c].template)

\* A deployment starts only when its template is active at that very moment: a
\* deactivation or deletion that overlaps prepareDeploy takes effect before it
\* looks, or after it has committed (resource.go:351-359).
StartsOnActive ==
    [][\A p \in Proc : (task[p].stage = "deploy" /\ container' # container
                            /\ task'[p] = Idle)
           => /\ template[task[p].template].active
              /\ container'[task[p].container].template = task[p].template]_vars

\* Whatever is stored as a configuration was parsed, in some supported format,
\* however partial updates overlap (handlers/resource.go:331-357, 409-435).
ContentParses ==
    \A x \in Template : template[x].content # None =>
                            \E format \in Formats : format \in template[x].content

\* What the handlers' comment claims, "Validate config content if provided":
\* a stored configuration parses as the type stored with it.  It does not hold:
\* an update that names no type is parsed as YAML and stored under the old type.
ContentHasItsType ==
    \A x \in Template : HasRow(x) => Parses(template[x].content, template[x].type)
=============================================================================
