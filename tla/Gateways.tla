------------------------------ MODULE Gateways ------------------------------
(***************************************************************************)
(* Payment gateways (plugins/billing/services/gateway.go and the admin     *)
(* handlers that call it) and the one decision taken on them: whether a    *)
(* top-up may be created, and what it costs (topup.go).                    *)
(*                                                                         *)
(* No operation here is a transaction.  An update reads the row, changes   *)
(* fields of the copy and saves all of it; a deletion counts top-ups, then *)
(* deletes; a top-up is checked against the row read, then inserted.  Each *)
(* statement is one step, and requests overlap between any two.            *)
(*                                                                         *)
(* Money is counted in cents, as the DECIMAL(15, 2) columns keep it.       *)
(***************************************************************************)
EXTENDS Integers

CONSTANTS
    Gateway,        \* gateway ids
    Topup,          \* top-up ids
    Proc,           \* concurrent requests
    Amounts,        \* amounts, as limits and as what is asked for, in cents
    FeePercentage,  \* of every gateway, in hundredths of a percent
    FeeFixed,       \* of every gateway, in cents
    MaxRequests,    \* bound: requests begun in a behaviour
    None            \* SQL NULL, or no row

ASSUME GatewayAssumption ==
    /\ Amounts \subseteq Nat \ {0}
    /\ FeePercentage \in Nat
    /\ FeeFixed \in Nat
    /\ MaxRequests \in Nat
    /\ None \notin Gateway

LiveRow == [status : {"ROW"}, active : BOOLEAN, min : Amounts, max : Amounts]
NoRow(s) == [status |-> s, active |-> FALSE, min |-> 0, max |-> 0]
GatewayRow == LiveRow \cup {NoRow("NEW"), NoRow("GONE")}

Edited(row, active, min, max) ==
    [row EXCEPT !.active = active, !.min = min, !.max = max]

\* (Mutation: limits may be zero.)
EditsWithZero(row) ==
    {Edited(row, a, lo, hi) : a \in BOOLEAN, lo \in Amounts \cup {0}, hi \in Amounts}

\* The rows a request can make out of `row`: its limits must be positive, and
\* nothing relates the one to the other.
Edits(row) ==
    {Edited(row, a, lo, hi) : a \in BOOLEAN, lo \in Amounts, hi \in Amounts}

Idle == [stage |-> "idle"]
Task ==
    {Idle}
        \cup [stage : {"save", "insert"}, gateway : Gateway, row : LiveRow,
              asks : BOOLEAN]
        \cup [stage : {"delete"}, gateway : Gateway]
        \cup [stage : {"topup"}, gateway : Gateway, amount : Amounts]

VARIABLES
    gateway,        \* table payment_gateways
    topup,          \* table topup_requests: gateway, amount, fee, total_paid
    task,           \* what each request still has to do
    off,            \* history: gateways that were switched off and that nobody
                    \* has asked to switch on since (see Toggle)
    begun           \* requests begun so far

vars == <<gateway, topup, task, off, begun>>

NoTopup == [gateway |-> None, amount |-> 0, fee |-> 0, total |-> 0]
NotOff == [how |-> "no", before |-> {}]

HasRow(g) == gateway[g].status = "ROW"
HasTopups(g) == \E t \in Topup : topup[t].gateway = g

TypeOK ==
    /\ gateway \in [Gateway -> GatewayRow]
    /\ topup \in [Topup -> [gateway : Gateway \cup {None}, amount : Amounts \cup {0},
                            fee : Nat, total : Nat]]
    /\ task \in [Proc -> Task]
    /\ off \in [Gateway -> [how : {"no", "quiet", "busy"}, before : SUBSET Proc]]
    /\ begun \in 0..MaxRequests

\* The migration has inserted some gateways, active and not.
Init ==
    /\ gateway \in [Gateway -> LiveRow \cup {NoRow("NEW")}]
    /\ topup = [t \in Topup |-> NoTopup]
    /\ task = [p \in Proc |-> Idle]
    /\ off = [g \in Gateway |-> NotOff]
    /\ begun = 0

-----------------------------------------------------------------------------
\* A request of one statement is one step; one of several is carried on by p.
Once == begun < MaxRequests /\ begun' = begun + 1

Begin(p) == task[p] = Idle /\ Once

Becomes(p, t) == task' = [task EXCEPT ![p] = t]

\* The histories: a request p that has ended is no longer one from before.
EndOf(p) == off' = [g \in Gateway |-> [off[g] EXCEPT !.before = @ \ {p}]]

\* What an INSERT makes of a row: gorm leaves a false is_active to the column,
\* whose default is TRUE.
Inserted(row) == [row EXCEPT !.status = "ROW", !.active = TRUE]

\* (Mutation: Save is an INSERT ... ON CONFLICT, defaults and all.)
SavedByUpsert(row) == Inserted(row)

\* What gorm's Save writes to a row that is there: every column, as given.
Saved(row) == row

-----------------------------------------------------------------------------
(* Administration.                                                         *)

CreateGateway(g) ==
    /\ gateway[g].status = "NEW"
    /\ Once
    /\ \E row \in Edits(NoRow("ROW")) : gateway' = [gateway EXCEPT ![g] = Inserted(row)]
    /\ UNCHANGED <<topup, task, off>>

\* AdminUpdateGateway reads the row and edits the copy; `asks` says that the
\* request names is_active, which otherwise stays as read.
ReadForUpdate(p, g) ==
    /\ HasRow(g)
    /\ Begin(p)
    /\ \E row \in Edits(gateway[g]), asks \in BOOLEAN :
           /\ asks \/ row.active = gateway[g].active
           /\ Becomes(p, [stage |-> "save", gateway |-> g, row |-> row, asks |-> asks])
           /\ off' = IF asks /\ row.active THEN [off EXCEPT ![g] = NotOff] ELSE off
    /\ UNCHANGED <<gateway, topup>>

\* Save's UPDATE.
SaveUpdate(p) ==
    /\ task[p].stage = "save"
    /\ LET g == task[p].gateway IN
       IF HasRow(g)
       THEN /\ gateway' = [gateway EXCEPT ![g] = Saved(task[p].row)]
            /\ Becomes(p, Idle)
       ELSE /\ Becomes(p, [task[p] EXCEPT !.stage = "insert"])
            /\ UNCHANGED gateway
    /\ UNCHANGED <<topup, off, begun>>

\* When it changed no row, Save's INSERT ... ON CONFLICT DO UPDATE.
SaveInsert(p) ==
    /\ task[p].stage = "insert"
    /\ gateway' = [gateway EXCEPT ![task[p].gateway] = Inserted(task[p].row)]
    /\ Becomes(p, Idle)
    /\ UNCHANGED <<topup, off, begun>>

Saving(p, g) == task[p].stage \in {"save", "insert"} /\ task[p].gateway = g
ToppingUp(p, g) == task[p].stage = "topup" /\ task[p].gateway = g

\* How a gateway that has just been switched off is off: `quiet` if no update
\* of it is under way, `busy` if one is that does not itself name is_active.
HowOff(g) ==
    [how |-> IF \A q \in Proc : ~Saving(q, g) THEN "quiet"
             ELSE IF \A q \in Proc : Saving(q, g) => ~task[q].asks THEN "busy"
             ELSE "no",
     before |-> {q \in Proc : ToppingUp(q, g)}]

\* ToggleGatewayStatus: one UPDATE of one column.
Toggle(g, on) ==
    /\ Once
    /\ IF HasRow(g)
       THEN /\ gateway' = [gateway EXCEPT ![g].active = on]
            /\ off' = [off EXCEPT ![g] = IF on THEN NotOff ELSE HowOff(g)]
       ELSE UNCHANGED <<gateway, off>>
    /\ UNCHANGED <<topup, task>>

\* DeleteGateway counts first, ...
CountForDelete(p, g) ==
    /\ ~HasTopups(g)
    /\ Begin(p)
    /\ Becomes(p, [stage |-> "delete", gateway |-> g])
    /\ UNCHANGED <<gateway, topup, off>>

\* (Mutation: topup_requests.gateway_id references nothing.)
NoForeignKey(g) == TRUE

\* The foreign key of topup_requests, as a DELETE of gateway g meets it.
Unreferenced(g) == ~HasTopups(g)

\* ... then deletes, which the foreign key may still refuse.
DeleteRow(p) ==
    /\ task[p].stage = "delete"
    /\ LET g == task[p].gateway IN
       IF HasRow(g) /\ Unreferenced(g)
       THEN /\ gateway' = [gateway EXCEPT ![g] = NoRow("GONE")]
            /\ off' = [off EXCEPT ![g] = NotOff]
       ELSE UNCHANGED <<gateway, off>>
    /\ Becomes(p, Idle)
    /\ UNCHANGED <<topup, begun>>

-----------------------------------------------------------------------------
(* Top-ups.                                                                *)

Accepts(row, amount) == row.active /\ row.min <= amount /\ amount <= row.max

\* CreateTopupRequest decides on the row it reads, ...
CheckTopup(p, g, amount) ==
    /\ HasRow(g)
    /\ Accepts(gateway[g], amount)
    /\ Begin(p)
    /\ Becomes(p, [stage |-> "topup", gateway |-> g, amount |-> amount])
    /\ UNCHANGED <<gateway, topup, off>>

\* In 1/10000 cents, the unit of a hundredth of a percent of a cent.
Cent == 10000
Fee(amount) == amount * FeePercentage + FeeFixed * Cent

\* (Mutation: total_paid leaves out the fixed part of the fee.)
TotalWithoutFixed(amount) == amount * Cent + amount * FeePercentage

TotalPaid(amount) == amount * Cent + Fee(amount)

\* What a DECIMAL(15, 2) column makes of x.  Halves are rounded up, but Go computed
\* x in float64 and a half may have become a little less.
Decimals(x) ==
    {(x + Cent \div 2) \div Cent}
        \cup (IF x % Cent = Cent \div 2 THEN {x \div Cent} ELSE {})

\* ... then inserts the top-up, unless the gateway is gone.
InsertTopup(p, t) ==
    /\ task[p].stage = "topup"
    /\ topup[t] = NoTopup
    /\ LET amount == task[p].amount IN
       IF HasRow(task[p].gateway)
       THEN \E fee \in Decimals(Fee(amount)), total \in Decimals(TotalPaid(amount)) :
                topup' = [topup EXCEPT ![t] = [gateway |-> task[p].gateway,
                                               amount |-> amount,
                                               fee |-> fee, total |-> total]]
       ELSE UNCHANGED topup
    /\ Becomes(p, Idle)
    /\ EndOf(p)
    /\ UNCHANGED <<gateway, begun>>

\* Deleting a customer cascades to its top-ups.
CascadeTopup(t) ==
    /\ topup[t] # NoTopup
    /\ topup' = [topup EXCEPT ![t] = NoTopup]
    /\ UNCHANGED <<gateway, task, off, begun>>

\* A statement fails or the server dies: what is done stays, the rest is not.
Fail(p) ==
    /\ task[p] # Idle
    /\ Becomes(p, Idle)
    /\ EndOf(p)
    /\ UNCHANGED <<gateway, topup, begun>>

Next ==
    \/ \E g \in Gateway :
           \/ CreateGateway(g)
           \/ \E on \in BOOLEAN : Toggle(g, on)
    \/ \E p \in Proc, g \in Gateway :
           \/ ReadForUpdate(p, g)
           \/ CountForDelete(p, g)
           \/ \E amount \in Amounts : CheckTopup(p, g, amount)
    \/ \E p \in Proc :
           \/ SaveUpdate(p)
           \/ SaveInsert(p)
           \/ DeleteRow(p)
           \/ \E t \in Topup : InsertTopup(p, t)
           \/ Fail(p)
    \/ \E t \in Topup : CascadeTopup(t)

Spec == Init /\ [][Next]_vars

-----------------------------------------------------------------------------
(* Properties.                                                             *)

\* A top-up always has its gateway, although a deletion counts top-ups in one
\* statement and deletes in another, and a top-up checks its gateway in one and
\* is inserted in another (gateway.go:74-85, topup.go:60-97).
TopupsHaveGateway ==
    \A t \in Topup : topup[t] # NoTopup => HasRow(topup[t].gateway)

\* A gateway that was switched off while no update of it was under way is off,
\* whatever updates have run since, until it is deleted or somebody asks to
\* switch it on; and every top-up of it still to be inserted was checked before
\* (gateway.go:90-94, admin.go:495-515, topup.go:69).
OffStaysOff ==
    \A g \in Gateway : off[g].how = "quiet" =>
        /\ HasRow(g) => ~gateway[g].active
        /\ \A p \in Proc : ToppingUp(p, g) => p \in off[g].before

\* What a top-up's customer pays is its amount and its fee, give or take the one cent
\* by which the two rounded columns may differ from their rounded sum
\* (topup.go:79-80, 95; the column types of migration 000001).
TotalNearSum ==
    \A t \in Topup : topup[t].total - (topup[t].amount + topup[t].fee) \in {-1, 0, 1}

\* What the schema says of total_paid, "amount + fee".  It does not hold: half a cent
\* of fee may be rounded up alone and down in the sum.
TotalIsSum == \A t \in Topup : topup[t].total = topup[t].amount + topup[t].fee

\* What the comment of ToggleGatewayStatus promises, "Enable/disable gateway":
\* a disabled gateway is disabled until somebody asks to enable it.  It does not
\* hold: an update that read the row before saves is_active as it was.
DisabledUntilEnabled ==
    \A g \in Gateway : off[g].how # "no" => ~(HasRow(g) /\ gateway[g].active)

\* What the comment of DeleteGateway promises, "Delete payment gateway": a deleted
\* gateway does not come back.  It does not hold: the Save of an update that read
\* the row before inserts it again.
DeletedStaysDeleted ==
    [][\A g \in Gateway : gateway[g].status = "GONE" => gateway'[g].status = "GONE"]_vars
=============================================================================
