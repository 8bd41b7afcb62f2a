------------------------------ MODULE Billing ------------------------------
(***************************************************************************)
(* The settlement core of the billing plugin: wallets, their ledger, and   *)
(* the top-ups that credit them (plugins/billing/services/wallet.go,       *)
(* topup.go, purchase.go), together with the customer rows of the auth     *)
(* plugin they hang on.                                                    *)
(*                                                                         *)
(* A process is one HTTP request being served.  Its handler runs one       *)
(* PostgreSQL transaction at READ COMMITTED, and the steps of the model    *)
(* are the points where other requests can get in between: every SELECT    *)
(* ... FOR UPDATE (which waits for the row lock, then reads the latest     *)
(* committed row), and the COMMIT.  What the statements between them write *)
(* is seen by no other transaction before the COMMIT, so the COMMIT step   *)
(* makes all the writes of the transaction at once; Abort is the           *)
(* transaction that never gets there.                                      *)
(*                                                                         *)
(* The handlers take amounts as floats, with any number of decimals, and   *)
(* the columns are DECIMAL(15,2).  What a request carries is therefore in  *)
(* parts of a cent, what a row holds in cents, and Column is the rounding  *)
(* between the two.                                                        *)
(***************************************************************************)
EXTENDS Integers, Sequences

CONSTANTS
    Customer,       \* customer ids
    Topup,          \* topup_requests ids (UUIDs: an id is used for one row only)
    Proc,           \* concurrent requests
    Cent,           \* parts that a cent is divided into
    Amounts,        \* positive amounts a caller may ask for, in such parts
    MaxRequests,    \* bound: requests begun in a behaviour
    None            \* SQL NULL, and "nobody" as the holder of a row lock

ASSUME BillingAssumption ==
    /\ Cent \in Nat \ {0}
    /\ Amounts \subseteq Nat \ {0}
    /\ MaxRequests \in Nat
    /\ None \notin Customer \cup Topup \cup Proc

\* The topup_status enum, and two states a row id can be in without a row.
TopupStatus == {"PENDING", "SUCCESS", "EXPIRED", "FAILED", "CANCELLED"}
NoRow == {"NEW", "GONE"}

\* The transaction_type values the services write.
EntryType == {"TOPUP", "PURCHASE", "REFUND", "ADMIN_ADJUSTMENT"}

Operation == {"adjust", "refund", "purchase",          \* wallet only
              "webhook", "confirm", "cancel",          \* top-up row first
              "create", "delete", "update"}            \* rows come and go

WalletOps == {"adjust", "refund", "purchase"}
TopupOps == {"webhook", "confirm", "cancel"}

\* What a DECIMAL(15, 2) column makes of x parts of a cent: the nearest cent.  The
\* code computes in binary floating point, so half a cent may go either way.
Column(x) ==
    {n \in {x \div Cent, x \div Cent + 1} :
        -Cent <= 2 * (n * Cent - x) /\ 2 * (n * Cent - x) <= Cent}

\* The amounts asked for, as the columns have them.
Cents == UNION {Column(a) : a \in Amounts}

\* A row of topup_requests.  external says that external_id is not NULL.
Row == [status : TopupStatus \cup NoRow, owner : Customer \cup {None},
        amount : Nat, external : BOOLEAN]
NewRow == [status |-> "NEW", owner |-> None, amount |-> 0, external |-> FALSE]

\* A row of wallet_transactions: topup is reference_id when it names a top-up.
Entry == [type : EntryType, amount : Int, before : Int, after : Int,
          topup : Topup \cup {None}]

\* What a request carries.  amount is the signed mutation of the wallet in parts
\* of a cent, status what the request wants the top-up to become ("INVALID" stands for
\* every string that is not in the topup_status enum, or no status at all).
Request == [op : Operation, customer : Customer \cup {None},
            topup : Topup \cup {None}, amount : Int,
            status : TopupStatus \cup {"INVALID", "NONE"}]
RequestOf(op, c, t, a, s) ==
    [op |-> op, customer |-> c, topup |-> t, amount |-> a, status |-> s]
NoRequest == RequestOf("adjust", None, None, 0, "NONE")

\* Where a request is: waiting for a row lock, or ready to commit.
Stage == {"idle", "lockTopup", "lockCustomer", "insertTopup", "cascade",
          "saveCustomer", "commit"}

VARIABLES
    customers,      \* the ids that have a row in customers
    balance,        \* customers.wallet_balance
    ledger,         \* wallet_transactions, per customer in commit order
    topup,          \* topup_requests
    topupLock,      \* holder of the row lock of each top-up
    customerLock,   \* holder of the row lock of each customer
    pc,             \* stage of each request
    req,            \* the request each process serves
    seen,           \* wallet balance RecordTransaction read under its lock
    begun           \* requests begun so far

tables == <<customers, balance, ledger, topup>>
locks == <<topupLock, customerLock>>
vars == <<customers, balance, ledger, topup, topupLock, customerLock,
          pc, req, seen, begun>>

Exists(t) == topup[t].status \in TopupStatus

TypeOK ==
    /\ customers \subseteq Customer
    /\ balance \in [Customer -> Int]
    /\ ledger \in [Customer -> Seq(Entry)]
    /\ topup \in [Topup -> Row]
    /\ topupLock \in [Topup -> Proc \cup {None}]
    /\ customerLock \in [Customer -> Proc \cup {None}]
    /\ pc \in [Proc -> Stage]
    /\ req \in [Proc -> Request]
    /\ seen \in [Proc -> Int]
    /\ begun \in Nat

Init ==
    /\ customers = Customer
    /\ balance = [c \in Customer |-> 0]
    /\ ledger = [c \in Customer |-> <<>>]
    /\ topup = [t \in Topup |-> NewRow]
    /\ topupLock = [t \in Topup |-> None]
    /\ customerLock = [c \in Customer |-> None]
    /\ pc = [p \in Proc |-> "idle"]
    /\ req = [p \in Proc |-> NoRequest]
    /\ seen = [p \in Proc |-> 0]
    /\ begun = 0

-----------------------------------------------------------------------------
(* Beginning a request: what the handler and the service check before the  *)
(* first statement that waits.                                             *)

Begin(p, r, stage) ==
    /\ pc[p] = "idle"
    /\ begun < MaxRequests
    /\ begun' = begun + 1
    /\ req' = [req EXCEPT ![p] = r]
    /\ pc' = [pc EXCEPT ![p] = stage]
    /\ UNCHANGED <<tables, locks, seen>>

\* Admin correction, either sign; zero is refused before the transaction.
AdjustBalance(p, c, a) ==
    /\ a # 0
    /\ Begin(p, RequestOf("adjust", c, None, a, "NONE"), "lockCustomer")

\* Refund by an admin: a positive credit, checked against no earlier purchase.
RefundBalance(p, c, a) ==
    /\ a > 0
    /\ Begin(p, RequestOf("refund", c, None, a, "NONE"), "lockCustomer")

\* Purchase: DeductBalance runs in the transaction of its caller.
DeductBalance(p, c, a) ==
    /\ a > 0
    /\ Begin(p, RequestOf("purchase", c, None, -a, "NONE"), "lockCustomer")

\* The notifications of the providers and the status each is mapped to.
MidtransNotification == {"capture_accept", "capture_other", "settlement", "pending",
                         "deny", "cancel", "expire", "other"}
MidtransStatus(n) ==
    CASE n \in {"capture_accept", "settlement"} -> "SUCCESS"
      [] n \in {"deny", "cancel", "expire"}     -> "FAILED"
      [] OTHER                                  -> "PENDING"

XenditNotification == {"PAID", "PENDING", "EXPIRED", "FAILED", "other"}
XenditStatus(n) ==
    CASE n = "PAID"                -> "SUCCESS"
      [] n \in {"EXPIRED", "FAILED"} -> "FAILED"
      [] OTHER                     -> "PENDING"

\* The payment endpoint passes any string through.
GenericStatus(n) == IF n \in TopupStatus THEN n ELSE "INVALID"

WebhookStatus ==
    {MidtransStatus(n) : n \in MidtransNotification}
        \cup {XenditStatus(n) : n \in XenditNotification}
        \cup {GenericStatus(n) : n \in TopupStatus \cup {"other"}}

\* A delivery of a notification.  The provider may deliver it late, twice or
\* out of order: any status, any number of times, whatever the row says now.
ProcessWebhook(p, t, s) ==
    /\ Begin(p, RequestOf("webhook", None, t, 0, s), "lockTopup")

ManualConfirmation(p, t) ==
    /\ Begin(p, RequestOf("confirm", None, t, 0, "SUCCESS"), "lockTopup")

CancelTopup(p, t) ==
    /\ Begin(p, RequestOf("cancel", None, t, 0, "CANCELLED"), "lockTopup")

\* The customer's own endpoint first reads the row, unlocked, to check who
\* owns it; a row never changes owner.
CustomerCancelTopup(p, c, t) ==
    /\ Exists(t)
    /\ topup[t].owner = c
    /\ CancelTopup(p, t)

\* The amount and the gateway have passed the checks of CreateTopupRequest;
\* the row is inserted next.
CreateTopupRequest(p, c, t, a) ==
    /\ a > 0
    /\ topup[t].status = "NEW"
    /\ \A q \in Proc : pc[q] = "insertTopup" => req[q].topup # t   \* a fresh UUID
    /\ Begin(p, RequestOf("create", c, t, a, "NONE"), "insertTopup")

DeleteCustomer(p, c) ==
    /\ Begin(p, RequestOf("delete", c, None, 0, "NONE"), "lockCustomer")

\* UpdateCustomerHandler reads the row, then saves all of it.
UpdateCustomer(p, c) ==
    /\ c \in customers
    /\ Begin(p, RequestOf("update", c, None, 0, "NONE"), "saveCustomer")

-----------------------------------------------------------------------------
(* The transaction: locks, then commit.                                    *)

\* (Mutation: a ROLLBACK or COMMIT that leaves the customer row locked.)
FinishKeepingLock(p) ==
    /\ pc' = [pc EXCEPT ![p] = "idle"]
    /\ req' = [req EXCEPT ![p] = NoRequest]
    /\ seen' = [seen EXCEPT ![p] = 0]
    /\ topupLock' = [t \in Topup |-> IF topupLock[t] = p THEN None ELSE topupLock[t]]
    /\ UNCHANGED <<customerLock, begun>>

\* The end of a transaction, committed or not: the request is answered and
\* every row lock it holds is free.
Finish(p) ==
    /\ pc' = [pc EXCEPT ![p] = "idle"]
    /\ req' = [req EXCEPT ![p] = NoRequest]
    /\ seen' = [seen EXCEPT ![p] = 0]
    /\ topupLock' = [t \in Topup |-> IF topupLock[t] = p THEN None ELSE topupLock[t]]
    /\ customerLock' =
           [c \in Customer |-> IF customerLock[c] = p THEN None ELSE customerLock[c]]
    /\ UNCHANGED begun

\* A service returned an error: ROLLBACK.
Rollback(p) == Finish(p) /\ UNCHANGED tables

\* (Mutations: the status string is not checked; a paid top-up is not ignored;
\* a top-up is cancelled whatever its status.)
AcceptsAnyString(r, row) ==
    CASE r.op = "webhook" -> row.status # "SUCCESS"
      [] OTHER            -> row.status = "PENDING"
AcceptsPaid(r, row) ==
    CASE r.op = "webhook" -> r.status \in TopupStatus
      [] OTHER            -> row.status = "PENDING"
AcceptsAnyCancel(r, row) ==
    CASE r.op = "webhook" -> row.status # "SUCCESS" /\ r.status \in TopupStatus
      [] r.op = "cancel"  -> TRUE
      [] OTHER            -> row.status = "PENDING"

\* Whether the row, as read under its lock, lets the request go on.
Accepts(r, row) ==
    CASE r.op = "webhook" -> row.status # "SUCCESS" /\ r.status \in TopupStatus
      [] OTHER            -> row.status = "PENDING"

\* The SELECT of the row by id, or by external_id for a webhook.
Found(r, row) ==
    /\ row.status \in TopupStatus
    /\ r.op = "webhook" => row.external

\* (Mutations: the row is read without FOR UPDATE; the total paid, fee included,
\* is credited.)
ReadTopupUnlocked(p) ==
    LET t == req[p].topup IN
    /\ pc[p] = "lockTopup"
    /\ \/ /\ Found(req[p], topup[t])
          /\ Accepts(req[p], topup[t])
          /\ req' = [req EXCEPT ![p] =
                       RequestOf(@.op, topup[t].owner, t, topup[t].amount * Cent, @.status)]
          /\ pc' = [pc EXCEPT ![p] =
                       IF req[p].status = "SUCCESS" THEN "lockCustomer" ELSE "commit"]
          /\ UNCHANGED <<tables, locks, seen, begun>>
       \/ /\ ~(Found(req[p], topup[t]) /\ Accepts(req[p], topup[t]))
          /\ Rollback(p)
LockTopupCreditingFee(p) ==
    LET t == req[p].topup IN
    /\ pc[p] = "lockTopup"
    /\ Found(req[p], topup[t])
    /\ topupLock[t] = None
    /\ Accepts(req[p], topup[t])
    /\ topupLock' = [topupLock EXCEPT ![t] = p]
    /\ req' = [req EXCEPT ![p] =
                 RequestOf(@.op, topup[t].owner, t, (topup[t].amount + 1) * Cent, @.status)]
    /\ pc' = [pc EXCEPT ![p] =
                 IF req[p].status = "SUCCESS" THEN "lockCustomer" ELSE "commit"]
    /\ UNCHANGED <<tables, customerLock, seen, begun>>

LockTopup(p) ==
    LET t == req[p].topup IN
    /\ pc[p] = "lockTopup"
    /\ \/ /\ Found(req[p], topup[t])
          /\ topupLock[t] = None
          /\ Accepts(req[p], topup[t])
          /\ topupLock' = [topupLock EXCEPT ![t] = p]
          /\ req' = [req EXCEPT ![p] =
                       RequestOf(@.op, topup[t].owner, t, topup[t].amount * Cent, @.status)]
          /\ pc' = [pc EXCEPT ![p] =
                       IF req[p].status = "SUCCESS" THEN "lockCustomer" ELSE "commit"]
          /\ UNCHANGED <<tables, customerLock, seen, begun>>
       \/ /\ Found(req[p], topup[t])
          /\ topupLock[t] = None
          /\ ~Accepts(req[p], topup[t])
          /\ Rollback(p)
       \/ /\ ~Found(req[p], topup[t])
          /\ Rollback(p)

\* (Mutation: the balance is read without FOR UPDATE.)
RecordTransactionUnlocked(p) ==
    LET c == req[p].customer IN
    /\ pc[p] = "lockCustomer"
    /\ req[p].op # "delete"
    /\ c \in customers
    /\ balance[c] * Cent + req[p].amount >= 0
    /\ seen' = [seen EXCEPT ![p] = balance[c]]
    /\ pc' = [pc EXCEPT ![p] = "commit"]
    /\ UNCHANGED <<tables, locks, req, begun>>

\* RecordTransaction, up to its checks: refuse to move nothing, SELECT the
\* customer FOR UPDATE, refuse a balance that would become negative.
RecordTransaction(p) ==
    LET c == req[p].customer IN
    /\ pc[p] = "lockCustomer"
    /\ req[p].op # "delete"
    /\ \/ /\ req[p].amount # 0
          /\ c \in customers
          /\ customerLock[c] = None
          /\ balance[c] * Cent + req[p].amount >= 0
          /\ customerLock' = [customerLock EXCEPT ![c] = p]
          /\ seen' = [seen EXCEPT ![p] = balance[c]]
          /\ pc' = [pc EXCEPT ![p] = "commit"]
          /\ UNCHANGED <<tables, topupLock, req, begun>>
       \/ /\ c \in customers
          /\ customerLock[c] = None
          /\ balance[c] * Cent + req[p].amount < 0
          /\ Rollback(p)
       \/ /\ req[p].amount = 0 \/ c \notin customers
          /\ Rollback(p)

\* Whether the request credits the wallet with a top-up, or moves it at all.
Settles(r) == r.op \in {"webhook", "confirm"} /\ r.status = "SUCCESS"
Moves(r) == r.op \in WalletOps \/ Settles(r)

EntryFor(r, amount, before, after) ==
    [type   |-> CASE r.op = "adjust"   -> "ADMIN_ADJUSTMENT"
                  [] r.op = "refund"   -> "REFUND"
                  [] r.op = "purchase" -> "PURCHASE"
                  [] OTHER             -> "TOPUP",
     amount |-> amount,
     before |-> before,
     after  |-> after,
     topup  |-> r.topup]

\* COMMIT of a transaction that changes a top-up, a wallet, or both: the new
\* status, the balance RecordTransaction computed and its ledger entry.  The sum is
\* computed once and rounded alike wherever it is stored; the amount is rounded by
\* itself.
Commit(p) ==
    LET r == req[p]
        c == r.customer
    IN  /\ pc[p] = "commit"
        /\ topup' = IF r.op \in TopupOps
                    THEN [topup EXCEPT ![r.topup].status = r.status]
                    ELSE topup
        /\ IF Moves(r)
           THEN \E amount \in Column(r.amount), after \in Column(seen[p] * Cent + r.amount) :
                   /\ balance' = [balance EXCEPT ![c] = after]
                   /\ ledger' = [ledger EXCEPT ![c] =
                                    Append(@, EntryFor(r, amount, seen[p], after))]
           ELSE UNCHANGED <<balance, ledger>>
        /\ UNCHANGED customers
        /\ Finish(p)

\* INSERT INTO topup_requests.  The foreign key takes a KEY SHARE lock on the
\* customer, which waits for a FOR UPDATE lock or a DELETE, and fails if the
\* row is gone.
InsertTopup(p) ==
    LET r == req[p] IN
    /\ pc[p] = "insertTopup"
    /\ \/ /\ r.customer \in customers
          /\ customerLock[r.customer] = None
          /\ \E amount \in Column(r.amount) :
                topup' = [topup EXCEPT ![r.topup] =
                            [status |-> "PENDING", owner |-> r.customer,
                             amount |-> amount, external |-> FALSE]]
          /\ UNCHANGED <<customers, balance, ledger>>
          /\ Finish(p)
       \/ /\ r.customer \notin customers
          /\ Rollback(p)

\* The payment integration gives the row its external_id.  No code of the
\* repository does (a TODO of CreateTopupRequest), but webhooks find a row by
\* nothing else.
AssignExternalId(t) ==
    /\ topup[t].status = "PENDING"
    /\ ~topup[t].external
    /\ topupLock[t] = None
    /\ topup' = [topup EXCEPT ![t].external = TRUE]
    /\ UNCHANGED <<customers, balance, ledger, locks, pc, req, seen, begun>>

\* DELETE FROM customers: the row lock first, then ON DELETE CASCADE deletes
\* (and therefore locks) the customer's top-ups one by one, then COMMIT.
LockDeletedCustomer(p) ==
    LET c == req[p].customer IN
    /\ pc[p] = "lockCustomer"
    /\ req[p].op = "delete"
    /\ \/ /\ c \in customers
          /\ customerLock[c] = None
          /\ customerLock' = [customerLock EXCEPT ![c] = p]
          /\ pc' = [pc EXCEPT ![p] = "cascade"]
          /\ UNCHANGED <<tables, topupLock, req, seen, begun>>
       \/ /\ c \notin customers
          /\ Rollback(p)

Owned(c) == {t \in Topup : Exists(t) /\ topup[t].owner = c}

LockOwnedTopup(p, t) ==
    /\ pc[p] = "cascade"
    /\ t \in Owned(req[p].customer)
    /\ topupLock[t] = None
    /\ topupLock' = [topupLock EXCEPT ![t] = p]
    /\ UNCHANGED <<tables, customerLock, pc, req, seen, begun>>

\* (Mutation: the cascade does not wait for top-up rows locked by others.)
CommitDeleteAtOnce(p) ==
    LET c == req[p].customer IN
    /\ pc[p] = "cascade"
    /\ customers' = customers \ {c}
    /\ balance' = [balance EXCEPT ![c] = 0]
    /\ ledger' = [ledger EXCEPT ![c] = <<>>]
    /\ topup' = [t \in Topup |-> IF t \in Owned(c)
                                 THEN [NewRow EXCEPT !.status = "GONE"]
                                 ELSE topup[t]]
    /\ Finish(p)

CommitDelete(p) ==
    LET c == req[p].customer IN
    /\ pc[p] = "cascade"
    /\ \A t \in Owned(c) : topupLock[t] = p
    /\ customers' = customers \ {c}
    /\ balance' = [balance EXCEPT ![c] = 0]
    /\ ledger' = [ledger EXCEPT ![c] = <<>>]
    /\ topup' = [t \in Topup |-> IF t \in Owned(c)
                                 THEN [NewRow EXCEPT !.status = "GONE"]
                                 ELSE topup[t]]
    /\ Finish(p)

\* gorm's Save: UPDATE by id and, when that matched no row, INSERT.  The auth
\* model has no wallet column, so an UPDATE leaves the balance alone and an
\* INSERT takes the column's default, 0.
SaveCustomer(p) ==
    LET c == req[p].customer IN
    /\ pc[p] = "saveCustomer"
    /\ customerLock[c] = None
    /\ customers' = customers \cup {c}
    /\ UNCHANGED <<balance, ledger, topup>>
    /\ Finish(p)

-----------------------------------------------------------------------------
(* Failures.                                                               *)

\* A statement fails, the connection drops, or the server process dies: the
\* database rolls the open transaction back and frees its locks.
Abort(p) ==
    /\ pc[p] # "idle"
    /\ Rollback(p)

\* q holds a row lock that p waits for.
WaitsFor(p, q) ==
    \/ /\ pc[p] = "lockTopup"
       /\ Found(req[p], topup[req[p].topup])
       /\ topupLock[req[p].topup] = q
    \/ /\ pc[p] \in {"lockCustomer", "insertTopup", "saveCustomer"}
       /\ req[p].customer \in customers
       /\ customerLock[req[p].customer] = q
    \/ /\ pc[p] = "cascade"
       /\ \E t \in Owned(req[p].customer) : topupLock[t] = q /\ q # p

\* Two transactions that wait for each other; PostgreSQL's detector picks one
\* of them and rolls it back.
Deadlocked(p) == \E q \in Proc \ {p} : WaitsFor(p, q) /\ WaitsFor(q, p)
DeadlockVictim(p) == Deadlocked(p) /\ Rollback(p)

-----------------------------------------------------------------------------
BeginRequest(p) ==
    \/ \E c \in Customer, a \in Amounts :
          \/ AdjustBalance(p, c, a)
          \/ AdjustBalance(p, c, -a)
          \/ RefundBalance(p, c, a)
          \/ DeductBalance(p, c, a)
          \/ \E t \in Topup : CreateTopupRequest(p, c, t, a)
    \/ \E t \in Topup :
          \/ \E s \in WebhookStatus : ProcessWebhook(p, t, s)
          \/ ManualConfirmation(p, t)
          \/ CancelTopup(p, t)
          \/ \E c \in Customer : CustomerCancelTopup(p, c, t)
    \/ \E c \in Customer : DeleteCustomer(p, c) \/ UpdateCustomer(p, c)

Progress(p) ==
    \/ LockTopup(p)
    \/ RecordTransaction(p)
    \/ Commit(p)
    \/ InsertTopup(p)
    \/ LockDeletedCustomer(p)
    \/ \E t \in Topup : LockOwnedTopup(p, t)
    \/ CommitDelete(p)
    \/ SaveCustomer(p)
    \/ DeadlockVictim(p)

Next ==
    \/ \E p \in Proc : BeginRequest(p) \/ Progress(p) \/ Abort(p)
    \/ \E t \in Topup : AssignExternalId(t)

Spec == Init /\ [][Next]_vars

\* A request is never abandoned half-way: its goroutine runs on, PostgreSQL
\* grants a row lock that stays free, and its deadlock detector runs.  Nothing
\* is assumed of callers, nor of failures.
FairSpec == Spec /\ \A p \in Proc : WF_vars(Progress(p))

-----------------------------------------------------------------------------
(* Properties.                                                             *)

\* By how much an entry misses the sum of its own columns.
Drift(e) == e.after - (e.before + e.amount)

\* Every ledger is an unbroken account: each entry starts from the balance the
\* one before it left (the first from 0), ends at that plus its amount and is
\* never below zero; the last one ends at customers.wallet_balance.  The three
\* columns are rounded apart from each other, so the amount may miss by a cent;
\* that of a top-up, which comes from a column itself, may not.  A lost update of
\* the balance, or a balance written without its entry, breaks it.
LedgerChain ==
    \A c \in Customer :
        LET L == ledger[c] IN
        /\ \A i \in 1..Len(L) :
              /\ L[i].before = IF i = 1 THEN 0 ELSE L[i - 1].after
              /\ Drift(L[i]) \in -1..1
              /\ L[i].type = "TOPUP" => Drift(L[i]) = 0
              /\ L[i].after >= 0
        /\ balance[c] = IF L = <<>> THEN 0 ELSE L[Len(L)].after

\* However often a payment is notified, and whoever confirms it meanwhile: a
\* top-up that is SUCCESS has been credited by exactly one entry, to its owner
\* and for its amount, and one that is not SUCCESS by none.
CreditedOnce ==
    /\ \A c \in Customer : \A i \in 1..Len(ledger[c]) :
          LET t == ledger[c][i].topup IN
          t # None => /\ topup[t].status = "SUCCESS"
                      /\ topup[t].owner = c
                      /\ topup[t].amount = ledger[c][i].amount
                      /\ \A j \in 1..Len(ledger[c]) : ledger[c][j].topup = t => j = i
    /\ \A t \in Topup : topup[t].status = "SUCCESS" =>
          \E i \in 1..Len(ledger[topup[t].owner]) : ledger[topup[t].owner][i].topup = t

\* A payment that has locked its top-up row always finds the customer to
\* credit: the cascade of DeleteCustomer cannot get past the locked row.
CreditFindsCustomer ==
    \A p \in Proc :
        pc[p] = "lockCustomer" /\ req[p].op \in TopupOps => req[p].customer \in customers

\* The inductive invariant behind the properties above.  What the stage of a
\* request says about the row locks it holds, and that what it remembers of a
\* locked row still is what the row says.
Asked(a) == a \in Amounts \/ -a \in Amounts
HoldsItsRows(p) ==
    LET r == req[p] IN
    /\ pc[p] = "lockTopup" =>
          /\ r.op \in TopupOps
          /\ r.topup \in Topup
          /\ r.op = "cancel" => r.status = "CANCELLED"
          /\ r.op = "confirm" => r.status = "SUCCESS"
    /\ pc[p] = "lockCustomer" =>
          /\ r.op \in WalletOps \cup {"webhook", "confirm", "delete"}
          /\ r.customer \in Customer
          /\ r.op \in TopupOps => r.status = "SUCCESS"
    /\ pc[p] = "commit" =>
          /\ r.op \in WalletOps \cup TopupOps
          /\ r.customer \in Customer
          /\ r.op \in TopupOps => r.status \in TopupStatus
          /\ r.op = "cancel" => r.status = "CANCELLED"
          /\ Moves(r) => /\ customerLock[r.customer] = p
                         /\ seen[p] = balance[r.customer]
                         /\ seen[p] * Cent + r.amount >= 0
    /\ pc[p] \in {"lockCustomer", "commit"} /\ r.op \in WalletOps =>
          /\ r.topup = None
          /\ Asked(r.amount)
    /\ pc[p] \in {"lockCustomer", "commit"} /\ r.op \in TopupOps =>
          /\ r.topup \in Topup
          /\ topupLock[r.topup] = p
          /\ topup[r.topup].status \in TopupStatus \ {"SUCCESS"}
          /\ topup[r.topup].owner = r.customer
          /\ topup[r.topup].amount * Cent = r.amount
    /\ pc[p] = "insertTopup" =>
          /\ r.customer \in Customer
          /\ r.topup \in Topup
          /\ r.amount \in Amounts
          /\ topup[r.topup].status = "NEW"
    /\ pc[p] = "cascade" =>
          /\ r.customer \in Customer
          /\ customerLock[r.customer] = p
    /\ pc[p] = "saveCustomer" => r.customer \in Customer

LockProtocol == \A p \in Proc : HoldsItsRows(p)

\* No two requests are about to insert the same top-up row.
FreshIds ==
    \A p, q \in Proc :
        /\ pc[p] = "insertTopup"
        /\ pc[q] = "insertTopup"
        /\ req[p].topup = req[q].topup
        => p = q

\* The foreign key of topup_requests, and that only asked amounts are billed.
ForeignKey ==
    \A t \in Topup : topup[t].status \in TopupStatus =>
        topup[t].owner \in customers /\ topup[t].amount \in Cents

Core == TypeOK /\ LockProtocol /\ FreshIds /\ ForeignKey
IInv == Core /\ LedgerChain /\ CreditedOnce

\* No request, whatever comes late, takes a SUCCESS top-up back: it stays
\* SUCCESS until its customer is deleted.
SuccessIsFinal ==
    [][\A t \in Topup : topup[t].status = "SUCCESS" =>
           topup'[t].status \in {"SUCCESS", "GONE"}]_vars

\* The money promises of WalletLedger hold of the committed tables.
Abstract == INSTANCE WalletLedger WITH
    Amounts <- Cents,
    wallet <- balance,
    paid   <- {t \in Topup : topup[t].status = "SUCCESS"},
    bill   <- [t \in Topup |->
                 CASE topup[t].status = "NEW"  -> [state |-> "none"]
                   [] topup[t].status = "GONE" -> [state |-> "void"]
                   [] OTHER -> [state |-> "due", owner |-> topup[t].owner,
                                amount |-> topup[t].amount]]
WalletRefinement == Abstract!Spec

\* Every request that was begun is answered.
EveryRequestEnds == \A p \in Proc : pc[p] # "idle" ~> pc[p] = "idle"

\* The comment on wallet_transactions calls it an append-only audit trail of
\* every mutation of a balance: no entry, once written, is ever gone.
AuditTrailAppendOnly ==
    [][\A c \in Customer :
          /\ Len(ledger'[c]) >= Len(ledger[c])
          /\ \A i \in 1..Len(ledger[c]) : ledger'[c][i] = ledger[c][i]]_vars

=============================================================================
