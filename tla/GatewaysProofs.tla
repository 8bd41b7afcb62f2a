--------------------------- MODULE GatewaysProofs ---------------------------
(***************************************************************************)
(* What Gateways.tla promises, for any number of gateways, top-ups and     *)
(* requests, any amounts and any fee.                                      *)
(*                                                                         *)
(* TopupsHaveGateway is inductive beside the types.  OffStaysOff is not:   *)
(* Quiet adds that a gateway off for good has its row, and that every      *)
(* update of it under way has read it off and is still to UPDATE it.       *)
(***************************************************************************)
EXTENDS Gateways, TLAPS

Quiet ==
    \A g \in Gateway : off[g].how = "quiet" =>
        /\ HasRow(g)
        /\ ~gateway[g].active
        /\ \A p \in Proc : Saving(p, g) => /\ task[p].stage = "save"
                                           /\ task[p].row.active = FALSE
        /\ \A p \in Proc : ToppingUp(p, g) => p \in off[g].before

TopupsNameGateway == \A t \in Topup : topup[t] # NoTopup => topup[t].gateway \in Gateway

IInv ==
    /\ TypeOK
    /\ TopupsNameGateway
    /\ TopupsHaveGateway
    /\ Quiet
    /\ TotalNearSum

-----------------------------------------------------------------------------
(* What a task carries, by its stage.                                      *)

LEMMA SaveTask ==
    ASSUME NEW w \in Task, w.stage \in {"save", "insert"}
    PROVE  /\ w.gateway \in Gateway
           /\ w.row \in LiveRow
           /\ w.asks \in BOOLEAN
           /\ [w EXCEPT !.stage = "insert"] \in Task
           /\ [w EXCEPT !.stage = "insert"].stage = "insert"
           /\ [w EXCEPT !.stage = "insert"].gateway = w.gateway
<1>1. w \in [stage : {"save", "insert"}, gateway : Gateway, row : LiveRow, asks : BOOLEAN]
  BY DEF Task, Idle
<1>2. [w EXCEPT !.stage = "insert"]
        \in [stage : {"save", "insert"}, gateway : Gateway, row : LiveRow, asks : BOOLEAN]
  BY <1>1
<1> QED BY <1>1, <1>2 DEF Task

LEMMA DeleteTask ==
    ASSUME NEW w \in Task, w.stage = "delete"
    PROVE  w.gateway \in Gateway
BY DEF Task, Idle

LEMMA TopupTask ==
    ASSUME NEW w \in Task, w.stage = "topup"
    PROVE  w.gateway \in Gateway /\ w.amount \in Amounts
BY DEF Task, Idle

LEMMA RowFields ==
    ASSUME NEW row \in GatewayRow
    PROVE  /\ row.active \in BOOLEAN
           /\ row.status = "ROW" => row \in LiveRow
           /\ row.status \in {"ROW", "NEW", "GONE"}
           /\ [row EXCEPT !.active = FALSE].status = row.status
           /\ row.status = "ROW" => \A b \in BOOLEAN : [row EXCEPT !.active = b] \in LiveRow
<1>1. CASE row \in LiveRow BY <1>1 DEF LiveRow
<1>2. ASSUME NEW s \in {"NEW", "GONE"}, row = NoRow(s)
      PROVE  row.active = FALSE /\ row.status = s
                /\ [row EXCEPT !.active = FALSE].status = s
  BY <1>2 DEF NoRow
<1> QED BY <1>1, <1>2 DEF GatewayRow

\* What an edited row is.
LEMMA EditsLive ==
    ASSUME NEW row \in LiveRow, NEW new \in Edits(row)
    PROVE  new \in LiveRow /\ new.status = "ROW"
<1> PICK a \in BOOLEAN, lo \in Amounts, hi \in Amounts :
          new = Edited(row, a, lo, hi)
  BY DEF Edits
<1> QED BY DEF LiveRow, Edited

LEMMA CreatedLive ==
    ASSUME NEW new \in Edits(NoRow("ROW"))
    PROVE  Inserted(new) \in LiveRow
<1> PICK a \in BOOLEAN, lo \in Amounts, hi \in Amounts :
          new = Edited(NoRow("ROW"), a, lo, hi)
  BY DEF Edits
<1> QED BY DEF LiveRow, NoRow, Inserted, Edited

LEMMA InsertedLive ==
    ASSUME NEW row \in LiveRow
    PROVE  Inserted(row) \in LiveRow
BY DEF LiveRow, Inserted

-----------------------------------------------------------------------------
(* Top-ups keep their gateways while no row goes.                          *)

LEMMA RowsStay ==
    ASSUME IInv, UNCHANGED topup, \A g \in Gateway : HasRow(g) => HasRow(g)'
    PROVE  TopupsNameGateway' /\ TopupsHaveGateway' /\ TotalNearSum'
BY DEF IInv, TopupsNameGateway, TopupsHaveGateway, TotalNearSum

-----------------------------------------------------------------------------
(* Rounding.                                                               *)

\* A DECIMAL(15, 2) column is half a cent off at most.
LEMMA DecimalsClose ==
    ASSUME NEW x \in Nat, NEW d \in Decimals(x)
    PROVE  /\ d \in Nat
           /\ x <= d * 10000 + 5000
           /\ d * 10000 <= x + 5000
<1>1. CASE d = (x + 5000) \div 10000
  BY <1>1
<1>2. CASE x % 10000 = 5000 /\ d = x \div 10000
  BY <1>2
<1> QED BY <1>1, <1>2 DEF Decimals, Cent

LEMMA FeeNat ==
    ASSUME NEW amount \in Nat
    PROVE  Fee(amount) \in Nat /\ TotalPaid(amount) = amount * 10000 + Fee(amount)
<1>1. amount * FeePercentage \in Nat BY GatewayAssumption
<1>2. FeeFixed * 10000 \in Nat BY GatewayAssumption
<1> QED BY <1>1, <1>2 DEF Fee, TotalPaid, Cent

LEMMA NearSum ==
    ASSUME NEW amount \in Nat, NEW fee \in Decimals(Fee(amount)),
           NEW total \in Decimals(TotalPaid(amount))
    PROVE  fee \in Nat /\ total \in Nat /\ total - (amount + fee) \in {-1, 0, 1}
<1> DEFINE f == Fee(amount)
<1>1. f \in Nat /\ TotalPaid(amount) = amount * 10000 + f BY FeeNat
<1>2. fee \in Nat /\ f <= fee * 10000 + 5000 /\ fee * 10000 <= f + 5000
  BY <1>1, DecimalsClose
<1>3. amount * 10000 + f \in Nat BY <1>1
<1>4. /\ total \in Nat
      /\ amount * 10000 + f <= total * 10000 + 5000
      /\ total * 10000 <= amount * 10000 + f + 5000
  BY <1>1, <1>3, DecimalsClose
<1> HIDE DEF f
<1> QED BY <1>1, <1>2, <1>4

-----------------------------------------------------------------------------
(* The invariant holds initially and is kept by every action.              *)

LEMMA InitIInv == Init => IInv
<1> SUFFICES ASSUME Init PROVE IInv
  OBVIOUS
<1>1. TypeOK
  <2>1. Idle \in Task BY DEF Task
  <2>2. LiveRow \cup {NoRow("NEW")} \subseteq GatewayRow BY DEF GatewayRow
  <2>3. NoTopup \in [gateway : Gateway \cup {None}, amount : Amounts \cup {0},
                     fee : Nat, total : Nat]
    BY DEF NoTopup
  <2>4. NotOff \in [how : {"no", "quiet", "busy"}, before : SUBSET Proc]
    BY DEF NotOff
  <2> QED BY <2>1, <2>2, <2>3, <2>4, GatewayAssumption DEF Init, TypeOK
<1>2. TopupsNameGateway /\ TopupsHaveGateway
  BY DEF Init, TopupsHaveGateway, TopupsNameGateway
<1>3. Quiet
  BY DEF Init, Quiet, NotOff
<1>4. TotalNearSum
  BY DEF Init, TotalNearSum, NoTopup
<1> QED BY <1>1, <1>2, <1>3, <1>4 DEF IInv

LEMMA CreateKeeps ==
    ASSUME IInv, NEW g \in Gateway, CreateGateway(g)
    PROVE  IInv'
<1>1. PICK row \in Edits(NoRow("ROW")) : gateway' = [gateway EXCEPT ![g] = Inserted(row)]
  BY DEF CreateGateway
<1>2. Inserted(row) \in LiveRow BY CreatedLive
<1>3. UNCHANGED <<topup, task, off>> /\ begun' \in 0..MaxRequests /\ ~HasRow(g)
  BY GatewayAssumption DEF CreateGateway, Once, HasRow, IInv, TypeOK
<1>4. TypeOK'
  BY <1>1, <1>2, <1>3 DEF IInv, TypeOK, GatewayRow
<1>5. \A h \in Gateway : HasRow(h) => h # g /\ gateway'[h] = gateway[h]
  BY <1>1, <1>3 DEF IInv, TypeOK
<1>6. TopupsNameGateway' /\ TopupsHaveGateway' /\ TotalNearSum'
  BY <1>3, <1>5, RowsStay DEF HasRow
<1>7. Quiet'
  BY <1>3, <1>5 DEF IInv, Quiet, HasRow, Saving, ToppingUp
<1> QED BY <1>4, <1>6, <1>7 DEF IInv

LEMMA ToggleKeeps ==
    ASSUME IInv, NEW g \in Gateway, NEW on \in BOOLEAN, Toggle(g, on)
    PROVE  IInv'
<1>1. UNCHANGED <<topup, task>> /\ begun' \in 0..MaxRequests
  BY GatewayAssumption DEF Toggle, Once, IInv, TypeOK
<1>2. CASE ~HasRow(g)
  <2>1. UNCHANGED <<gateway, off>> BY <1>2 DEF Toggle
  <2> QED BY <1>1, <2>1, RowsStay DEF IInv, TypeOK, Quiet, HasRow, Saving, ToppingUp
<1>3. CASE HasRow(g)
  <2>1. /\ gateway' = [gateway EXCEPT ![g].active = on]
        /\ off' = [off EXCEPT ![g] = IF on THEN NotOff ELSE HowOff(g)]
    BY <1>3 DEF Toggle
  <2>2. gateway[g] \in GatewayRow /\ gateway[g].status = "ROW"
    BY <1>3 DEF IInv, TypeOK, HasRow
  <2>3. [gateway[g] EXCEPT !.active = on] \in LiveRow
    BY <2>2, RowFields
  <2>4. /\ gateway' \in [Gateway -> GatewayRow]
        /\ gateway'[g].status = "ROW"
        /\ gateway'[g].active = on
        /\ \A h \in Gateway : HasRow(h)' <=> HasRow(h)
        /\ \A h \in Gateway \ {g} : gateway'[h] = gateway[h]
    <3>1. gateway'[g] = [gateway[g] EXCEPT !.active = on]
      BY <2>1 DEF IInv, TypeOK
    <3>2. [gateway[g] EXCEPT !.active = on].active = on
      BY <2>2, <2>3 DEF GatewayRow, LiveRow, NoRow
    <3> QED BY <2>1, <2>2, <2>3, <3>1, <3>2 DEF IInv, TypeOK, GatewayRow, LiveRow, HasRow
  <2>5. HowOff(g) \in [how : {"no", "quiet", "busy"}, before : SUBSET Proc]
    BY DEF HowOff
  <2>6. NotOff \in [how : {"no", "quiet", "busy"}, before : SUBSET Proc]
    BY DEF NotOff
  <2>7. TypeOK'
    BY <1>1, <2>1, <2>4, <2>5, <2>6 DEF IInv, TypeOK
  <2>8. TopupsNameGateway' /\ TopupsHaveGateway' /\ TotalNearSum'
    BY <1>1, <2>4, RowsStay
  <2>9. Quiet'
    <3> SUFFICES ASSUME NEW h \in Gateway, off'[h].how = "quiet"
                 PROVE  /\ HasRow(h)'
                        /\ ~gateway'[h].active
                        /\ \A p \in Proc : Saving(p, h)' => /\ task'[p].stage = "save"
                                                            /\ task'[p].row.active = FALSE
                        /\ \A p \in Proc : ToppingUp(p, h)' => p \in off'[h].before
      BY DEF Quiet
    <3>1. CASE h # g
      BY <1>1, <2>1, <2>4, <3>1 DEF IInv, TypeOK, Quiet, Saving, ToppingUp
    <3>2. CASE h = g
      <4>1. off'[g] = IF on THEN NotOff ELSE HowOff(g)
        BY <2>1 DEF IInv, TypeOK
      <4>2. on = FALSE /\ off'[g] = HowOff(g)
        BY <3>2, <4>1 DEF NotOff
      <4>3. /\ \A q \in Proc : ~Saving(q, g)
            /\ off'[g].before = {q \in Proc : ToppingUp(q, g)}
        BY <3>2, <4>2 DEF HowOff
      <4> QED BY <1>1, <2>4, <3>2, <4>2, <4>3 DEF Saving, ToppingUp, HasRow
    <3> QED BY <3>1, <3>2
  <2> QED BY <2>7, <2>8, <2>9 DEF IInv
<1> QED BY <1>2, <1>3

LEMMA IdleTask == Idle \in Task /\ Idle.stage = "idle"
BY DEF Task, Idle

\* A request that ends, or that is not about to write, disturbs no gateway
\* that is off for good.
LEMMA QuietEnds ==
    ASSUME IInv, NEW p \in Proc, NEW w \in Task, w.stage \in {"idle", "delete"},
           task' = [task EXCEPT ![p] = w],
           \A h \in Gateway : off'[h].how = "quiet" =>
               /\ off[h].how = "quiet"
               /\ off[h].before \ {p} \subseteq off'[h].before
               /\ HasRow(h)'
               /\ ~gateway'[h].active
    PROVE  Quiet'
<1>1. task'[p] = w /\ \A q \in Proc \ {p} : task'[q] = task[q]
  BY DEF IInv, TypeOK
<1>2. \A h \in Gateway : ~Saving(p, h)' /\ ~ToppingUp(p, h)'
  BY <1>1 DEF Saving, ToppingUp
<1> QED BY <1>1, <1>2 DEF IInv, Quiet, Saving, ToppingUp

LEMMA ReadKeeps ==
    ASSUME IInv, NEW p \in Proc, NEW g \in Gateway, ReadForUpdate(p, g)
    PROVE  IInv'
<1>1. PICK row \in Edits(gateway[g]), asks \in BOOLEAN :
          /\ asks \/ row.active = gateway[g].active
          /\ Becomes(p, [stage |-> "save", gateway |-> g, row |-> row, asks |-> asks])
          /\ off' = IF asks /\ row.active THEN [off EXCEPT ![g] = NotOff] ELSE off
  BY DEF ReadForUpdate
<1> DEFINE w == [stage |-> "save", gateway |-> g, row |-> row, asks |-> asks]
<1>2. /\ HasRow(g) /\ gateway[g] \in GatewayRow
      /\ UNCHANGED <<gateway, topup>>
      /\ begun' \in 0..MaxRequests
  BY GatewayAssumption DEF ReadForUpdate, Begin, Once, IInv, TypeOK
<1>3. gateway[g] \in LiveRow
  BY <1>2, RowFields DEF HasRow
<1>4. row \in LiveRow /\ row.active \in BOOLEAN
  BY <1>1, <1>3, EditsLive DEF LiveRow
<1>5. w \in Task
  BY <1>4 DEF Task
<1>6. task' = [task EXCEPT ![p] = w] /\ task \in [Proc -> Task]
  BY <1>1 DEF Becomes, IInv, TypeOK
<1>7. NotOff \in [how : {"no", "quiet", "busy"}, before : SUBSET Proc]
  BY DEF NotOff
<1>8. off' \in [Gateway -> [how : {"no", "quiet", "busy"}, before : SUBSET Proc]]
  BY <1>1, <1>7 DEF IInv, TypeOK
<1>9. TypeOK'
  BY <1>2, <1>5, <1>6, <1>8 DEF IInv, TypeOK
<1>10. TopupsNameGateway' /\ TopupsHaveGateway' /\ TotalNearSum'
  BY <1>2, RowsStay DEF HasRow
<1>11. Quiet'
  <2> SUFFICES ASSUME NEW h \in Gateway, off'[h].how = "quiet"
               PROVE  /\ HasRow(h)'
                      /\ ~gateway'[h].active
                      /\ \A q \in Proc : Saving(q, h)' => /\ task'[q].stage = "save"
                                                          /\ task'[q].row.active = FALSE
                      /\ \A q \in Proc : ToppingUp(q, h)' => q \in off'[h].before
    BY DEF Quiet
  <2>1. off'[h] = off[h] /\ off[h].how = "quiet"
    BY <1>1 DEF NotOff, IInv, TypeOK
  <2>2. h = g => row.active = FALSE
    <3>1. h = g => ~(asks /\ row.active)
      BY <1>1, <2>1 DEF NotOff, IInv, TypeOK
    <3>2. h = g => ~gateway[g].active
      BY <2>1 DEF IInv, Quiet
    <3> QED BY <1>1, <1>4, <3>1, <3>2
  <2>3. /\ task'[p].stage = "save" /\ task'[p].gateway = g /\ task'[p].row = row
        /\ \A q \in Proc \ {p} : task'[q] = task[q]
    BY <1>6
  <2>4. /\ HasRow(h)
        /\ ~gateway[h].active
        /\ \A q \in Proc : Saving(q, h) => /\ task[q].stage = "save"
                                           /\ task[q].row.active = FALSE
        /\ \A q \in Proc : ToppingUp(q, h) => q \in off[h].before
    BY <2>1 DEF IInv, Quiet
  <2>5. HasRow(h)' /\ ~gateway'[h].active
    BY <1>2, <2>4 DEF HasRow
  <2>6. \A q \in Proc : Saving(q, h)' => /\ task'[q].stage = "save"
                                         /\ task'[q].row.active = FALSE
    BY <2>2, <2>3, <2>4 DEF Saving
  <2>7. \A q \in Proc : ToppingUp(q, h)' => q \in off'[h].before
    BY <2>1, <2>3, <2>4 DEF ToppingUp
  <2> QED BY <2>5, <2>6, <2>7
<1> QED BY <1>9, <1>10, <1>11 DEF IInv

LEMMA SaveKeeps ==
    ASSUME IInv, NEW p \in Proc, SaveUpdate(p)
    PROVE  IInv'
<1> DEFINE g == task[p].gateway
           w == [task[p] EXCEPT !.stage = "insert"]
<1>1. /\ task[p] \in Task /\ task[p].stage = "save"
      /\ UNCHANGED <<topup, off, begun>>
      /\ task \in [Proc -> Task]
  BY DEF SaveUpdate, IInv, TypeOK
<1>2. /\ g \in Gateway /\ task[p].row \in LiveRow
      /\ w \in Task /\ w.stage = "insert" /\ w.gateway = g
  BY <1>1, SaveTask
<1>3. CASE HasRow(g)
  <2>1. /\ gateway' = [gateway EXCEPT ![g] = task[p].row]
        /\ task' = [task EXCEPT ![p] = Idle]
    BY <1>3 DEF SaveUpdate, Saved, Becomes
  <2>2. TypeOK'
    BY <1>1, <1>2, <2>1, IdleTask DEF IInv, TypeOK, GatewayRow
  <2>3. /\ gateway'[g] = task[p].row /\ gateway'[g].status = "ROW"
        /\ \A h \in Gateway \ {g} : gateway'[h] = gateway[h]
    BY <1>2, <2>1 DEF IInv, TypeOK, LiveRow
  <2>4. \A h \in Gateway : HasRow(h) => HasRow(h)'
    BY <2>3 DEF HasRow
  <2>5. TopupsNameGateway' /\ TopupsHaveGateway' /\ TotalNearSum'
    BY <1>1, <2>4, RowsStay
  <2>6. \A h \in Gateway : off[h].how = "quiet" => HasRow(h) /\ ~gateway'[h].active
    BY <1>1, <2>3 DEF IInv, Quiet, Saving
  <2>7. Quiet'
    BY <1>1, <2>1, <2>4, <2>6, IdleTask, QuietEnds
  <2> QED BY <2>2, <2>5, <2>7 DEF IInv
<1>4. CASE ~HasRow(g)
  <2>1. UNCHANGED gateway /\ task' = [task EXCEPT ![p] = w]
    BY <1>4 DEF SaveUpdate, Becomes
  <2>2. TypeOK'
    BY <1>1, <1>2, <2>1 DEF IInv, TypeOK
  <2>3. TopupsNameGateway' /\ TopupsHaveGateway' /\ TotalNearSum'
    BY <1>1, <2>1, RowsStay DEF HasRow
  <2>4. Quiet'
    <3>1. task'[p] = w /\ \A q \in Proc \ {p} : task'[q] = task[q]
      BY <1>1, <2>1
    <3> QED BY <1>1, <1>2, <1>4, <2>1, <3>1 DEF IInv, Quiet, HasRow, Saving, ToppingUp
  <2> QED BY <2>2, <2>3, <2>4 DEF IInv
<1> QED BY <1>3, <1>4

LEMMA InsertKeeps ==
    ASSUME IInv, NEW p \in Proc, SaveInsert(p)
    PROVE  IInv'
<1> DEFINE g == task[p].gateway
<1>1. /\ task[p] \in Task /\ task[p].stage = "insert"
      /\ UNCHANGED <<topup, off, begun>>
      /\ gateway' = [gateway EXCEPT ![g] = Inserted(task[p].row)]
      /\ task' = [task EXCEPT ![p] = Idle]
  BY DEF SaveInsert, Becomes, IInv, TypeOK
<1>2. g \in Gateway /\ Inserted(task[p].row) \in LiveRow
  BY <1>1, SaveTask, InsertedLive
<1>3. TypeOK'
  BY <1>1, <1>2, IdleTask DEF IInv, TypeOK, GatewayRow
<1>4. /\ gateway'[g].status = "ROW"
      /\ \A h \in Gateway \ {g} : gateway'[h] = gateway[h]
  BY <1>1, <1>2 DEF IInv, TypeOK, LiveRow
<1>5. \A h \in Gateway : HasRow(h) => HasRow(h)'
  BY <1>4 DEF HasRow
<1>6. off[g].how # "quiet"
  BY <1>1, <1>2 DEF IInv, Quiet, Saving
<1>7. \A h \in Gateway : off[h].how = "quiet" => HasRow(h) /\ ~gateway'[h].active
  BY <1>4, <1>6 DEF IInv, Quiet
<1>8. Quiet'
  BY <1>1, <1>5, <1>7, IdleTask, QuietEnds
<1> QED BY <1>1, <1>3, <1>5, <1>8, RowsStay DEF IInv

LEMMA CountKeeps ==
    ASSUME IInv, NEW p \in Proc, NEW g \in Gateway, CountForDelete(p, g)
    PROVE  IInv'
<1> DEFINE w == [stage |-> "delete", gateway |-> g]
<1>1. /\ UNCHANGED <<gateway, topup, off>> /\ begun' \in 0..MaxRequests
      /\ task' = [task EXCEPT ![p] = w]
  BY GatewayAssumption DEF CountForDelete, Begin, Once, Becomes, IInv, TypeOK
<1>2. w \in Task /\ w.stage = "delete"
  BY DEF Task
<1>3. TypeOK'
  BY <1>1, <1>2 DEF IInv, TypeOK
<1>4. Quiet'
  BY <1>1, <1>2, QuietEnds DEF IInv, Quiet, HasRow
<1> QED BY <1>1, <1>3, <1>4, RowsStay DEF IInv, HasRow

LEMMA DeleteKeeps ==
    ASSUME IInv, NEW p \in Proc, DeleteRow(p)
    PROVE  IInv'
<1> DEFINE g == task[p].gateway
<1>1. /\ g \in Gateway
      /\ UNCHANGED <<topup, begun>>
      /\ task' = [task EXCEPT ![p] = Idle]
  BY DeleteTask DEF DeleteRow, Becomes, IInv, TypeOK
<1>2. CASE HasRow(g) /\ Unreferenced(g)
  <2>1. /\ gateway' = [gateway EXCEPT ![g] = NoRow("GONE")]
        /\ off' = [off EXCEPT ![g] = NotOff]
    BY <1>2 DEF DeleteRow
  <2>2. NotOff \in [how : {"no", "quiet", "busy"}, before : SUBSET Proc]
    BY DEF NotOff
  <2>3. TypeOK'
    BY <1>1, <2>1, <2>2, IdleTask DEF IInv, TypeOK, GatewayRow
  <2>4. \A t \in Topup : topup[t].gateway # g
    BY <1>2 DEF Unreferenced, HasTopups
  <2>5. TopupsNameGateway' /\ TopupsHaveGateway' /\ TotalNearSum'
    BY <1>1, <2>1, <2>4 DEF IInv, TypeOK, TopupsNameGateway, TopupsHaveGateway, TotalNearSum, HasRow
  <2>6. \A h \in Gateway : off'[h].how = "quiet" =>
            off'[h] = off[h] /\ HasRow(h)' /\ ~gateway'[h].active
    BY <1>1, <2>1 DEF IInv, TypeOK, Quiet, NotOff, HasRow
  <2>7. Quiet'
    BY <1>1, <2>6, IdleTask, QuietEnds
  <2> QED BY <2>3, <2>5, <2>7 DEF IInv
<1>3. CASE ~(HasRow(g) /\ Unreferenced(g))
  <2>1. UNCHANGED <<gateway, off>> BY <1>3 DEF DeleteRow
  <2>2. TypeOK'
    BY <1>1, <2>1, IdleTask DEF IInv, TypeOK
  <2>3. Quiet'
    BY <1>1, <2>1, IdleTask, QuietEnds DEF IInv, Quiet, HasRow
  <2> QED BY <1>1, <2>1, <2>2, <2>3, RowsStay DEF IInv, HasRow
<1> QED BY <1>2, <1>3

LEMMA CheckKeeps ==
    ASSUME IInv, NEW p \in Proc, NEW g \in Gateway, NEW amount \in Amounts,
           CheckTopup(p, g, amount)
    PROVE  IInv'
<1> DEFINE w == [stage |-> "topup", gateway |-> g, amount |-> amount]
<1>1. /\ UNCHANGED <<gateway, topup, off>> /\ begun' \in 0..MaxRequests
      /\ task' = [task EXCEPT ![p] = w]
      /\ gateway[g].active
  BY GatewayAssumption DEF CheckTopup, Begin, Once, Becomes, Accepts, IInv, TypeOK
<1>2. w \in Task
  BY DEF Task
<1>3. TypeOK'
  BY <1>1, <1>2 DEF IInv, TypeOK
<1>4. off[g].how # "quiet"
  BY <1>1 DEF IInv, Quiet
<1>5. /\ task'[p].stage = "topup" /\ task'[p].gateway = g
      /\ \A q \in Proc \ {p} : task'[q] = task[q]
  BY <1>1 DEF IInv, TypeOK
<1>6. Quiet'
  BY <1>1, <1>4, <1>5 DEF IInv, Quiet, HasRow, Saving, ToppingUp
<1> QED BY <1>1, <1>3, <1>6, RowsStay DEF IInv, HasRow

\* The end of a request takes it out of the histories and nothing else.
LEMMA EndKeepsOff ==
    ASSUME IInv, NEW p \in Proc, EndOf(p)
    PROVE  /\ off' \in [Gateway -> [how : {"no", "quiet", "busy"}, before : SUBSET Proc]]
           /\ \A h \in Gateway : /\ off'[h].how = off[h].how
                                 /\ off'[h].before = off[h].before \ {p}
<1>1. \A h \in Gateway :
          /\ off[h] \in [how : {"no", "quiet", "busy"}, before : SUBSET Proc]
          /\ off'[h] = [off[h] EXCEPT !.before = off[h].before \ {p}]
  BY DEF EndOf, IInv, TypeOK
<1>2. ASSUME NEW r \in [how : {"no", "quiet", "busy"}, before : SUBSET Proc]
      PROVE  /\ [r EXCEPT !.before = r.before \ {p}]
                   \in [how : {"no", "quiet", "busy"}, before : SUBSET Proc]
             /\ [r EXCEPT !.before = r.before \ {p}].how = r.how
             /\ [r EXCEPT !.before = r.before \ {p}].before = r.before \ {p}
  OBVIOUS
<1>3. off' = [h \in Gateway |-> off'[h]]
  BY DEF EndOf
<1> QED BY <1>1, <1>2, <1>3

LEMMA InsertTopupKeeps ==
    ASSUME IInv, NEW p \in Proc, NEW t \in Topup, InsertTopup(p, t)
    PROVE  IInv'
<1> DEFINE g == task[p].gateway
           amount == task[p].amount
<1>1. /\ g \in Gateway /\ amount \in Amounts /\ amount \in Nat
      /\ UNCHANGED <<gateway, begun>>
      /\ task' = [task EXCEPT ![p] = Idle]
      /\ EndOf(p)
  BY TopupTask, GatewayAssumption DEF InsertTopup, Becomes, IInv, TypeOK
<1>2. /\ topup' \in [Topup -> [gateway : Gateway \cup {None}, amount : Amounts \cup {0},
                               fee : Nat, total : Nat]]
      /\ TopupsNameGateway' /\ TopupsHaveGateway' /\ TotalNearSum'
  <2>1. CASE HasRow(g)
    <3>1. PICK fee \in Decimals(Fee(amount)), total \in Decimals(TotalPaid(amount)) :
              topup' = [topup EXCEPT ![t] = [gateway |-> g, amount |-> amount,
                                             fee |-> fee, total |-> total]]
      BY <2>1 DEF InsertTopup
    <3>2. fee \in Nat /\ total \in Nat /\ total - (amount + fee) \in {-1, 0, 1}
      BY <1>1, NearSum
    <3> HIDE DEF g, amount
    <3>3. /\ topup'[t] = [gateway |-> g, amount |-> amount, fee |-> fee, total |-> total]
          /\ \A u \in Topup \ {t} : topup'[u] = topup[u]
      BY <3>1 DEF IInv, TypeOK
    <3> QED BY <1>1, <2>1, <3>1, <3>2, <3>3
            DEF IInv, TypeOK, TopupsNameGateway, TopupsHaveGateway, TotalNearSum, HasRow
  <2>2. CASE ~HasRow(g)
    BY <1>1, <2>2, RowsStay DEF InsertTopup, IInv, TypeOK, HasRow
  <2> QED BY <2>1, <2>2
<1>3. TypeOK'
  BY <1>1, <1>2, IdleTask, EndKeepsOff DEF IInv, TypeOK
<1>4. Quiet'
  <2>1. \A h \in Gateway : off'[h].how = "quiet" =>
            /\ off[h].how = "quiet"
            /\ off[h].before \ {p} \subseteq off'[h].before
            /\ HasRow(h)'
            /\ ~gateway'[h].active
    BY <1>1, EndKeepsOff DEF IInv, Quiet, HasRow
  <2> QED BY <1>1, <2>1, IdleTask, QuietEnds
<1> QED BY <1>2, <1>3, <1>4 DEF IInv

LEMMA CascadeKeeps ==
    ASSUME IInv, NEW t \in Topup, CascadeTopup(t)
    PROVE  IInv'
<1>1. /\ topup' = [topup EXCEPT ![t] = NoTopup]
      /\ UNCHANGED <<gateway, task, off, begun>>
  BY DEF CascadeTopup
<1>2. TypeOK'
  BY <1>1 DEF IInv, TypeOK, NoTopup
<1>3. /\ topup'[t] = NoTopup
      /\ \A u \in Topup \ {t} : topup'[u] = topup[u]
  BY <1>1 DEF IInv, TypeOK
<1>4. TopupsNameGateway' /\ TopupsHaveGateway'
  BY <1>1, <1>3 DEF IInv, TopupsNameGateway, TopupsHaveGateway, HasRow
<1>5. TotalNearSum'
  BY <1>3 DEF IInv, TotalNearSum, NoTopup
<1>6. Quiet'
  BY <1>1 DEF IInv, Quiet, HasRow, Saving, ToppingUp
<1> QED BY <1>2, <1>4, <1>5, <1>6 DEF IInv

LEMMA FailKeeps ==
    ASSUME IInv, NEW p \in Proc, Fail(p)
    PROVE  IInv'
<1>1. /\ UNCHANGED <<gateway, topup, begun>>
      /\ task' = [task EXCEPT ![p] = Idle]
      /\ EndOf(p)
  BY DEF Fail, Becomes
<1>2. TypeOK'
  BY <1>1, IdleTask, EndKeepsOff DEF IInv, TypeOK
<1>3. Quiet'
  <2>1. \A h \in Gateway : off'[h].how = "quiet" =>
            /\ off[h].how = "quiet"
            /\ off[h].before \ {p} \subseteq off'[h].before
            /\ HasRow(h)'
            /\ ~gateway'[h].active
    BY <1>1, EndKeepsOff DEF IInv, Quiet, HasRow
  <2> QED BY <1>1, <2>1, IdleTask, QuietEnds
<1> QED BY <1>1, <1>2, <1>3, RowsStay DEF IInv, HasRow

LEMMA NextKeeps == IInv /\ [Next]_vars => IInv'
<1> SUFFICES ASSUME IInv, [Next]_vars PROVE IInv'
  OBVIOUS
<1>1. CASE UNCHANGED vars
  BY <1>1 DEF vars, IInv, TypeOK, TopupsNameGateway, TopupsHaveGateway, Quiet,
              TotalNearSum, HasRow, Saving, ToppingUp
<1>2. CASE Next
  BY <1>2, CreateKeeps, ToggleKeeps, ReadKeeps, SaveKeeps, InsertKeeps, CountKeeps,
     DeleteKeeps, CheckKeeps, InsertTopupKeeps, CascadeKeeps, FailKeeps DEF Next
<1> QED BY <1>1, <1>2

-----------------------------------------------------------------------------
(* Theorems.                                                               *)

\* Whatever gateways, limits, fees and requests there are, the invariant holds
\* of every reachable state.
THEOREM Invariance == Spec => []IInv
BY InitIInv, NextKeeps, PTL DEF Spec

\* Every variable keeps its type.
THEOREM TypeCorrect == Spec => []TypeOK
<1>1. IInv => TypeOK BY DEF IInv
<1> QED BY <1>1, Invariance, PTL

\* No deletion, however it overlaps with the creation of top-ups, leaves a
\* top-up without its gateway (gateway.go:74-85, topup.go:60-97).
THEOREM GatewaysKept == Spec => []TopupsHaveGateway
<1>1. IInv => TopupsHaveGateway BY DEF IInv
<1> QED BY <1>1, Invariance, PTL

\* A gateway switched off while no update of it was under way stays off, and
\* takes no top-up that is checked from then on (gateway.go:90-94).
THEOREM SwitchedOffStays == Spec => []OffStaysOff
<1>1. IInv => OffStaysOff BY DEF IInv, Quiet, OffStaysOff
<1> QED BY <1>1, Invariance, PTL

\* For every amount and every fee, what is paid is amount and fee but for one
\* cent of rounding (topup.go:79-80).
THEOREM TotalIsNear == Spec => []TotalNearSum
<1>1. IInv => TotalNearSum BY DEF IInv
<1> QED BY <1>1, Invariance, PTL
=============================================================================
