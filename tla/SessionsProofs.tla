--------------------------- MODULE SessionsProofs ---------------------------
(***************************************************************************)
(* What Sessions.tla promises, for any number of accounts, sessions and    *)
(* requests.                                                               *)
(*                                                                         *)
(* Rows says what a row holds by its status.  Known says that a refresh    *)
(* under way refreshes a session that was there once, and does not insert  *)
(* its successor before it is revoked or gone.  Out says that a session    *)
(* that is logged out for good is in no refresh and can be in none.        *)
(***************************************************************************)
EXTENDS Sessions, TLAPS

Over(s) == session[s].status \in {"REVOKED", "GONE"}

Rows ==
    \A s \in Session :
        /\ session[s].status \in {"NEW", "GONE"} => session[s].parent = None
        /\ HasSession(s) => session[s].owner \in Account

KnownTo(t) ==
    /\ t.stage \in {"loadAccount", "revoke"} => session[t.session].status # "NEW"
    /\ t.stage = "insert" /\ t.session # None => Over(t.session)

Known == \A p \in Proc : KnownTo(task[p])

Out == \A s \in loggedOut : Over(s) /\ ~InUse(s)

IInv ==
    /\ TypeOK
    /\ Rows
    /\ Known
    /\ Out
    /\ SuccessorReplaces
    /\ LogoutIsFinal
    /\ SessionsHaveAccounts

-----------------------------------------------------------------------------
(* Rows and tasks.                                                         *)

LEMMA RowShape ==
    ASSUME NEW row \in SessionRow
    PROVE  /\ row.status \in {"NEW", "LIVE", "EXPIRED", "REVOKED", "GONE"}
           /\ row.owner \in Account \cup {None} /\ row.parent \in Session \cup {None}
BY DEF SessionRow

LEMMA NoRow ==
    ASSUME NEW st \in {"NEW", "GONE"}
    PROVE  /\ NoSession(st) \in SessionRow
           /\ NoSession(st).status = st /\ NoSession(st).parent = None
BY DEF NoSession, SessionRow

LEMMA IdleTask == Idle \in Task /\ Idle.stage = "idle"
BY DEF Task, Idle

LEMMA RefreshTask ==
    ASSUME NEW t \in Task, t.stage \in {"loadAccount", "revoke"}
    PROVE  /\ t.session \in Session /\ t.owner \in Account
           /\ \A st \in {"revoke", "insert"} :
                 /\ [t EXCEPT !.stage = st] \in Task
                 /\ [t EXCEPT !.stage = st].stage = st
                 /\ [t EXCEPT !.stage = st].session = t.session
<1>1. t \in [stage : {"loadAccount", "revoke"}, session : Session, owner : Account]
  BY DEF Task, Idle
<1>2. [t EXCEPT !.stage = "revoke"]
        \in [stage : {"loadAccount", "revoke"}, session : Session, owner : Account]
  BY <1>1
<1>3. [t EXCEPT !.stage = "insert"]
        \in [stage : {"insert"}, session : Session \cup {None}, owner : Account]
  BY <1>1
<1> QED BY <1>1, <1>2, <1>3 DEF Task

LEMMA InsertTask ==
    ASSUME NEW t \in Task, t.stage = "insert"
    PROVE  t.session \in Session \cup {None} /\ t.owner \in Account
BY DEF Task, Idle

LEMMA SaveTask ==
    ASSUME NEW t \in Task, t.stage \in {"save", "insertAdmin"}
    PROVE  /\ t.owner \in Account
           /\ [t EXCEPT !.stage = "insertAdmin"] \in Task
           /\ [t EXCEPT !.stage = "insertAdmin"].stage = "insertAdmin"
<1>1. t \in [stage : {"save", "insertAdmin"}, owner : Account, active : BOOLEAN]
  BY DEF Task, Idle
<1> QED BY <1>1 DEF Task

LEMMA Becoming ==
    ASSUME TypeOK, NEW p \in Proc, NEW t \in Task, Becomes(p, t)
    PROVE  /\ task' \in [Proc -> Task]
           /\ task'[p] = t
           /\ \A q \in Proc \ {p} : task'[q] = task[q]
BY DEF Becomes, TypeOK

LEMMA SameAccounts ==
    ASSUME UNCHANGED account
    PROVE  \A a \in Account : HasAccount(a) => HasAccount(a)'
BY DEF HasAccount

-----------------------------------------------------------------------------
(* The invariant holds initially and is kept by every action.              *)

LEMMA InitIInv == Init => IInv
<1> SUFFICES ASSUME Init PROVE IInv
  OBVIOUS
<1>1. \A s \in Session : session[s].status = "NEW" /\ session[s].parent = None
  BY NoRow DEF Init
<1>2. TypeOK
  BY NoRow, IdleTask DEF Init, TypeOK, AccountStatus
<1>3. Rows /\ SuccessorReplaces /\ SessionsHaveAccounts
  BY <1>1 DEF Rows, SuccessorReplaces, SessionsHaveAccounts, HasSession
<1>4. Known /\ Out /\ LogoutIsFinal
  BY IdleTask DEF Init, Known, KnownTo, Out, LogoutIsFinal
<1> QED BY <1>2, <1>3, <1>4 DEF IInv

\* A request changes its task, and neither sessions nor what is logged out.
LEMMA TaskKeeps ==
    ASSUME IInv, NEW p \in Proc, NEW t \in Task, Becomes(p, t),
           UNCHANGED <<session, loggedOut>>, begun' \in Nat,
           account' \in [Account -> AccountStatus],
           \A a \in Account : HasAccount(a) => HasAccount(a)',
           KnownTo(t),
           \A s \in loggedOut : t.stage \in {"loadAccount", "revoke", "insert"} => t.session # s
    PROVE  IInv'
<1>1. /\ task' \in [Proc -> Task] /\ task'[p] = t
      /\ \A q \in Proc \ {p} : task'[q] = task[q]
  BY Becoming DEF IInv
<1>2. TypeOK'
  BY <1>1 DEF IInv, TypeOK
<1>3. Rows' /\ SuccessorReplaces' /\ LogoutIsFinal'
  BY DEF IInv, Rows, SuccessorReplaces, LogoutIsFinal, HasSession
<1>4. SessionsHaveAccounts'
  BY DEF IInv, Rows, SessionsHaveAccounts, HasSession
<1>5. Known'
  <2>1. \A q \in Proc : task'[q] = t \/ task'[q] = task[q]
    BY <1>1
  <2> QED BY <2>1 DEF IInv, Known, KnownTo, Over
<1>6. Out'
  BY <1>1 DEF IInv, Out, Over, InUse
<1> QED BY <1>2, <1>3, <1>4, <1>5, <1>6 DEF IInv

\* Rows of sessions change their status only, and no session comes back.
LEMMA StatusKeeps ==
    ASSUME IInv, session' \in [Session -> SessionRow],
           \A s \in Session :
                /\ session'[s] # session[s] =>
                      /\ HasSession(s)
                      /\ \/ session'[s].status \in {"EXPIRED", "REVOKED"}
                            /\ session'[s].owner = session[s].owner
                            /\ session'[s].parent = session[s].parent
                         \/ session'[s] = NoSession("GONE")
                /\ Over(s) => Over(s)',
           \A s \in Session : HasSession(s)' => HasAccount(session[s].owner)',
           account' \in [Account -> AccountStatus],
           loggedOut' \subseteq Session, begun' \in Nat, task' \in [Proc -> Task],
           \A s \in loggedOut' : s \in loggedOut
               \/ (HasSession(s) /\ session[s].status # "REVOKED" /\ Over(s)' /\ ~InUse(s)'),
           \A q \in Proc : task'[q] = task[q]
               \/ (/\ task[q].stage = "revoke" /\ task'[q].stage = "insert"
                   /\ task'[q].session = task[q].session
                   /\ Over(task[q].session)')
    PROVE  IInv'
<1>1. TypeOK'
  BY DEF IInv, TypeOK
<1>2. \A s \in Session :
          /\ session'[s].parent \in {session[s].parent, None}
          /\ session'[s].status = "NEW" => session[s].status = "NEW"
          /\ HasSession(s)' => HasSession(s) /\ session'[s].owner = session[s].owner
          /\ session'[s].status \in {"NEW", "GONE"} => session'[s].parent = None
  BY NoRow DEF IInv, Rows, HasSession
<1>3. Rows'
  BY <1>2 DEF IInv, Rows, HasSession
<1>4. Known'
  <2> SUFFICES ASSUME NEW q \in Proc PROVE KnownTo(task[q])'
    BY DEF Known
  <2>1. CASE task'[q] = task[q]
    <3>1. KnownTo(task[q]) BY DEF IInv, Known
    <3>2. task[q].stage \in {"loadAccount", "revoke"} => task[q].session \in Session
      BY RefreshTask DEF IInv, TypeOK
    <3>3. task[q].stage = "insert" => task[q].session \in Session \cup {None}
      BY InsertTask DEF IInv, TypeOK
    <3> QED BY <1>2, <2>1, <3>1, <3>2, <3>3 DEF KnownTo, Over
  <2>2. CASE /\ task'[q].stage = "insert"
             /\ session'[task'[q].session].status \in {"REVOKED", "GONE"}
    BY <2>2 DEF KnownTo, Over
  <2> QED BY <2>1, <2>2 DEF Over
<1>5. SuccessorReplaces'
  BY <1>2, SessionAssumption DEF IInv, SuccessorReplaces, TypeOK, Over, SessionRow
<1>6. \A s \in Session : s \in loggedOut' \ loggedOut => \A t \in Session : session[t].parent # s
  BY SessionAssumption DEF IInv, SuccessorReplaces, HasSession
<1>7. LogoutIsFinal'
  BY <1>2, <1>6, SessionAssumption DEF IInv, LogoutIsFinal
<1>8. Out'
  <2> SUFFICES ASSUME NEW s \in loggedOut' PROVE Over(s)' /\ ~InUse(s)'
    BY DEF Out
  <2>1. CASE s \in loggedOut
    <3>1. s \in Session /\ Over(s) /\ ~InUse(s)
      BY <2>1 DEF IInv, Out, TypeOK
    <3> QED BY <3>1 DEF InUse
  <2> QED BY <2>1
<1>9. SessionsHaveAccounts'
  BY <1>2 DEF SessionsHaveAccounts
<1> QED BY <1>1, <1>3, <1>4, <1>5, <1>7, <1>8, <1>9 DEF IInv

LEMMA CreateAdminKeeps ==
    ASSUME IInv, NEW a \in Account, CreateAdmin(a)
    PROVE  IInv'
<1>1. /\ account' = [account EXCEPT ![a] = "ACTIVE"]
      /\ UNCHANGED <<session, task, loggedOut>> /\ begun' \in Nat
  BY DEF CreateAdmin, Begun, IInv, TypeOK
<1>2. account' \in [Account -> AccountStatus] /\ \A b \in Account : HasAccount(b) => HasAccount(b)'
  BY <1>1 DEF IInv, TypeOK, AccountStatus, HasAccount
<1>3. \A s \in Session : HasSession(s)' => HasAccount(session[s].owner)'
  BY <1>1, <1>2 DEF IInv, Rows, SessionsHaveAccounts, HasSession
<1>4. \A s \in Session : Over(s) => Over(s)'
  BY <1>1 DEF Over
<1> QED BY <1>1, <1>2, <1>3, <1>4, StatusKeeps DEF IInv, TypeOK

LEMMA DeleteAdminKeeps ==
    ASSUME IInv, NEW a \in Account, DeleteAdmin(a)
    PROVE  IInv'
<1>1. /\ account' = [account EXCEPT ![a] = "GONE"]
      /\ session' = [s \in Session |-> IF HasSession(s) /\ session[s].owner = a
                                       THEN NoSession("GONE") ELSE session[s]]
      /\ UNCHANGED <<task, loggedOut>> /\ begun' \in Nat
  BY DEF DeleteAdmin, Begun, IInv, TypeOK
<1>2. account' \in [Account -> AccountStatus] /\ session' \in [Session -> SessionRow]
  BY <1>1, NoRow DEF IInv, TypeOK, AccountStatus
<1>3. \A s \in Session : HasSession(s)' => HasAccount(session[s].owner)'
  <2>1. ASSUME NEW s \in Session, HasSession(s)'
        PROVE  session'[s] = session[s] /\ HasSession(s) /\ session[s].owner # a
    BY <1>1, <2>1, NoRow DEF HasSession
  <2> QED BY <1>1, <2>1 DEF IInv, Rows, SessionsHaveAccounts, HasAccount, TypeOK
<1>4. \A s \in Session : Over(s) => Over(s)'
  BY <1>1, NoRow DEF Over
<1>5. \A s \in Session : session'[s] # session[s] => HasSession(s) /\ session'[s] = NoSession("GONE")
  BY <1>1
<1> QED BY <1>1, <1>2, <1>3, <1>4, <1>5, StatusKeeps DEF IInv, TypeOK

\* The status of one session is written.
LEMMA MarkKeeps ==
    ASSUME IInv, NEW s \in Session, NEW st \in {"EXPIRED", "REVOKED"}, HasSession(s),
           session' = [session EXCEPT ![s].status = st],
           st = "EXPIRED" => session[s].status = "LIVE"
    PROVE  /\ session' \in [Session -> SessionRow]
           /\ session'[s].status = st
           /\ \A r \in Session :
                /\ session'[r] # session[r] =>
                      /\ HasSession(r)
                      /\ session'[r].status \in {"EXPIRED", "REVOKED"}
                      /\ session'[r].owner = session[r].owner
                      /\ session'[r].parent = session[r].parent
                /\ Over(r) => Over(r)'
                /\ HasSession(r)' => HasSession(r)
<1> DEFINE row == [session[s] EXCEPT !.status = st]
<1>1. /\ row \in SessionRow /\ row.status = st
      /\ row.owner = session[s].owner /\ row.parent = session[s].parent
  <2>1. session[s] \in SessionRow BY DEF IInv, TypeOK
  <2> QED BY <2>1 DEF SessionRow
<1>2. session' = [session EXCEPT ![s] = row]
  BY DEF IInv, TypeOK
<1> HIDE DEF row
<1>3. /\ session' \in [Session -> SessionRow] /\ session'[s] = row
      /\ \A r \in Session \ {s} : session'[r] = session[r]
  BY <1>1, <1>2 DEF IInv, TypeOK
<1> QED BY <1>1, <1>3 DEF HasSession, Over

LEMMA RevokeSessionKeeps ==
    ASSUME IInv, NEW p \in Proc, RevokeSession(p)
    PROVE  IInv'
<1> DEFINE s == task[p].session
           t == [task[p] EXCEPT !.stage = "insert"]
<1>1. /\ task[p].stage = "revoke" /\ Becomes(p, t)
      /\ session' = IF HasSession(s) THEN [session EXCEPT ![s].status = "REVOKED"] ELSE session
      /\ UNCHANGED <<account, loggedOut, begun>>
  BY DEF RevokeSession
<1>2. s \in Session /\ t \in Task /\ t.stage = "insert" /\ t.session = s
  BY <1>1, RefreshTask DEF IInv, TypeOK
<1>3. session[s].status # "NEW"
  BY <1>1 DEF IInv, Known, KnownTo
<1> HIDE DEF t
<1>4. /\ task' \in [Proc -> Task] /\ task'[p] = t
      /\ \A q \in Proc \ {p} : task'[q] = task[q]
  BY <1>1, <1>2, Becoming DEF IInv
<1>5. CASE ~HasSession(s)
  <2>1. UNCHANGED session BY <1>1, <1>5
  <2>2. Over(s)
    <3>1. session[s].status \in {"NEW", "LIVE", "EXPIRED", "REVOKED", "GONE"}
      BY <1>2, RowShape DEF IInv, TypeOK
    <3> QED BY <1>3, <1>5, <3>1 DEF HasSession, Over
  <2>3. ASSUME NEW r \in loggedOut PROVE r # s
    BY <1>1, <2>3 DEF IInv, Out, InUse
  <2>4. KnownTo(t)
    BY <1>2, <2>2 DEF KnownTo
  <2> HIDE DEF s
  <2> QED BY <1>1, <1>2, <2>1, <2>3, <2>4, SameAccounts, TaskKeeps DEF IInv, TypeOK
<1>6. CASE HasSession(s)
  <2>1. session' = [session EXCEPT ![s].status = "REVOKED"]
    BY <1>1, <1>6
  <2>2. /\ session' \in [Session -> SessionRow] /\ session'[s].status = "REVOKED"
        /\ \A r \in Session :
             /\ session'[r] # session[r] =>
                   /\ HasSession(r)
                   /\ session'[r].status \in {"EXPIRED", "REVOKED"}
                   /\ session'[r].owner = session[r].owner
                   /\ session'[r].parent = session[r].parent
             /\ Over(r) => Over(r)'
             /\ HasSession(r)' => HasSession(r)
    BY <1>2, <1>6, <2>1, MarkKeeps
  <2>3. \A r \in Session : HasSession(r)' => HasAccount(session[r].owner)'
    <3>1. ASSUME NEW r \in Session, HasSession(r)'
          PROVE  HasAccount(session[r].owner) /\ session'[r].owner = session[r].owner
      BY <2>2, <3>1 DEF IInv, SessionsHaveAccounts
    <3> QED BY <1>1, <3>1 DEF HasAccount
  <2>4. task'[p].session = task[p].session /\ Over(task[p].session)'
    BY <1>2, <1>4, <2>2 DEF Over
  <2> HIDE DEF s
  <2> QED BY <1>1, <1>2, <1>4, <2>2, <2>3, <2>4, StatusKeeps DEF IInv, TypeOK
<1> QED BY <1>5, <1>6

LEMMA LogoutKeeps ==
    ASSUME IInv, NEW s \in Session, Logout(s) \/ Expire(s)
    PROVE  IInv'
<1>1. PICK st \in {"EXPIRED", "REVOKED"} :
          /\ HasSession(s) /\ session' = [session EXCEPT ![s].status = st]
          /\ st = "EXPIRED" => session[s].status = "LIVE"
          /\ loggedOut' = loggedOut
                \/ (/\ st = "REVOKED" /\ loggedOut' = loggedOut \cup {s}
                    /\ ~InUse(s) /\ session[s].status # "REVOKED")
  BY DEF Logout, Expire, HasSession
<1>2. UNCHANGED <<account, task>> /\ begun' \in Nat
  BY DEF Logout, Expire, Begun, IInv, TypeOK
<1>3. /\ session' \in [Session -> SessionRow] /\ session'[s].status = st
      /\ \A r \in Session :
           /\ session'[r] # session[r] =>
                 /\ HasSession(r)
                 /\ session'[r].status \in {"EXPIRED", "REVOKED"}
                 /\ session'[r].owner = session[r].owner
                 /\ session'[r].parent = session[r].parent
           /\ Over(r) => Over(r)'
           /\ HasSession(r)' => HasSession(r)
  BY <1>1, MarkKeeps
<1>4. \A r \in Session : HasSession(r)' => HasAccount(session[r].owner)'
  <2>1. ASSUME NEW r \in Session, HasSession(r)'
        PROVE  HasAccount(session[r].owner) /\ session'[r].owner = session[r].owner
    BY <1>3, <2>1 DEF IInv, SessionsHaveAccounts
  <2> QED BY <1>2, <2>1 DEF HasAccount
<1>5. \A r \in loggedOut' : r \in loggedOut
         \/ (HasSession(r) /\ session[r].status # "REVOKED" /\ Over(r)' /\ ~InUse(r)')
  BY <1>1, <1>2, <1>3 DEF Over, InUse
<1>6. loggedOut' \subseteq Session
  BY <1>1 DEF IInv, TypeOK
<1> QED BY <1>2, <1>3, <1>4, <1>5, <1>6, StatusKeeps DEF IInv, TypeOK

LEMMA BeginKeeps ==
    ASSUME IInv, NEW p \in Proc, BeginRequest(p)
    PROVE  IInv'
<1>1. UNCHANGED <<account, session, loggedOut>> /\ begun' \in Nat
  <2>1. UNCHANGED <<account, session, loggedOut>> /\ Begun
    BY DEF BeginRequest, Login, GetAdminToUpdate, RefreshTokens
  <2> QED BY <2>1 DEF Begun, IInv, TypeOK
<1>2. ASSUME NEW a \in Account, Login(p, a) PROVE IInv'
  <2> DEFINE t == [stage |-> "insert", session |-> None, owner |-> a]
  <2>1. t \in Task /\ t.stage = "insert" /\ t.session = None /\ Becomes(p, t)
    BY <1>2 DEF Task, Login
  <2>2. KnownTo(t) /\ \A s \in loggedOut : None # s
    BY <2>1, SessionAssumption DEF KnownTo, IInv, TypeOK
  <2> HIDE DEF t
  <2> QED BY <1>1, <2>1, <2>2, SameAccounts, TaskKeeps DEF IInv, TypeOK
<1>3. ASSUME NEW a \in Account, NEW b \in BOOLEAN, GetAdminToUpdate(p, a, b) PROVE IInv'
  <2> DEFINE t == [stage |-> "save", owner |-> a, active |-> b]
  <2>1. t \in Task /\ t.stage = "save" /\ Becomes(p, t)
    BY <1>3 DEF Task, GetAdminToUpdate
  <2>2. KnownTo(t)
    BY <2>1 DEF KnownTo
  <2> HIDE DEF t
  <2> QED BY <1>1, <2>1, <2>2, SameAccounts, TaskKeeps DEF IInv, TypeOK
<1>4. ASSUME NEW s \in Session, RefreshTokens(p, s) PROVE IInv'
  <2> DEFINE t == [stage |-> "loadAccount", session |-> s, owner |-> session[s].owner]
  <2>1. session[s].status = "LIVE" /\ session[s].owner \in Account /\ Becomes(p, t)
    BY <1>4 DEF RefreshTokens, IInv, Rows, HasSession
  <2>2. t \in Task /\ t.stage = "loadAccount" /\ t.session = s
    BY <2>1 DEF Task
  <2>3. KnownTo(t) /\ \A r \in loggedOut : r # s
    BY <2>1, <2>2 DEF KnownTo, IInv, Out, Over
  <2> HIDE DEF t
  <2> QED BY <1>1, <2>1, <2>2, <2>3, SameAccounts, TaskKeeps DEF IInv, TypeOK
<1> QED BY <1>2, <1>3, <1>4 DEF BeginRequest

LEMMA GetAdminByIDKeeps ==
    ASSUME IInv, NEW p \in Proc, GetAdminByID(p)
    PROVE  IInv'
<1> DEFINE t == [task[p] EXCEPT !.stage = "revoke"]
<1>1. /\ task[p].stage = "loadAccount" /\ (Becomes(p, t) \/ Becomes(p, Idle))
      /\ UNCHANGED <<account, session, loggedOut, begun>>
  BY DEF GetAdminByID
<1>2. task[p].stage = "loadAccount" BY DEF GetAdminByID
<1>3. t \in Task /\ t.stage = "revoke" /\ t.session = task[p].session
  BY <1>2, RefreshTask DEF IInv, TypeOK
<1>4. KnownTo(t)
  BY <1>2, <1>3 DEF KnownTo, IInv, Known
<1>5. \A s \in loggedOut : task[p].session # s
  BY <1>2 DEF IInv, Out, InUse
<1> HIDE DEF t
<1>6. KnownTo(Idle)
  BY IdleTask DEF KnownTo
<1> QED BY <1>1, <1>3, <1>4, <1>5, <1>6, IdleTask, SameAccounts, TaskKeeps DEF IInv, TypeOK

LEMMA EndKeeps ==
    ASSUME IInv, NEW p \in Proc, UpdateAdmin(p) \/ InsertAdmin(p) \/ Crash(p)
    PROVE  IInv'
<1> DEFINE t == [task[p] EXCEPT !.stage = "insertAdmin"]
<1>1. /\ UNCHANGED <<session, loggedOut, begun>>
      /\ \/ Becomes(p, Idle)
         \/ Becomes(p, t) /\ task[p].stage = "save"
  BY DEF UpdateAdmin, InsertAdmin, Crash
<1>2. account' \in [Account -> AccountStatus] /\ \A a \in Account : HasAccount(a) => HasAccount(a)'
  <2>1. CASE Crash(p)
    BY <2>1 DEF Crash, IInv, TypeOK, HasAccount
  <2>2. CASE UpdateAdmin(p) \/ InsertAdmin(p)
    <3>1. task[p].owner \in Account
      BY <2>2, SaveTask DEF UpdateAdmin, InsertAdmin, IInv, TypeOK
    <3>2. \/ UNCHANGED account
          \/ \E st \in {"ACTIVE", "INACTIVE"} : account' = [account EXCEPT ![task[p].owner] = st]
      BY <2>2 DEF UpdateAdmin, InsertAdmin
    <3> QED BY <3>1, <3>2 DEF IInv, TypeOK, HasAccount, AccountStatus
  <2> QED BY <2>1, <2>2
<1>3. KnownTo(Idle)
  BY IdleTask DEF KnownTo
<1>4. task[p].stage = "save" => t \in Task /\ t.stage = "insertAdmin"
  BY SaveTask DEF IInv, TypeOK
<1>5. t.stage = "insertAdmin" => KnownTo(t)
  <2> HIDE DEF t
  <2> QED BY DEF KnownTo
<1> HIDE DEF t
<1> QED BY <1>1, <1>2, <1>3, <1>4, <1>5, IdleTask, TaskKeeps DEF IInv, TypeOK

LEMMA CreateSessionKeeps ==
    ASSUME IInv, NEW p \in Proc, NEW s \in Session, CreateSession(p, s)
    PROVE  IInv'
<1> DEFINE a == task[p].owner
           old == task[p].session
           row == [status |-> "LIVE", owner |-> a, parent |-> old]
<1>1. /\ task[p].stage = "insert" /\ session[s].status = "NEW" /\ Becomes(p, Idle)
      /\ session' = IF HasAccount(a) THEN [session EXCEPT ![s] = row] ELSE session
      /\ UNCHANGED <<account, loggedOut, begun>>
  BY DEF CreateSession
<1>2. old \in Session \cup {None} /\ a \in Account
  BY <1>1, InsertTask DEF IInv, TypeOK
<1>3. /\ old # None => Over(old)
      /\ old \notin loggedOut
  BY <1>1 DEF IInv, Known, KnownTo, Out, InUse
<1>4. row \in SessionRow /\ row.status = "LIVE" /\ row.owner = a /\ row.parent = old
  BY <1>2 DEF SessionRow
<1> HIDE DEF row, old, a
<1>5. KnownTo(Idle)
  BY IdleTask DEF KnownTo
<1>6. CASE ~HasAccount(a)
  BY <1>1, <1>5, <1>6, IdleTask, SameAccounts, TaskKeeps DEF IInv, TypeOK
<1>7. CASE HasAccount(a)
  <2>1. /\ session' \in [Session -> SessionRow] /\ session'[s] = row
        /\ \A r \in Session \ {s} : session'[r] = session[r]
    BY <1>1, <1>4, <1>7 DEF IInv, TypeOK
  <2>2. /\ task' \in [Proc -> Task] /\ task'[p] = Idle
        /\ \A q \in Proc \ {p} : task'[q] = task[q]
    BY <1>1, Becoming, IdleTask DEF IInv
  <2>3. TypeOK'
    BY <1>1, <2>1, <2>2 DEF IInv, TypeOK
  <2>4. \A r \in Session : Over(r) => r # s /\ Over(r)'
    BY <1>1, <2>1 DEF Over
  <2>5. Rows'
    BY <1>2, <1>4, <2>1 DEF IInv, Rows, HasSession
  <2>6. Known'
    <3> SUFFICES ASSUME NEW q \in Proc PROVE KnownTo(task[q])'
      BY DEF Known
    <3>1. CASE q = p
      BY <2>2, <3>1, IdleTask DEF KnownTo
    <3>2. CASE q # p
      <4>1. task'[q] = task[q] /\ KnownTo(task[q])
        BY <2>2, <3>2 DEF IInv, Known
      <4>2. task[q].stage \in {"loadAccount", "revoke"} => task[q].session \in Session
        BY RefreshTask DEF IInv, TypeOK
      <4>3. task[q].stage = "insert" => task[q].session \in Session \cup {None}
        BY InsertTask DEF IInv, TypeOK
      <4> QED BY <1>4, <2>1, <2>4, <4>1, <4>2, <4>3 DEF KnownTo, Over
    <3> QED BY <3>1, <3>2
  <2>7. Out'
    BY <1>1, <2>2, <2>4, IdleTask DEF IInv, Out, TypeOK, InUse
  <2>8. SuccessorReplaces'
    <3>1. \A r \in Session : session[r].parent # None =>
              session[r].parent \in Session /\ Over(session[r].parent)
      <4>1. \A r \in Session : session[r].parent \in Session \cup {None}
        BY RowShape DEF IInv, TypeOK
      <4> QED BY <4>1 DEF IInv, SuccessorReplaces, Over
    <3> QED BY <1>2, <1>3, <1>4, <2>1, <2>4, <3>1 DEF SuccessorReplaces, Over
  <2>9. LogoutIsFinal'
    BY <1>1, <1>3, <1>4, <2>1 DEF IInv, LogoutIsFinal
  <2>10. SessionsHaveAccounts'
    BY <1>1, <1>4, <1>7, <2>1 DEF IInv, SessionsHaveAccounts, HasSession, HasAccount
  <2> QED BY <2>3, <2>5, <2>6, <2>7, <2>8, <2>9, <2>10 DEF IInv
<1> QED BY <1>6, <1>7

LEMMA NextKeeps == IInv /\ [Next]_vars => IInv'
<1> SUFFICES ASSUME IInv, [Next]_vars PROVE IInv'
  OBVIOUS
<1>1. CASE UNCHANGED vars
  BY <1>1 DEF vars, IInv, TypeOK, Rows, Known, KnownTo, Out, Over, InUse, SuccessorReplaces,
              LogoutIsFinal, SessionsHaveAccounts, HasSession, HasAccount
<1>2. CASE AtOnce
  BY <1>2, CreateAdminKeeps, DeleteAdminKeeps, LogoutKeeps DEF AtOnce
<1>3. ASSUME NEW p \in Proc, BeginRequest(p) \/ Progress(p) \/ Crash(p)
      PROVE  IInv'
  BY <1>3, BeginKeeps, GetAdminByIDKeeps, RevokeSessionKeeps, CreateSessionKeeps, EndKeeps
     DEF Progress
<1> QED BY <1>1, <1>2, <1>3 DEF Next

-----------------------------------------------------------------------------
(* Theorems.                                                               *)

\* The invariant holds of every reachable state.
THEOREM Invariance == Spec => []IInv
BY InitIInv, NextKeeps, PTL DEF Spec

\* Every variable keeps its type.
THEOREM TypeCorrect == Spec => []TypeOK
<1>1. IInv => TypeOK BY DEF IInv
<1> QED BY <1>1, Invariance, PTL

\* A refresh that is cut short anywhere never leaves two usable tokens behind
\* (service.go, RefreshTokens).
THEOREM SuccessorsReplace == Spec => []SuccessorReplaces
<1>1. IInv => SuccessorReplaces BY DEF IInv
<1> QED BY <1>1, Invariance, PTL

\* A session logged out while no refresh of it was under way never gets a
\* successor (service.go, RevokeByRefreshHash).
THEOREM LogoutsAreFinal == Spec => []LogoutIsFinal
<1>1. IInv => LogoutIsFinal BY DEF IInv
<1> QED BY <1>1, Invariance, PTL

\* No session outlives its account, whatever was being inserted or saved when
\* the account was deleted.
THEOREM SessionsAreOwned == Spec => []SessionsHaveAccounts
<1>1. IInv => SessionsHaveAccounts BY DEF IInv
<1> QED BY <1>1, Invariance, PTL
=============================================================================
