------------------------------ MODULE Sessions ------------------------------
(***************************************************************************)
(* The auth plugin: admin accounts and their refresh sessions              *)
(* (plugins/auth/services/service.go and the handlers that call it; the    *)
(* customer functions are the same code on another table).                 *)
(*                                                                         *)
(* No operation runs in a transaction: every SQL statement is a step of    *)
(* its own, and the request may die, and others may run, between any two.  *)
(* A session stands for its refresh token, which only its holder knows;    *)
(* passwords are left out (a login is one whose password was right), and   *)
(* access tokens are (they are never looked up again).                     *)
(***************************************************************************)
EXTENDS Integers

CONSTANTS
    Account,        \* ids of table admins
    Session,        \* ids of table admin_sessions (UUIDs)
    Proc,           \* concurrent requests
    MaxRequests,    \* bound: requests begun in a behaviour
    None            \* nobody, nothing

ASSUME SessionAssumption ==
    /\ None \notin Account \cup Session
    /\ MaxRequests \in Nat

AccountStatus == {"NEW", "ACTIVE", "INACTIVE", "GONE"}

\* parent is the session a refresh replaced (the table does not record it).
\* LIVE is a row that is neither revoked nor expired.
SessionRow == [status : {"NEW", "LIVE", "EXPIRED", "REVOKED", "GONE"},
               owner : Account \cup {None}, parent : Session \cup {None}]
NoSession(s) == [status |-> s, owner |-> None, parent |-> None]

Idle == [stage |-> "idle"]
Task == {Idle}
    \cup [stage : {"loadAccount", "revoke"}, session : Session, owner : Account]
    \cup [stage : {"insert"}, session : Session \cup {None}, owner : Account]
    \cup [stage : {"save", "insertAdmin"}, owner : Account, active : BOOLEAN]

VARIABLES
    account,        \* table admins
    session,        \* table admin_sessions
    task,           \* what each request still has to do
    loggedOut,      \* history: unrevoked sessions logged out while no refresh of
                    \* them was under way
    begun           \* requests begun so far

vars == <<account, session, task, loggedOut, begun>>

HasAccount(a) == account[a] \in {"ACTIVE", "INACTIVE"}
HasSession(s) == session[s].status \in {"LIVE", "EXPIRED", "REVOKED"}

TypeOK ==
    /\ account \in [Account -> AccountStatus]
    /\ session \in [Session -> SessionRow]
    /\ task \in [Proc -> Task]
    /\ loggedOut \subseteq Session
    /\ begun \in Nat

Init ==
    /\ account = [a \in Account |-> "NEW"]
    /\ session = [s \in Session |-> NoSession("NEW")]
    /\ task = [p \in Proc |-> Idle]
    /\ loggedOut = {}
    /\ begun = 0

Begun == begun < MaxRequests /\ begun' = begun + 1
Becomes(p, t) == task' = [task EXCEPT ![p] = t]

-----------------------------------------------------------------------------
(* Accounts.                                                               *)

\* The console command, the registration: INSERT, with is_active.
CreateAdmin(a) ==
    /\ Begun
    /\ account[a] = "NEW"
    /\ account' = [account EXCEPT ![a] = "ACTIVE"]
    /\ UNCHANGED <<session, task, loggedOut>>

\* The update reads the row and changes some of its fields.
GetAdminToUpdate(p, a, active) ==
    /\ task[p] = Idle
    /\ Begun
    /\ HasAccount(a)
    /\ Becomes(p, [stage |-> "save", owner |-> a, active |-> active])
    /\ UNCHANGED <<account, session, loggedOut>>

\* Save: UPDATE of the whole row by its id.
UpdateAdmin(p) ==
    LET a == task[p].owner IN
    /\ task[p].stage = "save"
    /\ IF HasAccount(a)
       THEN /\ account' = [account EXCEPT ![a] =
                               IF task[p].active THEN "ACTIVE" ELSE "INACTIVE"]
            /\ Becomes(p, Idle)
       ELSE /\ Becomes(p, [task[p] EXCEPT !.stage = "insertAdmin"])
            /\ UNCHANGED account
    /\ UNCHANGED <<session, loggedOut, begun>>

\* When it matched none, Save's INSERT ... ON CONFLICT DO UPDATE, where gorm
\* writes the column's default for an is_active that is false.
InsertAdmin(p) ==
    /\ task[p].stage = "insertAdmin"
    /\ account' = [account EXCEPT ![task[p].owner] = "ACTIVE"]
    /\ Becomes(p, Idle)
    /\ UNCHANGED <<session, loggedOut, begun>>

\* (Mutation: without ON DELETE CASCADE.)
DeleteAdminOnly(a) ==
    /\ Begun
    /\ HasAccount(a)
    /\ account' = [account EXCEPT ![a] = "GONE"]
    /\ UNCHANGED <<session, task, loggedOut>>

\* DELETE; its sessions go with it (ON DELETE CASCADE).
DeleteAdmin(a) ==
    /\ Begun
    /\ HasAccount(a)
    /\ account' = [account EXCEPT ![a] = "GONE"]
    /\ session' = [s \in Session |-> IF HasSession(s) /\ session[s].owner = a
                                     THEN NoSession("GONE") ELSE session[s]]
    /\ UNCHANGED <<task, loggedOut>>

-----------------------------------------------------------------------------
(* Sessions.                                                               *)

\* AuthenticateAndCreateSession, up to the INSERT of the session.
Login(p, a) ==
    /\ task[p] = Idle
    /\ Begun
    /\ account[a] = "ACTIVE"
    /\ Becomes(p, [stage |-> "insert", session |-> None, owner |-> a])
    /\ UNCHANGED <<account, session, loggedOut>>

\* (Mutation: revoked is not looked at.)
ReadAnySession(p, s) ==
    /\ task[p] = Idle
    /\ Begun
    /\ session[s].status \in {"LIVE", "REVOKED"}
    /\ Becomes(p, [stage |-> "loadAccount", session |-> s, owner |-> session[s].owner])
    /\ UNCHANGED <<account, session, loggedOut>>

\* (Mutation: that no row was found is not noticed.)
ReadNoSession(p, s) ==
    /\ task[p] = Idle
    /\ Begun
    /\ session[s].status \in {"NEW", "LIVE"}
    /\ Becomes(p, [stage |-> "loadAccount", session |-> s, owner |-> session[s].owner])
    /\ UNCHANGED <<account, session, loggedOut>>

\* RefreshTokens: the session is read and checked (found, not revoked, not
\* expired) ...
RefreshTokens(p, s) ==
    /\ task[p] = Idle
    /\ Begun
    /\ session[s].status = "LIVE"
    /\ Becomes(p, [stage |-> "loadAccount", session |-> s, owner |-> session[s].owner])
    /\ UNCHANGED <<account, session, loggedOut>>

\* ... its account is (found, active or not) ...
GetAdminByID(p) ==
    /\ task[p].stage = "loadAccount"
    /\ Becomes(p, IF HasAccount(task[p].owner) THEN [task[p] EXCEPT !.stage = "revoke"]
                                               ELSE Idle)
    /\ UNCHANGED <<account, session, loggedOut, begun>>

\* (Mutation: the next statement is made without this one.)
RevokeNothing(p) ==
    /\ task[p].stage = "revoke"
    /\ Becomes(p, [task[p] EXCEPT !.stage = "insert"])
    /\ UNCHANGED <<account, session, loggedOut, begun>>

\* ... it is revoked, whatever has become of it (no row is no error) ...
RevokeSession(p) ==
    LET s == task[p].session IN
    /\ task[p].stage = "revoke"
    /\ session' = IF HasSession(s) THEN [session EXCEPT ![s].status = "REVOKED"] ELSE session
    /\ Becomes(p, [task[p] EXCEPT !.stage = "insert"])
    /\ UNCHANGED <<account, loggedOut, begun>>

\* ... and its successor is inserted, if the account still is there.
CreateSession(p, s) ==
    LET a == task[p].owner IN
    /\ task[p].stage = "insert"
    /\ session[s].status = "NEW"
    /\ session' = IF HasAccount(a)
                  THEN [session EXCEPT ![s] = [status |-> "LIVE", owner |-> a,
                                               parent |-> task[p].session]]
                  ELSE session
    /\ Becomes(p, Idle)
    /\ UNCHANGED <<account, loggedOut, begun>>

InUse(s) == \E p \in Proc : /\ task[p].stage \in {"loadAccount", "revoke", "insert"}
                            /\ task[p].session = s

\* RevokeByRefreshHash, in one statement.
Logout(s) ==
    /\ Begun
    /\ HasSession(s)
    /\ session' = [session EXCEPT ![s].status = "REVOKED"]
    /\ loggedOut' = IF InUse(s) \/ session[s].status = "REVOKED" THEN loggedOut
                                                           ELSE loggedOut \cup {s}
    /\ UNCHANGED <<account, task>>

\* Time passes: expires_at is over.
Expire(s) ==
    /\ session[s].status = "LIVE"
    /\ session' = [session EXCEPT ![s].status = "EXPIRED"]
    /\ UNCHANGED <<account, task, loggedOut, begun>>

\* A statement fails or the server dies: what was done so far stays done.
Crash(p) ==
    /\ task[p] # Idle
    /\ Becomes(p, Idle)
    /\ UNCHANGED <<account, session, loggedOut, begun>>

-----------------------------------------------------------------------------
BeginRequest(p) ==
    \/ \E a \in Account : Login(p, a) \/ \E b \in BOOLEAN : GetAdminToUpdate(p, a, b)
    \/ \E s \in Session : RefreshTokens(p, s)

Progress(p) ==
    \/ GetAdminByID(p)
    \/ RevokeSession(p)
    \/ \E s \in Session : CreateSession(p, s)
    \/ UpdateAdmin(p)
    \/ InsertAdmin(p)

AtOnce ==
    \/ \E a \in Account : CreateAdmin(a) \/ DeleteAdmin(a)
    \/ \E s \in Session : Logout(s) \/ Expire(s)

Next == AtOnce \/ \E p \in Proc : BeginRequest(p) \/ Progress(p) \/ Crash(p)

Spec == Init /\ [][Next]_vars

-----------------------------------------------------------------------------
(* Properties.                                                             *)

\* A refresh never leaves two usable tokens behind, however it is cut short: a
\* session that has a successor is revoked, or is gone with its account.
SuccessorReplaces ==
    \A s \in Session : session[s].parent # None =>
        session[session[s].parent].status \in {"REVOKED", "GONE"}

\* Logging out is final: an unrevoked session logged out while no refresh of it
\* was under way never gets a successor, also not one of a refresh that comes later.
LogoutIsFinal == \A s \in Session : session[s].parent \notin loggedOut

\* Nobody is logged in to an account that is not there, whatever was being
\* inserted, refreshed or saved when it was deleted.
SessionsHaveAccounts ==
    \A s \in Session : HasSession(s) => HasAccount(session[s].owner)

\* The comment on RefreshTokens says that it consumes its refresh token: one
\* token is exchanged for one successor, not for several.
RefreshConsumes ==
    \A s, t \in Session :
        session[s].parent # None /\ session[s].parent = session[t].parent => s = t

=============================================================================
