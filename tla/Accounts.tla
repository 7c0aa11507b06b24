------------------------------- MODULE Accounts -------------------------------
(***************************************************************************)
(* Accounts of one tenant and their refresh tokens.  AccountService and the *)
(* routes above it are sequences of small transactions: what one of them    *)
(* reads may have changed when the next one writes.                         *)
(***************************************************************************)
EXTENDS Naturals, FiniteSets

CONSTANTS
  AccUser,       \* user ids
  AccRequests,   \* bound on requests; they arrive in the order of their numbers
  AccOverlap,    \* bound on requests in progress together
  NoUser,
  MaxTokens,     \* bound on refresh tokens issued
  MaxPasswords,  \* bound on passwords set
  MaxFailures    \* failed logins that lock the account

ASSUME AccAssumption ==
  /\ NoUser \notin AccUser
  /\ AccRequests \in Nat /\ AccOverlap \in Nat
  /\ MaxTokens \in Nat /\ MaxPasswords \in Nat /\ MaxFailures \in Nat \ {0}

AccRequest == 1..AccRequests

VARIABLES
  accRow,      \* ops_accounts
  accAccess,   \* users with a row in ops_access_users
  accToken,    \* ops_account_sessions, in the order they were issued
  accIssued,   \* number of tokens issued
  accLastPw,   \* number of passwords set; each is named by its number
  accCall      \* what each request is doing

accVars == <<accRow, accAccess, accToken, accIssued, accLastPw, accCall>>

AccRows == [role : {"none", "admin", "member"}, enabled : BOOLEAN, pw : 0..MaxPasswords,
            must : BOOLEAN, failures : 0..MaxFailures, locked : BOOLEAN]
NoRow == [role |-> "none", enabled |-> FALSE, pw |-> 0, must |-> FALSE, failures |-> 0,
          locked |-> FALSE]

\* parent: the token it was exchanged for, 0 if none; pw: the password that opened
\* the session; late: history, it escaped a revocation of its user's sessions: it was being
\* issued meanwhile, or the revocation was never made, as the request that had written the
\* password ended before it or was a registration.
AccTokens == [user : AccUser \cup {NoUser}, live : BOOLEAN, parent : 0..MaxTokens,
              pw : 0..MaxPasswords, late : BOOLEAN]
NoToken == [user |-> NoUser, live |-> FALSE, parent |-> 0, pw |-> 0, late |-> FALSE]

AccPc == {"idle", "done", "put", "update", "revoke", "access", "unaccess", "delete", "fail", "failed",
          "success", "newpw", "reload", "reread", "issue"}

\* overtaken: history, the accounts were changed by another request since this one checked
\* them.
AccCalls == [pc : AccPc, op : {"none", "register", "provision", "delete", "reset", "login",
                               "refresh", "change"},
             user : AccUser \cup {NoUser}, row : AccRows, parent : 0..MaxTokens,
             pw : 0..MaxPasswords, late : BOOLEAN, overtaken : BOOLEAN]
NoCall == [pc |-> "idle", op |-> "none", user |-> NoUser, row |-> NoRow, parent |-> 0,
           pw |-> 0, late |-> FALSE, overtaken |-> FALSE]
DoneCall == [NoCall EXCEPT !.pc = "done"]

AccTypeOK ==
  /\ accRow \in [AccUser -> AccRows]
  /\ accAccess \subseteq AccUser
  /\ accToken \in [1..MaxTokens -> AccTokens]
  /\ accIssued \in 0..MaxTokens
  /\ accLastPw \in 0..MaxPasswords
  /\ accCall \in [AccRequest -> AccCalls]

AccInit ==
  /\ accRow = [u \in AccUser |-> NoRow]
  /\ accAccess = {}
  /\ accToken = [t \in 1..MaxTokens |-> NoToken]
  /\ accIssued = 0 /\ accLastPw = 0
  /\ accCall = [c \in AccRequest |-> NoCall]

HasAccount(u) == accRow[u].role # "none"
Configured == \E u \in AccUser : HasAccount(u)
EnabledAdmin(u) == accRow[u].role = "admin" /\ accRow[u].enabled

AccAt(c, pc) == accCall[c].pc = pc
AccGoto(c, pc) == accCall' = [accCall EXCEPT ![c] = [accCall[c] EXCEPT !.pc = pc]]
AccDone(c) == accCall' = [accCall EXCEPT ![c] = DoneCall]
InProgress == {c \in AccRequest : ~ AccAt(c, "idle") /\ ~ AccAt(c, "done")}
Arrives(c) ==
  /\ AccAt(c, "idle") /\ \A d \in 1..(c - 1) : ~ AccAt(d, "idle")
  /\ Cardinality(InProgress) < AccOverlap
AccStart(c, op, u, pc, row, parent, pw) ==
  /\ Arrives(c)
  /\ accCall' = [accCall EXCEPT ![c] = [pc |-> pc, op |-> op, user |-> u, row |-> row,
                                        parent |-> parent, pw |-> pw, late |-> FALSE,
                                        overtaken |-> FALSE]]

\* A route for administrators: with a bearer token of one, or any caller while the
\* tenant has no account.
AdminRoute == ~ Configured \/ \E a \in AccUser : EnabledAdmin(a) /\ ~ accRow[a].must

\* Variant: a disabled administrator counts.
AdminSurvives_AnyAdmin(u, role, enabled) ==
  \/ accRow[u].role # "admin"
  \/ role = "admin" /\ enabled
  \/ \E a \in AccUser \ {u} : accRow[a].role = "admin"

\* ensure_admin_survives: the user is no admin now, or stays one, or another is.
AdminSurvives(u, role, enabled) ==
  \/ accRow[u].role # "admin"
  \/ role = "admin" /\ enabled
  \/ \E a \in AccUser \ {u} : EnabledAdmin(a)

---------------------------------------------------------------------------
(* The first transaction of each request: what it checks *)

Register(c, u) ==
  /\ ~ Configured
  /\ AccStart(c, "register", u, "put",
              [NoRow EXCEPT !.role = "admin", !.enabled = TRUE], 0, 0)
  /\ UNCHANGED <<accRow, accAccess, accToken, accIssued, accLastPw>>

\* put_access_user, with a temporary password or without.
Provision(c, u, role, enabled, temporary) ==
  /\ AdminRoute
  /\ AdminSurvives(u, role, enabled)
  /\ AccStart(c, "provision", u,
              IF temporary THEN "put" ELSE IF HasAccount(u) THEN "update" ELSE "access",
              [NoRow EXCEPT !.role = role, !.enabled = enabled, !.must = TRUE], 0, 0)
  /\ UNCHANGED <<accRow, accAccess, accToken, accIssued, accLastPw>>

\* delete_access_user
DeleteUser(c, u) ==
  /\ AdminRoute
  /\ AdminSurvives(u, "none", FALSE)
  /\ AccStart(c, "delete", u, "unaccess", NoRow, 0, 0)
  /\ UNCHANGED <<accRow, accAccess, accToken, accIssued, accLastPw>>

\* reset_password writes back the role and the flag that it reads here.
Reset(c, u) ==
  /\ AdminRoute /\ HasAccount(u)
  /\ AccStart(c, "reset", u, "put",
              [NoRow EXCEPT !.role = accRow[u].role, !.enabled = accRow[u].enabled,
                            !.must = TRUE], 0, 0)
  /\ UNCHANGED <<accRow, accAccess, accToken, accIssued, accLastPw>>

\* authenticate, with a password that was set at some time.
Login(c, u, pw) ==
  /\ HasAccount(u) /\ accRow[u].enabled
  /\ ~ accRow[u].locked
  /\ AccStart(c, "login", u, IF pw = accRow[u].pw THEN "success" ELSE "fail", NoRow, 0, pw)
  /\ UNCHANGED <<accRow, accAccess, accToken, accIssued, accLastPw>>

\* Variant: a token that was exchanged can be exchanged again.
Refresh_Reusable(c, t) ==
  /\ accToken[t].live
  /\ Arrives(c)
  /\ accCall' = [accCall EXCEPT ![c] =
                   [pc |-> "reload", op |-> "refresh", user |-> accToken[t].user, row |-> NoRow,
                    parent |-> t, pw |-> accToken[t].pw, late |-> accToken[t].late,
                    overtaken |-> FALSE]]
  /\ UNCHANGED <<accRow, accAccess, accToken, accIssued, accLastPw>>

\* consume_session, one transaction under FOR UPDATE.
Refresh(c, t) ==
  /\ accToken[t].live
  /\ Arrives(c)
  /\ accCall' = [accCall EXCEPT ![c] =
                   [pc |-> "reload", op |-> "refresh", user |-> accToken[t].user, row |-> NoRow,
                    parent |-> t, pw |-> accToken[t].pw, late |-> accToken[t].late,
                    overtaken |-> FALSE]]
  /\ accToken' = [accToken EXCEPT ![t] = [accToken[t] EXCEPT !.live = FALSE]]
  /\ UNCHANGED <<accRow, accAccess, accIssued, accLastPw>>

\* logout is one transaction.
Logout(t) ==
  /\ accToken[t].live
  /\ accToken' = [accToken EXCEPT ![t] = [accToken[t] EXCEPT !.live = FALSE]]
  /\ UNCHANGED <<accRow, accAccess, accIssued, accLastPw, accCall>>

\* change_password by the user, who knows the current password.
ChangePassword(c, u) ==
  /\ HasAccount(u) /\ accRow[u].enabled
  /\ AccStart(c, "change", u, "newpw", NoRow, 0, 0)
  /\ UNCHANGED <<accRow, accAccess, accToken, accIssued, accLastPw>>

---------------------------------------------------------------------------
(* The later transactions *)

WriteRow(u, row) == accRow' = [accRow EXCEPT ![u] = row]

\* An UPDATE changes nothing when the row was deleted.
UpdateRow(u, row) == IF HasAccount(u) THEN WriteRow(u, row) ELSE UNCHANGED accRow

AdminOp == {"register", "provision", "delete", "reset"}

\* Request c goes on as new.  History of the others: those of the users in ended are late,
\* and those whose operation is in passed are overtaken.
AccMoves(c, new, ended, passed) ==
  accCall' = [d \in AccRequest |->
    IF d = c THEN new
    ELSE [accCall[d] EXCEPT !.late = @ \/ accCall[d].user \in ended,
                            !.overtaken = @ \/ accCall[d].op \in passed]]

EndSessions(u) ==
  accToken' = [t \in 1..MaxTokens |->
    IF accToken[t].user = u THEN [accToken[t] EXCEPT !.live = FALSE] ELSE accToken[t]]

\* History: the sessions of the users in kept outlive their password.
KeepSessions(kept) ==
  accToken' = [t \in 1..MaxTokens |->
    [accToken[t] EXCEPT !.late = @ \/ (accToken[t].live /\ accToken[t].user \in kept)]]

\* PostgresAccountStore.put: a new password, no failures, no lock.  A registration that
\* finds the account of an overlapping one revokes nothing.
PutAccount(c) ==
  LET u    == accCall[c].user
      kept == IF accCall[c].op = "register" /\ HasAccount(u) THEN {u} ELSE {} IN
  /\ AccAt(c, "put") /\ accLastPw < MaxPasswords
  /\ accLastPw' = accLastPw + 1
  /\ WriteRow(u, [accCall[c].row EXCEPT !.pw = accLastPw + 1])
  /\ AccMoves(c, [accCall[c] EXCEPT
                    !.pc = IF accCall[c].op = "register" THEN "access" ELSE "revoke",
                    !.pw = accLastPw + 1], kept, AdminOp)
  /\ KeepSessions(kept)
  /\ UNCHANGED <<accAccess, accIssued>>

UpdateProfile(c) ==
  LET u == accCall[c].user IN
  /\ AccAt(c, "update")
  /\ UpdateRow(u, [accRow[u] EXCEPT !.role = accCall[c].row.role, !.enabled = accCall[c].row.enabled])
  /\ AccMoves(c, [accCall[c] EXCEPT !.pc = "access"], {}, IF HasAccount(u) THEN AdminOp ELSE {})
  /\ UNCHANGED <<accAccess, accToken, accIssued, accLastPw>>

\* Variant: the sessions are not revoked.
NewPassword_KeepsSessions(c) ==
  /\ AccAt(c, "newpw") /\ accLastPw < MaxPasswords
  /\ accLastPw' = accLastPw + 1
  /\ LET u == accCall[c].user IN
     UpdateRow(u, [accRow[u] EXCEPT !.pw = accLastPw + 1, !.must = FALSE, !.failures = 0,
                                    !.locked = FALSE])
  /\ accCall' = [accCall EXCEPT ![c] = [accCall[c] EXCEPT !.pc = "reread", !.pw = accLastPw + 1]]
  /\ UNCHANGED <<accAccess, accToken, accIssued>>

\* PostgresAccountStore.change_password
NewPassword(c) ==
  /\ AccAt(c, "newpw") /\ accLastPw < MaxPasswords
  /\ accLastPw' = accLastPw + 1
  /\ LET u == accCall[c].user IN
     UpdateRow(u, [accRow[u] EXCEPT !.pw = accLastPw + 1, !.must = FALSE, !.failures = 0,
                                    !.locked = FALSE])
  /\ accCall' = [accCall EXCEPT ![c] = [accCall[c] EXCEPT !.pc = "revoke", !.pw = accLastPw + 1]]
  /\ UNCHANGED <<accAccess, accToken, accIssued>>

\* revoke_user_sessions, a transaction of its own after that of the password.
Revoke(c) ==
  LET u   == accCall[c].user
      new == CASE accCall[c].op = "provision" -> [accCall[c] EXCEPT !.pc = "access"]
               [] accCall[c].op = "change" -> [accCall[c] EXCEPT !.pc = "reread"]
               [] OTHER -> DoneCall IN
  /\ AccAt(c, "revoke")
  /\ EndSessions(u)
  /\ AccMoves(c, new, {u}, {})
  /\ UNCHANGED <<accRow, accAccess, accIssued, accLastPw>>

\* The process dies or the database raises: what the request has written stays, and after a
\* password without the revocation nobody revokes.
Dies(c) ==
  LET cut == IF AccAt(c, "revoke") THEN {accCall[c].user} ELSE {} IN
  /\ c \in InProgress
  /\ KeepSessions(cut)
  /\ AccMoves(c, DoneCall, cut, {})
  /\ UNCHANGED <<accRow, accAccess, accIssued, accLastPw>>

\* access_control.put_user.  A registration goes on to issue tokens.
PutAccess(c) ==
  /\ AccAt(c, "access")
  /\ accAccess' = accAccess \cup {accCall[c].user}
  /\ IF accCall[c].op = "register" THEN AccGoto(c, "issue") ELSE AccDone(c)
  /\ UNCHANGED <<accRow, accToken, accIssued, accLastPw>>

\* access_control.delete_user: without a row there the account stays.
DeleteAccess(c) ==
  /\ AccAt(c, "unaccess")
  /\ accAccess' = accAccess \ {accCall[c].user}
  /\ IF accCall[c].user \in accAccess THEN AccGoto(c, "delete") ELSE AccDone(c)
  /\ UNCHANGED <<accRow, accToken, accIssued, accLastPw>>

\* The sessions go with the account (ON DELETE CASCADE).
DeleteAccount(c) ==
  /\ AccAt(c, "delete")
  /\ WriteRow(accCall[c].user, NoRow)
  /\ EndSessions(accCall[c].user)
  /\ AccMoves(c, DoneCall, {accCall[c].user}, AdminOp)
  /\ UNCHANGED <<accAccess, accIssued, accLastPw>>

\* record_login_failure reads the counter ...
CountFailure(c) ==
  /\ AccAt(c, "fail")
  /\ IF HasAccount(accCall[c].user)
       THEN accCall' = [accCall EXCEPT ![c] = [accCall[c] EXCEPT
                          !.pc = "failed", !.row = accRow[accCall[c].user]]]
       ELSE AccDone(c)
  /\ UNCHANGED <<accRow, accAccess, accToken, accIssued, accLastPw>>

\* ... and writes it, with the lock that goes with it, or without one.
RecordFailure(c) ==
  /\ AccAt(c, "failed")
  /\ LET u == accCall[c].user
         n == IF accCall[c].row.failures < MaxFailures THEN accCall[c].row.failures + 1
              ELSE MaxFailures IN
     UpdateRow(u, [accRow[u] EXCEPT !.failures = n, !.locked = (n = MaxFailures)])
  /\ AccDone(c)
  /\ UNCHANGED <<accAccess, accToken, accIssued, accLastPw>>

\* record_login_success
RecordSuccess(c) ==
  /\ AccAt(c, "success")
  /\ LET u == accCall[c].user IN
     UpdateRow(u, [accRow[u] EXCEPT !.failures = 0, !.locked = FALSE])
  /\ AccGoto(c, "reread")
  /\ UNCHANGED <<accAccess, accToken, accIssued, accLastPw>>

\* store.get before tokens are issued: refresh refuses a disabled account.
Reread(c) ==
  /\ AccAt(c, "reread") \/ AccAt(c, "reload")
  /\ LET u == accCall[c].user IN
     IF HasAccount(u) /\ (AccAt(c, "reload") => accRow[u].enabled)
       THEN AccGoto(c, "issue") ELSE AccDone(c)
  /\ UNCHANGED <<accRow, accAccess, accToken, accIssued, accLastPw>>

\* issue_tokens, create_session: the foreign key refuses a deleted account.
Issue(c) ==
  /\ AccAt(c, "issue")
  /\ IF HasAccount(accCall[c].user)
       THEN /\ accIssued < MaxTokens
            /\ accIssued' = accIssued + 1
            /\ accToken' = [accToken EXCEPT ![accIssued + 1] =
                 [user |-> accCall[c].user, live |-> TRUE, parent |-> accCall[c].parent,
                  pw |-> accCall[c].pw, late |-> accCall[c].late]]
       ELSE UNCHANGED <<accToken, accIssued>>
  /\ AccDone(c)
  /\ UNCHANGED <<accRow, accAccess, accLastPw>>

\* locked_until passes.
LockExpires(u) ==
  /\ accRow[u].locked
  /\ WriteRow(u, [accRow[u] EXCEPT !.locked = FALSE])
  /\ UNCHANGED <<accAccess, accToken, accIssued, accLastPw, accCall>>

AccStep(c) ==
  \/ PutAccount(c) \/ UpdateProfile(c) \/ NewPassword(c) \/ Revoke(c) \/ Dies(c)
  \/ PutAccess(c) \/ DeleteAccess(c) \/ DeleteAccount(c)
  \/ CountFailure(c) \/ RecordFailure(c) \/ RecordSuccess(c) \/ Reread(c) \/ Issue(c)

AccBegin(c) ==
  /\ Arrives(c)
  /\ \/ \E u \in AccUser :
          \/ Register(c, u) \/ DeleteUser(c, u) \/ Reset(c, u) \/ ChangePassword(c, u)
          \/ \E role \in {"admin", "member"}, enabled, temporary \in BOOLEAN :
               Provision(c, u, role, enabled, temporary)
          \/ \E pw \in 1..accLastPw : Login(c, u, pw)
     \/ \E t \in 1..MaxTokens : Refresh(c, t)

AccNext ==
  \/ \E c \in AccRequest : AccBegin(c) \/ AccStep(c)
  \/ \E t \in 1..MaxTokens : Logout(t)
  \/ \E u \in AccUser : LockExpires(u)

AccSpec == AccInit /\ [][AccNext]_accVars

---------------------------------------------------------------------------
(* Properties *)

\* A refresh token is exchanged once: whatever requests present it together, it has
\* one successor (consume_session).
RotatedOnce ==
  \A t1, t2 \in 1..MaxTokens :
    accToken[t1].parent # 0 /\ accToken[t1].parent = accToken[t2].parent => t1 = t2

\* A new password ends the sessions opened with an older one: what is live belongs
\* to the current password, to a revocation that is still to come, to a request that was
\* under way during the revocation, or to a password whose request ended between the write
\* and the revocation or was a second registration (change_password, reset_password,
\* provision, register).
OldSessionsEnd ==
  \A t \in 1..MaxTokens :
    accToken[t].live /\ ~ accToken[t].late
      => \/ accToken[t].pw = accRow[accToken[t].user].pw
         \/ \E c \in AccRequest : AccAt(c, "revoke") /\ accCall[c].user = accToken[t].user

\* A tenant loses its last enabled administrator only by a request that was overtaken: an
\* account was written between what it checked and its own write (ensure_admin_survives
\* and provision, delete and reset_password are transactions of their own).
AdminRemains ==
  [][(\E u \in AccUser : EnabledAdmin(u)) /\ ~ (\E u \in AccUser : EnabledAdmin(u))'
       => \E c \in AccRequest : accCall[c].overtaken /\ accCall'[c] # accCall[c]]_accVars
=============================================================================
