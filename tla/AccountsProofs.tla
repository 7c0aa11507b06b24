---------------------------- MODULE AccountsProofs ----------------------------
(***************************************************************************)
(* Refresh tokens, passwords and administrators, for any number of users,   *)
(* requests and tokens, whatever overlaps or ends half-way: RotatedOnce,    *)
(* OldSessionsEnd, AdminRemains.  Permission rules and what refers to them, *)
(* for any number of users, groups, tools, rules, saves and moves:          *)
(* OneRulePerTool and NothingInherited.                                     *)
(***************************************************************************)
EXTENDS Accounts, AccessControl, TLAPS

---------------------------------------------------------------------------
(* The inductive invariant *)

\* A token that is being expassed, or has a successor, was issued and is not live.
ParentsSpent ==
  \A t \in 1..MaxTokens :
    (\E s \in 1..MaxTokens : accToken[s].parent = t) \/ (\E c \in AccRequest : accCall[c].parent = t)
      => t <= accIssued /\ ~ accToken[t].live

\* One request at most exchanges a token, and none does that has a successor.
OneExchange ==
  \A t \in 1..MaxTokens : \A c \in AccRequest : accCall[c].parent = t =>
    /\ \A d \in AccRequest : accCall[d].parent = t => d = c
    /\ \A s \in 1..MaxTokens : accToken[s].parent # t

\* A token that was not issued yet is not live.
IssuedInOrder == \A t \in 1..MaxTokens : accToken[t].live => t <= accIssued

\* A request at work and a live token have a user.
Owned ==
  /\ \A c \in AccRequest : accCall[c].pc \notin {"idle", "done"} => accCall[c].user \in AccUser
  /\ \A t \in 1..MaxTokens : accToken[t].live => accToken[t].user \in AccUser

Typed == AccTypeOK /\ Owned

Chain == Typed /\ ParentsSpent /\ OneExchange /\ IssuedInOrder /\ RotatedOnce

\* A step that issues and exchanges nothing.
Quiet ==
  /\ accIssued' = accIssued
  /\ \A t \in 1..MaxTokens :
       accToken'[t].parent = accToken[t].parent /\ (accToken'[t].live => accToken[t].live)
  /\ \A c \in AccRequest : accCall'[c].parent \in {0, accCall[c].parent}

---------------------------------------------------------------------------
(* Types *)

\* The records a state begins with have their types.
LEMMA NoneTyped ==
  NoRow \in AccRows /\ NoToken \in AccTokens /\ NoCall \in AccCalls /\ DoneCall \in AccCalls
<1>1. NoRow \in AccRows
  BY AccAssumption DEF NoRow, AccRows
<1>2. NoToken \in AccTokens
  BY AccAssumption DEF NoToken, AccTokens
<1>3. NoCall \in AccCalls
  BY AccAssumption, <1>1 DEF NoCall, AccCalls, AccPc
<1>4. DoneCall \in AccCalls
  BY <1>3 DEF DoneCall, AccCalls, AccPc
<1> QED BY <1>1, <1>2, <1>3, <1>4

\* A row that is written to a user keeps the table typed.
LEMMA RowWritten ==
  ASSUME AccTypeOK, NEW u \in AccUser, NEW row \in AccRows, WriteRow(u, row) \/ UpdateRow(u, row)
  PROVE  accRow' \in [AccUser -> AccRows]
BY DEF AccTypeOK, WriteRow, UpdateRow

\* What becomes of a request x while another one moves: it may have become late or overtaken.
Follows(x, y, ended, passed) ==
  /\ y \in AccCalls
  /\ y.pc = x.pc /\ y.op = x.op /\ y.user = x.user /\ y.row = x.row
  /\ y.parent = x.parent /\ y.pw = x.pw
  /\ x.late \/ x.user \in ended => y.late
  /\ x.overtaken \/ x.op \in passed => y.overtaken

\* Request c goes on as new, and the others follow.
Moves(c, new, ended, passed) ==
  /\ accCall' \in [AccRequest -> AccCalls]
  /\ accCall'[c] = new
  /\ \A d \in AccRequest \ {c} : Follows(accCall[d], accCall'[d], ended, passed)

LEMMA MovesAlone ==
  ASSUME AccTypeOK, NEW c \in AccRequest, NEW new \in AccCalls,
         accCall' = [accCall EXCEPT ![c] = new]
  PROVE  Moves(c, new, {}, {})
BY DEF Moves, Follows, AccTypeOK

LEMMA MovesOthers ==
  ASSUME AccTypeOK, NEW c \in AccRequest, NEW new \in AccCalls, NEW ended, NEW passed,
         AccMoves(c, new, ended, passed)
  PROVE  Moves(c, new, ended, passed)
<1>1. ASSUME NEW d \in AccRequest \ {c}
      PROVE  Follows(accCall[d], accCall'[d], ended, passed)
  <2>1. PICK x : x = accCall[d]
    OBVIOUS
  <2>2. PICK late : late = (x.late \/ x.user \in ended)
    OBVIOUS
  <2>3. PICK overtaken : overtaken = (x.overtaken \/ x.op \in passed)
    OBVIOUS
  <2>4. x \in AccCalls /\ accCall'[d] = [x EXCEPT !.late = late, !.overtaken = overtaken]
    BY <2>1, <2>2, <2>3 DEF AccMoves, AccTypeOK
  <2>5. late \in BOOLEAN /\ overtaken \in BOOLEAN
    BY <2>2, <2>3
  <2>6. Follows(x, [x EXCEPT !.late = late, !.overtaken = overtaken], ended, passed)
    BY <2>2, <2>3, <2>4, <2>5 DEF Follows, AccCalls
  <2> QED  BY <2>1, <2>4, <2>6
<1>2. accCall'[c] = new /\ accCall' \in [AccRequest -> AccCalls]
  BY <1>1 DEF AccMoves, Follows
<1> QED  BY <1>1, <1>2 DEF Moves

\* What the end of the sessions of a user, or their outliving the password, does to the tokens.
LEMMA SessionsMarked ==
  ASSUME AccTypeOK, NEW U, (\E u : U = {u} /\ EndSessions(u)) \/ KeepSessions(U)
  PROVE  /\ accToken' \in [1..MaxTokens -> AccTokens]
         /\ \A t \in 1..MaxTokens :
              /\ accToken'[t].parent = accToken[t].parent
              /\ accToken'[t].live => /\ accToken[t].live
                                      /\ accToken'[t].user = accToken[t].user
                                      /\ accToken'[t].pw = accToken[t].pw
                                      /\ accToken[t].late => accToken'[t].late
                                      /\ accToken[t].user \in U => accToken'[t].late
<1>1. ASSUME NEW u, U = {u}, EndSessions(u), NEW t \in 1..MaxTokens
      PROVE  /\ accToken'[t] \in AccTokens
             /\ accToken'[t].parent = accToken[t].parent
             /\ accToken'[t].live => accToken'[t] = accToken[t] /\ accToken[t].user # u
  BY <1>1 DEF EndSessions, AccTypeOK, AccTokens
<1>2. ASSUME KeepSessions(U), NEW t \in 1..MaxTokens
      PROVE  /\ accToken'[t] \in AccTokens
             /\ accToken'[t].parent = accToken[t].parent
             /\ accToken'[t].live => /\ accToken[t].live
                                     /\ accToken'[t].user = accToken[t].user
                                     /\ accToken'[t].pw = accToken[t].pw
                                     /\ accToken[t].late => accToken'[t].late
                                     /\ accToken[t].user \in U => accToken'[t].late
  <2>1. PICK x : x = accToken[t]
    OBVIOUS
  <2>2. PICK late : late = (x.late \/ (x.live /\ x.user \in U))
    OBVIOUS
  <2>3. x \in AccTokens /\ late \in BOOLEAN /\ accToken'[t] = [x EXCEPT !.late = late]
    BY <1>2, <2>1, <2>2 DEF KeepSessions, AccTypeOK
  <2>4. PICK y : y = [x EXCEPT !.late = late]
    OBVIOUS
  <2>5. /\ y \in AccTokens /\ y.parent = x.parent /\ y.live = x.live /\ y.user = x.user
        /\ y.pw = x.pw /\ y.late = late
    BY <2>3, <2>4 DEF AccTokens
  <2> QED  BY <2>1, <2>2, <2>3, <2>4, <2>5
<1>3. (\E u : EndSessions(u)) \/ KeepSessions(U) => accToken' = [t \in 1..MaxTokens |-> accToken'[t]]
  BY DEF EndSessions, KeepSessions
<1> QED  BY <1>1, <1>2, <1>3

\* A request that moves on and neither gets a token to exchange nor issues one.
LEMMA CallMoves ==
  ASSUME Typed, NEW c \in AccRequest, NEW call \in AccCalls, NEW ended, NEW passed,
         call.parent \in {0, accCall[c].parent},
         call.pc \notin {"idle", "done"} => call.user \in AccUser,
         accCall' = [accCall EXCEPT ![c] = call] \/ AccMoves(c, call, ended, passed),
         accRow' \in [AccUser -> AccRows], accAccess' \subseteq AccUser,
         accLastPw' \in 0..MaxPasswords, accIssued' = accIssued,
         accToken' \in [1..MaxTokens -> AccTokens],
         \A t \in 1..MaxTokens :
           /\ accToken'[t].parent = accToken[t].parent
           /\ accToken'[t].live => accToken[t].live /\ accToken'[t].user = accToken[t].user
  PROVE  Typed' /\ Quiet
<1>1. Moves(c, call, {}, {}) \/ Moves(c, call, ended, passed)
  BY MovesAlone, MovesOthers DEF Typed
<1>2. /\ accCall' \in [AccRequest -> AccCalls] /\ accCall'[c] = call
      /\ \A d \in AccRequest \ {c} : /\ accCall'[d].pc = accCall[d].pc
                                     /\ accCall'[d].user = accCall[d].user
                                     /\ accCall'[d].parent = accCall[d].parent
  BY <1>1 DEF Moves, Follows
<1>3. AccTypeOK'
  BY <1>2 DEF Typed, AccTypeOK
<1>4. Owned'
  BY <1>2 DEF Typed, Owned
<1>5. Quiet
  BY <1>2 DEF Quiet
<1> QED  BY <1>3, <1>4, <1>5 DEF Typed

\* The first transaction of a request that exchanges no token.
LEMMA StartTyped ==
  ASSUME Typed, NEW c \in AccRequest, NEW op, NEW u \in AccUser, NEW pc \in AccPc,
         NEW row \in AccRows, NEW pw \in 0..MaxPasswords,
         op \in {"register", "provision", "delete", "reset", "login", "change"},
         AccStart(c, op, u, pc, row, 0, pw),
         UNCHANGED <<accRow, accAccess, accToken, accIssued, accLastPw>>
  PROVE  Typed' /\ Quiet
<1> DEFINE call == [pc |-> pc, op |-> op, user |-> u, row |-> row, parent |-> 0, pw |-> pw, late |-> FALSE,
                    overtaken |-> FALSE]
<1>1. call \in AccCalls /\ call.parent = 0 /\ call.user = u
  BY AccAssumption DEF AccCalls
<1>2. accCall' = [accCall EXCEPT ![c] = call]
  BY DEF AccStart
<1> HIDE DEF call
<1> QED BY <1>1, <1>2, CallMoves DEF Typed, AccTypeOK

\* The routes and requests that begin so.
LEMMA BeginStep ==
  ASSUME Typed, NEW c \in AccRequest, NEW u \in AccUser,
         \/ Register(c, u) \/ DeleteUser(c, u) \/ Reset(c, u) \/ ChangePassword(c, u)
         \/ \E role \in {"admin", "member"}, enabled, temporary \in BOOLEAN :
              Provision(c, u, role, enabled, temporary)
         \/ \E pw \in 1..accLastPw : Login(c, u, pw)
  PROVE  Typed' /\ Quiet
<1> USE AccAssumption
<1>0. 0 \in 0..MaxPasswords
  OBVIOUS
<1>1. CASE Register(c, u)
  <2>1. [NoRow EXCEPT !.role = "admin", !.enabled = TRUE] \in AccRows
    BY NoneTyped DEF AccRows
  <2>2. "put" \in AccPc
    BY DEF AccPc
  <2> QED BY <1>0, <1>1, <2>1, <2>2, StartTyped DEF Register
<1>2. CASE DeleteUser(c, u)
  <2>1. "unaccess" \in AccPc
    BY DEF AccPc
  <2> QED BY <1>0, <1>2, <2>1, NoneTyped, StartTyped DEF DeleteUser
<1>3. CASE Reset(c, u)
  <2>1. [NoRow EXCEPT !.role = accRow[u].role, !.enabled = accRow[u].enabled, !.must = TRUE]
          \in AccRows
    BY NoneTyped DEF AccRows, Typed, AccTypeOK
  <2>2. "put" \in AccPc
    BY DEF AccPc
  <2> QED BY <1>0, <1>3, <2>1, <2>2, StartTyped DEF Reset
<1>4. CASE ChangePassword(c, u)
  <2>1. "newpw" \in AccPc
    BY DEF AccPc
  <2> QED BY <1>0, <1>4, <2>1, NoneTyped, StartTyped DEF ChangePassword
<1>5. ASSUME NEW role \in {"admin", "member"}, NEW enabled \in BOOLEAN, NEW temporary \in BOOLEAN,
             Provision(c, u, role, enabled, temporary)
      PROVE  Typed' /\ Quiet
  <2>1. [NoRow EXCEPT !.role = role, !.enabled = enabled, !.must = TRUE] \in AccRows
    BY NoneTyped DEF AccRows
  <2>2. (IF temporary THEN "put" ELSE IF HasAccount(u) THEN "update" ELSE "access") \in AccPc
    BY DEF AccPc
  <2> QED BY <1>0, <1>5, <2>1, <2>2, StartTyped DEF Provision
<1>6. ASSUME NEW pw \in 1..accLastPw, Login(c, u, pw)
      PROVE  Typed' /\ Quiet
  <2>1. (IF pw = accRow[u].pw THEN "success" ELSE "fail") \in AccPc
    BY DEF AccPc
  <2>2. pw \in 0..MaxPasswords
    BY DEF Typed, AccTypeOK
  <2> QED BY <1>6, <2>1, <2>2, NoneTyped, StartTyped DEF Login
<1> QED BY <1>1, <1>2, <1>3, <1>4, <1>5, <1>6

\* A request that moves on stays the same otherwise.
LEMMA CallAt ==
  ASSUME NEW call \in AccCalls, NEW pc \in AccPc
  PROVE  [call EXCEPT !.pc = pc] \in AccCalls /\ [call EXCEPT !.pc = pc].parent = call.parent
         /\ [call EXCEPT !.pc = pc].user = call.user
BY DEF AccCalls

\* What a later transaction may make of a row.
LEMMA RowFields ==
  ASSUME NEW r \in AccRows, NEW pw \in 0..MaxPasswords
  PROVE  /\ [r EXCEPT !.pw = pw, !.must = FALSE, !.failures = 0, !.locked = FALSE] \in AccRows
         /\ [r EXCEPT !.failures = 0, !.locked = FALSE] \in AccRows
<1>0. 0 \in 0..MaxFailures
  BY AccAssumption
<1>1. [r EXCEPT !.failures = 0, !.locked = FALSE] \in AccRows
  BY <1>0 DEF AccRows
<1>2. [r EXCEPT !.pw = pw, !.must = FALSE, !.failures = 0, !.locked = FALSE] \in AccRows
  BY <1>0 DEF AccRows
<1> QED BY <1>1, <1>2

\* A request at work has a typed record and a typed row to write to.
LEMMA AtWork ==
  ASSUME Typed, NEW c \in AccRequest, NEW pc, AccAt(c, pc), pc \notin {"idle", "done"}
  PROVE  /\ accCall[c] \in AccCalls /\ accCall[c].user \in AccUser
         /\ accCall[c].row \in AccRows /\ accRow[accCall[c].user] \in AccRows
         /\ accCall[c].pw \in 0..MaxPasswords
BY DEF Typed, AccTypeOK, Owned, AccAt, AccCalls

\* The later transactions that write an account's row.
LEMMA RowStep ==
  ASSUME Typed, NEW c \in AccRequest,
         \/ PutAccount(c) \/ UpdateProfile(c) \/ NewPassword(c) \/ RecordFailure(c) \/ RecordSuccess(c)
  PROVE  Typed' /\ Quiet
<1> USE AccAssumption
<1> DEFINE call == accCall[c]
           u == call.user
<1>0. /\ DoneCall.parent = 0 /\ DoneCall.pc = "done"
      /\ "access" \in AccPc /\ "revoke" \in AccPc /\ "reread" \in AccPc
  BY DEF DoneCall, NoCall, AccPc
<1>z. 0 \in 0..MaxPasswords
  OBVIOUS
<1>1. CASE PutAccount(c)
  <2>1. call \in AccCalls /\ u \in AccUser /\ call.row \in AccRows /\ accLastPw + 1 \in 0..MaxPasswords
    BY <1>1, AtWork DEF PutAccount, Typed, AccTypeOK
  <2>2. PICK pc, kept : /\ pc \in AccPc /\ KeepSessions(kept)
          /\ AccMoves(c, [call EXCEPT !.pc = pc, !.pw = accLastPw + 1], kept, AdminOp)
    BY <1>0, <1>1 DEF PutAccount
  <2>3. [call EXCEPT !.pc = pc, !.pw = accLastPw + 1] \in AccCalls
        /\ [call EXCEPT !.pc = pc, !.pw = accLastPw + 1].parent = call.parent
        /\ [call EXCEPT !.pc = pc, !.pw = accLastPw + 1].user = u
    BY <1>0, <2>1, <2>2 DEF AccCalls
  <2>4. [call.row EXCEPT !.pw = accLastPw + 1] \in AccRows
    BY <2>1 DEF AccRows
  <2>5. accRow' \in [AccUser -> AccRows]
    BY <1>1, <2>1, <2>4, RowWritten DEF PutAccount, Typed
  <2>6. /\ accToken' \in [1..MaxTokens -> AccTokens]
        /\ \A t \in 1..MaxTokens :
             /\ accToken'[t].parent = accToken[t].parent
             /\ accToken'[t].live => accToken[t].live /\ accToken'[t].user = accToken[t].user
    BY <2>2, SessionsMarked DEF Typed
  <2>7. /\ accLastPw' \in 0..MaxPasswords /\ accAccess' \subseteq AccUser /\ accIssued' = accIssued
    BY <1>1, <2>1 DEF PutAccount, Typed, AccTypeOK
  <2> HIDE DEF call, u
  <2>8. PICK new : new = [call EXCEPT !.pc = pc, !.pw = accLastPw + 1]
    OBVIOUS
  <2>9. /\ new \in AccCalls /\ new.parent = call.parent /\ new.user = u
        /\ AccMoves(c, new, kept, AdminOp)
    BY <2>2, <2>3, <2>8
  <2> USE DEF call, u
  <2> QED BY <2>1, <2>5, <2>6, <2>7, <2>9, CallMoves
<1>2. CASE UpdateProfile(c)
  <2>1. call \in AccCalls /\ u \in AccUser /\ call.row \in AccRows /\ accRow[u] \in AccRows
    BY <1>2, AtWork DEF UpdateProfile
  <2>2. PICK passed : AccMoves(c, [call EXCEPT !.pc = "access"], {}, passed)
    BY <1>2 DEF UpdateProfile
  <2>3. [call EXCEPT !.pc = "access"] \in AccCalls /\ [call EXCEPT !.pc = "access"].parent = call.parent
        /\ [call EXCEPT !.pc = "access"].user = u
    BY <1>0, <2>1, CallAt
  <2>4. [accRow[u] EXCEPT !.role = call.row.role, !.enabled = call.row.enabled] \in AccRows
    BY <2>1 DEF AccRows
  <2>5. accRow' \in [AccUser -> AccRows]
    BY <1>2, <2>1, <2>4, RowWritten DEF UpdateProfile, Typed
  <2>6. /\ accLastPw' \in 0..MaxPasswords /\ accAccess' \subseteq AccUser /\ accIssued' = accIssued
        /\ accToken' \in [1..MaxTokens -> AccTokens] /\ accToken' = accToken
    BY <1>2 DEF UpdateProfile, Typed, AccTypeOK
  <2>7. \A t \in 1..MaxTokens :
          /\ accToken'[t].parent = accToken[t].parent
          /\ accToken'[t].live => accToken[t].live /\ accToken'[t].user = accToken[t].user
    BY <2>6
  <2>8. PICK new : new = [call EXCEPT !.pc = "access"]
    OBVIOUS
  <2>9. /\ new \in AccCalls /\ new.parent = call.parent /\ new.user = u
        /\ AccMoves(c, new, {}, passed)
    BY <2>2, <2>3, <2>8
  <2> QED BY <2>1, <2>5, <2>6, <2>7, <2>9, CallMoves
<1>3. CASE NewPassword(c)
  <2>1. call \in AccCalls /\ u \in AccUser /\ accRow[u] \in AccRows /\ accLastPw + 1 \in 0..MaxPasswords
    BY <1>3, AtWork DEF NewPassword, Typed, AccTypeOK
  <2>2. accCall' = [accCall EXCEPT ![c] = [call EXCEPT !.pc = "revoke", !.pw = accLastPw + 1]]
    BY <1>3 DEF NewPassword
  <2>3. [call EXCEPT !.pc = "revoke", !.pw = accLastPw + 1] \in AccCalls
        /\ [call EXCEPT !.pc = "revoke", !.pw = accLastPw + 1].parent = call.parent
        /\ [call EXCEPT !.pc = "revoke", !.pw = accLastPw + 1].user = u
    BY <1>0, <2>1 DEF AccCalls
  <2>4. [accRow[u] EXCEPT !.pw = accLastPw + 1, !.must = FALSE, !.failures = 0, !.locked = FALSE] \in AccRows
    BY <2>1, RowFields
  <2>5. accRow' \in [AccUser -> AccRows]
    BY <1>3, <2>1, <2>4, RowWritten DEF NewPassword, Typed
  <2> QED BY <1>3, <2>1, <2>2, <2>3, <2>5, CallMoves DEF NewPassword, Typed, AccTypeOK
<1>4. CASE RecordFailure(c)
  <2> DEFINE n == IF call.row.failures < MaxFailures THEN call.row.failures + 1 ELSE MaxFailures
  <2>1. u \in AccUser /\ call.row \in AccRows /\ accRow[u] \in AccRows
    BY <1>4, AtWork DEF RecordFailure
  <2>2. n \in 0..MaxFailures
    BY <2>1 DEF AccRows
  <2>3. [accRow[u] EXCEPT !.failures = n, !.locked = (n = MaxFailures)] \in AccRows
    BY <2>1, <2>2 DEF AccRows
  <2>4. accRow' \in [AccUser -> AccRows]
    BY <1>4, <2>1, <2>3, RowWritten DEF RecordFailure, Typed
  <2> QED BY <1>0, <1>4, <2>4, NoneTyped, CallMoves DEF RecordFailure, AccDone, Typed, AccTypeOK
<1>5. CASE RecordSuccess(c)
  <2>1. call \in AccCalls /\ u \in AccUser /\ accRow[u] \in AccRows
    BY <1>5, AtWork DEF RecordSuccess
  <2>2. accCall' = [accCall EXCEPT ![c] = [call EXCEPT !.pc = "reread"]]
    BY <1>5 DEF RecordSuccess, AccGoto
  <2>3. [call EXCEPT !.pc = "reread"] \in AccCalls /\ [call EXCEPT !.pc = "reread"].parent = call.parent
        /\ [call EXCEPT !.pc = "reread"].user = u
    BY <1>0, <2>1, CallAt
  <2>4. [accRow[u] EXCEPT !.failures = 0, !.locked = FALSE] \in AccRows
    BY <1>z, <2>1, RowFields
  <2>5. accRow' \in [AccUser -> AccRows]
    BY <1>5, <2>1, <2>4, RowWritten DEF RecordSuccess, Typed
  <2> QED BY <1>5, <2>1, <2>2, <2>3, <2>5, CallMoves DEF RecordSuccess, Typed, AccTypeOK
<1> QED BY <1>1, <1>2, <1>3, <1>4, <1>5

\* The later transactions that read, write access rows or end tokens.
LEMMA OtherLaterStep ==
  ASSUME Typed, NEW c \in AccRequest,
         \/ Revoke(c) \/ PutAccess(c) \/ DeleteAccess(c) \/ DeleteAccount(c)
         \/ CountFailure(c) \/ Reread(c) \/ Dies(c)
  PROVE  Typed' /\ Quiet
<1> DEFINE call == accCall[c]
           u == call.user
<1>0. /\ DoneCall.parent = 0 /\ DoneCall.pc = "done" /\ DoneCall \in AccCalls
      /\ "access" \in AccPc /\ "reread" \in AccPc /\ "done" \in AccPc
      /\ "issue" \in AccPc /\ "delete" \in AccPc /\ "failed" \in AccPc
  BY NoneTyped DEF DoneCall, NoCall, AccPc
<1>w. call \in AccCalls /\ u \in AccUser /\ accRow[u] \in AccRows /\ call.row \in AccRows
      /\ call.pw \in 0..MaxPasswords
  <2>1. \E pc : AccAt(c, pc) /\ pc \notin {"idle", "done"}
    BY DEF Revoke, PutAccess, DeleteAccess, DeleteAccount, CountFailure, Reread, Dies, InProgress, AccAt
  <2> QED  BY <2>1, AtWork
<1>g. ASSUME NEW pc \in AccPc
      PROVE  [call EXCEPT !.pc = pc] \in AccCalls /\ [call EXCEPT !.pc = pc].parent = call.parent
             /\ [call EXCEPT !.pc = pc].user = u
  BY <1>w, CallAt
<1>e. ASSUME NEW U, (\E x : U = {x} /\ EndSessions(x)) \/ KeepSessions(U)
      PROVE  /\ accToken' \in [1..MaxTokens -> AccTokens]
             /\ \A t \in 1..MaxTokens :
                  /\ accToken'[t].parent = accToken[t].parent
                  /\ accToken'[t].live => accToken[t].live /\ accToken'[t].user = accToken[t].user
  BY <1>e, SessionsMarked DEF Typed
<1>1. CASE Revoke(c)
  <2>1. PICK new : /\ new \in {[call EXCEPT !.pc = "access"], [call EXCEPT !.pc = "reread"], DoneCall}
                   /\ AccMoves(c, new, {u}, {})
    BY <1>1 DEF Revoke
  <2>2. /\ new \in AccCalls /\ new.parent \in {0, call.parent}
        /\ new.pc \notin {"idle", "done"} => new.user \in AccUser
    BY <1>0, <1>w, <1>g, <2>1
  <2>3. EndSessions(u) /\ UNCHANGED <<accRow, accAccess, accIssued, accLastPw>>
    BY <1>1 DEF Revoke
  <2>4. /\ accRow' \in [AccUser -> AccRows] /\ accAccess' \subseteq AccUser
        /\ accLastPw' \in 0..MaxPasswords /\ accIssued' = accIssued
    BY <2>3 DEF Typed, AccTypeOK
  <2>5. /\ accToken' \in [1..MaxTokens -> AccTokens]
        /\ \A t \in 1..MaxTokens :
             /\ accToken'[t].parent = accToken[t].parent
             /\ accToken'[t].live => accToken[t].live /\ accToken'[t].user = accToken[t].user
    BY <1>e, <2>3
  <2> QED BY <2>1, <2>2, <2>4, <2>5, CallMoves
<1>2. CASE PutAccess(c)
  BY <1>0, <1>2, <1>w, <1>g, CallMoves DEF PutAccess, AccGoto, AccDone, Typed, AccTypeOK
<1>3. CASE DeleteAccess(c)
  BY <1>0, <1>3, <1>w, <1>g, CallMoves DEF DeleteAccess, AccGoto, AccDone, Typed, AccTypeOK
<1>4. CASE DeleteAccount(c)
  <2>1. EndSessions(u) /\ AccMoves(c, DoneCall, {u}, AdminOp) /\ UNCHANGED <<accAccess, accIssued, accLastPw>>
    BY <1>4 DEF DeleteAccount
  <2>2. accRow' \in [AccUser -> AccRows]
    BY <1>4, <1>w, NoneTyped, RowWritten DEF DeleteAccount, Typed
  <2>4. accAccess' \subseteq AccUser /\ accLastPw' \in 0..MaxPasswords /\ accIssued' = accIssued
    BY <2>1 DEF Typed, AccTypeOK
  <2>5. /\ accToken' \in [1..MaxTokens -> AccTokens]
        /\ \A t \in 1..MaxTokens :
             /\ accToken'[t].parent = accToken[t].parent
             /\ accToken'[t].live => accToken[t].live /\ accToken'[t].user = accToken[t].user
    BY <1>e, <2>1
  <2> QED BY <1>0, <2>1, <2>2, <2>4, <2>5, CallMoves
<1>5. CASE CountFailure(c)
  <2>1. CASE HasAccount(u)
    <3>1. accCall' = [accCall EXCEPT ![c] = [call EXCEPT !.pc = "failed", !.row = accRow[u]]]
      BY <1>5, <2>1 DEF CountFailure
    <3>2. [call EXCEPT !.pc = "failed", !.row = accRow[u]] \in AccCalls
          /\ [call EXCEPT !.pc = "failed", !.row = accRow[u]].parent = call.parent
          /\ [call EXCEPT !.pc = "failed", !.row = accRow[u]].user = u
      BY <1>0, <1>w DEF AccCalls
    <3> QED BY <1>5, <1>w, <3>1, <3>2, CallMoves DEF CountFailure, Typed, AccTypeOK
  <2>2. CASE ~ HasAccount(u)
    BY <1>0, <1>5, <2>2, CallMoves DEF CountFailure, AccDone, Typed, AccTypeOK
  <2> QED BY <2>1, <2>2
<1>6. CASE Reread(c)
  BY <1>0, <1>6, <1>w, <1>g, CallMoves DEF Reread, AccGoto, AccDone, Typed, AccTypeOK
<1>7. CASE Dies(c)
  <2>1. PICK cut : /\ KeepSessions(cut) /\ AccMoves(c, DoneCall, cut, {})
                   /\ UNCHANGED <<accRow, accAccess, accIssued, accLastPw>>
    BY <1>7 DEF Dies
  <2>4. /\ accRow' \in [AccUser -> AccRows] /\ accAccess' \subseteq AccUser
        /\ accLastPw' \in 0..MaxPasswords /\ accIssued' = accIssued
    BY <2>1 DEF Typed, AccTypeOK
  <2>5. /\ accToken' \in [1..MaxTokens -> AccTokens]
        /\ \A t \in 1..MaxTokens :
             /\ accToken'[t].parent = accToken[t].parent
             /\ accToken'[t].live => accToken[t].live /\ accToken'[t].user = accToken[t].user
    BY <1>e, <2>1
  <2> QED BY <1>0, <2>1, <2>4, <2>5, CallMoves
<1> QED BY <1>1, <1>2, <1>3, <1>4, <1>5, <1>6, <1>7

\* Logout and the end of a lock are quiet.
LEMMA OtherStep ==
  ASSUME Typed,
         \/ \E t \in 1..MaxTokens : Logout(t)
         \/ \E u \in AccUser : LockExpires(u)
         \/ UNCHANGED accVars
  PROVE  Typed' /\ Quiet
<1>1. ASSUME NEW t \in 1..MaxTokens, Logout(t) PROVE Typed' /\ Quiet
  BY <1>1 DEF Logout, Typed, Owned, AccTypeOK, AccTokens, Quiet
<1>2. ASSUME NEW u \in AccUser, LockExpires(u) PROVE Typed' /\ Quiet
  BY <1>2 DEF LockExpires, WriteRow, Typed, Owned, AccTypeOK, AccRows, Quiet
<1>3. CASE UNCHANGED accVars
  BY <1>3 DEF accVars, Typed, Owned, AccTypeOK, Quiet
<1> QED BY <1>1, <1>2, <1>3

---------------------------------------------------------------------------
(* The invariant *)

\* No account, no token, no request.
LEMMA ChainInit == AccInit => Chain
<1> SUFFICES ASSUME AccInit PROVE Chain
  OBVIOUS
<1>1. Typed
  BY AccAssumption, NoneTyped DEF AccInit, Typed, Owned, AccTypeOK, NoCall, NoToken
<1>2. \A t \in 1..MaxTokens : accToken[t].parent = 0 /\ ~ accToken[t].live
  BY DEF AccInit, NoToken
<1>3. \A c \in AccRequest : accCall[c].parent = 0
  BY DEF AccInit, NoCall
<1> QED BY <1>1, <1>2, <1>3 DEF Chain, ParentsSpent, OneExchange, IssuedInOrder, RotatedOnce

\* What is spent stays spent.
LEMMA QuietStep ==
  ASSUME Chain, Typed', Quiet
  PROVE  Chain'
<1> USE DEF Chain, Quiet
<1>1. ParentsSpent'
  BY DEF ParentsSpent
<1>2. OneExchange'
  BY DEF OneExchange
<1>3. IssuedInOrder' /\ RotatedOnce'
  BY DEF IssuedInOrder, RotatedOnce
<1> QED BY <1>1, <1>2, <1>3

\* A live token has no successor and nobody exchanges it: now one request does.
LEMMA RefreshStep ==
  ASSUME Chain, NEW c \in AccRequest, NEW t \in 1..MaxTokens, Refresh(c, t)
  PROVE  Chain'
<1> USE AccAssumption
<1> DEFINE call == [pc |-> "reload", op |-> "refresh", user |-> accToken[t].user, row |-> NoRow,
                    parent |-> t, pw |-> accToken[t].pw, late |-> accToken[t].late, overtaken |-> FALSE]
<1>a. accCall' = [accCall EXCEPT ![c] = call] /\ UNCHANGED <<accRow, accAccess, accIssued, accLastPw>>
  BY DEF Refresh
<1>b. accToken' = [accToken EXCEPT ![t] = [accToken[t] EXCEPT !.live = FALSE]]
      /\ accToken[t] \in AccTokens /\ accToken[t].user \in AccUser
  BY DEF Refresh, Chain, Typed, AccTypeOK, Owned
<1>c. /\ [accToken[t] EXCEPT !.live = FALSE] \in AccTokens
      /\ [accToken[t] EXCEPT !.live = FALSE].parent = accToken[t].parent
      /\ [accToken[t] EXCEPT !.live = FALSE].live = FALSE
  BY <1>b DEF AccTokens
<1>d. call \in AccCalls /\ call.parent = t /\ call.user \in AccUser
  BY <1>b, NoneTyped DEF AccCalls, AccPc, AccTokens
<1> HIDE DEF call
<1>1. /\ Typed'
      /\ accIssued' = accIssued
      /\ \A s \in 1..MaxTokens : s # t => accToken'[s] = accToken[s]
      /\ accToken'[t].parent = accToken[t].parent /\ accToken'[t].live = FALSE
      /\ accCall'[c].parent = t
      /\ \A d \in AccRequest : d # c => accCall'[d] = accCall[d]
  BY <1>a, <1>b, <1>c, <1>d DEF Chain, Typed, Owned, AccTypeOK
<1>2. t <= accIssued
  BY DEF Refresh, Chain, IssuedInOrder
<1>3. /\ \A s \in 1..MaxTokens : accToken[s].parent # t
      /\ \A d \in AccRequest : accCall[d].parent # t
  BY DEF Refresh, Chain, ParentsSpent
<1>4. ParentsSpent'
  BY <1>1, <1>2 DEF Chain, ParentsSpent
<1>5. OneExchange'
  BY <1>1, <1>3 DEF Chain, OneExchange
<1>6. IssuedInOrder' /\ RotatedOnce'
  BY <1>1 DEF Chain, IssuedInOrder, RotatedOnce
<1> QED BY <1>1, <1>4, <1>5, <1>6 DEF Chain

\* The successor of a token is issued by the one request that exchanges it, which ends.
LEMMA IssueStep ==
  ASSUME Chain, NEW c \in AccRequest, Issue(c)
  PROVE  Chain'
<1> USE AccAssumption
<1>0. DoneCall.parent = 0
  BY DEF DoneCall, NoCall
<1>1. CASE HasAccount(accCall[c].user)
  <2> DEFINE n == accIssued + 1
             p == accCall[c].parent
  <2>1. /\ Typed' /\ n \in 1..MaxTokens /\ p \in 0..MaxTokens
        /\ accIssued' = n
        /\ accToken'[n].parent = p
        /\ \A s \in 1..MaxTokens : s # n => accToken'[s] = accToken[s]
        /\ accCall'[c].parent = 0
        /\ \A d \in AccRequest : d # c => accCall'[d] = accCall[d]
    <3>1. n \in 1..MaxTokens /\ p \in 0..MaxTokens /\ accIssued' = n
      BY <1>1 DEF Issue, Chain, Typed, AccTypeOK, AccCalls
    <3>2. accCall' = [accCall EXCEPT ![c] = DoneCall] /\ UNCHANGED <<accRow, accAccess, accLastPw>>
      BY DEF Issue, AccDone
    <3>3. /\ accToken' = [accToken EXCEPT ![n] =
                [user |-> accCall[c].user, live |-> TRUE, parent |-> p, pw |-> accCall[c].pw,
                 late |-> accCall[c].late]]
          /\ [user |-> accCall[c].user, live |-> TRUE, parent |-> p, pw |-> accCall[c].pw,
              late |-> accCall[c].late] \in AccTokens
      BY <1>1 DEF Issue, Chain, Typed, AccTypeOK, AccCalls, AccTokens
    <3>4. Typed'
      BY <1>0, <3>1, <3>2, <3>3, AtWork, NoneTyped DEF Chain, Typed, Owned, AccTypeOK, Issue, DoneCall
    <3> QED BY <1>0, <3>1, <3>2, <3>3, <3>4 DEF Chain, Typed, AccTypeOK
  <2>2. /\ \A s \in 1..MaxTokens : accToken[s].parent # n
        /\ \A d \in AccRequest : accCall[d].parent # n
    BY <2>1 DEF Chain, Typed, AccTypeOK, ParentsSpent
  <2>3. p # n /\ \A s \in 1..MaxTokens : p # 0 => accToken[s].parent # p
    BY <2>1, <2>2 DEF Chain, OneExchange
  <2>4. ParentsSpent'
    <3> SUFFICES ASSUME NEW t \in 1..MaxTokens,
                        \/ \E s \in 1..MaxTokens : accToken'[s].parent = t
                        \/ \E d \in AccRequest : accCall'[d].parent = t
                 PROVE  t <= accIssued' /\ ~ accToken'[t].live
      BY <2>1 DEF ParentsSpent
    <3>1. \/ \E s \in 1..MaxTokens : accToken[s].parent = t
          \/ \E d \in AccRequest : accCall[d].parent = t
      BY <2>1
    <3>2. t <= accIssued /\ ~ accToken[t].live /\ t # n
      BY <2>2, <3>1 DEF Chain, ParentsSpent
    <3> QED BY <2>1, <3>2 DEF Chain, Typed, AccTypeOK
  <2>5. OneExchange'
    BY <2>1, <2>3 DEF Chain, OneExchange
  <2>6. IssuedInOrder'
    BY <2>1 DEF Chain, Typed, AccTypeOK, IssuedInOrder
  <2>7. RotatedOnce'
    BY <2>1, <2>3 DEF Chain, RotatedOnce
  <2> QED BY <2>1, <2>4, <2>5, <2>6, <2>7 DEF Chain
<1>2. CASE ~ HasAccount(accCall[c].user)
  <2>1. /\ accCall' = [accCall EXCEPT ![c] = DoneCall] /\ DoneCall.pc = "done"
        /\ UNCHANGED <<accRow, accAccess, accToken, accIssued, accLastPw>>
    BY <1>2 DEF Issue, AccDone, DoneCall, NoCall
  <2>2. Typed' /\ Quiet
    BY <1>0, <2>1, NoneTyped, CallMoves DEF Chain, Typed, AccTypeOK
  <2> QED BY <2>2, QuietStep
<1> QED BY <1>1, <1>2

\* Every step keeps the invariant.
LEMMA ChainStep ==
  ASSUME Chain, [AccNext]_accVars
  PROVE  Chain'
<1>1. ASSUME NEW c \in AccRequest, AccBegin(c) PROVE Chain'
  BY <1>1, BeginStep, QuietStep, RefreshStep DEF AccBegin, Chain
<1>2. ASSUME NEW c \in AccRequest, AccStep(c) PROVE Chain'
  BY <1>2, RowStep, OtherLaterStep, QuietStep, IssueStep DEF AccStep, Chain
<1> QED BY <1>1, <1>2, OtherStep, QuietStep DEF AccNext, Chain

---------------------------------------------------------------------------
(* Theorems *)

\* A refresh token has one successor, whatever requests present it together and whatever
\* is revoked, reset or deleted meanwhile (consume_session and issue_tokens).
THEOREM TokensRotateOnce == AccSpec => []RotatedOnce
<1>1. AccInit => Chain
  BY ChainInit
<1>2. Chain /\ [AccNext]_accVars => Chain'
  BY ChainStep
<1>3. Chain => RotatedOnce
  BY DEF Chain
<1> QED BY <1>1, <1>2, <1>3, PTL DEF AccSpec

---------------------------------------------------------------------------
(* Sessions and administrators: what the requests have checked *)

\* What request k has checked about its user, as long as no other request passed the
\* accounts since.
Checked(k) ==
  /\ k.pc \in {"put", "update"} /\ k.op = "provision"
       => AdminSurvives(k.user, k.row.role, k.row.enabled)
  /\ k.pc = "put" /\ k.op = "reset"
       => k.row.role = accRow[k.user].role /\ k.row.enabled = accRow[k.user].enabled
  /\ k.pc \in {"unaccess", "delete"} => AdminSurvives(k.user, "none", FALSE)

\* What each stage is a stage of, and what it goes by.
Staged(k) ==
  /\ k.pc = "put" => /\ k.op \in {"register", "provision", "reset"} /\ k.row.role # "none"
                     /\ k.op = "register" => k.row.role = "admin" /\ k.row.enabled
  /\ k.pc = "update" => k.op = "provision" /\ k.row.role # "none"
  /\ k.pc \in {"unaccess", "delete"} => k.op = "delete"
  /\ k.pc = "access" => k.op \in {"register", "provision"}
  /\ k.pc = "newpw" => k.op = "change"
  /\ k.pc = "revoke" => k.op \in {"provision", "reset", "change"}

Ruled(k) == Staged(k) /\ (k.overtaken \/ Checked(k))

\* A request that goes on to issue a token for its password.
Issues(k) ==
  \/ k.pc \in {"success", "reread", "reload", "issue"}
  \/ k.pc = "revoke" /\ k.op = "change"
  \/ k.pc = "access" /\ k.op = "register"

\* Another request is about to revoke the sessions of u.
RevokedBy(u, c) == \E d \in AccRequest \ {c} : accCall[d].pc = "revoke" /\ accCall[d].user = u

\* The password for which c, as k, will issue a token is the current one, or its sessions
\* are about to be revoked; and unless it is late its account is there.
Paid(c, k) ==
  ~ k.late =>
    /\ Issues(k) \/ k.pc = "newpw" => HasAccount(k.user)
    /\ Issues(k) => k.pw = accRow[k.user].pw \/ RevokedBy(k.user, c)

\* So are those of the tokens.
TokenEnds(t) ==
  accToken[t].live =>
    /\ HasAccount(accToken[t].user)
    /\ \/ accToken[t].late \/ accToken[t].pw = accRow[accToken[t].user].pw
       \/ \E d \in AccRequest : accCall[d].pc = "revoke" /\ accCall[d].user = accToken[t].user

Rooted ==
  /\ \A c \in AccRequest : Ruled(accCall[c])
  /\ \A c \in AccRequest : Paid(c, accCall[c])
  /\ \A t \in 1..MaxTokens : TokenEnds(t)

RolesStay == \A u \in AccUser : /\ accRow'[u].role = accRow[u].role
                                /\ accRow'[u].enabled = accRow[u].enabled

HasUser(k) == k.pc \notin {"idle", "done"} => k.user \in AccUser

\* The types that the lemmas below go by.
LEMMA RootTypes ==
  ASSUME Chain
  PROVE  /\ accCall \in [AccRequest -> AccCalls] /\ accRow \in [AccUser -> AccRows]
         /\ accToken \in [1..MaxTokens -> AccTokens]
         /\ \A d \in AccRequest : HasUser(accCall[d])
         /\ \A t \in 1..MaxTokens : accToken[t].live => accToken[t].user \in AccUser
BY DEF Chain, Typed, AccTypeOK, Owned, HasUser

\* Nobody's role or flag changes.
LEMMA RolesKept ==
  ASSUME RolesStay
  PROVE  \A u \in AccUser : /\ HasAccount(u)' <=> HasAccount(u)
                            /\ EnabledAdmin(u)' <=> EnabledAdmin(u)
BY DEF RolesStay, HasAccount, EnabledAdmin

\* Then what a request has checked still holds.
LEMMA CheckedKept ==
  ASSUME RolesStay, NEW k, HasUser(k), Checked(k)
  PROVE  Checked(k)'
<1>1. \A u \in AccUser : EnabledAdmin(u)' <=> EnabledAdmin(u)
  BY RolesKept
<1>2. k.pc \in {"put", "update", "unaccess", "delete"} => k.user \in AccUser
  BY DEF HasUser
<1>3. ASSUME NEW role, NEW enabled, k.user \in AccUser, AdminSurvives(k.user, role, enabled)
      PROVE  AdminSurvives(k.user, role, enabled)'
  BY <1>1, <1>3 DEF AdminSurvives, RolesStay
<1>4. k.pc = "put" => accRow'[k.user].role = accRow[k.user].role
                      /\ accRow'[k.user].enabled = accRow[k.user].enabled
  BY <1>2 DEF RolesStay
<1> QED  BY <1>2, <1>3, <1>4 DEF Checked

\* A request moves, and what the others have checked still holds or they are overtaken.
LEMMA RuledMoves ==
  ASSUME Chain, Rooted, NEW c \in AccRequest, NEW new, NEW ended, NEW passed,
         Moves(c, new, ended, passed), RolesStay \/ AdminOp \subseteq passed, Ruled(new)'
  PROVE  \A d \in AccRequest : Ruled(accCall[d])'
<1> SUFFICES ASSUME NEW d \in AccRequest PROVE Ruled(accCall[d])'
  OBVIOUS
<1>1. CASE d = c
  <2>1. accCall'[d] = new
    BY <1>1 DEF Moves
  <2> QED  BY <2>1
<1>2. CASE d # c
  <2>1. PICK x : x = accCall[d]
    OBVIOUS
  <2>2. PICK y : y = accCall'[d]
    OBVIOUS
  <2>3. Follows(x, y, ended, passed)
    BY <1>2, <2>1, <2>2 DEF Moves
  <2>4. HasUser(x) /\ Ruled(x)
    BY <2>1, RootTypes DEF Rooted
  <2>5. Staged(y)'
    BY <2>3, <2>4 DEF Follows, Ruled, Staged
  <2>6. y.overtaken \/ Checked(y)'
    <3>1. CASE x.overtaken \/ x.op \in passed
      BY <2>3, <3>1 DEF Follows
    <3>2. CASE ~ x.overtaken /\ RolesStay
      <4>1. Checked(x)'
        BY <2>4, <3>2, CheckedKept DEF Ruled
      <4> QED  BY <2>3, <4>1 DEF Follows, Checked
    <3>3. CASE x.op \notin AdminOp
      BY <2>3, <2>4, <3>3 DEF Follows, Ruled, Staged, Checked, AdminOp
    <3> QED  BY <3>1, <3>2, <3>3
  <2>7. Ruled(y)'
    BY <2>5, <2>6 DEF Ruled
  <2> QED  BY <2>2, <2>7
<1> QED  BY <1>1, <1>2

\* A request moves, and the passwords of the users that are not in ended stay, or it goes
\* on to revoke.
LEMMA PaidMoves ==
  ASSUME Chain, Rooted, NEW c \in AccRequest, NEW new, NEW ended, NEW passed,
         Moves(c, new, ended, passed), Paid(c, new)',
         accCall[c].pc = "revoke" => accCall[c].user \in ended,
         \A u \in AccUser : u \notin ended /\ HasAccount(u) =>
           HasAccount(u)' /\ (accRow'[u].pw = accRow[u].pw \/ (new.pc = "revoke" /\ new.user = u)),
         \A t \in 1..MaxTokens : accToken'[t].live =>
           \/ TokenEnds(t)'
           \/ /\ accToken[t].live /\ accToken[t].user \notin ended
              /\ accToken'[t].user = accToken[t].user /\ accToken'[t].pw = accToken[t].pw
              /\ accToken[t].late => accToken'[t].late
  PROVE  /\ \A d \in AccRequest : Paid(d, accCall[d])'
         /\ \A t \in 1..MaxTokens : TokenEnds(t)'
<1>0. /\ \A d \in AccRequest : HasUser(accCall[d])
      /\ \A t \in 1..MaxTokens : accToken[t].live => accToken[t].user \in AccUser
  BY RootTypes
<1>1. ASSUME NEW e \in AccRequest, accCall[e].pc = "revoke", accCall[e].user \notin ended
      PROVE  e # c /\ accCall'[e].pc = "revoke" /\ accCall'[e].user = accCall[e].user
  BY <1>1 DEF Moves, Follows
<1>2. accCall'[c] = new
  BY DEF Moves
<1>3. ASSUME NEW d \in AccRequest PROVE Paid(d, accCall[d])'
  <2>1. CASE d = c
    BY <1>2, <2>1
  <2>2. CASE d # c
    <3>1. PICK x : x = accCall[d]
      OBVIOUS
    <3>2. PICK y : y = accCall'[d]
      OBVIOUS
    <3>3. Follows(x, y, ended, passed) /\ Paid(d, x) /\ HasUser(x)
      BY <1>0, <2>2, <3>1, <3>2 DEF Moves, Rooted
    <3> SUFFICES ASSUME ~ y.late
                 PROVE  /\ Issues(y) \/ y.pc = "newpw" => HasAccount(y.user)'
                        /\ Issues(y) => y.pw = accRow'[y.user].pw \/ RevokedBy(y.user, d)'
      <4>1. (~ y.late => /\ Issues(y) \/ y.pc = "newpw" => HasAccount(y.user)'
                         /\ Issues(y) => y.pw = accRow'[y.user].pw \/ RevokedBy(y.user, d)')
              => Paid(d, y)'
        BY DEF Paid, Issues
      <4> QED  BY <3>2, <4>1
    <3>4. /\ y.pc = x.pc /\ y.op = x.op /\ y.user = x.user /\ y.pw = x.pw
          /\ ~ x.late /\ x.user \notin ended
      BY <3>3 DEF Follows
    <3>5. Issues(y) <=> Issues(x)
      BY <3>4 DEF Issues
    <3>6. Issues(x) \/ x.pc = "newpw" => x.user \in AccUser /\ HasAccount(x.user)
      BY <3>3, <3>4 DEF Paid, HasUser, Issues
    <3>7. RevokedBy(x.user, d) => RevokedBy(x.user, d)'
      BY <1>1, <3>4 DEF RevokedBy
    <3>8. new.pc = "revoke" /\ new.user = x.user => RevokedBy(x.user, d)'
      BY <1>2, <2>2 DEF RevokedBy
    <3>9. Issues(x) => x.pw = accRow[x.user].pw \/ RevokedBy(x.user, d)
      BY <3>3, <3>4 DEF Paid
    <3> QED  BY <3>4, <3>5, <3>6, <3>7, <3>8, <3>9
  <2> QED  BY <2>1, <2>2
<1>4. ASSUME NEW t \in 1..MaxTokens PROVE TokenEnds(t)'
  <2> SUFFICES ASSUME accToken'[t].live, ~ TokenEnds(t)' PROVE FALSE
    BY DEF TokenEnds
  <2>1. PICK u : u = accToken[t].user
    OBVIOUS
  <2>2. /\ accToken[t].live /\ u \notin ended /\ accToken'[t].user = u
        /\ accToken'[t].pw = accToken[t].pw /\ (accToken[t].late => accToken'[t].late)
    BY <2>1
  <2>3. /\ u \in AccUser /\ HasAccount(u)
        /\ \/ accToken[t].late \/ accToken[t].pw = accRow[u].pw
           \/ \E e \in AccRequest : accCall[e].pc = "revoke" /\ accCall[e].user = u
    BY <1>0, <2>1, <2>2 DEF Rooted, TokenEnds
  <2>4. HasAccount(u)' /\ (accRow'[u].pw = accRow[u].pw \/ (new.pc = "revoke" /\ new.user = u))
    BY <2>2, <2>3
  <2>5. (\E e \in AccRequest : accCall[e].pc = "revoke" /\ accCall[e].user = u)
          => \E e \in AccRequest : accCall'[e].pc = "revoke" /\ accCall'[e].user = u
    BY <1>1, <2>2
  <2>6. new.pc = "revoke" /\ new.user = u
          => \E e \in AccRequest : accCall'[e].pc = "revoke" /\ accCall'[e].user = u
    BY <1>2
  <2> QED  BY <2>2, <2>3, <2>4, <2>5, <2>6 DEF TokenEnds
<1> QED  BY <1>3, <1>4

RowsStay == RolesStay /\ \A u \in AccUser : accRow'[u].pw = accRow[u].pw

TokensOnlyEnd == \A t \in 1..MaxTokens : accToken'[t].live => accToken'[t] = accToken[t]

\* One request moves on, and the rows that matter stay.
LEMMA RequestMoves ==
  ASSUME Chain, Rooted, NEW c \in AccRequest, NEW new \in AccCalls,
         accCall' = [accCall EXCEPT ![c] = new], RowsStay, TokensOnlyEnd,
         accCall[c].pc # "revoke", HasUser(new), Ruled(new), Paid(c, new)
  PROVE  Rooted'
<1>1. Moves(c, new, {}, {})
  BY MovesAlone DEF Chain, Typed
<1>2. Ruled(new)'
  <2>1. Checked(new) => Checked(new)'
    BY CheckedKept DEF RowsStay
  <2>2. Staged(new)'
    BY DEF Ruled, Staged
  <2> QED  BY <2>1, <2>2 DEF Ruled
<1>3. \A u \in AccUser : HasAccount(u)' <=> HasAccount(u)
  BY RolesKept DEF RowsStay
<1>4. Paid(c, new)'
  <2>1. RevokedBy(new.user, c) => RevokedBy(new.user, c)'
    BY <1>1 DEF RevokedBy, Moves, Follows
  <2>2. Issues(new) \/ new.pc = "newpw" => new.user \in AccUser
    BY DEF HasUser, Issues
  <2> QED  BY <1>3, <2>1, <2>2 DEF Paid, Issues, RowsStay
<1>5. \A d \in AccRequest : Ruled(accCall[d])'
  BY <1>1, <1>2, RuledMoves DEF RowsStay
<1>6. \A t \in 1..MaxTokens : accToken'[t].live =>
        /\ accToken[t].live /\ accToken'[t].user = accToken[t].user
        /\ accToken'[t].pw = accToken[t].pw /\ (accToken[t].late => accToken'[t].late)
  BY DEF TokensOnlyEnd
<1>7. (\A d \in AccRequest : Paid(d, accCall[d])') /\ (\A t \in 1..MaxTokens : TokenEnds(t)')
  BY <1>1, <1>3, <1>4, <1>6, PaidMoves DEF RowsStay
<1> QED  BY <1>5, <1>7 DEF Rooted

\* No request moves.
LEMMA RequestsStay ==
  ASSUME Chain, Rooted, UNCHANGED accCall, RowsStay, TokensOnlyEnd
  PROVE  Rooted'
<1>0. /\ \A d \in AccRequest : HasUser(accCall[d])
      /\ \A t \in 1..MaxTokens : accToken[t].live => accToken[t].user \in AccUser
  BY RootTypes
<1>1. /\ \A u \in AccUser : HasAccount(u)' <=> HasAccount(u)
      /\ \A u \in AccUser : accRow'[u].pw = accRow[u].pw
  BY RolesKept DEF RowsStay
<1>2. ASSUME NEW d \in AccRequest PROVE Ruled(accCall[d])'
  <2>1. PICK x : x = accCall[d]
    OBVIOUS
  <2>2. Staged(x)' /\ (x.overtaken \/ Checked(x)')
    BY <1>0, <2>1, CheckedKept DEF Rooted, Ruled, Staged, RowsStay
  <2>3. Ruled(x)'
    BY <2>2 DEF Ruled
  <2> QED  BY <2>1, <2>3
<1>3. \A d \in AccRequest : Paid(d, accCall[d])'
  BY <1>0, <1>1 DEF Rooted, Paid, Issues, HasUser, RevokedBy
<1>4. \A t \in 1..MaxTokens : TokenEnds(t)'
  BY <1>0, <1>1 DEF Rooted, TokenEnds, TokensOnlyEnd
<1> QED  BY <1>2, <1>3, <1>4 DEF Rooted

\* What a request checks in its first transaction.
LEMMA BeginKeepsRoot ==
  ASSUME Chain, Rooted, Chain', NEW c \in AccRequest, AccBegin(c)
  PROVE  Rooted'
<1>0. /\ accCall \in [AccRequest -> AccCalls] /\ accCall' \in [AccRequest -> AccCalls]
      /\ \A d \in AccRequest : HasUser(accCall'[d])
      /\ \A t \in 1..MaxTokens : accToken[t].live => accToken[t].user \in AccUser
  BY DEF Chain, Typed, AccTypeOK, Owned, HasUser
<1>m. ASSUME NEW new, accCall' = [accCall EXCEPT ![c] = new], Ruled(new), Paid(c, new),
             accCall[c].pc = "idle", RowsStay, TokensOnlyEnd
      PROVE  Rooted'
  <2>1. accCall'[c] = new /\ new \in AccCalls /\ HasUser(new)
    BY <1>0, <1>m
  <2> QED  BY <1>m, <2>1, RequestMoves
<1>s. ASSUME NEW op, NEW u \in AccUser, NEW pc, NEW row, NEW pw, AccStart(c, op, u, pc, row, 0, pw),
             UNCHANGED <<accRow, accToken>>,
             \A k : k.pc = pc /\ k.op = op /\ k.user = u /\ k.row = row /\ k.pw = pw
                      => Ruled(k) /\ Paid(c, k)
      PROVE  Rooted'
  <2>1. PICK new : new = [pc |-> pc, op |-> op, user |-> u, row |-> row, parent |-> 0, pw |-> pw,
                          late |-> FALSE, overtaken |-> FALSE]
    OBVIOUS
  <2>2. /\ accCall' = [accCall EXCEPT ![c] = new] /\ accCall[c].pc = "idle"
        /\ Ruled(new) /\ Paid(c, new)
    BY <1>s, <2>1 DEF AccStart, Arrives, AccAt
  <2>3. RowsStay /\ TokensOnlyEnd
    BY <1>s DEF RowsStay, RolesStay, TokensOnlyEnd
  <2> QED  BY <1>m, <2>2, <2>3
<1>1. ASSUME NEW u \in AccUser, Register(c, u) PROVE Rooted'
  <2> DEFINE row == [NoRow EXCEPT !.role = "admin", !.enabled = TRUE]
  <2>1. AccStart(c, "register", u, "put", row, 0, 0) /\ UNCHANGED <<accRow, accToken>>
    BY <1>1 DEF Register
  <2>2. row.role = "admin" /\ row.enabled
    BY DEF NoRow
  <2> HIDE DEF row
  <2>3. ASSUME NEW k, k.pc = "put", k.op = "register", k.user = u, k.row = row
        PROVE  Ruled(k) /\ Paid(c, k)
    BY <2>2, <2>3 DEF Ruled, Staged, Checked, Paid, Issues
  <2> QED  BY <1>s, <2>1, <2>3
<1>2. ASSUME NEW u \in AccUser, DeleteUser(c, u) PROVE Rooted'
  <2>1. /\ AdminSurvives(u, "none", FALSE)
        /\ AccStart(c, "delete", u, "unaccess", NoRow, 0, 0) /\ UNCHANGED <<accRow, accToken>>
    BY <1>2 DEF DeleteUser
  <2>3. ASSUME NEW k, k.pc = "unaccess", k.op = "delete", k.user = u
        PROVE  Ruled(k) /\ Paid(c, k)
    BY <2>1, <2>3 DEF Ruled, Staged, Checked, Paid, Issues
  <2> QED  BY <1>s, <2>1, <2>3
<1>3. ASSUME NEW u \in AccUser, Reset(c, u) PROVE Rooted'
  <2> DEFINE row == [NoRow EXCEPT !.role = accRow[u].role, !.enabled = accRow[u].enabled,
                                  !.must = TRUE]
  <2>1. HasAccount(u) /\ AccStart(c, "reset", u, "put", row, 0, 0)
        /\ UNCHANGED <<accRow, accToken>>
    BY <1>3 DEF Reset
  <2>2. row.role = accRow[u].role /\ row.enabled = accRow[u].enabled /\ row.role # "none"
    BY <2>1 DEF NoRow, HasAccount
  <2> HIDE DEF row
  <2>4. ASSUME NEW k, k.pc = "put", k.op = "reset", k.user = u, k.row = row
        PROVE  Ruled(k) /\ Paid(c, k)
    BY <2>2, <2>4 DEF Ruled, Staged, Checked, Paid, Issues
  <2> QED  BY <1>s, <2>1, <2>4
<1>4. ASSUME NEW u \in AccUser, ChangePassword(c, u) PROVE Rooted'
  <2>1. HasAccount(u) /\ AccStart(c, "change", u, "newpw", NoRow, 0, 0)
        /\ UNCHANGED <<accRow, accToken>>
    BY <1>4 DEF ChangePassword
  <2>2. ASSUME NEW k, k.pc = "newpw", k.op = "change", k.user = u PROVE Ruled(k) /\ Paid(c, k)
    BY <2>1, <2>2 DEF Ruled, Staged, Checked, Paid, Issues
  <2> QED  BY <1>s, <2>1, <2>2
<1>5. ASSUME NEW u \in AccUser, NEW role \in {"admin", "member"}, NEW enabled \in BOOLEAN,
             NEW temporary \in BOOLEAN, Provision(c, u, role, enabled, temporary)
      PROVE  Rooted'
  <2> DEFINE row == [NoRow EXCEPT !.role = role, !.enabled = enabled, !.must = TRUE]
             pc == IF temporary THEN "put" ELSE IF HasAccount(u) THEN "update" ELSE "access"
  <2>1. /\ AdminSurvives(u, role, enabled)
        /\ AccStart(c, "provision", u, pc, row, 0, 0) /\ UNCHANGED <<accRow, accToken>>
    BY <1>5 DEF Provision
  <2>2. row.role = role /\ row.enabled = enabled /\ pc \in {"put", "update", "access"}
    BY DEF NoRow
  <2> HIDE DEF row, pc
  <2>3. ASSUME NEW k, k.pc = pc, k.op = "provision", k.user = u, k.row = row
        PROVE  Ruled(k) /\ Paid(c, k)
    BY <2>1, <2>2, <2>3 DEF Ruled, Staged, Checked, Paid, Issues
  <2> QED  BY <1>s, <2>1, <2>3
<1>6. ASSUME NEW u \in AccUser, NEW pw \in 1..accLastPw, Login(c, u, pw) PROVE Rooted'
  <2> DEFINE pc == IF pw = accRow[u].pw THEN "success" ELSE "fail"
  <2>1. HasAccount(u) /\ AccStart(c, "login", u, pc, NoRow, 0, pw)
        /\ UNCHANGED <<accRow, accToken>>
    BY <1>6 DEF Login
  <2>2. pc = "fail" \/ (pc = "success" /\ pw = accRow[u].pw)
    OBVIOUS
  <2> HIDE DEF pc
  <2>3. ASSUME NEW k, k.pc = pc, k.op = "login", k.user = u, k.pw = pw
        PROVE  Ruled(k) /\ Paid(c, k)
    BY <2>1, <2>2, <2>3 DEF Ruled, Staged, Checked, Paid, Issues
  <2> QED  BY <1>s, <2>1, <2>3
<1>7. ASSUME NEW t \in 1..MaxTokens, Refresh(c, t) PROVE Rooted'
  <2>1. PICK new : new = [pc |-> "reload", op |-> "refresh", user |-> accToken[t].user,
                          row |-> NoRow, parent |-> t, pw |-> accToken[t].pw,
                          late |-> accToken[t].late, overtaken |-> FALSE]
    OBVIOUS
  <2>2. /\ accToken[t].live /\ accCall[c].pc = "idle" /\ accCall' = [accCall EXCEPT ![c] = new]
        /\ accToken' = [accToken EXCEPT ![t] = [accToken[t] EXCEPT !.live = FALSE]]
        /\ UNCHANGED accRow
    BY <1>7, <2>1 DEF Refresh, Arrives, AccAt
  <2>3. TokenEnds(t) /\ accToken[t].user \in AccUser
    BY <1>0, <2>2 DEF Rooted
  <2>4. /\ new.pc = "reload" /\ new.op = "refresh" /\ new.user = accToken[t].user
        /\ new.pw = accToken[t].pw /\ (accToken[t].late => new.late)
    BY <2>1
  <2>5. Ruled(new)
    BY <2>4 DEF Ruled, Staged, Checked
  <2>6. Paid(c, new)
    BY <1>0, <2>2, <2>3, <2>4 DEF Paid, Issues, TokenEnds, RevokedBy
  <2>7. RowsStay /\ TokensOnlyEnd
    BY <2>2 DEF RowsStay, RolesStay, TokensOnlyEnd, Chain, Typed, AccTypeOK, AccTokens
  <2> QED  BY <1>m, <2>2, <2>5, <2>6, <2>7
<1> QED  BY <1>1, <1>2, <1>3, <1>4, <1>5, <1>6, <1>7 DEF AccBegin

---------------------------------------------------------------------------
(* Sessions and administrators: every step *)

\* A request that has nothing more to do.
LEMMA DoneRules ==
  /\ DoneCall \in AccCalls /\ HasUser(DoneCall) /\ DoneCall.pc = "done" /\ ~ Issues(DoneCall)
  /\ Ruled(DoneCall) /\ Ruled(DoneCall)'
  /\ \A c : Paid(c, DoneCall) /\ Paid(c, DoneCall)'
<1>1. DoneCall \in AccCalls /\ DoneCall.pc = "done"
  BY NoneTyped DEF DoneCall, NoCall
<1>2. PICK k : k = DoneCall
  OBVIOUS
<1>3. /\ HasUser(k) /\ ~ Issues(k) /\ Ruled(k) /\ Ruled(k)'
      /\ \A c : Paid(c, k) /\ Paid(c, k)'
  BY <1>1, <1>2 DEF HasUser, Ruled, Staged, Checked, Paid, Issues
<1> QED  BY <1>1, <1>2, <1>3

\* One that ends.
LEMMA DoneKeepsRoot ==
  ASSUME Chain, Rooted, NEW c \in AccRequest, AccDone(c), ~ AccAt(c, "revoke"),
         RowsStay, TokensOnlyEnd
  PROVE  Rooted'
BY DoneRules, RequestMoves DEF AccDone, AccAt

\* k when it has moved on to pc.
MovedTo(new, k, pc) ==
  /\ new \in AccCalls /\ new.pc = pc /\ new.op = k.op /\ new.user = k.user /\ new.row = k.row
  /\ k.late <=> new.late

LEMMA EntryMoves ==
  ASSUME NEW k \in AccCalls, NEW pc \in AccPc
  PROVE  MovedTo([k EXCEPT !.pc = pc], k, pc) /\ [k EXCEPT !.pc = pc].pw = k.pw
BY DEF MovedTo, AccCalls

\* One that goes on to its next transaction.
LEMMA GotoKeepsRoot ==
  ASSUME Chain, Rooted, NEW c \in AccRequest, NEW k, k = accCall[c], NEW pc \in AccPc,
         AccGoto(c, pc), k.pc \notin {"revoke", "idle", "done"}, RowsStay, TokensOnlyEnd,
         \A new : MovedTo(new, k, pc) /\ new.pw = k.pw => Ruled(new) /\ Paid(c, new)
  PROVE  Rooted'
<1>0. k \in AccCalls /\ HasUser(k) /\ k.pw \in 0..MaxPasswords
  BY RootTypes DEF AccCalls
<1>1. PICK new : new = [k EXCEPT !.pc = pc]
  OBVIOUS
<1>2. MovedTo(new, k, pc) /\ new.pw = k.pw
  BY <1>0, <1>1, EntryMoves
<1>3. accCall' = [accCall EXCEPT ![c] = new]
  BY <1>1 DEF AccGoto
<1>4. Ruled(new) /\ Paid(c, new) /\ new \in AccCalls /\ HasUser(new)
  BY <1>0, <1>2 DEF MovedTo, HasUser
<1> QED  BY <1>3, <1>4, RequestMoves

\* A write to a row that leaves what the sessions depend on.
LEMMA WriteStays ==
  ASSUME Chain, NEW u \in AccUser, NEW row, UpdateRow(u, row) \/ WriteRow(u, row),
         row.role = accRow[u].role, row.enabled = accRow[u].enabled, row.pw = accRow[u].pw
  PROVE  RowsStay
BY DEF Chain, Typed, AccTypeOK, UpdateRow, WriteRow, RowsStay, RolesStay

\* The later transactions that change no role and no password and revoke nothing.
LEMMA PlainStepKeepsRoot ==
  ASSUME Chain, Rooted, NEW c \in AccRequest,
         \/ PutAccess(c) \/ DeleteAccess(c) \/ CountFailure(c) \/ RecordFailure(c)
         \/ RecordSuccess(c) \/ Reread(c)
         \/ Issue(c) /\ ~ HasAccount(accCall[c].user)
  PROVE  Rooted'
<1>0. /\ accCall \in [AccRequest -> AccCalls] /\ accRow \in [AccUser -> AccRows]
  BY RootTypes
<1>p. {"issue", "delete", "failed", "reread"} \subseteq AccPc
  BY DEF AccPc
<1>k. PICK k : k = accCall[c]
  OBVIOUS
<1>r. /\ k \in AccCalls /\ Ruled(k) /\ Paid(c, k) /\ HasUser(k)
  BY <1>0, <1>k, RootTypes DEF Rooted
<1>u. UNCHANGED <<accRow, accToken>> => RowsStay /\ TokensOnlyEnd
  BY DEF RowsStay, RolesStay, TokensOnlyEnd
<1>1. CASE PutAccess(c)
  <2>1. k.pc = "access" /\ RowsStay /\ TokensOnlyEnd /\ ~ AccAt(c, "revoke")
    BY <1>1, <1>k, <1>u DEF PutAccess, AccAt
  <2>2. CASE k.op = "register"
    <3>1. AccGoto(c, "issue")
      BY <1>1, <1>k, <2>2 DEF PutAccess
    <3>2. ASSUME NEW new, MovedTo(new, k, "issue"), new.pw = k.pw
          PROVE  Ruled(new) /\ Paid(c, new)
      BY <1>r, <2>1, <2>2, <3>2 DEF Ruled, Staged, Checked, Paid, Issues, MovedTo
    <3> QED  BY <1>k, <1>p, <2>1, <3>1, <3>2, GotoKeepsRoot
  <2>3. CASE k.op # "register"
    BY <1>1, <1>k, <2>1, <2>3, DoneKeepsRoot DEF PutAccess
  <2> QED  BY <2>2, <2>3
<1>2. CASE DeleteAccess(c)
  <2>1. k.pc = "unaccess" /\ RowsStay /\ TokensOnlyEnd /\ ~ AccAt(c, "revoke")
    BY <1>2, <1>k, <1>u DEF DeleteAccess, AccAt
  <2>2. CASE AccGoto(c, "delete")
    <3>1. PICK new : new = [k EXCEPT !.pc = "delete"]
      OBVIOUS
    <3>2. /\ new \in AccCalls /\ new.pc = "delete" /\ new.op = k.op /\ new.user = k.user
          /\ k.overtaken => new.overtaken
      BY <1>p, <1>r, <3>1 DEF AccCalls
    <3>3. Ruled(new) /\ Paid(c, new) /\ HasUser(new)
      BY <1>r, <2>1, <3>2 DEF Ruled, Staged, Checked, Paid, Issues, HasUser
    <3>4. accCall' = [accCall EXCEPT ![c] = new]
      BY <1>k, <2>2, <3>1 DEF AccGoto
    <3> QED  BY <1>k, <2>1, <3>2, <3>3, <3>4, RequestMoves
  <2>3. CASE AccDone(c)
    BY <2>1, <2>3, DoneKeepsRoot
  <2> QED  BY <1>2, <2>2, <2>3 DEF DeleteAccess
<1>3. CASE CountFailure(c)
  <2>1. k.pc = "fail" /\ RowsStay /\ TokensOnlyEnd /\ ~ AccAt(c, "revoke")
    BY <1>3, <1>k, <1>u DEF CountFailure, AccAt
  <2>2. CASE HasAccount(k.user)
    <3>1. PICK new : new = [k EXCEPT !.pc = "failed", !.row = accRow[k.user]]
      OBVIOUS
    <3>2. /\ accCall' = [accCall EXCEPT ![c] = new] /\ new \in AccCalls
          /\ new.pc = "failed" /\ new.user = k.user
      BY <1>0, <1>3, <1>k, <1>p, <1>r, <2>1, <2>2, <3>1 DEF CountFailure, AccCalls, HasUser
    <3>3. Ruled(new) /\ Paid(c, new) /\ HasUser(new)
      BY <1>r, <2>1, <3>2 DEF Ruled, Staged, Checked, Paid, Issues, HasUser
    <3> QED  BY <1>k, <2>1, <3>2, <3>3, RequestMoves
  <2>3. CASE ~ HasAccount(k.user)
    BY <1>3, <1>k, <2>1, <2>3, DoneKeepsRoot DEF CountFailure
  <2> QED  BY <2>2, <2>3
<1>4. CASE RecordFailure(c)
  <2> DEFINE n == IF k.row.failures < MaxFailures THEN k.row.failures + 1 ELSE MaxFailures
             row == [accRow[k.user] EXCEPT !.failures = n, !.locked = (n = MaxFailures)]
  <2>1. k.pc = "failed" /\ TokensOnlyEnd /\ ~ AccAt(c, "revoke") /\ AccDone(c) /\ UpdateRow(k.user, row)
        /\ k.user \in AccUser
    BY <1>4, <1>k, <1>r DEF RecordFailure, AccAt, TokensOnlyEnd, HasUser
  <2>2. /\ row.role = accRow[k.user].role /\ row.enabled = accRow[k.user].enabled
        /\ row.pw = accRow[k.user].pw
    BY <1>0, <2>1 DEF AccRows
  <2> HIDE DEF n, row
  <2>3. RowsStay
    BY <2>1, <2>2, WriteStays
  <2> QED  BY <2>1, <2>3, DoneKeepsRoot
<1>5. CASE RecordSuccess(c)
  <2> DEFINE row == [accRow[k.user] EXCEPT !.failures = 0, !.locked = FALSE]
  <2>1. k.pc = "success" /\ TokensOnlyEnd /\ AccGoto(c, "reread") /\ UpdateRow(k.user, row)
        /\ k.user \in AccUser
    BY <1>5, <1>k, <1>r DEF RecordSuccess, AccAt, TokensOnlyEnd, HasUser
  <2>2. /\ row.role = accRow[k.user].role /\ row.enabled = accRow[k.user].enabled
        /\ row.pw = accRow[k.user].pw
    BY <1>0, <2>1 DEF AccRows
  <2> HIDE DEF row
  <2>3. ASSUME NEW new, MovedTo(new, k, "reread"), new.pw = k.pw
        PROVE  Ruled(new) /\ Paid(c, new)
    BY <1>r, <2>1, <2>3 DEF Ruled, Staged, Checked, Paid, Issues, MovedTo
  <2>4. RowsStay
    BY <2>1, <2>2, WriteStays
  <2> QED  BY <1>k, <1>p, <2>1, <2>3, <2>4, GotoKeepsRoot
<1>6. CASE Reread(c)
  <2>1. k.pc \in {"reread", "reload"} /\ RowsStay /\ TokensOnlyEnd /\ ~ AccAt(c, "revoke")
    BY <1>6, <1>k, <1>u DEF Reread, AccAt
  <2>2. CASE AccGoto(c, "issue")
    <3>2. ASSUME NEW new, MovedTo(new, k, "issue"), new.pw = k.pw
          PROVE  Ruled(new) /\ Paid(c, new)
      BY <1>r, <2>1, <3>2 DEF Ruled, Staged, Checked, Paid, Issues, MovedTo
    <3> QED  BY <1>k, <1>p, <2>1, <2>2, <3>2, GotoKeepsRoot
  <2>3. CASE AccDone(c)
    BY <2>1, <2>3, DoneKeepsRoot
  <2> QED  BY <1>6, <2>2, <2>3 DEF Reread
<1>7. CASE Issue(c) /\ ~ HasAccount(accCall[c].user)
  <2>1. RowsStay /\ TokensOnlyEnd /\ ~ AccAt(c, "revoke") /\ AccDone(c)
    BY <1>7, <1>u DEF Issue, AccAt
  <2> QED  BY <2>1, DoneKeepsRoot
<1> QED  BY <1>1, <1>2, <1>3, <1>4, <1>5, <1>6, <1>7

\* Logout and the end of a lock.
LEMMA OtherStepKeepsRoot ==
  ASSUME Chain, Rooted,
         \/ \E t \in 1..MaxTokens : Logout(t)
         \/ \E u \in AccUser : LockExpires(u)
         \/ UNCHANGED accVars
  PROVE  Rooted'
<1>0. accToken \in [1..MaxTokens -> AccTokens] /\ accRow \in [AccUser -> AccRows]
  BY DEF Chain, Typed, AccTypeOK
<1>1. ASSUME NEW t \in 1..MaxTokens, Logout(t) PROVE Rooted'
  <2>1. RowsStay /\ TokensOnlyEnd /\ UNCHANGED accCall
    BY <1>0, <1>1 DEF Logout, RowsStay, RolesStay, TokensOnlyEnd, AccTokens
  <2> QED  BY <2>1, RequestsStay
<1>2. ASSUME NEW u \in AccUser, LockExpires(u) PROVE Rooted'
  <2>1. RowsStay /\ TokensOnlyEnd /\ UNCHANGED accCall
    BY <1>0, <1>2 DEF LockExpires, WriteRow, RowsStay, RolesStay, TokensOnlyEnd, AccRows
  <2> QED  BY <2>1, RequestsStay
<1>3. CASE UNCHANGED accVars
  <2>1. RowsStay /\ TokensOnlyEnd /\ UNCHANGED accCall
    BY <1>3 DEF accVars, RowsStay, RolesStay, TokensOnlyEnd
  <2> QED  BY <2>1, RequestsStay
<1> QED  BY <1>1, <1>2, <1>3

\* The tokens and requests of the user, or none, are late or ended.
LEMMA MarkedTokens ==
  ASSUME Chain, NEW U, (\E u : U = {u} /\ EndSessions(u)) \/ KeepSessions(U),
         NEW t \in 1..MaxTokens, accToken'[t].live
  PROVE  /\ accToken[t].live /\ accToken'[t].user = accToken[t].user
         /\ accToken'[t].pw = accToken[t].pw
         /\ accToken[t].late => accToken'[t].late
         /\ accToken[t].user \in U => accToken'[t].late
BY SessionsMarked DEF Chain, Typed

\* What was kept or ended is late, and the rest is as it was.
LEMMA MarkedEnds ==
  ASSUME Chain, Rooted, NEW U, (\E u : U = {u} /\ EndSessions(u)) \/ KeepSessions(U),
         \A u \in AccUser : u \in U /\ HasAccount(u) => HasAccount(u)' \/ EndSessions(u)
  PROVE  \A t \in 1..MaxTokens : accToken'[t].live =>
           \/ TokenEnds(t)'
           \/ /\ accToken[t].live /\ accToken[t].user \notin U
              /\ accToken'[t].user = accToken[t].user /\ accToken'[t].pw = accToken[t].pw
              /\ accToken[t].late => accToken'[t].late
<1> SUFFICES ASSUME NEW t \in 1..MaxTokens, accToken'[t].live, accToken[t].user \in U
             PROVE  TokenEnds(t)'
  BY MarkedTokens
<1>1. PICK u : u = accToken[t].user
  OBVIOUS
<1>2. accToken[t].live /\ accToken'[t].user = u /\ accToken'[t].late
  BY <1>1, MarkedTokens
<1>3. u \in AccUser /\ HasAccount(u)
  BY <1>1, <1>2, RootTypes DEF Rooted, TokenEnds
<1>4. ~ EndSessions(u)
  BY <1>1, RootTypes DEF EndSessions, AccTokens
<1>5. HasAccount(u)'
  BY <1>1, <1>3, <1>4
<1> QED  BY <1>2, <1>5 DEF TokenEnds

\* The sessions of the user end, and what is still under way for the user is late.
LEMMA RevokeKeepsRoot ==
  ASSUME Chain, Rooted, NEW c \in AccRequest, Revoke(c)
  PROVE  Rooted'
<1>k. PICK k : k = accCall[c]
  OBVIOUS
<1>p. {"access", "reread"} \subseteq AccPc
  BY DEF AccPc
<1>r. /\ Ruled(k) /\ Paid(c, k) /\ k.pc = "revoke" /\ k.user \in AccUser /\ k \in AccCalls
      /\ k.op \in {"provision", "reset", "change"} /\ k.pw \in 0..MaxPasswords
  BY <1>k, RootTypes DEF Rooted, Revoke, AccAt, HasUser, Ruled, Staged, AccCalls
<1>1. PICK new : new = IF k.op = "provision" THEN [k EXCEPT !.pc = "access"]
                       ELSE IF k.op = "change" THEN [k EXCEPT !.pc = "reread"] ELSE DoneCall
  OBVIOUS
<1>2. AccMoves(c, new, {k.user}, {}) /\ EndSessions(k.user) /\ UNCHANGED accRow
  BY <1>k, <1>r, <1>1 DEF Revoke
<1>3. \/ MovedTo(new, k, "access") /\ k.op = "provision"
      \/ MovedTo(new, k, "reread") /\ k.op = "change" /\ new.pw = k.pw
      \/ new = DoneCall
  BY <1>p, <1>r, <1>1, EntryMoves
<1>4. Moves(c, new, {k.user}, {})
  <2>1. new \in AccCalls
    BY <1>3, DoneRules DEF MovedTo
  <2> QED  BY <1>2, <2>1, MovesOthers DEF Chain, Typed
<1>5. RolesStay /\ \A u \in AccUser : HasAccount(u)' <=> HasAccount(u)
  BY <1>2, RolesKept DEF RolesStay
<1>6. Ruled(new)'
  <2>1. new # DoneCall => new.pc \in {"access", "reread"} /\ (new.pc = "access" => new.op = "provision")
    BY <1>3 DEF MovedTo
  <2>2. new # DoneCall => Ruled(new)'
    BY <2>1 DEF Ruled, Staged, Checked
  <2> QED  BY <2>2, DoneRules
<1>7. Paid(c, new)'
  <2>1. CASE MovedTo(new, k, "reread") /\ k.op = "change" /\ new.pw = k.pw
    <3>1. /\ new.pc = "reread" /\ new.user = k.user /\ new.pw = k.pw
          /\ new.late <=> k.late
      BY <2>1 DEF MovedTo
    <3>2. Issues(k)
      BY <1>r, <2>1 DEF Issues
    <3>3. ~ k.late => HasAccount(k.user) /\ (k.pw = accRow[k.user].pw \/ RevokedBy(k.user, c))
      BY <1>r, <3>2 DEF Paid
    <3>4. RevokedBy(k.user, c) => RevokedBy(k.user, c)'
      BY <1>4 DEF RevokedBy, Moves, Follows
    <3>5. ~ new.late => HasAccount(new.user)' /\ (new.pw = accRow'[new.user].pw \/ RevokedBy(new.user, c)')
      BY <1>2, <1>5, <1>r, <3>1, <3>3, <3>4
    <3> QED  BY <3>5 DEF Paid
  <2>2. CASE MovedTo(new, k, "access") /\ k.op = "provision"
    <3>1. new.pc = "access" /\ new.op = "provision"
      BY <2>2 DEF MovedTo
    <3> QED  BY <3>1 DEF Paid, Issues
  <2>3. CASE new = DoneCall
    BY <2>3, DoneRules
  <2> QED  BY <1>3, <2>1, <2>2, <2>3
<1>8. \A d \in AccRequest : Ruled(accCall[d])'
  BY <1>4, <1>5, <1>6, RuledMoves
<1>9. \A t \in 1..MaxTokens : accToken'[t].live =>
        \/ TokenEnds(t)'
        \/ /\ accToken[t].live /\ accToken[t].user \notin {k.user}
           /\ accToken'[t].user = accToken[t].user /\ accToken'[t].pw = accToken[t].pw
           /\ accToken[t].late => accToken'[t].late
  BY <1>2, <1>5, MarkedEnds
<1>10. (\A d \in AccRequest : Paid(d, accCall[d])') /\ (\A t \in 1..MaxTokens : TokenEnds(t)')
  BY <1>2, <1>4, <1>5, <1>7, <1>9, <1>k, PaidMoves
<1> QED  BY <1>8, <1>10 DEF Rooted

\* A request that dies before it revokes leaves the sessions, late.
LEMMA DiesKeepsRoot ==
  ASSUME Chain, Rooted, NEW c \in AccRequest, Dies(c)
  PROVE  Rooted'
<1>1. PICK cut : /\ KeepSessions(cut) /\ AccMoves(c, DoneCall, cut, {}) /\ UNCHANGED accRow
                 /\ accCall[c].pc = "revoke" => accCall[c].user \in cut
  BY DEF Dies, AccAt
<1>2. Moves(c, DoneCall, cut, {})
  BY <1>1, DoneRules, MovesOthers DEF Chain, Typed
<1>3. RolesStay /\ \A u \in AccUser : HasAccount(u)' <=> HasAccount(u)
  BY <1>1, RolesKept DEF RolesStay
<1>4. \A d \in AccRequest : Ruled(accCall[d])'
  BY <1>2, <1>3, DoneRules, RuledMoves
<1>5. \A t \in 1..MaxTokens : accToken'[t].live =>
        \/ TokenEnds(t)'
        \/ /\ accToken[t].live /\ accToken[t].user \notin cut
           /\ accToken'[t].user = accToken[t].user /\ accToken'[t].pw = accToken[t].pw
           /\ accToken[t].late => accToken'[t].late
  BY <1>1, <1>3, MarkedEnds
<1>6. (\A d \in AccRequest : Paid(d, accCall[d])') /\ (\A t \in 1..MaxTokens : TokenEnds(t)')
  BY <1>1, <1>2, <1>3, <1>5, DoneRules, PaidMoves
<1> QED  BY <1>4, <1>6 DEF Rooted

\* The successor, or the first token, is for the password its request was paid with.
LEMMA IssueKeepsRoot ==
  ASSUME Chain, Rooted, NEW c \in AccRequest, Issue(c), HasAccount(accCall[c].user)
  PROVE  Rooted'
<1> USE AccAssumption
<1>0. /\ accCall \in [AccRequest -> AccCalls] /\ accToken \in [1..MaxTokens -> AccTokens]
      /\ accIssued \in 0..MaxTokens
  BY DEF Chain, Typed, AccTypeOK
<1>k. PICK k : k = accCall[c]
  OBVIOUS
<1>n. PICK n : n = accIssued + 1
  OBVIOUS
<1>r. Paid(c, k) /\ k.pc = "issue" /\ k.user \in AccUser /\ k \in AccCalls /\ HasAccount(k.user)
  BY <1>0, <1>k, RootTypes DEF Rooted, Issue, AccAt, HasUser
<1>1. PICK tok : tok = [user |-> k.user, live |-> TRUE, parent |-> k.parent, pw |-> k.pw, late |-> k.late]
  OBVIOUS
<1>2. /\ accCall' = [accCall EXCEPT ![c] = DoneCall] /\ UNCHANGED accRow
      /\ accToken' = [accToken EXCEPT ![n] = tok]
  BY <1>k, <1>n, <1>r, <1>1 DEF Issue, AccDone
<1>3. \A t \in 1..MaxTokens : accToken'[t] = IF t = n THEN tok ELSE accToken[t]
  BY <1>0, <1>2
<1>4. Moves(c, DoneCall, {}, {})
  BY <1>2, DoneRules, MovesAlone DEF Chain, Typed
<1>5. RolesStay /\ \A u \in AccUser : HasAccount(u)' <=> HasAccount(u)
  BY <1>2, RolesKept DEF RolesStay
<1>6. \A d \in AccRequest : Ruled(accCall[d])'
  BY <1>4, <1>5, DoneRules, RuledMoves
<1>7. \A t \in 1..MaxTokens : accToken'[t].live =>
        \/ TokenEnds(t)'
        \/ /\ accToken[t].live /\ accToken[t].user \notin {}
           /\ accToken'[t].user = accToken[t].user /\ accToken'[t].pw = accToken[t].pw
           /\ accToken[t].late => accToken'[t].late
  <2> SUFFICES ASSUME NEW t \in 1..MaxTokens, accToken'[t].live, t = n PROVE TokenEnds(t)'
    BY <1>3
  <2>1. accToken'[t] = tok
    BY <1>3
  <2>2. tok.user = k.user /\ tok.pw = k.pw /\ (k.late => tok.late)
    BY <1>1
  <2>3. k.late \/ k.pw = accRow[k.user].pw \/ RevokedBy(k.user, c)
    BY <1>r DEF Paid, Issues
  <2>4. RevokedBy(k.user, c) => \E e \in AccRequest : accCall'[e].pc = "revoke" /\ accCall'[e].user = k.user
    BY <1>4 DEF RevokedBy, Moves, Follows
  <2> QED  BY <1>2, <1>5, <1>r, <2>1, <2>2, <2>3, <2>4 DEF TokenEnds
<1>8. (\A d \in AccRequest : Paid(d, accCall[d])') /\ (\A t \in 1..MaxTokens : TokenEnds(t)')
  BY <1>2, <1>4, <1>5, <1>7, <1>k, <1>r, DoneRules, PaidMoves
<1> QED  BY <1>6, <1>8 DEF Rooted

\* A registration makes the sessions of an account that it finds late; a reset or a
\* temporary password goes on to revoke.
LEMMA PutAccountKeepsRoot ==
  ASSUME Chain, Rooted, NEW c \in AccRequest, PutAccount(c)
  PROVE  Rooted'
<1>0. accCall \in [AccRequest -> AccCalls] /\ accRow \in [AccUser -> AccRows]
  BY RootTypes
<1>k. PICK k : k = accCall[c]
  OBVIOUS
<1>r. k \in AccCalls /\ k.user \in AccUser /\ k.row \in AccRows /\ Ruled(k) /\ k.pc = "put"
  BY <1>0, <1>k, RootTypes DEF Rooted, PutAccount, AccAt, AccCalls, HasUser
<1>n. PICK n : n = accLastPw + 1
  OBVIOUS
<1>m. n \in 0..MaxPasswords
  <2>1. accLastPw \in 0..MaxPasswords /\ accLastPw < MaxPasswords
    BY DEF Chain, Typed, AccTypeOK, PutAccount
  <2> QED  BY <1>n, <2>1, AccAssumption
<1>1. PICK pc : pc = IF k.op = "register" THEN "access" ELSE "revoke"
  OBVIOUS
<1>2. PICK row : row = [k.row EXCEPT !.pw = n]
  OBVIOUS
<1>3. PICK new : new = [k EXCEPT !.pc = pc, !.pw = n]
  OBVIOUS
<1>4. PICK kept : kept = IF k.op = "register" /\ HasAccount(k.user) THEN {k.user} ELSE {}
  OBVIOUS
<1>5. /\ AccMoves(c, new, kept, AdminOp) /\ accRow' = [accRow EXCEPT ![k.user] = row]
      /\ KeepSessions(kept)
  BY <1>k, <1>n, <1>1, <1>2, <1>3, <1>4 DEF PutAccount, WriteRow
<1>6. MovedTo(new, k, pc) /\ new.pw = n
  <2>1. pc \in AccPc
    BY <1>1 DEF AccPc
  <2> QED  BY <1>3, <1>m, <1>r, <2>1 DEF MovedTo, AccCalls
<1>7. /\ accRow'[k.user].pw = n /\ accRow'[k.user].role = k.row.role
      /\ \A u \in AccUser \ {k.user} : accRow'[u] = accRow[u]
  BY <1>0, <1>2, <1>5, <1>m, <1>r DEF AccRows
<1>8. k.op \in {"register", "provision", "reset"} /\ k.row.role # "none"
  BY <1>r DEF Ruled, Staged
<1>9. HasAccount(k.user)' /\ \A u \in AccUser : HasAccount(u) => HasAccount(u)'
  BY <1>7, <1>8 DEF HasAccount
<1>10. Moves(c, new, kept, AdminOp)
  BY <1>5, <1>6, MovesOthers DEF Chain, Typed, MovedTo
<1>11. /\ new.pc = pc /\ new.op = k.op /\ new.user = k.user /\ new.pw = n
       /\ (pc = "access" /\ k.op = "register") \/ (pc = "revoke" /\ k.op \in {"provision", "reset"})
  BY <1>1, <1>6, <1>8 DEF MovedTo
<1>12. Ruled(new)'
  BY <1>11 DEF Ruled, Staged, Checked
<1>13. Paid(c, new)'
  BY <1>7, <1>9, <1>11 DEF Paid, Issues
<1>14. \A d \in AccRequest : Ruled(accCall[d])'
  BY <1>10, <1>12, RuledMoves
<1>15. \A t \in 1..MaxTokens : accToken'[t].live =>
         \/ TokenEnds(t)'
         \/ /\ accToken[t].live /\ accToken[t].user \notin kept
            /\ accToken'[t].user = accToken[t].user /\ accToken'[t].pw = accToken[t].pw
            /\ accToken[t].late => accToken'[t].late
  BY <1>5, <1>9, MarkedEnds
<1>16. \A u \in AccUser : u \notin kept /\ HasAccount(u) =>
         HasAccount(u)' /\ (accRow'[u].pw = accRow[u].pw \/ (new.pc = "revoke" /\ new.user = u))
  BY <1>4, <1>7, <1>9, <1>11
<1>17. (\A d \in AccRequest : Paid(d, accCall[d])') /\ (\A t \in 1..MaxTokens : TokenEnds(t)')
  BY <1>10, <1>13, <1>15, <1>16, <1>k, <1>r, PaidMoves
<1> QED  BY <1>14, <1>17 DEF Rooted

\* change_password goes on to revoke too.
LEMMA NewPasswordKeepsRoot ==
  ASSUME Chain, Rooted, NEW c \in AccRequest, NewPassword(c)
  PROVE  Rooted'
<1>0. accCall \in [AccRequest -> AccCalls] /\ accRow \in [AccUser -> AccRows]
  BY RootTypes
<1>k. PICK k : k = accCall[c]
  OBVIOUS
<1>p. "revoke" \in AccPc
  BY DEF AccPc
<1>r. k \in AccCalls /\ k.user \in AccUser /\ Ruled(k) /\ Paid(c, k) /\ k.pc = "newpw" /\ k.op = "change"
  BY <1>0, <1>k, RootTypes DEF Rooted, NewPassword, AccAt, HasUser, Ruled, Staged
<1>n. PICK n : n = accLastPw + 1
  OBVIOUS
<1>m. n \in 0..MaxPasswords
  <2>1. accLastPw \in 0..MaxPasswords /\ accLastPw < MaxPasswords
    BY DEF Chain, Typed, AccTypeOK, NewPassword
  <2> QED  BY <1>n, <2>1, AccAssumption
<1>1. PICK new : new = [k EXCEPT !.pc = "revoke", !.pw = n]
  OBVIOUS
<1>2. PICK row : row = [accRow[k.user] EXCEPT !.pw = n, !.must = FALSE, !.failures = 0, !.locked = FALSE]
  OBVIOUS
<1>3. /\ accCall' = [accCall EXCEPT ![c] = new] /\ UpdateRow(k.user, row) /\ UNCHANGED accToken
  BY <1>k, <1>n, <1>1, <1>2 DEF NewPassword
<1>4. MovedTo(new, k, "revoke") /\ new.pw = n
  BY <1>1, <1>m, <1>p, <1>r DEF MovedTo, AccCalls
<1>5. row.pw = n /\ row.role = accRow[k.user].role /\ row.enabled = accRow[k.user].enabled
  <2>1. accRow[k.user] \in AccRows
    BY <1>0, <1>r
  <2> QED  BY <1>2, <1>m, <2>1 DEF AccRows
<1>6. /\ (HasAccount(k.user) => accRow'[k.user] = row) /\ (~ HasAccount(k.user) => UNCHANGED accRow)
      /\ (\A u \in AccUser \ {k.user} : accRow'[u] = accRow[u])
  BY <1>0, <1>3, <1>r DEF UpdateRow, WriteRow
<1>7. RolesStay /\ \A u \in AccUser : HasAccount(u)' <=> HasAccount(u)
  BY <1>5, <1>6, RolesKept DEF RolesStay
<1>8. Moves(c, new, {}, {})
  BY <1>3, <1>4, MovesAlone DEF Chain, Typed, MovedTo
<1>9. new.pc = "revoke" /\ new.op = "change" /\ new.user = k.user /\ (k.late <=> new.late)
  BY <1>4, <1>r DEF MovedTo
<1>10. Ruled(new)'
  BY <1>9 DEF Ruled, Staged, Checked
<1>11. Paid(c, new)'
  <2>1. ~ k.late => HasAccount(k.user)
    BY <1>r DEF Paid
  <2>2. ~ new.late => HasAccount(new.user)' /\ new.pw = accRow'[new.user].pw
    BY <1>4, <1>5, <1>6, <1>7, <1>9, <1>r, <2>1
  <2> QED  BY <2>2 DEF Paid
<1>12. \A d \in AccRequest : Ruled(accCall[d])'
  BY <1>7, <1>8, <1>10, RuledMoves
<1>13. \A u \in AccUser : u \notin {} /\ HasAccount(u) =>
         HasAccount(u)' /\ (accRow'[u].pw = accRow[u].pw \/ (new.pc = "revoke" /\ new.user = u))
  BY <1>6, <1>7, <1>9
<1>14. (\A d \in AccRequest : Paid(d, accCall[d])') /\ (\A t \in 1..MaxTokens : TokenEnds(t)')
  BY <1>3, <1>8, <1>11, <1>13, <1>k, <1>r, PaidMoves
<1> QED  BY <1>12, <1>14 DEF Rooted

\* The role and the flag change, the password does not.
LEMMA UpdateProfileKeepsRoot ==
  ASSUME Chain, Rooted, NEW c \in AccRequest, UpdateProfile(c)
  PROVE  Rooted'
<1>0. accCall \in [AccRequest -> AccCalls] /\ accRow \in [AccUser -> AccRows]
  BY RootTypes
<1>k. PICK k : k = accCall[c]
  OBVIOUS
<1>p. "access" \in AccPc
  BY DEF AccPc
<1>r. /\ k \in AccCalls /\ k.user \in AccUser /\ Ruled(k) /\ k.pc = "update"
      /\ k.op = "provision" /\ k.row.role # "none" /\ k.pw \in 0..MaxPasswords
  BY <1>0, <1>k, RootTypes DEF Rooted, UpdateProfile, AccAt, HasUser, Ruled, Staged, AccCalls
<1>1. PICK new : new = [k EXCEPT !.pc = "access"]
  OBVIOUS
<1>2. PICK row : row = [accRow[k.user] EXCEPT !.role = k.row.role, !.enabled = k.row.enabled]
  OBVIOUS
<1>3. PICK passed : passed = IF HasAccount(k.user) THEN AdminOp ELSE {}
  OBVIOUS
<1>4. /\ AccMoves(c, new, {}, passed) /\ UpdateRow(k.user, row) /\ UNCHANGED accToken
  BY <1>k, <1>1, <1>2, <1>3 DEF UpdateProfile
<1>5. MovedTo(new, k, "access")
  BY <1>1, <1>p, <1>r, EntryMoves
<1>6. row.pw = accRow[k.user].pw /\ row.role = k.row.role
  <2>1. accRow[k.user] \in AccRows
    BY <1>0, <1>r
  <2> QED  BY <1>2, <2>1 DEF AccRows
<1>7. /\ (HasAccount(k.user) => accRow'[k.user] = row) /\ (~ HasAccount(k.user) => UNCHANGED accRow)
      /\ (\A u \in AccUser \ {k.user} : accRow'[u] = accRow[u])
  BY <1>0, <1>4, <1>r DEF UpdateRow, WriteRow
<1>8. (\A u \in AccUser : HasAccount(u)' <=> HasAccount(u)) /\ (\A u \in AccUser : accRow'[u].pw = accRow[u].pw)
  BY <1>6, <1>7, <1>r DEF HasAccount
<1>9. RolesStay \/ AdminOp \subseteq passed
  BY <1>3, <1>7 DEF RolesStay
<1>10. Moves(c, new, {}, passed)
  BY <1>4, <1>5, MovesOthers DEF Chain, Typed, MovedTo
<1>11. new.pc = "access" /\ new.op = "provision"
  BY <1>5, <1>r DEF MovedTo
<1>12. Ruled(new)' /\ Paid(c, new)'
  BY <1>11 DEF Ruled, Staged, Checked, Paid, Issues
<1>13. \A d \in AccRequest : Ruled(accCall[d])'
  BY <1>9, <1>10, <1>12, RuledMoves
<1>14. (\A d \in AccRequest : Paid(d, accCall[d])') /\ (\A t \in 1..MaxTokens : TokenEnds(t)')
  BY <1>4, <1>8, <1>10, <1>12, <1>k, <1>r, PaidMoves
<1> QED  BY <1>13, <1>14 DEF Rooted

\* The tokens go with the account.
LEMMA DeleteAccountKeepsRoot ==
  ASSUME Chain, Rooted, NEW c \in AccRequest, DeleteAccount(c)
  PROVE  Rooted'
<1>k. PICK k : k = accCall[c]
  OBVIOUS
<1>r. k.user \in AccUser /\ k.pc = "delete"
  BY <1>k, RootTypes DEF DeleteAccount, AccAt, HasUser
<1>1. /\ AccMoves(c, DoneCall, {k.user}, AdminOp) /\ accRow' = [accRow EXCEPT ![k.user] = NoRow]
      /\ EndSessions(k.user)
  BY <1>k DEF DeleteAccount, WriteRow
<1>2. \A u \in AccUser \ {k.user} : accRow'[u] = accRow[u] /\ (HasAccount(u)' <=> HasAccount(u))
  BY <1>1, RootTypes DEF HasAccount
<1>3. Moves(c, DoneCall, {k.user}, AdminOp)
  BY <1>1, DoneRules, MovesOthers DEF Chain, Typed
<1>4. \A d \in AccRequest : Ruled(accCall[d])'
  BY <1>3, DoneRules, RuledMoves
<1>5. \A t \in 1..MaxTokens : accToken'[t].live =>
        \/ TokenEnds(t)'
        \/ /\ accToken[t].live /\ accToken[t].user \notin {k.user}
           /\ accToken'[t].user = accToken[t].user /\ accToken'[t].pw = accToken[t].pw
           /\ accToken[t].late => accToken'[t].late
  BY <1>1, MarkedEnds
<1>6. (\A d \in AccRequest : Paid(d, accCall[d])') /\ (\A t \in 1..MaxTokens : TokenEnds(t)')
  BY <1>2, <1>3, <1>5, <1>k, <1>r, DoneRules, PaidMoves
<1> QED  BY <1>4, <1>6 DEF Rooted

\* No account, no token, no request.
LEMMA RootInit == AccInit => Rooted
<1> SUFFICES ASSUME AccInit PROVE Rooted
  OBVIOUS
<1>1. \A c \in AccRequest : accCall[c].pc = "idle" /\ accCall[c].op = "none"
  BY DEF AccInit, NoCall
<1>2. \A t \in 1..MaxTokens : ~ accToken[t].live
  BY DEF AccInit, NoToken
<1>4. \A c \in AccRequest : Ruled(accCall[c]) /\ Paid(c, accCall[c])
  BY <1>1 DEF Ruled, Staged, Checked, Paid, Issues
<1>5. \A t \in 1..MaxTokens : TokenEnds(t)
  BY <1>2 DEF TokenEnds
<1> QED  BY <1>4, <1>5 DEF Rooted

\* Every step keeps it.
LEMMA RootedStep ==
  ASSUME Chain, Rooted, [AccNext]_accVars
  PROVE  Rooted'
<1>0. Chain'
  BY ChainStep
<1>1. ASSUME NEW c \in AccRequest, AccBegin(c) PROVE Rooted'
  BY <1>0, <1>1, BeginKeepsRoot
<1>2. ASSUME NEW c \in AccRequest, AccStep(c) PROVE Rooted'
  <2>1. CASE PutAccount(c)
    BY <2>1, PutAccountKeepsRoot
  <2>2. CASE UpdateProfile(c)
    BY <2>2, UpdateProfileKeepsRoot
  <2>3. CASE NewPassword(c)
    BY <2>3, NewPasswordKeepsRoot
  <2>4. CASE Revoke(c)
    BY <2>4, RevokeKeepsRoot
  <2>5. CASE DeleteAccount(c)
    BY <2>5, DeleteAccountKeepsRoot
  <2>6. CASE Issue(c)
    BY <2>6, IssueKeepsRoot, PlainStepKeepsRoot
  <2>7. CASE \/ PutAccess(c) \/ DeleteAccess(c) \/ CountFailure(c) \/ RecordFailure(c)
             \/ RecordSuccess(c) \/ Reread(c)
    BY <2>7, PlainStepKeepsRoot
  <2>8. CASE Dies(c)
    BY <2>8, DiesKeepsRoot
  <2> QED  BY <1>2, <2>1, <2>2, <2>3, <2>4, <2>5, <2>6, <2>7, <2>8 DEF AccStep
<1> QED  BY <1>1, <1>2, OtherStepKeepsRoot DEF AccNext

\* A new password ends the sessions opened with an older one, but for those of requests that
\* were under way and of passwords whose request ended before it revoked or was a second
\* registration (change_password, reset_password and put_access_user revoke in a transaction
\* after the one that writes, Revoke and Dies).
THEOREM OldPasswordsEnd == AccSpec => []OldSessionsEnd
<1>1. AccInit => Chain /\ Rooted
  BY ChainInit, RootInit
<1>2. Chain /\ Rooted /\ [AccNext]_accVars => (Chain /\ Rooted)'
  BY ChainStep, RootedStep
<1>3. Rooted => OldSessionsEnd
  BY DEF Rooted, TokenEnds, OldSessionsEnd, AccAt
<1> QED  BY <1>1, <1>2, <1>3, PTL DEF AccSpec

\* An account whose row is written by a request that was not overtaken leaves an
\* administrator; who is one changes with such a write only.
LEMMA AdminStep ==
  ASSUME Chain, Rooted, [AccNext]_accVars, \E u \in AccUser : EnabledAdmin(u),
         ~ \E u \in AccUser : EnabledAdmin(u)'
  PROVE  \E c \in AccRequest : accCall[c].overtaken /\ accCall'[c] # accCall[c]
<1>0. /\ accCall \in [AccRequest -> AccCalls] /\ accRow \in [AccUser -> AccRows]
      /\ \A d \in AccRequest : HasUser(accCall[d]) /\ Ruled(accCall[d])
  BY RootTypes DEF Rooted
<1>1. ~ RolesStay
  BY RolesKept
<1>2. ASSUME NEW u \in AccUser, NEW row, accRow' = [accRow EXCEPT ![u] = row]
      PROVE  ~ AdminSurvives(u, row.role, row.enabled)
  <2>1. accRow'[u] = row /\ \A a \in AccUser \ {u} : accRow'[a] = accRow[a]
    BY <1>0, <1>2
  <2> SUFFICES ASSUME AdminSurvives(u, row.role, row.enabled) PROVE FALSE
    OBVIOUS
  <2>2. CASE row.role = "admin" /\ row.enabled
    BY <2>1, <2>2 DEF EnabledAdmin
  <2>3. CASE \E a \in AccUser \ {u} : EnabledAdmin(a)
    BY <2>1, <2>3 DEF EnabledAdmin
  <2>4. CASE accRow[u].role # "admin"
    BY <2>1, <2>4 DEF EnabledAdmin
  <2> QED  BY <2>2, <2>3, <2>4 DEF AdminSurvives
<1>3. ASSUME NEW c \in AccRequest, PutAccount(c)
      PROVE  accCall[c].overtaken /\ accCall'[c] # accCall[c]
  <2>k. PICK k : k = accCall[c]
    OBVIOUS
  <2>r. k.user \in AccUser /\ k.row \in AccRows /\ Ruled(k) /\ k.pc = "put" /\ k \in AccCalls
    BY <1>0, <1>3, <2>k DEF PutAccount, AccAt, HasUser, AccCalls
  <2>1. PICK row : row = [k.row EXCEPT !.pw = accLastPw + 1]
    OBVIOUS
  <2>2. accRow' = [accRow EXCEPT ![k.user] = row]
    BY <1>3, <2>1, <2>k DEF PutAccount, WriteRow
  <2>3. row.role = k.row.role /\ row.enabled = k.row.enabled
    BY <2>1, <2>r DEF AccRows
  <2>4. ~ AdminSurvives(k.user, row.role, row.enabled)
    BY <1>2, <2>2, <2>r
  <2>5. k.op # "register"
    BY <2>3, <2>4, <2>r DEF Ruled, Staged, AdminSurvives
  <2>6. ~ (row.role = accRow[k.user].role /\ row.enabled = accRow[k.user].enabled)
    BY <1>0, <1>1, <2>2, <2>r DEF RolesStay
  <2>7. k.overtaken
    BY <2>3, <2>4, <2>5, <2>6, <2>r DEF Ruled, Staged, Checked
  <2>8. accCall'[c].pc # "put"
    <3>1. PICK pc : pc = IF k.op = "register" THEN "access" ELSE "revoke"
      OBVIOUS
    <3>2. accCall'[c] = [k EXCEPT !.pc = pc, !.pw = accLastPw + 1]
      BY <1>3, <2>k, <3>1 DEF PutAccount, AccMoves
    <3>3. accCall'[c].pc = pc
      BY <2>r, <3>2 DEF AccCalls
    <3> QED  BY <3>1, <3>3
  <2> QED  BY <2>7, <2>8, <2>k, <2>r
<1>4. ASSUME NEW c \in AccRequest, UpdateProfile(c)
      PROVE  accCall[c].overtaken /\ accCall'[c] # accCall[c]
  <2>k. PICK k : k = accCall[c]
    OBVIOUS
  <2>r. k.user \in AccUser /\ Ruled(k) /\ k.pc = "update" /\ k \in AccCalls
    BY <1>0, <1>4, <2>k DEF UpdateProfile, AccAt, HasUser
  <2>1. PICK row : row = [accRow[k.user] EXCEPT !.role = k.row.role, !.enabled = k.row.enabled]
    OBVIOUS
  <2>2. accRow' = [accRow EXCEPT ![k.user] = row]
    <3>1. UNCHANGED accRow => RolesStay
      BY DEF RolesStay
    <3> QED  BY <1>1, <1>4, <2>1, <2>k, <3>1 DEF UpdateProfile, UpdateRow, WriteRow
  <2>3. accRow[k.user] \in AccRows
    BY <1>0, <2>r
  <2>4. row.role = k.row.role /\ row.enabled = k.row.enabled
    BY <2>1, <2>3 DEF AccRows
  <2>5. ~ AdminSurvives(k.user, k.row.role, k.row.enabled)
    BY <1>2, <2>2, <2>4, <2>r
  <2>6. k.overtaken
    BY <2>5, <2>r DEF Ruled, Staged, Checked
  <2>7. accCall'[c] = [k EXCEPT !.pc = "access"]
    BY <1>4, <2>k DEF UpdateProfile, AccMoves
  <2>8. accCall'[c].pc # "update"
    BY <2>7, <2>r DEF AccCalls
  <2> QED  BY <2>6, <2>8, <2>k, <2>r
<1>5. ASSUME NEW c \in AccRequest, DeleteAccount(c)
      PROVE  accCall[c].overtaken /\ accCall'[c] # accCall[c]
  <2>k. PICK k : k = accCall[c]
    OBVIOUS
  <2>r. k.user \in AccUser /\ Ruled(k) /\ k.pc = "delete" /\ accRow' = [accRow EXCEPT ![k.user] = NoRow]
        /\ accCall'[c] = DoneCall
    BY <1>0, <1>5, <2>k DEF DeleteAccount, WriteRow, AccAt, HasUser, AccMoves
  <2>1. ~ AdminSurvives(k.user, NoRow.role, NoRow.enabled)
    BY <1>2, <2>r
  <2>2. ~ AdminSurvives(k.user, "none", FALSE)
    BY <2>1 DEF NoRow
  <2> QED  BY <2>2, <2>k, <2>r, DoneRules DEF Ruled, Checked
<1>6. ASSUME NEW u \in AccUser, NEW row,
             UpdateRow(u, row), row.role = accRow[u].role, row.enabled = accRow[u].enabled
      PROVE  FALSE
  BY <1>0, <1>1, <1>6 DEF RolesStay, UpdateRow, WriteRow
<1>7. ASSUME NEW c \in AccRequest, NewPassword(c) \/ RecordFailure(c) \/ RecordSuccess(c)
      PROVE  FALSE
  <2>k. PICK k : k = accCall[c]
    OBVIOUS
  <2>r. k.user \in AccUser /\ accRow[k.user] \in AccRows
    BY <1>0, <1>7, <2>k DEF NewPassword, RecordFailure, RecordSuccess, AccAt, HasUser
  <2>3. CASE NewPassword(c)
    <3>1. PICK row : row = [accRow[k.user] EXCEPT !.pw = accLastPw + 1, !.must = FALSE,
                                                  !.failures = 0, !.locked = FALSE]
      OBVIOUS
    <3>2. UpdateRow(k.user, row)
      BY <2>3, <2>k, <3>1 DEF NewPassword
    <3>3. row.role = accRow[k.user].role /\ row.enabled = accRow[k.user].enabled
      BY <2>r, <3>1 DEF AccRows
    <3> QED  BY <1>6, <2>r, <3>2, <3>3
  <2>4. CASE RecordFailure(c)
    <3>1. PICK n : n = IF k.row.failures < MaxFailures THEN k.row.failures + 1 ELSE MaxFailures
      OBVIOUS
    <3>2. PICK row : row = [accRow[k.user] EXCEPT !.failures = n, !.locked = (n = MaxFailures)]
      OBVIOUS
    <3>3. UpdateRow(k.user, row)
      BY <2>4, <2>k, <3>1, <3>2 DEF RecordFailure
    <3>4. row.role = accRow[k.user].role /\ row.enabled = accRow[k.user].enabled
      BY <2>r, <3>2 DEF AccRows
    <3> QED  BY <1>6, <2>r, <3>3, <3>4
  <2>5. CASE RecordSuccess(c)
    <3>1. PICK row : row = [accRow[k.user] EXCEPT !.failures = 0, !.locked = FALSE]
      OBVIOUS
    <3>2. UpdateRow(k.user, row)
      BY <2>5, <2>k, <3>1 DEF RecordSuccess
    <3>3. row.role = accRow[k.user].role /\ row.enabled = accRow[k.user].enabled
      BY <2>r, <3>1 DEF AccRows
    <3> QED  BY <1>6, <2>r, <3>2, <3>3
  <2> QED  BY <1>7, <2>3, <2>4, <2>5
<1>8. ASSUME NEW u \in AccUser, LockExpires(u) PROVE FALSE
  BY <1>0, <1>1, <1>8 DEF LockExpires, WriteRow, RolesStay, AccRows
<1>9. ~ UNCHANGED accRow
  BY <1>1 DEF RolesStay
<1>10. ASSUME NEW c \in AccRequest, AccStep(c)
       PROVE  accCall[c].overtaken /\ accCall'[c] # accCall[c]
  <2>1. CASE Revoke(c) \/ PutAccess(c) \/ DeleteAccess(c) \/ CountFailure(c) \/ Reread(c) \/ Issue(c)
             \/ Dies(c)
    BY <1>9, <2>1 DEF Revoke, PutAccess, DeleteAccess, CountFailure, Reread, Issue, Dies
  <2> QED  BY <1>3, <1>4, <1>5, <1>7, <1>10, <2>1 DEF AccStep
<1>11. ASSUME NEW c \in AccRequest, AccBegin(c) PROVE UNCHANGED accRow
  <2>1. \A u \in AccUser : Register(c, u) \/ DeleteUser(c, u) \/ Reset(c, u) \/ ChangePassword(c, u)
          => UNCHANGED accRow
    BY DEF Register, DeleteUser, Reset, ChangePassword
  <2>2. \A u \in AccUser, role \in {"admin", "member"}, enabled, temporary \in BOOLEAN :
          Provision(c, u, role, enabled, temporary) => UNCHANGED accRow
    BY DEF Provision
  <2>3. \A u \in AccUser, pw \in 1..accLastPw : Login(c, u, pw) => UNCHANGED accRow
    BY DEF Login
  <2>4. \A t \in 1..MaxTokens : Refresh(c, t) => UNCHANGED accRow
    BY DEF Refresh
  <2> QED  BY <1>11, <2>1, <2>2, <2>3, <2>4 DEF AccBegin
<1>12. ASSUME NEW t \in 1..MaxTokens, Logout(t) PROVE UNCHANGED accRow
  BY <1>12 DEF Logout
<1>13. UNCHANGED accVars => UNCHANGED accRow
  BY DEF accVars
<1> QED  BY <1>8, <1>9, <1>10, <1>11, <1>12, <1>13 DEF AccNext

\* An enabled administrator remains, unless a request writes by what it checked before
\* another one changed the accounts: ensure_admin_survives and the write it allows are
\* transactions of their own.
THEOREM AnAdminStays == AccSpec => AdminRemains
<1>1. AccInit => Chain /\ Rooted
  BY ChainInit, RootInit
<1>2. Chain /\ Rooted /\ [AccNext]_accVars => (Chain /\ Rooted)'
  BY ChainStep, RootedStep
<1>3. Chain /\ Rooted /\ [AccNext]_accVars
        => [(\E u \in AccUser : EnabledAdmin(u)) /\ ~ (\E u \in AccUser : EnabledAdmin(u))'
             => \E c \in AccRequest : accCall[c].overtaken /\ accCall'[c] # accCall[c]]_accVars
  BY AdminStep
<1> QED  BY <1>1, <1>2, <1>3, PTL DEF AccSpec, AdminRemains

---------------------------------------------------------------------------
(* Permission rules: the inductive invariant *)

InRule(g, t, r) == acRule[r].here /\ acRule[r].group = g /\ t \in acRule[r].tools

\* An assignment is one of a rule that is there, in its group unless the rule is loose ...
Assigned ==
  \A g \in AcGroup, t \in AcTool, r \in AcRule :
    <<g, t, r>> \in acAssign => /\ g \in acGroup /\ acRule[r].here
                                /\ r \notin acLoose => InRule(g, t, r)

\* ... and a rule that is not loose has all of them.
Complete ==
  \A g \in AcGroup, t \in AcTool, r \in AcRule :
    r \notin acLoose /\ InRule(g, t, r) => <<g, t, r>> \in acAssign

\* The primary key of the assignments.
Keyed ==
  \A g \in AcGroup, t \in AcTool : \A r, s \in AcRule :
    <<g, t, r>> \in acAssign /\ <<g, t, s>> \in acAssign => r = s

\* The foreign keys.
Grounded ==
  /\ \A u \in AcUser, g \in AcGroup : <<u, g>> \in acMember => u \in acUser /\ g \in acGroup
  /\ \A g \in AcGroup, t \in AcTool : <<g, t>> \in acGrant => g \in acGroup
  /\ \A r \in AcRule : acRule[r].group \in acGroup \cup {NoGroup}

\* A rule that is not in the table is in no group.
Blank == \A r \in AcRule : ~ acRule[r].here => acRule[r] = NoRule

\* A transaction that moves a rule has deleted assignments of this rule only; as long as
\* nobody wrote the rule it knows its tools and has deleted all its assignments.
MovesRule(m) ==
  LET v == acMove[m] IN
  v.op # "none" =>
    /\ v.rule \in AcRule /\ v.group \in AcGroup
    /\ \A g \in AcGroup, t \in AcTool, r \in AcRule : <<g, t, r>> \in v.gone => r = v.rule
    /\ v.raced \/ v.op = "unbound" \/ v.tools = acRule[v.rule].tools
    /\ v.raced \/ v.op = "bind"
         \/ \A g \in AcGroup, t \in AcTool : <<g, t, v.rule>> \in acAssign => <<g, t, v.rule>> \in v.gone

Moving == \A m \in AcMover : MovesRule(m)

Tables == AcTypeOK /\ Assigned /\ Complete /\ Keyed /\ Grounded /\ Blank /\ Moving

---------------------------------------------------------------------------
(* Permission rules: steps *)

\* The values the tables start from.
LEMMA Nothings ==
  /\ NoRule \in AcRuleRow /\ NoRule.here = FALSE /\ NoRule.group = NoGroup /\ NoRule.tools = {}
  /\ NoSave \in AcSave
  /\ NoMoving \in AcMoving /\ NoMoving.op = "none" /\ NoMoving.rule = 0 /\ NoMoving.gone = {}
BY AcAssumption DEF NoRule, AcRuleRow, NoSave, AcSave, NoMoving, AcMoving

\* Nothing there.
LEMMA TablesInit == AcInit => Tables
<1> SUFFICES ASSUME AcInit PROVE Tables
  OBVIOUS
<1>1. AcTypeOK
  <2>1. acAsked \in 0..AcRequests
    BY AcAssumption DEF AcInit
  <2> QED BY <2>1, Nothings DEF AcInit, AcTypeOK
<1>2. Assigned /\ Complete /\ Keyed /\ Grounded /\ Blank
  BY Nothings DEF AcInit, Assigned, Complete, InRule, Keyed, Grounded, Blank
<1>3. Moving
  BY Nothings DEF AcInit, Moving, MovesRule
<1> QED BY <1>1, <1>2, <1>3 DEF Tables

\* The transactions that move the rules rs were overtaken, and one may have ended.
Overtaken(rs) == acMove' = Raced(rs) \/ \E m \in AcMover : MoveEnds(m, rs)

\* The transactions that move other rules go on.
LEMMA OthersGoOn ==
  ASSUME Tables, NEW rs \in SUBSET AcRule,
         \A r \in AcRule \ rs : acRule'[r].tools = acRule[r].tools,
         \A g \in AcGroup, t \in AcTool, r \in AcRule \ rs :
           <<g, t, r>> \in acAssign' => <<g, t, r>> \in acAssign,
         Overtaken(rs)
  PROVE  acMove' \in [AcMover -> AcMoving] /\ Moving'
<1> DEFINE R == Raced(rs)
<1>1. ASSUME NEW n \in AcMover
      PROVE  /\ R[n] \in AcMoving /\ R[n].op = acMove[n].op /\ R[n].rule = acMove[n].rule
             /\ R[n].group = acMove[n].group /\ R[n].tools = acMove[n].tools /\ R[n].gone = acMove[n].gone
             /\ R[n].raced \/ (acMove[n].rule \notin rs /\ R[n] = acMove[n])
  <2>1. acMove[n] \in AcMoving
    BY DEF Tables, AcTypeOK
  <2>2. CASE acMove[n].rule \in rs
    <3>1. R[n] = [acMove[n] EXCEPT !.raced = TRUE]
      BY <2>2 DEF Raced
    <3> QED BY <2>1, <3>1 DEF AcMoving
  <2>3. CASE acMove[n].rule \notin rs
    <3>1. R[n] = acMove[n]
      BY <2>3 DEF Raced
    <3> QED BY <2>1, <2>3, <3>1
  <2> QED BY <2>2, <2>3
<1>2. R \in [AcMover -> AcMoving]
  <2>1. R = [n \in AcMover |-> R[n]]
    BY DEF Raced
  <2> QED BY <1>1, <2>1
<1>3. \A n \in AcMover : acMove'[n] = R[n] \/ acMove'[n] = NoMoving
  <2>1. ASSUME NEW m \in AcMover, acMove' = [R EXCEPT ![m] = NoMoving], NEW n \in AcMover
        PROVE  acMove'[n] = R[n] \/ acMove'[n] = NoMoving
    BY <2>1, <1>2
  <2> QED BY <2>1 DEF MoveEnds, Overtaken
<1>4. acMove' \in [AcMover -> AcMoving]
  BY <1>2, Nothings DEF MoveEnds, Overtaken
<1>5. ASSUME NEW n \in AcMover, acMove'[n].op # "none" PROVE MovesRule(n)'
  <2>1. acMove'[n] = R[n]
    BY <1>3, <1>5, Nothings
  <2> HIDE DEF R
  <2> DEFINE v == acMove[n]
             w == acMove'[n]
  <2>2. MovesRule(n) /\ v.op # "none"
    BY <1>1, <1>5, <2>1 DEF Tables, Moving
  <2>3. /\ w.rule \in AcRule /\ w.group \in AcGroup
        /\ \A g \in AcGroup, t \in AcTool, r \in AcRule : <<g, t, r>> \in w.gone => r = w.rule
    BY <1>1, <2>1, <2>2 DEF MovesRule
  <2>4. CASE w.raced
    BY <2>3, <2>4 DEF MovesRule
  <2>5. CASE ~ w.raced
    <3>1. w = v /\ v.rule \in AcRule \ rs /\ ~ v.raced
      BY <1>1, <2>1, <2>3, <2>5
    <3>2. w.op = "unbound" \/ w.tools = acRule'[w.rule].tools
      BY <2>2, <3>1 DEF MovesRule
    <3>3. w.op = "bind" \/ \A g \in AcGroup, t \in AcTool : <<g, t, w.rule>> \in acAssign' => <<g, t, w.rule>> \in w.gone
      BY <2>2, <3>1 DEF MovesRule
    <3> QED BY <2>3, <3>2, <3>3 DEF MovesRule
  <2> QED BY <2>4, <2>5
<1> QED BY <1>4, <1>5 DEF Moving, MovesRule

\* The same when no rule is written.
LEMMA AllGoOn ==
  ASSUME Tables, UNCHANGED <<acRule, acMove>>, acAssign' \subseteq acAssign
  PROVE  Moving'
BY DEF Tables, Moving, MovesRule

\* A step on users: the rules are left alone.
LEMMA UserStep ==
  ASSUME Tables, NEW u \in AcUser, UserRequest(u), acAsked' \in 0..AcRequests
  PROVE  Tables'
<1>0. Moving'
  <2>1. UNCHANGED <<acRule, acMove, acAssign>>
    BY DEF UserRequest, PutUser, RemoveUser, BindUser, UnbindUser
  <2> QED BY <2>1, AllGoOn
<1>n. SUFFICES AcTypeOK' /\ Assigned' /\ Complete' /\ Keyed' /\ Grounded' /\ Blank'
  BY <1>0 DEF Tables
<1> USE DEF Tables, AcTypeOK, Assigned, Complete, InRule, Keyed, Grounded, Blank
<1>1. CASE PutUser(u)
  BY <1>1 DEF PutUser
<1>2. CASE RemoveUser(u)
  BY <1>2 DEF RemoveUser
<1>3. ASSUME NEW g \in AcGroup, BindUser(u, g) PROVE AcTypeOK' /\ Assigned' /\ Complete' /\ Keyed' /\ Grounded' /\ Blank'
  BY <1>3 DEF BindUser
<1>4. ASSUME NEW g \in AcGroup, UnbindUser(u, g) PROVE AcTypeOK' /\ Assigned' /\ Complete' /\ Keyed' /\ Grounded' /\ Blank'
  BY <1>4 DEF UnbindUser
<1> QED BY <1>1, <1>2, <1>3, <1>4 DEF UserRequest

\* A step on a group: with it go its rules, assignments, grants and members.
LEMMA GroupStep ==
  ASSUME Tables, NEW g \in AcGroup, GroupRequest(g), acAsked' \in 0..AcRequests
  PROVE  Tables'
<1>1. CASE PutGroup(g)
  <2>1. Moving'
    BY <1>1, AllGoOn DEF PutGroup
  <2> QED BY <1>1, <2>1 DEF PutGroup, Tables, AcTypeOK, Assigned, Complete, InRule, Keyed, Grounded, Blank
<1>2. CASE DeleteGroup(g)
  <2> DEFINE gone == RulesOf(g)
  <2>1. /\ acGroup' = acGroup \ {g} /\ UNCHANGED <<acUser, acCall>> /\ acLoose' = acLoose \ gone
        /\ \A r \in AcRule : acRule'[r] = IF acRule[r].here /\ acRule[r].group = g THEN NoRule ELSE acRule[r]
        /\ \A r \in AcRule : r \in gone <=> acRule[r].here /\ acRule[r].group = g
        /\ Overtaken(gone) /\ gone \in SUBSET AcRule
    BY <1>2, AcAssumption DEF DeleteGroup, RulesOf, Overtaken
  <2>2. \A h \in AcGroup, t \in AcTool, r \in AcRule :
          <<h, t, r>> \in acAssign' <=>
            <<h, t, r>> \in acAssign /\ h # g /\ ~ (acRule[r].here /\ acRule[r].group = g)
    BY <1>2 DEF DeleteGroup, RulesOf
  <2>3. acMove' \in [AcMover -> AcMoving] /\ Moving'
    <3> HIDE DEF gone
    <3> QED BY <2>1, <2>2, OthersGoOn
  <2>4. AcTypeOK'
    BY <1>2, <2>1, <2>3, Nothings DEF DeleteGroup, Tables, AcTypeOK
  <2>5. Assigned' /\ Complete'
    <3> HIDE DEF gone
    <3> QED BY <2>1, <2>2, Nothings DEF Tables, AcTypeOK, Assigned, Complete, InRule
  <2>6. Keyed' /\ Blank'
    BY <2>1, <2>2 DEF Tables, AcTypeOK, Keyed, Blank
  <2>7. Grounded'
    <3>1. \A r \in AcRule : acRule'[r].group \in acGroup' \cup {NoGroup}
      BY <2>1, Nothings, AcAssumption DEF Tables, Grounded, Blank, AcTypeOK
    <3> QED BY <1>2, <3>1 DEF DeleteGroup, Tables, Grounded
  <2> QED BY <2>3, <2>4, <2>5, <2>6, <2>7 DEF Tables
<1>3. ASSUME NEW tools \in SUBSET AcTool, SetGroupTools(g, tools) PROVE Tables'
  <2>1. Moving'
    BY <1>3, AllGoOn DEF SetGroupTools
  <2> QED BY <1>3, <2>1 DEF SetGroupTools, Tables, AcTypeOK, Assigned, Complete, InRule, Keyed, Grounded, Blank
<1> QED BY <1>1, <1>2, <1>3 DEF GroupRequest

\* A rule is written with its group and tools, and its assignments are replaced.
LEMMA RuleWritten ==
  ASSUME Tables, NEW r \in AcRule, NEW g \in acGroup, NEW tools \in SUBSET AcTool,
         NEW row \in AcRuleRow, row.here = TRUE, row.group = g, row.tools = tools,
         Unique(g, tools, r),
         acRule' = [acRule EXCEPT ![r] = row],
         acAssign' = (acAssign \ AssignedBy(r)) \cup Assignments(g, tools, r),
         acGrant' = acGrant \cup ({g} \X tools), acLoose' = acLoose \ {r},
         Overtaken({r}),
         acCall' \in [AcRequest -> AcSave], acAsked' \in 0..AcRequests,
         UNCHANGED <<acUser, acGroup, acMember>>
  PROVE  Tables'
<1>0. g \in AcGroup
  BY DEF Tables, AcTypeOK
<1>1. /\ acAssign' \subseteq AcGroup \X AcTool \X AcRule
      /\ \A h \in AcGroup, t \in AcTool, s \in AcRule :
           <<h, t, s>> \in acAssign' <=> IF s = r THEN h = g /\ t \in tools ELSE <<h, t, s>> \in acAssign
  BY <1>0 DEF AssignedBy, Assignments, Tables, AcTypeOK
<1>2. /\ acRule'[r].here = TRUE /\ acRule'[r].group = g /\ acRule'[r].tools = tools
      /\ \A s \in AcRule : s # r => acRule'[s] = acRule[s]
  BY DEF Tables, AcTypeOK
<1>m. acMove' \in [AcMover -> AcMoving] /\ Moving'
  <2>1. {r} \in SUBSET AcRule /\ \A s \in AcRule \ {r} : acRule'[s].tools = acRule[s].tools
    BY <1>2
  <2>2. \A h \in AcGroup, t \in AcTool, s \in AcRule \ {r} : <<h, t, s>> \in acAssign' => <<h, t, s>> \in acAssign
    BY <1>1
  <2> QED BY <2>1, <2>2, OthersGoOn
<1>3. AcTypeOK'
  BY <1>0, <1>1, <1>m DEF Tables, AcTypeOK
<1>4. Assigned' /\ Complete'
  <2>1. \A h \in AcGroup, t \in AcTool : <<h, t, r>> \in acAssign' <=> InRule(h, t, r)'
    BY <1>1, <1>2 DEF InRule
  <2>2. \A h \in AcGroup, t \in AcTool, s \in AcRule :
          s # r => /\ <<h, t, s>> \in acAssign' <=> <<h, t, s>> \in acAssign
                   /\ InRule(h, t, s)' <=> InRule(h, t, s)
                   /\ acRule'[s].here <=> acRule[s].here
                   /\ s \in acLoose' <=> s \in acLoose
    BY <1>1, <1>2 DEF InRule
  <2>3. Assigned'
    <3> SUFFICES ASSUME NEW h \in AcGroup, NEW t \in AcTool, NEW s \in AcRule, <<h, t, s>> \in acAssign'
                 PROVE  h \in acGroup' /\ acRule'[s].here /\ (s \notin acLoose' => InRule(h, t, s)')
      BY DEF Assigned
    <3>1. CASE s = r
      BY <3>1, <1>1, <1>2, <2>1
    <3>2. CASE s # r
      BY <3>2, <2>2 DEF Tables, Assigned
    <3> QED BY <3>1, <3>2
  <2>4. Complete'
    <3> SUFFICES ASSUME NEW h \in AcGroup, NEW t \in AcTool, NEW s \in AcRule, s \notin acLoose', InRule(h, t, s)'
                 PROVE  <<h, t, s>> \in acAssign'
      BY DEF Complete
    <3>1. CASE s = r
      BY <3>1, <2>1
    <3>2. CASE s # r
      BY <3>2, <2>2 DEF Tables, Complete
    <3> QED BY <3>1, <3>2
  <2> QED BY <2>3, <2>4
<1>5. Keyed'
  <2>1. \A t \in tools, s \in AcRule : <<g, t, s>> \in acAssign => s = r
    BY DEF Unique
  <2> QED BY <1>0, <1>1, <2>1 DEF Tables, Keyed
<1>6. Grounded' /\ Blank'
  BY <1>0, <1>2 DEF Tables, Grounded, Blank
<1> QED BY <1>m, <1>3, <1>4, <1>5, <1>6 DEF Tables

\* A rule is saved after its check.
LEMMA SaveStep ==
  ASSUME Tables, NEW c \in AcRequest, PutRule(c), acAsked' \in 0..AcRequests
  PROVE  Tables'
<1> DEFINE r == acCall[c].rule
           g == acCall[c].group
           tools == acCall[c].tools
<1>1. r \in AcRule /\ tools \in SUBSET AcTool /\ acCall' \in [AcRequest -> AcSave]
  BY Nothings, AcAssumption DEF PutRule, Tables, AcTypeOK, AcSave, AcRule
<1>2. CASE g \in acGroup /\ Unique(g, tools, r)
  <2> DEFINE row == [here |-> TRUE, group |-> g, tools |-> tools]
  <2>1. row \in AcRuleRow /\ row.here = TRUE /\ row.group = g /\ row.tools = tools /\ g \in AcGroup
    BY <1>1, <1>2 DEF AcRuleRow, Tables, AcTypeOK
  <2>2. Saved(r, g, tools)
    BY <1>2 DEF PutRule
  <2>3. acRule' = [acRule EXCEPT ![r] = row] /\ Overtaken({r}) /\ acLoose' = acLoose \ {r}
        /\ acGrant' = acGrant \cup ({g} \X tools)
        /\ acAssign' = (acAssign \ AssignedBy(r)) \cup Assignments(g, tools, r)
    BY <2>2 DEF Saved, Overtaken
  <2>6. UNCHANGED <<acUser, acGroup, acMember>>
    BY DEF PutRule
  <2> HIDE DEF row, r, g, tools
  <2> QED BY <1>1, <1>2, <2>1, <2>3, <2>6, RuleWritten
<1>3. CASE ~ (g \in acGroup /\ Unique(g, tools, r))
  <2>1. UNCHANGED <<acRule, acAssign, acGrant, acMove, acLoose, acUser, acGroup, acMember>>
    BY <1>3 DEF PutRule
  <2>2. Moving'
    BY <2>1, AllGoOn
  <2> QED BY <1>1, <2>1, <2>2 DEF Tables, AcTypeOK, Assigned, Complete, InRule, Keyed, Grounded, Blank
<1> QED BY <1>2, <1>3

\* A transaction that was rolled back, or found nothing to write.
LEMMA MoveDropped ==
  ASSUME Tables, NEW m \in AcMover, MoveEnds(m, {}), acAsked' \in 0..AcRequests,
         UNCHANGED <<acUser, acGroup, acRule, acAssign, acGrant, acMember, acCall, acLoose>>
  PROVE  Tables'
<1>1. acMove' \in [AcMover -> AcMoving] /\ Moving'
  <2>1. {} \in SUBSET AcRule /\ Overtaken({})
    BY DEF Overtaken
  <2> QED BY <2>1, OthersGoOn
<1> QED BY <1>1 DEF Tables, AcTypeOK, Assigned, Complete, InRule, Keyed, Grounded, Blank

\* A rule that is bound to a group: it has the assignments of its tools, unless it was
\* written since they were read.
LEMMA BoundStep ==
  ASSUME Tables, NEW m \in AcMover, WriteBound(m), acAsked' \in 0..AcRequests
  PROVE  Tables'
<1> DEFINE v == acMove[m]
           r == acMove[m].rule
           g == acMove[m].group
           tools == acMove[m].tools
           kept == acAssign \ acMove[m].gone
           met == {a \in kept : a[1] = g /\ a[2] \in tools}
<1>1. v \in AcMoving /\ v.op = "bound" /\ MovesRule(m)
  BY DEF WriteBound, Tables, AcTypeOK, Moving
<1>2. r \in AcRule /\ g \in AcGroup /\ tools \in SUBSET AcTool
  BY <1>1 DEF MovesRule, AcMoving
<1>3. CASE ~ (acRule[r].here /\ g \in acGroup /\ met = {})
  BY <1>3, MoveDropped DEF WriteBound
<1>4. CASE acRule[r].here /\ g \in acGroup /\ met = {}
  <2> DEFINE row == [acRule[r] EXCEPT !.group = g]
  <2>1. /\ row \in AcRuleRow /\ row.here = TRUE /\ row.group = g /\ row.tools = acRule[r].tools
        /\ acRule' = [acRule EXCEPT ![r] = row]
    BY <1>2, <1>4 DEF WriteBound, Tables, AcTypeOK, AcRuleRow
  <2>2. /\ acAssign' = kept \cup Assignments(g, tools, r)
        /\ acGrant' = acGrant \cup ({g} \X tools) /\ Overtaken({r})
        /\ UNCHANGED <<acUser, acGroup, acMember, acCall>>
    BY <1>4 DEF WriteBound, Overtaken
  <2>3. acAssign' \subseteq AcGroup \X AcTool \X AcRule
    BY <1>2, <2>2 DEF Assignments, Tables, AcTypeOK
  <2>4. \A h \in AcGroup, t \in AcTool, s \in AcRule :
          s # r => (<<h, t, s>> \in acAssign' <=> <<h, t, s>> \in acAssign)
    BY <1>1, <2>2 DEF MovesRule, Assignments
  <2>5. \A t \in tools, s \in AcRule : <<g, t, s>> \in acAssign => s = r
    <3> SUFFICES ASSUME NEW t \in tools, NEW s \in AcRule, <<g, t, s>> \in acAssign, s # r
                 PROVE  FALSE
      OBVIOUS
    <3>1. <<g, t, s>> \in kept
      BY <1>1, <1>2 DEF MovesRule
    <3> QED BY <1>4, <3>1
  <2>6. CASE v.raced
    <3>1. acLoose' = acLoose \cup {r}
      BY <1>4, <2>6 DEF WriteBound
    <3>2. /\ acRule'[r].here /\ acRule'[r].group = g
          /\ \A s \in AcRule : s # r => acRule'[s] = acRule[s]
          /\ \A s \in AcRule : acRule'[s].tools = acRule[s].tools /\ (acRule[s].here => acRule'[s].here)
      BY <1>2, <2>1 DEF Tables, AcTypeOK
    <3>3. acMove' \in [AcMover -> AcMoving] /\ Moving'
      <4>1. {r} \in SUBSET AcRule /\ \A s \in AcRule \ {r} : acRule'[s].tools = acRule[s].tools
        BY <1>2, <3>2
      <4>2. \A h \in AcGroup, t \in AcTool, s \in AcRule \ {r} : <<h, t, s>> \in acAssign' => <<h, t, s>> \in acAssign
        BY <2>4
      <4> QED BY <2>2, <4>1, <4>2, OthersGoOn
    <3>4. AcTypeOK'
      <4>1. acRule' \in [AcRule -> AcRuleRow]
        BY <2>1 DEF Tables, AcTypeOK
      <4> QED BY <1>2, <1>4, <2>2, <2>3, <3>1, <3>3, <4>1 DEF Tables, AcTypeOK
    <3>5. \A h \in AcGroup, t \in AcTool : <<h, t, r>> \in acAssign' => <<h, t, r>> \in acAssign \/ (h = g /\ t \in tools)
      BY <2>2 DEF Assignments
    <3>6. Assigned'
      <4> SUFFICES ASSUME NEW h \in AcGroup, NEW t \in AcTool, NEW s \in AcRule, <<h, t, s>> \in acAssign'
                   PROVE  h \in acGroup' /\ acRule'[s].here /\ (s \notin acLoose' => InRule(h, t, s)')
        BY DEF Assigned
      <4>1. CASE s = r
        BY <4>1, <1>4, <2>2, <3>1, <3>2, <3>5 DEF Tables, Assigned
      <4>2. CASE s # r
        BY <4>2, <2>2, <2>4, <3>1, <3>2 DEF Tables, Assigned, InRule
      <4> QED BY <4>1, <4>2
    <3>7. Complete'
      BY <2>4, <3>1, <3>2 DEF Tables, Complete, InRule
    <3>8. Keyed'
      <4> SUFFICES ASSUME NEW h \in AcGroup, NEW t \in AcTool, NEW p \in AcRule, NEW q \in AcRule,
                          <<h, t, p>> \in acAssign', <<h, t, q>> \in acAssign', p # q
                   PROVE  FALSE
        BY DEF Keyed
      <4>1. <<h, t, p>> \in acAssign \/ (p = r /\ h = g /\ t \in tools)
        BY <2>4, <3>5
      <4>2. <<h, t, q>> \in acAssign \/ (q = r /\ h = g /\ t \in tools)
        BY <2>4, <3>5
      <4> QED BY <2>5, <4>1, <4>2 DEF Tables, Keyed
    <3>9. Grounded' /\ Blank'
      BY <1>2, <1>4, <2>2, <3>2 DEF Tables, Grounded, Blank
    <3> QED BY <3>3, <3>4, <3>6, <3>7, <3>8, <3>9 DEF Tables
  <2>7. CASE ~ v.raced
    <3>1. acLoose' = acLoose \ {r} /\ tools = acRule[r].tools
      BY <1>1, <1>4, <2>7 DEF WriteBound, MovesRule
    <3>2. \A h \in AcGroup, t \in AcTool : <<h, t, r>> \in acAssign => <<h, t, r>> \in v.gone
      BY <1>1, <2>7 DEF MovesRule
    <3>3. acAssign' = (acAssign \ AssignedBy(r)) \cup Assignments(g, tools, r)
      <4>1. \A a \in acAssign : a \in kept <=> a \notin AssignedBy(r)
        BY <1>1, <1>2, <3>2 DEF MovesRule, AssignedBy, Tables, AcTypeOK
      <4> QED BY <2>2, <4>1 DEF AssignedBy
    <3>4. acCall' \in [AcRequest -> AcSave]
      BY <2>2 DEF Tables, AcTypeOK
    <3>5. Unique(g, tools, r)
      BY <1>2, <2>5 DEF Unique, Tables, AcTypeOK
    <3>6. row.tools = tools
      BY <2>1, <3>1
    <3> HIDE DEF row, r, g, tools, kept, met, v
    <3> QED BY <1>2, <1>4, <2>1, <2>2, <3>1, <3>3, <3>4, <3>5, <3>6, RuleWritten
  <2> QED BY <2>6, <2>7
<1> QED BY <1>3, <1>4

\* A rule leaves its group, or loses assignments only: it has none left, or is loose.
LEMMA RuleLeaves ==
  ASSUME Tables, NEW r \in AcRule, NEW row \in AcRuleRow,
         acRule' = [acRule EXCEPT ![r] = row],
         row.group = NoGroup \/ row.group = acRule[r].group,
         ~ row.here => row = NoRule,
         row = NoRule \/ (row.tools = acRule[r].tools /\ (acRule[r].here => row.here)),
         acAssign' \subseteq acAssign,
         \A h \in AcGroup, t \in AcTool, s \in AcRule :
           s # r => (<<h, t, s>> \in acAssign' <=> <<h, t, s>> \in acAssign),
         \/ /\ acLoose' = acLoose \ {r} /\ row.group = NoGroup
            /\ \A h \in AcGroup, t \in AcTool : <<h, t, r>> \notin acAssign'
         \/ acLoose' = acLoose \cup {r} /\ row # NoRule
         \/ acLoose' = acLoose \cup {r} /\ row = acRule[r],
         Overtaken({r}),
         acAsked' \in 0..AcRequests,
         UNCHANGED <<acUser, acGroup, acGrant, acMember, acCall>>
  PROVE  Tables'
<1>1. /\ acRule'[r] = row /\ \A s \in AcRule : s # r => acRule'[s] = acRule[s]
      /\ \A h \in AcGroup : h # NoGroup
  BY AcAssumption DEF Tables, AcTypeOK
<1>2. acMove' \in [AcMover -> AcMoving] /\ Moving'
  <2>1. {r} \in SUBSET AcRule /\ \A s \in AcRule \ {r} : acRule'[s].tools = acRule[s].tools
    BY <1>1
  <2>2. \A h \in AcGroup, t \in AcTool, s \in AcRule \ {r} : <<h, t, s>> \in acAssign' => <<h, t, s>> \in acAssign
    OBVIOUS
  <2> QED BY <2>1, <2>2, OthersGoOn
<1>3. AcTypeOK'
  <2>1. acRule' \in [AcRule -> AcRuleRow] /\ acLoose' \subseteq AcRule
    BY DEF Tables, AcTypeOK
  <2> QED BY <1>2, <2>1 DEF Tables, AcTypeOK
<1>4. Grounded' /\ Blank'
  BY <1>1 DEF Tables, AcTypeOK, Grounded, Blank
<1>5. Keyed'
  BY DEF Tables, Keyed
<1>6. \A s \in AcRule : s # r => (s \in acLoose' <=> s \in acLoose)
  OBVIOUS
<1>7. Assigned'
  <2> SUFFICES ASSUME NEW h \in AcGroup, NEW t \in AcTool, NEW s \in AcRule, <<h, t, s>> \in acAssign'
               PROVE  h \in acGroup' /\ acRule'[s].here /\ (s \notin acLoose' => InRule(h, t, s)')
    BY DEF Assigned
  <2>1. <<h, t, s>> \in acAssign
    OBVIOUS
  <2>2. CASE s = r
    <3>1. acLoose' = acLoose \cup {r} /\ (row # NoRule \/ row = acRule[r])
      BY <2>2
    <3>2. acRule[r].here /\ h \in acGroup
      BY <2>1, <2>2 DEF Tables, Assigned
    <3>3. row.here
      BY <3>1, <3>2
    <3> QED BY <1>1, <2>2, <3>1, <3>2, <3>3
  <2>3. CASE s # r
    BY <1>1, <1>6, <2>1, <2>3 DEF Tables, Assigned, InRule
  <2> QED BY <2>2, <2>3
<1>8. Complete'
  <2> SUFFICES ASSUME NEW h \in AcGroup, NEW t \in AcTool, NEW s \in AcRule, s \notin acLoose', InRule(h, t, s)'
               PROVE  <<h, t, s>> \in acAssign'
    BY DEF Complete
  <2>1. CASE s = r
    BY <1>1, <2>1 DEF InRule
  <2>2. CASE s # r
    BY <1>1, <1>6, <2>2 DEF Tables, Complete, InRule
  <2> QED BY <2>1, <2>2
<1> QED BY <1>2, <1>3, <1>4, <1>5, <1>7, <1>8 DEF Tables

\* A rule is deleted, and its assignments with it.
LEMMA DeleteStep ==
  ASSUME Tables, NEW r \in AcRule, DeleteRule(r), acAsked' \in 0..AcRequests
  PROVE  Tables'
<1>1. /\ acRule' = [acRule EXCEPT ![r] = NoRule] /\ Overtaken({r}) /\ acLoose' = acLoose \ {r}
      /\ UNCHANGED <<acUser, acGroup, acGrant, acMember, acCall>>
  BY DEF DeleteRule, Overtaken
<1>2. /\ acAssign' \subseteq acAssign
      /\ \A h \in AcGroup, t \in AcTool : <<h, t, r>> \notin acAssign'
      /\ \A h \in AcGroup, t \in AcTool, s \in AcRule : s # r => (<<h, t, s>> \in acAssign' <=> <<h, t, s>> \in acAssign)
  BY DEF DeleteRule, AssignedBy
<1> QED BY <1>1, <1>2, Nothings, RuleLeaves

\* A rule is unbound: it is out of the group, or it was in another one and is loose.
LEMMA UnboundStep ==
  ASSUME Tables, NEW m \in AcMover, WriteUnbound(m), acAsked' \in 0..AcRequests
  PROVE  Tables'
<1> DEFINE v == acMove[m]
           r == acMove[m].rule
           g == acMove[m].group
           row == IF acRule[r].group = g THEN [acRule[r] EXCEPT !.group = NoGroup] ELSE acRule[r]
<1>1. v.op = "unbound" /\ MovesRule(m)
  BY DEF WriteUnbound, Tables, Moving
<1>2. r \in AcRule /\ g \in AcGroup /\ g # NoGroup
  BY <1>1, AcAssumption DEF MovesRule
<1>3. acRule[r] \in AcRuleRow /\ (~ acRule[r].here => acRule[r] = NoRule)
  BY <1>2 DEF Tables, AcTypeOK, Blank
<1>4. acRule' = [acRule EXCEPT ![r] = row]
  BY <1>2 DEF WriteUnbound, Tables, AcTypeOK
<1>5. /\ row \in AcRuleRow
      /\ acRule[r].group = g => row.group = NoGroup /\ row.here = acRule[r].here /\ row.tools = acRule[r].tools /\ acRule[r].here
      /\ acRule[r].group # g => row = acRule[r]
  BY <1>2, <1>3, Nothings DEF AcRuleRow
<1>6. /\ acAssign' = acAssign \ v.gone /\ Overtaken({r})
      /\ UNCHANGED <<acUser, acGroup, acGrant, acMember, acCall>>
  BY DEF WriteUnbound, Overtaken
<1>7. \A h \in AcGroup, t \in AcTool, s \in AcRule : s # r => (<<h, t, s>> \in acAssign' <=> <<h, t, s>> \in acAssign)
  BY <1>1, <1>6 DEF MovesRule
<1>8. \/ /\ acLoose' = acLoose \ {r} /\ row.group = NoGroup
         /\ \A h \in AcGroup, t \in AcTool : <<h, t, r>> \notin acAssign'
      \/ acLoose' = acLoose \cup {r} /\ (row # NoRule \/ row = acRule[r])
  <2>1. CASE v.raced \/ acRule[r].group # g
    <3>1. acLoose' = acLoose \cup {r}
      BY <2>1 DEF WriteUnbound
    <3>2. row # NoRule \/ row = acRule[r]
      BY <1>5, Nothings
    <3> QED BY <3>1, <3>2
  <2>2. CASE ~ v.raced /\ acRule[r].group = g
    <3>1. acLoose' = acLoose \ {r}
      BY <2>2 DEF WriteUnbound
    <3>2. \A h \in AcGroup, t \in AcTool : <<h, t, r>> \in acAssign => <<h, t, r>> \in v.gone
      BY <1>1, <2>2 DEF MovesRule
    <3> QED BY <1>5, <1>6, <2>2, <3>1, <3>2
  <2> QED BY <2>1, <2>2
<1>9. /\ row.group = NoGroup \/ row.group = acRule[r].group
      /\ ~ row.here => row = NoRule
      /\ row.tools = acRule[r].tools /\ (acRule[r].here => row.here)
  BY <1>3, <1>5
<1>10. acAssign' \subseteq acAssign
  BY <1>6
<1> HIDE DEF row, r, g, v
<1> QED BY <1>2, <1>4, <1>5, <1>6, <1>7, <1>8, <1>9, <1>10, RuleLeaves

\* A transaction begins, or deletes the assignments it finds.
LEMMA MoveBegins ==
  ASSUME Tables, NEW m \in AcMover, NEW v \in AcMoving, acMove' = [acMove EXCEPT ![m] = v],
         v.rule \in AcRule, v.group \in AcGroup,
         \A g \in AcGroup, t \in AcTool, r \in AcRule : <<g, t, r>> \in v.gone => r = v.rule,
         v.raced \/ v.op = "unbound" \/ v.tools = acRule[v.rule].tools,
         v.raced \/ v.op = "bind"
           \/ \A g \in AcGroup, t \in AcTool : <<g, t, v.rule>> \in acAssign => <<g, t, v.rule>> \in v.gone,
         acAsked' \in 0..AcRequests,
         UNCHANGED <<acUser, acGroup, acRule, acAssign, acGrant, acMember, acCall, acLoose>>
  PROVE  Tables'
<1>1. acMove' \in [AcMover -> AcMoving] /\ acMove'[m] = v /\ \A n \in AcMover : n # m => acMove'[n] = acMove[n]
  BY DEF Tables, AcTypeOK
<1>2. Moving'
  <2>1. ASSUME NEW n \in AcMover, n # m PROVE MovesRule(n)'
    BY <1>1, <2>1 DEF Tables, Moving, MovesRule
  <2>2. MovesRule(m)'
    BY <1>1 DEF MovesRule
  <2> QED BY <2>1, <2>2 DEF Moving
<1> QED BY <1>1, <1>2 DEF Tables, AcTypeOK, Assigned, Complete, InRule, Keyed, Grounded, Blank

LEMMA MoveStepKeeps ==
  ASSUME Tables, NEW m \in AcMover, MoveRequest(m) \/ MoveStep(m), acAsked' \in 0..AcRequests
  PROVE  Tables'
<1>1. ASSUME NEW g \in AcGroup, NEW r \in AcRule, BindRule(m, g, r) PROVE Tables'
  <2> DEFINE v == [op |-> "bind", rule |-> r, group |-> g, tools |-> acRule[r].tools, gone |-> {}, raced |-> FALSE]
  <2>1. v \in AcMoving /\ v.rule = r /\ v.group = g /\ v.op = "bind" /\ v.gone = {} /\ v.tools = acRule[r].tools
    BY AcAssumption DEF AcMoving, AcRule, Tables, AcTypeOK, AcRuleRow
  <2>2. acMove' = [acMove EXCEPT ![m] = v]
        /\ UNCHANGED <<acUser, acGroup, acRule, acAssign, acGrant, acMember, acCall, acLoose>>
    BY <1>1 DEF BindRule
  <2> HIDE DEF v
  <2> QED BY <2>1, <2>2, MoveBegins
<1>2. ASSUME NEW g \in AcGroup, NEW r \in AcRule, UnbindRule(m, g, r) PROVE Tables'
  <2> DEFINE v == [op |-> "unbound", rule |-> r, group |-> g, tools |-> {}, gone |-> AssignedBy(r), raced |-> FALSE]
  <2>1. v \in AcMoving /\ v.rule = r /\ v.group = g /\ v.op = "unbound" /\ v.gone = AssignedBy(r)
    BY AcAssumption DEF AcMoving, AcRule, Tables, AcTypeOK, AssignedBy
  <2>2. acMove' = [acMove EXCEPT ![m] = v]
        /\ UNCHANGED <<acUser, acGroup, acRule, acAssign, acGrant, acMember, acCall, acLoose>>
    BY <1>2 DEF UnbindRule
  <2>3. /\ \A h \in AcGroup, t \in AcTool, s \in AcRule : <<h, t, s>> \in AssignedBy(r) => s = r
        /\ \A h \in AcGroup, t \in AcTool : <<h, t, r>> \in acAssign => <<h, t, r>> \in AssignedBy(r)
    BY DEF AssignedBy
  <2> HIDE DEF v
  <2> QED BY <2>1, <2>2, <2>3, MoveBegins
<1>3. CASE DeleteAssigned(m)
  <2> DEFINE old == acMove[m]
             r == old.rule
             v == [old EXCEPT !.op = "bound", !.gone = AssignedBy(r)]
  <2>1. old \in AcMoving /\ old.op = "bind" /\ MovesRule(m)
    BY <1>3 DEF DeleteAssigned, Tables, AcTypeOK, Moving
  <2>2. /\ v \in AcMoving /\ v.rule = r /\ v.group = old.group /\ v.op = "bound" /\ v.gone = AssignedBy(r)
        /\ v.tools = old.tools /\ v.raced = old.raced /\ r \in AcRule /\ old.group \in AcGroup
    BY <2>1 DEF AcMoving, Tables, AcTypeOK, AssignedBy, MovesRule
  <2>3. acMove' = [acMove EXCEPT ![m] = v]
        /\ UNCHANGED <<acUser, acGroup, acRule, acAssign, acGrant, acMember, acCall, acLoose>>
    BY <1>3 DEF DeleteAssigned, Tables, AcTypeOK
  <2>4. /\ \A h \in AcGroup, t \in AcTool, s \in AcRule : <<h, t, s>> \in AssignedBy(r) => s = r
        /\ \A h \in AcGroup, t \in AcTool : <<h, t, r>> \in acAssign => <<h, t, r>> \in AssignedBy(r)
    BY DEF AssignedBy
  <2>5. old.raced \/ old.tools = acRule[r].tools
    BY <2>1 DEF MovesRule
  <2>6. v.raced \/ v.op = "unbound" \/ v.tools = acRule[v.rule].tools
    BY <2>2, <2>5
  <2> HIDE DEF v, r, old
  <2> QED BY <2>2, <2>3, <2>4, <2>6, MoveBegins
<1>4. CASE MoveFails(m)
  BY <1>4, MoveDropped DEF MoveFails
<1> QED BY <1>1, <1>2, <1>3, <1>4, BoundStep, UnboundStep DEF MoveRequest, MoveStep

\* A restart builds the assignments anew: of the rules of a group with the same tool the
\* first one keeps it.
LEMMA RestartStep ==
  ASSUME Tables, RestartStore, acAsked' \in 0..AcRequests
  PROVE  Tables'
<1>1. \A g \in AcGroup, t \in AcTool, r \in AcRule :
        <<g, t, r>> \in Rebuilt <=>
          InRule(g, t, r) /\ \A s \in AcRule : InRule(g, t, s) => r <= s
  BY DEF Rebuilt, RulesOf, InRule
<1>2. Rebuilt \subseteq AcGroup \X AcTool \X AcRule
  BY DEF Rebuilt
<1>3. ASSUME NEW r \in AcRule
      PROVE  /\ acRule'[r] \in AcRuleRow
             /\ acRule'[r].here = acRule[r].here /\ acRule'[r].group = acRule[r].group
             /\ \A t \in AcTool : acRule[r].group \in AcGroup =>
                  (t \in acRule'[r].tools <=> <<acRule[r].group, t, r>> \in Rebuilt)
             /\ acRule[r].group = NoGroup => acRule'[r] = acRule[r]
  <2>0. acRule[r] \in AcRuleRow
    BY DEF Tables, AcTypeOK
  <2>1. CASE acRule[r].group = NoGroup
    BY <2>0, <2>1, AcAssumption DEF RestartStore
  <2>2. CASE acRule[r].group # NoGroup
    <3> DEFINE tools == {t \in AcTool : <<acRule[r].group, t, r>> \in Rebuilt}
    <3>1. acRule'[r] = [acRule[r] EXCEPT !.tools = tools]
      BY <2>2 DEF RestartStore
    <3>2. tools \in SUBSET AcTool
          /\ \A t \in AcTool : t \in tools <=> <<acRule[r].group, t, r>> \in Rebuilt
      OBVIOUS
    <3> HIDE DEF tools
    <3> QED BY <2>0, <2>2, <3>1, <3>2 DEF AcRuleRow
  <2> QED BY <2>1, <2>2
<1>4. acMove' \in [AcMover -> AcMoving] /\ Moving' /\ acLoose' = {}
  BY Nothings DEF RestartStore, Moving, MovesRule
<1>5. AcTypeOK'
  <2>1. acRule' \in [AcRule -> AcRuleRow]
    <3>1. acRule' = [r \in AcRule |-> acRule'[r]]
      BY DEF RestartStore
    <3> QED BY <1>3, <3>1
  <2>2. acAssign' \subseteq AcGroup \X AcTool \X AcRule
    BY <1>2 DEF RestartStore
  <2>3. acCall' \in [AcRequest -> AcSave]
    BY Nothings DEF RestartStore
  <2> QED BY <1>4, <2>1, <2>2, <2>3 DEF RestartStore, Tables, AcTypeOK
<1>6. \A g \in AcGroup, t \in AcTool, r \in AcRule : <<g, t, r>> \in acAssign' <=> InRule(g, t, r)'
  <2> SUFFICES ASSUME NEW g \in AcGroup, NEW t \in AcTool, NEW r \in AcRule
               PROVE  <<g, t, r>> \in Rebuilt <=>
                        acRule'[r].here /\ acRule'[r].group = g /\ t \in acRule'[r].tools
    BY DEF RestartStore, InRule
  <2> QED BY <1>1, <1>3 DEF InRule
<1>7. Keyed'
  <2>1. \A r, s \in AcRule : r <= s /\ s <= r => r = s
    BY AcAssumption DEF AcRule
  <2>2. ASSUME NEW g \in AcGroup, NEW t \in AcTool, NEW r \in AcRule, NEW s \in AcRule,
               <<g, t, r>> \in Rebuilt, <<g, t, s>> \in Rebuilt
        PROVE  r = s
    BY <1>1, <2>1, <2>2
  <2> QED BY <2>2 DEF RestartStore, Keyed
<1>8. Grounded' /\ Blank'
  <2>1. NoRule.group = NoGroup
    BY DEF NoRule
  <2>2. \A r \in AcRule : ~ acRule[r].here => acRule[r].group = NoGroup /\ acRule[r] = NoRule
    BY <2>1 DEF Tables, Blank
  <2> QED BY <1>3, <2>2 DEF RestartStore, Tables, Grounded, Blank
<1>9. Assigned' /\ Complete'
  <2>1. \A g \in AcGroup, t \in AcTool, r \in AcRule : InRule(g, t, r)' => g \in acGroup' /\ acRule'[r].here
    BY <1>8, AcAssumption DEF InRule, Grounded
  <2> QED BY <1>4, <1>6, <2>1 DEF Assigned, Complete
<1> QED BY <1>4, <1>5, <1>7, <1>8, <1>9 DEF Tables

\* A check reads only.
LEMMA CheckStep ==
  ASSUME Tables, NEW c \in AcRequest, NEW r \in AcRule, NEW g \in AcGroup, NEW tools \in SUBSET AcTool,
         CheckRule(c, r, g, tools), acAsked' \in 0..AcRequests
  PROVE  Tables'
<1>1. [rule |-> r, group |-> g, tools |-> tools] \in AcSave
  BY AcAssumption DEF AcSave, AcRule
<1>2. Moving'
  BY AllGoOn DEF CheckRule
<1> QED BY <1>1, <1>2 DEF CheckRule, Tables, AcTypeOK, Assigned, Complete, InRule, Keyed, Grounded, Blank

\* Every step keeps the tables.
LEMMA TablesStep ==
  ASSUME Tables, [AcNext]_acVars
  PROVE  Tables'
<1>1. CASE UNCHANGED acVars
  <2>1. Moving'
    BY <1>1, AllGoOn DEF acVars
  <2> QED BY <1>1, <2>1 DEF acVars, Tables, AcTypeOK, Assigned, Complete, InRule, Keyed, Grounded, Blank
<1>2. ASSUME AcNext PROVE acAsked' \in 0..AcRequests
  <2>1. acAsked \in 0..AcRequests
    BY DEF Tables, AcTypeOK
  <2>2. CASE Asks
    BY <2>1, <2>2, AcAssumption DEF Asks
  <2>3. CASE UNCHANGED acAsked
    BY <2>1, <2>3
  <2> QED BY <1>2, <2>2, <2>3 DEF AcNext
<1>3. CASE AcNext
  BY <1>2, <1>3, UserStep, GroupStep, CheckStep, SaveStep, DeleteStep, MoveStepKeeps, RestartStep DEF AcNext
<1> QED BY <1>1, <1>3

---------------------------------------------------------------------------
(* Permission rules: theorems *)

\* What the tables promise.
LEMMA OneRuleEach == ASSUME Tables PROVE OneRulePerTool
<1> SUFFICES ASSUME NEW g \in AcGroup, NEW r \in RulesOf(g) \ acLoose, NEW s \in RulesOf(g) \ acLoose,
                    NEW t \in acRule[r].tools, t \in acRule[s].tools
             PROVE  r = s
  BY DEF OneRulePerTool
<1>1. t \in AcTool /\ InRule(g, t, r) /\ InRule(g, t, s)
  BY DEF RulesOf, Tables, AcTypeOK, AcRuleRow, InRule
<1>2. <<g, t, r>> \in acAssign /\ <<g, t, s>> \in acAssign
  BY <1>1 DEF RulesOf, Tables, Complete
<1> QED BY <1>1, <1>2 DEF RulesOf, Tables, Keyed

LEMMA NothingLeft == Tables => NothingInherited
<1> SUFFICES ASSUME Tables PROVE NothingInherited
  OBVIOUS
<1>1. ASSUME NEW m \in acMember PROVE m[1] \in acUser /\ m[2] \in acGroup
  BY <1>1 DEF Tables, AcTypeOK, Grounded
<1>2. ASSUME NEW p \in acGrant PROVE p[1] \in acGroup
  BY <1>2 DEF Tables, AcTypeOK, Grounded
<1>3. ASSUME NEW a \in acAssign
      PROVE  /\ a[1] \in acGroup /\ acRule[a[3]].here
             /\ a[3] \notin acLoose => acRule[a[3]].group = a[1] /\ a[2] \in acRule[a[3]].tools
  <2>1. PICK g \in AcGroup, t \in AcTool, r \in AcRule : a = <<g, t, r>>
    BY DEF Tables, AcTypeOK
  <2> QED BY <2>1 DEF Tables, Assigned, InRule
<1>4. \A r \in AcRule : acRule[r].group \in acGroup \cup {NoGroup}
  BY DEF Tables, Grounded
<1> QED BY <1>1, <1>2, <1>3, <1>4 DEF NothingInherited

\* The tables keep their keys, whatever rules are unbound and whenever the store restarts.
LEMMA AlwaysTables == AcSpec => []Tables
<1>1. AcInit => Tables
  BY TablesInit
<1>2. Tables /\ [AcNext]_acVars => Tables'
  BY TablesStep
<1> QED BY <1>1, <1>2, PTL DEF AcSpec

\* Of the rules of a group one at most has a tool, whatever rules are checked, saved,
\* moved and deleted together (create_permission_rule, put_rule, bind_group_rule); but for
\* the rules whose assignments were written over by an overlapping request, or deleted by
\* an unbinding from another group.
THEOREM ToolsHaveOneRule == AcSpec => []OneRulePerTool
<1>1. Tables => OneRulePerTool
  BY OneRuleEach
<1> QED BY <1>1, AlwaysTables, PTL

\* No member, grant, assignment or rule refers to something that was deleted
\* (delete_user, delete_group, delete_rule and the foreign keys), whatever saves and moves
\* were under way.
THEOREM NothingDangles == AcSpec => []NothingInherited
BY AlwaysTables, NothingLeft, PTL
=============================================================================
