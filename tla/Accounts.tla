------------------------------ MODULE Accounts ------------------------------
(***************************************************************************)
(* Sessions and roles of the API: routes/auth.js, auth.js and the role     *)
(* change of routes/users.js.  A token is what jwt.sign has put into it;   *)
(* the row of its user is not read again until it expires.                 *)
(***************************************************************************)
EXTENDS Integers

CONSTANTS
  NULL,
  Users,
  Roles,        \* a set of roles with at least one of admin and master
  Requests,     \* bound: requests handled at the same time
  Lifetime,     \* the eight hours of a token and of a session
  MaxTime,      \* bound: the last moment
  MaxLogins,    \* bound: login requests
  MaxFails,     \* bound: statements that fail without being executed
  MaxLost       \* bound: statements executed whose acknowledgement is lost

AccountsAssumption ==
  /\ NULL \notin Nat
  /\ Roles \subseteq {"master", "admin", "viewer"}
  /\ Lifetime \in Nat /\ MaxTime \in Nat /\ MaxLogins \in Nat
  /\ MaxFails \in Nat /\ MaxLost \in Nat

VARIABLES
  now,       \* the time, of the API and of the database
  users,     \* the rows of users: role and session_expires_at
  requests,  \* what each request is about to do
  tokens,    \* the tokens that clients have received and that are still good
  faults     \* how many statements have failed, how many acknowledgements were
             \* lost, and, for the bound, how many logins have begun

vars == <<now, users, requests, tokens, faults>>

Time == 0 .. MaxTime + Lifetime

Token == [user : Users, role : Roles, exp : Time]

Request == [op   : {"select", "compare", "update", "logout", "role"},
            user : Users,
            role : Roles \cup {NULL},
            exp  : Time \cup {NULL}]

TypeOK ==
  /\ now \in 0 .. MaxTime
  /\ users \in [Users -> [role : Roles, session_expires_at : Time \cup {NULL}]]
  /\ requests \in [Requests -> Request \cup {NULL}]
  /\ tokens \subseteq Token
  /\ faults \in [fails : 0 .. MaxFails, lost : 0 .. MaxLost, logins : 0 .. MaxLogins]

Init ==
  /\ now = 0
  /\ users \in [Users -> [role : Roles, session_expires_at : {NULL}]]
  /\ requests = [r \in Requests |-> NULL]
  /\ tokens = {}
  /\ faults = [fails |-> 0, lost |-> 0, logins |-> 0]

-----------------------------------------------------------------------------
Begin(r, request) ==
  /\ requests[r] = NULL
  /\ requests' = [requests EXCEPT ![r] = request]
  /\ UNCHANGED <<now, users, tokens>>

End(r) == requests' = [requests EXCEPT ![r] = NULL]

Continue(r, op, role, exp) ==
  requests' = [requests EXCEPT ![r] = [@ EXCEPT !.op = op, !.role = role, !.exp = exp]]

\* Mutant of ServerError: the error is swallowed, no answer is sent.
ServerErrorSwallowed(r, written) ==
  /\ faults.fails < MaxFails
  /\ faults' = [faults EXCEPT !.fails = @ + 1]
  /\ requests' = [requests EXCEPT ![r] = [@ EXCEPT !.op = "swallowed"]]
  /\ UNCHANGED <<users, tokens>>

\* The catch of every handler: 500, whether the statement was executed or not.
ServerError(r, written) ==
  /\ \/ /\ faults.fails < MaxFails
        /\ faults' = [faults EXCEPT !.fails = @ + 1]
        /\ UNCHANGED users
     \/ /\ faults.lost < MaxLost
        /\ faults' = [faults EXCEPT !.lost = @ + 1]
        /\ users' = written
  /\ End(r)
  /\ UNCHANGED tokens

\* jwt.verify.
RequireAuth(t) == t \in tokens /\ now < t.exp

-----------------------------------------------------------------------------
(* POST /login                                                             *)

Login(r, u) ==
  /\ faults.logins < MaxLogins
  /\ faults' = [faults EXCEPT !.logins = @ + 1]
  /\ Begin(r, [op |-> "select", user |-> u, role |-> NULL, exp |-> NULL])

SelectUser(r) ==
  /\ requests[r] # NULL /\ requests[r].op = "select"
  /\ \/ /\ Continue(r, "compare", users[requests[r].user].role, NULL)
        /\ UNCHANGED <<users, tokens, faults>>
     \/ ServerError(r, users)
  /\ UNCHANGED now

\* bcrypt has compared the passwords: the token is signed, or the answer is 401.
Compare(r) ==
  /\ requests[r] # NULL /\ requests[r].op = "compare"
  /\ Continue(r, "update", requests[r].role, now + Lifetime) \/ End(r)
  /\ UNCHANGED <<now, users, tokens, faults>>

Signed(r) == [user |-> requests[r].user, role |-> requests[r].role, exp |-> requests[r].exp]

\* Mutant of SaveSession: the row gets the time of the token, a moment too old
\* if another login has come in between.
SaveSessionOfToken(r) ==
  /\ requests[r] # NULL /\ requests[r].op = "update"
  /\ users' = [users EXCEPT ![requests[r].user].session_expires_at = requests[r].exp]
  /\ tokens' = tokens \cup {Signed(r)}
  /\ End(r)
  /\ UNCHANGED <<now, faults>>

\* Only a login whose UPDATE is acknowledged hands its token out.
SaveSession(r) ==
  /\ requests[r] # NULL /\ requests[r].op = "update"
  /\ LET written == [users EXCEPT ![requests[r].user].session_expires_at = now + Lifetime] IN
     \/ /\ users' = written
        /\ tokens' = tokens \cup {Signed(r)}
        /\ End(r)
        /\ UNCHANGED faults
     \/ ServerError(r, written)
  /\ UNCHANGED now

-----------------------------------------------------------------------------
(* POST /logout and PATCH /users/:id/role                                  *)

Logout(r, t) ==
  /\ RequireAuth(t)
  /\ Begin(r, [op |-> "logout", user |-> t.user, role |-> NULL, exp |-> NULL])
  /\ UNCHANGED faults

ChangeRole(r, t, u, role) ==
  /\ RequireAuth(t)
  /\ t.role \in {"admin", "master"}
  /\ Begin(r, [op |-> "role", user |-> u, role |-> role, exp |-> NULL])
  /\ UNCHANGED faults

\* The one statement of either handler.
Update(r) ==
  /\ requests[r] # NULL /\ requests[r].op \in {"logout", "role"}
  /\ LET u == requests[r].user
         written == IF requests[r].op = "logout"
                      THEN [users EXCEPT ![u].session_expires_at = NULL]
                      ELSE [users EXCEPT ![u].role = requests[r].role] IN
     \/ users' = written /\ End(r) /\ UNCHANGED <<tokens, faults>>
     \/ ServerError(r, written)
  /\ UNCHANGED now

-----------------------------------------------------------------------------
\* Time passes; the tokens that have expired are good for nothing.
Tick ==
  /\ now < MaxTime
  /\ now' = now + 1
  /\ tokens' = {t \in tokens : now' < t.exp}
  /\ UNCHANGED <<users, requests, faults>>

Answer(r) == SelectUser(r) \/ Compare(r) \/ SaveSession(r) \/ Update(r)

Next ==
  \/ Tick
  \/ \E r \in Requests :
       \/ Answer(r)
       \/ \E u \in Users : Login(r, u)
       \/ \E t \in tokens : Logout(r, t)
       \/ \E t \in tokens, u \in Users, role \in Roles : ChangeRole(r, t, u, role)

Spec == Init /\ [][Next]_vars

\* Every statement and every comparison ends.
Fairness == \A r \in Requests : WF_vars(Answer(r))

-----------------------------------------------------------------------------
(* Properties.                                                             *)

\* While a user's row shows a session, it lasts at least as long as every token
\* of the user that is still good: logins of two devices may overlap in any
\* order, fail or lose their answers.  (A logout clears the row and leaves the
\* tokens of the other device good.)
SessionCoversTokens ==
  \A t \in tokens : LET shown == users[t.user].session_expires_at IN
                    shown # NULL => t.exp <= shown

\* Every request is answered, whatever fails.
RequestsAnswered == \A r \in Requests : requests[r] # NULL ~> requests[r] = NULL
=============================================================================
