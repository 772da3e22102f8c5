-------------------------------- MODULE Auth --------------------------------
(***************************************************************************)
(* The account behind one email: its row in users, its refresh tokens, and *)
(* the requests on them (src/internal/service/auth_service.go and          *)
(* user_service.go).  No operation uses a transaction: one statement is    *)
(* one step, and a request carries what it read.                           *)
(*                                                                         *)
(* A JWT is signed over the user and times in whole seconds and nothing    *)
(* else (src/internal/pkg/jwt/jwt.go), so the refresh token of the account *)
(* IS the second it was issued in: two of one second are one token.        *)
(* A password is a number, new for every registration and change; name and *)
(* avatar travel in the same Save as the password.                         *)
(***************************************************************************)
EXTENDS Naturals

CONSTANTS
    Requests,       \* the slots requests are handled in: how many run at once
    Ops,            \* the operations of this instance
    RefreshLife,    \* seconds a refresh token lasts
    AccessLife,     \* seconds an access token lasts
    MaxRequests,    \* bound: requests that are started
    MaxPasswords,   \* bound: passwords that are chosen
    MaxTime         \* bound: seconds

AllOps == {"register", "login", "refresh", "logout", "update", "change"}

ASSUME AuthAssumption ==
    /\ Ops \subseteq AllOps
    /\ RefreshLife \in Nat
    /\ AccessLife \in Nat
    /\ MaxRequests \in Nat
    /\ MaxPasswords \in Nat
    /\ MaxTime \in Nat

VARIABLES
    password,       \* the account's, 0 while there is no such row
    tokens,         \* the rows of refresh_tokens
    known,          \* the tokens that clients were given
    req,            \* what each slot is doing
    now,            \* the clock, in seconds
    chosen, started,        \* for the bounds
    heirs,          \* history: what a token was exchanged for
    shared          \* history: tokens two refreshes were at work on at once, or issued twice

vars == <<password, tokens, known, req, now, chosen, started, heirs, shared>>

history == <<heirs, shared>>

Seconds == 0..MaxTime

Passwords == 1..MaxPasswords

Steps == {"findEmail", "createUser", "issue", "store", "findToken", "findUser",
          "delete", "save"}

(* given is the token that was sent, secret the password; row is the       *)
(* password column of the row that was read or is to be written, new the   *)
(* token that was issued.                                                  *)
Request == [pc : Steps, op : AllOps, given : Seconds, secret : 0..MaxPasswords,
            row : 0..MaxPasswords, new : Seconds]

NoRequest == [pc |-> "idle"]

At(r, pc) == req[r].pc = pc

To(r, pc) == req' = [req EXCEPT ![r].pc = pc]

Respond(r) == req' = [req EXCEPT ![r] = NoRequest]

Init ==
    /\ password = 0
    /\ tokens = {}
    /\ known = {}
    /\ req = [r \in Requests |-> NoRequest]
    /\ now = 0
    /\ chosen = 0
    /\ started = 0
    /\ heirs = [t \in Seconds |-> {}]
    /\ shared = {}

FirstStep == [register |-> "findEmail", login |-> "findEmail", refresh |-> "findToken",
              logout |-> "delete", update |-> "findUser", change |-> "findUser"]

\* jwt.Parse of a token issued in second t.
Valid(t, life) == now < t + life

\* The profile and the password are behind the access token of middleware.Auth.
Authorized == \E t \in known : Valid(t, AccessLife)

Start(r) ==
    /\ At(r, "idle")
    /\ started < MaxRequests
    /\ started' = started + 1
    /\ \E op \in Ops, t \in known \cup {0}, p \in 0..chosen :
          /\ op \in {"refresh", "logout"} => t \in known
          /\ op \notin {"refresh", "logout"} => t = 0
          /\ p # 0 <=> op \in {"login", "change"}
          /\ op \in {"update", "change"} => Authorized
          /\ req' = [req EXCEPT ![r] =
                [pc |-> FirstStep[op], op |-> op, given |-> t, secret |-> p,
                 row |-> 0, new |-> 0]]
    /\ UNCHANGED <<password, tokens, known, now, chosen, history>>

\* Any statement may fail, and any request be refused by a later check.
Fail(r) ==
    /\ ~At(r, "idle")
    /\ Respond(r)
    /\ UNCHANGED <<password, tokens, known, now, chosen, started, history>>

Tick ==
    /\ now < MaxTime
    /\ now' = now + 1
    /\ UNCHANGED <<password, tokens, known, req, chosen, started, history>>

-----------------------------------------------------------------------------
(* Register and Login.                                                     *)

\* A registration needs a free email, a login the account and its password.
FindEmail(r) ==
    /\ At(r, "findEmail")
    /\ \/ /\ req[r].op = "register"
          /\ password = 0
          /\ chosen < MaxPasswords
          /\ chosen' = chosen + 1
          /\ req' = [req EXCEPT ![r] = [@ EXCEPT !.pc = "createUser", !.row = chosen + 1]]
       \/ /\ req[r].op = "login"
          /\ password # 0
          /\ password = req[r].secret
          /\ To(r, "issue")
          /\ UNCHANGED chosen
    /\ UNCHANGED <<password, tokens, known, now, started, history>>

\* email is UNIQUE: the second of two registrations fails (Fail).
CreateUser(r) ==
    /\ At(r, "createUser")
    /\ password = 0
    /\ password' = req[r].row
    /\ To(r, "issue")
    /\ UNCHANGED <<tokens, known, now, chosen, started, history>>

-----------------------------------------------------------------------------
(* issueTokens.                                                            *)

\* Mutant: the clock is rounded.
Generate_Coarse == (now \div 2) * 2

Generate == now

\* Mutant: the row of the user is saved with the time of the login in it.
Issue_SavesUser(r) ==
    \/ /\ At(r, "issue")
       /\ req' = [req EXCEPT ![r].pc = "store", ![r].new = Generate, ![r].row = password]
       /\ UNCHANGED <<password, tokens, known, now, chosen, started, history>>
    \/ /\ At(r, "store")
       /\ req[r].row \in Passwords
       /\ password' = req[r].row
       /\ UNCHANGED <<tokens, known, req, now, chosen, started, history>>

Issue(r) ==
    /\ At(r, "issue")
    /\ req' = [req EXCEPT ![r] = [@ EXCEPT !.pc = "store", !.new = Generate]]
    /\ UNCHANGED <<password, tokens, known, now, chosen, started, history>>

\* token is UNIQUE: a second token of one second is not stored (Fail).
StoreToken(r) ==
    /\ At(r, "store")
    /\ req[r].new \notin tokens
    /\ tokens' = tokens \cup {req[r].new}
    /\ known' = known \cup {req[r].new}
    /\ heirs' = IF req[r].op = "refresh"
                THEN [heirs EXCEPT ![req[r].given] = @ \cup {req[r].new}]
                ELSE heirs
    /\ shared' = IF req[r].op = "refresh" /\ req[r].given = req[r].new THEN shared
                 ELSE shared \cup (known \cap {req[r].new})
    /\ Respond(r)
    /\ UNCHANGED <<password, now, chosen, started>>

-----------------------------------------------------------------------------
(* Refresh: the token is checked and found, the user found, the token's row *)
(* deleted, the new one stored.                                            *)

\* The refreshes of t that have found it and are not through.
Refreshing(t) == {r \in Requests : req[r].pc \in {"findUser", "delete", "issue", "store"}
                                    /\ req[r].op = "refresh" /\ req[r].given = t}

FindToken(r) ==
    /\ At(r, "findToken")
    /\ Valid(req[r].given, RefreshLife)
    /\ req[r].given \in tokens
    /\ To(r, "findUser")
    /\ shared' = IF Refreshing(req[r].given) = {} THEN shared
                 ELSE shared \cup {req[r].given}
    /\ UNCHANGED <<password, tokens, known, now, chosen, started, heirs>>

\* Mutant: an error of the deletion is ignored.
DeleteToken_IgnoresError(r) ==
    /\ At(r, "delete")
    /\ req[r].op = "refresh"
    /\ tokens' \in {tokens, tokens \ {req[r].given}}
    /\ To(r, "issue")
    /\ UNCHANGED <<password, known, now, chosen, started, history>>

\* Deleting no row is no error.  It is all that Logout does.
DeleteToken(r) ==
    /\ At(r, "delete")
    /\ tokens' = tokens \ {req[r].given}
    /\ IF req[r].op = "refresh" THEN To(r, "issue") ELSE Respond(r)
    /\ UNCHANGED <<password, known, now, chosen, started, history>>

-----------------------------------------------------------------------------
(* UpdateProfile and ChangePassword: the row is read, and saved whole.     *)

FindUser(r) ==
    /\ At(r, "findUser")
    /\ password # 0
    /\ \/ /\ req[r].op = "refresh"
          /\ To(r, "delete")
          /\ UNCHANGED chosen
       \/ /\ req[r].op = "update"
          /\ req' = [req EXCEPT ![r] = [@ EXCEPT !.pc = "save", !.row = password]]
          /\ UNCHANGED chosen
       \/ /\ req[r].op = "change"
          /\ password = req[r].secret
          /\ chosen < MaxPasswords
          /\ chosen' = chosen + 1
          /\ req' = [req EXCEPT ![r] = [@ EXCEPT !.pc = "save", !.row = chosen + 1]]
    /\ UNCHANGED <<password, tokens, known, now, started, history>>

SaveUser(r) ==
    /\ At(r, "save")
    /\ password' = req[r].row
    /\ Respond(r)
    /\ UNCHANGED <<tokens, known, now, chosen, started, history>>

-----------------------------------------------------------------------------

\* Past the bound on requests the system idles.
Served ==
    /\ started = MaxRequests
    /\ \A r \in Requests : At(r, "idle")
    /\ now = MaxTime
    /\ UNCHANGED vars

Step(r) ==
    \/ Start(r) \/ Fail(r)
    \/ FindEmail(r) \/ CreateUser(r)
    \/ Issue(r) \/ StoreToken(r)
    \/ FindToken(r) \/ DeleteToken(r)
    \/ FindUser(r) \/ SaveUser(r)

Next == (\E r \in Requests : Step(r)) \/ Tick \/ Served

Spec == Init /\ [][Next]_vars

-----------------------------------------------------------------------------
(* Properties.                                                             *)

\* What is stored or known was issued by now, and once.
TypeOK ==
    /\ now \in Seconds
    /\ chosen \in 0..MaxPasswords
    /\ started \in 0..MaxRequests
    /\ password \in 0..chosen
    /\ tokens \subseteq known
    /\ known \subseteq 0..now
    /\ req \in [Requests -> Request \cup {NoRequest}]
    /\ \A r \in Requests : ~At(r, "idle") => req[r].new <= now /\ req[r].row <= chosen
    /\ heirs \in [Seconds -> SUBSET Seconds]
    /\ shared \subseteq Seconds

\* t is out of the table for good: its second is over and nobody is about to store it.
Spent(t) ==
    /\ t \notin tokens
    /\ t < now
    /\ \A r \in Requests :
          /\ At(r, "store") => req[r].new # t

\* A refresh token that is rotated or logged out, whose second is over, is never
\* accepted again, whatever requests with it are still under way.
SpentStaysSpent == [][\A t \in Seconds : Spent(t) => Spent(t)']_vars

\* A token is exchanged for one other token, however often a client repeats the
\* request or a statement of it fails, unless two refreshes overlap or two logins of
\* one second were given the same token.
OneHeir ==
    \A t \in Seconds \ shared : \A a, b \in heirs[t] \ {t} : a = b

\* A password that was replaced, and that no request is about to write back,
\* never opens the account again.
Replaced(p) ==
    /\ p <= chosen
    /\ p # password
    /\ \A r \in Requests : req[r].pc \in {"createUser", "save"} => req[r].row # p

PasswordStaysReplaced == [][\A p \in Passwords : Replaced(p) => Replaced(p)']_vars

=============================================================================
