------------------------------ MODULE Accounts ------------------------------
(***************************************************************************)
(* Accounts and sessions of the dashboard (packages/dashboard,             *)
(* packages/gateway/src/accounts): signup, the member login and the        *)
(* operator's login, each a handler that awaits the database between its   *)
(* steps; password changes; and the signed cookie, which carries a digest  *)
(* of the credential it was minted against.                                *)
(*                                                                         *)
(* An argon2 hash is [password, salt], salted afresh every time; the tag   *)
(* of a session is the hash itself, the tag of the operator's is the       *)
(* configured password.  A request from another site, or to a dashboard    *)
(* that is not configured, is refused before it does anything, and has no  *)
(* step here.                                                              *)
(***************************************************************************)
EXTENDS LoginLimiter, Sequences

CONSTANTS
    Requests,       \* form submissions; an account is named by its signup
    Emails,
    Passwords,
    Plans,          \* what may be submitted: functions from Requests to forms
    Ttl,            \* DEFAULT_SESSION_TTL_MS
    MaxTime,        \* bound on the clock
    MaxSalt,        \* bound on passwords ever set
    None

Operator == "operator"
Kinds == {"login", "signup", "operator"}
Forms == [kind : Kinds, client : Clients, email : Emails, password : Passwords]

ASSUME AccountsAssumption ==
    /\ Ttl \in Nat \ {0} /\ MaxTime \in Nat /\ MaxSalt \in Nat
    /\ Operator \notin Requests /\ None \notin Requests \cup Passwords
    /\ Plans \subseteq [Requests -> Forms]

VARIABLES
    now,
    windows,        \* the login limiter
    admitted,       \* history: when each client's admitted attempts came
    forgotten,      \* history: clients whose window was evicted
    users,          \* rows of users: [email, hash, changes], or None
    salts,          \* salts drawn so far
    adminPassword,  \* ADMIN_PASSWORD
    issued,         \* cookies handed out
    form,           \* what each request submits
    request         \* its handler: [pc, user, row, answer]

vars == <<now, windows, admitted, forgotten, users, salts, adminPassword, issued, form, request>>
limiterVars == <<windows, admitted, forgotten>>
accountVars == <<users, salts, adminPassword>>

-----------------------------------------------------------------------------
Idle == [pc |-> "idle", user |-> None, row |-> None, answer |-> "none"]

Init ==
    /\ now = 0
    /\ windows = [c \in Clients |-> NoWindow]
    /\ admitted = [c \in Clients |-> <<>>]
    /\ forgotten = {}
    /\ users = [u \in Requests |-> None]
    /\ salts = 0
    /\ adminPassword \in Passwords
    /\ issued = {}
    /\ form \in Plans
    /\ request = [r \in Requests |-> Idle]

\* Rows whose address is this one.
FindUserByEmail(email) == {u \in Requests : users[u] # None /\ users[u].email = email}

\* attachSession: the cookie of a member or of the operator.
Cookie(user, tag, changes) ==
    [user |-> user, tag |-> tag, expires |-> now + Ttl, changes |-> changes]

Answered(r, what) == [request EXCEPT ![r] = [Idle EXCEPT !.pc = "done", !.answer = what]]

-----------------------------------------------------------------------------
(* The three forms.  Each charges the limiter before it looks further.     *)

\* chargeAttempt: the attempt is counted even when it is refused.
Charge(c) ==
    \E room \in Rooms(windows, c, now) :
        LET window == ChargedWindow(room[c], now) IN
        /\ windows' = [room EXCEPT ![c] = window]
        /\ admitted' = IF Allowed(window) THEN [admitted EXCEPT ![c] = Append(@, now)] ELSE admitted
        /\ forgotten' = forgotten \cup {d \in Tracked(windows) \ {c} :
               room[d] = NoWindow /\ ~Elapsed(windows[d], now)}

Submit(r) ==
    /\ request[r].pc = "idle"
    /\ Charge(form[r].client)
    /\ request' = IF Allowed(windows'[form[r].client])
                  THEN [request EXCEPT ![r].pc = "lookup"]
                  ELSE Answered(r, "rate_limited")
    /\ UNCHANGED <<now, accountVars, issued, form>>

\* Login: an unknown address costs the same and answers the same.
LookUp(r) ==
    /\ request[r].pc = "lookup" /\ form[r].kind = "login"
    /\ IF FindUserByEmail(form[r].email) = {}
       THEN request' = Answered(r, "invalid")
       ELSE \E u \in FindUserByEmail(form[r].email) :
                request' = [request EXCEPT ![r].pc = "verify", ![r].user = u, ![r].row = users[u]]
    /\ UNCHANGED <<now, limiterVars, accountVars, issued, form>>

\* Variant: the tag is taken from the row as it is when the cookie is minted.
CurrentHash(u, row) == users[u].hash

\* passwordTag: the cookie is bound to the row the password was checked against.
MintedHash(u, row) == row.hash

VerifyPassword(r) ==
    /\ request[r].pc = "verify"
    /\ LET row == request[r].row u == request[r].user IN
       IF row.hash.password = form[r].password
       THEN /\ issued' = issued \cup {Cookie(u, MintedHash(u, row), row.changes)}
            /\ request' = Answered(r, "signed_in")
       ELSE /\ request' = Answered(r, "invalid") /\ UNCHANGED issued
    /\ UNCHANGED <<now, limiterVars, accountVars, form>>

VerifyAdminPassword(r) ==
    /\ request[r].pc = "lookup" /\ form[r].kind = "operator"
    /\ IF form[r].password = adminPassword
       THEN /\ issued' = issued \cup {Cookie(Operator, adminPassword, 0)}
            /\ request' = Answered(r, "signed_in")
       ELSE /\ request' = Answered(r, "invalid") /\ UNCHANGED issued
    /\ UNCHANGED <<now, limiterVars, accountVars, form>>

\* Signup looks the address up first, then hashes.
CheckAddress(r) ==
    /\ request[r].pc = "lookup" /\ form[r].kind = "signup"
    /\ request' = IF FindUserByEmail(form[r].email) # {}
                  THEN Answered(r, "email_taken")
                  ELSE [request EXCEPT ![r].pc = "insert"]
    /\ UNCHANGED <<now, limiterVars, accountVars, issued, form>>

UniqueEmail(email) == FindUserByEmail(email) = {}

\* What registerUser answers to the unique violation.  The error it catches is
\* the query error of the database library, whose code is that of its cause:
\* isUniqueViolation does not know it, and it is thrown on.
ViolationAnswer == "unavailable"

\* Variant: hashing without a salt.
SameSalt(p) == [password |-> p, salt |-> 0]
HashApiSecret(p) == [password |-> p, salt |-> salts + 1]

\* The insert, which the unique index refuses when another signup came first.
InsertUser(r) ==
    /\ request[r].pc = "insert"
    /\ IF UniqueEmail(form[r].email)
       THEN /\ salts < MaxSalt /\ salts' = salts + 1
            /\ LET hash == HashApiSecret(form[r].password) IN
               /\ users' = [users EXCEPT ![r] =
                      [email |-> form[r].email, hash |-> hash, changes |-> 0]]
               /\ issued' = issued \cup {Cookie(r, hash, 0)}
            /\ request' = Answered(r, "signed_in")
       ELSE /\ request' = Answered(r, ViolationAnswer)
            /\ UNCHANGED <<users, salts, issued>>
    /\ UNCHANGED <<now, limiterVars, adminPassword, form>>

-----------------------------------------------------------------------------
(* What happens to accounts, to the process, and to time.                  *)

\* changeUserPassword: one UPDATE with a fresh hash.
ChangeUserPassword(u, p) ==
    /\ users[u] # None /\ salts < MaxSalt
    /\ salts' = salts + 1
    /\ users' = [users EXCEPT ![u].hash = HashApiSecret(p), ![u].changes = @ + 1]
    /\ UNCHANGED <<now, limiterVars, adminPassword, issued, form, request>>

\* The process restarts, perhaps with another ADMIN_PASSWORD: what it was
\* serving is lost, and its limiter forgets.
Restart(p) ==
    /\ adminPassword' = p
    /\ windows' = [c \in Clients |-> NoWindow]
    /\ forgotten' = forgotten \cup Tracked(windows)
    /\ request' = [r \in Requests |->
           IF request[r].pc \in {"idle", "done"} THEN request[r]
           ELSE [Idle EXCEPT !.pc = "done", !.answer = "lost"]]
    /\ UNCHANGED <<now, admitted, users, salts, issued, form>>

Tick ==
    /\ now < MaxTime /\ now' = now + 1
    /\ UNCHANGED <<limiterVars, accountVars, issued, form, request>>

Next ==
    \/ \E r \in Requests :
           \/ Submit(r) \/ LookUp(r) \/ VerifyPassword(r) \/ VerifyAdminPassword(r)
           \/ CheckAddress(r) \/ InsertUser(r)
    \/ \E u \in Requests, p \in Passwords : ChangeUserPassword(u, p)
    \/ \E p \in Passwords : Restart(p)
    \/ Tick

Spec == Init /\ [][Next]_vars

-----------------------------------------------------------------------------
(* Sessions.                                                               *)

\* A token this dashboard signed, and for how long.
VerifySessionToken(cookie) == now < cookie.expires

\* resolveClaims: who a cookie is, with the account as it is now.
Session(cookie) ==
    IF ~VerifySessionToken(cookie) THEN None
    ELSE IF cookie.user = Operator
    THEN IF cookie.tag = adminPassword THEN Operator ELSE None
    ELSE IF users[cookie.user] # None /\ users[cookie.user].hash = cookie.tag
         THEN cookie.user ELSE None

-----------------------------------------------------------------------------
(* Properties.                                                             *)

\* users.ts: an address has one account, whichever of two signups comes first.
OneAccountPerAddress ==
    \A u, v \in Requests :
        users[u] # None /\ users[v] # None /\ users[u].email = users[v].email => u = v

\* auth.ts: a cookie opens nothing once the password it was minted under has
\* been changed, though it was changed while the login ran, or changed back.
SessionsEndWithPassword ==
    \A cookie \in issued :
        Session(cookie) # None /\ cookie.user # Operator =>
            cookie.changes = users[cookie.user].changes

\* rate-limit.ts: the attempts the forms look at, all three together, stay
\* within the limit of each window, unless the client's own window had to
\* make room or the process restarted.
AttemptsLimited ==
    \A c \in Clients \ forgotten : \A j \in DOMAIN admitted[c] :
        admitted[c][j] - admitted[c][1] >= WindowLength * ((j - 1) \div Limit)

\* users.ts:74: "a duplicate that slips between them comes back as email_taken
\* all the same".  No database failure is modelled, so nothing else could make
\* a signup unavailable.
RacedSignupIsTold == \A r \in Requests : request[r].answer # "unavailable"
=============================================================================
