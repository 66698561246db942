--------------------------- MODULE ConsoleProofs ----------------------------
(***************************************************************************)
(* Theorems about what runs beside the evaluate path: the credential forms *)
(* and the cookies (Accounts), the forms of apps, keys and policies        *)
(* (Tenants), the creative catalogue (Catalogue) and the retention         *)
(* scheduler (RetentionScheduler).  The four share no row, and each part   *)
(* has an invariant of its own, explained where it begins.                 *)
(***************************************************************************)
EXTENDS Accounts, Catalogue, RetentionScheduler, Tenants, SequenceTheorems, TLAPS

-----------------------------------------------------------------------------
(***************************************************************************)
(* An address has one account, and no cookie outlives its password, for    *)
(* any number of forms, addresses and passwords.  What the second rests on *)
(* is the salt: whoever holds a hash, a cookie or a login that has read    *)
(* the row and not yet verified it, holds one drawn before now, so that    *)
(* the next hash of the account differs from it, though the password may   *)
(* be the same.                                                            *)
(***************************************************************************)
Hashes == [password : Passwords, salt : Nat]
Rows == [email : Emails, hash : Hashes, changes : Nat]
Cookies == [user : Requests \cup {Operator}, tag : Hashes \cup Passwords,
            expires : Nat, changes : Nat]
Handlers == [pc : {"idle", "lookup", "verify", "insert", "done"},
             user : Requests \cup {None}, row : Rows \cup {None},
             answer : {"none", "rate_limited", "invalid", "signed_in", "email_taken",
                       "unavailable", "lost"}]

Types ==
    /\ now \in Nat /\ salts \in Nat /\ adminPassword \in Passwords
    /\ users \in [Requests -> Rows \cup {None}]
    /\ form \in [Requests -> Forms]
    /\ request \in [Requests -> Handlers]
    /\ issued \in SUBSET Cookies
    /\ \A c \in issued : c.user # Operator => c.tag \in Hashes
    /\ \A r \in Requests :
           request[r].pc = "verify" => request[r].user \in Requests /\ request[r].row \in Rows

\* A hash of u held since some time: its salt is spent, and as long as the
\* account still has it the password was not changed.
Current(u, hash, changes) ==
    /\ hash.salt <= salts
    /\ users[u] # None /\ users[u].hash.salt = hash.salt => users[u].changes = changes

SaltsSpent == \A u \in Requests : users[u] # None => users[u].hash.salt <= salts
CookiesCurrent == \A c \in issued : c.user # Operator => Current(c.user, c.tag, c.changes)
LoginsCurrent ==
    \A r \in Requests : request[r].pc = "verify" =>
        Current(request[r].user, request[r].row.hash, request[r].row.changes)

IInv == Types /\ OneAccountPerAddress /\ SaltsSpent /\ CookiesCurrent /\ LoginsCurrent

-----------------------------------------------------------------------------
\* A spent salt stays spent, and a row that is given a fresh one satisfies
\* whoever holds an older hash of the account.
LEMMA FreshSaltKeepsCurrent ==
    ASSUME Types, NEW u \in Requests, NEW row \in Rows,
           row.hash.salt = salts + 1, salts' = salts + 1,
           users' = [users EXCEPT ![u] = row],
           NEW v \in Requests, NEW hash \in Hashes, NEW changes, Current(v, hash, changes)
    PROVE  Current(v, hash, changes)'
<1>1. salts \in Nat /\ hash.salt \in Nat /\ hash.salt <= salts
  BY DEF Types, Hashes, Current
<1>2. CASE v = u
  <2>1. users'[v] = row
    BY <1>2 DEF Types
  <2>2. users'[v].hash.salt # hash.salt
    BY <1>1, <2>1
  <2> QED BY <1>1, <2>2 DEF Current
<1>3. CASE v # u
  <2>1. users'[v] = users[v]
    BY <1>3 DEF Types
  <2> QED BY <1>1, <2>1 DEF Current
<1> QED BY <1>2, <1>3

\* The initial states satisfy the invariant.
LEMMA InitHolds == Init => IInv
<1> SUFFICES ASSUME Init PROVE IInv
  OBVIOUS
<1> USE AccountsAssumption
<1>1. Types
  BY DEF Init, Types, Idle, Handlers
<1>2. OneAccountPerAddress /\ SaltsSpent /\ CookiesCurrent
  BY DEF Init, OneAccountPerAddress, SaltsSpent, CookiesCurrent
<1>3. LoginsCurrent
  BY DEF Init, LoginsCurrent, Idle
<1> QED BY <1>1, <1>2, <1>3 DEF IInv

-----------------------------------------------------------------------------
\* Steps that leave the accounts and the cookies as they are.
LEMMA HandlerKeeps ==
    ASSUME IInv, UNCHANGED <<now, users, salts, adminPassword, issued, form>>,
           NEW r \in Requests, NEW q \in Handlers, request' = [request EXCEPT ![r] = q],
           q.pc = "verify" => /\ q.user \in Requests /\ q.row \in Rows
                              /\ Current(q.user, q.row.hash, q.row.changes)
    PROVE  IInv'
<1>1. \A s \in Requests : request'[s] = IF s = r THEN q ELSE request[s]
  BY DEF IInv, Types
<1>2. request' \in [Requests -> Handlers]
  BY DEF IInv, Types
<1>3. Types'
  BY <1>1, <1>2 DEF IInv, Types
<1>4. LoginsCurrent'
  BY <1>1 DEF IInv, LoginsCurrent, Current
<1>5. OneAccountPerAddress' /\ SaltsSpent' /\ CookiesCurrent'
  BY DEF IInv, OneAccountPerAddress, SaltsSpent, CookiesCurrent, Current
<1> QED BY <1>3, <1>4, <1>5 DEF IInv

\* A form answered with a cookie that holds what the account holds, or what
\* the login has verified.
LEMMA CookieKeeps ==
    ASSUME IInv, UNCHANGED <<now, users, salts, adminPassword, form>>,
           NEW r \in Requests, NEW answer, request' = Answered(r, answer), answer = "signed_in",
           NEW cookie \in Cookies, issued' = issued \cup {cookie},
           cookie.user # Operator =>
               cookie.tag \in Hashes /\ Current(cookie.user, cookie.tag, cookie.changes)
    PROVE  IInv'
<1> DEFINE q == [Idle EXCEPT !.pc = "done", !.answer = answer]
<1>1. q \in Handlers /\ q.pc # "verify"
  BY DEF Idle, Handlers
<1>2. \A s \in Requests : request'[s] = IF s = r THEN q ELSE request[s]
  BY DEF IInv, Types, Answered
<1>3. request' \in [Requests -> Handlers]
  BY <1>1 DEF IInv, Types, Answered
<1>4. Types'
  BY <1>1, <1>2, <1>3 DEF IInv, Types
<1>5. LoginsCurrent'
  <2>1. SUFFICES ASSUME NEW s \in Requests, request'[s].pc = "verify"
                 PROVE  Current(request[s].user, request[s].row.hash, request[s].row.changes)'
    BY DEF LoginsCurrent
  <2>2. s # r
    BY <1>1, <1>2, <2>1
  <2>3. request'[s] = request[s]
    BY <1>2, <2>2
  <2> QED BY <2>1, <2>3 DEF IInv, LoginsCurrent, Current
<1>6. CookiesCurrent'
  BY DEF IInv, CookiesCurrent, Current
<1>7. OneAccountPerAddress' /\ SaltsSpent'
  BY DEF IInv, OneAccountPerAddress, SaltsSpent
<1> QED BY <1>4, <1>5, <1>6, <1>7 DEF IInv

\* A refusal or an error is an answer without a cookie.
LEMMA RefusalKeeps ==
    ASSUME IInv, UNCHANGED <<now, users, salts, adminPassword, issued, form>>,
           NEW r \in Requests,
           NEW answer \in {"rate_limited", "invalid", "email_taken", "unavailable"},
           request' = Answered(r, answer)
    PROVE  IInv'
<1> DEFINE q == [Idle EXCEPT !.pc = "done", !.answer = answer]
<1>1. q \in Handlers /\ q.pc # "verify"
  BY DEF Idle, Handlers
<1>2. request' = [request EXCEPT ![r] = q]
  BY DEF Answered
<1> QED BY <1>1, <1>2, HandlerKeeps

-----------------------------------------------------------------------------
\* The steps of a request.
LEMMA SubmitKeeps ==
    ASSUME IInv, NEW r \in Requests, Submit(r)
    PROVE  IInv'
<1> USE DEF Submit, accountVars
<1>1. CASE request' = [request EXCEPT ![r].pc = "lookup"]
  <2> DEFINE q == [request[r] EXCEPT !.pc = "lookup"]
  <2>1. q \in Handlers /\ q.pc # "verify"
    BY DEF IInv, Types, Handlers
  <2>2. request' = [request EXCEPT ![r] = q]
    BY <1>1 DEF IInv, Types
  <2> QED BY <2>1, <2>2, HandlerKeeps
<1>2. CASE request' = Answered(r, "rate_limited")
  BY <1>2, RefusalKeeps
<1> QED BY <1>1, <1>2

LEMMA LookUpKeeps ==
    ASSUME IInv, NEW r \in Requests, LookUp(r)
    PROVE  IInv'
<1> USE DEF LookUp, accountVars
<1>1. CASE request' = Answered(r, "invalid")
  BY <1>1, RefusalKeeps
<1>2. CASE \E u \in FindUserByEmail(form[r].email) :
             request' = [request EXCEPT ![r].pc = "verify", ![r].user = u, ![r].row = users[u]]
  <2>1. PICK u \in FindUserByEmail(form[r].email) :
             request' = [request EXCEPT ![r].pc = "verify", ![r].user = u, ![r].row = users[u]]
    BY <1>2
  <2>2. u \in Requests /\ users[u] # None /\ users[u] \in Rows
    BY DEF FindUserByEmail, IInv, Types
  <2> DEFINE q == [request[r] EXCEPT !.pc = "verify", !.user = u, !.row = users[u]]
  <2>3. q \in Handlers /\ q.user = u /\ q.row = users[u]
    <3>1. request[r] \in Handlers
      BY DEF IInv, Types
    <3> QED BY <2>2, <3>1 DEF Handlers
  <2>4. request' = [request EXCEPT ![r] = q]
    BY <2>1 DEF IInv, Types
  <2>5. Current(u, users[u].hash, users[u].changes)
    BY <2>2 DEF IInv, SaltsSpent, Current
  <2> HIDE DEF q
  <2> QED BY <2>2, <2>3, <2>4, <2>5, HandlerKeeps
<1> QED BY <1>1, <1>2

LEMMA VerifyPasswordKeeps ==
    ASSUME IInv, NEW r \in Requests, VerifyPassword(r)
    PROVE  IInv'
<1> DEFINE row == request[r].row
           u == request[r].user
           cookie == Cookie(u, MintedHash(u, row), row.changes)
<1>1. u \in Requests /\ row \in Rows /\ Current(u, row.hash, row.changes)
  BY DEF VerifyPassword, IInv, Types, LoginsCurrent
<1>2. CASE issued' = issued \cup {cookie} /\ request' = Answered(r, "signed_in")
  <2>1. cookie \in Cookies /\ cookie.user = u /\ cookie.tag = row.hash
        /\ cookie.changes = row.changes /\ row.hash \in Hashes
    BY <1>1, AccountsAssumption DEF Cookie, MintedHash, Cookies, Rows, IInv, Types
  <2> HIDE DEF cookie, row, u
  <2> QED BY <1>1, <1>2, <2>1, CookieKeeps DEF VerifyPassword, accountVars
<1>3. CASE request' = Answered(r, "invalid") /\ UNCHANGED issued
  BY <1>3, RefusalKeeps DEF VerifyPassword, accountVars
<1> QED BY <1>2, <1>3 DEF VerifyPassword

LEMMA VerifyAdminKeeps ==
    ASSUME IInv, NEW r \in Requests, VerifyAdminPassword(r)
    PROVE  IInv'
<1> DEFINE cookie == Cookie(Operator, adminPassword, 0)
<1>1. CASE issued' = issued \cup {cookie} /\ request' = Answered(r, "signed_in")
  <2>1. cookie \in Cookies /\ cookie.user = Operator
    BY AccountsAssumption DEF Cookie, Cookies, IInv, Types
  <2> HIDE DEF cookie
  <2> QED BY <1>1, <2>1, CookieKeeps DEF VerifyAdminPassword, accountVars
<1>2. CASE request' = Answered(r, "invalid") /\ UNCHANGED issued
  BY <1>2, RefusalKeeps DEF VerifyAdminPassword, accountVars
<1> QED BY <1>1, <1>2 DEF VerifyAdminPassword

LEMMA CheckAddressKeeps ==
    ASSUME IInv, NEW r \in Requests, CheckAddress(r)
    PROVE  IInv'
<1> USE DEF CheckAddress, accountVars
<1>1. CASE request' = Answered(r, "email_taken")
  BY <1>1, RefusalKeeps
<1>2. CASE request' = [request EXCEPT ![r].pc = "insert"]
  <2> DEFINE q == [request[r] EXCEPT !.pc = "insert"]
  <2>1. q \in Handlers /\ q.pc # "verify"
    BY DEF IInv, Types, Handlers
  <2>2. request' = [request EXCEPT ![r] = q]
    BY <1>2 DEF IInv, Types
  <2> QED BY <2>1, <2>2, HandlerKeeps
<1> QED BY <1>1, <1>2

-----------------------------------------------------------------------------
\* Whoever gets a row with a fresh salt, by a signup or a change of password,
\* the rows, the cookies and the logins under way stay sound.
LEMMA FreshSaltKeeps ==
    ASSUME IInv, NEW u \in Requests, NEW row \in Rows,
           row.hash.salt = salts + 1, salts' = salts + 1,
           users' = [users EXCEPT ![u] = row]
    PROVE  /\ salts' \in Nat /\ users' \in [Requests -> Rows \cup {None}]
           /\ SaltsSpent'
           /\ \A v \in Requests, hash \in Hashes, changes \in Nat :
                  Current(v, hash, changes) => Current(v, hash, changes)'
<1>1. Types
  BY DEF IInv
<1>2. salts' \in Nat /\ users' \in [Requests -> Rows \cup {None}]
  BY <1>1 DEF Types
<1>3. SaltsSpent'
  <2> SUFFICES ASSUME NEW v \in Requests, users'[v] # None PROVE users'[v].hash.salt <= salts'
    BY DEF SaltsSpent
  <2>1. CASE v = u
    BY <1>1, <2>1 DEF Types
  <2>2. CASE v # u
    <3>1. users'[v] = users[v] /\ users[v] \in Rows
      BY <1>1, <2>2 DEF Types
    <3>2. users[v].hash.salt \in Nat /\ users[v].hash.salt <= salts
      BY <3>1 DEF IInv, SaltsSpent, Rows, Hashes
    <3> QED BY <1>1, <3>1, <3>2 DEF Types
  <2> QED BY <2>1, <2>2
<1>4. ASSUME NEW v \in Requests, NEW hash \in Hashes, NEW changes \in Nat,
             Current(v, hash, changes)
      PROVE  Current(v, hash, changes)'
  BY <1>1, <1>4, FreshSaltKeepsCurrent
<1> QED BY <1>2, <1>3, <1>4

\* The row u gets, with the request that gives it, if any, gone on or ended.
LEMMA NewRowKeeps ==
    ASSUME IInv, NEW u \in Requests, NEW row \in Rows,
           row.hash.salt = salts + 1, salts' = salts + 1,
           users' = [users EXCEPT ![u] = row],
           \A v \in Requests : users[v] # None /\ users[v].email = row.email => v = u,
           UNCHANGED <<now, adminPassword, form>>,
           request' \in [Requests -> Handlers],
           \A r \in Requests : request'[r].pc = "verify" => request'[r] = request[r],
           issued' \in SUBSET Cookies,
           \A c \in issued' \ issued :
               c.user = u /\ c.tag = row.hash /\ c.changes = row.changes
    PROVE  IInv'
<1>1. /\ salts' \in Nat /\ users' \in [Requests -> Rows \cup {None}] /\ SaltsSpent'
      /\ \A v \in Requests, hash \in Hashes, changes \in Nat :
             Current(v, hash, changes) => Current(v, hash, changes)'
  BY FreshSaltKeeps
<1>2. row.hash \in Hashes /\ row.changes \in Nat
  BY DEF Rows
<1>3. users'[u] = row
  BY DEF IInv, Types
<1>4. Types'
  <2>1. \A c \in issued' : c.user # Operator => c.tag \in Hashes
    BY <1>2 DEF IInv, Types
  <2>2. \A r \in Requests :
           request'[r].pc = "verify" => request'[r].user \in Requests /\ request'[r].row \in Rows
    BY DEF IInv, Types
  <2> QED BY <1>1, <2>1, <2>2 DEF IInv, Types
<1>5. OneAccountPerAddress'
  <2>1. \A v \in Requests : v # u => users'[v] = users[v]
    BY DEF IInv, Types
  <2> QED BY <1>3, <2>1 DEF IInv, OneAccountPerAddress
<1>6. CookiesCurrent'
  <2> SUFFICES ASSUME NEW c \in issued', c.user # Operator
               PROVE  Current(c.user, c.tag, c.changes)'
    BY DEF CookiesCurrent
  <2>1. CASE c \in issued
    <3>1. c.user \in Requests /\ c.tag \in Hashes /\ c.changes \in Nat
      BY <2>1 DEF IInv, Types, Cookies
    <3>2. Current(c.user, c.tag, c.changes)
      BY <2>1 DEF IInv, CookiesCurrent
    <3> QED BY <1>1, <3>1, <3>2
  <2>2. CASE c \notin issued
    BY <1>1, <1>2, <1>3, <2>2 DEF Current, IInv, Types, Hashes
  <2> QED BY <2>1, <2>2
<1>7. LoginsCurrent'
  <2> SUFFICES ASSUME NEW r \in Requests, request'[r].pc = "verify"
               PROVE  Current(request[r].user, request[r].row.hash, request[r].row.changes)'
    BY DEF LoginsCurrent
  <2> DEFINE v == request[r].user
             hash == request[r].row.hash
             changes == request[r].row.changes
  <2>1. request'[r] = request[r]
    OBVIOUS
  <2>2. v \in Requests /\ hash \in Hashes /\ changes \in Nat /\ Current(v, hash, changes)
    BY <2>1 DEF IInv, Types, LoginsCurrent, Rows
  <2>3. hash.salt <= salts' /\ (users'[v] # None /\ users'[v].hash.salt = hash.salt
                                 => users'[v].changes = changes)
    BY <1>1, <2>2 DEF Current
  <2> QED BY <2>1, <2>3 DEF Current
<1> QED BY <1>1, <1>4, <1>5, <1>6, <1>7 DEF IInv

LEMMA InsertUserKeeps ==
    ASSUME IInv, NEW r \in Requests, InsertUser(r)
    PROVE  IInv'
<1> USE AccountsAssumption
<1>1. CASE UniqueEmail(form[r].email)
  <2> DEFINE hash == HashApiSecret(form[r].password)
             row == [email |-> form[r].email, hash |-> hash, changes |-> 0]
             cookie == Cookie(r, hash, 0)
  <2>1. /\ salts' = salts + 1 /\ users' = [users EXCEPT ![r] = row]
        /\ issued' = issued \cup {cookie} /\ request' = Answered(r, "signed_in")
        /\ UNCHANGED <<now, adminPassword, form>>
    BY <1>1 DEF InsertUser
  <2>2. hash \in Hashes /\ hash.salt = salts + 1
    BY DEF HashApiSecret, Hashes, IInv, Types, Forms
  <2>3. row \in Rows /\ row.hash.salt = salts + 1 /\ row.email = form[r].email
    BY <2>2 DEF Rows, IInv, Types, Forms
  <2>4. cookie \in Cookies /\ cookie.user = r /\ cookie.tag = row.hash
        /\ cookie.changes = row.changes
    BY <2>2 DEF Cookie, Cookies, IInv, Types
  <2>5. \A v \in Requests : users[v] # None /\ users[v].email = row.email => v = r
    BY <1>1, <2>3 DEF UniqueEmail, FindUserByEmail
  <2>6. /\ request' \in [Requests -> Handlers]
        /\ \A s \in Requests : request'[s].pc = "verify" => request'[s] = request[s]
    BY <2>1 DEF Answered, Idle, Handlers, IInv, Types
  <2>7. issued' \in SUBSET Cookies
    BY <2>1, <2>4 DEF IInv, Types
  <2>8. \A c \in issued' \ issued : c.user = r /\ c.tag = row.hash /\ c.changes = row.changes
    BY <2>1, <2>4
  <2> HIDE DEF row, hash, cookie
  <2> QED BY <2>1, <2>3, <2>5, <2>6, <2>7, <2>8, NewRowKeeps
<1>2. CASE ~UniqueEmail(form[r].email)
  BY <1>2, RefusalKeeps DEF InsertUser, ViolationAnswer
<1> QED BY <1>1, <1>2

LEMMA ChangePasswordKeeps ==
    ASSUME IInv, NEW u \in Requests, NEW p \in Passwords, ChangeUserPassword(u, p)
    PROVE  IInv'
<1> DEFINE row == [users[u] EXCEPT !.hash = HashApiSecret(p), !.changes = @ + 1]
<1>1. users[u] # None /\ users[u] \in Rows
  BY DEF ChangeUserPassword, IInv, Types
<1>2. HashApiSecret(p) \in Hashes /\ HashApiSecret(p).salt = salts + 1
  BY DEF HashApiSecret, Hashes, IInv, Types
<1>3. row \in Rows /\ row.hash.salt = salts + 1 /\ row.email = users[u].email
  <2> DEFINE rehashed == [users[u] EXCEPT !.hash = HashApiSecret(p)]
  <2>1. rehashed \in Rows /\ rehashed.hash = HashApiSecret(p) /\ rehashed.email = users[u].email
    BY <1>1, <1>2 DEF Rows
  <2>2. row = [rehashed EXCEPT !.changes = @ + 1]
    BY <1>1 DEF Rows
  <2> HIDE DEF row, rehashed
  <2> QED BY <1>2, <2>1, <2>2 DEF Rows
<1>4. users' = [users EXCEPT ![u] = row] /\ salts' = salts + 1
  <2>1. users \in [Requests -> Rows \cup {None}]
    BY DEF IInv, Types
  <2>2. /\ users' = [users EXCEPT ![u].hash = HashApiSecret(p), ![u].changes = @ + 1]
        /\ salts' = salts + 1
    BY DEF ChangeUserPassword
  <2>3. [users EXCEPT ![u].hash = HashApiSecret(p), ![u].changes = @ + 1]
          = [users EXCEPT ![u] = row]
    <3> HIDE DEF HashApiSecret
    <3> QED BY <1>1, <2>1 DEF Rows
  <2> QED BY <2>2, <2>3
<1>5. \A v \in Requests : users[v] # None /\ users[v].email = row.email => v = u
  BY <1>1, <1>3 DEF IInv, OneAccountPerAddress
<1>6. UNCHANGED <<now, adminPassword, issued, form, request>>
  BY DEF ChangeUserPassword
<1>7. request' \in [Requests -> Handlers] /\ issued' \in SUBSET Cookies
  BY <1>6 DEF IInv, Types
<1>8. /\ \A r \in Requests : request'[r].pc = "verify" => request'[r] = request[r]
      /\ \A c \in issued' \ issued :
             c.user = u /\ c.tag = row.hash /\ c.changes = row.changes
      /\ UNCHANGED <<now, adminPassword, form>>
  BY <1>6
<1> HIDE DEF row
<1> QED BY <1>3, <1>4, <1>5, <1>7, <1>8, NewRowKeeps

LEMMA RestartKeeps ==
    ASSUME IInv, NEW p \in Passwords, Restart(p)
    PROVE  IInv'
<1>1. \A r \in Requests : request'[r] = request[r] \/ request'[r].pc = "done"
  BY DEF Restart, Idle
<1>2. request' \in [Requests -> Handlers]
  BY AccountsAssumption DEF Restart, Idle, Handlers, IInv, Types
<1>3. UNCHANGED <<now, users, salts, issued, form>> /\ adminPassword' \in Passwords
  BY DEF Restart
<1>4. Types'
  <2>1. \A r \in Requests :
           request'[r].pc = "verify" => request'[r].user \in Requests /\ request'[r].row \in Rows
    BY <1>1 DEF IInv, Types
  <2> QED BY <1>2, <1>3, <2>1 DEF IInv, Types
<1>5. OneAccountPerAddress' /\ SaltsSpent' /\ CookiesCurrent'
  BY <1>3 DEF IInv, OneAccountPerAddress, SaltsSpent, CookiesCurrent, Current
<1>6. LoginsCurrent'
  BY <1>1, <1>3 DEF IInv, LoginsCurrent, Current
<1> QED BY <1>4, <1>5, <1>6 DEF IInv

LEMMA QuietKeeps ==
    ASSUME IInv, UNCHANGED <<users, salts, adminPassword, issued, form, request>>, now' \in Nat
    PROVE  IInv'
BY DEF IInv, Types, OneAccountPerAddress, SaltsSpent, CookiesCurrent, LoginsCurrent, Current

\* Every step keeps the invariant.
LEMMA StepKeeps == IInv /\ [Next]_vars => IInv'
<1> SUFFICES ASSUME IInv, [Next]_vars PROVE IInv'
  OBVIOUS
<1>1. CASE \E r \in Requests :
             \/ Submit(r) \/ LookUp(r) \/ VerifyPassword(r) \/ VerifyAdminPassword(r)
             \/ CheckAddress(r) \/ InsertUser(r)
  BY <1>1, SubmitKeeps, LookUpKeeps, VerifyPasswordKeeps, VerifyAdminKeeps, CheckAddressKeeps,
     InsertUserKeeps
<1>2. CASE \E u \in Requests, p \in Passwords : ChangeUserPassword(u, p)
  BY <1>2, ChangePasswordKeeps
<1>3. CASE \E p \in Passwords : Restart(p)
  BY <1>3, RestartKeeps
<1>4. CASE Tick
  BY <1>4, QuietKeeps DEF Tick, accountVars, IInv, Types
<1>5. CASE UNCHANGED vars
  BY <1>5, QuietKeeps DEF vars, IInv, Types
<1> QED BY <1>1, <1>2, <1>3, <1>4, <1>5 DEF Next

-----------------------------------------------------------------------------
\* users.ts: an address has one account, however many signups of it race.
THEOREM AddressesAreUnique == Spec => []OneAccountPerAddress
<1>1. IInv => OneAccountPerAddress
  BY DEF IInv
<1> QED BY <1>1, InitHolds, StepKeeps, PTL DEF Spec

\* auth.ts: a cookie that opens a session was minted since the last change of
\* the account's password, whatever login was under way during the change.
THEOREM CookiesEndWithPassword == Spec => []SessionsEndWithPassword
<1>1. IInv => SessionsEndWithPassword
  <2> SUFFICES ASSUME IInv, NEW c \in issued, Session(c) # None, c.user # Operator
               PROVE  c.changes = users[c.user].changes
    BY DEF SessionsEndWithPassword
  <2>1. users[c.user] # None /\ users[c.user].hash = c.tag
    BY DEF Session
  <2> QED BY <2>1 DEF IInv, CookiesCurrent, Current
<1> QED BY <1>1, InitHolds, StepKeeps, PTL DEF Spec

-----------------------------------------------------------------------------
(***************************************************************************)
(* The forms look at no more attempts of a client than the limit of each   *)
(* window allows, for any limit, length and size of the map.  Between the  *)
(* first admitted attempt of a client and its present window lie m windows *)
(* that have run out, which admitted at most Limit each; when the map holds *)
(* no window of the client, the last one has run out too.                  *)
(***************************************************************************)
Paced(attempts, w, time, m) ==
    IF w.count = 0
    THEN time - attempts[1] >= WindowLength * m /\ Len(attempts) <= Limit * m
    ELSE /\ w.startedAt - attempts[1] >= WindowLength * m
         /\ Len(attempts) <= Limit * m + Limit
         /\ Len(attempts) <= Limit * m + w.count

ClientPaced(attempts, w, time) ==
    IF attempts = <<>> THEN w.count = 0 ELSE \E m \in Nat : Paced(attempts, w, time, m)

\* What the attempts of a client looked at so far keep to.
Spaced(attempts) ==
    \A j \in DOMAIN attempts :
        attempts[j] - attempts[1] >= WindowLength * ((j - 1) \div Limit)

Windows == [startedAt : Nat, count : Nat]

LimiterTypes ==
    /\ now \in Nat
    /\ windows \in [Clients -> Windows]
    /\ \A c \in Clients : windows[c].startedAt <= now
    /\ admitted \in [Clients -> Seq(Nat)]
    /\ form \in [Requests -> Forms]

PaceInv ==
    /\ LimiterTypes
    /\ \A c \in Clients \ forgotten :
           ClientPaced(admitted[c], windows[c], now) /\ Spaced(admitted[c])

\* The attempt that comes after whole windows of Limit each is not before them.
LEMMA WholeWindows ==
    ASSUME NEW n \in Nat, NEW m \in Nat, n < Limit * m + Limit
    PROVE  n \div Limit \in Nat /\ WindowLength * (n \div Limit) <= WindowLength * m
<1> USE LimiterAssumption
<1> DEFINE q == n \div Limit
<1>1. q \in Nat /\ Limit * q <= n
  BY SMT
<1>2. Limit * q < Limit * (m + 1)
  <2>1. Limit * (m + 1) = Limit * m + Limit
    BY SMT
  <2> HIDE DEF q
  <2> QED BY <1>1, <2>1
<1>3. q <= m
  <2>1. SUFFICES ASSUME q >= m + 1 PROVE FALSE
    BY <1>1
  <2> HIDE DEF q
  <2>2. Limit * q >= Limit * (m + 1)
    BY <1>1, <2>1, SMT
  <2> QED BY <1>1, <1>2, <2>2, SMT
<1> HIDE DEF q
<1>4. WindowLength * q <= WindowLength * m
  BY <1>1, <1>3, SMT
<1> QED BY <1>1, <1>4 DEF q

\* Where the map makes room, the key that is looked up keeps its window, and
\* another client keeps its own or has none.
LEMMA RoomKeeps ==
    ASSUME LimiterTypes, NEW c \in Clients, NEW room \in Rooms(windows, c, now)
    PROVE  /\ room \in [Clients -> Windows]
           /\ room[c] = windows[c]
           /\ \A d \in Clients : room[d] = windows[d] \/ room[d] = NoWindow
<1> DEFINE pruned == Pruned(windows, now)
<1>1. windows \in [Clients -> Windows] /\ NoWindow \in Windows
  BY DEF LimiterTypes, NoWindow, Windows
<1>2. CASE c \in Tracked(windows) \/ Cardinality(Tracked(windows)) < MaxKeys
  BY <1>1, <1>2 DEF Rooms
<1>3. CASE ~(c \in Tracked(windows) \/ Cardinality(Tracked(windows)) < MaxKeys)
  <2>1. windows[c].count = 0
    BY <1>1, <1>3 DEF Tracked, Windows
  <2>2. /\ pruned \in [Clients -> Windows]
        /\ pruned[c] = windows[c]
        /\ \A d \in Clients : pruned[d] = windows[d] \/ pruned[d] = NoWindow
    BY <1>1, <2>1 DEF Pruned
  <2>3. CASE Cardinality(Tracked(pruned)) < MaxKeys
    BY <1>3, <2>2, <2>3 DEF Rooms
  <2>4. CASE ~(Cardinality(Tracked(pruned)) < MaxKeys)
    <3>1. PICK gone \in Evictions(pruned) :
              room = [d \in Clients |-> IF d \in gone THEN NoWindow ELSE pruned[d]]
      BY <1>3, <2>4 DEF Rooms
    <3>2. gone \subseteq Tracked(pruned)
      BY DEF Evictions
    <3>3. c \notin gone
      BY <2>1, <2>2, <3>2 DEF Tracked
    <3> HIDE DEF pruned
    <3> QED BY <1>1, <2>2, <3>1, <3>3
  <2> QED BY <2>3, <2>4
<1> QED BY <1>2, <1>3

\* Once the window of a client has run out, or when there is none, the
\* windows its attempts were admitted in are all behind.
LEMMA WindowOver ==
    ASSUME NEW attempts \in Seq(Nat), NEW w \in Windows, NEW time \in Nat, w.startedAt <= time,
           ClientPaced(attempts, w, time), attempts # <<>>, w.count = 0 \/ Elapsed(w, time)
    PROVE  \E m \in Nat : /\ time - attempts[1] >= WindowLength * m
                          /\ Len(attempts) <= Limit * m
<1> USE LimiterAssumption
<1>1. PICK m \in Nat : Paced(attempts, w, time, m)
  BY DEF ClientPaced
<1>2. CASE w.count = 0
  BY <1>1, <1>2 DEF Paced
<1>3. CASE w.count # 0
  <2>1. w.startedAt \in Nat /\ attempts[1] \in Nat /\ Len(attempts) \in Nat
    BY DEF Windows
  <2>2. PICK d \in Nat, k \in Nat : d = WindowLength * m /\ k = Limit * m
    BY SMT
  <2>3. /\ time - w.startedAt >= WindowLength
        /\ w.startedAt - attempts[1] >= d
        /\ Len(attempts) <= k + Limit
    BY <1>1, <1>3, <2>2 DEF Elapsed, Paced
  <2>4. WindowLength * (m + 1) = d + WindowLength /\ Limit * (m + 1) = k + Limit
    BY <2>2, SMT
  <2>5. time - attempts[1] >= WindowLength * (m + 1) /\ Len(attempts) <= Limit * (m + 1)
    BY <2>1, <2>3, <2>4
  <2> QED
    <3> WITNESS m + 1 \in Nat
    <3> QED BY <2>5
<1> QED BY <1>2, <1>3

\* An attempt that is admitted in the window v, behind m others.
LEMMA AdmittedIsPaced ==
    ASSUME NEW attempts \in Seq(Nat), NEW v \in Windows, NEW time \in Nat, NEW m \in Nat,
           Spaced(attempts), v.startedAt <= time, v.count # 0,
           Len(attempts) < Limit * m + Limit, Len(attempts) < Limit * m + v.count,
           attempts = <<>> => v.startedAt = time /\ m = 0,
           attempts # <<>> => v.startedAt - attempts[1] >= WindowLength * m
    PROVE  /\ ClientPaced(Append(attempts, time), v, time)
           /\ Spaced(Append(attempts, time))
<1> USE LimiterAssumption
<1> DEFINE n == Len(attempts)
           more == Append(attempts, time)
<1>1. /\ n \in Nat /\ more \in Seq(Nat) /\ Len(more) = n + 1
      /\ \A j \in 1..n : more[j] = attempts[j]
      /\ more[n + 1] = time
  BY DEF Windows
<1>2. more # <<>> /\ DOMAIN more = 1..(n + 1) /\ more[1] \in Nat
  <2> HIDE DEF more, n
  <2> QED BY <1>1
<1>3. PICK d \in Nat, k \in Nat : d = WindowLength * m /\ k = Limit * m
  BY SMT
<1>4. v.startedAt \in Nat /\ v.count \in Nat
  BY DEF Windows
<1>5. v.startedAt - more[1] >= d
  <2>1. CASE attempts = <<>>
    <3>1. more[1] = time /\ d = 0
      BY <1>1, <1>3, <2>1
    <3> QED BY <1>4, <2>1, <3>1
  <2>2. CASE attempts # <<>>
    <3>1. n # 0
      BY <2>2
    <3>2. more[1] = attempts[1]
      BY <1>1, <3>1
    <3> QED BY <1>3, <2>2, <3>2
  <2> QED BY <2>1, <2>2
<1> HIDE DEF more
<1>6. Paced(more, v, time, m)
  <2>1. n + 1 <= k + Limit /\ n + 1 <= k + v.count
    BY <1>1, <1>3, <1>4
  <2> QED BY <1>1, <1>3, <1>5, <2>1 DEF Paced
<1>7. Spaced(more)
  <2> SUFFICES ASSUME NEW j \in 1..(n + 1)
               PROVE  more[j] - more[1] >= WindowLength * ((j - 1) \div Limit)
    BY <1>2 DEF Spaced
  <2>1. CASE j = n + 1
    <3>1. n \div Limit \in Nat /\ WindowLength * (n \div Limit) <= WindowLength * m
      BY <1>1, WholeWindows
    <3>2. WindowLength * (n \div Limit) \in Nat
      <4> HIDE DEF n
      <4> QED BY <3>1, SMT
    <3>3. j - 1 = n /\ more[j] = time
      BY <1>1, <2>1
    <3>4. PICK e \in Nat : e = WindowLength * ((j - 1) \div Limit)
      BY <3>2, <3>3
    <3>5. e <= d
      BY <1>3, <3>1, <3>3, <3>4
    <3> QED BY <1>2, <1>4, <1>5, <3>3, <3>4, <3>5
  <2>2. CASE j # n + 1
    <3>1. j \in 1..n /\ 1 \in 1..n /\ j \in DOMAIN attempts
      BY <1>1, <2>2
    <3>2. more[j] = attempts[j] /\ more[1] = attempts[1]
      BY <1>1, <3>1
    <3> QED BY <3>1, <3>2 DEF Spaced
  <2> QED BY <2>1, <2>2
<1>8. ClientPaced(more, v, time)
  BY <1>2, <1>6 DEF ClientPaced
<1> QED BY <1>7, <1>8 DEF more

\* An attempt, admitted or not.
LEMMA ChargedIsPaced ==
    ASSUME NEW attempts \in Seq(Nat), NEW w \in Windows, NEW time \in Nat, w.startedAt <= time,
           ClientPaced(attempts, w, time), Spaced(attempts)
    PROVE  LET v == ChargedWindow(w, time)
               now_admitted == IF Allowed(v) THEN Append(attempts, time) ELSE attempts
           IN /\ v \in Windows /\ v.startedAt <= time
              /\ ClientPaced(now_admitted, v, time) /\ Spaced(now_admitted)
<1> USE LimiterAssumption
<1>1. PICK v : v = ChargedWindow(w, time)
  OBVIOUS
<1>2. Len(attempts) \in Nat /\ w.count \in Nat /\ w.startedAt \in Nat
  BY DEF Windows
<1>3. CASE w.count = 0 \/ Elapsed(w, time)
  <2>1. v = [startedAt |-> time, count |-> 1]
    BY <1>1, <1>3 DEF ChargedWindow
  <2>2. /\ v \in Windows /\ v.startedAt = time /\ v.startedAt <= time
        /\ v.count = 1 /\ v.count # 0 /\ Allowed(v)
    BY <2>1 DEF Allowed, Windows
  <2>3. CASE attempts = <<>>
    <3>1. Len(attempts) < Limit * 0 + Limit /\ Len(attempts) < Limit * 0 + v.count
      BY <2>2, <2>3
    <3>2. /\ ClientPaced(Append(attempts, time), v, time)
          /\ Spaced(Append(attempts, time))
      BY <2>2, <2>3, <3>1, AdmittedIsPaced
    <3> QED BY <1>1, <2>2, <3>2
  <2>4. CASE attempts # <<>>
    <3>1. PICK m \in Nat : /\ time - attempts[1] >= WindowLength * m
                           /\ Len(attempts) <= Limit * m
      BY <1>3, <2>4, WindowOver
    <3>2. Limit * m \in Nat
      BY SMT
    <3>3. Len(attempts) < Limit * m + Limit /\ Len(attempts) < Limit * m + v.count
      BY <1>2, <2>2, <3>1, <3>2
    <3>5. v.startedAt - attempts[1] >= WindowLength * m
      BY <2>2, <3>1
    <3>4. /\ ClientPaced(Append(attempts, time), v, time)
          /\ Spaced(Append(attempts, time))
      BY <2>2, <2>4, <3>3, <3>5, AdmittedIsPaced
    <3> QED BY <1>1, <2>2, <3>4
  <2> QED BY <2>3, <2>4
<1>4. CASE ~(w.count = 0 \/ Elapsed(w, time))
  <2>1. v = [w EXCEPT !.count = @ + 1]
    BY <1>1, <1>4 DEF ChargedWindow
  <2>2. /\ v \in Windows /\ v.count = w.count + 1 /\ v.count # 0
        /\ v.startedAt = w.startedAt /\ v.startedAt <= time
    BY <1>2, <2>1 DEF Windows
  <2>3. attempts # <<>>
    BY <1>4 DEF ClientPaced
  <2>4. PICK m \in Nat : Paced(attempts, w, time, m)
    BY <2>3 DEF ClientPaced
  <2>5. PICK k \in Nat : k = Limit * m
    BY SMT
  <2>6. /\ w.startedAt - attempts[1] >= WindowLength * m
        /\ Len(attempts) <= k + Limit
        /\ Len(attempts) <= k + w.count
    BY <1>4, <2>4, <2>5 DEF Paced
  <2>7. CASE Allowed(v)
    <3>1. w.count + 1 <= Limit
      BY <2>2, <2>7 DEF Allowed
    <3>2. /\ Len(attempts) < Limit * m + Limit /\ Len(attempts) < Limit * m + v.count
          /\ v.startedAt - attempts[1] >= WindowLength * m
      BY <1>2, <2>2, <2>5, <2>6, <3>1
    <3>3. /\ ClientPaced(Append(attempts, time), v, time)
          /\ Spaced(Append(attempts, time))
      BY <2>2, <2>3, <3>2, AdmittedIsPaced
    <3> QED BY <1>1, <2>2, <2>7, <3>3
  <2>8. CASE ~Allowed(v)
    <3>1. Paced(attempts, v, time, m)
      BY <1>2, <2>2, <2>5, <2>6 DEF Paced
    <3>2. ClientPaced(attempts, v, time)
      BY <2>3, <3>1 DEF ClientPaced
    <3> QED BY <1>1, <2>2, <2>8, <3>2
  <2> QED BY <2>7, <2>8
<1> QED BY <1>3, <1>4

\* Submit charges the client of the form and may take the windows of others.
LEMMA SubmitPaces ==
    ASSUME PaceInv, NEW r \in Requests, Submit(r)
    PROVE  PaceInv'
<1> DEFINE c == form[r].client
<1>1. c \in Clients /\ LimiterTypes /\ UNCHANGED <<now, form>>
  BY DEF Submit, PaceInv, LimiterTypes, Forms
<1>2. PICK room \in Rooms(windows, c, now) :
          /\ windows' = [room EXCEPT ![c] = ChargedWindow(room[c], now)]
          /\ admitted' = IF Allowed(ChargedWindow(room[c], now))
                         THEN [admitted EXCEPT ![c] = Append(@, now)] ELSE admitted
          /\ forgotten' = forgotten \cup {d \in Tracked(windows) \ {c} :
                 room[d] = NoWindow /\ ~Elapsed(windows[d], now)}
  BY DEF Submit, Charge
<1>3. /\ room \in [Clients -> Windows] /\ room[c] = windows[c]
      /\ \A d \in Clients : room[d] = windows[d] \/ room[d] = NoWindow
  BY <1>1, RoomKeeps
<1>4. PICK v : v = ChargedWindow(windows[c], now)
  OBVIOUS
<1>5. PICK sofar : sofar = IF Allowed(v) THEN Append(admitted[c], now) ELSE admitted[c]
  OBVIOUS
<1>6. /\ windows \in [Clients -> Windows] /\ admitted \in [Clients -> Seq(Nat)] /\ now \in Nat
      /\ \A d \in Clients : windows[d].startedAt <= now
  BY <1>1 DEF LimiterTypes
<1>7. v \in Windows /\ v.startedAt <= now
  <2>1. PICK w \in Windows : w = windows[c] /\ w.startedAt <= now
    BY <1>1, <1>6
  <2>2. v = [startedAt |-> now, count |-> 1] \/ v = [w EXCEPT !.count = @ + 1]
    BY <1>4, <2>1 DEF ChargedWindow
  <2>3. CASE v = [startedAt |-> now, count |-> 1]
    BY <1>6, <2>3 DEF Windows
  <2>4. CASE v = [w EXCEPT !.count = @ + 1]
    BY <2>1, <2>4 DEF Windows
  <2> QED BY <2>2, <2>3, <2>4
<1>8. windows' = [room EXCEPT ![c] = v] /\ admitted' = [admitted EXCEPT ![c] = sofar]
  BY <1>2, <1>3, <1>4, <1>5, <1>6
<1>9. sofar \in Seq(Nat)
  BY <1>1, <1>5, <1>6
<1>10. LimiterTypes'
  <2>1. windows' \in [Clients -> Windows] /\ admitted' \in [Clients -> Seq(Nat)]
    BY <1>3, <1>6, <1>7, <1>8, <1>9
  <2>2. \A d \in Clients : windows'[d].startedAt <= now
    BY <1>3, <1>6, <1>7, <1>8 DEF NoWindow
  <2> QED BY <1>1, <2>1, <2>2 DEF LimiterTypes
<1>11. ASSUME NEW d \in Clients \ forgotten'
       PROVE  ClientPaced(admitted'[d], windows'[d], now') /\ Spaced(admitted'[d])
  <2>1. /\ d \in Clients /\ d \notin forgotten
        /\ ClientPaced(admitted[d], windows[d], now) /\ Spaced(admitted[d])
    BY <1>2, <1>11 DEF PaceInv
  <2>2. CASE d = c
    <3>1. windows'[d] = v /\ admitted'[d] = sofar
      BY <1>3, <1>6, <1>8, <2>2
    <3>2. ClientPaced(sofar, v, now) /\ Spaced(sofar)
      BY <1>4, <1>5, <1>6, <2>1, <2>2, ChargedIsPaced
    <3> QED BY <1>1, <3>1, <3>2
  <2>3. CASE d # c
    <3>1. windows'[d] = room[d] /\ admitted'[d] = admitted[d]
      BY <1>3, <1>6, <1>8, <2>1, <2>3
    <3>2. CASE room[d] = windows[d]
      BY <1>1, <2>1, <3>1, <3>2
    <3>3. CASE room[d] # windows[d]
      <4>1. room[d] = NoWindow
        BY <1>3, <2>1, <3>3
      <4>2. windows[d].count = 0 \/ Elapsed(windows[d], now)
        BY <1>2, <1>6, <1>11, <2>1, <2>3, <4>1 DEF Tracked, Windows
      <4>3. NoWindow.count = 0
        BY DEF NoWindow
      <4>4. CASE admitted[d] = <<>>
        BY <1>1, <2>1, <3>1, <4>1, <4>3, <4>4 DEF ClientPaced
      <4>5. CASE admitted[d] # <<>>
        <5>1. admitted[d] \in Seq(Nat) /\ windows[d] \in Windows /\ windows[d].startedAt <= now
          BY <1>6, <2>1
        <5>2. PICK m \in Nat : /\ now - admitted[d][1] >= WindowLength * m
                               /\ Len(admitted[d]) <= Limit * m
          BY <1>6, <2>1, <4>2, <4>5, <5>1, WindowOver
        <5>3. Paced(admitted[d], NoWindow, now, m)
          BY <4>3, <5>2 DEF Paced
        <5>4. ClientPaced(admitted[d], NoWindow, now)
          BY <4>5, <5>3 DEF ClientPaced
        <5> QED BY <1>1, <2>1, <3>1, <4>1, <5>4
      <4> QED BY <4>4, <4>5
    <3> QED BY <3>2, <3>3
  <2> QED BY <2>2, <2>3
<1> QED BY <1>10, <1>11 DEF PaceInv

\* Time only adds to what has run out.
LEMMA TimePaces ==
    ASSUME PaceInv, UNCHANGED <<windows, admitted, forgotten, form>>, now' \in {now, now + 1}
    PROVE  PaceInv'
<1>1. now \in Nat /\ now' \in Nat /\ now <= now'
  BY DEF PaceInv, LimiterTypes
<1>2. LimiterTypes'
  <2>1. \A c \in Clients : windows[c].startedAt \in Nat /\ windows[c].startedAt <= now
    BY DEF PaceInv, LimiterTypes, Windows
  <2> QED BY <1>1, <2>1 DEF PaceInv, LimiterTypes
<1>3. ASSUME NEW c \in Clients \ forgotten
      PROVE  ClientPaced(admitted[c], windows[c], now')
  <2>1. ClientPaced(admitted[c], windows[c], now) /\ admitted[c] \in Seq(Nat)
    BY DEF PaceInv, LimiterTypes
  <2>2. ASSUME admitted[c] # <<>> PROVE \E m \in Nat : Paced(admitted[c], windows[c], now', m)
    <3>1. PICK m \in Nat : Paced(admitted[c], windows[c], now, m)
      BY <2>1, <2>2 DEF ClientPaced
    <3>2. PICK d \in Nat : d = WindowLength * m
      BY LimiterAssumption, SMT
    <3>3. admitted[c][1] \in Nat
      BY <2>1, <2>2
    <3>4. now - admitted[c][1] >= d => now' - admitted[c][1] >= d
      BY <1>1, <3>3
    <3>5. Paced(admitted[c], windows[c], now', m)
      BY <3>1, <3>2, <3>4 DEF Paced
    <3> QED BY <3>5
  <2> QED BY <2>1, <2>2 DEF ClientPaced
<1> QED BY <1>2, <1>3 DEF PaceInv

\* After a restart nobody has a window; whoever lost one counts as forgotten.
LEMMA RestartPaces ==
    ASSUME PaceInv, NEW p \in Passwords, Restart(p)
    PROVE  PaceInv'
<1>1. /\ windows' = [c \in Clients |-> NoWindow] /\ forgotten' = forgotten \cup Tracked(windows)
      /\ UNCHANGED <<now, admitted, form>>
  BY DEF Restart
<1>2. LimiterTypes'
  BY <1>1 DEF PaceInv, LimiterTypes, NoWindow, Windows
<1>3. ASSUME NEW c \in Clients \ forgotten'
      PROVE  ClientPaced(admitted[c], NoWindow, now) /\ Spaced(admitted[c])
  <2>1. windows[c].count = 0 /\ ClientPaced(admitted[c], windows[c], now) /\ Spaced(admitted[c])
    BY <1>1 DEF PaceInv, LimiterTypes, Tracked, Windows
  <2>2. NoWindow.count = 0
    BY DEF NoWindow
  <2> QED BY <2>1, <2>2 DEF ClientPaced, Paced
<1> QED BY <1>1, <1>2, <1>3 DEF PaceInv

LEMMA PaceStep == PaceInv /\ [Next]_vars => PaceInv'
<1> SUFFICES ASSUME PaceInv, [Next]_vars PROVE PaceInv'
  OBVIOUS
<1>1. ASSUME NEW r \in Requests, Submit(r) PROVE PaceInv'
  BY <1>1, SubmitPaces
<1>2. ASSUME NEW r \in Requests,
             LookUp(r) \/ VerifyPassword(r) \/ VerifyAdminPassword(r)
                       \/ CheckAddress(r) \/ InsertUser(r)
      PROVE  PaceInv'
  <2>1. UNCHANGED <<now, windows, admitted, forgotten, form>>
    BY <1>2 DEF LookUp, VerifyPassword, VerifyAdminPassword, CheckAddress, InsertUser, limiterVars
  <2> QED BY <2>1, TimePaces
<1>3. ASSUME NEW u \in Requests, NEW p \in Passwords, ChangeUserPassword(u, p) PROVE PaceInv'
  BY <1>3, TimePaces DEF ChangeUserPassword, limiterVars
<1>4. ASSUME NEW p \in Passwords, Restart(p) PROVE PaceInv'
  BY <1>4, RestartPaces
<1>5. CASE Tick
  BY <1>5, TimePaces DEF Tick, limiterVars
<1>6. CASE UNCHANGED vars
  BY <1>6, TimePaces DEF vars
<1> QED BY <1>1, <1>2, <1>3, <1>4, <1>5, <1>6 DEF Next

\* rate-limit.ts: as long as its window did not have to make room and the
\* process did not restart, no client has more attempts looked at in a row of
\* windows than Limit for each.
THEOREM AttemptsStayLimited == Spec => []AttemptsLimited
<1>1. Init => PaceInv
  <2> SUFFICES ASSUME Init PROVE PaceInv
    OBVIOUS
  <2>1. LimiterTypes
    BY AccountsAssumption DEF Init, LimiterTypes, NoWindow, Windows
  <2>2. \A c \in Clients : ClientPaced(admitted[c], windows[c], now) /\ Spaced(admitted[c])
    BY DEF Init, NoWindow, ClientPaced, Spaced
  <2> QED BY <2>1, <2>2 DEF PaceInv
<1>2. PaceInv => AttemptsLimited
  BY DEF PaceInv, Spaced, AttemptsLimited
<1> QED BY <1>1, <1>2, PaceStep, PTL DEF Spec

-----------------------------------------------------------------------------
(***************************************************************************)
(* However many instances there are, and wherever each of them is stopped, *)
(* an instance that prunes on a living session holds the lock.  That is    *)
(* what the other instances' unlocks, lost sessions and exits must not     *)
(* take away from it, and why two of them never prune at a time.           *)
(***************************************************************************)
Ticks == [pc : {"idle", "reserve", "lock", "list", "prune", "unlock", "release", "finally"},
          session : BOOLEAN, next : Nat]

SchedulerTypes == tick \in [Processes -> Ticks] /\ holder \in Processes \cup {Free}

PrunersHoldTheLock == \A p \in Processes : Pruning(p) /\ tick[p].session => holder = p

SchedulerIInv == SchedulerTypes /\ PrunersHoldTheLock

-----------------------------------------------------------------------------
\* A step of p that ends elsewhere than in a pruning run on a living session,
\* unless it holds the lock, and frees no lock but its own.
LEMMA OwnStepKeeps ==
    ASSUME SchedulerIInv, NEW p \in Processes, NEW t \in Ticks,
           tick' = [tick EXCEPT ![p] = t],
           holder' = holder \/ (holder = p /\ holder' = Free) \/ (holder = Free /\ holder' = p),
           t.pc \in {"list", "prune"} /\ t.session => holder' = p
    PROVE  SchedulerIInv'
<1>1. \A q \in Processes : tick'[q] = IF q = p THEN t ELSE tick[q]
  BY DEF SchedulerIInv, SchedulerTypes
<1>2. SchedulerTypes'
  BY DEF SchedulerIInv, SchedulerTypes
<1>3. PrunersHoldTheLock'
  <2> SUFFICES ASSUME NEW q \in Processes, Pruning(q)', tick'[q].session PROVE holder' = q
    BY DEF PrunersHoldTheLock
  <2>1. CASE q = p
    BY <1>1, <2>1 DEF Pruning, At
  <2>2. CASE q # p
    <3>1. holder = q
      BY <1>1, <2>2 DEF Pruning, At, SchedulerIInv, PrunersHoldTheLock
    <3> QED BY <2>2, <3>1, SchedulerAssumption
  <2> QED BY <2>1, <2>2
<1> QED BY <1>2, <1>3 DEF SchedulerIInv

\* Steps that go on with another part of the tick, or leave it.
LEMMA WorkKeeps ==
    ASSUME SchedulerIInv, NEW p \in Processes, Work(p)
    PROVE  SchedulerIInv'
<1>1. tick[p] \in Ticks /\ tick \in [Processes -> Ticks]
  BY DEF SchedulerIInv, SchedulerTypes
<1>2. CASE Reserve(p)
  <2> DEFINE t == [tick[p] EXCEPT !.pc = "lock", !.session = TRUE]
  <2>1. t \in Ticks /\ t.pc = "lock"
    BY <1>1 DEF Ticks
  <2>2. tick' = [tick EXCEPT ![p] = t] /\ holder' = holder
    BY <1>1, <1>2 DEF Reserve
  <2> QED BY <2>1, <2>2, OwnStepKeeps
<1>3. CASE TryLock(p)
  <2>1. CASE holder = Free
    <3> DEFINE t == [tick[p] EXCEPT !.pc = "list"]
    <3>1. t \in Ticks
      BY <1>1 DEF Ticks
    <3>2. tick' = [tick EXCEPT ![p] = t] /\ holder' = p
      BY <1>1, <1>3, <2>1 DEF TryLock, Goto
    <3> QED BY <2>1, <3>1, <3>2, OwnStepKeeps
  <2>2. CASE holder # Free
    <3> DEFINE t == [tick[p] EXCEPT !.pc = "release"]
    <3>1. t \in Ticks /\ t.pc = "release"
      BY <1>1 DEF Ticks
    <3>2. tick' = [tick EXCEPT ![p] = t] /\ holder' = holder
      BY <1>1, <1>3, <2>2 DEF TryLock, Goto
    <3> QED BY <3>1, <3>2, OwnStepKeeps
  <2> QED BY <2>1, <2>2
<1>4. CASE ListApps(p)
  <2> DEFINE t == [tick[p] EXCEPT !.pc = "prune", !.next = 1]
  <2>1. t \in Ticks /\ t.session = tick[p].session
    BY <1>1 DEF Ticks
  <2>2. tick' = [tick EXCEPT ![p] = t] /\ holder' = holder /\ tick[p].pc = "list"
    BY <1>1, <1>4 DEF ListApps, At
  <2>3. t.session => holder = p
    BY <2>1, <2>2 DEF SchedulerIInv, PrunersHoldTheLock, Pruning, At
  <2> QED BY <2>1, <2>2, <2>3, OwnStepKeeps
<1>5. CASE PruneApp(p)
  <2> DEFINE t == [tick[p] EXCEPT !.next = @ + 1]
  <2>1. t \in Ticks /\ t.session = tick[p].session
    BY <1>1 DEF Ticks
  <2>2. tick' = [tick EXCEPT ![p] = t] /\ holder' = holder /\ tick[p].pc = "prune"
    BY <1>1, <1>5 DEF PruneApp, AfterCommit, At
  <2>3. t.session => holder = p
    BY <2>1, <2>2 DEF SchedulerIInv, PrunersHoldTheLock, Pruning, At
  <2> QED BY <2>1, <2>2, <2>3, OwnStepKeeps
<1>6. CASE RunEnds(p) \/ Throws(p)
  <2>1. PICK pc \in {"unlock", "release", "finally"} : Goto(p, pc) /\ holder' = holder
    BY <1>6 DEF RunEnds, Throws
  <2> DEFINE t == [tick[p] EXCEPT !.pc = pc]
  <2>2. t \in Ticks /\ t.pc \notin {"list", "prune"}
    BY <1>1 DEF Ticks
  <2>3. tick' = [tick EXCEPT ![p] = t]
    BY <1>1, <2>1 DEF Goto
  <2> QED BY <2>1, <2>2, <2>3, OwnStepKeeps
<1>7. CASE Unlock(p)
  <2> DEFINE t == [tick[p] EXCEPT !.pc = "release"]
  <2>1. t \in Ticks /\ t.pc = "release"
    BY <1>1 DEF Ticks
  <2>2. tick' = [tick EXCEPT ![p] = t]
    BY <1>1, <1>7 DEF Unlock, Goto
  <2>3. holder' = holder \/ (holder = p /\ holder' = Free)
    BY <1>7 DEF Unlock, Unlocked
  <2> QED BY <2>1, <2>2, <2>3, OwnStepKeeps
<1>8. CASE Release(p)
  <2> DEFINE t == [tick[p] EXCEPT !.pc = "finally", !.session = FALSE]
  <2>1. t \in Ticks /\ t.pc = "finally"
    BY <1>1 DEF Ticks
  <2>2. tick' = [tick EXCEPT ![p] = t] /\ holder' = holder
    BY <1>1, <1>8 DEF Release
  <2> QED BY <2>1, <2>2, OwnStepKeeps
<1>9. CASE TickEnds(p)
  <2>1. NoTick \in Ticks /\ NoTick.pc = "idle"
    BY DEF NoTick, Ticks
  <2> QED BY <1>9, <2>1, OwnStepKeeps DEF TickEnds
<1> QED BY <1>2, <1>3, <1>4, <1>5, <1>6, <1>7, <1>8, <1>9 DEF Work

\* What happens to the connections and the processes.
LEMMA LifetimeKeeps ==
    ASSUME SchedulerIInv, NEW p \in Processes,
           Timer(p) \/ LoseSession(p) \/ Shutdown(p) \/ ClosePool(p) \/ Exit(p) \/ Boot(p)
    PROVE  SchedulerIInv'
<1>1. tick[p] \in Ticks /\ tick \in [Processes -> Ticks]
  BY DEF SchedulerIInv, SchedulerTypes
<1>2. CASE tick' = [tick EXCEPT ![p].pc = "reserve"] /\ holder' = holder
  <2> DEFINE t == [tick[p] EXCEPT !.pc = "reserve"]
  <2>1. t \in Ticks /\ t.pc = "reserve"
    BY <1>1 DEF Ticks
  <2>2. tick' = [tick EXCEPT ![p] = t]
    BY <1>1, <1>2
  <2> QED BY <1>2, <2>1, <2>2, OwnStepKeeps
<1>3. CASE /\ tick' = [tick EXCEPT ![p].session = FALSE]
           /\ holder' = IF holder = p THEN Free ELSE holder
  <2> DEFINE t == [tick[p] EXCEPT !.session = FALSE]
  <2>1. t \in Ticks /\ ~t.session
    BY <1>1 DEF Ticks
  <2>2. tick' = [tick EXCEPT ![p] = t]
    BY <1>1, <1>3
  <2> QED BY <1>3, <2>1, <2>2, OwnStepKeeps
<1>4. CASE tick' = [tick EXCEPT ![p] = NoTick] /\ holder' = IF holder = p THEN Free ELSE holder
  <2>1. NoTick \in Ticks /\ NoTick.pc = "idle"
    BY DEF NoTick, Ticks
  <2> QED BY <1>4, <2>1, OwnStepKeeps
<1>5. CASE UNCHANGED <<tick, holder>>
  BY <1>5 DEF SchedulerIInv, SchedulerTypes, PrunersHoldTheLock, Pruning, At
<1> QED BY <1>2, <1>3, <1>4, <1>5
        DEF Timer, Goto, LoseSession, Shutdown, ClosePool, Exit, Boot, Lifetime

-----------------------------------------------------------------------------
\* scheduler.ts, rule 1, for any number of instances, apps, ticks and starts:
\* one instance prunes at a time, as long as it keeps its session.
THEOREM OneRunner == SchedulerSpec => []OneRunnerPerLock
<1>1. SchedulerInit => SchedulerIInv
  BY DEF SchedulerInit, SchedulerIInv, SchedulerTypes, Ticks, NoTick, PrunersHoldTheLock, Pruning, At
<1>2. SchedulerIInv /\ [SchedulerNext]_schedulerVars => SchedulerIInv'
  <2> SUFFICES ASSUME SchedulerIInv, [SchedulerNext]_schedulerVars PROVE SchedulerIInv'
    OBVIOUS
  <2>1. CASE SchedulerNext
    BY <2>1, WorkKeeps, LifetimeKeeps DEF SchedulerNext
  <2>2. CASE UNCHANGED schedulerVars
    BY <2>2 DEF schedulerVars, SchedulerIInv, SchedulerTypes, PrunersHoldTheLock, Pruning, At
  <2> QED BY <2>1, <2>2
<1>3. SchedulerIInv => OneRunnerPerLock
  BY DEF SchedulerIInv, PrunersHoldTheLock, OneRunnerPerLock
<1> QED BY <1>1, <1>2, <1>3, PTL DEF SchedulerSpec

-----------------------------------------------------------------------------
(***************************************************************************)
(* Every version of an app's policy names one document, because no         *)
(* sighting of one is ahead of the app's row, whose version only grows.    *)
(* A form writes where its author could see, because what it has checked   *)
(* (Checked) outlasts every step of others: an admin's scope saw every     *)
(* app when it was read, and a member's is held against the owner once     *)
(* more, at a moment that counts as having seen.                           *)
(***************************************************************************)
Scopes == [role : {"none", "member", "admin"}, owner : People \cup {NoOwner}]
AppRows == [owner : People \cup {NoOwner}, policy : Documents, version : Nat \ {0},
            accounts : BOOLEAN]
KeyRows == [app : Errands, revoked : BOOLEAN]
SightingRows == [app : Errands \cup {Elsewhere}, version : Nat, policy : Documents \cup {Blank}]
FormStates == [pc : {"idle", "checking", "writing", "done"}, scope : Scopes,
               saw : SUBSET Errands, told : SightingRows]

TenantTypes ==
    /\ role \in [People -> {"member", "admin"}]
    /\ apps \in [Errands -> AppRows \cup {NoApp}]
    /\ keys \in [Errands -> KeyRows \cup {NoKey}]
    /\ order \in [Errands -> Order]
    /\ errand \in [Errands -> FormStates]
    /\ judged \in [Turns -> SightingRows]

KeysHaveApps == \A k \in Errands : keys[k] # NoKey => keys[k].app \in Registered

\* What an errand will name is not there before it.
IdsUnused == \A e \in Errands : errand[e].pc # "done" => apps[e] = NoApp /\ keys[e] = NoKey

\* What a form has checked so far: its scope was an admin's, and then its
\* author has seen the app, or is a member's still, whose apps it will ask for.
Checked(e) ==
    LET o == order[e] h == errand[e] IN
    /\ h.pc \in {"checking", "writing"} /\ o.kind # "create" => o.app \in Registered
    /\ h.pc \in {"checking", "writing"} /\ o.kind = "revoke" => keys[o.key] # NoKey
    /\ h.pc = "checking" =>
          /\ o.kind # "create"
          /\ o.app \in h.saw \/ (o.by \in People /\ h.scope = MemberScope(o.by))
    /\ h.pc = "writing" /\ o.kind # "create" /\ o.by # Shell =>
          o.app \in h.saw /\ (o.kind = "revoke" => keys[o.key].app = o.app)

RowSighting(a) == [app |-> a, version |-> apps[a].version, policy |-> apps[a].policy]

\* No sighting is ahead of its app's row.
Behind(s) ==
    s = Silent \/
    /\ s.app \in Registered /\ s.version <= apps[s.app].version
    /\ s.version = apps[s.app].version => s.policy = apps[s.app].policy

TenantsInv ==
    /\ TenantTypes /\ KeysHaveApps /\ IdsUnused
    /\ \A e \in Errands : Checked(e)
    /\ \A s \in Sightings : Behind(s)
    /\ VersionsNameDocuments

\* Apps and keys stay, and stay what they are.
RowsStay ==
    /\ \A a \in Registered :
          /\ apps'[a] # NoApp /\ apps[a].version <= apps'[a].version
          /\ apps'[a].version = apps[a].version => apps'[a].policy = apps[a].policy
    /\ \A k \in Errands : keys[k] # NoKey => keys'[k] # NoKey /\ keys'[k].app = keys[k].app

-----------------------------------------------------------------------------
LEMMA RowFacts ==
    ASSUME TenantTypes
    PROVE  /\ \A a \in Errands : a \in Registered <=> apps[a] \in AppRows
           /\ \A a \in Registered : apps[a].version \in Nat \ {0} /\ apps[a].policy \in Documents
           /\ \A k \in Errands : keys[k] # NoKey <=> keys[k] \in KeyRows
<1>1. NoApp \notin AppRows
  BY DEF NoApp, AppRows
<1>2. NoKey \notin KeyRows
  BY TenantsAssumption DEF NoKey, KeyRows
<1>3. \A a \in Errands : a \in Registered <=> apps[a] \in AppRows
  BY <1>1 DEF TenantTypes, Registered
<1>4. \A a \in Registered : apps[a].version \in Nat \ {0} /\ apps[a].policy \in Documents
  BY <1>3 DEF AppRows, Registered
<1> QED BY <1>2, <1>3, <1>4 DEF TenantTypes

\* Where a sighting was made.
LEMMA SightingCases ==
    ASSUME NEW s
    PROVE  s \in Sightings <=> \/ \E a \in Registered : s = RowSighting(a)
                               \/ \E t \in Turns : s = judged[t]
                               \/ \E e \in Errands : s = errand[e].told
BY DEF Sightings, RowSighting

\* A step that sees nothing new but rows as they now are.
LEMMA SightingsKeep ==
    ASSUME TenantsInv, TenantTypes', RowsStay,
           \A s \in Sightings' : \/ s \in Sightings \cup {Silent}
                                \/ \E a \in Errands : apps'[a] # NoApp /\ s = RowSighting(a)'
    PROVE  (\A s \in Sightings : Behind(s))' /\ VersionsNameDocuments'
<1>1. \A a \in Errands : a \in Registered' <=> apps'[a] # NoApp
  BY DEF Registered
<1>2. \A a \in Registered' : apps'[a].version \in Nat \ {0} /\ apps'[a].policy \in Documents
  <2>1. \A a \in Registered' : a \in Errands /\ apps'[a] \in AppRows \cup {NoApp}
    BY DEF TenantTypes, Registered
  <2> QED BY <1>1, <2>1 DEF AppRows
<1>3. \A a \in Registered : a \in Registered' /\ apps[a].version \in Nat
  BY <1>1, RowFacts DEF RowsStay, Registered, TenantsInv
<1>4. ASSUME NEW s \in Sightings \cup {Silent}, s # Silent
      PROVE  /\ s.app \in Registered' /\ s.version \in Nat /\ s.version <= apps'[s.app].version
             /\ s.version = apps'[s.app].version => s.policy = apps'[s.app].policy
  <2>1. s \in Sightings /\ Behind(s)
    BY <1>4 DEF TenantsInv
  <2>2. s.app \in Registered /\ s.version <= apps[s.app].version
        /\ (s.version = apps[s.app].version => s.policy = apps[s.app].policy)
    BY <1>4, <2>1 DEF Behind
  <2>3. s.version \in Nat
    <3>1. \A a \in Registered : RowSighting(a).version \in Nat
      BY RowFacts DEF TenantsInv, RowSighting
    <3>2. \A t \in Turns : judged[t].version \in Nat
      BY DEF TenantsInv, TenantTypes, SightingRows
    <3>3. \A e \in Errands : errand[e].told.version \in Nat
      BY DEF TenantsInv, TenantTypes, FormStates, SightingRows
    <3> QED BY <2>1, <3>1, <3>2, <3>3, SightingCases
  <2> DEFINE a == s.app
  <2>4. a \in Registered /\ a \in Registered' /\ apps[a].version \in Nat
        /\ apps'[a].version \in Nat /\ apps[a].version <= apps'[a].version
        /\ (apps'[a].version = apps[a].version => apps'[a].policy = apps[a].policy)
    BY <1>2, <1>3, <2>2 DEF RowsStay
  <2> QED BY <2>2, <2>3, <2>4
<1>5. ASSUME NEW s, NEW a \in Errands, apps'[a] # NoApp, s = RowSighting(a)'
      PROVE  s.app = a /\ s.version = apps'[a].version /\ s.policy = apps'[a].policy
  BY <1>5 DEF RowSighting
<1>6. (\A s \in Sightings : Behind(s))'
  <2> SUFFICES ASSUME NEW s \in Sightings' PROVE Behind(s)'
    OBVIOUS
  <2>1. CASE s \in Sightings \cup {Silent}
    BY <1>4, <2>1 DEF Behind
  <2>2. CASE \E a \in Errands : apps'[a] # NoApp /\ s = RowSighting(a)'
    <3>1. PICK a \in Errands : apps'[a] # NoApp /\ s = RowSighting(a)'
      BY <2>2
    <3> QED BY <1>1, <1>2, <1>5, <3>1 DEF Behind
  <2> QED BY <2>1, <2>2
<1>7. VersionsNameDocuments'
  <2> SUFFICES ASSUME NEW x \in Sightings', NEW y \in Sightings',
                      x.app = y.app, x.version = y.version
               PROVE  x.policy = y.policy
    BY DEF VersionsNameDocuments
  <2>1. ASSUME NEW u, NEW v \in Sightings \cup {Silent}, NEW a \in Errands,
               apps'[a] # NoApp, u = RowSighting(a)', u.app = v.app, u.version = v.version
        PROVE  u.policy = v.policy
    <3>1. v # Silent
      BY <1>5, <2>1, TenantsAssumption DEF Silent
    <3> QED BY <1>4, <1>5, <2>1, <3>1
  <2> DEFINE Old == Sightings \cup {Silent}
  <2>2. CASE x \in Old /\ y \in Old
    <3>1. CASE x = Silent
      BY <1>4, <2>2, <3>1, TenantsAssumption DEF Silent, Registered
    <3>2. CASE y = Silent
      BY <1>4, <2>2, <3>2, TenantsAssumption DEF Silent, Registered
    <3> QED BY <2>2, <3>1, <3>2 DEF TenantsInv, VersionsNameDocuments
  <2>3. CASE x \notin Old
    <3>1. PICK a \in Errands : apps'[a] # NoApp /\ x = RowSighting(a)'
      BY <2>3
    <3>2. CASE y \in Old
      BY <2>1, <3>1, <3>2
    <3>3. CASE y \notin Old
      <4>1. PICK b \in Errands : apps'[b] # NoApp /\ y = RowSighting(b)'
        BY <3>3
      <4> QED BY <1>5, <3>1, <4>1
    <3> QED BY <3>2, <3>3
  <2>4. CASE y \notin Old
    <3>1. PICK b \in Errands : apps'[b] # NoApp /\ y = RowSighting(b)'
      BY <2>4
    <3>2. CASE x \in Old
      BY <2>1, <3>1, <3>2
    <3> QED BY <2>3, <3>2
  <2> QED BY <2>2, <2>3, <2>4
<1> QED BY <1>6, <1>7

-----------------------------------------------------------------------------
\* Another form's checks outlast a step.
LEMMA ChecksKeep ==
    ASSUME RowsStay, order' = order, NEW e \in Errands, order[e] \in Order,
           Checked(e), errand'[e] = errand[e]
    PROVE  Checked(e)'
<1>1. \A a \in Registered : a \in Registered'
  BY DEF RowsStay, Registered
<1>2. order[e].key \in Errands /\ order[e].app \in Errands
  BY DEF Order
<1>3. \A k \in Errands : keys[k] # NoKey => keys'[k] # NoKey /\ keys'[k].app = keys[k].app
  BY DEF RowsStay
<1>4. order'[e] = order[e]
  OBVIOUS
<1> QED BY <1>1, <1>2, <1>3, <1>4 DEF Checked

\* A step of e's form that says nothing new, or is of a row.
LEMMA FormStepKeeps ==
    ASSUME TenantsInv, NEW e \in Errands, NEW h \in FormStates,
           errand' = [errand EXCEPT ![e] = h], UNCHANGED <<role, order, judged>>,
           apps' \in [Errands -> AppRows \cup {NoApp}], keys' \in [Errands -> KeyRows \cup {NoKey}],
           RowsStay, KeysHaveApps',
           \A f \in Errands \ {e} : errand[f].pc # "done" => apps'[f] = NoApp /\ keys'[f] = NoKey,
           h.pc # "done" => apps' = apps /\ keys' = keys /\ errand[e].pc # "done",
           h.pc # "done" => Checked(e)',
           \/ h.told = errand[e].told \/ h.told = Silent
           \/ h.told.app \in Errands /\ apps'[h.told.app] # NoApp /\ h.told = RowSighting(h.told.app)'
    PROVE  TenantsInv'
<1>1. \A f \in Errands : errand'[f] = IF f = e THEN h ELSE errand[f]
  BY DEF TenantsInv, TenantTypes
<1>2. TenantTypes'
  BY DEF TenantsInv, TenantTypes
<1>3. IdsUnused'
  <2> SUFFICES ASSUME NEW f \in Errands, errand'[f].pc # "done"
               PROVE  apps'[f] = NoApp /\ keys'[f] = NoKey
    BY DEF IdsUnused
  <2>1. CASE f = e
    BY <1>1, <2>1 DEF TenantsInv, IdsUnused
  <2>2. CASE f # e
    BY <1>1, <2>2
  <2> QED BY <2>1, <2>2
<1>4. (\A f \in Errands : Checked(f))'
  <2> SUFFICES ASSUME NEW f \in Errands PROVE Checked(f)'
    OBVIOUS
  <2>1. CASE f = e /\ h.pc = "done"
    <3>1. errand'[f].pc = "done"
      BY <1>1, <2>1
    <3> QED BY <3>1 DEF Checked
  <2>2. CASE f # e
    <3>1. order' = order /\ errand'[f] = errand[f]
      BY <1>1, <2>2
    <3>2. Checked(f) /\ order[f] \in Order
      BY DEF TenantsInv, TenantTypes
    <3> QED BY <3>1, <3>2, ChecksKeep
  <2> QED BY <2>1, <2>2
<1>5. \A s \in Sightings' : \/ s \in Sightings \cup {Silent}
                          \/ \E a \in Errands : apps'[a] # NoApp /\ s = RowSighting(a)'
  <2> SUFFICES ASSUME NEW s \in Sightings'
               PROVE  \/ s \in Sightings \cup {Silent}
                      \/ \E a \in Errands : apps'[a] # NoApp /\ s = RowSighting(a)'
    OBVIOUS
  <2>1. \/ \E a \in Registered' : s = RowSighting(a)'
        \/ \E t \in Turns : s = judged[t]
        \/ \E f \in Errands : s = errand'[f].told
    BY DEF Sightings, RowSighting
  <2>2. CASE \E a \in Registered' : s = RowSighting(a)'
    BY <2>2 DEF Registered
  <2>3. CASE \E t \in Turns : s = judged[t]
    BY <2>3, SightingCases
  <2>4. CASE \E f \in Errands : s = errand'[f].told
    <3>1. PICK f \in Errands : s = errand'[f].told
      BY <2>4
    <3>2. CASE f = e
      BY <1>1, <3>1, <3>2, SightingCases
    <3>3. CASE f # e
      BY <1>1, <3>1, <3>3, SightingCases
    <3> QED BY <3>2, <3>3
  <2> QED BY <2>1, <2>2, <2>3, <2>4
<1>6. (\A s \in Sightings : Behind(s))' /\ VersionsNameDocuments'
  BY <1>2, <1>5, SightingsKeep
<1> QED BY <1>2, <1>3, <1>4, <1>6 DEF TenantsInv

-----------------------------------------------------------------------------
LEMMA InitTenants == TenantsInit => TenantsInv
<1> SUFFICES ASSUME TenantsInit PROVE TenantsInv
  OBVIOUS
<1> USE TenantsAssumption DEF TenantsInit
<1>1. Silent \in SightingRows /\ NewErrand \in FormStates
  BY DEF Silent, SightingRows, NewErrand, FormStates, NoScope, Scopes
<1>2. TenantTypes
  BY <1>1 DEF TenantTypes
<1>3. Registered = {}
  BY DEF Registered
<1>4. KeysHaveApps /\ IdsUnused
  BY DEF KeysHaveApps, IdsUnused
<1>5. \A e \in Errands : Checked(e)
  BY DEF Checked, NewErrand
<1>6. \A s \in Sightings : s = Silent
  BY <1>3, SightingCases DEF NewErrand
<1> QED BY <1>2, <1>4, <1>5, <1>6 DEF TenantsInv, Behind, VersionsNameDocuments

\* A form that leaves the rows alone.
LEMMA ReadingKeeps ==
    ASSUME TenantsInv, NEW e \in Errands, NEW h \in FormStates,
           errand' = [errand EXCEPT ![e] = h], UNCHANGED <<rowVars, order, judged>>,
           h.pc # "done" => errand[e].pc # "done" /\ Checked(e)',
           h.told = errand[e].told \/ h.told = Silent
    PROVE  TenantsInv'
<1>1. apps' = apps /\ keys' = keys /\ UNCHANGED <<role, order, judged>>
  BY DEF rowVars
<1>2. apps' \in [Errands -> AppRows \cup {NoApp}] /\ keys' \in [Errands -> KeyRows \cup {NoKey}]
  BY <1>1 DEF TenantsInv, TenantTypes
<1>3. RowsStay
  <2>1. \A a \in Registered : apps[a] # NoApp /\ apps[a].version <= apps[a].version
    BY RowFacts DEF TenantsInv, Registered
  <2> QED BY <1>1, <2>1 DEF RowsStay
<1>4. KeysHaveApps'
  BY <1>1 DEF TenantsInv, KeysHaveApps, Registered
<1>5. \A f \in Errands \ {e} : errand[f].pc # "done" => apps'[f] = NoApp /\ keys'[f] = NoKey
  BY <1>1 DEF TenantsInv, IdsUnused
<1> QED BY <1>1, <1>2, <1>3, <1>4, <1>5, FormStepKeeps

\* A form that ends with nothing to say.
LEMMA RefusalFacts ==
    ASSUME TenantsInv, NEW e \in Errands, NEW told \in SightingRows
    PROVE  /\ [NewErrand EXCEPT !.pc = "done", !.told = told] \in FormStates
           /\ [NewErrand EXCEPT !.pc = "done", !.told = told].pc = "done"
           /\ [NewErrand EXCEPT !.pc = "done", !.told = told].told = told
           /\ Silent \in SightingRows
BY DEF NewErrand, FormStates, NoScope, Scopes, Silent, SightingRows

LEMMA RefuseKeeps ==
    ASSUME TenantsInv, NEW e \in Errands, Refuse(e), UNCHANGED <<rowVars, order, judged>>
    PROVE  TenantsInv'
<1> DEFINE h == [NewErrand EXCEPT !.pc = "done", !.told = Silent]
<1>1. Silent \in SightingRows
  BY DEF Silent, SightingRows
<1>2. h \in FormStates /\ h.pc = "done" /\ h.told = Silent
  BY <1>1, RefusalFacts
<1>3. errand' = [errand EXCEPT ![e] = h]
  BY DEF Refuse, Ends
<1> HIDE DEF h
<1> QED BY <1>2, <1>3, ReadingKeeps

LEMMA ScopeFacts ==
    ASSUME TenantsInv, NEW who
    PROVE  /\ ScopeFor(who) \in Scopes
           /\ Visible(who) \in SUBSET Errands
           /\ \/ Visible(who) = Registered
              \/ /\ who \in People /\ ScopeFor(who) = MemberScope(who)
                 /\ \A a \in Registered : apps[a].owner = who => a \in Visible(who)
<1>1. CASE who \in People /\ role[who] = "member"
  BY <1>1 DEF ScopeFor, MemberScope, Scopes, Visible, AppIsVisible, OwnsRow, Registered
<1>2. CASE ~(who \in People /\ role[who] = "member")
  BY <1>2 DEF ScopeFor, AdminScope, Scopes, Visible, AppIsVisible, OwnsRow, Registered
<1> QED BY <1>1, <1>2

LEMMA RequireSessionKeeps ==
    ASSUME TenantsInv, NEW e \in Errands, RequireSession(e)
    PROVE  TenantsInv'
<1> DEFINE o == order[e]
           pc == IF o.kind = "create" \/ o.by = Shell THEN "writing" ELSE "checking"
           h == [errand[e] EXCEPT !.pc = pc, !.scope = ScopeFor(o.by), !.saw = Visible(o.by)]
<1>1. errand[e] \in FormStates /\ errand[e].pc = "idle"
  BY DEF RequireSession, TenantsInv, TenantTypes
<1>2. errand' = [errand EXCEPT ![e] = h] /\ UNCHANGED <<rowVars, order, judged>>
  <2>1. errand \in [Errands -> FormStates]
    BY DEF TenantsInv, TenantTypes
  <2> QED BY <2>1 DEF RequireSession
<1>3. /\ h \in FormStates /\ h.pc = pc /\ h.told = errand[e].told
      /\ h.scope = ScopeFor(o.by) /\ h.saw = Visible(o.by)
  BY <1>1, ScopeFacts DEF FormStates
<1>4. errand'[e] = h
  BY <1>2 DEF TenantsInv, TenantTypes
<1>5. Checked(e)'
  <2>1. apps' = apps /\ keys' = keys /\ order' = order /\ Registered' = Registered
    BY <1>2 DEF rowVars, Registered
  <2>2. (o.kind # "create" => o.app \in Registered) /\ (o.kind = "revoke" => keys[o.key] # NoKey)
    BY DEF RequireSession
  <2>3. Visible(o.by) = Registered \/ (o.by \in People /\ ScopeFor(o.by) = MemberScope(o.by))
    BY ScopeFacts
  <2> HIDE DEF h
  <2> QED BY <1>3, <1>4, <2>1, <2>2, <2>3 DEF Checked
<1> HIDE DEF h
<1> QED BY <1>1, <1>2, <1>3, <1>5, ReadingKeeps

LEMMA CheckVisibleKeeps ==
    ASSUME TenantsInv, NEW e \in Errands, CheckVisible(e)
    PROVE  TenantsInv'
<1> DEFINE o == order[e]
           scope == errand[e].scope
           mine == IF o.kind = "revoke" THEN o.key \in ListApiKeys(scope, o.app)
                   ELSE AppIsVisible(scope, o.app)
           h == [errand[e] EXCEPT !.pc = "writing", !.saw = @ \cup Visible(o.by)]
<1>1. /\ errand[e] \in FormStates /\ errand[e].pc = "checking" /\ Checked(e)
      /\ errand \in [Errands -> FormStates]
  BY DEF CheckVisible, TenantsInv, TenantTypes
<1>2. UNCHANGED <<rowVars, order, judged>>
  BY DEF CheckVisible
<1>3. CASE ~mine
  BY <1>2, <1>3, RefuseKeeps DEF CheckVisible
<1>4. CASE mine
  <2>1. errand' = [errand EXCEPT ![e] = h]
    BY <1>1, <1>4 DEF CheckVisible
  <2>2. /\ h \in FormStates /\ h.pc = "writing" /\ h.told = errand[e].told
        /\ h.saw = errand[e].saw \cup Visible(o.by)
    BY <1>1, ScopeFacts DEF FormStates
  <2>3. errand'[e] = h
    BY <1>1, <2>1
  <2>4. apps' = apps /\ keys' = keys /\ order' = order /\ Registered' = Registered
    BY <1>2 DEF rowVars, Registered
  <2>5. /\ o.kind # "create" /\ o.app \in Registered
        /\ o.kind = "revoke" => keys[o.key] # NoKey
        /\ o.app \in errand[e].saw \/ (o.by \in People /\ scope = MemberScope(o.by))
    BY <1>1 DEF Checked
  <2>6. AppIsVisible(scope, o.app) /\ (o.kind = "revoke" => keys[o.key].app = o.app)
    BY <1>4 DEF ListApiKeys
  <2>7. o.app \in h.saw
    <3>1. CASE o.app \in errand[e].saw
      BY <2>2, <3>1
    <3>2. CASE o.by \in People /\ scope = MemberScope(o.by)
      <4>1. apps[o.app].owner = o.by
        BY <2>6, <3>2 DEF AppIsVisible, OwnsRow, MemberScope
      <4>2. o.app \in Visible(o.by)
        BY <2>5, <4>1, ScopeFacts
      <4> QED BY <2>2, <4>2
    <3> QED BY <2>5, <3>1, <3>2
  <2>8. Checked(e)'
    <3> HIDE DEF h
    <3> QED BY <2>2, <2>3, <2>4, <2>5, <2>6, <2>7 DEF Checked
  <2> HIDE DEF h
  <2> QED BY <1>1, <1>2, <2>1, <2>2, <2>8, ReadingKeeps
<1> QED BY <1>3, <1>4

\* A form that writes one row of an app, whose id it names or finds in use.
LEMMA AppWriteKeeps ==
    ASSUME TenantsInv, NEW e \in Errands, NEW a \in Errands, NEW row \in AppRows,
           NEW told \in SightingRows,
           apps' = [apps EXCEPT ![a] = row], Ends(e, told), UNCHANGED <<role, order, judged>>,
           keys' \in [Errands -> KeyRows \cup {NoKey}],
           \A k \in Errands \ {e} : keys'[k] = keys[k],
           keys'[e] = keys[e] \/ (keys[e] = NoKey /\ keys'[e] # NoKey /\ keys'[e].app = a),
           \/ a = e /\ apps[a] = NoApp
           \/ /\ a \in Registered /\ apps[a].version <= row.version
              /\ row.version = apps[a].version => row.policy = apps[a].policy,
           \/ told = Silent
           \/ told = [app |-> a, version |-> row.version, policy |-> row.policy]
    PROVE  TenantsInv'
<1> DEFINE h == [NewErrand EXCEPT !.pc = "done", !.told = told]
<1>1. h \in FormStates /\ h.pc = "done" /\ h.told = told
  BY RefusalFacts
<1>2. errand' = [errand EXCEPT ![e] = h]
  BY DEF Ends
<1>3. \A b \in Errands : apps'[b] = IF b = a THEN row ELSE apps[b]
  BY DEF TenantsInv, TenantTypes
<1>4. apps' \in [Errands -> AppRows \cup {NoApp}]
  BY DEF TenantsInv, TenantTypes
<1>5. row # NoApp
  BY DEF AppRows, NoApp
<1>6. RowsStay
  <2>1. ASSUME NEW b \in Registered
        PROVE  /\ apps'[b] # NoApp /\ apps[b].version <= apps'[b].version
               /\ apps'[b].version = apps[b].version => apps'[b].policy = apps[b].policy
    <3>1. b \in Errands /\ apps[b] # NoApp /\ apps[b].version \in Nat
      BY RowFacts DEF Registered, TenantsInv
    <3>2. CASE b = a
      BY <1>3, <1>5, <3>1, <3>2
    <3>3. CASE b # a
      BY <1>3, <3>1, <3>3
    <3> QED BY <3>2, <3>3
  <2>2. \A k \in Errands : keys[k] # NoKey => keys'[k] # NoKey /\ keys'[k].app = keys[k].app
    OBVIOUS
  <2> QED BY <2>1, <2>2 DEF RowsStay
<1>7. \A b \in Errands : b \in Registered' <=> b = a \/ b \in Registered
  BY <1>3, <1>5 DEF Registered
<1>8. KeysHaveApps'
  <2> SUFFICES ASSUME NEW k \in Errands, keys'[k] # NoKey PROVE keys'[k].app \in Registered'
    BY DEF KeysHaveApps
  <2>1. keys'[k] = keys[k] \/ keys'[k].app = a
    OBVIOUS
  <2>2. keys[k] # NoKey => keys[k].app \in Registered /\ keys[k].app \in Errands
    BY DEF TenantsInv, KeysHaveApps, Registered
  <2> QED BY <1>7, <2>1, <2>2
<1>9. \A f \in Errands \ {e} : errand[f].pc # "done" => apps'[f] = NoApp /\ keys'[f] = NoKey
  <2> SUFFICES ASSUME NEW f \in Errands \ {e}, errand[f].pc # "done"
               PROVE  apps'[f] = NoApp /\ keys'[f] = NoKey
    OBVIOUS
  <2>1. apps[f] = NoApp /\ keys[f] = NoKey
    BY DEF TenantsInv, IdsUnused
  <2>2. f # a
    BY <2>1 DEF Registered
  <2> QED BY <1>3, <2>1, <2>2
<1>10. \/ h.told = Silent
       \/ h.told.app \in Errands /\ apps'[h.told.app] # NoApp /\ h.told = RowSighting(h.told.app)'
  <2>1. apps'[a] = row
    BY <1>3
  <2> HIDE DEF h
  <2> QED BY <1>1, <1>5, <2>1 DEF RowSighting
<1> HIDE DEF h
<1> QED BY <1>1, <1>2, <1>4, <1>6, <1>8, <1>9, <1>10, FormStepKeeps

LEMMA RegisterAppKeeps ==
    ASSUME TenantsInv, NEW e \in Errands, RegisterApp(e)
    PROVE  TenantsInv'
<1> DEFINE o == order[e]
           stored == IF o.policy = Blank THEN [app_id |-> e, body |-> Default] ELSE o.policy
           row == [owner |-> SessionOwner(o.by), policy |-> stored, version |-> 1, accounts |-> FALSE]
           told == [app |-> e, version |-> 1, policy |-> stored]
<1>1. CASE ~Acceptable(o)
  BY <1>1, RefuseKeeps DEF RegisterApp, rowVars
<1>2. CASE Acceptable(o)
  <2>1. o \in Order /\ o.kind = "create" /\ o.policy # Unreadable
    BY <1>2 DEF RegisterApp, Acceptable, Parses, TenantsInv, TenantTypes
  <2>2. stored \in Documents
    BY <2>1, TenantsAssumption DEF Order, Documents
  <2>3. SessionOwner(o.by) \in People \cup {NoOwner}
    BY DEF SessionOwner
  <2>4. row \in AppRows /\ told \in SightingRows /\ row.version = 1 /\ row.policy = stored
    BY <2>2, <2>3 DEF AppRows, SightingRows
  <2>5. apps[e] = NoApp /\ keys[e] = NoKey
    BY DEF RegisterApp, TenantsInv, IdsUnused
  <2>6. /\ apps' = [apps EXCEPT ![e] = row] /\ Ends(e, told)
        /\ keys' = [keys EXCEPT ![e] = [app |-> e, revoked |-> FALSE]]
        /\ UNCHANGED <<role, order, judged>>
    BY <1>2 DEF RegisterApp
  <2>7. /\ keys' \in [Errands -> KeyRows \cup {NoKey}] /\ \A k \in Errands \ {e} : keys'[k] = keys[k]
        /\ keys'[e].app = e /\ keys'[e] # NoKey
    BY <2>6, TenantsAssumption DEF TenantsInv, TenantTypes, KeyRows, NoKey
  <2>8. told = [app |-> e, version |-> row.version, policy |-> row.policy]
    BY <2>4
  <2> HIDE DEF row, told, stored
  <2> QED BY <2>4, <2>5, <2>6, <2>7, <2>8, AppWriteKeeps
<1> QED BY <1>1, <1>2

\* A form that writes has its app before it.
LEMMA WritingFacts ==
    ASSUME TenantsInv, NEW e \in Errands, errand[e].pc = "writing", order[e].kind # "create"
    PROVE  /\ order[e].app \in Errands /\ order[e].app \in Registered
           /\ apps[order[e].app] \in AppRows /\ order[e] \in Order
           /\ order[e].kind = "revoke" => keys[order[e].key] \in KeyRows
           /\ order[e].by # Shell => /\ order[e].app \in errand[e].saw
                                     /\ order[e].kind = "revoke" =>
                                            keys[order[e].key].app = order[e].app
<1>1. Checked(e) /\ order[e] \in Order
  BY DEF TenantsInv, TenantTypes
<1>2. order[e].app \in Errands /\ order[e].app \in Registered
  BY <1>1 DEF Checked, Registered
<1>3. order[e].kind = "revoke" => order[e].key \in Errands /\ keys[order[e].key] # NoKey
  BY <1>1 DEF Checked, Order
<1>4. order[e].by # Shell => /\ order[e].app \in errand[e].saw
                             /\ order[e].kind = "revoke" => keys[order[e].key].app = order[e].app
  BY <1>1 DEF Checked
<1> QED BY <1>1, <1>2, <1>3, <1>4, RowFacts DEF TenantsInv

LEMMA SavePolicyKeeps ==
    ASSUME TenantsInv, NEW e \in Errands, SavePolicy(e)
    PROVE  TenantsInv'
<1> DEFINE o == order[e]
           a == o.app
           version == NextVersion(a)
           row == [apps[a] EXCEPT !.policy = o.policy, !.version = version]
           told == [app |-> a, version |-> version, policy |-> o.policy]
<1>1. CASE ~Acceptable(o)
  BY <1>1, RefuseKeeps DEF SavePolicy, rowVars
<1>2. CASE Acceptable(o)
  <2>1. o.kind = "save" /\ errand[e].pc = "writing"
    BY DEF SavePolicy
  <2>2. a \in Errands /\ a \in Registered /\ apps[a] \in AppRows
    BY <2>1, WritingFacts
  <2>3. o.policy \in Documents
    BY <1>2, <2>1 DEF Acceptable, NamesApp
  <2>4. apps[a].version \in Nat \ {0} /\ version = apps[a].version + 1
    BY <2>2 DEF NextVersion, AppRows
  <2>5. /\ row \in AppRows /\ told \in SightingRows
        /\ row.version = version /\ row.policy = o.policy
    <3> DEFINE edited == [apps[a] EXCEPT !.policy = o.policy]
    <3>1. edited \in AppRows /\ edited.policy = o.policy
      BY <2>2, <2>3 DEF AppRows
    <3>2. row = [edited EXCEPT !.version = version]
      BY <2>2 DEF AppRows
    <3>3. version \in Nat /\ version # 0
      BY <2>4
    <3> HIDE DEF edited, version, row
    <3>4. row \in AppRows /\ row.version = version /\ row.policy = o.policy
      BY <3>1, <3>2, <3>3 DEF AppRows
    <3>5. told \in SightingRows
      BY <2>2, <2>3, <3>3 DEF SightingRows
    <3> QED BY <3>4, <3>5
  <2>6. apps' = [apps EXCEPT ![a] = row] /\ Ends(e, told) /\ UNCHANGED <<role, keys, order, judged>>
    <3>1. apps \in [Errands -> AppRows \cup {NoApp}]
      BY DEF TenantsInv, TenantTypes
    <3> HIDE DEF version
    <3>2. apps' = [apps EXCEPT ![a].policy = o.policy, ![a].version = version]
          /\ Ends(e, told) /\ UNCHANGED <<role, keys, order, judged>>
      BY <1>2 DEF SavePolicy, version
    <3> QED BY <2>2, <3>1, <3>2 DEF AppRows
  <2>7. keys' \in [Errands -> KeyRows \cup {NoKey}] /\ keys' = keys
    BY <2>6 DEF TenantsInv, TenantTypes
  <2>8. apps[a].version <= row.version /\ row.version # apps[a].version
    BY <2>4, <2>5
  <2>9. told = [app |-> a, version |-> row.version, policy |-> row.policy]
    BY <2>5
  <2> HIDE DEF row, told, version
  <2> QED BY <2>2, <2>5, <2>6, <2>7, <2>8, <2>9, AppWriteKeeps
<1> QED BY <1>1, <1>2

LEMMA AffiliateKeeps ==
    ASSUME TenantsInv, NEW e \in Errands, SetAffiliateConfig(e)
    PROVE  TenantsInv'
<1> DEFINE a == order[e].app
           row == [apps[a] EXCEPT !.accounts = ~@]
<1>1. a \in Errands /\ a \in Registered /\ apps[a] \in AppRows
  BY WritingFacts DEF SetAffiliateConfig
<1>2. row \in AppRows /\ row.version = apps[a].version /\ row.policy = apps[a].policy
      /\ row.version \in Nat
  BY <1>1 DEF AppRows
<1>3. /\ apps' = [apps EXCEPT ![a] = row] /\ Ends(e, Silent)
      /\ UNCHANGED <<role, keys, order, judged>>
  BY <1>1 DEF SetAffiliateConfig, AppRows, TenantsInv, TenantTypes
<1>4. keys' \in [Errands -> KeyRows \cup {NoKey}] /\ keys' = keys
  BY <1>3 DEF TenantsInv, TenantTypes
<1>5. Silent \in SightingRows
  BY DEF Silent, SightingRows
<1> HIDE DEF row
<1>6. apps[a].version <= row.version
  BY <1>2
<1> QED BY <1>1, <1>2, <1>3, <1>4, <1>5, <1>6, AppWriteKeeps

\* A form that writes a key.
LEMMA KeyWriteKeeps ==
    ASSUME TenantsInv, NEW e \in Errands, NEW k \in Errands, NEW row \in KeyRows,
           keys' = [keys EXCEPT ![k] = row], Ends(e, Silent),
           UNCHANGED <<role, apps, order, judged>>,
           row.app \in Registered, keys[k] # NoKey => keys[k].app = row.app,
           k = e \/ keys[k] # NoKey
    PROVE  TenantsInv'
<1> DEFINE h == [NewErrand EXCEPT !.pc = "done", !.told = Silent]
<1>1. Silent \in SightingRows
  BY DEF Silent, SightingRows
<1>2. h \in FormStates /\ h.pc = "done" /\ h.told = Silent
  BY <1>1, RefusalFacts
<1>3. errand' = [errand EXCEPT ![e] = h]
  BY DEF Ends
<1>4. row # NoKey
  BY TenantsAssumption DEF KeyRows, NoKey
<1>5. \A j \in Errands : keys'[j] = IF j = k THEN row ELSE keys[j]
  BY DEF TenantsInv, TenantTypes
<1>6. keys' \in [Errands -> KeyRows \cup {NoKey}] /\ apps' \in [Errands -> AppRows \cup {NoApp}]
  BY DEF TenantsInv, TenantTypes
<1>7. RowsStay
  <2>1. \A a \in Registered : apps[a] # NoApp /\ apps[a].version <= apps[a].version
    BY RowFacts DEF TenantsInv, Registered
  <2> QED BY <1>4, <1>5, <2>1 DEF RowsStay
<1>8. KeysHaveApps'
  BY <1>5 DEF TenantsInv, KeysHaveApps, Registered
<1>9. \A f \in Errands \ {e} : errand[f].pc # "done" => apps'[f] = NoApp /\ keys'[f] = NoKey
  BY <1>5 DEF TenantsInv, IdsUnused
<1> HIDE DEF h
<1> QED BY <1>2, <1>3, <1>6, <1>7, <1>8, <1>9, FormStepKeeps

LEMMA RevokeKeeps ==
    ASSUME TenantsInv, NEW e \in Errands, RevokeApiKey(e)
    PROVE  TenantsInv'
<1> DEFINE k == order[e].key
           row == [keys[k] EXCEPT !.revoked = TRUE]
<1>1. k \in Errands /\ keys[k] \in KeyRows
  BY WritingFacts DEF RevokeApiKey, Order
<1>2. keys[k] # NoKey /\ keys[k].app \in Registered
  BY <1>1, RowFacts DEF TenantsInv, KeysHaveApps
<1>3. row \in KeyRows /\ row.app = keys[k].app
  BY <1>1 DEF KeyRows
<1>4. keys' = [keys EXCEPT ![k] = row] /\ Ends(e, Silent) /\ UNCHANGED <<role, apps, order, judged>>
  BY <1>1 DEF RevokeApiKey, KeyRows, TenantsInv, TenantTypes
<1> HIDE DEF row
<1> QED BY <1>1, <1>2, <1>3, <1>4, KeyWriteKeeps

LEMMA IssueKeeps ==
    ASSUME TenantsInv, NEW e \in Errands, IssueApiKey(e)
    PROVE  TenantsInv'
<1> DEFINE row == [app |-> order[e].app, revoked |-> FALSE]
<1>1. order[e].app \in Errands /\ order[e].app \in Registered
  BY WritingFacts DEF IssueApiKey
<1>2. row \in KeyRows /\ row.app = order[e].app
  BY <1>1 DEF KeyRows
<1>3. keys[e] = NoKey
  BY DEF IssueApiKey, TenantsInv, IdsUnused
<1>4. keys' = [keys EXCEPT ![e] = row] /\ Ends(e, Silent) /\ UNCHANGED <<role, apps, order, judged>>
  BY DEF IssueApiKey
<1> HIDE DEF row
<1> QED BY <1>1, <1>2, <1>3, <1>4, KeyWriteKeeps

-----------------------------------------------------------------------------
\* Steps beside the forms.
LEMMA JudgeKeeps ==
    ASSUME TenantsInv, NEW t \in Turns, Judge(t)
    PROVE  TenantsInv'
<1>1. PICK k \in Errands :
          keys[k] # NoKey /\ judged' = [judged EXCEPT ![t] = RowSighting(keys[k].app)]
  BY DEF Judge, RowSighting
<1> DEFINE a == keys[k].app
           s == RowSighting(a)
<1>2. a \in Registered /\ a \in Errands
  BY <1>1 DEF TenantsInv, KeysHaveApps, Registered
<1>3. s \in SightingRows
  BY <1>2, RowFacts DEF TenantsInv, RowSighting, SightingRows
<1>4. UNCHANGED <<role, apps, keys, order, errand>>
  BY DEF Judge, rowVars
<1>5. \A u \in Turns : judged'[u] = IF u = t THEN s ELSE judged[u]
  BY <1>1 DEF TenantsInv, TenantTypes
<1>6. TenantTypes'
  BY <1>1, <1>3, <1>4 DEF TenantsInv, TenantTypes
<1>7. KeysHaveApps' /\ IdsUnused' /\ (\A e \in Errands : Checked(e))'
  BY <1>4 DEF TenantsInv, KeysHaveApps, IdsUnused, Checked, Registered
<1>8. RowsStay
  <2>1. \A b \in Registered : apps[b] # NoApp /\ apps[b].version <= apps[b].version
    BY RowFacts DEF TenantsInv, Registered
  <2> QED BY <1>4, <2>1 DEF RowsStay
<1>9. \A x \in Sightings' : \/ x \in Sightings \cup {Silent}
                          \/ \E b \in Errands : apps'[b] # NoApp /\ x = RowSighting(b)'
  <2> SUFFICES ASSUME NEW x \in Sightings' PROVE x \in Sightings
    OBVIOUS
  <2>1. \/ \E b \in Registered : x = RowSighting(b)
        \/ \E u \in Turns : x = judged'[u]
        \/ \E f \in Errands : x = errand[f].told
    BY <1>4 DEF Sightings, RowSighting, Registered
  <2> HIDE DEF a
  <2> QED BY <1>2, <1>5, <2>1, SightingCases
<1>10. (\A x \in Sightings : Behind(x))' /\ VersionsNameDocuments'
  BY <1>6, <1>8, <1>9, SightingsKeep
<1> QED BY <1>6, <1>7, <1>10 DEF TenantsInv

\* An operator's step: another role, or another owner for an app.
LEMMA InterventionKeeps ==
    ASSUME TenantsInv, TenantTypes', UNCHANGED <<keys, order, errand, judged>>,
           \A a \in Errands : /\ apps'[a] = NoApp <=> apps[a] = NoApp
                              /\ apps'[a].version = apps[a].version
                              /\ apps[a] # NoApp => apps'[a].policy = apps[a].policy
    PROVE  TenantsInv'
<1>1. Registered' = Registered
  BY DEF Registered
<1>2. KeysHaveApps' /\ IdsUnused' /\ (\A e \in Errands : Checked(e))'
  BY <1>1 DEF TenantsInv, KeysHaveApps, IdsUnused, Checked
<1>3. RowsStay
  <2>1. \A b \in Registered : b \in Errands /\ apps[b] # NoApp /\ apps[b].version <= apps[b].version
    BY RowFacts DEF TenantsInv, Registered
  <2> QED BY <2>1 DEF RowsStay
<1>4. \A x \in Sightings' : \/ x \in Sightings \cup {Silent}
                          \/ \E b \in Errands : apps'[b] # NoApp /\ x = RowSighting(b)'
  <2> SUFFICES ASSUME NEW x \in Sightings'
               PROVE  x \in Sightings \/ \E b \in Errands : apps'[b] # NoApp /\ x = RowSighting(b)'
    OBVIOUS
  <2>1. \/ \E b \in Registered' : x = RowSighting(b)'
        \/ \E u \in Turns : x = judged[u]
        \/ \E f \in Errands : x = errand[f].told
    BY DEF Sightings, RowSighting
  <2> QED BY <2>1, SightingCases DEF Registered
<1>5. (\A x \in Sightings : Behind(x))' /\ VersionsNameDocuments'
  BY <1>3, <1>4, SightingsKeep
<1> QED BY <1>2, <1>5 DEF TenantsInv

LEMMA HandOverKeeps ==
    ASSUME TenantsInv, NEW a \in Errands, NEW owner \in People \cup {NoOwner}, HandOver(a, owner)
    PROVE  TenantsInv'
<1> DEFINE row == [apps[a] EXCEPT !.owner = owner]
<1>1. apps[a] \in AppRows
  BY RowFacts DEF HandOver, TenantsInv
<1>2. row \in AppRows /\ row.version = apps[a].version /\ row.policy = apps[a].policy
  BY <1>1 DEF AppRows
<1>3. apps' = [apps EXCEPT ![a] = row] /\ UNCHANGED <<role, keys, order, errand, judged>>
  BY <1>1 DEF HandOver, AppRows, TenantsInv, TenantTypes
<1>4. apps[a] # NoApp /\ row # NoApp
  BY <1>1, <1>2 DEF AppRows, NoApp
<1> HIDE DEF row
<1>5. \A b \in Errands : apps'[b] = IF b = a THEN row ELSE apps[b]
  BY <1>3 DEF TenantsInv, TenantTypes
<1>6. TenantTypes'
  BY <1>2, <1>3 DEF TenantsInv, TenantTypes
<1> QED BY <1>2, <1>3, <1>4, <1>5, <1>6, InterventionKeeps

LEMMA SetRoleKeeps ==
    ASSUME TenantsInv, NEW u \in People, SetRole(u)
    PROVE  TenantsInv'
<1>1. UNCHANGED <<apps, keys, order, errand, judged>>
  BY DEF SetRole
<1>2. role' \in [People -> {"member", "admin"}]
  BY DEF SetRole, TenantsInv, TenantTypes
<1>3. TenantTypes'
  BY <1>1, <1>2 DEF TenantsInv, TenantTypes
<1> QED BY <1>1, <1>3, InterventionKeeps

\* Every step keeps the invariant.
LEMMA TenantsStep == TenantsInv /\ [TenantsNext]_tenantVars => TenantsInv'
<1> SUFFICES ASSUME TenantsInv, [TenantsNext]_tenantVars PROVE TenantsInv'
  OBVIOUS
<1>1. ASSUME NEW e \in Errands,
             \/ RequireSession(e) \/ CheckVisible(e) \/ RegisterApp(e) \/ SavePolicy(e)
             \/ SetAffiliateConfig(e) \/ RevokeApiKey(e) \/ IssueApiKey(e) \/ WriteFails(e)
      PROVE  TenantsInv'
  <2>1. CASE WriteFails(e)
    BY <2>1, RefuseKeeps DEF WriteFails
  <2> QED BY <1>1, <2>1, RequireSessionKeeps, CheckVisibleKeeps, RegisterAppKeeps, SavePolicyKeeps,
             AffiliateKeeps, RevokeKeeps, IssueKeeps
<1>2. CASE UNCHANGED tenantVars
  <2>1. UNCHANGED <<role, apps, keys, order, errand, judged>>
    BY <1>2 DEF tenantVars, rowVars
  <2>2. TenantTypes'
    BY <2>1 DEF TenantsInv, TenantTypes
  <2> QED BY <2>1, <2>2, InterventionKeeps
<1>3. CASE \E t \in Turns : Judge(t)
  BY <1>3, JudgeKeeps
<1>4. CASE \E u \in People : SetRole(u)
  BY <1>4, SetRoleKeeps
<1>5. CASE \E a \in Errands, owner \in People \cup {NoOwner} : HandOver(a, owner)
  BY <1>5, HandOverKeeps
<1> QED BY <1>1, <1>2, <1>3, <1>4, <1>5 DEF TenantsNext

-----------------------------------------------------------------------------
\* A form's step touches only the app it asks for.
LEMMA FormsTouchTheirApp ==
    ASSUME TenantsInv, NEW e \in Errands, NEW a \in Registered, Touched(a),
           \/ RequireSession(e) \/ CheckVisible(e) \/ RegisterApp(e) \/ SavePolicy(e)
           \/ SetAffiliateConfig(e) \/ RevokeApiKey(e) \/ IssueApiKey(e) \/ WriteFails(e)
    PROVE  order[e].by = Shell \/ a \in errand[e].saw
<1> SUFFICES ASSUME order[e].by # Shell PROVE a \in errand[e].saw
  OBVIOUS
<1>1. a \in Errands /\ apps[a] # NoApp
  BY DEF Registered
<1>2. CASE RequireSession(e) \/ CheckVisible(e) \/ WriteFails(e)
  BY <1>2 DEF RequireSession, CheckVisible, WriteFails, rowVars, Touched
<1>3. CASE RegisterApp(e)
  <2>1. apps[e] = NoApp /\ keys[e] = NoKey
    BY <1>3 DEF RegisterApp, TenantsInv, IdsUnused
  <2>2. \A b \in Errands \ {e} : apps'[b] = apps[b] /\ keys'[b] = keys[b]
    BY <1>3 DEF RegisterApp, TenantsInv, TenantTypes
  <2> QED BY <1>1, <2>1, <2>2 DEF Touched
<1>4. CASE SavePolicy(e) \/ SetAffiliateConfig(e)
  <2>1. errand[e].pc = "writing" /\ order[e].kind # "create" /\ keys' = keys
    BY <1>4 DEF SavePolicy, SetAffiliateConfig
  <2>2. order[e].app \in errand[e].saw
    BY <2>1, WritingFacts
  <2>3. \A b \in Errands \ {order[e].app} : apps'[b] = apps[b]
    BY <1>4 DEF SavePolicy, SetAffiliateConfig, TenantsInv, TenantTypes
  <2> QED BY <1>1, <2>1, <2>2, <2>3 DEF Touched
<1>5. CASE RevokeApiKey(e)
  <2>1. errand[e].pc = "writing" /\ order[e].kind = "revoke" /\ apps' = apps
    BY <1>5 DEF RevokeApiKey
  <2>2. order[e].app \in errand[e].saw /\ keys[order[e].key].app = order[e].app
    BY <2>1, WritingFacts
  <2>3. \A k \in Errands \ {order[e].key} : keys'[k] = keys[k]
    BY <1>5 DEF RevokeApiKey, TenantsInv, TenantTypes
  <2> QED BY <2>1, <2>2, <2>3 DEF Touched
<1>6. CASE IssueApiKey(e)
  <2>1. keys[e] = NoKey
    BY <1>6 DEF IssueApiKey, TenantsInv, IdsUnused
  <2>2. apps' = apps /\ \A k \in Errands \ {e} : keys'[k] = keys[k]
    BY <1>6 DEF IssueApiKey, TenantsInv, TenantTypes
  <2> QED BY <2>1, <2>2 DEF Touched
<1> QED BY <1>2, <1>3, <1>4, <1>5, <1>6

LEMMA OwnersStep == TenantsInv /\ [TenantsNext]_tenantVars => [OwnersWrite]_tenantVars
<1> SUFFICES ASSUME TenantsInv, TenantsNext PROVE OwnersWrite
  OBVIOUS
<1> SUFFICES ASSUME NEW e \in Errands, NEW a \in Registered, errand'[e] # errand[e], Touched(a)
             PROVE  order[e].by = Shell \/ a \in errand[e].saw
  BY DEF OwnersWrite
<1>1. ASSUME NEW f \in Errands,
             \/ RequireSession(f) \/ CheckVisible(f) \/ RegisterApp(f) \/ SavePolicy(f)
             \/ SetAffiliateConfig(f) \/ RevokeApiKey(f) \/ IssueApiKey(f) \/ WriteFails(f)
      PROVE  f = e
  <2>1. \E h : errand' = [errand EXCEPT ![f] = h]
    <3>1. CASE RequireSession(f)
      BY <3>1 DEF RequireSession, TenantsInv, TenantTypes
    <3>2. CASE CheckVisible(f)
      BY <3>2 DEF CheckVisible, Refuse, Ends, TenantsInv, TenantTypes
    <3>3. CASE RegisterApp(f) \/ SavePolicy(f)
      BY <3>3 DEF RegisterApp, SavePolicy, Refuse, Ends
    <3>4. CASE SetAffiliateConfig(f) \/ RevokeApiKey(f) \/ IssueApiKey(f) \/ WriteFails(f)
      BY <3>4 DEF SetAffiliateConfig, RevokeApiKey, IssueApiKey, WriteFails, Refuse, Ends
    <3> QED BY <1>1, <3>1, <3>2, <3>3, <3>4
  <2> QED BY <2>1 DEF TenantsInv, TenantTypes
<1>2. CASE \E f \in Errands :
             \/ RequireSession(f) \/ CheckVisible(f) \/ RegisterApp(f) \/ SavePolicy(f)
             \/ SetAffiliateConfig(f) \/ RevokeApiKey(f) \/ IssueApiKey(f) \/ WriteFails(f)
  BY <1>1, <1>2, FormsTouchTheirApp
<1>3. CASE errand' = errand
  BY <1>3
<1> QED BY <1>2, <1>3 DEF TenantsNext, Judge, SetRole, HandOver

\* Whatever is saved, judged or handed over at once, a version of an app's
\* policy stays the name of one document, and a form writes only to an app
\* whose author could see it at some moment since it was sent.
THEOREM EditsAreTheirAuthors == TenantsSpec => EditsHold
<1>1. TenantsInv => VersionsNameDocuments
  BY DEF TenantsInv
<1> QED BY <1>1, InitTenants, TenantsStep, OwnersStep, PTL DEF TenantsSpec, EditsHold

-----------------------------------------------------------------------------
(***************************************************************************)
(* The catalogue.  A hash follows its advertiser because what a writer     *)
(* knows of its advertiser is so until an import renames it (Informed).    *)
(* Two creatives share a key only when they were given it at overlapping   *)
(* times because a writer that is about to give its key to a creative has  *)
(* looked, since it began, at everyone who holds it (MayGive), and whoever *)
(* is given it later is given it now (TableGrows); what an open import has *)
(* written is locked, so that it still holds when it commits (KeepsGiving, *)
(* PendingSince).                                                          *)
(***************************************************************************)
Transactions ==
    [pc : {"ready", "advertiser", "headline", "write", "find", "upsert", "saved", "refused", "thrown"},
     name : Names \cup {Listed}, known : Names \cup {Nobody}, next : Nat \ {0},
     found : CreativeIds \cup {Nobody}, existing : CreativeRows \cup {Nobody}, began : Nat,
     renames : BOOLEAN, rows : [CreativeIds -> CreativeRows \cup {Nobody}]]

CatalogueTypes ==
    /\ advertisers \in [Domains -> Names \cup {Nobody}]
    /\ creatives \in [CreativeIds -> CreativeRows \cup {Nobody}]
    /\ job \in Jobs /\ commits \in Nat
    /\ writer \in [Writers -> Transactions]

\* Where a writer is, and what it may have written by then.
Placed(w) ==
    LET j == job[w] t == writer[w] IN
    /\ t.pc = "ready" => t.name = j.name
    /\ j.kind = "seed" \/ t.pc \in {"advertiser", "headline", "write"} => t.name \in Names
    /\ t.pc \in {"find", "upsert"} => j.kind = "seed"
    /\ t.pc \in {"headline", "write"} => j.kind # "seed"
    /\ j.kind # "seed" => t.next = 1 /\ t.found = Nobody
    /\ t.pc = "upsert" => t.next <= Len(j.entries)
    /\ t.found # Nobody => t.existing \in CreativeRows
    /\ t.pc \notin {"find", "upsert"} => t.rows = NoRows
    /\ \A c \in CreativeIds : t.rows[c] # Nobody =>
           /\ t.rows[c].domain = j.domain
           /\ t.rows[c].hash = <<t.name, t.rows[c].headline, t.rows[c].copy>>

\* What a writer knows of its advertiser is so, unless an import renamed it.
Informed(w) ==
    LET d == job[w].domain t == writer[w] IN
    /\ t.known # Nobody => advertisers[d] # Nobody /\ (d \notin renamed => advertisers[d] = t.known)
    /\ t.pc \in {"headline", "write"} /\ t.known # Nobody => t.known = t.name
    /\ t.pc \in {"find", "upsert"} => t.renames \/ t.known = t.name

\* A creative says of itself what its advertiser's row says.
Truthful(c) ==
    LET row == creatives[c] IN
    row # Nobody =>
        /\ advertisers[row.domain] # Nobody
        /\ row.domain \notin renamed => row.hash = <<advertisers[row.domain], row.headline, row.copy>>

Timed(c) ==
    creatives[c] # Nobody => creatives[c].began < creatives[c].written /\ creatives[c].written <= commits

\* No writer knows of a time to come.
Past(w) ==
    /\ writer[w].began <= commits
    /\ writer[w].existing # Nobody => writer[w].existing.began <= commits
    /\ \A c \in CreativeIds : writer[w].rows[c] # Nobody => writer[w].rows[c].began <= commits

Exclusive == \A v, w \in Writers, c \in CreativeIds :
    writer[v].rows[c] # Nobody /\ writer[w].rows[c] # Nobody => v = w

SameGiving(p, q) == Key(p) = Key(q) /\ p.began = q.began /\ p.written = q.written

\* A row an import writes under the key it had is the table's, which is locked.
KeepsGiving(w) == \A c \in CreativeIds :
    LET p == writer[w].rows[c] IN
    p # Nobody /\ p.written # Open => creatives[c] # Nobody /\ SameGiving(p, creatives[c])

\* Whoever holds a key in what w sees, by a transaction that has ended, was
\* given it after some time.
GivenSince(w, key, target, time) == \A d \in CreativeIds \ {target} :
    Seen(w, d) # Nobody /\ Seen(w, d).written # Open /\ Key(Seen(w, d)) = key =>
        time < Seen(w, d).written

PendingSince(w) == \A c \in CreativeIds :
    LET p == writer[w].rows[c] IN
    p # Nobody /\ p.written = Open => GivenSince(w, Key(p), c, p.began)

Since(w) == IF writer[w].found = Nobody THEN writer[w].began ELSE writer[w].existing.began
Target(w) == IF writer[w].found = Nobody THEN Entry(w).id ELSE writer[w].found

\* What it is about to give its key to may have it.
MayGive(w) ==
    \/ writer[w].pc = "upsert"
    \/ writer[w].pc = "write" /\ writer[w].known # Nobody
    => GivenSince(w, KeyOf(w, Entry(w)), Target(w), Since(w))

WriterInv(w) ==
    Placed(w) /\ Informed(w) /\ Past(w) /\ KeepsGiving(w) /\ PendingSince(w) /\ MayGive(w)

CatalogueInv ==
    /\ CatalogueTypes /\ Exclusive
    /\ \A c \in CreativeIds : Truthful(c) /\ Timed(c)
    /\ \A w \in Writers : WriterInv(w)
    /\ SharedKeysOverlapped

-----------------------------------------------------------------------------
LEMMA NobodyIsNoRow == Nobody \notin CreativeRows
BY CatalogueAssumption

\* Jobs, and the entry a writer is at.
LEMMA JobFacts ==
    ASSUME CatalogueTypes, NEW w \in Writers
    PROVE  /\ job[w].kind \in {"create", "update", "seed"} /\ job[w].domain \in Domains
           /\ job[w].name \in Names \cup {Listed} /\ job[w].catalog \in Catalogs
           /\ job[w].entries \in Seq(Entries) /\ Len(job[w].entries) \in Nat
           /\ job[w].kind = "seed" => job[w].name \in Names
           /\ job[w].kind # "seed" => Len(job[w].entries) = 1
           /\ writer[w].next \in 1..Len(job[w].entries) => Entry(w) \in Entries
<1>1. job \in Jobs
  BY DEF CatalogueTypes
<1>2. job \in [Writers ->
           [kind : {"create", "update", "seed"}, domain : Domains, name : Names \cup {Listed},
            catalog : Catalogs, entries : Seq(Entries)]]
  BY <1>1, CatalogueAssumption
<1>3. IF job[w].kind = "seed" THEN job[w].name \in Names ELSE Len(job[w].entries) = 1
  BY <1>1, CatalogueAssumption
<1>4. job[w].entries \in Seq(Entries)
  BY <1>2
<1>5. Len(job[w].entries) \in Nat
  BY <1>4
<1>6. writer[w].next \in 1..Len(job[w].entries) => Entry(w) \in Entries
  BY <1>4, ElementOfSeq DEF Entry
<1> QED BY <1>2, <1>3, <1>4, <1>5, <1>6

LEMMA EntryFacts ==
    ASSUME CatalogueInv, NEW w \in Writers, writer[w].pc = "upsert" \/ job[w].kind # "seed"
    PROVE  Entry(w) \in Entries /\ Entry(w).id \in CreativeIds
<1>1. writer[w] \in Transactions /\ Placed(w) /\ CatalogueTypes
  BY DEF CatalogueInv, CatalogueTypes, WriterInv
<1>2. writer[w].next \in Nat \ {0}
  BY <1>1 DEF Transactions
<1>3. writer[w].next \in 1..Len(job[w].entries)
  <2>1. Len(job[w].entries) \in Nat
    BY <1>1, JobFacts
  <2>2. CASE job[w].kind # "seed"
    <3>1. writer[w].next = 1 /\ Len(job[w].entries) = 1
      BY <1>1, <2>2, JobFacts DEF Placed
    <3> QED BY <3>1
  <2>3. CASE job[w].kind = "seed"
    <3>1. writer[w].next <= Len(job[w].entries)
      BY <1>1, <2>3 DEF Placed
    <3> QED BY <1>2, <2>1, <3>1
  <2> QED BY <2>2, <2>3
<1>4. Entry(w) \in Entries
  BY <1>1, <1>3, JobFacts
<1> QED BY <1>4 DEF Entries

LEMMA CreativeRowFacts ==
    ASSUME CatalogueTypes, NEW w \in Writers, NEW entry \in Entries,
           NEW old \in CreativeRows \cup {Nobody}, NEW end \in Nat, writer[w].name \in Names,
           writer[w].found # Nobody => writer[w].existing \in CreativeRows
    PROVE  /\ Row(w, entry, old, end) \in CreativeRows
           /\ Key(Row(w, entry, old, end)) = KeyOf(w, entry)
           /\ Row(w, entry, old, end).domain = job[w].domain
           /\ Row(w, entry, old, end).hash =
                  <<writer[w].name, Row(w, entry, old, end).headline, Row(w, entry, old, end).copy>>
           /\ \/ /\ old # Nobody /\ Key(old) = KeyOf(w, entry)
                 /\ Row(w, entry, old, end).began = old.began
                 /\ Row(w, entry, old, end).written = old.written
              \/ /\ Row(w, entry, old, end).began = Since(w)
                 /\ Row(w, entry, old, end).written = end
<1> DEFINE kept == old # Nobody /\ Key(old) = KeyOf(w, entry)
           began == IF kept THEN old.began ELSE Since(w)
           written == IF kept THEN old.written ELSE end
           hash == <<writer[w].name, entry.headline, entry.copy>>
           r == [domain |-> job[w].domain, catalog |-> job[w].catalog, headline |-> entry.headline,
                 copy |-> entry.copy, active |-> TRUE, hash |-> hash, began |-> began,
                 written |-> written]
<1>1. Row(w, entry, old, end) = r
  BY DEF Row, Since, ContentHash
<1>2. began \in Nat /\ written \in Nat
  BY DEF CatalogueTypes, Transactions, CreativeRows, Since
<1>3. hash \in Names \X Headlines \X Copies /\ entry.headline \in Headlines /\ entry.copy \in Copies
  BY DEF Entries
<1>4. job[w].domain \in Domains /\ job[w].catalog \in Catalogs
  BY JobFacts
<1> HIDE DEF began, written, hash
<1>5. r \in CreativeRows
  BY <1>2, <1>3, <1>4 DEF CreativeRows
<1>6. Key(r) = KeyOf(w, entry)
  BY DEF Key, KeyOf
<1>7. r.domain = job[w].domain /\ r.hash = <<writer[w].name, r.headline, r.copy>>
  BY DEF hash
<1>8. \/ old # Nobody /\ Key(old) = KeyOf(w, entry) /\ r.began = old.began /\ r.written = old.written
      \/ r.began = Since(w) /\ r.written = end
  BY DEF began, written
<1> QED BY <1>1, <1>5, <1>6, <1>7, <1>8

-----------------------------------------------------------------------------
\* What the table, and what the writers' pending rows, are to a writer w.
LEMMA SeenFacts ==
    ASSUME CatalogueInv, NEW w \in Writers, NEW c \in CreativeIds
    PROVE  /\ Seen(w, c) \in CreativeRows \cup {Nobody}
           /\ Seen(w, c) # Nobody /\ Seen(w, c).written # Open =>
                  creatives[c] # Nobody /\ SameGiving(Seen(w, c), creatives[c])
           /\ Seen(w, c) # Nobody => Seen(w, c).began <= commits
<1>1. /\ writer[w].rows[c] \in CreativeRows \cup {Nobody}
      /\ creatives[c] \in CreativeRows \cup {Nobody}
  BY DEF CatalogueInv, CatalogueTypes, Transactions
<1>2. CASE writer[w].rows[c] # Nobody
  <2>1. Seen(w, c) = writer[w].rows[c]
    BY <1>2 DEF Seen
  <2>2. KeepsGiving(w) /\ Past(w)
    BY DEF CatalogueInv, WriterInv
  <2> QED BY <1>1, <1>2, <2>1, <2>2 DEF KeepsGiving, Past
<1>3. CASE writer[w].rows[c] = Nobody
  <2>1. Seen(w, c) = creatives[c]
    BY <1>3 DEF Seen
  <2>2. Timed(c) /\ commits \in Nat
    BY DEF CatalogueInv, CatalogueTypes
  <2>3. creatives[c] # Nobody => creatives[c].began <= commits
    BY <1>1, <2>2 DEF Timed, CreativeRows
  <2> QED BY <1>1, <2>1, <2>3 DEF SameGiving
<1> QED BY <1>2, <1>3

\* Two rows of the table.
LEMMA PairFacts ==
    ASSUME CatalogueInv, NEW c \in CreativeIds, NEW d \in CreativeIds, c # d,
           creatives[c] # Nobody, creatives[d] # Nobody, Key(creatives[c]) = Key(creatives[d])
    PROVE  creatives[c].began < creatives[d].written
BY DEF CatalogueInv, SharedKeysOverlapped, Live

\* A step of one writer that leaves the table alone.
LEMMA PrivateStepKeeps ==
    ASSUME CatalogueInv, NEW w \in Writers, NEW t \in Transactions,
           writer' = [writer EXCEPT ![w] = t],
           UNCHANGED <<advertisers, creatives, job, commits, renamed>>,
           WriterInv(w)',
           \A c \in CreativeIds :
               t.rows[c] # Nobody => writer[w].rows[c] # Nobody \/ ~Locked(c, w)
    PROVE  CatalogueInv'
<1>1. \A v \in Writers : writer'[v] = IF v = w THEN t ELSE writer[v]
  BY DEF CatalogueInv, CatalogueTypes
<1>2. CatalogueTypes'
  BY DEF CatalogueInv, CatalogueTypes
<1>3. Exclusive'
  <2> SUFFICES ASSUME NEW u \in Writers, NEW v \in Writers, NEW c \in CreativeIds,
                      writer'[u].rows[c] # Nobody, writer'[v].rows[c] # Nobody, u # v
               PROVE  FALSE
    BY DEF Exclusive
  <2>1. CASE u # w /\ v # w
    BY <1>1, <2>1 DEF CatalogueInv, Exclusive
  <2>2. ASSUME NEW x \in Writers, x # w, writer[x].rows[c] # Nobody, t.rows[c] # Nobody PROVE FALSE
    BY <2>2 DEF Locked, CatalogueInv, Exclusive
  <2> QED BY <1>1, <2>1, <2>2
<1>4. \A c \in CreativeIds : (Truthful(c) /\ Timed(c))'
  BY DEF CatalogueInv, Truthful, Timed
<1>5. \A v \in Writers : WriterInv(v)'
  <2> SUFFICES ASSUME NEW v \in Writers, v # w PROVE WriterInv(v)'
    OBVIOUS
  <2>1. writer'[v] = writer[v]
    BY <1>1
  <2>2. WriterInv(v)
    BY DEF CatalogueInv
  <2>3. \A key, target, time : GivenSince(v, key, target, time) => GivenSince(v, key, target, time)'
    BY <2>1 DEF GivenSince, Seen
  <2>4. (Placed(v) /\ Informed(v) /\ Past(v) /\ KeepsGiving(v))'
    BY <2>1, <2>2 DEF WriterInv, Placed, Informed, Past, KeepsGiving
  <2>5. PendingSince(v)'
    BY <2>1, <2>2, <2>3 DEF WriterInv, PendingSince
  <2>6. MayGive(v)'
    BY <2>1, <2>2, <2>3 DEF WriterInv, MayGive, KeyOf, Entry, Target, Since
  <2> QED BY <2>4, <2>5, <2>6 DEF WriterInv
<1>6. SharedKeysOverlapped'
  BY DEF CatalogueInv, SharedKeysOverlapped, Live
<1> QED BY <1>2, <1>3, <1>4, <1>5, <1>6 DEF CatalogueInv

\* One that writes no row either, or forgets those it wrote.
LEMMA QuietStepKeeps ==
    ASSUME CatalogueInv, NEW w \in Writers, NEW t \in Transactions,
           writer' = [writer EXCEPT ![w] = t],
           UNCHANGED <<advertisers, creatives, job, commits, renamed>>,
           t.rows = writer[w].rows \/ t.rows = NoRows,
           (Placed(w) /\ Informed(w) /\ MayGive(w))',
           t.began <= commits,
           t.existing # Nobody => t.existing.began <= commits
    PROVE  CatalogueInv'
<1>1. writer'[w] = t
  BY DEF CatalogueInv, CatalogueTypes
<1>2. \A c \in CreativeIds : t.rows[c] # Nobody => t.rows = writer[w].rows
  BY DEF NoRows
<1>3. WriterInv(w)
  BY DEF CatalogueInv
<1>4. Past(w)'
  BY <1>1, <1>2, <1>3 DEF WriterInv, Past
<1>5. KeepsGiving(w)'
  BY <1>1, <1>2, <1>3 DEF WriterInv, KeepsGiving
<1>6. PendingSince(w)'
  <2> SUFFICES ASSUME NEW c \in CreativeIds, t.rows[c] # Nobody, t.rows[c].written = Open
               PROVE  GivenSince(w, Key(t.rows[c]), c, t.rows[c].began)'
    BY <1>1 DEF PendingSince
  <2>1. t.rows = writer[w].rows
    BY <1>2
  <2>2. GivenSince(w, Key(t.rows[c]), c, t.rows[c].began)
    BY <1>3, <2>1 DEF WriterInv, PendingSince
  <2> QED BY <1>1, <2>1, <2>2 DEF GivenSince, Seen
<1> QED BY <1>2, <1>4, <1>5, <1>6, PrivateStepKeeps DEF WriterInv

-----------------------------------------------------------------------------
\* The steps of a save before it writes.
LEMMA WriterFacts ==
    ASSUME CatalogueInv, NEW w \in Writers
    PROVE  /\ writer \in [Writers -> Transactions] /\ writer[w] \in Transactions
           /\ Placed(w) /\ Informed(w) /\ Past(w) /\ CatalogueTypes
           /\ writer[w].rows \in [CreativeIds -> CreativeRows \cup {Nobody}]
           /\ NoRows \in [CreativeIds -> CreativeRows \cup {Nobody}]
           /\ commits \in Nat /\ writer[w].began <= commits
           /\ writer[w].existing # Nobody => writer[w].existing.began <= commits
BY DEF CatalogueInv, CatalogueTypes, WriterInv, Transactions, NoRows, Past

LEMMA AbandonKeeps ==
    ASSUME CatalogueInv, NEW w \in Writers, NEW pc \in {"refused", "thrown", "saved"},
           NEW renames \in BOOLEAN,
           writer' = [writer EXCEPT ![w].pc = pc, ![w].rows = NoRows, ![w].renames = renames],
           UNCHANGED <<advertisers, creatives, job, commits, renamed>>
    PROVE  CatalogueInv'
<1> DEFINE t == [writer[w] EXCEPT !.pc = pc, !.rows = NoRows, !.renames = renames]
<1>1. writer' = [writer EXCEPT ![w] = t] /\ t \in Transactions
  BY WriterFacts DEF Transactions
<1>2. /\ t.pc = pc /\ t.rows = NoRows /\ t.began = writer[w].began /\ t.existing = writer[w].existing
      /\ t.name = writer[w].name /\ t.known = writer[w].known /\ t.next = writer[w].next
      /\ t.found = writer[w].found
  BY WriterFacts DEF Transactions
<1> HIDE DEF t
<1>3. writer'[w] = t
  BY <1>1, WriterFacts
<1>4. Placed(w)'
  BY <1>2, <1>3, WriterFacts DEF Placed, NoRows
<1>5. Informed(w)' /\ MayGive(w)'
  BY <1>2, <1>3, WriterFacts DEF Informed, MayGive
<1>6. t.began <= commits /\ (t.existing # Nobody => t.existing.began <= commits)
  BY <1>2, WriterFacts
<1> QED BY <1>1, <1>2, <1>4, <1>5, <1>6, QuietStepKeeps

\* A writer that has written nothing gives up.
LEMMA GiveUpKeeps ==
    ASSUME CatalogueInv, NEW w \in Writers, NEW pc \in {"refused", "thrown", "saved"},
           writer' = Step(w, pc), writer[w].pc \notin {"find", "upsert"},
           UNCHANGED <<advertisers, creatives, job, commits, renamed>>
    PROVE  CatalogueInv'
<1>1. writer[w].rows = NoRows /\ writer[w].renames \in BOOLEAN
  BY WriterFacts DEF Placed, Transactions
<1>2. writer' = [writer EXCEPT ![w].pc = pc, ![w].rows = NoRows, ![w].renames = writer[w].renames]
  BY <1>1, WriterFacts DEF Step, Transactions
<1> QED BY <1>1, <1>2, AbandonKeeps

\* One that goes on, without a row written.
LEMMA AdvanceKeeps ==
    ASSUME CatalogueInv, NEW w \in Writers, NEW t \in Transactions,
           writer' = [writer EXCEPT ![w] = t],
           UNCHANGED <<advertisers, creatives, job, commits, renamed>>,
           t.next = writer[w].next, t.found = writer[w].found, t.existing = writer[w].existing,
           t.rows = NoRows, writer[w].pc \notin {"find", "upsert"}, t.pc # "upsert", t.pc # "ready",
           t.began = writer[w].began \/ t.began = commits,
           t.name \in Names, t.pc = "find" => job[w].kind = "seed",
           t.pc \in {"headline", "write"} => job[w].kind # "seed",
           Informed(w)', MayGive(w)'
    PROVE  CatalogueInv'
<1>1. writer'[w] = t
  BY WriterFacts
<1>2. Placed(w)'
  BY <1>1, WriterFacts DEF Placed, NoRows
<1>3. t.began <= commits /\ (t.existing # Nobody => t.existing.began <= commits)
  BY WriterFacts
<1> QED BY <1>2, <1>3, QuietStepKeeps

LEMMA ReadFormKeeps ==
    ASSUME CatalogueInv, NEW w \in Writers, ReadForm(w)
    PROVE  CatalogueInv'
<1> DEFINE registered == advertisers[job[w].domain]
           picked == job[w].name = Listed
           name == IF picked THEN registered ELSE writer[w].name
           t == [writer[w] EXCEPT !.pc = "advertiser", !.name = name]
<1>1. writer[w].pc = "ready" /\ job[w].kind # "seed"
      /\ UNCHANGED <<advertisers, creatives, job, commits, renamed>>
  BY DEF ReadForm
<1>2. CASE writer' = Step(w, "refused")
  BY <1>1, <1>2, GiveUpKeeps
<1>3. CASE /\ ~(picked /\ registered = Nobody)
           /\ writer' = [writer EXCEPT ![w].pc = "advertiser", ![w].name = IF picked THEN registered ELSE @]
  <2>1. registered \in Names \cup {Nobody}
    BY WriterFacts, JobFacts DEF CatalogueTypes
  <2>2. name \in Names
    <3>1. writer[w].name = job[w].name /\ job[w].name \in Names \cup {Listed}
      BY <1>1, WriterFacts, JobFacts DEF Placed
    <3> QED BY <1>3, <2>1, <3>1
  <2>3. writer' = [writer EXCEPT ![w] = t]
    BY <1>3, WriterFacts DEF Transactions
  <2> HIDE DEF name
  <2>4. /\ t \in Transactions /\ t.pc = "advertiser" /\ t.name = name /\ t.next = writer[w].next
        /\ t.found = writer[w].found /\ t.existing = writer[w].existing /\ t.rows = writer[w].rows
        /\ t.began = writer[w].began /\ t.known = writer[w].known
    BY <2>2, WriterFacts DEF Transactions
  <2> HIDE DEF t
  <2>5. writer'[w] = t
    BY <2>3, WriterFacts
  <2>6. Informed(w)' /\ MayGive(w)'
    BY <1>1, <2>4, <2>5, WriterFacts DEF Informed, MayGive
  <2>7. t.rows = NoRows
    BY <1>1, <2>4, WriterFacts DEF Placed
  <2> QED BY <1>1, <2>2, <2>3, <2>4, <2>6, <2>7, AdvanceKeeps
<1> QED BY <1>2, <1>3 DEF ReadForm

LEMMA FindAdvertiserKeeps ==
    ASSUME CatalogueInv, NEW w \in Writers, FindAdvertiser(w)
    PROVE  CatalogueInv'
<1> DEFINE registered == advertisers[job[w].domain]
           pc == IF registered = Nobody THEN "write" ELSE "headline"
           t == [writer[w] EXCEPT !.pc = pc, !.known = registered, !.began = commits]
<1>1. writer[w].pc = "advertiser" /\ job[w].kind # "seed"
      /\ UNCHANGED <<advertisers, creatives, job, commits, renamed>>
  BY DEF FindAdvertiser
<1>2. CASE writer' = Step(w, "refused")
  BY <1>1, <1>2, GiveUpKeeps
<1>3. CASE /\ SameName(w, registered)
           /\ writer' = [writer EXCEPT ![w].pc = IF registered = Nobody THEN "write" ELSE "headline",
                                       ![w].known = registered, ![w].began = commits]
  <2>1. registered \in Names \cup {Nobody}
    BY WriterFacts, JobFacts DEF CatalogueTypes
  <2>2. writer' = [writer EXCEPT ![w] = t]
    BY <1>3, WriterFacts
  <2>3. /\ t \in Transactions /\ t.pc = pc /\ t.name = writer[w].name /\ t.next = writer[w].next
        /\ t.found = writer[w].found /\ t.existing = writer[w].existing /\ t.rows = writer[w].rows
        /\ t.began = commits /\ t.known = registered
    BY <2>1, WriterFacts DEF Transactions
  <2> HIDE DEF t
  <2>4. writer'[w] = t
    BY <2>2, WriterFacts
  <2>5. registered = Nobody \/ registered = writer[w].name
    BY <1>3 DEF SameName
  <2>6. Informed(w)'
    BY <1>1, <2>3, <2>4, <2>5 DEF Informed
  <2>7. MayGive(w)'
    BY <2>3, <2>4 DEF MayGive
  <2>8. t.rows = NoRows /\ t.name \in Names
    BY <1>1, <2>3, WriterFacts DEF Placed
  <2> QED BY <1>1, <2>2, <2>3, <2>6, <2>7, <2>8, AdvanceKeeps
<1> QED BY <1>2, <1>3 DEF FindAdvertiser

LEMMA CheckHeadlineKeeps ==
    ASSUME CatalogueInv, NEW w \in Writers, CheckHeadline(w)
    PROVE  CatalogueInv'
<1> DEFINE t == [writer[w] EXCEPT !.pc = "write"]
<1>1. writer[w].pc = "headline" /\ UNCHANGED <<advertisers, creatives, job, commits, renamed>>
  BY DEF CheckHeadline
<1>2. CASE writer' = Step(w, "refused")
  BY <1>1, <1>2, GiveUpKeeps
<1>3. CASE HeadlineOwners(w) = {} /\ writer' = Step(w, "write")
  <2>1. writer' = [writer EXCEPT ![w] = t]
    BY <1>3, WriterFacts DEF Step
  <2>2. /\ t \in Transactions /\ t.pc = "write" /\ t.name = writer[w].name /\ t.next = writer[w].next
        /\ t.found = writer[w].found /\ t.existing = writer[w].existing /\ t.rows = writer[w].rows
        /\ t.began = writer[w].began /\ t.known = writer[w].known
    BY WriterFacts DEF Transactions
  <2> HIDE DEF t
  <2>3. writer'[w] = t
    BY <2>1, WriterFacts
  <2>4. Informed(w)'
    BY <1>1, <2>2, <2>3, WriterFacts DEF Informed
  <2>5. /\ t.rows = NoRows /\ t.name \in Names /\ job[w].kind # "seed" /\ t.found = Nobody
    BY <1>1, <2>2, WriterFacts DEF Placed
  <2>6. \A d \in CreativeIds \ {Entry(w).id} :
            ~(creatives[d] # Nobody /\ Key(creatives[d]) = KeyOf(w, Entry(w)))
    BY <1>3 DEF HeadlineOwners, Holders
  <2>7. Entry(w)' = Entry(w) /\ Target(w)' = Entry(w).id /\ KeyOf(w, Entry(w))' = KeyOf(w, Entry(w))
    BY <1>1, <2>2, <2>3, <2>5 DEF Entry, Target, KeyOf
  <2>8. \A d \in CreativeIds : Seen(w, d)' = creatives[d]
    BY <1>1, <2>3, <2>5 DEF Seen, NoRows
  <2>9. MayGive(w)'
    BY <2>6, <2>7, <2>8 DEF MayGive, GivenSince
  <2> QED BY <1>1, <2>1, <2>2, <2>4, <2>5, <2>9, AdvanceKeeps
<1> QED BY <1>2, <1>3 DEF CheckHeadline

-----------------------------------------------------------------------------
\* The steps of an import before it ends.
LEMMA SeedFindAdvertiserKeeps ==
    ASSUME CatalogueInv, NEW w \in Writers, SeedFindAdvertiser(w)
    PROVE  CatalogueInv'
<1> DEFINE registered == advertisers[job[w].domain]
           t == [writer[w] EXCEPT !.pc = "advertiser", !.known = registered, !.began = commits]
<1>1. writer[w].pc = "ready" /\ job[w].kind = "seed"
      /\ UNCHANGED <<advertisers, creatives, job, commits, renamed>>
  BY DEF SeedFindAdvertiser
<1>2. registered \in Names \cup {Nobody}
  BY WriterFacts, JobFacts DEF CatalogueTypes
<1>3. writer' = [writer EXCEPT ![w] = t]
  BY WriterFacts DEF SeedFindAdvertiser
<1>4. /\ t \in Transactions /\ t.pc = "advertiser" /\ t.name = writer[w].name /\ t.next = writer[w].next
      /\ t.found = writer[w].found /\ t.existing = writer[w].existing /\ t.rows = writer[w].rows
      /\ t.began = commits /\ t.known = registered
  BY <1>2, WriterFacts DEF Transactions
<1> HIDE DEF t
<1>5. writer'[w] = t
  BY <1>3, WriterFacts
<1>6. Informed(w)' /\ MayGive(w)'
  BY <1>1, <1>4, <1>5 DEF Informed, MayGive
<1>7. t.rows = NoRows /\ t.name \in Names
  BY <1>1, <1>4, WriterFacts DEF Placed
<1> QED BY <1>1, <1>3, <1>4, <1>6, <1>7, AdvanceKeeps

LEMMA SeedAdvertiserKeeps ==
    ASSUME CatalogueInv, NEW w \in Writers, SeedAdvertiser(w)
    PROVE  CatalogueInv'
<1>1. writer[w].pc = "advertiser" /\ job[w].kind = "seed"
      /\ UNCHANGED <<advertisers, creatives, job, commits, renamed>>
  BY DEF SeedAdvertiser
<1>2. CASE writer' = Step(w, "thrown")
  BY <1>1, <1>2, GiveUpKeeps
<1>3. ASSUME NEW renames \in BOOLEAN, renames \/ writer[w].known = writer[w].name,
             writer' = [writer EXCEPT ![w].pc = "find", ![w].renames = renames]
      PROVE  CatalogueInv'
  <2> DEFINE t == [writer[w] EXCEPT !.pc = "find", !.renames = renames]
  <2>1. writer' = [writer EXCEPT ![w] = t]
    BY <1>3, WriterFacts
  <2>2. /\ t \in Transactions /\ t.pc = "find" /\ t.name = writer[w].name /\ t.next = writer[w].next
        /\ t.found = writer[w].found /\ t.existing = writer[w].existing /\ t.rows = writer[w].rows
        /\ t.began = writer[w].began /\ t.known = writer[w].known /\ t.renames = renames
    BY WriterFacts DEF Transactions
  <2> HIDE DEF t
  <2>3. writer'[w] = t
    BY <2>1, WriterFacts
  <2>4. Informed(w)' /\ MayGive(w)'
    BY <1>1, <1>3, <2>2, <2>3, WriterFacts DEF Informed, MayGive
  <2>5. t.rows = NoRows /\ t.name \in Names
    BY <1>1, <2>2, WriterFacts DEF Placed
  <2> QED BY <1>1, <2>1, <2>2, <2>4, <2>5, AdvanceKeeps
<1>4. CASE writer[w].known = writer[w].name /\ writer' = Step(w, "find")
  <2>1. writer[w].renames \in BOOLEAN
    BY WriterFacts DEF Transactions
  <2>2. writer' = [writer EXCEPT ![w].pc = "find", ![w].renames = writer[w].renames]
    BY <1>4, WriterFacts DEF Step, Transactions
  <2> QED BY <1>3, <1>4, <2>1, <2>2
<1>5. CASE writer' = [writer EXCEPT ![w].pc = "find", ![w].renames = TRUE]
  BY <1>3, <1>5
<1> QED BY <1>2, <1>4, <1>5 DEF SeedAdvertiser

\* What an import found, it found among rows it may give the key to again.
LEMMA SeedFindKeeps ==
    ASSUME CatalogueInv, NEW w \in Writers, SeedFind(w)
    PROVE  CatalogueInv'
<1> DEFINE key == KeyOf(w, Entry(w))
           Found == {c \in CreativeIds : Seen(w, c) # Nobody /\ Key(Seen(w, c)) = key}
<1>1. /\ writer[w].pc = "find" /\ writer[w].next <= Len(job[w].entries)
      /\ UNCHANGED <<advertisers, creatives, job, commits, renamed>>
  BY DEF SeedFind
<1>2. PICK c \in IF Found = {} THEN {Nobody} ELSE Found :
          writer' = [writer EXCEPT ![w].pc = "upsert", ![w].found = c,
                         ![w].existing = IF c = Nobody THEN Nobody ELSE Seen(w, c)]
  BY DEF SeedFind
<1> DEFINE existing == IF c = Nobody THEN Nobody ELSE Seen(w, c)
           t == [writer[w] EXCEPT !.pc = "upsert", !.found = c, !.existing = existing]
<1>3. \/ c = Nobody /\ Found = {}
      \/ c \in CreativeIds /\ c # Nobody /\ Seen(w, c) # Nobody /\ Key(Seen(w, c)) = key
  BY <1>2, CatalogueAssumption
<1>4. existing \in CreativeRows \cup {Nobody} /\ (c # Nobody => existing = Seen(w, c))
  BY <1>3, SeenFacts
<1>5. writer' = [writer EXCEPT ![w] = t]
  BY <1>2, WriterFacts
<1> HIDE DEF existing
<1>6. /\ t \in Transactions /\ t.pc = "upsert" /\ t.name = writer[w].name /\ t.next = writer[w].next
      /\ t.found = c /\ t.existing = existing /\ t.rows = writer[w].rows /\ t.renames = writer[w].renames
      /\ t.began = writer[w].began /\ t.known = writer[w].known
  BY <1>3, <1>4, WriterFacts DEF Transactions
<1> HIDE DEF t
<1>7. writer'[w] = t
  BY <1>5, WriterFacts
<1>8. Informed(w)'
  BY <1>1, <1>6, <1>7, WriterFacts DEF Informed
<1>9. Placed(w)'
  BY <1>1, <1>3, <1>4, <1>6, <1>7, WriterFacts, NobodyIsNoRow DEF Placed
<1>10. t.began <= commits /\ (t.existing # Nobody => t.existing.began <= commits)
  <2>1. t.began <= commits
    BY <1>6, WriterFacts
  <2>2. CASE c = Nobody
    BY <1>6, <2>1, <2>2 DEF existing
  <2>3. CASE c # Nobody
    BY <1>3, <1>4, <1>6, <2>1, <2>3, SeenFacts
  <2> QED BY <2>2, <2>3
<1>11. \A d \in CreativeIds : Seen(w, d)' = Seen(w, d)
  BY <1>1, <1>6, <1>7 DEF Seen
<1>12. KeyOf(w, Entry(w))' = key
  BY <1>1, <1>6, <1>7 DEF KeyOf, Entry
<1>13. MayGive(w)'
  <2>1. CASE c = Nobody
    BY <1>3, <1>11, <1>12, <2>1 DEF MayGive, GivenSince
  <2>2. CASE c # Nobody
    <3>1. Target(w)' = c /\ Since(w)' = Seen(w, c).began
      BY <1>4, <1>6, <1>7, <2>2 DEF Target, Since
    <3>2. ASSUME NEW d \in CreativeIds \ {c}, Seen(w, d) # Nobody, Seen(w, d).written # Open,
                 Key(Seen(w, d)) = key
          PROVE  Seen(w, c).began < Seen(w, d).written
      <4>1. creatives[d] # Nobody /\ SameGiving(Seen(w, d), creatives[d])
        BY <3>2, SeenFacts
      <4>2. CASE Seen(w, c).written # Open
        <5>1. creatives[c] # Nobody /\ SameGiving(Seen(w, c), creatives[c])
          BY <1>3, <2>2, <4>2, SeenFacts
        <5>2. Key(creatives[c]) = Key(creatives[d])
          BY <1>3, <2>2, <3>2, <4>1, <5>1 DEF SameGiving
        <5>3. creatives[c].began < creatives[d].written
          BY <1>3, <2>2, <4>1, <5>1, <5>2, PairFacts
        <5> QED BY <4>1, <5>1, <5>3 DEF SameGiving
      <4>3. CASE Seen(w, c).written = Open
        <5>1. writer[w].rows[c] # Nobody
          <6> SUFFICES ASSUME writer[w].rows[c] = Nobody PROVE FALSE
            OBVIOUS
          <6>1. Seen(w, c) = creatives[c] /\ creatives[c] # Nobody
            BY <1>3, <2>2 DEF Seen
          <6>2. Timed(c) /\ creatives[c] \in CreativeRows
            BY <1>3, <2>2, <6>1 DEF CatalogueInv, CatalogueTypes
          <6>3. creatives[c].began < creatives[c].written /\ creatives[c].began \in Nat
            BY <6>1, <6>2 DEF Timed, CreativeRows
          <6> QED BY <4>3, <6>1, <6>3 DEF Open
        <5>2. Seen(w, c) = writer[w].rows[c] /\ PendingSince(w)
          BY <5>1 DEF Seen, CatalogueInv, WriterInv
        <5>3. GivenSince(w, key, c, Seen(w, c).began)
          BY <1>3, <2>2, <4>3, <5>1, <5>2 DEF PendingSince
        <5> QED BY <3>2, <5>3 DEF GivenSince
      <4> QED BY <4>2, <4>3
    <3> HIDE DEF key
    <3> QED BY <1>11, <1>12, <3>1, <3>2 DEF MayGive, GivenSince
  <2> QED BY <2>1, <2>2
<1> QED BY <1>1, <1>5, <1>6, <1>8, <1>9, <1>10, <1>13, QuietStepKeeps

LEMMA SeedUpsertKeeps ==
    ASSUME CatalogueInv, NEW w \in Writers, SeedUpsert(w)
    PROVE  CatalogueInv'
<1> DEFINE c == IF writer[w].found = Nobody THEN Entry(w).id ELSE writer[w].found
           unchanged == writer[w].found # Nobody /\ Matches(w, writer[w].existing)
           old == Seen(w, c)
           r == Row(w, Entry(w), old, Open)
           rows == [writer[w].rows EXCEPT ![c] = IF unchanged THEN @ ELSE r]
           t == [writer[w] EXCEPT !.pc = "find", !.next = @ + 1, !.found = Nobody,
                                  !.existing = Nobody, !.rows = rows]
<1>0. /\ unchanged \/ ~Locked(c, w)
      /\ writer' = [writer EXCEPT ![w].pc = "find", ![w].next = @ + 1,
              ![w].found = Nobody, ![w].existing = Nobody,
              ![w].rows[c] = IF unchanged THEN @ ELSE r]
  BY DEF SeedUpsert
<1>1. writer[w].pc = "upsert" /\ UNCHANGED <<advertisers, creatives, job, commits, renamed>>
  BY DEF SeedUpsert
<1> HIDE DEF c, unchanged, old, r, rows, t
<1>2. job[w].kind = "seed" /\ writer[w].name \in Names
      /\ (writer[w].found # Nobody => writer[w].existing \in CreativeRows)
  BY <1>1, WriterFacts DEF Placed
<1>3. c \in CreativeIds /\ c = Target(w) /\ Entry(w) \in Entries
  BY <1>1, EntryFacts, WriterFacts DEF Target, Transactions, c
<1>4. old \in CreativeRows \cup {Nobody}
  BY <1>3, SeenFacts DEF old
<1>5. /\ r \in CreativeRows /\ r # Nobody /\ Key(r) = KeyOf(w, Entry(w)) /\ r.domain = job[w].domain
      /\ r.hash = <<writer[w].name, r.headline, r.copy>>
      /\ \/ old # Nobody /\ Key(old) = Key(r) /\ r.began = old.began /\ r.written = old.written
         \/ r.began = Since(w) /\ r.written = Open
  <2>1. Open \in Nat
    BY DEF Open
  <2>2. CatalogueTypes
    BY WriterFacts
  <2> DEFINE entry == Entry(w)
  <2>3. /\ CatalogueTypes /\ w \in Writers /\ entry \in Entries /\ old \in CreativeRows \cup {Nobody}
        /\ Open \in Nat /\ writer[w].name \in Names
        /\ writer[w].found # Nobody => writer[w].existing \in CreativeRows
    BY <1>2, <1>3, <1>4, <2>1, <2>2
  <2> HIDE DEF entry
  <2>4. /\ Row(w, entry, old, Open) \in CreativeRows
        /\ Key(Row(w, entry, old, Open)) = KeyOf(w, entry)
        /\ Row(w, entry, old, Open).domain = job[w].domain
        /\ Row(w, entry, old, Open).hash =
               <<writer[w].name, Row(w, entry, old, Open).headline, Row(w, entry, old, Open).copy>>
        /\ \/ /\ old # Nobody /\ Key(old) = KeyOf(w, entry)
              /\ Row(w, entry, old, Open).began = old.began
              /\ Row(w, entry, old, Open).written = old.written
           \/ /\ Row(w, entry, old, Open).began = Since(w)
              /\ Row(w, entry, old, Open).written = Open
    BY <2>3, CreativeRowFacts
  <2> QED BY <2>4, NobodyIsNoRow DEF r, entry
<1>6. writer' = [writer EXCEPT ![w] = t]
  BY <1>0, WriterFacts DEF Transactions, t, rows
<1>7. rows \in [CreativeIds -> CreativeRows \cup {Nobody}]
      /\ \A x \in CreativeIds : rows[x] = IF x = c /\ ~unchanged THEN r ELSE writer[w].rows[x]
  BY <1>3, <1>5, WriterFacts DEF rows
<1>8. /\ t \in Transactions /\ t.pc = "find" /\ t.name = writer[w].name
      /\ t.found = Nobody /\ t.existing = Nobody /\ t.rows = rows /\ t.renames = writer[w].renames
      /\ t.began = writer[w].began /\ t.known = writer[w].known
  <2>1. writer[w].next + 1 \in Nat \ {0}
    BY WriterFacts DEF Transactions
  <2> QED BY <1>7, <2>1, WriterFacts DEF Transactions, t
<1>9. writer'[w] = t
  BY <1>6, WriterFacts
<1>10. Informed(w)' /\ MayGive(w)'
  BY <1>1, <1>8, <1>9, WriterFacts DEF Informed, MayGive
<1>11. Placed(w)'
  <2>1. \A x \in CreativeIds : rows[x] # Nobody =>
            rows[x].domain = job[w].domain /\ rows[x].hash = <<t.name, rows[x].headline, rows[x].copy>>
    BY <1>5, <1>7, <1>8, WriterFacts DEF Placed
  <2> QED BY <1>1, <1>2, <1>8, <1>9, <2>1 DEF Placed
<1>12. CASE unchanged
  <2>1. rows = writer[w].rows
    BY <1>7, <1>12, WriterFacts
  <2>2. t.rows = writer[w].rows /\ t.began <= commits
    BY <1>8, <2>1, WriterFacts
  <2> QED BY <1>1, <1>6, <1>8, <1>10, <1>11, <2>2, QuietStepKeeps
<1>13. CASE ~unchanged
  <2>1. \A x \in CreativeIds : Seen(w, x)' = IF x = c THEN r ELSE Seen(w, x)
    BY <1>1, <1>5, <1>7, <1>8, <1>9, <1>13 DEF Seen
  <2>2. Past(w)'
    <3>1. r.began <= commits
      <4>1. Since(w) <= commits
        BY <1>2, WriterFacts, NobodyIsNoRow DEF Since
      <4> QED BY <1>3, <1>5, <4>1, SeenFacts DEF old
    <3>2. \A x \in CreativeIds : rows[x] # Nobody => rows[x].began <= commits
      BY <1>7, <3>1, WriterFacts DEF Past
    <3> QED BY <1>1, <1>8, <1>9, <3>2, WriterFacts DEF Past
  <2>3. r.written # Open => creatives[c] # Nobody /\ SameGiving(r, creatives[c])
                            /\ old # Nobody /\ SameGiving(r, old)
    <3> SUFFICES ASSUME r.written # Open
                 PROVE  creatives[c] # Nobody /\ SameGiving(r, creatives[c])
                        /\ old # Nobody /\ SameGiving(r, old)
      OBVIOUS
    <3>1. old # Nobody /\ SameGiving(r, old) /\ old.written # Open
      BY <1>5 DEF SameGiving
    <3>2. creatives[c] # Nobody /\ SameGiving(old, creatives[c])
      BY <1>3, <3>1, SeenFacts DEF old
    <3> QED BY <3>1, <3>2 DEF SameGiving
  <2>4. KeepsGiving(w) /\ PendingSince(w) /\ GivenSince(w, Key(r), c, Since(w))
    BY <1>1, <1>3, <1>5 DEF CatalogueInv, WriterInv, MayGive
  <2>5. KeepsGiving(w)'
    BY <1>1, <1>7, <1>8, <1>9, <2>3, <2>4 DEF KeepsGiving
  <2>6. PendingSince(w)'
    <3> SUFFICES ASSUME NEW x \in CreativeIds, rows[x] # Nobody, rows[x].written = Open,
                        NEW d \in CreativeIds \ {x}, Seen(w, d)' # Nobody,
                        Seen(w, d)'.written # Open, Key(Seen(w, d)') = Key(rows[x])
                 PROVE  rows[x].began < Seen(w, d)'.written
      BY <1>8, <1>9 DEF PendingSince, GivenSince
    <3>1. CASE x = c
      <4>1. rows[x] = r /\ Seen(w, d)' = Seen(w, d) /\ d # c
        BY <1>7, <1>13, <2>1, <3>1
      <4>2. CASE r.began = Since(w)
        BY <2>4, <4>1, <4>2 DEF GivenSince
      <4>3. CASE old # Nobody /\ Key(old) = Key(r) /\ r.began = old.began /\ r.written = old.written
        <5>1. writer[w].rows[c] # Nobody
          <6> SUFFICES ASSUME writer[w].rows[c] = Nobody PROVE FALSE
            OBVIOUS
          <6>1. old = creatives[c] /\ creatives[c] # Nobody
            BY <4>3 DEF Seen, old
          <6>2. Timed(c) /\ creatives[c] \in CreativeRows
            BY <1>3, <6>1 DEF CatalogueInv, CatalogueTypes
          <6>3. creatives[c].began < creatives[c].written /\ creatives[c].began \in Nat
            BY <6>1, <6>2 DEF Timed, CreativeRows
          <6> QED BY <4>1, <4>3, <6>1, <6>3 DEF Open
        <5>2. old = writer[w].rows[c]
          BY <5>1 DEF Seen, old
        <5>3. GivenSince(w, Key(r), c, r.began)
          BY <1>3, <2>4, <4>1, <4>3, <5>1, <5>2 DEF PendingSince
        <5> QED BY <4>1, <5>3 DEF GivenSince
      <4> QED BY <1>5, <4>2, <4>3
    <3>2. CASE x # c
      <4>1. rows[x] = writer[w].rows[x]
        BY <1>7, <3>2
      <4>2. GivenSince(w, Key(rows[x]), x, rows[x].began)
        BY <2>4, <4>1 DEF PendingSince
      <4>3. CASE d = c
        <5>1. Seen(w, d)' = r
          BY <2>1, <4>3
        <5>2. old # Nobody /\ SameGiving(r, old)
          BY <2>3, <5>1
        <5>3. old = Seen(w, d)
          BY <4>3 DEF old
        <5>4. Seen(w, d) # Nobody /\ Seen(w, d).written # Open /\ Key(Seen(w, d)) = Key(rows[x])
              /\ Seen(w, d).written = r.written
          BY <5>1, <5>2, <5>3 DEF SameGiving
        <5>5. rows[x].began < Seen(w, d).written
          BY <4>2, <5>4 DEF GivenSince
        <5> QED BY <5>1, <5>4, <5>5
      <4>4. CASE d # c
        <5>1. Seen(w, d)' = Seen(w, d)
          BY <2>1, <4>4
        <5> QED BY <4>2, <5>1 DEF GivenSince
      <4> QED BY <4>3, <4>4
    <3> QED BY <3>1, <3>2
  <2>7. \A x \in CreativeIds : t.rows[x] # Nobody => writer[w].rows[x] # Nobody \/ ~Locked(x, w)
    BY <1>0, <1>7, <1>8, <1>13
  <2> QED BY <1>1, <1>6, <1>8, <1>10, <1>11, <2>2, <2>5, <2>6, <2>7, PrivateStepKeeps DEF WriterInv
<1> QED BY <1>12, <1>13

-----------------------------------------------------------------------------
(* The steps that change the table.                                        *)

\* Whoever a row is given a key by, it is given it now; a name stays, unless
\* it is changed by an import.
TableGrows ==
    /\ job' = job /\ commits' \in Nat /\ commits <= commits'
    /\ \A d \in CreativeIds : creatives'[d] # Nobody =>
           \/ creatives[d] # Nobody /\ SameGiving(creatives'[d], creatives[d])
           \/ commits < creatives'[d].written
    /\ \A d \in Domains : advertisers[d] # Nobody =>
           advertisers'[d] # Nobody /\ (d \notin renamed' => d \notin renamed /\ advertisers'[d] = advertisers[d])

\* The writers beside the one that changes it, none of whose rows it takes.
LEMMA BystanderKeeps ==
    ASSUME CatalogueInv, TableGrows, CatalogueTypes', NEW v \in Writers, writer'[v] = writer[v],
           \A d \in CreativeIds : writer[v].rows[d] # Nobody /\ creatives[d] # Nobody =>
               creatives'[d] # Nobody /\ SameGiving(creatives'[d], creatives[d])
    PROVE  WriterInv(v)'
<1>1. WriterInv(v) /\ writer[v] \in Transactions /\ commits \in Nat
  BY DEF CatalogueInv, CatalogueTypes
<1>2. Placed(v)'
  BY <1>1 DEF WriterInv, Placed, TableGrows
<1>3. Informed(v)'
  <2>1. job[v].domain \in Domains
    BY JobFacts DEF CatalogueInv
  <2> QED BY <1>1, <2>1 DEF WriterInv, Informed, TableGrows
<1>4. Past(v)'
  <2>1. writer[v].began \in Nat /\ (writer[v].existing # Nobody => writer[v].existing.began \in Nat)
        /\ \A c \in CreativeIds : writer[v].rows[c] # Nobody => writer[v].rows[c].began \in Nat
    BY <1>1 DEF Transactions, CreativeRows
  <2> QED BY <1>1, <2>1 DEF WriterInv, Past, TableGrows
<1>5. KeepsGiving(v)'
  <2> SUFFICES ASSUME NEW c \in CreativeIds, writer[v].rows[c] # Nobody, writer[v].rows[c].written # Open
               PROVE  creatives'[c] # Nobody /\ SameGiving(writer[v].rows[c], creatives'[c])
    BY DEF KeepsGiving, SameGiving
  <2>1. creatives[c] # Nobody /\ SameGiving(writer[v].rows[c], creatives[c])
    BY <1>1 DEF WriterInv, KeepsGiving
  <2> QED BY <2>1 DEF SameGiving
<1>6. ASSUME NEW key, NEW target, NEW time \in Nat, time <= commits, GivenSince(v, key, target, time)
      PROVE  GivenSince(v, key, target, time)'
  <2> SUFFICES ASSUME NEW d \in CreativeIds \ {target}, Seen(v, d)' # Nobody,
                      Seen(v, d)'.written # Open, Key(Seen(v, d)') = key
               PROVE  time < Seen(v, d)'.written
    BY DEF GivenSince
  <2>1. CASE writer[v].rows[d] # Nobody
    <3>1. Seen(v, d)' = Seen(v, d)
      BY <2>1 DEF Seen
    <3> QED BY <1>6, <3>1 DEF GivenSince
  <2>2. CASE writer[v].rows[d] = Nobody
    <3>1. Seen(v, d)' = creatives'[d] /\ Seen(v, d) = creatives[d]
      BY <2>2 DEF Seen
    <3>2. CASE commits < creatives'[d].written
      <4>1. creatives'[d].written \in Nat
        BY <3>1 DEF CatalogueTypes, CreativeRows
      <4> QED BY <1>1, <1>6, <3>1, <3>2, <4>1
    <3>3. CASE creatives[d] # Nobody /\ SameGiving(creatives'[d], creatives[d])
      BY <1>6, <3>1, <3>3 DEF SameGiving, GivenSince
    <3> QED BY <3>1, <3>2, <3>3 DEF TableGrows
  <2> QED BY <2>1, <2>2
<1>7. PendingSince(v)'
  <2> SUFFICES ASSUME NEW c \in CreativeIds, writer[v].rows[c] # Nobody, writer[v].rows[c].written = Open
               PROVE  GivenSince(v, Key(writer[v].rows[c]), c, writer[v].rows[c].began)'
    BY DEF PendingSince
  <2>1. GivenSince(v, Key(writer[v].rows[c]), c, writer[v].rows[c].began)
    BY <1>1 DEF WriterInv, PendingSince
  <2>2. writer[v].rows[c].began \in Nat /\ writer[v].rows[c].began <= commits
    BY <1>1 DEF WriterInv, Past, Transactions, CreativeRows
  <2> DEFINE key == Key(writer[v].rows[c])
             time == writer[v].rows[c].began
  <2>3. key = Key(writer[v].rows[c])' /\ time = writer[v].rows[c].began'
    BY DEF Key
  <2>4. PICK k : k = key
    OBVIOUS
  <2>5. PICK n \in Nat : n = time
    BY <2>2
  <2>6. GivenSince(v, k, c, n) /\ n <= commits
    BY <2>1, <2>2, <2>4, <2>5
  <2>7. GivenSince(v, k, c, n)'
    BY <1>6, <2>6
  <2> QED BY <2>3, <2>4, <2>5, <2>7
<1>8. MayGive(v)'
  <2> SUFFICES ASSUME writer[v].pc = "upsert" \/ (writer[v].pc = "write" /\ writer[v].known # Nobody)
               PROVE  GivenSince(v, KeyOf(v, Entry(v)), Target(v), Since(v))'
    BY DEF MayGive
  <2>1. GivenSince(v, KeyOf(v, Entry(v)), Target(v), Since(v))
    BY <1>1 DEF WriterInv, MayGive
  <2>2. Since(v) \in Nat /\ Since(v) <= commits
    BY <1>1, NobodyIsNoRow DEF WriterInv, Placed, Past, Since, Transactions, CreativeRows
  <2>3. PICK k : k = KeyOf(v, Entry(v))
    OBVIOUS
  <2>4. PICK target : target = Target(v)
    OBVIOUS
  <2>5. PICK n \in Nat : n = Since(v)
    BY <2>2
  <2>6. KeyOf(v, Entry(v))' = k /\ Target(v)' = target /\ Since(v)' = n
    BY <2>3, <2>4, <2>5 DEF KeyOf, Entry, Target, Since, TableGrows
  <2>7. GivenSince(v, k, target, n) /\ n <= commits
    BY <2>1, <2>2, <2>3, <2>4, <2>5
  <2>8. GivenSince(v, k, target, n)'
    BY <1>6, <2>7
  <2> QED BY <2>6, <2>8
<1> QED BY <1>2, <1>3, <1>4, <1>5, <1>7, <1>8 DEF WriterInv

\* The writer that changes the table, and is done.
LEMMA CommitKeeps ==
    ASSUME CatalogueInv, TableGrows, NEW w \in Writers, NEW t \in Transactions,
           writer' = [writer EXCEPT ![w] = t], t.pc = "saved", t.rows = NoRows,
           t.name = writer[w].name, t.known = writer[w].known, t.next = writer[w].next,
           t.found = writer[w].found, t.existing = writer[w].existing, t.began = writer[w].began,
           CatalogueTypes', \A c \in CreativeIds : (Truthful(c) /\ Timed(c))',
           \A v \in Writers \ {w}, d \in CreativeIds :
               writer[v].rows[d] # Nobody /\ creatives[d] # Nobody =>
                   creatives'[d] # Nobody /\ SameGiving(creatives'[d], creatives[d]),
           SharedKeysOverlapped'
    PROVE  CatalogueInv'
<1>1. \A v \in Writers : writer'[v] = IF v = w THEN t ELSE writer[v]
  BY WriterFacts
<1>2. \A v \in Writers \ {w} : WriterInv(v)'
  BY <1>1, BystanderKeeps
<1>3. Exclusive'
  BY <1>1 DEF CatalogueInv, Exclusive, NoRows
<1>4. WriterInv(w)'
  <2>1. \A c \in CreativeIds : t.rows[c] = Nobody
    BY DEF NoRows
  <2>2. Placed(w)'
    BY <1>1, <2>1, WriterFacts DEF Placed, TableGrows
  <2>3. Informed(w)'
    <3>1. job[w].domain \in Domains
      BY JobFacts DEF CatalogueInv
    <3> QED BY <1>1, <3>1, WriterFacts DEF Informed, TableGrows
  <2>4. Past(w)'
    <3>1. writer[w].began \in Nat /\ (writer[w].existing # Nobody => writer[w].existing.began \in Nat)
      BY WriterFacts DEF Transactions, CreativeRows
    <3> QED BY <1>1, <2>1, <3>1, WriterFacts DEF Past, TableGrows
  <2>5. KeepsGiving(w)' /\ PendingSince(w)' /\ MayGive(w)'
    BY <1>1, <2>1 DEF KeepsGiving, PendingSince, MayGive
  <2> QED BY <2>2, <2>3, <2>4, <2>5 DEF WriterInv
<1> QED BY <1>1, <1>2, <1>3, <1>4 DEF CatalogueInv

LEMMA SaveCreativeKeeps ==
    ASSUME CatalogueInv, NEW w \in Writers, SaveCreative(w)
    PROVE  CatalogueInv'
<1> DEFINE entry == Entry(w)
           id == entry.id
           d == job[w].domain
           old == creatives[id]
           r == Row(w, entry, old, commits + 1)
           t == [writer[w] EXCEPT !.pc = "saved"]
<1>1. writer[w].pc = "write" /\ job[w].kind # "seed" /\ ~Locked(id, w) /\ UNCHANGED <<job, renamed>>
  BY DEF SaveCreative
<1>2. CASE DomainTaken(w)
  <2>1. writer' = Step(w, "thrown") /\ UNCHANGED <<advertisers, creatives, commits>>
    BY <1>2 DEF SaveCreative
  <2> QED BY <1>1, <2>1, GiveUpKeeps
<1>3. CASE ~DomainTaken(w)
  <2>1. /\ advertisers' = IF advertisers[d] = Nobody THEN [advertisers EXCEPT ![d] = writer[w].name]
                          ELSE advertisers
        /\ creatives' = [creatives EXCEPT ![id] = Row(w, entry, @, commits + 1)]
        /\ commits' = commits + 1 /\ writer' = Step(w, "saved")
    BY <1>3 DEF SaveCreative
  <2>2. /\ entry \in Entries /\ id \in CreativeIds /\ d \in Domains /\ writer[w].name \in Names
        /\ writer[w].found = Nobody /\ writer[w].rows = NoRows
    BY <1>1, EntryFacts, JobFacts, WriterFacts DEF Placed
  <2>3. old \in CreativeRows \cup {Nobody} /\ commits \in Nat /\ CatalogueTypes
    BY <2>2 DEF CatalogueInv, CatalogueTypes
  <2> HIDE DEF entry, d, t
  <2>4. /\ r \in CreativeRows /\ r # Nobody /\ Key(r) = KeyOf(w, entry) /\ r.domain = d
        /\ r.hash = <<writer[w].name, r.headline, r.copy>>
        /\ \/ old # Nobody /\ Key(old) = Key(r) /\ r.began = old.began /\ r.written = old.written
           \/ r.began = writer[w].began /\ r.written = commits + 1
    <3> HIDE DEF old
    <3> DEFINE end == commits + 1
    <3>1. end \in Nat /\ Since(w) = writer[w].began
      BY <2>2, <2>3 DEF Since
    <3> HIDE DEF end
    <3>2. /\ Row(w, entry, old, end) \in CreativeRows
          /\ Key(Row(w, entry, old, end)) = KeyOf(w, entry)
          /\ Row(w, entry, old, end).domain = job[w].domain
          /\ Row(w, entry, old, end).hash =
                 <<writer[w].name, Row(w, entry, old, end).headline, Row(w, entry, old, end).copy>>
          /\ \/ /\ old # Nobody /\ Key(old) = KeyOf(w, entry)
                /\ Row(w, entry, old, end).began = old.began
                /\ Row(w, entry, old, end).written = old.written
             \/ /\ Row(w, entry, old, end).began = Since(w)
                /\ Row(w, entry, old, end).written = end
      BY <2>2, <2>3, <3>1, CreativeRowFacts
    <3> QED BY <3>1, <3>2, NobodyIsNoRow DEF end, d
  <2>5. \A x \in CreativeIds : creatives'[x] = IF x = id THEN r ELSE creatives[x]
    BY <2>1, <2>2 DEF CatalogueInv, CatalogueTypes
  <2> HIDE DEF r, old, id
  <2>6. /\ writer' = [writer EXCEPT ![w] = t] /\ t \in Transactions /\ t.pc = "saved" /\ t.rows = NoRows
        /\ t.name = writer[w].name /\ t.known = writer[w].known /\ t.next = writer[w].next
        /\ t.found = writer[w].found /\ t.existing = writer[w].existing /\ t.began = writer[w].began
    BY <2>1, <2>2, WriterFacts DEF Step, Transactions, t
  <2>7. \/ (advertisers'[d] = writer[w].name /\ (writer[w].known = Nobody => advertisers[d] = Nobody))
        \/ (d \in renamed /\ advertisers' = advertisers /\ advertisers[d] # Nobody /\ writer[w].known # Nobody)
    <3>1. CASE writer[w].known = Nobody
      <4>1. advertisers[d] = Nobody
        BY <1>3, <3>1 DEF DomainTaken, d
      <4> QED BY <2>1, <2>2, <2>3, <4>1 DEF CatalogueTypes
    <3>2. CASE writer[w].known # Nobody
      <4>1. advertisers[d] # Nobody /\ (d \notin renamed => advertisers[d] = writer[w].name)
        BY <1>1, <3>2, WriterFacts DEF Informed, d
      <4> QED BY <2>1, <3>2, <4>1
    <3> QED BY <3>1, <3>2
  <2>8. \A x \in Domains : advertisers[x] # Nobody => advertisers'[x] = advertisers[x]
    BY <2>1, <2>2, <2>3 DEF CatalogueTypes
  <2>9. CatalogueTypes'
    <3>1. advertisers' \in [Domains -> Names \cup {Nobody}]
      BY <2>1, <2>2, <2>3 DEF CatalogueTypes
    <3>2. creatives' \in [CreativeIds -> CreativeRows \cup {Nobody}]
      <4>1. creatives' = [creatives EXCEPT ![id] = r]
        BY <2>1, <2>2, <2>3 DEF CatalogueTypes, r, old
      <4> QED BY <2>2, <2>3, <2>4, <4>1 DEF CatalogueTypes
    <3>3. commits' \in Nat /\ job' \in Jobs /\ writer' \in [Writers -> Transactions]
      BY <1>1, <2>1, <2>3, <2>6 DEF CatalogueTypes
    <3> QED BY <3>1, <3>2, <3>3 DEF CatalogueTypes
  <2>10. TableGrows
    <3>1. ASSUME NEW x \in CreativeIds, creatives'[x] # Nobody
          PROVE  \/ creatives[x] # Nobody /\ SameGiving(creatives'[x], creatives[x])
                 \/ commits < creatives'[x].written
      <4>1. CASE x = id
        BY <2>3, <2>4, <2>5, <4>1 DEF SameGiving, old
      <4>2. CASE x # id
        BY <2>5, <3>1, <4>2 DEF SameGiving
      <4> QED BY <4>1, <4>2
    <3>2. job' = job /\ renamed' = renamed /\ commits' \in Nat /\ commits <= commits'
      BY <1>1, <2>1, <2>3
    <3> QED BY <2>8, <3>1, <3>2 DEF TableGrows
  <2>11. \A v \in Writers \ {w}, x \in CreativeIds :
             writer[v].rows[x] # Nobody /\ creatives[x] # Nobody =>
                 creatives'[x] # Nobody /\ SameGiving(creatives'[x], creatives[x])
    <3>1. \A v \in Writers \ {w} : writer[v].rows[id] = Nobody
      BY <1>1 DEF Locked
    <3> QED BY <2>5, <3>1 DEF SameGiving
  <2>12. ASSUME NEW x \in CreativeIds PROVE (Truthful(x) /\ Timed(x))'
    <3>1. CASE x = id
      <4>1. creatives'[x] = r
        BY <2>5, <3>1
      <4>2. Truthful(x)'
        BY <1>1, <2>2, <2>4, <2>7, <4>1, CatalogueAssumption DEF Truthful
      <4>3. r.began < r.written /\ r.written <= commits + 1
        <5>1. CASE old # Nobody /\ r.began = old.began /\ r.written = old.written
          <6>1. Timed(id) /\ creatives[id] = old
            BY <2>2 DEF CatalogueInv, old
          <6>2. old.began \in Nat /\ old.written \in Nat
            BY <2>3, <5>1 DEF CreativeRows
          <6> QED BY <2>3, <5>1, <6>1, <6>2 DEF Timed
        <5>2. CASE r.began = writer[w].began /\ r.written = commits + 1
          <6>1. writer[w].began \in Nat /\ writer[w].began <= commits
            BY WriterFacts DEF Transactions
          <6> QED BY <2>3, <5>2, <6>1
        <5> QED BY <2>4, <5>1, <5>2
      <4>4. Timed(x)'
        BY <2>1, <4>1, <4>3 DEF Timed
      <4> QED BY <4>2, <4>4
    <3>2. CASE x # id
      <4>1. creatives'[x] = creatives[x] /\ Truthful(x) /\ Timed(x)
        BY <2>5, <3>2 DEF CatalogueInv
      <4>2. creatives[x] # Nobody => creatives[x] \in CreativeRows
        BY DEF CatalogueInv, CatalogueTypes
      <4>3. Truthful(x)'
        BY <1>1, <2>8, <4>1, <4>2 DEF Truthful, CreativeRows
      <4>4. Timed(x)'
        BY <2>1, <2>3, <4>1, <4>2 DEF Timed, CreativeRows
      <4> QED BY <4>3, <4>4
    <3> QED BY <3>1, <3>2
  <2>13. ASSUME NEW x \in CreativeIds, x # id, creatives[x] # Nobody, Key(creatives[x]) = Key(r)
         PROVE  r.began < creatives[x].written /\ creatives[x].began < r.written
    <3>1. Truthful(x) /\ Timed(x) /\ creatives[x] \in CreativeRows
      BY <2>13 DEF CatalogueInv, CatalogueTypes
    <3>2. CASE old # Nobody /\ Key(old) = Key(r) /\ r.began = old.began /\ r.written = old.written
      BY <2>2, <2>13, <3>2, PairFacts DEF old
    <3>3. CASE r.began = writer[w].began /\ r.written = commits + 1
      <4>1. creatives[x].began \in Nat /\ creatives[x].written \in Nat
            /\ creatives[x].began < creatives[x].written /\ creatives[x].written <= commits
        BY <2>13, <3>1 DEF Timed, CreativeRows
      <4>2. creatives[x].domain = d
        BY <2>4, <2>13 DEF Key
      <4>3. writer[w].known # Nobody
        BY <2>7, <2>13, <3>1, <4>2 DEF Truthful
      <4>4. Target(w) = id /\ Since(w) = writer[w].began /\ MayGive(w)
        BY <2>2 DEF Target, Since, id, entry, CatalogueInv, WriterInv
      <4>5. Seen(w, x) = creatives[x]
        BY <2>2 DEF Seen, NoRows
      <4>6. GivenSince(w, Key(r), id, writer[w].began)
        BY <1>1, <2>4, <4>3, <4>4 DEF MayGive, entry
      <4>7. writer[w].began < creatives[x].written
        <5>1. creatives[x].written # Open
          BY <4>1 DEF Open
        <5> QED BY <2>13, <4>5, <4>6, <5>1 DEF GivenSince
      <4> QED BY <2>3, <3>3, <4>1, <4>7
    <3> QED BY <2>4, <3>2, <3>3
  <2>14. SharedKeysOverlapped'
    <3> SUFFICES ASSUME NEW x \in CreativeIds, NEW y \in CreativeIds, creatives'[x] # Nobody,
                        creatives'[y] # Nobody, x # y, Key(creatives'[x]) = Key(creatives'[y])
                 PROVE  creatives'[x].began < creatives'[y].written
                        /\ creatives'[y].began < creatives'[x].written
      BY DEF SharedKeysOverlapped, Live
    <3>1. CASE x = id
      BY <2>5, <2>13, <3>1
    <3>2. CASE y = id
      BY <2>5, <2>13, <3>2
    <3>3. CASE x # id /\ y # id
      <4>1. creatives'[x] = creatives[x] /\ creatives'[y] = creatives[y]
        BY <2>5, <3>3
      <4> QED BY <4>1, PairFacts
    <3> QED BY <3>1, <3>2, <3>3
  <2> QED BY <2>6, <2>9, <2>10, <2>11, <2>12, <2>14, CommitKeeps
<1> QED BY <1>2, <1>3

LEMMA SeedCommitKeeps ==
    ASSUME CatalogueInv, NEW w \in Writers, SeedCommit(w)
    PROVE  CatalogueInv'
<1> DEFINE d == job[w].domain
           rows == writer[w].rows
           wrote == {c \in CreativeIds : rows[c] # Nobody}
           Ended(c) == [rows[c] EXCEPT !.written = IF @ = Open THEN commits + 1 ELSE @]
           t == [writer[w] EXCEPT !.pc = "saved", !.rows = NoRows, !.renames = FALSE]
<1>1. writer[w].pc = "find" /\ job' = job /\ commits' = commits + 1
  BY DEF SeedCommit
<1>2. /\ advertisers' = IF writer[w].renames THEN [advertisers EXCEPT ![d] = writer[w].name]
                        ELSE advertisers
      /\ renamed' = IF writer[w].renames /\ advertisers[d] # Nobody THEN renamed \cup {d} ELSE renamed
      /\ creatives' = [c \in CreativeIds |-> IF c \in wrote THEN Ended(c) ELSE creatives[c]]
      /\ writer' = [writer EXCEPT ![w].pc = "saved", ![w].rows = NoRows, ![w].renames = FALSE]
  BY DEF SeedCommit
<1>3. CatalogueTypes /\ commits \in Nat /\ rows \in [CreativeIds -> CreativeRows \cup {Nobody}]
      /\ creatives \in [CreativeIds -> CreativeRows \cup {Nobody}]
  BY WriterFacts DEF CatalogueTypes
<1>4. job[w].kind = "seed" /\ d \in Domains /\ writer[w].name \in Names
  BY <1>1, <1>3, JobFacts, WriterFacts DEF Placed
<1> HIDE DEF d, rows, t
<1>5. /\ writer' = [writer EXCEPT ![w] = t] /\ t \in Transactions /\ t.pc = "saved" /\ t.rows = NoRows
      /\ t.name = writer[w].name /\ t.known = writer[w].known /\ t.next = writer[w].next
      /\ t.found = writer[w].found /\ t.existing = writer[w].existing /\ t.began = writer[w].began
  BY <1>2, WriterFacts DEF Transactions, t
<1>6. ASSUME NEW c \in wrote
      PROVE  /\ Ended(c) \in CreativeRows /\ Ended(c) # Nobody /\ Key(Ended(c)) = Key(rows[c])
             /\ Ended(c).began = rows[c].began /\ Ended(c).domain = d
             /\ Ended(c).hash = <<writer[w].name, Ended(c).headline, Ended(c).copy>>
             /\ rows[c].written = Open => Ended(c).written = commits + 1
             /\ rows[c].written # Open => Ended(c).written = rows[c].written
             /\ rows[c].began \in Nat /\ rows[c].began <= commits
  <2>1. rows[c] \in CreativeRows /\ c \in CreativeIds
    BY <1>3
  <2>2. /\ rows[c].domain = d /\ rows[c].began <= commits
        /\ rows[c].hash = <<writer[w].name, rows[c].headline, rows[c].copy>>
    BY <2>1, WriterFacts DEF Placed, Past, rows, d
  <2> DEFINE end == IF rows[c].written = Open THEN commits + 1 ELSE rows[c].written
             q == [rows[c] EXCEPT !.written = end]
  <2>3. end \in Nat
    BY <1>3, <2>1 DEF CreativeRows
  <2>4. Ended(c) = q
    BY <2>1 DEF CreativeRows
  <2>5. rows[c].written = Open => end = commits + 1
    OBVIOUS
  <2>6. rows[c].written # Open => end = rows[c].written
    OBVIOUS
  <2> HIDE DEF end
  <2>7. q \in CreativeRows /\ q.written = end /\ q.began = rows[c].began /\ q.domain = rows[c].domain
        /\ q.headline = rows[c].headline /\ q.copy = rows[c].copy /\ q.catalog = rows[c].catalog
        /\ q.hash = rows[c].hash
    BY <2>1, <2>3 DEF CreativeRows
  <2>8. rows[c].began \in Nat
    BY <2>1 DEF CreativeRows
  <2> HIDE DEF q, Ended
  <2> QED BY <2>2, <2>4, <2>5, <2>6, <2>7, <2>8, NobodyIsNoRow DEF Key
<1>7. \A c \in CreativeIds : creatives'[c] = IF c \in wrote THEN Ended(c) ELSE creatives[c]
  <2> HIDE DEF Ended, wrote
  <2> QED BY <1>2
<1> HIDE DEF Ended
\* A row of the table after the import has ended: one the import gave its key,
\* or one that was there, and that it saw so.
<1> DEFINE New(c) == /\ rows[c] # Nobody /\ rows[c].written = Open
                     /\ Key(creatives'[c]) = Key(rows[c]) /\ creatives'[c].began = rows[c].began
                     /\ creatives'[c].began \in Nat /\ creatives'[c].began <= commits
                     /\ creatives'[c].written = commits + 1
           Kept(c) == /\ creatives[c] # Nobody /\ SameGiving(creatives'[c], creatives[c])
                      /\ Seen(w, c) # Nobody /\ Seen(w, c).written # Open
                      /\ SameGiving(creatives'[c], Seen(w, c))
                      /\ creatives'[c].began \in Nat /\ creatives'[c].written \in Nat
                      /\ creatives'[c].began < creatives'[c].written /\ creatives'[c].written <= commits
<1>8. ASSUME NEW c \in CreativeIds, creatives'[c] # Nobody
      PROVE  New(c) \/ Kept(c)
  <2>1. CASE c \in wrote /\ rows[c].written = Open
    BY <1>6, <1>7, <2>1
  <2>2. CASE ~(c \in wrote /\ rows[c].written = Open)
    <3>1. /\ creatives[c] # Nobody /\ SameGiving(creatives'[c], creatives[c])
          /\ Seen(w, c) # Nobody /\ SameGiving(creatives'[c], Seen(w, c))
      <4>1. CASE c \in wrote
        <5>1. SameGiving(Ended(c), rows[c]) /\ creatives'[c] = Ended(c)
          BY <1>6, <1>7, <2>2, <4>1 DEF SameGiving
        <5>2. Seen(w, c) = rows[c] /\ rows[c] # Nobody /\ KeepsGiving(w)
          BY <4>1 DEF Seen, rows, CatalogueInv, WriterInv
        <5>3. creatives[c] # Nobody /\ SameGiving(rows[c], creatives[c])
          BY <2>2, <4>1, <5>2 DEF KeepsGiving, rows
        <5> QED BY <5>1, <5>2, <5>3 DEF SameGiving
      <4>2. CASE c \notin wrote
        <5>1. creatives'[c] = creatives[c] /\ Seen(w, c) = creatives[c]
          BY <1>7, <4>2 DEF Seen, rows
        <5> QED BY <1>8, <5>1 DEF SameGiving
      <4> QED BY <4>1, <4>2
    <3>2. creatives[c] \in CreativeRows /\ Timed(c)
      BY <1>3, <3>1 DEF CatalogueInv
    <3>3. /\ creatives[c].began \in Nat /\ creatives[c].written \in Nat
          /\ creatives[c].began < creatives[c].written /\ creatives[c].written <= commits
      BY <3>1, <3>2 DEF Timed, CreativeRows
    <3>4. creatives[c].written # Open
      BY <3>3 DEF Open
    <3> QED BY <3>1, <3>3, <3>4 DEF SameGiving
  <2> QED BY <2>1, <2>2
<1>9. CatalogueTypes'
  <2>1. advertisers' \in [Domains -> Names \cup {Nobody}]
    BY <1>2, <1>3, <1>4 DEF CatalogueTypes
  <2>2. creatives' \in [CreativeIds -> CreativeRows \cup {Nobody}]
    <3>1. \A c \in CreativeIds : creatives'[c] \in CreativeRows \cup {Nobody}
      BY <1>3, <1>6, <1>7
    <3>2. creatives' = [c \in CreativeIds |-> creatives'[c]]
      BY <1>2
    <3> QED BY <3>1, <3>2
  <2>3. commits' \in Nat /\ job' \in Jobs /\ writer' \in [Writers -> Transactions]
    BY <1>1, <1>3, <1>5 DEF CatalogueTypes
  <2> QED BY <2>1, <2>2, <2>3 DEF CatalogueTypes
<1>10. \A x \in Domains : advertisers[x] # Nobody =>
           advertisers'[x] # Nobody /\ (x \notin renamed' => x \notin renamed /\ advertisers'[x] = advertisers[x])
  BY <1>2, <1>3, <1>4, CatalogueAssumption DEF CatalogueTypes
<1>11. TableGrows
  <2>1. ASSUME NEW c \in CreativeIds, creatives'[c] # Nobody
        PROVE  \/ creatives[c] # Nobody /\ SameGiving(creatives'[c], creatives[c])
               \/ commits < creatives'[c].written
    <3>1. CASE New(c)
      BY <1>3, <3>1
    <3>2. CASE Kept(c)
      BY <3>2
    <3> QED BY <1>8, <2>1, <3>1, <3>2
  <2>2. commits' \in Nat /\ commits <= commits'
    BY <1>1, <1>3
  <2> QED BY <1>1, <1>10, <2>1, <2>2 DEF TableGrows
<1>12. \A v \in Writers \ {w}, c \in CreativeIds :
           writer[v].rows[c] # Nobody /\ creatives[c] # Nobody =>
               creatives'[c] # Nobody /\ SameGiving(creatives'[c], creatives[c])
  <2>1. \A v \in Writers \ {w}, c \in CreativeIds : writer[v].rows[c] # Nobody => c \notin wrote
    BY DEF CatalogueInv, Exclusive, rows
  <2> QED BY <1>7, <2>1 DEF SameGiving
<1>13. advertisers'[d] # Nobody /\ (d \notin renamed' => advertisers'[d] = writer[w].name)
  <2>1. CASE writer[w].renames
    BY <1>2, <1>3, <1>4, <2>1, CatalogueAssumption DEF CatalogueTypes
  <2>2. CASE ~writer[w].renames
    <3>1. writer[w].known = writer[w].name /\ writer[w].known # Nobody
      BY <1>1, <1>4, <2>2, WriterFacts, CatalogueAssumption DEF Informed
    <3>2. advertisers[d] # Nobody /\ (d \notin renamed => advertisers[d] = writer[w].known)
      BY <3>1, WriterFacts DEF Informed, d
    <3> QED BY <1>2, <2>2, <3>1, <3>2
  <2> QED BY <2>1, <2>2
<1>14. ASSUME NEW c \in CreativeIds PROVE (Truthful(c) /\ Timed(c))'
  <2>1. Truthful(c)'
    <3>1. CASE c \in wrote
      <4>1. creatives'[c] = Ended(c)
        BY <1>7, <3>1
      <4> QED BY <1>6, <1>13, <3>1, <4>1 DEF Truthful
    <3>2. CASE c \notin wrote
      <4>1. creatives'[c] = creatives[c] /\ Truthful(c)
        BY <1>7, <3>2 DEF CatalogueInv
      <4>2. creatives[c] # Nobody => creatives[c].domain \in Domains
        BY <1>3 DEF CreativeRows
      <4> QED BY <1>10, <4>1, <4>2 DEF Truthful
    <3> QED BY <3>1, <3>2
  <2>2. Timed(c)'
    <3> SUFFICES ASSUME creatives'[c] # Nobody
                 PROVE  creatives'[c].began < creatives'[c].written /\ creatives'[c].written <= commits + 1
      BY <1>1 DEF Timed
    <3>1. CASE New(c)
      BY <1>3, <3>1
    <3>2. CASE Kept(c)
      BY <1>3, <3>2
    <3> QED BY <1>8, <3>1, <3>2
  <2> QED BY <2>1, <2>2
<1>15. ASSUME NEW x \in CreativeIds, NEW y \in CreativeIds, creatives'[x] # Nobody,
              creatives'[y] # Nobody, x # y, Key(creatives'[x]) = Key(creatives'[y])
       PROVE  creatives'[x].began < creatives'[y].written
  <2>1. CASE New(y)
    <3>1. creatives'[x].began \in Nat /\ creatives'[x].began <= commits
      <4>1. CASE New(x)
        BY <4>1
      <4>2. CASE Kept(x)
        BY <1>3, <4>2
      <4> QED BY <1>8, <1>15, <4>1, <4>2
    <3> QED BY <1>3, <2>1, <3>1
  <2>2. CASE New(x) /\ Kept(y)
    <3>1. Key(Seen(w, y)) = Key(rows[x])
      BY <1>15, <2>2 DEF SameGiving
    <3>2. PendingSince(w)
      BY DEF CatalogueInv, WriterInv
    <3>3. GivenSince(w, Key(rows[x]), x, rows[x].began)
      BY <2>2, <3>2 DEF PendingSince, rows
    <3>4. rows[x].began < Seen(w, y).written
      BY <1>15, <2>2, <3>1, <3>3 DEF GivenSince
    <3> QED BY <2>2, <3>4 DEF SameGiving
  <2>3. CASE Kept(x) /\ Kept(y)
    <3>1. creatives[x].began < creatives[y].written
      BY <1>15, <2>3, PairFacts DEF SameGiving
    <3> QED BY <2>3, <3>1 DEF SameGiving
  <2> QED BY <1>8, <1>15, <2>1, <2>2, <2>3
<1>16. SharedKeysOverlapped'
  <2> HIDE DEF New, Kept
  <2> QED BY <1>15 DEF SharedKeysOverlapped, Live
<1> QED BY <1>5, <1>9, <1>11, <1>12, <1>14, <1>16, CommitKeeps

LEMMA SetActiveKeeps ==
    ASSUME CatalogueInv, NEW c \in CreativeIds, NEW active \in BOOLEAN, SetCreativeActive(c, active)
    PROVE  CatalogueInv'
<1> DEFINE r == [creatives[c] EXCEPT !.active = active]
<1>1. creatives[c] # Nobody /\ UNCHANGED <<advertisers, job, writer, commits, renamed>>
      /\ creatives' = [creatives EXCEPT ![c].active = active]
  BY DEF SetCreativeActive
<1>2. creatives \in [CreativeIds -> CreativeRows \cup {Nobody}] /\ creatives[c] \in CreativeRows
      /\ CatalogueTypes /\ commits \in Nat
  BY <1>1 DEF CatalogueInv, CatalogueTypes
<1>3. /\ r \in CreativeRows /\ SameGiving(r, creatives[c]) /\ r.domain = creatives[c].domain
      /\ r.hash = creatives[c].hash /\ r.headline = creatives[c].headline /\ r.copy = creatives[c].copy
  BY <1>2 DEF CreativeRows, SameGiving, Key
<1>4. creatives' = [creatives EXCEPT ![c] = r]
  BY <1>1, <1>2
<1> HIDE DEF r
<1>5. \A x \in CreativeIds : creatives'[x] = IF x = c THEN r ELSE creatives[x]
  BY <1>2, <1>4
<1>6. CatalogueTypes'
  BY <1>1, <1>2, <1>3, <1>4 DEF CatalogueTypes
<1>7. r # Nobody
  BY <1>3, NobodyIsNoRow
<1>8. \A x \in CreativeIds :
          /\ creatives'[x] # Nobody <=> creatives[x] # Nobody
          /\ creatives[x] # Nobody => SameGiving(creatives'[x], creatives[x])
  BY <1>1, <1>3, <1>5, <1>7 DEF SameGiving
<1>9. TableGrows
  BY <1>1, <1>2, <1>8 DEF TableGrows
<1>10. \A v \in Writers : WriterInv(v)'
  BY <1>1, <1>6, <1>8, <1>9, BystanderKeeps
<1>11. ASSUME NEW x \in CreativeIds PROVE (Truthful(x) /\ Timed(x))'
  <2>1. Truthful(x) /\ Timed(x)
    BY DEF CatalogueInv
  <2>2. Truthful(x)'
    BY <1>1, <1>3, <1>5, <2>1 DEF Truthful
  <2>3. Timed(x)'
    BY <1>1, <1>8, <2>1 DEF Timed, SameGiving
  <2> QED BY <2>2, <2>3
<1>12. SharedKeysOverlapped'
  <2> SUFFICES ASSUME NEW x \in CreativeIds, NEW y \in CreativeIds, creatives'[x] # Nobody,
                      creatives'[y] # Nobody, x # y, Key(creatives'[x]) = Key(creatives'[y])
               PROVE  creatives'[x].began < creatives'[y].written
                      /\ creatives'[y].began < creatives'[x].written
    BY DEF SharedKeysOverlapped, Live
  <2>1. Key(creatives[x]) = Key(creatives[y]) /\ creatives[x] # Nobody /\ creatives[y] # Nobody
    BY <1>8 DEF SameGiving
  <2>2. creatives[x].began < creatives[y].written /\ creatives[y].began < creatives[x].written
    BY <2>1, PairFacts
  <2> QED BY <1>8, <2>1, <2>2 DEF SameGiving
<1>13. Exclusive'
  BY <1>1 DEF CatalogueInv, Exclusive
<1> QED BY <1>6, <1>10, <1>11, <1>12, <1>13 DEF CatalogueInv

-----------------------------------------------------------------------------
LEMMA InitCatalogue == CatalogueInit => CatalogueInv
<1> SUFFICES ASSUME CatalogueInit PROVE CatalogueInv
  OBVIOUS
<1>1. \A w \in Writers : job[w].name \in Names \cup {Listed}
  <2>1. job \in [Writers ->
           [kind : {"create", "update", "seed"}, domain : Domains, name : Names \cup {Listed},
            catalog : Catalogs, entries : Seq(Entries)]]
    BY CatalogueAssumption DEF CatalogueInit
  <2> QED BY <2>1
<1>2. NoRows \in [CreativeIds -> CreativeRows \cup {Nobody}]
  BY DEF NoRows
<1>3. writer \in [Writers -> Transactions]
  BY <1>1, <1>2 DEF CatalogueInit, Transactions
<1>4. CatalogueTypes
  BY <1>2, <1>3 DEF CatalogueInit, CatalogueTypes
<1>5. \A c \in CreativeIds : creatives[c] = Nobody /\ NoRows[c] = Nobody
  BY DEF CatalogueInit, NoRows
<1>6. ASSUME NEW w \in Writers PROVE WriterInv(w)
  <2> DEFINE t == writer[w]
  <2>1. /\ t.pc = "ready" /\ t.name = job[w].name /\ t.known = Nobody /\ t.next = 1
        /\ t.found = Nobody /\ t.existing = Nobody /\ t.began = 0 /\ t.rows = NoRows /\ commits = 0
    BY DEF CatalogueInit
  <2>2. job[w].kind = "seed" => job[w].name \in Names
    BY <1>4, JobFacts
  <2>3. Placed(w)
    BY <1>5, <2>1, <2>2 DEF Placed
  <2>4. Informed(w) /\ MayGive(w)
    BY <2>1 DEF Informed, MayGive
  <2>5. Past(w) /\ KeepsGiving(w) /\ PendingSince(w)
    BY <1>5, <2>1 DEF Past, KeepsGiving, PendingSince
  <2> QED BY <2>3, <2>4, <2>5 DEF WriterInv
<1>7. Exclusive
  <2>1. \A w \in Writers : writer[w].rows = NoRows
    BY DEF CatalogueInit
  <2> QED BY <1>5, <2>1 DEF Exclusive
<1>8. SharedKeysOverlapped /\ \A c \in CreativeIds : Truthful(c) /\ Timed(c)
  BY <1>5 DEF SharedKeysOverlapped, Live, Truthful, Timed
<1> QED BY <1>4, <1>6, <1>7, <1>8 DEF CatalogueInv

\* Every step keeps the invariant.
LEMMA CatalogueStep == CatalogueInv /\ [CatalogueNext]_catalogueVars => CatalogueInv'
<1> SUFFICES ASSUME CatalogueInv, [CatalogueNext]_catalogueVars PROVE CatalogueInv'
  OBVIOUS
<1>1. ASSUME NEW w \in Writers, Abort(w) PROVE CatalogueInv'
  <2>1. /\ writer' = [writer EXCEPT ![w].pc = "thrown", ![w].rows = NoRows, ![w].renames = FALSE]
        /\ UNCHANGED <<advertisers, creatives, job, commits, renamed>>
    BY <1>1 DEF Abort
  <2> QED BY <2>1, AbandonKeeps
<1>2. CASE UNCHANGED catalogueVars
  <2>1. UNCHANGED <<advertisers, creatives, job, writer, commits, renamed>>
    BY <1>2 DEF catalogueVars
  <2>2. CatalogueTypes' /\ TableGrows
    BY <2>1 DEF CatalogueInv, CatalogueTypes, TableGrows, SameGiving
  <2>3. \A v \in Writers : WriterInv(v)'
    BY <2>1, <2>2, BystanderKeeps DEF SameGiving
  <2>4. Exclusive' /\ SharedKeysOverlapped' /\ \A c \in CreativeIds : (Truthful(c) /\ Timed(c))'
    BY <2>1 DEF CatalogueInv, Exclusive, SharedKeysOverlapped, Live, Truthful, Timed
  <2> QED BY <2>2, <2>3, <2>4 DEF CatalogueInv
<1>3. CASE \E c \in CreativeIds, active \in BOOLEAN : SetCreativeActive(c, active)
  BY <1>3, SetActiveKeeps
<1>4. CASE \E w \in Writers :
             \/ ReadForm(w) \/ FindAdvertiser(w) \/ CheckHeadline(w) \/ SaveCreative(w)
             \/ SeedFindAdvertiser(w) \/ SeedAdvertiser(w) \/ SeedFind(w) \/ SeedUpsert(w)
             \/ SeedCommit(w) \/ Abort(w)
  BY <1>1, <1>4, ReadFormKeeps, FindAdvertiserKeeps, CheckHeadlineKeeps, SaveCreativeKeeps,
     SeedFindAdvertiserKeeps, SeedAdvertiserKeeps, SeedFindKeeps, SeedUpsertKeeps, SeedCommitKeeps
<1> QED BY <1>2, <1>3, <1>4 DEF CatalogueNext

\* A creative is stored under the hash of the advertiser it is joined to, unless
\* an import has renamed that one since, and two creatives hold one key only
\* when they were given it at overlapping times.
THEOREM CatalogueStaysConsistent == CatalogueSpec => []CatalogueConsistent
<1>1. CatalogueInv => CatalogueConsistent
  <2> SUFFICES ASSUME CatalogueInv PROVE HashesFollowAdvertiser
    BY DEF CatalogueConsistent, CatalogueInv
  <2> QED BY DEF CatalogueInv, HashesFollowAdvertiser, Truthful, Live
<1> QED BY <1>1, InitCatalogue, CatalogueStep, PTL DEF CatalogueSpec
=============================================================================
