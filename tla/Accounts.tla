------------------------------ MODULE Accounts ------------------------------
(***************************************************************************)
(* User accounts, sessions and the failed-login lockout (web/app.py).      *)
(*                                                                         *)
(* Accounts are rows of SQLite; the failures and lockouts are dictionaries *)
(* in memory that the request threads share without a lock.  Time is kept  *)
(* as ages: of each failure, and what is left of a lockout.  A failure is   *)
(* named by its place in the history of its key, so a list of the code's   *)
(* is a set of such places.                                                *)
(***************************************************************************)
EXTENDS Clients, Integers, Sequences, FiniteSets, SequencesExt

CONSTANTS
    KeyOf,              \* [Users -> keys]: the name in lower case and the address
    Limit,              \* FAILED_LOGIN_LIMIT
    Window,             \* FAILED_LOGIN_WINDOW_SECONDS, in ticks
    Lockout,            \* FAILED_LOGIN_LOCKOUT_SECONDS, in ticks
    Second              \* the ticks of a second

Keys == {KeyOf[u] : u \in Users}

ASSUME AccountsAssumption ==
    /\ DOMAIN KeyOf = Users
    /\ None \notin Users
    /\ {Limit, Lockout, Second} \subseteq Nat \ {0}
    /\ Window \in Nat /\ Window >= Lockout

VARIABLES
    users,              \* the users table: [id -> name], as a sequence
    sessions,           \* [Threads -> the user of the browser's session]
    attempts,           \* failed_login_attempts: [Keys -> places in failures[k]]
    lockouts,           \* login_lockouts: [Keys -> what is left, 0 for none]
    logins,             \* [Threads -> what is left of a registration or login]
    failures            \* history: the ages of all failures, in their order

accountVars == <<users, sessions, attempts, lockouts, logins, failures>>

Out == [do |-> "out"]
Logins ==
    {Out}
    \cup [do : {"insert", "verify"}, user : Users]
    \cup [do : {"append"}, user : Users, failure : Nat, list : SUBSET Nat, stale : BOOLEAN]
Registered(u) == u \in Range(users)

Continue(t, login) == logins' = [logins EXCEPT ![t] = login]

-----------------------------------------------------------------------------
\* register_submit looks for the name, then inserts it; the column is UNIQUE.
Register(t, u) ==
    /\ logins[t] = Out /\ sessions[t] = None
    /\ ~ Registered(u)
    /\ Continue(t, [do |-> "insert", user |-> u])
    /\ UNCHANGED <<users, sessions, attempts, lockouts, failures>>

Inserted(u) == Append(users, u)                 \* Mutant: the column is not UNIQUE
InsertedOnce(u) == IF Registered(u) THEN users ELSE Append(users, u)

InsertUser(t) ==
    /\ logins[t].do = "insert"
    /\ users' = InsertedOnce(logins[t].user)
    /\ Continue(t, Out)
    /\ UNCHANGED <<sessions, attempts, lockouts, failures>>

-----------------------------------------------------------------------------
\* _prune_failed_attempts makes a new list of a key's recent failures, so a
\* thread that has yet to append to the old one appends to no effect.
Recent(k) == {n \in attempts[k] : failures[k][n] <= Window}
Prune(k) == attempts' = [attempts EXCEPT ![k] = Recent(k)]
Stale(k, t, login) ==
    [v \in Threads |->
        IF v = t THEN login
        ELSE IF logins[v].do = "append" /\ KeyOf[logins[v].user] = k
        THEN [logins[v] EXCEPT !.stale = TRUE]
        ELSE logins[v]]

\* login_lockout_remaining counts whole seconds: in its last second a lockout
\* lets a login through.
LockedOut(k) == lockouts[k] >= Second

LoginCheck(t, u) ==
    /\ logins[t] = Out /\ sessions[t] = None
    /\ Prune(KeyOf[u])
    /\ logins' = Stale(KeyOf[u], t,
                       IF LockedOut(KeyOf[u]) THEN Out ELSE [do |-> "verify", user |-> u])
    /\ UNCHANGED <<users, sessions, lockouts, failures>>

\* clear_failed_logins: the lists are dropped, those others hold too.
LoginSucceeds(t) ==
    /\ logins[t].do = "verify" /\ Registered(logins[t].user)
    /\ LET k == KeyOf[logins[t].user]
       IN  /\ attempts' = [attempts EXCEPT ![k] = {}]
           /\ lockouts' = [lockouts EXCEPT ![k] = 0]
           /\ logins' = Stale(k, t, Out)
    /\ sessions' = [sessions EXCEPT ![t] = logins[t].user]
    /\ UNCHANGED <<users, failures>>

\* record_failed_login prunes, gets the list, and appends the failure to it.
LoginFails(t) ==
    /\ logins[t].do = "verify"
    /\ LET k == KeyOf[logins[t].user]
       IN  /\ Prune(k)
           /\ failures' = [failures EXCEPT ![k] = Append(@, 0)]
           /\ logins' = Stale(k, t, [do |-> "append", user |-> logins[t].user,
                                     failure |-> Len(failures[k]) + 1,
                                     list |-> Recent(k), stale |-> FALSE])
    /\ UNCHANGED <<users, sessions, lockouts>>

LimitBelow(n) == n + 1 >= Limit                 \* Mutant: off by one
LimitReached(n) == n >= Limit

RecordFailure(t) ==
    /\ logins[t].do = "append"
    /\ LET j == logins[t]
           k == KeyOf[j.user]
           list == (IF j.stale THEN j.list ELSE attempts[k]) \cup {j.failure}
       IN  /\ attempts' = IF j.stale THEN attempts ELSE [attempts EXCEPT ![k] = list]
           /\ lockouts' = IF LimitReached(Cardinality(list))
                          THEN [lockouts EXCEPT ![k] = Lockout] ELSE lockouts
    /\ Continue(t, Out)
    /\ UNCHANGED <<users, sessions, failures>>

Logout(t) ==
    /\ logins[t] = Out /\ sessions[t] # None
    /\ sessions' = [sessions EXCEPT ![t] = None]
    /\ UNCHANGED <<users, attempts, lockouts, logins, failures>>

\* Ages beyond what the code or a property asks for are kept at one value.  The
\* two steps of record_failed_login share one reading of the clock.
Oldest == Window + Lockout + 1
Older(age) == IF age < Oldest THEN age + 1 ELSE age

TimePasses ==
    /\ \A t \in Threads : logins[t].do # "append"
    /\ failures' = [k \in Keys |-> [n \in DOMAIN failures[k] |-> Older(failures[k][n])]]
    /\ lockouts' = [k \in Keys |-> IF lockouts[k] > 0 THEN lockouts[k] - 1 ELSE 0]
    /\ UNCHANGED <<users, sessions, attempts, logins>>

-----------------------------------------------------------------------------
AccountsInit ==
    /\ users = <<>>
    /\ sessions = [t \in Threads |-> None]
    /\ attempts = [k \in Keys |-> {}]
    /\ lockouts = [k \in Keys |-> 0]
    /\ logins = [t \in Threads |-> Out]
    /\ failures = [k \in Keys |-> <<>>]

AccountRequest(t) == (\E u \in Users : Register(t, u) \/ LoginCheck(t, u)) \/ Logout(t)

AccountWork(t) ==
    InsertUser(t) \/ LoginSucceeds(t) \/ LoginFails(t) \/ RecordFailure(t)

AccountsNext == (\E t \in Threads : AccountRequest(t) \/ AccountWork(t)) \/ TimePasses

AccountsSpec == AccountsInit /\ [][AccountsNext]_accountVars

-----------------------------------------------------------------------------
\* Types.
AccountsTypeOK ==
    /\ users \in Seq(Users)
    /\ sessions \in [Threads -> Users \cup {None}]
    /\ failures \in [Keys -> Seq(0 .. Oldest)]
    /\ attempts \in [Keys -> SUBSET Nat]
    /\ lockouts \in [Keys -> 0 .. Lockout]
    /\ logins \in [Threads -> Logins]

\* validate_registration_form: "That username is already registered."  Two
\* registrations of one name at once make one account.
NamesAreUnique == IsInjective(users)

\* A lockout is earned: behind each one there are as many failed logins as the
\* limit says, within the window, however the requests of a key overlap, lose
\* each other's records and are cleared by a success.
LockoutIsEarned ==
    \A k \in Keys :
        lockouts[k] > 0 =>
            Cardinality({n \in DOMAIN failures[k] :
                            failures[k][n] <= Window + Lockout - lockouts[k]}) >= Limit
=============================================================================
