------------------------------ MODULE Accounts ------------------------------
(***************************************************************************)
(* The accounts of the cloud: sign-up, login and the account that a        *)
(* development deployment seeds at every login (routers/auth.py), the      *)
(* changes that administrators make and their audit log                    *)
(* (routers/users.py), and who a token or a service key lets act           *)
(* (security.py), also one that the development endpoint minted for        *)
(* anybody with any role.                                                  *)
(*                                                                         *)
(* The endpoints run in threads and every connection commits each          *)
(* statement at once, so requests interleave between their statements and  *)
(* one that raises or dies leaves what it has done.                        *)
(*                                                                         *)
(* Abstractions.  Emails are in lower case, as the code makes them.  The   *)
(* migrations leave one organization and nothing deletes it, so the        *)
(* branches that create one are never taken and a membership is a user and *)
(* a role.  Names, time zones and preferences, each one statement, and     *)
(* invitations, which are always refused because a Principal has no        *)
(* organization, are left out.  A subject that is the id of no account is  *)
(* NoAccount; a token that carries several roles acts with one of them.    *)
(***************************************************************************)
EXTENDS Integers, Sequences, FiniteSets

CONSTANTS
    Email,          \* addresses, with AdminEmail
    AdminEmail,     \* the account of the migrations
    SeedEmails,     \* EA_DEV_ADMIN_EMAIL may be any of these
    Role,           \* roles that an administrator gives
    Thread,         \* threads that serve requests
    ServiceRoles,   \* roles of EA_SERVICE_KEYS
    Requests,       \* bound: requests that change something
    Crashes         \* bound: restarts of the API

AdminRoles == {"client_admin", "admin", "owner"}
Roles == Role \cup {"client_admin", "admin", "viewer"}

Status == {"active", "inactive"}
Password == {"first", "second"}
NoPassword == "null"
NoChange == "unset"

ASSUME AccountsAssumption ==
    /\ AdminEmail \in Email /\ SeedEmails \subseteq Email /\ SeedEmails # {}
    /\ ServiceRoles \subseteq Roles
    /\ Requests \in Nat /\ Crashes \in Nat

VARIABLES
    seedEmail,      \* EA_DEV_ADMIN_EMAIL
    devMode,        \* _is_dev_mode_enabled()
    users,          \* the rows of users; an id is an index
    memberships,    \* the rows of user_memberships, oldest first
    audit,          \* the rows of user_audit_log
    tokens,         \* tokens that have not expired
    req,            \* the request each thread serves
    requests, crashes,
    meddlers,       \* history: who changed the status or role of another
    seeded,         \* history: a login got past the seeding
    minted          \* history: a token was minted

vars == <<seedEmail, devMode, users, memberships, audit, tokens, req, requests, crashes,
          meddlers, seeded, minted>>

NoAccount == 0

Idle == [pc |-> "idle", email |-> AdminEmail, password |-> NoPassword, signup |-> FALSE,
         actor |-> NoAccount, user |-> NoAccount, status |-> NoChange, role |-> NoChange]

\* migrations 0001, 0005
Init ==
    /\ seedEmail \in SeedEmails /\ devMode \in BOOLEAN
    /\ users = <<[email |-> AdminEmail, status |-> "active", password |-> "first"]>>
    /\ memberships = <<[user |-> 1, role |-> "admin"]>>
    /\ audit = {} /\ tokens = {}
    /\ req = [t \in Thread |-> Idle]
    /\ requests = 0 /\ crashes = 0
    /\ meddlers = {} /\ seeded = FALSE /\ minted = FALSE

deployment == <<seedEmail, devMode>>
tables == <<users, memberships, audit>>
histories == <<meddlers, seeded, minted>>

-----------------------------------------------------------------------------
(* The tables *)

UserOf(e) == {i \in DOMAIN users : users[i].email = e}
RolesOf(u) == {memberships[k].role : k \in {k \in DOMAIN memberships : memberships[k].user = u}}

\* auth.py:182-205 -- the oldest membership, and viewer without one
LoginRole(u) ==
    LET mine == {k \in DOMAIN memberships : memberships[k].user = u}
    IN  IF mine = {} THEN "viewer"
        ELSE memberships[CHOOSE k \in mine : \A l \in mine : k <= l].role

\* Mutant: the table has no unique key on the email.
EmailKeyTaken_Never(e) == FALSE

\* migration 0001 -- email TEXT NOT NULL UNIQUE
EmailKeyTaken(e) == UserOf(e) # {}

\* migration 0001 -- idx_user_memberships_unique
MembershipKeyTaken(u, r) == r \in RolesOf(u)

Goto(t, pc) == req' = [req EXCEPT ![t].pc = pc]

\* the answer, whatever it is, or an exception that FastAPI answers with 500
Reply(t) == req' = [req EXCEPT ![t] = Idle]

Begins(t, r) ==
    /\ req[t].pc = "idle"
    /\ requests < Requests
    /\ requests' = requests + 1
    /\ req' = [req EXCEPT ![t] = r]

FirstOfLogin == IF devMode THEN "seed" ELSE "find"

-----------------------------------------------------------------------------
(* Sign-up and login *)

\* auth.py:294-308 -- an address that is taken is refused
Signup(t, e, p) ==
    /\ UserOf(e) = {}
    /\ Begins(t, [Idle EXCEPT !.pc = "insert", !.email = e, !.password = p, !.signup = TRUE])
    /\ UNCHANGED <<deployment, tables, tokens, crashes, histories>>

\* auth.py:322-331 -- another request may have taken the address meanwhile
InsertUser(t) ==
    /\ req[t].pc = "insert"
    /\ IF EmailKeyTaken(req[t].email)
       THEN Reply(t) /\ UNCHANGED users
       ELSE /\ users' = Append(users, [email |-> req[t].email, status |-> "active",
                                       password |-> req[t].password])
            /\ req' = [req EXCEPT ![t].pc = "member", ![t].user = Len(users) + 1]
    /\ UNCHANGED <<deployment, memberships, audit, tokens, requests, crashes, histories>>

\* auth.py:333-337 -- a login may have seeded this very account meanwhile
InsertMember(t) ==
    /\ req[t].pc = "member"
    /\ IF MembershipKeyTaken(req[t].user, "client_admin")
       THEN Reply(t) /\ UNCHANGED memberships
       ELSE /\ memberships' = Append(memberships, [user |-> req[t].user, role |-> "client_admin"])
            /\ Goto(t, FirstOfLogin)
    /\ UNCHANGED <<deployment, users, audit, tokens, requests, crashes, histories>>

\* auth.py:346-349
Login(t, e, p) ==
    /\ Begins(t, [Idle EXCEPT !.pc = FirstOfLogin, !.email = e, !.password = p])
    /\ UNCHANGED <<deployment, tables, tokens, crashes, histories>>

\* Mutant: only the request that creates the account sets its password.
SeedSelect_Created(t) ==
    /\ req[t].pc = "seed"
    /\ req' = IF UserOf(seedEmail) = {}
              THEN [req EXCEPT ![t].pc = "seed_insert"]
              ELSE [req EXCEPT ![t].user = CHOOSE i \in UserOf(seedEmail) : TRUE,
                               ![t].pc = "seed_member"]
    /\ UNCHANGED <<deployment, tables, tokens, requests, crashes, histories>>

\* auth.py:53-68, 84 -- the account, and whether it still needs a password
SeedSelect(t) ==
    /\ req[t].pc = "seed"
    /\ req' = IF UserOf(seedEmail) = {}
              THEN [req EXCEPT ![t].pc = "seed_insert"]
              ELSE LET i == CHOOSE i \in UserOf(seedEmail) : TRUE
                   IN  [req EXCEPT ![t].user = i,
                                   ![t].pc = IF users[i].password = NoPassword
                                             THEN "seed_password" ELSE "seed_member"]
    /\ UNCHANGED <<deployment, tables, tokens, requests, crashes, histories>>

\* auth.py:69-82 -- of two logins that both saw no account one raises here
SeedInsert(t) ==
    /\ req[t].pc = "seed_insert"
    /\ IF EmailKeyTaken(seedEmail)
       THEN Reply(t) /\ UNCHANGED users
       ELSE /\ users' = Append(users, [email |-> seedEmail, status |-> "active", password |-> NoPassword])
            /\ req' = [req EXCEPT ![t].pc = "seed_password", ![t].user = Len(users) + 1]
    /\ UNCHANGED <<deployment, memberships, audit, tokens, requests, crashes, histories>>

\* auth.py:84-85 -- the decision was made from what SeedSelect read
SeedPassword(t) ==
    /\ req[t].pc = "seed_password"
    /\ users' = [users EXCEPT ![req[t].user].password = "first"]
    /\ Goto(t, "seed_member")
    /\ UNCHANGED <<deployment, memberships, audit, tokens, requests, crashes, histories>>

Seeded(t) ==
    /\ Goto(t, "find")
    /\ seeded' = TRUE

\* auth.py:104-113 -- an account whose role was changed gets a second membership
SeedMember(t) ==
    /\ req[t].pc = "seed_member"
    /\ IF "client_admin" \in RolesOf(req[t].user)
       THEN Seeded(t)
       ELSE Goto(t, "seed_grant") /\ UNCHANGED seeded
    /\ UNCHANGED <<deployment, tables, tokens, requests, crashes, meddlers, minted>>

\* auth.py:114-121
SeedGrant(t) ==
    /\ req[t].pc = "seed_grant"
    /\ IF MembershipKeyTaken(req[t].user, "client_admin")
       THEN Reply(t) /\ UNCHANGED <<memberships, seeded>>
       ELSE /\ memberships' = Append(memberships, [user |-> req[t].user, role |-> "client_admin"])
            /\ Seeded(t)
    /\ UNCHANGED <<deployment, users, audit, tokens, requests, crashes, meddlers, minted>>

\* auth.py:177-215, 339-361 -- a token for an active account, to a
\* login only with its password
Find(t) ==
    /\ req[t].pc = "find"
    /\ tokens' = tokens \cup
           {[user |-> i, role |-> LoginRole(i)] :
                i \in {i \in UserOf(req[t].email) :
                           /\ users[i].status = "active"
                           /\ req[t].signup \/ users[i].password = req[t].password}}
    /\ Reply(t)
    /\ UNCHANGED <<deployment, tables, requests, crashes, histories>>

\* auth.py:259-290 -- in development anybody gets a token for any subject, with
\* any role
MintDevToken(t, u, r) ==
    /\ devMode
    /\ req[t].pc = "idle" /\ requests < Requests
    /\ requests' = requests + 1
    /\ tokens' = tokens \cup {[user |-> u, role |-> r]}
    /\ minted' = TRUE
    /\ UNCHANGED <<deployment, tables, req, crashes, meddlers, seeded>>

\* auth.py:424-447 -- the password is checked in one statement ...
ChangePassword(t, token, current, new) ==
    /\ token.user # NoAccount
    /\ users[token.user].password \in {NoPassword, current}
    /\ Begins(t, [Idle EXCEPT !.pc = "password", !.user = token.user, !.password = new])
    /\ UNCHANGED <<deployment, tables, tokens, crashes, histories>>

\* auth.py:449-455 -- ... and replaced in another
WritePassword(t) ==
    /\ req[t].pc = "password"
    /\ users' = [users EXCEPT ![req[t].user].password = req[t].password]
    /\ Reply(t)
    /\ UNCHANGED <<deployment, memberships, audit, tokens, requests, crashes, histories>>

-----------------------------------------------------------------------------
(* Administration *)

\* security.py:81-105, 143-155 -- whoever holds a service key acts as no account
Principals == tokens \cup [user : {NoAccount}, role : ServiceRoles]

\* security.py:189-199
MayAdminister(token) == token.role \in AdminRoles

Meddles(actor, u) == meddlers' = IF actor = u THEN meddlers ELSE meddlers \cup {actor}

\* Mutant: nobody is kept from changing the own role.
OwnAccount_StatusOnly(status, role) == status \notin {"active", NoChange}

\* users.py:183-189 -- what nobody may change in the own account
OwnAccount(status, role) == status \notin {"active", NoChange} \/ role # NoChange

\* users.py:169-189
UpdateUser(t, token, u, status, role) ==
    /\ MayAdminister(token)
    /\ status # NoChange \/ role # NoChange
    /\ token.user = u => ~OwnAccount(status, role)
    /\ Begins(t, [Idle EXCEPT !.pc = "update_status", !.actor = token.user, !.user = u,
                              !.status = status, !.role = role])
    /\ UNCHANGED <<deployment, tables, tokens, crashes, histories>>

\* users.py:199-203
UpdateStatus(t) ==
    /\ req[t].pc = "update_status"
    /\ IF req[t].status = NoChange
       THEN UNCHANGED <<users, meddlers>>
       ELSE /\ users' = [users EXCEPT ![req[t].user].status = req[t].status]
            /\ Meddles(req[t].actor, req[t].user)
    /\ Goto(t, "update_role")
    /\ UNCHANGED <<deployment, memberships, audit, tokens, requests, crashes, seeded, minted>>

\* users.py:205-249 -- all memberships become the same row: with two
\* of them the unique index refuses, after the status was changed.  The audit
\* row of an update is never written: its details are a dict, which psycopg
\* cannot adapt, and _log_audit swallows that.
UpdateRole(t) ==
    /\ req[t].pc = "update_role"
    /\ IF req[t].role = NoChange \/ Cardinality(RolesOf(req[t].user)) # 1
       THEN UNCHANGED <<memberships, meddlers>>
       ELSE /\ memberships' = [k \in DOMAIN memberships |->
                                  IF memberships[k].user = req[t].user
                                  THEN [memberships[k] EXCEPT !.role = req[t].role]
                                  ELSE memberships[k]]
            /\ Meddles(req[t].actor, req[t].user)
    /\ Reply(t)
    /\ UNCHANGED <<deployment, users, audit, tokens, requests, crashes, seeded, minted>>

\* users.py:387-443 -- deactivate, which nobody does to himself, and
\* reactivate
SetStatus(t, token, u, status) ==
    /\ MayAdminister(token)
    /\ token.user = u => ~OwnAccount(status, NoChange)
    /\ users' = [users EXCEPT ![u].status = status]
    /\ Meddles(token.user, u)
    /\ Begins(t, [Idle EXCEPT !.pc = "audit", !.actor = token.user, !.user = u, !.status = status])
    /\ UNCHANGED <<deployment, memberships, audit, tokens, crashes, seeded, minted>>

\* users.py:62-77, 407-413 -- in a connection of its own; actor_id refers to a
\* user
LogAudit(t) ==
    /\ req[t].pc = "audit"
    /\ req[t].actor # NoAccount
    /\ audit' = audit \cup {[actor |-> req[t].actor, status |-> req[t].status, user |-> req[t].user]}
    /\ Reply(t)
    /\ UNCHANGED <<deployment, users, memberships, tokens, requests, crashes, histories>>

\* users.py:79-80 -- the actor is no user, or the database cannot be reached:
\* nothing is logged
LogFails(t) ==
    /\ req[t].pc = "audit"
    /\ Reply(t)
    /\ UNCHANGED <<deployment, tables, tokens, requests, crashes, histories>>

-----------------------------------------------------------------------------
\* auth.py:160-174 -- ACCESS_TOKEN_EXPIRE_MINUTES are over
Expire(token) ==
    /\ tokens' = tokens \ {token}
    /\ UNCHANGED <<deployment, tables, req, requests, crashes, histories>>

\* the API is restarted; what its requests had committed stays
Crash ==
    /\ crashes < Crashes
    /\ crashes' = crashes + 1
    /\ req' = [t \in Thread |-> Idle]
    /\ UNCHANGED <<deployment, tables, tokens, requests, histories>>

Step(t) ==
    \/ InsertUser(t) \/ InsertMember(t)
    \/ SeedSelect(t) \/ SeedInsert(t) \/ SeedPassword(t) \/ SeedMember(t) \/ SeedGrant(t)
    \/ Find(t) \/ WritePassword(t)
    \/ UpdateStatus(t) \/ UpdateRole(t)
    \/ LogAudit(t) \/ LogFails(t)

Arrive(t) ==
    \/ \E e \in Email, p \in Password : Signup(t, e, p) \/ Login(t, e, p)
    \/ \E u \in DOMAIN users \cup {NoAccount}, r \in Roles : MintDevToken(t, u, r)
    \/ \E token \in Principals :
        \/ \E current, new \in Password : ChangePassword(t, token, current, new)
        \/ \E u \in DOMAIN users :
            \/ \E status \in Status \cup {NoChange}, role \in Role \cup {NoChange} :
                   UpdateUser(t, token, u, status, role)
            \/ \E status \in Status : SetStatus(t, token, u, status)

Next ==
    \/ \E t \in Thread : Arrive(t) \/ Step(t)
    \/ \E token \in tokens : Expire(token)
    \/ Crash

Spec == Init /\ [][Next]_vars

-----------------------------------------------------------------------------
(* Properties *)

Places == {"idle", "insert", "member", "seed", "seed_insert", "seed_password", "seed_member",
           "seed_grant", "find", "password", "update_status", "update_role", "audit"}

TypeOK ==
    /\ seedEmail \in SeedEmails /\ devMode \in BOOLEAN
    /\ users \in Seq([email : Email, status : Status, password : Password \cup {NoPassword}])
    /\ memberships \in Seq([user : DOMAIN users, role : Roles])
    /\ audit \subseteq [actor : DOMAIN users, status : Status, user : DOMAIN users]
    /\ tokens \subseteq [user : 0 .. Len(users), role : Roles]
    /\ req \in [Thread -> [pc : Places, email : Email, password : Password \cup {NoPassword},
                           signup : BOOLEAN, actor : 0 .. Len(users), user : 0 .. Len(users),
                           status : Status \cup {NoChange}, role : Role \cup {NoChange}]]
    /\ requests \in 0 .. Requests /\ crashes \in 0 .. Crashes
    /\ meddlers \subseteq 0 .. Len(users)
    /\ seeded \in BOOLEAN /\ minted \in BOOLEAN

\* However sign-ups, logins and seedings of one address interleave, it has one
\* account, an account has a membership of each role at most once, and only the
\* seeded account ever has more than one, so that its role can no longer be
\* changed.
AccountsWhole ==
    /\ TypeOK
    /\ \A i, j \in DOMAIN users : users[i].email = users[j].email => i = j
    /\ \A k, l \in DOMAIN memberships : memberships[k] = memberships[l] => k = l
    /\ \A i \in DOMAIN users : Cardinality(RolesOf(i)) > 1 => users[i].email = seedEmail

IsAdministrator(u) == users[u].status = "active" /\ LoginRole(u) \in AdminRoles
Administrators == {u \in DOMAIN users : IsAdministrator(u)}

\* No single account can leave the site without an administrator, also with a
\* token that still carries a role lost since: it takes two that change each
\* other, or somebody who is no account, with a service key, or a token that
\* was minted in development for another.
LockoutNeedsTwo ==
    Administrators = {} => Cardinality(meddlers) > 1 \/ NoAccount \in meddlers \/ minted

\* Once a login got past the seeding, the seeded account has a password and a
\* membership, although another request, or one that died, may have left it
\* with neither.
SeedUsable ==
    seeded => \A i \in UserOf(seedEmail) : users[i].password # NoPassword /\ RolesOf(i) # {}

-----------------------------------------------------------------------------
(* The inductive invariant behind the three *)

\* what a request decided by still holds where it acts on it
RequestOK(r) ==
    /\ r.pc \notin {"idle", "insert", "seed", "seed_insert", "find"} => r.user \in DOMAIN users
    /\ r.pc \in {"insert", "password"} => r.password \in Password
    /\ r.pc \in {"seed_password", "seed_member", "seed_grant"} => users[r.user].email = seedEmail
    /\ r.pc \in {"seed_member", "seed_grant"} => users[r.user].password # NoPassword
    /\ r.pc \in {"update_status", "update_role"} /\ r.actor = r.user => ~OwnAccount(r.status, r.role)
    /\ r.pc = "audit" => r.status \in Status

RequestInv == \A t \in Thread : RequestOK(req[t])

\* only the seeding gives an account its membership before the sign-up does, or
\* a second one
MemberInv ==
    /\ \A t \in Thread : req[t].pc = "member" =>
          \/ users[req[t].user].email = seedEmail
          \/ /\ \A k \in DOMAIN memberships : memberships[k].user # req[t].user
             /\ \A s \in Thread \ {t} : req[s].pc = "member" => req[s].user # req[t].user
    /\ \A k, l \in DOMAIN memberships :
          /\ memberships[k].user = memberships[l].user
          /\ users[memberships[k].user].email # seedEmail
          => k = l

SeedInv == seeded => UserOf(seedEmail) # {} /\ SeedUsable

\* whoever may still act while nobody else has changed anybody, and nothing was
\* minted, is an administrator: the one of the migrations, the one who changed somebody, and
\* everybody with a token or a request that was let in
AdminInv ==
    /\ Len(users) > 0
    /\ \A u \in DOMAIN users :
          /\ meddlers \subseteq {u} /\ ~minted
          /\ \/ u = 1
             \/ u \in meddlers
             \/ \E token \in tokens : token.user = u /\ MayAdminister(token)
             \/ \E t \in Thread : req[t].pc \in {"update_status", "update_role"} /\ req[t].actor = u
          => IsAdministrator(u)
=============================================================================
