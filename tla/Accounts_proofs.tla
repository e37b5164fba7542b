--------------------------- MODULE Accounts_proofs ---------------------------
(***************************************************************************)
(* Proofs about Accounts, for any addresses, roles, service keys, threads  *)
(* and numbers of requests and restarts, in both modes: the tables stay    *)
(* whole, the seeded account can be used, and one account alone locks      *)
(* nobody out.                                                             *)
(***************************************************************************)
EXTENDS Accounts, FiniteSetTheorems, SequenceTheorems, TLAPS

User == [email : Email, status : Status, password : Password \cup {NoPassword}]
Member == [user : DOMAIN users, role : Roles]
Request == [pc : Places, email : Email, password : Password \cup {NoPassword},
            signup : BOOLEAN, actor : 0 .. Len(users), user : 0 .. Len(users),
            status : Status \cup {NoChange}, role : Role \cup {NoChange}]
AuditRow == [actor : DOMAIN users, status : Status, user : DOMAIN users]

LEMMA UsersShape ==
    ASSUME users \in Seq(User)
    PROVE  /\ Len(users) \in Nat
           /\ DOMAIN users = 1 .. Len(users)
           /\ \A i \in DOMAIN users : users[i] \in User
BY LenProperties, ElementOfSeq

LEMMA MembersShape ==
    ASSUME memberships \in Seq(Member)
    PROVE  /\ Len(memberships) \in Nat
           /\ DOMAIN memberships = 1 .. Len(memberships)
           /\ \A k \in DOMAIN memberships : memberships[k] \in Member
BY LenProperties, ElementOfSeq

-----------------------------------------------------------------------------
(* The statements on the tables *)

\* INSERT INTO users
LEMMA UserAppended ==
    ASSUME TypeOK, NEW r \in User, users' = Append(users, r)
    PROVE  /\ users' \in Seq(User)
           /\ Len(users') = Len(users) + 1
           /\ DOMAIN users' = DOMAIN users \cup {Len(users) + 1}
           /\ Len(users) + 1 \notin DOMAIN users
           /\ \A i \in DOMAIN users : users'[i] = users[i]
           /\ users'[Len(users) + 1] = r
<1>1. users \in Seq(User)
    BY DEF TypeOK, User
<1>2. /\ users' \in Seq(User)
      /\ Len(users') = Len(users) + 1
      /\ \A i \in 1 .. Len(users) : users'[i] = users[i]
      /\ users'[Len(users) + 1] = r
    BY <1>1, AppendProperties
<1>3. DOMAIN users' = 1 .. Len(users) + 1 /\ DOMAIN users = 1 .. Len(users) /\ Len(users) \in Nat
    BY <1>1, <1>2, LenProperties
<1> QED BY <1>2, <1>3

\* UPDATE users
LEMMA UserChanged ==
    ASSUME TypeOK, NEW u \in DOMAIN users, NEW r \in User, users' = [users EXCEPT ![u] = r]
    PROVE  /\ users' \in Seq(User)
           /\ Len(users') = Len(users)
           /\ DOMAIN users' = DOMAIN users
           /\ \A i \in DOMAIN users : users'[i] = IF i = u THEN r ELSE users[i]
<1>1. users \in Seq(User) /\ DOMAIN users = 1 .. Len(users)
    BY UsersShape DEF TypeOK, User
<1> QED BY <1>1, ExceptSeq, LenProperties

\* INSERT INTO user_memberships
LEMMA MemberAppended ==
    ASSUME TypeOK, NEW m \in Member, memberships' = Append(memberships, m), UNCHANGED users
    PROVE  /\ memberships' \in Seq(Member)
           /\ DOMAIN memberships' = DOMAIN memberships \cup {Len(memberships) + 1}
           /\ Len(memberships) \in Nat /\ DOMAIN memberships = 1 .. Len(memberships)
           /\ \A k \in DOMAIN memberships : memberships'[k] = memberships[k]
           /\ memberships'[Len(memberships) + 1] = m
<1>1. memberships \in Seq(Member)
    BY DEF TypeOK, Member
<1>2. /\ memberships' \in Seq(Member)
      /\ Len(memberships') = Len(memberships) + 1
      /\ \A k \in 1 .. Len(memberships) : memberships'[k] = memberships[k]
      /\ memberships'[Len(memberships) + 1] = m
    BY <1>1, AppendProperties
<1>3. /\ DOMAIN memberships' = 1 .. Len(memberships) + 1
      /\ DOMAIN memberships = 1 .. Len(memberships) /\ Len(memberships) \in Nat
    BY <1>1, <1>2, LenProperties
<1> QED BY <1>2, <1>3

\* what is typed by the users that there are stays so when there are more
LEMMA Widened ==
    ASSUME TypeOK, users' \in Seq(User), Len(users) <= Len(users')
    PROVE  /\ DOMAIN users \subseteq DOMAIN users'
           /\ memberships \in Seq(Member')
           /\ req \in [Thread -> Request'] /\ Request \subseteq Request'
           /\ audit \subseteq AuditRow'
           /\ tokens \subseteq [user : 0 .. Len(users'), role : Roles]
           /\ meddlers \subseteq 0 .. Len(users')
<1>1. /\ Len(users) \in Nat /\ DOMAIN users = 1 .. Len(users)
      /\ Len(users') \in Nat /\ DOMAIN users' = 1 .. Len(users')
    BY LenProperties DEF TypeOK, User
<1>2. DOMAIN users \subseteq DOMAIN users'
    BY <1>1
<1>3. memberships \in Seq(Member')
    <2>1. Member \subseteq Member'
        BY <1>2 DEF Member
    <2>2. memberships \in Seq(Member)
        BY DEF TypeOK, Member
    <2> QED BY <2>1, <2>2, SeqMonotonic
<1>4. 0 .. Len(users) \subseteq 0 .. Len(users')
    BY <1>1
<1>5. Request \subseteq Request'
    BY <1>4 DEF Request
<1>6. req \in [Thread -> Request]
    BY DEF TypeOK, Request
<1> QED BY <1>2, <1>3, <1>4, <1>5, <1>6 DEF TypeOK, AuditRow

\* whoever may send a request is an account, or none
LEMMA PrincipalType ==
    ASSUME TypeOK, NEW token \in Principals
    PROVE  token.user \in 0 .. Len(users) /\ (token.user # NoAccount => token \in tokens)
<1>1. Len(users) \in Nat
    BY LenProperties DEF TypeOK
<1> QED BY <1>1 DEF Principals, TypeOK, NoAccount

-----------------------------------------------------------------------------
(* Roles *)

\* a set of indices has a least one
LEMMA Least ==
    ASSUME NEW n \in Nat, NEW T \in SUBSET (1 .. n), T # {}
    PROVE  \E k \in T : \A l \in T : k <= l
<1> DEFINE Below(k) == {l \in T : l <= k}
           family == {Below(k) : k \in T}
<1>0. \A m \in T : m \in Int
    OBVIOUS
<1>1. \A k \in T : Below(k) \in FiniteSubsetsOf(T)
    <2>1. IsFiniteSet(T)
        BY FS_Interval, FS_Subset, 1 \in Int, n \in Int
    <2> QED BY <2>1, FS_Subset DEF FiniteSubsetsOf
<1>2. family \subseteq FiniteSubsetsOf(T) /\ family # {}
    BY <1>1
<1>3. PICK B \in family : \A C \in family : <<C, B>> \notin StrictSubsetOrdering(T)
    <2> HIDE DEF family
    <2> QED BY <1>2, FS_StrictSubsetOrderingWellFounded, WFMin
<1>4. PICK k \in T : B = Below(k)
    BY <1>3
<1>5. ASSUME NEW l \in T, l < k PROVE FALSE
    <2>1. Below(l) \in family /\ Below(l) \subseteq B /\ Below(l) # B
        <3>1. Below(l) \in family
            OBVIOUS
        <3>2. \A m \in T : m <= l => m <= k
            BY <1>0, <1>5
        <3>3. k \in Below(k) /\ k \notin Below(l)
            BY <1>5
        <3> QED BY <1>4, <3>1, <3>2, <3>3
    <2>2. <<Below(l), B>> \in StrictSubsetOrdering(T)
        <3>1. Below(l) \in SUBSET T /\ B \in SUBSET T
            BY <1>4
        <3> QED BY <2>1, <3>1 DEF StrictSubsetOrdering
    <2> QED BY <1>3, <2>1, <2>2
<1> QED BY <1>4, <1>5

Held(u) == {k \in DOMAIN memberships : memberships[k].user = u}

\* the role at login is that of the oldest membership
LEMMA OldestRole ==
    ASSUME TypeOK, NEW u, NEW k \in Held(u), \A l \in Held(u) : k <= l
    PROVE  LoginRole(u) = memberships[k].role
<1>1. DOMAIN memberships = 1 .. Len(memberships) /\ Len(memberships) \in Nat
    BY MembersShape DEF TypeOK, Member
<1>2. \A l \in Held(u) : l \in Int
    BY <1>1 DEF Held
<1>3. (CHOOSE i \in Held(u) : \A l \in Held(u) : i <= l) = k
    <2> DEFINE c == CHOOSE i \in Held(u) : \A l \in Held(u) : i <= l
    <2>1. c \in Held(u) /\ \A l \in Held(u) : c <= l
        OBVIOUS
    <2> HIDE DEF c
    <2> QED BY <1>2, <2>1 DEF c
<1> QED BY <1>3 DEF LoginRole, Held

LEMMA OldestExists ==
    ASSUME TypeOK, NEW u, Held(u) # {} PROVE \E k \in Held(u) : \A l \in Held(u) : k <= l
<1>1. Len(memberships) \in Nat /\ Held(u) \in SUBSET (1 .. Len(memberships))
    BY MembersShape DEF TypeOK, Member, Held
<1> QED BY <1>1, Least

LEMMA NoRole == ASSUME NEW u, Held(u) = {} PROVE LoginRole(u) = "viewer"
BY DEF LoginRole, Held

LEMMA LoginRoleType == ASSUME TypeOK, NEW u PROVE LoginRole(u) \in Roles
<1>1. CASE Held(u) = {}
    BY <1>1, NoRole DEF Roles
<1>2. CASE Held(u) # {}
    <2>1. PICK k \in Held(u) : \A l \in Held(u) : k <= l
        BY <1>2, OldestExists
    <2>2. memberships[k] \in Member
        BY MembersShape DEF TypeOK, Member, Held
    <2> QED BY <2>1, <2>2, OldestRole DEF Member
<1> QED BY <1>1, <1>2

\* UPDATE user_memberships
LEMMA RolesChanged ==
    ASSUME TypeOK, NEW t \in Thread, UpdateRole(t), memberships' # memberships
    PROVE  /\ memberships' \in Seq(Member)
           /\ DOMAIN memberships' = DOMAIN memberships
           /\ req[t].role \in Role
           /\ Cardinality(RolesOf(req[t].user)) = 1
           /\ Meddles(req[t].actor, req[t].user)
           /\ \A k \in DOMAIN memberships :
                 /\ memberships'[k].user = memberships[k].user
                 /\ memberships[k].user # req[t].user => memberships'[k] = memberships[k]
                 /\ memberships[k].user = req[t].user => memberships'[k].role = req[t].role
<1>1. /\ Len(memberships) \in Nat /\ DOMAIN memberships = 1 .. Len(memberships)
      /\ \A k \in DOMAIN memberships : memberships[k] \in Member
    BY MembersShape DEF TypeOK, Member
<1>2. req[t].role \in Role /\ Cardinality(RolesOf(req[t].user)) = 1 /\ Meddles(req[t].actor, req[t].user)
    BY DEF UpdateRole, TypeOK
<1> DEFINE New(k) == IF memberships[k].user = req[t].user
                     THEN [memberships[k] EXCEPT !.role = req[t].role] ELSE memberships[k]
<1>3. memberships' = [k \in 1 .. Len(memberships) |-> New(k)]
    BY <1>1, <1>2 DEF UpdateRole
<1>4. \A k \in 1 .. Len(memberships) : New(k) \in Member
    BY <1>1, <1>2 DEF Member, Roles
<1>5. memberships' \in [1 .. Len(memberships) -> Member]
    <2> HIDE DEF New
    <2> QED BY <1>3, <1>4
<1>6. memberships' \in Seq(Member)
    BY <1>1, <1>5, SeqDef
<1>7. \A k \in DOMAIN memberships :
          /\ memberships'[k].user = memberships[k].user
          /\ memberships[k].user # req[t].user => memberships'[k] = memberships[k]
          /\ memberships[k].user = req[t].user => memberships'[k].role = req[t].role
    BY <1>1, <1>3 DEF Member
<1> QED BY <1>1, <1>2, <1>5, <1>6, <1>7

-----------------------------------------------------------------------------
(* Types *)

LEMMA InitType == Init => TypeOK
<1> SUFFICES ASSUME Init PROVE TypeOK
    OBVIOUS
<1> USE AccountsAssumption DEF AccountsAssumption
<1> DEFINE u == [email |-> AdminEmail, status |-> "active", password |-> "first"]
           m == [user |-> 1, role |-> "admin"]
<1>1. users = <<u>> /\ u \in User
    BY DEF Init, User, Status, Password
<1>2. users \in Seq(User) /\ Len(users) = 1 /\ DOMAIN users = {1}
    BY <1>1
<1>3. m \in [user : DOMAIN users, role : Roles]
    BY <1>2 DEF Roles
<1>4. memberships \in Seq([user : DOMAIN users, role : Roles])
    BY <1>3 DEF Init
<1>5. Idle \in Request
    BY <1>2 DEF Idle, Request, Places, NoAccount, NoPassword, NoChange
<1>6. req \in [Thread -> Request]
    BY <1>5 DEF Init
<1>7. audit = {} /\ tokens = {} /\ meddlers = {} /\ seedEmail \in SeedEmails
    BY DEF Init
<1>8. requests \in 0 .. Requests /\ crashes \in 0 .. Crashes
    BY DEF Init
<1>9. seeded \in BOOLEAN /\ minted \in BOOLEAN /\ devMode \in BOOLEAN
    BY Zenon DEF Init
<1> QED BY <1>2, <1>4, <1>6, <1>7, <1>8, <1>9 DEF TypeOK, User, Request

\* a step that leaves the tables alone and gives threads requests of the type
LEMMA ReplyType ==
    ASSUME TypeOK, NEW t \in Thread, Reply(t), UNCHANGED users
    PROVE  req' \in [Thread -> Request']
<1>1. Idle \in Request'
    BY AccountsAssumption, UsersShape
       DEF AccountsAssumption, TypeOK, User, Idle, Request, Places, NoAccount, NoPassword, NoChange
<1>2. Request = Request'
    BY DEF Request
<1> QED BY <1>1, <1>2 DEF Reply, TypeOK, Request

LEMMA GotoType ==
    ASSUME TypeOK, NEW t \in Thread, NEW p \in Places, req' = [req EXCEPT ![t].pc = p], Len(users') = Len(users)
    PROVE  req' \in [Thread -> Request']
<1>1. Request = Request'
    BY DEF Request
<1>2. req \in [Thread -> Request]
    BY DEF TypeOK, Request
<1>3. [req[t] EXCEPT !.pc = p] \in Request
    BY <1>2 DEF Request
<1> QED BY <1>1, <1>2, <1>3

LEMMA IdleType == TypeOK => Idle \in Request
BY AccountsAssumption, UsersShape
   DEF AccountsAssumption, TypeOK, User, Idle, Request, Places, NoAccount, NoPassword, NoChange

LEMMA BeginsType ==
    ASSUME TypeOK, NEW t \in Thread, NEW r \in Request, Begins(t, r), UNCHANGED Len(users)
    PROVE  req' \in [Thread -> Request'] /\ requests' \in 0 .. Requests
<1>1. Request = Request'
    BY DEF Request
<1> QED BY <1>1, AccountsAssumption DEF Begins, TypeOK, Request, AccountsAssumption

\* the requests that begin
LEMMA ArriveType ==
    ASSUME TypeOK, NEW t \in Thread, Arrive(t) PROVE TypeOK'
<1> USE AccountsAssumption DEF AccountsAssumption, deployment, tables, histories
<1>0. /\ DOMAIN users = 1 .. Len(users) /\ Len(users) \in Nat
      /\ \A i \in DOMAIN users : users[i] \in User
    BY UsersShape DEF TypeOK, User
<1>1. ASSUME NEW e \in Email, NEW p \in Password, Signup(t, e, p) PROVE TypeOK'
    <2> DEFINE r == [Idle EXCEPT !.pc = "insert", !.email = e, !.password = p, !.signup = TRUE]
    <2>1. r \in Request
        BY IdleType DEF Request, Places
    <2>2. req' \in [Thread -> Request'] /\ requests' \in 0 .. Requests
        BY <1>1, <2>1, BeginsType DEF Signup
    <2> QED BY <1>1, <2>2 DEF Signup, TypeOK, Request
<1>2. ASSUME NEW e \in Email, NEW p \in Password, Login(t, e, p) PROVE TypeOK'
    <2> DEFINE r == [Idle EXCEPT !.pc = FirstOfLogin, !.email = e, !.password = p]
    <2>1. r \in Request
        BY IdleType DEF Request, Places, FirstOfLogin
    <2>2. req' \in [Thread -> Request'] /\ requests' \in 0 .. Requests
        BY <1>2, <2>1, BeginsType DEF Login
    <2> QED BY <1>2, <2>2 DEF Login, TypeOK, Request
<1>3. ASSUME NEW token \in Principals, NEW current \in Password, NEW new \in Password,
             ChangePassword(t, token, current, new)
      PROVE  TypeOK'
    <2> DEFINE r == [Idle EXCEPT !.pc = "password", !.user = token.user, !.password = new]
    <2>1. token.user \in 0 .. Len(users)
        BY PrincipalType
    <2>2. r \in Request
        BY <2>1, IdleType DEF Request, Places
    <2>3. req' \in [Thread -> Request'] /\ requests' \in 0 .. Requests
        BY <1>3, <2>2, BeginsType DEF ChangePassword
    <2> QED BY <1>3, <2>3 DEF ChangePassword, TypeOK, Request
<1>4. ASSUME NEW token \in Principals, NEW u \in DOMAIN users, NEW status \in Status \cup {NoChange},
             NEW role \in Role \cup {NoChange}, UpdateUser(t, token, u, status, role)
      PROVE  TypeOK'
    <2> DEFINE r == [Idle EXCEPT !.pc = "update_status", !.actor = token.user, !.user = u,
                                 !.status = status, !.role = role]
    <2>1. token.user \in 0 .. Len(users) /\ u \in 0 .. Len(users)
        BY <1>0, PrincipalType
    <2>2. r \in Request
        BY <2>1, IdleType DEF Request, Places
    <2>3. req' \in [Thread -> Request'] /\ requests' \in 0 .. Requests
        BY <1>4, <2>2, BeginsType DEF UpdateUser
    <2> QED BY <1>4, <2>3 DEF UpdateUser, TypeOK, Request
<1>5. ASSUME NEW token \in Principals, NEW u \in DOMAIN users, NEW status \in Status,
             SetStatus(t, token, u, status)
      PROVE  TypeOK'
    <2> DEFINE r == [Idle EXCEPT !.pc = "audit", !.actor = token.user, !.user = u, !.status = status]
               row == [users[u] EXCEPT !.status = status]
    <2>1. token.user \in 0 .. Len(users) /\ u \in 0 .. Len(users)
        BY <1>0, PrincipalType
    <2>2. r \in Request
        BY <2>1, IdleType DEF Request, Places
    <2>3. row \in User /\ users' = [users EXCEPT ![u] = row]
        BY <1>0, <1>5 DEF SetStatus, User
    <2>4. users' \in Seq(User) /\ Len(users') = Len(users) /\ DOMAIN users' = DOMAIN users
        BY <2>3, UserChanged
    <2>5. req' \in [Thread -> Request'] /\ requests' \in 0 .. Requests
        BY <1>5, <2>2, <2>4, BeginsType DEF SetStatus
    <2>6. meddlers' \subseteq 0 .. Len(users)
        BY <1>5, <2>1 DEF SetStatus, Meddles, TypeOK
    <2> QED BY <1>5, <2>4, <2>5, <2>6 DEF SetStatus, TypeOK, User, Request
<1>6. ASSUME NEW u \in DOMAIN users \cup {NoAccount}, NEW r \in Roles, MintDevToken(t, u, r)
      PROVE  TypeOK'
    <2>1. u \in 0 .. Len(users)
        BY <1>0 DEF NoAccount
    <2>2. [user |-> u, role |-> r] \in [user : 0 .. Len(users), role : Roles]
        BY <2>1
    <2>3. tokens' \subseteq [user : 0 .. Len(users), role : Roles]
        BY <1>6, <2>2 DEF MintDevToken, TypeOK
    <2>4. requests' \in 0 .. Requests
        BY <1>6 DEF MintDevToken, TypeOK
    <2>5. minted' \in BOOLEAN
        BY Zenon, <1>6 DEF MintDevToken
    <2> QED BY <1>6, <2>3, <2>4, <2>5 DEF MintDevToken, TypeOK
<1> QED BY <1>1, <1>2, <1>3, <1>4, <1>5, <1>6 DEF Arrive

\* the statements of the requests that are served
LEMMA ServeType ==
    ASSUME TypeOK, RequestInv, NEW t \in Thread, Step(t) PROVE TypeOK'
<1> USE AccountsAssumption DEF AccountsAssumption, deployment, tables, histories
<1>0. /\ DOMAIN users = 1 .. Len(users) /\ Len(users) \in Nat
      /\ \A i \in DOMAIN users : users[i] \in User
      /\ req[t] \in Request
      /\ users \in Seq(User)
    BY UsersShape DEF TypeOK, User, Request
<1>1. CASE InsertUser(t)
    <2>1. req[t].password \in Password /\ req[t].email \in Email
        BY <1>0, <1>1 DEF InsertUser, RequestInv, RequestOK, Request
    <2> DEFINE r == [email |-> req[t].email, status |-> "active", password |-> req[t].password]
    <2>2. CASE EmailKeyTaken(req[t].email)
        <3>1. req' \in [Thread -> Request']
            BY <1>1, <2>2, ReplyType DEF InsertUser
        <3> QED BY <1>1, <2>2, <3>1 DEF InsertUser, TypeOK, Request
    <2>3. CASE ~EmailKeyTaken(req[t].email)
        <3>1. r \in User /\ users' = Append(users, r)
            BY <1>1, <2>1, <2>3 DEF InsertUser, User, Status
        <3>2. users' \in Seq(User) /\ Len(users') = Len(users) + 1
            BY <3>1, UserAppended
        <3>3. Len(users) <= Len(users')
            BY <1>0, <3>2
        <3>4. [req[t] EXCEPT !.pc = "member", !.user = Len(users) + 1] \in Request'
            <4>1. req[t] \in Request' /\ Len(users) + 1 \in 0 .. Len(users')
                BY <1>0, <3>2, <3>3, Widened
            <4> QED BY <4>1 DEF Request, Places
        <3>5. req' \in [Thread -> Request']
            BY <1>1, <2>3, <3>2, <3>3, <3>4, Widened DEF InsertUser
        <3> QED BY <1>1, <2>3, <3>2, <3>3, <3>5, Widened DEF InsertUser, TypeOK, User, Member, Request, AuditRow
    <2> QED BY <2>2, <2>3
<1>2. CASE InsertMember(t)
    <2> DEFINE m == [user |-> req[t].user, role |-> "client_admin"]
    <2>1. m \in Member
        BY <1>2 DEF InsertMember, RequestInv, RequestOK, Member, Roles
    <2>2. memberships' \in Seq(Member)
        BY <1>2, <2>1, MemberAppended DEF InsertMember, TypeOK, Member
    <2>3. req' \in [Thread -> Request']
        BY <1>2, ReplyType, GotoType DEF InsertMember, Goto, FirstOfLogin, Places
    <2> QED BY <1>2, <2>2, <2>3 DEF InsertMember, TypeOK, Request, Member
<1>3. CASE SeedSelect(t)
    <2>1. \A i \in UserOf(seedEmail) : i \in 0 .. Len(users)
        BY <1>0 DEF UserOf
    <2>2. UserOf(seedEmail) # {} => (CHOOSE i \in UserOf(seedEmail) : TRUE) \in 0 .. Len(users)
        BY <2>1
    <2>3. [req[t] EXCEPT !.pc = "seed_insert"] \in Request
        BY <1>0 DEF Request, Places
    <2>4. ASSUME NEW i \in 0 .. Len(users), NEW p \in {"seed_password", "seed_member"}
          PROVE  [req[t] EXCEPT !.user = i, !.pc = p] \in Request
        BY <1>0 DEF Request, Places
    <2>5. PICK r \in Request : req' = [req EXCEPT ![t] = r]
        <3>1. CASE UserOf(seedEmail) = {}
            BY <1>3, <2>3, <3>1 DEF SeedSelect
        <3>2. CASE UserOf(seedEmail) # {}
            <4> DEFINE i == CHOOSE i \in UserOf(seedEmail) : TRUE
                       p == IF users[i].password = NoPassword THEN "seed_password" ELSE "seed_member"
            <4>1. req' = [req EXCEPT ![t] = [req[t] EXCEPT !.user = i, !.pc = p]]
                BY <1>3, <3>2 DEF SeedSelect, TypeOK
            <4>2. i \in 0 .. Len(users) /\ p \in {"seed_password", "seed_member"}
                BY <2>2, <3>2
            <4> HIDE DEF i, p
            <4> QED BY <2>4, <4>1, <4>2
        <3> QED BY <3>1, <3>2
    <2>6. req' \in [Thread -> Request] /\ Request = Request'
        <3>1. UNCHANGED users
            BY <1>3 DEF SeedSelect, tables
        <3>2. Request = Request'
            BY <3>1 DEF Request
        <3>3. req \in [Thread -> Request]
            BY DEF TypeOK, Request
        <3> QED BY <2>5, <3>2, <3>3
    <2> QED BY <1>3, <2>6 DEF SeedSelect, TypeOK, Request
<1>4. CASE SeedInsert(t)
    <2> DEFINE r == [email |-> seedEmail, status |-> "active", password |-> NoPassword]
    <2>1. CASE EmailKeyTaken(seedEmail)
        <3>1. req' \in [Thread -> Request']
            BY <1>4, <2>1, ReplyType DEF SeedInsert
        <3> QED BY <1>4, <2>1, <3>1 DEF SeedInsert, TypeOK, Request
    <2>2. CASE ~EmailKeyTaken(seedEmail)
        <3>1. r \in User /\ users' = Append(users, r)
            BY <1>4, <2>2 DEF SeedInsert, User, Status, TypeOK
        <3>2. users' \in Seq(User) /\ Len(users') = Len(users) + 1
            BY <3>1, UserAppended
        <3>3. Len(users) <= Len(users')
            BY <1>0, <3>2
        <3>4. [req[t] EXCEPT !.pc = "seed_password", !.user = Len(users) + 1] \in Request'
            <4>1. req[t] \in Request' /\ Len(users) + 1 \in 0 .. Len(users')
                BY <1>0, <3>2, <3>3, Widened
            <4> QED BY <4>1 DEF Request, Places
        <3>5. req' \in [Thread -> Request']
            BY <1>4, <2>2, <3>2, <3>3, <3>4, Widened DEF SeedInsert
        <3> QED BY <1>4, <2>2, <3>2, <3>3, <3>5, Widened DEF SeedInsert, TypeOK, User, Member, Request, AuditRow
    <2> QED BY <2>1, <2>2
<1>5. CASE SeedPassword(t)
    <2> DEFINE u == req[t].user
               row == [users[u] EXCEPT !.password = "first"]
    <2>1. u \in DOMAIN users
        BY <1>5 DEF SeedPassword, RequestInv, RequestOK
    <2>2. row \in User /\ users' = [users EXCEPT ![u] = row]
        BY <1>0, <1>5, <2>1 DEF SeedPassword, User, Password
    <2>3. users' \in Seq(User) /\ Len(users') = Len(users) /\ DOMAIN users' = DOMAIN users
        BY <2>1, <2>2, UserChanged
    <2>4. req' \in [Thread -> Request']
        BY <1>5, <2>3, GotoType DEF SeedPassword, Goto, Places
    <2> QED BY <1>5, <2>3, <2>4 DEF SeedPassword, TypeOK, User, Request
<1>6. CASE SeedMember(t)
    <2>1. req' \in [Thread -> Request']
        BY <1>6, GotoType DEF SeedMember, Seeded, Goto, Places
    <2>2. seeded' \in BOOLEAN
        BY <1>6 DEF SeedMember, Seeded, TypeOK
    <2> QED BY <1>6, <2>1, <2>2 DEF SeedMember, TypeOK, Request
<1>7. CASE SeedGrant(t)
    <2> DEFINE m == [user |-> req[t].user, role |-> "client_admin"]
    <2>1. m \in Member
        BY <1>7 DEF SeedGrant, RequestInv, RequestOK, Member, Roles
    <2>2. memberships' \in Seq(Member)
        BY <1>7, <2>1, MemberAppended DEF SeedGrant, TypeOK, Member
    <2>3. req' \in [Thread -> Request']
        BY <1>7, ReplyType, GotoType DEF SeedGrant, Seeded, Goto, Places
    <2>4. seeded' \in BOOLEAN
        BY <1>7 DEF SeedGrant, Seeded, TypeOK
    <2> QED BY <1>7, <2>2, <2>3, <2>4 DEF SeedGrant, TypeOK, Request, Member
<1>8. CASE Find(t)
    <2>1. req' \in [Thread -> Request']
        BY <1>8, ReplyType DEF Find
    <2>2. \A i \in DOMAIN users : LoginRole(i) \in Roles
        BY LoginRoleType
    <2>3. tokens' \subseteq [user : 0 .. Len(users), role : Roles]
        BY <1>0, <1>8, <2>2 DEF Find, UserOf, TypeOK
    <2> QED BY <1>8, <2>1, <2>3 DEF Find, TypeOK, Request
<1>9. CASE WritePassword(t)
    <2> DEFINE u == req[t].user
               row == [users[u] EXCEPT !.password = req[t].password]
    <2>1. u \in DOMAIN users /\ req[t].password \in Password
        BY <1>9 DEF WritePassword, RequestInv, RequestOK
    <2>2. row \in User /\ users' = [users EXCEPT ![u] = row]
        BY <1>0, <1>9, <2>1 DEF WritePassword, User
    <2>3. users' \in Seq(User) /\ Len(users') = Len(users) /\ DOMAIN users' = DOMAIN users
        BY <2>1, <2>2, UserChanged
    <2>4. req' \in [Thread -> Request']
        <3>1. Request = Request'
            BY <2>3 DEF Request
        <3> QED BY <1>9, <3>1, IdleType DEF WritePassword, Reply, TypeOK, Request
    <2> QED BY <1>9, <2>3, <2>4 DEF WritePassword, TypeOK, User, Request
<1>10. CASE UpdateStatus(t)
    <2> DEFINE u == req[t].user
               row == [users[u] EXCEPT !.status = req[t].status]
    <2>1. u \in DOMAIN users /\ req[t].actor \in 0 .. Len(users)
        BY <1>0, <1>10 DEF UpdateStatus, RequestInv, RequestOK, Request
    <2>2. meddlers' \subseteq 0 .. Len(users)
        BY <1>10, <2>1 DEF UpdateStatus, Meddles, TypeOK
    <2>3. users' \in Seq(User) /\ Len(users') = Len(users) /\ DOMAIN users' = DOMAIN users
        <3>1. CASE req[t].status = NoChange
            BY <1>0, <1>10, <3>1 DEF UpdateStatus
        <3>2. CASE req[t].status # NoChange
            <4>1. row \in User /\ users' = [users EXCEPT ![u] = row]
                <5>1. req[t].status \in Status
                    BY <1>0, <3>2 DEF Request
                <5>2. users[u] \in User
                    BY <1>0, <2>1
                <5>3. row \in User
                    BY <5>1, <5>2 DEF User
                <5>4. users' = [users EXCEPT ![u] = row]
                    BY <1>10, <3>2 DEF UpdateStatus
                <5> QED BY <5>3, <5>4
            <4> QED BY <2>1, <4>1, UserChanged
        <3> QED BY <3>1, <3>2
    <2>4. req' \in [Thread -> Request']
        BY <1>10, <2>3, GotoType DEF UpdateStatus, Goto, Places
    <2> QED BY <1>10, <2>2, <2>3, <2>4 DEF UpdateStatus, TypeOK, User, Request
<1>11. CASE UpdateRole(t)
    <2>1. req[t].actor \in 0 .. Len(users)
        BY <1>0 DEF Request
    <2>2. meddlers' \subseteq 0 .. Len(users)
        BY <1>11, <2>1 DEF UpdateRole, Meddles, TypeOK
    <2>3. memberships' \in Seq(Member)
        BY <1>11, RolesChanged DEF UpdateRole, TypeOK, Member
    <2>4. req' \in [Thread -> Request']
        BY <1>11, ReplyType DEF UpdateRole
    <2> QED BY <1>11, <2>2, <2>3, <2>4 DEF UpdateRole, TypeOK, Member, Request
<1>12. CASE LogAudit(t)
    <2>1. req' \in [Thread -> Request']
        BY <1>12, ReplyType DEF LogAudit
    <2>2. req[t].status \in Status /\ req[t].user \in DOMAIN users
        BY <1>12 DEF LogAudit, RequestInv, RequestOK
    <2>3. req[t].actor \in DOMAIN users
        BY <1>0, <1>12 DEF LogAudit, NoAccount, Request
    <2>4. audit' \subseteq [actor : DOMAIN users, status : Status, user : DOMAIN users]
        BY <1>12, <2>2, <2>3 DEF LogAudit, TypeOK
    <2> QED BY <1>12, <2>1, <2>4 DEF LogAudit, TypeOK, Request
<1>13. CASE LogFails(t)
    <2>1. req' \in [Thread -> Request']
        BY <1>13, ReplyType DEF LogFails
    <2> QED BY <1>13, <2>1 DEF LogFails, TypeOK, Request
<1> QED BY <1>1, <1>2, <1>3, <1>4, <1>5, <1>6, <1>7, <1>8, <1>9, <1>10, <1>11, <1>12, <1>13 DEF Step

-----------------------------------------------------------------------------
(* What every step leaves of the accounts and of the other requests *)

LEMMA UsersKept ==
    ASSUME TypeOK, RequestInv, NEW t \in Thread, Arrive(t) \/ Step(t)
    PROVE  /\ DOMAIN users \subseteq DOMAIN users'
           /\ \A i \in DOMAIN users :
                 /\ users'[i].email = users[i].email
                 /\ users[i].password # NoPassword => users'[i].password # NoPassword
           /\ \A i \in DOMAIN users' \ DOMAIN users :
                 /\ i = Len(users) + 1
                 /\ req[t].pc \in {"insert", "seed_insert"}
                 /\ UserOf(users'[i].email) = {}
           /\ seedEmail' = seedEmail
<1> USE DEF deployment, tables, histories
<1>0. /\ DOMAIN users = 1 .. Len(users) /\ Len(users) \in Nat
      /\ \A i \in DOMAIN users : users[i] \in User
      /\ req[t] \in Request /\ seedEmail \in Email
    BY UsersShape, AccountsAssumption DEF TypeOK, User, Request, AccountsAssumption
<1>1. seedEmail' = seedEmail
    BY DEF Arrive, Step, Signup, Login, MintDevToken, ChangePassword, UpdateUser, SetStatus, InsertUser, InsertMember,
           SeedSelect, SeedInsert, SeedPassword, SeedMember, SeedGrant, Seeded, Find, WritePassword,
           UpdateStatus, UpdateRole, LogAudit, LogFails
<1>2. CASE UNCHANGED users
    BY <1>1, <1>2
<1>3. ASSUME NEW r \in User, users' = Append(users, r), UserOf(r.email) = {},
             req[t].pc \in {"insert", "seed_insert"}
      PROVE  /\ DOMAIN users \subseteq DOMAIN users'
             /\ \A i \in DOMAIN users : users'[i] = users[i]
             /\ \A i \in DOMAIN users' \ DOMAIN users :
                   i = Len(users) + 1 /\ UserOf(users'[i].email) = {}
    <2>1. /\ DOMAIN users' = DOMAIN users \cup {Len(users) + 1}
          /\ \A i \in DOMAIN users : users'[i] = users[i]
          /\ users'[Len(users) + 1] = r
        BY <1>3, UserAppended
    <2> QED BY <1>3, <2>1
<1>4. ASSUME NEW u \in DOMAIN users, NEW r \in User, users' = [users EXCEPT ![u] = r],
             r.email = users[u].email, users[u].password # NoPassword => r.password # NoPassword
      PROVE  /\ DOMAIN users' = DOMAIN users
             /\ \A i \in DOMAIN users :
                   /\ users'[i].email = users[i].email
                   /\ users[i].password # NoPassword => users'[i].password # NoPassword
    BY <1>4, UserChanged
<1>5. CASE InsertUser(t)
    <2>1. CASE EmailKeyTaken(req[t].email)
        BY <1>2, <1>5, <2>1 DEF InsertUser
    <2>2. CASE ~EmailKeyTaken(req[t].email)
        <3> DEFINE r == [email |-> req[t].email, status |-> "active", password |-> req[t].password]
        <3>1. r \in User /\ r.email = req[t].email /\ users' = Append(users, r)
            BY <1>0, <1>5, <2>2 DEF InsertUser, RequestInv, RequestOK, User, Status, Request
        <3>2. UserOf(r.email) = {} /\ req[t].pc \in {"insert", "seed_insert"}
            BY <1>5, <2>2, <3>1 DEF EmailKeyTaken, InsertUser
        <3> HIDE DEF r
        <3> QED BY <1>1, <1>3, <3>1, <3>2
    <2> QED BY <2>1, <2>2
<1>6. CASE SeedInsert(t)
    <2>1. CASE EmailKeyTaken(seedEmail)
        BY <1>2, <1>6, <2>1 DEF SeedInsert
    <2>2. CASE ~EmailKeyTaken(seedEmail)
        <3> DEFINE r == [email |-> seedEmail, status |-> "active", password |-> NoPassword]
        <3>1. r \in User /\ r.email = seedEmail /\ users' = Append(users, r)
            BY <1>0, <1>6, <2>2 DEF SeedInsert, User, Status
        <3>2. UserOf(r.email) = {} /\ req[t].pc \in {"insert", "seed_insert"}
            BY <1>6, <2>2, <3>1 DEF EmailKeyTaken, SeedInsert
        <3> HIDE DEF r
        <3> QED BY <1>1, <1>3, <3>1, <3>2
    <2> QED BY <2>1, <2>2
<1>7. CASE SeedPassword(t) \/ WritePassword(t)
    <2> DEFINE u == req[t].user
               w == IF req[t].pc = "password" THEN req[t].password ELSE "first"
               r == [users[u] EXCEPT !.password = w]
    <2>1. u \in DOMAIN users /\ w \in Password
        BY <1>7 DEF SeedPassword, WritePassword, RequestInv, RequestOK, Password
    <2>2. w # NoPassword
        BY <2>1 DEF Password, NoPassword
    <2>3. users' = [users EXCEPT ![u] = r]
        BY <1>0, <1>7, <2>1 DEF SeedPassword, WritePassword
    <2>4. r \in User /\ r.email = users[u].email /\ r.password # NoPassword
        <3> HIDE DEF u, w
        <3> QED BY <1>0, <2>1, <2>2 DEF User
    <2> HIDE DEF u, w, r
    <2> QED BY <1>1, <1>4, <2>1, <2>3, <2>4
<1>8. CASE UpdateStatus(t)
    <2>1. CASE req[t].status = NoChange
        BY <1>2, <1>8, <2>1 DEF UpdateStatus
    <2>2. CASE req[t].status # NoChange
        <3> DEFINE u == req[t].user
                   r == [users[u] EXCEPT !.status = req[t].status]
        <3>1. u \in DOMAIN users /\ users' = [users EXCEPT ![u] = r]
            BY <1>0, <1>8, <2>2 DEF UpdateStatus, RequestInv, RequestOK
        <3>2. r \in User /\ r.email = users[u].email /\ r.password = users[u].password
            BY <1>0, <2>2, <3>1 DEF User, Request
        <3> HIDE DEF u, r
        <3> QED BY <1>1, <1>4, <3>1, <3>2
    <2> QED BY <2>1, <2>2
<1>9. ASSUME NEW token \in Principals, NEW u \in DOMAIN users, NEW status \in Status, SetStatus(t, token, u, status)
      PROVE  /\ DOMAIN users' = DOMAIN users
             /\ \A i \in DOMAIN users :
                   /\ users'[i].email = users[i].email
                   /\ users[i].password # NoPassword => users'[i].password # NoPassword
    <2> DEFINE r == [users[u] EXCEPT !.status = status]
    <2>1. users' = [users EXCEPT ![u] = r]
        BY <1>0, <1>9 DEF SetStatus
    <2>2. r \in User /\ r.email = users[u].email /\ r.password = users[u].password
        BY <1>0 DEF User
    <2> HIDE DEF r
    <2> QED BY <1>4, <2>1, <2>2
<1>10. CASE Arrive(t)
    BY <1>1, <1>2, <1>9, <1>10 DEF Arrive, Signup, Login, MintDevToken, ChangePassword, UpdateUser
<1>11. CASE \/ InsertMember(t) \/ SeedSelect(t) \/ SeedMember(t) \/ SeedGrant(t) \/ Find(t)
           \/ UpdateRole(t) \/ LogAudit(t) \/ LogFails(t)
    BY <1>2, <1>11 DEF InsertMember, SeedSelect, SeedMember, SeedGrant, Find, UpdateRole, LogAudit, LogFails
<1> QED BY <1>5, <1>6, <1>7, <1>8, <1>10, <1>11 DEF Step

\* a step of one thread leaves the requests of the others as they are
LEMMA OthersWait ==
    ASSUME TypeOK, NEW t \in Thread, Arrive(t) \/ Step(t)
    PROVE  \A s \in Thread \ {t} : req'[s] = req[s]
BY ZenonT(30) DEF TypeOK, Arrive, Step, Begins, Reply, Goto, Seeded, Signup, Login, MintDevToken, ChangePassword, UpdateUser,
       SetStatus, InsertUser, InsertMember, SeedSelect, SeedInsert, SeedPassword, SeedMember, SeedGrant,
       Find, WritePassword, UpdateStatus, UpdateRole, LogAudit, LogFails

LEMMA InitRequest == Init => RequestInv
BY DEF Init, RequestInv, RequestOK, Idle

LEMMA OthersOK ==
    ASSUME TypeOK, RequestInv, NEW t \in Thread, Arrive(t) \/ Step(t), NEW s \in Thread \ {t}
    PROVE  RequestOK(req[s])'
<1>1. req'[s] = req[s]
    BY OthersWait
<1>2. RequestOK(req[s])
    BY DEF RequestInv
<1>3. /\ DOMAIN users \subseteq DOMAIN users'
      /\ \A i \in DOMAIN users :
            /\ users'[i].email = users[i].email
            /\ users[i].password # NoPassword => users'[i].password # NoPassword
      /\ seedEmail' = seedEmail
    BY UsersKept
<1> QED BY <1>1, <1>2, <1>3 DEF RequestOK, OwnAccount

\* a request that is over, or has not been decided about, is in order
LEMMA FreshOK ==
    ASSUME TypeOK, NEW t \in Thread, req'[t].pc \in {"idle", "seed", "seed_insert", "find"}
    PROVE  RequestOK(req[t])'
BY DEF RequestOK

LEMMA RequestStep ==
    ASSUME TypeOK, RequestInv, NEW t \in Thread, Arrive(t) \/ Step(t)
    PROVE  RequestInv'
<1> USE DEF deployment, tables, histories
<1>0. /\ DOMAIN users = 1 .. Len(users) /\ Len(users) \in Nat
      /\ req \in [Thread -> Request] /\ req[t] \in Request /\ RequestOK(req[t])
      /\ tokens \subseteq [user : 0 .. Len(users), role : Roles]
    BY UsersShape DEF TypeOK, User, Request, RequestInv
<1>1. SUFFICES RequestOK(req[t])'
    BY OthersOK DEF RequestInv
<1>2. CASE Reply(t)
    BY <1>0, <1>2, FreshOK DEF Reply, Idle
<1>3. /\ DOMAIN users \subseteq DOMAIN users'
      /\ \A i \in DOMAIN users :
            /\ users'[i].email = users[i].email
            /\ users[i].password # NoPassword => users'[i].password # NoPassword
      /\ seedEmail' = seedEmail
    BY UsersKept
<1>4. ASSUME NEW e \in Email, NEW p \in Password, Signup(t, e, p) PROVE RequestOK(req[t])'
    BY <1>0, <1>4 DEF Signup, Begins, Idle, RequestOK
<1>5. ASSUME NEW e \in Email, NEW p \in Password, Login(t, e, p) PROVE RequestOK(req[t])'
    BY <1>0, <1>5, FreshOK DEF Login, Begins, Idle, FirstOfLogin
<1>6. ASSUME NEW token \in Principals, NEW current \in Password, NEW new \in Password,
             ChangePassword(t, token, current, new)
      PROVE  RequestOK(req[t])'
    <2>1. token.user \in DOMAIN users
        BY <1>0, <1>6, PrincipalType DEF ChangePassword, NoAccount
    <2> QED BY <1>0, <1>3, <1>6, <2>1 DEF ChangePassword, Begins, Idle, RequestOK
<1>7. ASSUME NEW token \in Principals, NEW u \in DOMAIN users, NEW status \in Status \cup {NoChange},
             NEW role \in Role \cup {NoChange}, UpdateUser(t, token, u, status, role)
      PROVE  RequestOK(req[t])'
    <2>1. req'[t] = [Idle EXCEPT !.pc = "update_status", !.actor = token.user, !.user = u,
                                 !.status = status, !.role = role]
        BY <1>0, <1>7 DEF UpdateUser, Begins
    <2>2. /\ req'[t].pc = "update_status" /\ req'[t].actor = token.user /\ req'[t].user = u
          /\ req'[t].status = status /\ req'[t].role = role
        BY <2>1 DEF Idle
    <2>3. token.user = u => ~OwnAccount(status, role)
        BY <1>7 DEF UpdateUser
    <2> QED BY <1>0, <1>3, <2>2, <2>3 DEF RequestOK, OwnAccount
<1>8. ASSUME NEW token \in Principals, NEW u \in DOMAIN users, NEW status \in Status,
             SetStatus(t, token, u, status)
      PROVE  RequestOK(req[t])'
    <2>1. req'[t] = [Idle EXCEPT !.pc = "audit", !.actor = token.user, !.user = u, !.status = status]
        BY <1>0, <1>8 DEF SetStatus, Begins
    <2>2. /\ req'[t].pc = "audit" /\ req'[t].actor = token.user /\ req'[t].user = u
          /\ req'[t].status = status
        BY <2>1 DEF Idle
    <2> QED BY <1>0, <1>3, <2>2 DEF RequestOK
<1>9. CASE Arrive(t)
    <2>1. ASSUME NEW u, NEW r, MintDevToken(t, u, r) PROVE RequestOK(req[t])'
        BY <1>0, <2>1, FreshOK DEF MintDevToken
    <2> QED BY <1>4, <1>5, <1>6, <1>7, <1>8, <1>9, <2>1 DEF Arrive
<1>10. CASE InsertUser(t)
    <2>1. CASE EmailKeyTaken(req[t].email)
        BY <1>2, <1>10, <2>1 DEF InsertUser
    <2>2. CASE ~EmailKeyTaken(req[t].email)
        <3>1. req'[t].pc = "member" /\ req'[t].user = Len(users) + 1
            BY <1>0, <1>10, <2>2 DEF InsertUser, Request
        <3>2. Len(users) + 1 \in DOMAIN users'
            <4> DEFINE r == [email |-> req[t].email, status |-> "active", password |-> req[t].password]
            <4>1. r \in User /\ users' = Append(users, r)
                BY <1>0, <1>10, <2>2 DEF InsertUser, RequestOK, User, Status, Request
            <4> QED BY <4>1, UserAppended
        <3> QED BY <3>1, <3>2 DEF RequestOK
    <2> QED BY <2>1, <2>2
<1>11. CASE InsertMember(t)
    <2>1. CASE MembershipKeyTaken(req[t].user, "client_admin")
        BY <1>2, <1>11, <2>1 DEF InsertMember
    <2>2. CASE ~MembershipKeyTaken(req[t].user, "client_admin")
        BY <1>0, <1>11, <2>2, FreshOK DEF InsertMember, Goto, FirstOfLogin, Request
    <2> QED BY <2>1, <2>2
<1>12. CASE SeedSelect(t)
    <2>1. CASE UserOf(seedEmail) = {}
        BY <1>0, <1>12, <2>1, FreshOK DEF SeedSelect, Request
    <2>2. CASE UserOf(seedEmail) # {}
        <3> DEFINE i == CHOOSE i \in UserOf(seedEmail) : TRUE
                   p == IF users[i].password = NoPassword THEN "seed_password" ELSE "seed_member"
        <3>1. i \in DOMAIN users /\ users[i].email = seedEmail
            BY <2>2 DEF UserOf
        <3>2. req' = [req EXCEPT ![t] = [req[t] EXCEPT !.user = i, !.pc = p]]
            BY <1>0, <1>12, <2>2 DEF SeedSelect
        <3> HIDE DEF i
        <3>3. req'[t].user = i /\ req'[t].pc = p
            BY <1>0, <3>2 DEF Request
        <3>4. UNCHANGED users /\ UNCHANGED seedEmail
            BY <1>12 DEF SeedSelect
        <3> QED BY <3>1, <3>3, <3>4 DEF RequestOK
    <2> QED BY <2>1, <2>2
<1>13. CASE SeedInsert(t)
    <2>1. CASE EmailKeyTaken(seedEmail)
        BY <1>2, <1>13, <2>1 DEF SeedInsert
    <2>2. CASE ~EmailKeyTaken(seedEmail)
        <3>1. req'[t].pc = "seed_password" /\ req'[t].user = Len(users) + 1
            BY <1>0, <1>13, <2>2 DEF SeedInsert, Request
        <3>2. Len(users) + 1 \in DOMAIN users' /\ users'[Len(users) + 1].email = seedEmail
            <4> DEFINE r == [email |-> seedEmail, status |-> "active", password |-> NoPassword]
            <4>1. r \in User /\ r.email = seedEmail /\ users' = Append(users, r)
                BY <1>13, <2>2, AccountsAssumption DEF SeedInsert, User, Status, TypeOK, AccountsAssumption
            <4> HIDE DEF r
            <4> QED BY <4>1, UserAppended
        <3> QED BY <1>3, <3>1, <3>2 DEF RequestOK
    <2> QED BY <2>1, <2>2
<1>14. CASE SeedPassword(t)
    <2> DEFINE u == req[t].user
               r == [users[u] EXCEPT !.password = "first"]
    <2>1. u \in DOMAIN users /\ users[u].email = seedEmail
        BY <1>0, <1>14 DEF SeedPassword, RequestOK
    <2>2. r \in User /\ r.password # NoPassword /\ users' = [users EXCEPT ![u] = r]
        BY <1>14, <2>1, UsersShape DEF SeedPassword, User, Password, NoPassword, TypeOK
    <2> HIDE DEF r
    <2>3. users'[u].password # NoPassword
        BY <2>1, <2>2, UserChanged
    <2>4. req'[t].user = u /\ req'[t].pc = "seed_member"
        BY <1>0, <1>14 DEF SeedPassword, Goto, Request
    <2> QED BY <1>3, <2>1, <2>3, <2>4 DEF RequestOK
<1>15. CASE SeedMember(t)
    <2>1. CASE "client_admin" \in RolesOf(req[t].user)
        BY <1>0, <1>15, <2>1, FreshOK DEF SeedMember, Seeded, Goto, Request
    <2>2. CASE "client_admin" \notin RolesOf(req[t].user)
        <3>1. req'[t].user = req[t].user /\ req'[t].pc = "seed_grant" /\ req[t].pc = "seed_member"
            BY <1>0, <1>15, <2>2 DEF SeedMember, Goto, Request
        <3> QED BY <1>0, <1>3, <3>1 DEF RequestOK
    <2> QED BY <2>1, <2>2
<1>16. CASE SeedGrant(t)
    <2>1. CASE MembershipKeyTaken(req[t].user, "client_admin")
        BY <1>2, <1>16, <2>1 DEF SeedGrant
    <2>2. CASE ~MembershipKeyTaken(req[t].user, "client_admin")
        BY <1>0, <1>16, <2>2, FreshOK DEF SeedGrant, Seeded, Goto, Request
    <2> QED BY <2>1, <2>2
<1>17. CASE UpdateStatus(t)
    <2>1. /\ req'[t].pc = "update_role" /\ req[t].pc = "update_status"
          /\ req'[t].user = req[t].user /\ req'[t].actor = req[t].actor
          /\ req'[t].status = req[t].status /\ req'[t].role = req[t].role
        BY <1>0, <1>17 DEF UpdateStatus, Goto, Request
    <2> QED BY <1>0, <1>3, <2>1 DEF RequestOK, OwnAccount
<1>18. CASE Find(t) \/ WritePassword(t) \/ UpdateRole(t) \/ LogAudit(t) \/ LogFails(t)
    BY <1>2, <1>18 DEF Find, WritePassword, UpdateRole, LogAudit, LogFails
<1> QED BY <1>9, <1>10, <1>11, <1>12, <1>13, <1>14, <1>15, <1>16, <1>17, <1>18 DEF Step

-----------------------------------------------------------------------------
(* Keys and memberships *)

KeyInv ==
    /\ \A i, j \in DOMAIN users : users[i].email = users[j].email => i = j
    /\ \A k, l \in DOMAIN memberships : memberships[k] = memberships[l] => k = l

LEMMA InitKeys == Init => KeyInv /\ MemberInv
<1> SUFFICES ASSUME Init PROVE KeyInv /\ MemberInv
    OBVIOUS
<1>1. DOMAIN users = {1} /\ DOMAIN memberships = {1}
    BY DEF Init
<1>2. \A t \in Thread : req[t].pc # "member"
    BY DEF Init, Idle
<1> QED BY <1>1, <1>2 DEF KeyInv, MemberInv

\* a step inserts one membership, changes those of one account, or none
Inserts(t) ==
    /\ req[t].pc \in {"member", "seed_grant"}
    /\ "client_admin" \notin RolesOf(req[t].user)
    /\ memberships' = Append(memberships, [user |-> req[t].user, role |-> "client_admin"])
    /\ UNCHANGED <<users, audit, tokens, meddlers>>

LEMMA MembersKept ==
    ASSUME TypeOK, NEW t \in Thread, Arrive(t) \/ Step(t)
    PROVE  \/ UNCHANGED memberships
           \/ Inserts(t)
           \/ UpdateRole(t) /\ memberships' # memberships
<1> USE DEF deployment, tables, histories
<1>1. CASE InsertMember(t)
    BY <1>1 DEF InsertMember, Inserts, MembershipKeyTaken
<1>2. CASE SeedGrant(t)
    BY <1>2 DEF SeedGrant, Inserts, MembershipKeyTaken
<1>3. CASE UpdateRole(t)
    BY <1>3
<1>4. CASE Arrive(t)
    BY <1>4 DEF Arrive, Signup, Login, MintDevToken, ChangePassword, UpdateUser, SetStatus
<1>5. CASE \/ InsertUser(t) \/ SeedSelect(t) \/ SeedInsert(t) \/ SeedPassword(t) \/ SeedMember(t)
           \/ Find(t) \/ WritePassword(t) \/ UpdateStatus(t) \/ LogAudit(t) \/ LogFails(t)
    BY <1>5 DEF InsertUser, SeedSelect, SeedInsert, SeedPassword, SeedMember, Find, WritePassword,
                UpdateStatus, LogAudit, LogFails
<1> QED BY <1>1, <1>2, <1>3, <1>4, <1>5 DEF Step

LEMMA Inserted ==
    ASSUME TypeOK, RequestInv, NEW t \in Thread, Inserts(t)
    PROVE  /\ DOMAIN memberships' = DOMAIN memberships \cup {Len(memberships) + 1}
           /\ \A k \in DOMAIN memberships : k <= Len(memberships) /\ memberships'[k] = memberships[k]
           /\ Len(memberships) + 1 \notin DOMAIN memberships /\ Len(memberships) \in Nat
           /\ memberships'[Len(memberships) + 1] = [user |-> req[t].user, role |-> "client_admin"]
<1> DEFINE m == [user |-> req[t].user, role |-> "client_admin"]
<1>1. m \in Member /\ memberships' = Append(memberships, m) /\ UNCHANGED users
    BY DEF Inserts, RequestInv, RequestOK, Member, Roles
<1> HIDE DEF m
<1>2. /\ DOMAIN memberships' = DOMAIN memberships \cup {Len(memberships) + 1}
      /\ Len(memberships) \in Nat /\ DOMAIN memberships = 1 .. Len(memberships)
      /\ \A k \in DOMAIN memberships : memberships'[k] = memberships[k]
      /\ memberships'[Len(memberships) + 1] = m
    BY <1>1, MemberAppended
<1>3. \A k \in DOMAIN memberships : k <= Len(memberships)
    BY <1>2
<1>4. Len(memberships) + 1 \notin DOMAIN memberships
    BY <1>2
<1> QED BY <1>2, <1>3, <1>4 DEF m

\* an account whose memberships have one role has one membership
LEMMA OneHeld ==
    ASSUME TypeOK, KeyInv, NEW u, Cardinality(RolesOf(u)) = 1
    PROVE  \E k \in Held(u) : Held(u) = {k}
<1>1. /\ Len(memberships) \in Nat /\ DOMAIN memberships = 1 .. Len(memberships)
      /\ \A k \in DOMAIN memberships : memberships[k] \in Member
    BY MembersShape DEF TypeOK, Member
<1>2. IsFiniteSet(Held(u))
    <2>1. IsFiniteSet(1 .. Len(memberships))
        BY <1>1, FS_Interval
    <2> QED BY <1>1, <2>1, FS_Subset DEF Held
<1>3. IsFiniteSet(RolesOf(u))
    <2> DEFINE f == [k \in Held(u) |-> memberships[k].role]
    <2>1. f \in Surjection(Held(u), RolesOf(u))
        BY DEF Surjection, Held, RolesOf
    <2> HIDE DEF f
    <2> QED BY <1>2, <2>1, FS_Surjection
<1>4. PICK r : RolesOf(u) = {r}
    BY <1>3, FS_Singleton
<1>5. \A k \in Held(u) : memberships[k].role = r /\ memberships[k].user = u
    BY <1>4 DEF RolesOf, Held
<1>6. \A k, l \in Held(u) : k = l
    <2>1. \A k, l \in Held(u) : memberships[k] = memberships[l]
        BY <1>1, <1>5 DEF Held, Member
    <2> QED BY <2>1 DEF KeyInv, Held
<1>7. Held(u) # {}
    BY <1>4 DEF RolesOf, Held
<1> QED BY <1>6, <1>7

LEMMA KeyStep ==
    ASSUME TypeOK, RequestInv, KeyInv, NEW t \in Thread, Arrive(t) \/ Step(t)
    PROVE  KeyInv'
<1>1. ASSUME NEW i \in DOMAIN users', NEW j \in DOMAIN users', users'[i].email = users'[j].email
      PROVE  i = j
    <2>1. \A h \in DOMAIN users : h \in DOMAIN users' /\ users'[h].email = users[h].email
        BY UsersKept
    <2>2. \A h \in DOMAIN users' \ DOMAIN users : h = Len(users) + 1 /\ UserOf(users'[h].email) = {}
        BY UsersKept
    <2>3. CASE i \in DOMAIN users /\ j \in DOMAIN users
        BY <1>1, <2>1, <2>3 DEF KeyInv
    <2>4. CASE i \in DOMAIN users /\ j \notin DOMAIN users
        BY <1>1, <2>1, <2>2, <2>4 DEF UserOf
    <2>5. CASE i \notin DOMAIN users /\ j \in DOMAIN users
        BY <1>1, <2>1, <2>2, <2>5 DEF UserOf
    <2>6. CASE i \notin DOMAIN users /\ j \notin DOMAIN users
        BY <2>2, <2>6
    <2> QED BY <2>3, <2>4, <2>5, <2>6
<1>2. ASSUME NEW k \in DOMAIN memberships', NEW l \in DOMAIN memberships', memberships'[k] = memberships'[l]
      PROVE  k = l
    <2>1. CASE UNCHANGED memberships
        BY <1>2, <2>1 DEF KeyInv
    <2>2. CASE Inserts(t)
        <3>1. \A h \in DOMAIN memberships : memberships[h] # [user |-> req[t].user, role |-> "client_admin"]
            BY <2>2 DEF Inserts, RolesOf
        <3>2. /\ DOMAIN memberships' = DOMAIN memberships \cup {Len(memberships) + 1}
              /\ \A h \in DOMAIN memberships : memberships'[h] = memberships[h]
              /\ memberships'[Len(memberships) + 1] = [user |-> req[t].user, role |-> "client_admin"]
            BY <2>2, Inserted
        <3>3. CASE k \in DOMAIN memberships /\ l \in DOMAIN memberships
            BY <1>2, <3>2, <3>3 DEF KeyInv
        <3>4. CASE k \in DOMAIN memberships /\ l = Len(memberships) + 1
            BY <1>2, <3>1, <3>2, <3>4
        <3>5. CASE k = Len(memberships) + 1 /\ l \in DOMAIN memberships
            <4>1. memberships'[l] = memberships[l]
                BY <3>2, <3>5
            <4>2. memberships[l] = [user |-> req[t].user, role |-> "client_admin"]
                BY <1>2, <3>2, <3>5, <4>1
            <4> QED BY <3>1, <3>5, <4>2
        <3>6. CASE k = Len(memberships) + 1 /\ l = Len(memberships) + 1
            BY <3>6
        <3> QED BY <1>2, <3>2, <3>3, <3>4, <3>5, <3>6
    <2>3. CASE UpdateRole(t) /\ memberships' # memberships
        <3>1. PICK h \in Held(req[t].user) : Held(req[t].user) = {h}
            BY <2>3, RolesChanged, OneHeld
        <3>2. k \in DOMAIN memberships /\ l \in DOMAIN memberships
            BY <2>3, RolesChanged
        <3>3. memberships[k].user = memberships[l].user
            BY <1>2, <2>3, <3>2, RolesChanged
        <3>4. CASE memberships[k].user = req[t].user
            <4>1. k \in Held(req[t].user) /\ l \in Held(req[t].user)
                BY <3>2, <3>3, <3>4 DEF Held
            <4>2. k = h /\ l = h
                BY <3>1, <4>1
            <4> QED BY <4>2
        <3>5. CASE memberships[k].user # req[t].user
            BY <1>2, <2>3, <3>2, <3>3, <3>5, RolesChanged DEF KeyInv
        <3> QED BY <3>4, <3>5
    <2> QED BY <2>1, <2>2, <2>3, MembersKept
<1> QED BY <1>1, <1>2 DEF KeyInv

\* only a sign-up that has just inserted its account waits for its membership
LEMMA SignupWaits ==
    ASSUME TypeOK, RequestInv, NEW t \in Thread, Arrive(t) \/ Step(t), req'[t].pc = "member"
    PROVE  /\ req'[t].user = Len(users) + 1 /\ UNCHANGED memberships
<1> USE DEF deployment, tables, histories
<1>0. req \in [Thread -> Request] /\ req[t] \in Request
    BY DEF TypeOK, Request
<1>1. CASE InsertUser(t)
    BY <1>0, <1>1 DEF InsertUser, Reply, Idle, Request
<1>2. CASE Arrive(t)
    <2>1. ASSUME NEW r, Begins(t, r) PROVE req'[t] = r
        BY <1>0, <2>1 DEF Begins
    <2>2. ASSUME NEW e, NEW p, Signup(t, e, p) \/ Login(t, e, p) PROVE FALSE
        <3>1. CASE Signup(t, e, p)
            BY <2>1, <3>1 DEF Signup, Idle
        <3>2. CASE Login(t, e, p)
            BY <2>1, <3>2 DEF Login, Idle, FirstOfLogin
        <3> QED BY <2>2, <3>1, <3>2
    <2>3. ASSUME NEW token, NEW current, NEW new, ChangePassword(t, token, current, new) PROVE FALSE
        BY <2>1, <2>3 DEF ChangePassword, Idle
    <2>4. ASSUME NEW token, NEW u, NEW status, NEW role, UpdateUser(t, token, u, status, role) PROVE FALSE
        BY <2>1, <2>4 DEF UpdateUser, Idle
    <2>5. ASSUME NEW token, NEW u, NEW status, SetStatus(t, token, u, status) PROVE FALSE
        BY <2>1, <2>5 DEF SetStatus, Idle
    <2>6. ASSUME NEW u, NEW r, MintDevToken(t, u, r) PROVE FALSE
        BY <2>6 DEF MintDevToken
    <2> QED BY <1>2, <2>2, <2>3, <2>4, <2>5, <2>6 DEF Arrive
<1>3. CASE SeedSelect(t)
    BY <1>0, <1>3 DEF SeedSelect, Request
<1>4. CASE InsertMember(t) \/ SeedInsert(t) \/ SeedPassword(t) \/ SeedMember(t) \/ SeedGrant(t)
    BY <1>0, <1>4 DEF InsertMember, SeedInsert, SeedPassword, SeedMember, SeedGrant, Seeded, Goto, Reply,
                      Idle, FirstOfLogin, Request
<1>5. CASE Find(t) \/ WritePassword(t) \/ UpdateStatus(t) \/ UpdateRole(t) \/ LogAudit(t) \/ LogFails(t)
    BY <1>0, <1>5 DEF Find, WritePassword, UpdateStatus, UpdateRole, LogAudit, LogFails, Goto, Reply, Idle,
                      Request
<1> QED BY <1>1, <1>2, <1>3, <1>4, <1>5 DEF Step

\* a step keeps the account of every membership
LEMMA AccountsStay ==
    ASSUME TypeOK, RequestInv, NEW t \in Thread, Arrive(t) \/ Step(t)
    PROVE  /\ \A k \in DOMAIN memberships : k \in DOMAIN memberships' /\ memberships'[k].user = memberships[k].user
           /\ \A k \in DOMAIN memberships' \ DOMAIN memberships :
                 /\ Inserts(t) /\ memberships'[k].user = req[t].user /\ k = Len(memberships) + 1
<1>1. CASE UNCHANGED memberships
    BY <1>1
<1>2. CASE Inserts(t)
    <2>1. /\ DOMAIN memberships' = DOMAIN memberships \cup {Len(memberships) + 1}
          /\ \A k \in DOMAIN memberships : memberships'[k] = memberships[k]
          /\ memberships'[Len(memberships) + 1] = [user |-> req[t].user, role |-> "client_admin"]
        BY <1>2, Inserted
    <2>2. memberships'[Len(memberships) + 1].user = req[t].user
        BY <2>1
    <2> QED BY <1>2, <2>1, <2>2
<1>3. CASE UpdateRole(t) /\ memberships' # memberships
    BY <1>3, RolesChanged
<1> QED BY <1>1, <1>2, <1>3, MembersKept

LEMMA MemberStep ==
    ASSUME TypeOK, RequestInv, MemberInv, NEW t \in Thread, Arrive(t) \/ Step(t)
    PROVE  MemberInv'
<1>0. /\ Len(users) + 1 \notin DOMAIN users
      /\ \A k \in DOMAIN memberships : memberships[k].user \in DOMAIN users
    <2>1. DOMAIN users = 1 .. Len(users) /\ Len(users) \in Nat
        BY UsersShape DEF TypeOK, User
    <2>2. \A k \in DOMAIN memberships : memberships[k] \in Member
        BY MembersShape DEF TypeOK, Member
    <2> QED BY <2>1, <2>2 DEF Member
<1>1. /\ \A i \in DOMAIN users : i \in DOMAIN users' /\ users'[i].email = users[i].email
      /\ seedEmail' = seedEmail
    BY UsersKept
<1>2. \A s \in Thread : req[s].pc \in {"member", "seed_grant"} => req[s].user \in DOMAIN users
    BY DEF RequestInv, RequestOK
<1>3. \A s \in Thread : req[s].pc = "seed_grant" => users[req[s].user].email = seedEmail
    BY DEF RequestInv, RequestOK
<1>4. \A s \in Thread \ {t} : req'[s] = req[s]
    BY OthersWait
<1>5. req'[t].pc = "member" => req'[t].user = Len(users) + 1 /\ UNCHANGED memberships
    BY SignupWaits
<1>6. \A k \in DOMAIN memberships' \ DOMAIN memberships :
          /\ memberships'[k].user = req[t].user /\ k = Len(memberships) + 1
          /\ req[t].pc \in {"member", "seed_grant"}
    BY AccountsStay DEF Inserts
<1>7. ASSUME NEW s \in Thread, req'[s].pc = "member", users'[req'[s].user].email # seedEmail'
      PROVE  /\ \A k \in DOMAIN memberships' : memberships'[k].user # req'[s].user
             /\ \A r \in Thread \ {s} : req'[r].pc = "member" => req'[r].user # req'[s].user
    <2>1. CASE s = t
        BY <1>0, <1>2, <1>4, <1>5, <1>7, <2>1
    <2>2. CASE s # t
        <3>1. req'[s] = req[s] /\ req[s].user \in DOMAIN users /\ users[req[s].user].email # seedEmail
            BY <1>1, <1>2, <1>4, <1>7, <2>2
        <3>2. /\ \A k \in DOMAIN memberships : memberships[k].user # req[s].user
              /\ \A r \in Thread \ {s} : req[r].pc = "member" => req[r].user # req[s].user
            BY <1>7, <3>1 DEF MemberInv
        <3>3. ASSUME NEW k \in DOMAIN memberships' PROVE memberships'[k].user # req[s].user
            <4>1. CASE k \in DOMAIN memberships
                BY <3>2, <4>1, AccountsStay
            <4>2. CASE k \notin DOMAIN memberships
                BY <1>3, <1>6, <2>2, <3>1, <3>2, <4>2
            <4> QED BY <4>1, <4>2
        <3>4. ASSUME NEW r \in Thread \ {s}, req'[r].pc = "member" PROVE req'[r].user # req[s].user
            BY <1>0, <1>4, <1>5, <3>1, <3>2, <3>4
        <3> QED BY <3>1, <3>3, <3>4
    <2> QED BY <2>1, <2>2
<1>8. ASSUME NEW k \in DOMAIN memberships', NEW l \in DOMAIN memberships',
             memberships'[k].user = memberships'[l].user, users'[memberships'[k].user].email # seedEmail'
      PROVE  k = l
    <2>1. ASSUME NEW m \in DOMAIN memberships, NEW n \in DOMAIN memberships' \ DOMAIN memberships,
                 memberships[m].user = memberships'[n].user
          PROVE  users[memberships[m].user].email = seedEmail
        BY <1>3, <1>6, <2>1 DEF MemberInv
    <2>2. \A m \in DOMAIN memberships : /\ memberships'[m].user = memberships[m].user
                                        /\ users'[memberships[m].user].email = users[memberships[m].user].email
        BY <1>0, <1>1, AccountsStay
    <2>3. CASE k \in DOMAIN memberships /\ l \in DOMAIN memberships
        <3>1. memberships[k].user = memberships[l].user /\ users[memberships[k].user].email # seedEmail
            BY <1>1, <1>8, <2>2, <2>3
        <3> QED BY <2>3, <3>1 DEF MemberInv
    <2>4. CASE k \in DOMAIN memberships /\ l \notin DOMAIN memberships
        BY <1>1, <1>8, <2>1, <2>2, <2>4
    <2>5. CASE k \notin DOMAIN memberships /\ l \in DOMAIN memberships
        BY <1>1, <1>8, <2>1, <2>2, <2>5
    <2>6. CASE k \notin DOMAIN memberships /\ l \notin DOMAIN memberships
        BY <1>6, <2>6
    <2> QED BY <2>3, <2>4, <2>5, <2>6
<1> QED BY <1>7, <1>8 DEF MemberInv

-----------------------------------------------------------------------------
(* The seeded account *)

LEMMA SeedStep ==
    ASSUME TypeOK, RequestInv, KeyInv, SeedInv, NEW t \in Thread, Arrive(t) \/ Step(t)
    PROVE  SeedInv'
<1> USE DEF deployment, tables, histories
<1>1. /\ \A i \in DOMAIN users :
            /\ i \in DOMAIN users' /\ users'[i].email = users[i].email
            /\ users[i].password # NoPassword => users'[i].password # NoPassword
      /\ \A i \in DOMAIN users' \ DOMAIN users : UserOf(users'[i].email) = {}
      /\ seedEmail' = seedEmail
    BY UsersKept
<1>2. \A k \in DOMAIN memberships : k \in DOMAIN memberships' /\ memberships'[k].user = memberships[k].user
    BY AccountsStay
<1>3. ASSUME NEW i \in UserOf(seedEmail), users'[i].password # NoPassword,
             \E k \in DOMAIN memberships' : memberships'[k].user = i
      PROVE  SeedInv'
    <2>1. i \in UserOf(seedEmail)'
        BY <1>1 DEF UserOf
    <2>2. ASSUME NEW j \in UserOf(seedEmail)' PROVE j = i
        <3>1. j \in DOMAIN users' /\ users'[j].email = seedEmail
            BY <1>1 DEF UserOf
        <3>2. j \in DOMAIN users
            BY <1>1, <3>1
        <3> QED BY <1>1, <3>1, <3>2 DEF UserOf, KeyInv
    <2>3. RolesOf(i)' # {}
        BY <1>3 DEF RolesOf
    <2> QED BY <1>3, <2>1, <2>2, <2>3 DEF SeedInv, SeedUsable
<1>4. CASE seeded
    <2>1. PICK i \in UserOf(seedEmail) : users[i].password # NoPassword /\ RolesOf(i) # {}
        BY <1>4 DEF SeedInv, SeedUsable
    <2>2. PICK k \in DOMAIN memberships : memberships[k].user = i
        BY <2>1 DEF RolesOf
    <2> QED BY <1>1, <1>2, <1>3, <2>1, <2>2 DEF UserOf
<1>5. CASE SeedMember(t) /\ "client_admin" \in RolesOf(req[t].user)
    <2>1. req[t].user \in UserOf(seedEmail) /\ users'[req[t].user].password # NoPassword
        BY <1>1, <1>5 DEF SeedMember, RequestInv, RequestOK, UserOf
    <2>2. \E k \in DOMAIN memberships' : memberships'[k].user = req[t].user
        BY <1>5 DEF SeedMember, RolesOf
    <2> QED BY <1>3, <2>1, <2>2
<1>6. CASE SeedGrant(t) /\ ~MembershipKeyTaken(req[t].user, "client_admin")
    <2>1. req[t].user \in UserOf(seedEmail) /\ users'[req[t].user].password # NoPassword
        BY <1>1, <1>6 DEF SeedGrant, RequestInv, RequestOK, UserOf
    <2>2. Inserts(t)
        BY <1>6 DEF SeedGrant, Inserts, MembershipKeyTaken
    <2>3. /\ Len(memberships) + 1 \in DOMAIN memberships'
          /\ memberships'[Len(memberships) + 1] = [user |-> req[t].user, role |-> "client_admin"]
        BY <2>2, Inserted
    <2>4. memberships'[Len(memberships) + 1].user = req[t].user
        BY <2>3
    <2> QED BY <1>3, <2>1, <2>3, <2>4
<1>7. CASE UNCHANGED seeded /\ ~seeded
    BY <1>7 DEF SeedInv
<1>8. CASE SeedMember(t)
    BY <1>5, <1>7, <1>4, <1>8 DEF SeedMember
<1>9. CASE SeedGrant(t)
    BY <1>6, <1>7, <1>4, <1>9 DEF SeedGrant
<1>10. CASE Arrive(t)
    BY <1>4, <1>7, <1>10 DEF Arrive, Signup, Login, MintDevToken, ChangePassword, UpdateUser, SetStatus
<1>11. CASE \/ InsertUser(t) \/ InsertMember(t) \/ SeedSelect(t) \/ SeedInsert(t) \/ SeedPassword(t) \/ Find(t)
            \/ WritePassword(t) \/ UpdateStatus(t) \/ UpdateRole(t) \/ LogAudit(t) \/ LogFails(t)
    BY <1>4, <1>7, <1>11 DEF InsertUser, InsertMember, SeedSelect, SeedInsert, SeedPassword, Find,
                             WritePassword, UpdateStatus, UpdateRole, LogAudit, LogFails
<1> QED BY <1>8, <1>9, <1>10, <1>11 DEF Step

-----------------------------------------------------------------------------
(* Administrators *)

\* why somebody may act on others now or later
Reason(u) ==
    \/ u = 1
    \/ u \in meddlers
    \/ \E token \in tokens : token.user = u /\ MayAdminister(token)
    \/ \E t \in Thread : req[t].pc \in {"update_status", "update_role"} /\ req[t].actor = u

\* LoginRole, of a table that is given
RoleIn(table, u) ==
    LET mine == {k \in DOMAIN table : table[k].user = u}
    IN  IF mine = {} THEN "viewer"
        ELSE table[CHOOSE k \in mine : \A l \in mine : k <= l].role

LEMMA OldestIn ==
    ASSUME NEW table, DOMAIN table \subseteq Int, NEW u, NEW k \in DOMAIN table, table[k].user = u,
           \A l \in DOMAIN table : table[l].user = u => k <= l
    PROVE  RoleIn(table, u) = table[k].role
<1> DEFINE mine == {h \in DOMAIN table : table[h].user = u}
           c == CHOOSE h \in mine : \A l \in mine : h <= l
<1>1. k \in mine /\ \A l \in mine : k <= l
    OBVIOUS
<1>2. c \in mine /\ \A l \in mine : c <= l
    BY <1>1
<1>3. mine \subseteq Int
    OBVIOUS
<1>4. RoleIn(table, u) = table[c].role
    BY <1>1 DEF RoleIn
<1> HIDE DEF c, mine
<1>5. c = k
    BY <1>1, <1>2, <1>3
<1> QED BY <1>4, <1>5

LEMMA RoleStays ==
    ASSUME TypeOK, RequestInv, NEW t \in Thread, Arrive(t) \/ Step(t), NEW u \in DOMAIN users,
           meddlers' \subseteq {u}, LoginRole(u) \in AdminRoles
    PROVE  LoginRole(u)' = LoginRole(u)
<1>1. LoginRole(u) = RoleIn(memberships, u) /\ LoginRole(u)' = RoleIn(memberships', u)
    BY DEF LoginRole, RoleIn
<1>2. CASE UNCHANGED memberships
    BY <1>1, <1>2
<1>3. CASE Inserts(t)
    <2>1. Held(u) # {}
        BY NoRole DEF AdminRoles
    <2>2. PICK k \in Held(u) : \A l \in Held(u) : k <= l
        BY <2>1, OldestExists
    <2>3. /\ Len(memberships) \in Nat /\ DOMAIN memberships = 1 .. Len(memberships)
          /\ k \in DOMAIN memberships /\ memberships[k].user = u
        BY <2>2, MembersShape DEF TypeOK, Member, Held
    <2>4. /\ DOMAIN memberships' = DOMAIN memberships \cup {Len(memberships) + 1}
          /\ \A l \in DOMAIN memberships : l <= Len(memberships) /\ memberships'[l] = memberships[l]
        BY <1>3, Inserted
    <2>5. RoleIn(memberships, u) = memberships[k].role
        BY <1>1, <2>2, OldestRole
    <2>6. \A l \in DOMAIN memberships' : memberships'[l].user = u => k <= l
        <3>1. ASSUME NEW l \in DOMAIN memberships, memberships'[l].user = u PROVE k <= l
            BY <2>2, <2>4, <3>1 DEF Held
        <3>2. k <= Len(memberships) + 1
            BY <2>3
        <3> QED BY <2>4, <3>1, <3>2
    <2>7. DOMAIN memberships' \subseteq Int /\ k \in DOMAIN memberships' /\ memberships'[k].user = u
        BY <2>3, <2>4
    <2>8. RoleIn(memberships', u) = memberships'[k].role
        BY <2>6, <2>7, OldestIn
    <2> QED BY <1>1, <2>3, <2>4, <2>5, <2>8
<1>4. CASE UpdateRole(t) /\ memberships' # memberships
    <2>1. req[t].role # NoChange /\ Meddles(req[t].actor, req[t].user)
        BY <1>4 DEF UpdateRole
    <2>2. req[t].actor = req[t].user => req[t].role = NoChange
        BY <1>4 DEF UpdateRole, RequestInv, RequestOK, OwnAccount
    <2>3. req[t].actor \in meddlers'
        BY <2>1, <2>2 DEF Meddles
    <2>4. req[t].user # u
        BY <2>1, <2>2, <2>3
    <2>5. Held(u) # {}
        BY NoRole DEF AdminRoles
    <2>6. PICK k \in Held(u) : \A l \in Held(u) : k <= l
        BY <2>5, OldestExists
    <2>7. DOMAIN memberships \subseteq Int /\ k \in DOMAIN memberships /\ memberships[k].user = u
        BY <2>6, MembersShape DEF TypeOK, Member, Held
    <2>8. /\ DOMAIN memberships' = DOMAIN memberships
          /\ \A l \in DOMAIN memberships :
                /\ memberships'[l].user = memberships[l].user
                /\ memberships[l].user # req[t].user => memberships'[l] = memberships[l]
        BY <1>4, RolesChanged
    <2>9. \A l \in DOMAIN memberships' : memberships'[l].user = u => k <= l
        BY <2>6, <2>8 DEF Held
    <2>10. RoleIn(memberships', u) = memberships'[k].role
        BY <2>7, <2>8, <2>9, OldestIn
    <2> QED BY <1>1, <2>4, <2>6, <2>7, <2>8, <2>10, OldestRole
<1> QED BY <1>2, <1>3, <1>4, MembersKept

LEMMA StatusStays ==
    ASSUME TypeOK, RequestInv, NEW t \in Thread, Arrive(t) \/ Step(t), NEW u \in DOMAIN users,
           meddlers' \subseteq {u}, users[u].status = "active"
    PROVE  users'[u].status = "active"
<1> USE DEF deployment, tables, histories
<1>0. req[t] \in Request /\ \A i \in DOMAIN users : users[i] \in User
    BY UsersShape DEF TypeOK, Request, User
<1>1. CASE users'[u] = users[u]
    BY <1>1
<1>2. ASSUME NEW i \in DOMAIN users, NEW status \in Status, users' = [users EXCEPT ![i].status = status],
             i = u => status = "active"
      PROVE  users'[u].status = "active"
    BY <1>0, <1>2 DEF User
<1>3. ASSUME NEW token \in Principals, NEW i \in DOMAIN users, NEW status \in Status, SetStatus(t, token, i, status)
      PROVE  users'[u].status = "active"
    <2>1. i = u => status = "active"
        <3>1. CASE token.user = u
            BY <1>3, <3>1 DEF SetStatus, OwnAccount, Status, NoChange
        <3>2. CASE token.user # u /\ i = u
            BY <1>3, <3>2 DEF SetStatus, Meddles
        <3> QED BY <3>1, <3>2
    <2> QED BY <1>2, <1>3, <2>1 DEF SetStatus
<1>4. CASE Arrive(t)
    BY <1>1, <1>3, <1>4 DEF Arrive, Signup, Login, MintDevToken, ChangePassword, UpdateUser
<1>5. CASE UpdateStatus(t)
    <2>1. CASE req[t].status = NoChange
        BY <1>1, <1>5, <2>1 DEF UpdateStatus
    <2>2. CASE req[t].status # NoChange
        <3>1. req[t].user \in DOMAIN users /\ (req[t].actor = req[t].user => ~OwnAccount(req[t].status, req[t].role))
            BY <1>5 DEF UpdateStatus, RequestInv, RequestOK
        <3>2. req[t].status \in Status
            BY <1>0, <2>2 DEF Request
        <3>3. req[t].user = u => req[t].status = "active"
            <4>1. CASE req[t].actor = u
                BY <2>2, <3>1, <4>1 DEF OwnAccount
            <4>2. CASE req[t].actor # u /\ req[t].user = u
                BY <1>5, <2>2, <4>2 DEF UpdateStatus, Meddles
            <4> QED BY <4>1, <4>2
        <3> QED BY <1>2, <1>5, <2>2, <3>1, <3>2, <3>3 DEF UpdateStatus
    <2> QED BY <2>1, <2>2
<1>6. ASSUME NEW i \in DOMAIN users, NEW p, users' = [users EXCEPT ![i].password = p]
      PROVE  users'[u].status = "active"
    BY <1>0, <1>6 DEF User
<1>7. CASE SeedPassword(t) \/ WritePassword(t)
    BY <1>6, <1>7 DEF SeedPassword, WritePassword, RequestInv, RequestOK
<1>8. CASE InsertUser(t) \/ SeedInsert(t)
    <2>1. ASSUME NEW r, users' = Append(users, r) PROVE users'[u] = users[u]
        <3>1. users \in Seq(User) /\ DOMAIN users = 1 .. Len(users) /\ Len(users) \in Nat
            BY UsersShape DEF TypeOK, User
        <3> QED BY <2>1, <3>1
    <2> QED BY <1>1, <1>8, <2>1 DEF InsertUser, SeedInsert
<1>9. CASE \/ InsertMember(t) \/ SeedSelect(t) \/ SeedMember(t) \/ SeedGrant(t) \/ Find(t)
           \/ UpdateRole(t) \/ LogAudit(t) \/ LogFails(t)
    BY <1>1, <1>9 DEF InsertMember, SeedSelect, SeedMember, SeedGrant, Find, UpdateRole, LogAudit, LogFails
<1> QED BY <1>4, <1>5, <1>7, <1>8, <1>9 DEF Step

\* where the reason to act comes from
LEMMA MeddlersBefore ==
    ASSUME TypeOK, NEW t \in Thread, Arrive(t) \/ Step(t), NEW u \in meddlers', u # NoAccount
    PROVE  Reason(u)
<1> USE DEF deployment, tables, histories
<1>1. CASE u \in meddlers
    BY <1>1 DEF Reason
<1>2. ASSUME NEW a, NEW i, Meddles(a, i), a # NoAccount => Reason(a) PROVE Reason(u)
    BY <1>1, <1>2 DEF Meddles
<1>3. ASSUME NEW token \in Principals, NEW i \in DOMAIN users, NEW status \in Status, SetStatus(t, token, i, status)
      PROVE  Reason(u)
    BY <1>2, <1>3, PrincipalType DEF SetStatus, Reason
<1>4. CASE UpdateStatus(t) \/ UpdateRole(t)
    <2>1. Reason(req[t].actor)
        BY <1>4 DEF UpdateStatus, UpdateRole, Reason
    <2>2. Meddles(req[t].actor, req[t].user) \/ UNCHANGED meddlers
        BY <1>4 DEF UpdateStatus, UpdateRole
    <2> QED BY <1>1, <1>2, <2>1, <2>2
<1>5. CASE Arrive(t)
    BY <1>1, <1>3, <1>5 DEF Arrive, Signup, Login, MintDevToken, ChangePassword, UpdateUser
<1>6. CASE \/ InsertUser(t) \/ InsertMember(t) \/ SeedSelect(t) \/ SeedInsert(t) \/ SeedPassword(t)
           \/ SeedMember(t) \/ SeedGrant(t) \/ Find(t) \/ WritePassword(t) \/ LogAudit(t) \/ LogFails(t)
    BY <1>1, <1>6 DEF InsertUser, InsertMember, SeedSelect, SeedInsert, SeedPassword, SeedMember, SeedGrant,
                      Find, WritePassword, LogAudit, LogFails
<1> QED BY <1>4, <1>5, <1>6 DEF Step

LEMMA TokensBefore ==
    ASSUME TypeOK, NEW t \in Thread, Arrive(t) \/ Step(t), ~minted', NEW token \in tokens',
           MayAdminister(token)
    PROVE  Reason(token.user) \/ (token.user \in DOMAIN users /\ IsAdministrator(token.user))
<1> USE DEF deployment, tables, histories
<1>1. CASE token \in tokens
    BY <1>1 DEF Reason
<1>2. CASE Find(t) /\ token \notin tokens
    BY <1>2 DEF Find, MayAdminister, IsAdministrator, UserOf
<1>3. CASE Arrive(t)
    BY <1>1, <1>3 DEF Arrive, Signup, Login, MintDevToken, ChangePassword, UpdateUser, SetStatus
<1>4. CASE \/ InsertUser(t) \/ InsertMember(t) \/ SeedSelect(t) \/ SeedInsert(t) \/ SeedPassword(t)
           \/ SeedMember(t) \/ SeedGrant(t) \/ WritePassword(t) \/ UpdateStatus(t) \/ UpdateRole(t)
           \/ LogAudit(t) \/ LogFails(t)
    BY <1>1, <1>4 DEF InsertUser, InsertMember, SeedSelect, SeedInsert, SeedPassword, SeedMember, SeedGrant,
                      WritePassword, UpdateStatus, UpdateRole, LogAudit, LogFails
<1> QED BY <1>1, <1>2, <1>3, <1>4 DEF Step

LEMMA RequestsBefore ==
    ASSUME TypeOK, NEW t \in Thread, Arrive(t) \/ Step(t), NEW s \in Thread,
           req'[s].pc \in {"update_status", "update_role"}, req'[s].actor # NoAccount
    PROVE  Reason(req'[s].actor)
<1> USE DEF deployment, tables, histories
<1>0. req \in [Thread -> Request] /\ req[t] \in Request
    BY DEF TypeOK, Request
<1>1. CASE s # t
    BY <1>1, OthersWait DEF Reason
<1>2. CASE s = t
    <2> USE <1>2
    <2>1. CASE Reply(t)
        BY <1>0, <2>1 DEF Reply, Idle
    <2>2. ASSUME NEW r, Begins(t, r) PROVE req'[t] = r
        BY <1>0, <2>2 DEF Begins
    <2>3. ASSUME NEW e, NEW p, Signup(t, e, p) \/ Login(t, e, p) PROVE FALSE
        <3>1. CASE Signup(t, e, p)
            BY <2>2, <3>1 DEF Signup, Idle
        <3>2. CASE Login(t, e, p)
            BY <2>2, <3>2 DEF Login, Idle, FirstOfLogin
        <3> QED BY <2>3, <3>1, <3>2
    <2>4. ASSUME NEW token, NEW current, NEW new, ChangePassword(t, token, current, new) PROVE FALSE
        BY <2>2, <2>4 DEF ChangePassword, Idle
    <2>5. ASSUME NEW token \in Principals, NEW u, NEW status, NEW role, UpdateUser(t, token, u, status, role)
          PROVE  Reason(req'[t].actor)
        <3>1. req'[t].actor = token.user /\ MayAdminister(token)
            BY <2>2, <2>5 DEF UpdateUser, Idle
        <3> QED BY <3>1, PrincipalType DEF Reason
    <2>6. ASSUME NEW token, NEW u, NEW status, SetStatus(t, token, u, status) PROVE FALSE
        BY <2>2, <2>6 DEF SetStatus, Idle
    <2>7. CASE Arrive(t)
        <3>1. ASSUME NEW u, NEW r, MintDevToken(t, u, r) PROVE FALSE
            BY <3>1 DEF MintDevToken
        <3> QED BY <2>3, <2>4, <2>5, <2>6, <2>7, <3>1 DEF Arrive
    <2>8. CASE UpdateStatus(t)
        <3>1. req'[t].actor = req[t].actor /\ req[t].pc = "update_status"
            BY <1>0, <2>8 DEF UpdateStatus, Goto, Request
        <3> QED BY <3>1 DEF Reason
    <2>9. CASE SeedSelect(t)
        BY <1>0, <2>9 DEF SeedSelect, Request
    <2>10. CASE \/ InsertUser(t) \/ InsertMember(t) \/ SeedInsert(t) \/ SeedPassword(t) \/ SeedMember(t)
                \/ SeedGrant(t)
        BY <1>0, <2>1, <2>10 DEF InsertUser, InsertMember, SeedInsert, SeedPassword, SeedMember, SeedGrant,
                                 Seeded, Goto, FirstOfLogin, Request
    <2>11. CASE Find(t) \/ WritePassword(t) \/ UpdateRole(t) \/ LogAudit(t) \/ LogFails(t)
        BY <2>1, <2>11 DEF Find, WritePassword, UpdateRole, LogAudit, LogFails
    <2> QED BY <2>7, <2>8, <2>9, <2>10, <2>11 DEF Step
<1> QED BY <1>1, <1>2

LEMMA ReasonBefore ==
    ASSUME TypeOK, NEW t \in Thread, Arrive(t) \/ Step(t), ~minted', NEW u, u # NoAccount, Reason(u)'
    PROVE  Reason(u) \/ (u \in DOMAIN users /\ IsAdministrator(u))
<1>1. CASE u = 1
    BY <1>1 DEF Reason
<1>2. CASE u \in meddlers'
    BY <1>2, MeddlersBefore
<1>3. ASSUME NEW token \in tokens', token.user = u, MayAdminister(token)
      PROVE  Reason(u) \/ (u \in DOMAIN users /\ IsAdministrator(u))
    BY <1>3, TokensBefore
<1>4. ASSUME NEW s \in Thread, req'[s].pc \in {"update_status", "update_role"}, req'[s].actor = u
      PROVE  Reason(u)
    BY <1>4, RequestsBefore
<1> QED BY <1>1, <1>2, <1>3, <1>4 DEF Reason, MayAdminister

\* nobody has a reason to act before he has an account
LEMMA ReasonUser ==
    ASSUME TypeOK, Len(users) > 0, NEW u, u # NoAccount, Reason(u) PROVE u \in DOMAIN users
<1>1. DOMAIN users = 1 .. Len(users) /\ Len(users) \in Nat
    BY UsersShape DEF TypeOK, User
<1>2. \A t \in Thread : req[t].actor \in 0 .. Len(users)
    BY DEF TypeOK
<1>3. \A token \in tokens : token.user \in 0 .. Len(users)
    BY DEF TypeOK
<1>4. meddlers \subseteq 0 .. Len(users)
    BY DEF TypeOK
<1>5. u \in 0 .. Len(users)
    <2>1. CASE u = 1
        BY <1>1, <2>1
    <2>2. CASE u # 1
        BY <1>2, <1>3, <1>4, <2>2 DEF Reason
    <2> QED BY <2>1, <2>2
<1> QED BY <1>1, <1>5 DEF NoAccount

LEMMA MeddlersKept ==
    ASSUME NEW t \in Thread, Arrive(t) \/ Step(t)
    PROVE  meddlers \subseteq meddlers' /\ (minted => minted')
<1> USE DEF deployment, tables, histories
<1>1. CASE Arrive(t)
    <2>1. ASSUME NEW token, NEW u, NEW status, SetStatus(t, token, u, status)
          PROVE  meddlers \subseteq meddlers' /\ (minted => minted')
        BY <2>1 DEF SetStatus, Meddles
    <2>2. ASSUME NEW u, NEW r, MintDevToken(t, u, r) PROVE meddlers' = meddlers /\ minted'
        BY <2>2 DEF MintDevToken
    <2>3. ASSUME NEW e, NEW p, Signup(t, e, p) \/ Login(t, e, p)
          PROVE  meddlers' = meddlers /\ minted' = minted
        BY <2>3 DEF Signup, Login
    <2>4. ASSUME NEW token, NEW current, NEW new, ChangePassword(t, token, current, new)
          PROVE  meddlers' = meddlers /\ minted' = minted
        BY <2>4 DEF ChangePassword
    <2>5. ASSUME NEW token, NEW u, NEW status, NEW role, UpdateUser(t, token, u, status, role)
          PROVE  meddlers' = meddlers /\ minted' = minted
        BY <2>5 DEF UpdateUser
    <2> QED BY <1>1, <2>1, <2>2, <2>3, <2>4, <2>5 DEF Arrive
<1>2. CASE Step(t)
    <2>1. minted' = minted
        BY <1>2 DEF Step, InsertUser, InsertMember, SeedSelect, SeedInsert, SeedPassword, SeedMember,
                    SeedGrant, Find, WritePassword, UpdateStatus, UpdateRole, LogAudit, LogFails
    <2>2. meddlers \subseteq meddlers'
        BY <1>2 DEF Meddles, Step, InsertUser, InsertMember, SeedSelect, SeedInsert, SeedPassword,
                    SeedMember, SeedGrant, Find, WritePassword, UpdateStatus, UpdateRole, LogAudit, LogFails
    <2> QED BY <2>1, <2>2
<1> QED BY <1>1, <1>2

LEMMA UsersRemain ==
    ASSUME TypeOK, TypeOK', RequestInv, NEW t \in Thread, Arrive(t) \/ Step(t), Len(users) > 0
    PROVE  Len(users') > 0
<1>1. 1 \in DOMAIN users
    BY UsersShape DEF TypeOK, User
<1>2. 1 \in DOMAIN users'
    BY <1>1, UsersKept
<1>3. Len(users') \in Nat /\ DOMAIN users' = 1 .. Len(users')
    BY LenProperties DEF TypeOK
<1> QED BY <1>2, <1>3

LEMMA AdminStep ==
    ASSUME TypeOK, TypeOK', RequestInv, AdminInv, NEW t \in Thread, Arrive(t) \/ Step(t)
    PROVE  AdminInv'
<1>1. Len(users') > 0 /\ meddlers \subseteq meddlers' /\ (minted => minted')
    BY UsersRemain, MeddlersKept DEF AdminInv
<1>2. ASSUME NEW u, u # NoAccount, meddlers' \subseteq {u}, ~minted', Reason(u)' PROVE IsAdministrator(u)'
    <2>1. Reason(u) \/ (u \in DOMAIN users /\ IsAdministrator(u))
        BY <1>2, ReasonBefore
    <2>2. u \in DOMAIN users
        BY <1>2, <2>1, ReasonUser DEF AdminInv
    <2>3. IsAdministrator(u)
        BY <1>1, <1>2, <2>1, <2>2 DEF AdminInv, Reason
    <2>4. users'[u].status = "active"
        BY <1>2, <2>2, <2>3, StatusStays DEF IsAdministrator
    <2>5. LoginRole(u)' = LoginRole(u)
        BY <1>2, <2>2, <2>3, RoleStays DEF IsAdministrator
    <2> QED BY <2>3, <2>4, <2>5 DEF IsAdministrator
<1>3. \A u \in DOMAIN users' : u # NoAccount
    BY LenProperties DEF TypeOK, NoAccount
<1>4. (\A u \in DOMAIN users : meddlers \subseteq {u} /\ ~minted /\ Reason(u) => IsAdministrator(u))'
    BY <1>2, <1>3
<1> QED BY <1>1, <1>4 DEF AdminInv, Reason

-----------------------------------------------------------------------------
(* The theorems *)

IInv == TypeOK /\ RequestInv /\ KeyInv /\ MemberInv /\ SeedInv /\ AdminInv

LEMMA InitAdmin == Init => SeedInv /\ AdminInv
<1> SUFFICES ASSUME Init PROVE SeedInv /\ AdminInv
    OBVIOUS
<1>1. Len(users) = 1 /\ DOMAIN users = {1} /\ users[1].status = "active"
    BY DEF Init
<1>2. DOMAIN memberships = {1} /\ memberships[1].user = 1 /\ memberships[1].role = "admin"
    BY DEF Init
<1>3. RoleIn(memberships, 1) = "admin"
    BY <1>2, OldestIn
<1>4. LoginRole(1) = "admin"
    BY <1>3 DEF LoginRole, RoleIn
<1>5. ~seeded
    BY DEF Init
<1> QED BY <1>1, <1>4, <1>5 DEF SeedInv, AdminInv, IsAdministrator, AdminRoles

LEMMA AdminKept ==
    ASSUME AdminInv, UNCHANGED <<users, memberships, meddlers, minted>>, \A u : Reason(u)' => Reason(u)
    PROVE  AdminInv'
<1>1. ASSUME NEW u PROVE IsAdministrator(u)' <=> IsAdministrator(u)
    <2>1. LoginRole(u)' = LoginRole(u)
        BY DEF LoginRole
    <2> QED BY <2>1 DEF IsAdministrator
<1>2. (/\ Len(users) > 0
       /\ \A u \in DOMAIN users : meddlers \subseteq {u} /\ ~minted /\ Reason(u) => IsAdministrator(u))'
    BY <1>1 DEF AdminInv, Reason
<1> QED BY <1>2 DEF AdminInv, Reason

LEMMA CrashStep == IInv /\ Crash => IInv'
<1> SUFFICES ASSUME IInv, Crash PROVE IInv'
    OBVIOUS
<1> USE DEF deployment, tables, histories
<1>1. /\ UNCHANGED <<seedEmail, devMode, users, memberships, audit, tokens, meddlers, seeded, minted, requests>>
      /\ \A t \in Thread : req'[t] = Idle
    BY DEF Crash
<1>2. TypeOK'
    <2>1. req' \in [Thread -> Request]
        BY IdleType DEF Crash, IInv
    <2>2. crashes' \in 0 .. Crashes
        BY AccountsAssumption DEF Crash, IInv, TypeOK, AccountsAssumption
    <2> QED BY <1>1, <2>1, <2>2 DEF IInv, TypeOK, Request
<1>3. RequestInv'
    BY <1>1 DEF RequestInv, RequestOK, Idle
<1>4. MemberInv'
    BY <1>1 DEF IInv, MemberInv, Idle
<1>5. KeyInv'
    BY <1>1 DEF IInv, KeyInv
<1>6. SeedInv'
    BY <1>1 DEF IInv, SeedInv, SeedUsable, UserOf, RolesOf
<1>7. AdminInv'
    BY <1>1, AdminKept DEF IInv, Reason, Idle
<1> QED BY <1>2, <1>3, <1>4, <1>5, <1>6, <1>7 DEF IInv

LEMMA ExpireStep == ASSUME IInv, NEW token \in tokens, Expire(token) PROVE IInv'
<1> USE DEF deployment, tables, histories
<1>1. /\ UNCHANGED <<seedEmail, devMode, users, memberships, audit, req, meddlers, seeded, minted, requests, crashes>>
      /\ tokens' \subseteq tokens
    BY DEF Expire
<1>2. TypeOK'
    BY <1>1 DEF IInv, TypeOK
<1>3. RequestInv'
    BY <1>1 DEF IInv, RequestInv, RequestOK
<1>4. MemberInv' /\ KeyInv'
    BY <1>1 DEF IInv, MemberInv, KeyInv
<1>5. SeedInv'
    BY <1>1 DEF IInv, SeedInv, SeedUsable, UserOf, RolesOf
<1>6. AdminInv'
    BY <1>1, AdminKept DEF IInv, Reason, MayAdminister
<1> QED BY <1>2, <1>3, <1>4, <1>5, <1>6 DEF IInv

LEMMA StutterStep == IInv /\ UNCHANGED vars => IInv'
<1> SUFFICES ASSUME IInv, UNCHANGED vars PROVE IInv'
    OBVIOUS
<1> USE DEF vars
<1>1. TypeOK'
    BY DEF IInv, TypeOK
<1>2. RequestInv'
    BY DEF IInv, RequestInv, RequestOK
<1>3. MemberInv' /\ KeyInv'
    BY DEF IInv, MemberInv, KeyInv
<1>4. SeedInv'
    BY DEF IInv, SeedInv, SeedUsable, UserOf, RolesOf
<1>5. AdminInv'
    BY AdminKept DEF IInv, Reason, MayAdminister
<1> QED BY <1>1, <1>2, <1>3, <1>4, <1>5 DEF IInv

\* The invariant of the three properties is inductive: sign-ups, logins,
\* seedings and administrators' changes may interleave statement by statement
\* (routers/auth.py, routers/users.py).
LEMMA Inductive == Spec => []IInv
<1>1. Init => IInv
    BY InitType, InitRequest, InitKeys, InitAdmin DEF IInv
<1>2. IInv /\ [Next]_vars => IInv'
    <2> SUFFICES ASSUME IInv, [Next]_vars PROVE IInv'
        OBVIOUS
    <2>1. ASSUME NEW t \in Thread, Arrive(t) \/ Step(t) PROVE IInv'
        <3>1. TypeOK'
            BY <2>1, ArriveType, ServeType DEF IInv
        <3>2. RequestInv' /\ KeyInv'
            BY <2>1, RequestStep, KeyStep DEF IInv
        <3>3. MemberInv' /\ SeedInv'
            BY <2>1, MemberStep, SeedStep DEF IInv
        <3>4. AdminInv'
            BY <2>1, <3>1, AdminStep DEF IInv
        <3> QED BY <3>1, <3>2, <3>3, <3>4 DEF IInv
    <2> QED BY <2>1, CrashStep, ExpireStep, StutterStep DEF Next
<1> QED BY <1>1, <1>2, PTL DEF Spec

\* One account for an address, one membership for a role, and at most one for
\* every account but the seeded one: the look-ups before the inserts of signup
\* and of _ensure_development_admin_account race, the unique keys decide.
THEOREM AccountsWholeCorrect == Spec => []AccountsWhole
<1>1. IInv => AccountsWhole
    <2> SUFFICES ASSUME IInv PROVE AccountsWhole
        OBVIOUS
    <2>1. ASSUME NEW i \in DOMAIN users, users[i].email # seedEmail PROVE ~(Cardinality(RolesOf(i)) > 1)
        <3>1. CASE RolesOf(i) = {}
            BY <3>1, FS_EmptySet
        <3>2. CASE RolesOf(i) # {}
            <4>1. PICK k \in DOMAIN memberships : memberships[k].user = i
                BY <3>2 DEF RolesOf
            <4>2. \A l \in DOMAIN memberships : memberships[l].user = i => l = k
                BY <2>1, <4>1 DEF IInv, MemberInv
            <4>3. RolesOf(i) = {memberships[k].role}
                BY <4>1, <4>2 DEF RolesOf
            <4>4. Cardinality(RolesOf(i)) = 1
                BY <4>3, FS_Singleton
            <4> QED BY <4>4
        <3> QED BY <3>1, <3>2
    <2> QED BY <2>1 DEF IInv, KeyInv, AccountsWhole
<1> QED BY <1>1, Inductive, PTL

\* An answer of _ensure_development_admin_account, however often its statements
\* were interrupted or overtaken, leaves an account that has a password and a
\* membership.
THEOREM SeedUsableCorrect == Spec => []SeedUsable
<1>1. IInv => SeedUsable
    BY DEF IInv, SeedInv, SeedUsable
<1> QED BY <1>1, Inductive, PTL

\* The rules of update_user and deactivate_user about the own account keep one
\* account from locking everybody out: it takes two, or somebody who is no
\* account (a service key), or a token that /dev-token minted.
THEOREM LockoutNeedsTwoCorrect == Spec => []LockoutNeedsTwo
<1>1. IInv => LockoutNeedsTwo
    <2> SUFFICES ASSUME IInv, Administrators = {}, NoAccount \notin meddlers, ~minted
                 PROVE  Cardinality(meddlers) > 1
        BY DEF LockoutNeedsTwo
    <2>1. Len(users) \in Nat /\ DOMAIN users = 1 .. Len(users) /\ meddlers \subseteq DOMAIN users
        BY UsersShape DEF IInv, TypeOK, User, NoAccount
    <2>2. \A u \in DOMAIN users : (u = 1 \/ u \in meddlers) => ~(meddlers \subseteq {u})
        BY DEF IInv, AdminInv, Administrators
    <2>3. 1 \in DOMAIN users
        BY <2>1 DEF IInv, AdminInv
    <2>4. PICK m \in meddlers : m # 1
        BY <2>2, <2>3
    <2>5. PICK n \in meddlers : n # m
        BY <2>1, <2>2
    <2>6. IsFiniteSet({m}) /\ Cardinality({m}) = 1
        BY FS_Singleton
    <2>7. Cardinality({m} \cup {n}) = 2
        BY SMTT(30), <2>5, <2>6, FS_AddElement
    <2>8. IsFiniteSet(meddlers) /\ Cardinality(meddlers) \in Nat
        <3>1. IsFiniteSet(1 .. Len(users))
            BY <2>1, FS_Interval
        <3> QED BY <2>1, <3>1, FS_Subset, FS_CardinalityType
    <2>9. Cardinality({m} \cup {n}) <= Cardinality(meddlers)
        BY <2>8, FS_Subset
    <2> QED BY <2>7, <2>8, <2>9
<1> QED BY <1>1, Inductive, PTL
=============================================================================
