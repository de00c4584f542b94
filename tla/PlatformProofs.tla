---------------------------- MODULE PlatformProofs ----------------------------
(***************************************************************************)
(* Proofs about the parts of the platform, each for all its parameters.    *)
(***************************************************************************)
EXTENDS Platform, FiniteSetTheorems, WellFoundedInduction, TLAPS

-----------------------------------------------------------------------------
(* Tenants: a request that got further than the validation works for a user   *)
(* of the tenant whose id it was validated with, and users are never taken    *)
(* away.                                                                      *)

TenantsSpec == Tenancy!Init /\ [][Tenancy!Next]_Tenancy!vars

RequestFields == {"stage", "tenant", "snapshot", "token", "user", "level", "late"}
Validated == {"validated", "authenticated", "limited", "served"}
TenantUsers(t) == Tenancy!ToSet(Tenancy!UsersOf(t))

TenantTypes ==
  /\ DOMAIN users = DOMAIN tenants
  /\ \A t \in DOMAIN users : users[t] = [i \in 1..Len(users[t]) |-> users[t][i]] /\ Len(users[t]) \in Nat
  /\ requests = [r \in TenantRequest |-> requests[r]]
  /\ \A r \in TenantRequest : DOMAIN requests[r] = RequestFields /\ requests[r] = [f \in RequestFields |-> requests[r][f]]

\* A terminated tenant is there and stays terminated.
EndedStay ==
  \A t \in ended : t \in DOMAIN tenants /\ "status" \in DOMAIN tenants[t] /\ tenants[t].status = "terminated"
StatusesAreThere == \A t \in DOMAIN tenants : "status" \in DOMAIN tenants[t]

WorksForItsUser(r) ==
  LET request == requests[r] IN
  /\ request.stage \in Validated => ~request.late
  /\ request.stage \in Validated \ {"validated"} =>
       /\ request.user \in TenantUsers(request.snapshot.id)
       /\ request.level = Tenancy!determineDataAccessLevel(request.user.permissions)

TenantsInv ==
  /\ TenantTypes /\ EndedStay /\ StatusesAreThere
  /\ \A r \in TenantRequest : WorksForItsUser(r)

LEMMA InitTenantsInv == Tenancy!Init => TenantsInv
<1> SUFFICES ASSUME Tenancy!Init PROVE TenantsInv
  OBVIOUS
<1>1. \A r \in TenantRequest : requests[r] = [stage |-> "new", tenant |-> None, snapshot |-> None, token |-> None,
                                             user |-> None, level |-> None, late |-> FALSE]
  BY DEF Tenancy!Init, Tenancy!NewRequest
<1>2. TenantTypes
  <2>1. DOMAIN users = DOMAIN tenants /\ \A t \in DOMAIN users : users[t] = <<>>
    BY DEF Tenancy!Init
  <2>2. requests = [r \in TenantRequest |-> requests[r]]
    BY DEF Tenancy!Init
  <2>3. \A r \in TenantRequest : DOMAIN requests[r] = RequestFields /\ requests[r] = [f \in RequestFields |-> requests[r][f]]
    BY <1>1 DEF RequestFields
  <2>4. \A t \in DOMAIN users : users[t] = [i \in 1..Len(users[t]) |-> users[t][i]] /\ Len(users[t]) \in Nat
    <3>1. \A q \in Seq(Nat) : q = [i \in 1..Len(q) |-> q[i]] /\ Len(q) \in Nat
      OBVIOUS
    <3>2. \A t \in DOMAIN users : users[t] \in Seq(Nat)
      BY <2>1, <<>> \in Seq(Nat)
    <3> QED
      BY <3>1, <3>2, Zenon
  <2> QED
    BY <2>1, <2>2, <2>3, <2>4 DEF TenantTypes
<1>3. EndedStay /\ StatusesAreThere
  BY DEF Tenancy!Init, EndedStay, StatusesAreThere
<1>4. \A r \in TenantRequest : WorksForItsUser(r)
  BY <1>1 DEF WorksForItsUser, Validated
<1> QED
  BY <1>2, <1>3, <1>4 DEF TenantsInv

\* What a request has got stays with it while users are added.
LEMMA RequestKeeps ==
  ASSUME NEW r \in TenantRequest, WorksForItsUser(r), requests'[r] = requests[r],
         \A t : TenantUsers(t) \subseteq TenantUsers(t)'
  PROVE  WorksForItsUser(r)'
BY DEF WorksForItsUser, Validated

\* Who is not stored under any tenant is nobody's user.
LEMMA UsersGrow ==
  ASSUME \A s \in DOMAIN users : s \in DOMAIN users' /\ Tenancy!ToSet(users[s]) \subseteq Tenancy!ToSet(users'[s])
  PROVE  \A t : TenantUsers(t) \subseteq TenantUsers(t)'
<1> SUFFICES ASSUME NEW t PROVE TenantUsers(t) \subseteq TenantUsers(t)'
  OBVIOUS
<1>1. CASE t \in DOMAIN users
  BY <1>1 DEF TenantUsers, Tenancy!UsersOf
<1>2. CASE t \notin DOMAIN users
  <2>1. TenantUsers(t) = Tenancy!ToSet(<<>>)
    BY <1>2 DEF TenantUsers, Tenancy!UsersOf
  <2>2. Tenancy!ToSet(<<>>) = {}
    BY DEF Tenancy!ToSet
  <2> QED
    BY <2>1, <2>2
<1> QED
  BY <1>1, <1>2

\* An operation on the tenants leaves the requests alone.
LEMMA AdministrationKeeps ==
  ASSUME TenantsInv, UNCHANGED requests, DOMAIN users' = DOMAIN tenants', EndedStay', StatusesAreThere',
         \A t \in DOMAIN users' : users'[t] = [i \in 1..Len(users'[t]) |-> users'[t][i]] /\ Len(users'[t]) \in Nat,
         \A s \in DOMAIN users : s \in DOMAIN users' /\ Tenancy!ToSet(users[s]) \subseteq Tenancy!ToSet(users'[s])
  PROVE  TenantsInv'
<1>1. TenantTypes'
  BY DEF TenantsInv, TenantTypes
<1>2. \A r \in TenantRequest : WorksForItsUser(r)'
  BY UsersGrow, RequestKeeps DEF TenantsInv
<1> QED
  BY <1>1, <1>2 DEF TenantsInv

LEMMA CreateTenantKeeps ==
  ASSUME TenantsInv, NEW t \in Tenant, NEW slug, NEW tier, Tenancy!CreateTenant(t, slug, tier)
  PROVE  TenantsInv'
<1>1. /\ UNCHANGED <<requests, ended>> /\ t \notin DOMAIN tenants
      /\ DOMAIN tenants' = DOMAIN tenants \cup {t} /\ DOMAIN users' = DOMAIN users \cup {t}
      /\ \A s \in DOMAIN tenants : tenants'[s] = tenants[s]
      /\ \A s \in DOMAIN users : s # t => users'[s] = users[s]
      /\ users'[t] = <<>> /\ "status" \in DOMAIN tenants'[t]
  BY DEF Tenancy!CreateTenant
<1>2. EndedStay' /\ StatusesAreThere'
  BY <1>1 DEF TenantsInv, EndedStay, StatusesAreThere
<1>3. /\ DOMAIN users' = DOMAIN tenants'
      /\ \A s \in DOMAIN users' : users'[s] = [i \in 1..Len(users'[s]) |-> users'[s][i]] /\ Len(users'[s]) \in Nat
      /\ \A s \in DOMAIN users : s \in DOMAIN users' /\ Tenancy!ToSet(users[s]) \subseteq Tenancy!ToSet(users'[s])
  BY <1>1 DEF TenantsInv, TenantTypes
<1> QED
  BY <1>1, <1>2, <1>3, AdministrationKeeps

LEMMA TenantChangesKeep ==
  ASSUME TenantsInv, NEW t \in Tenant,
         \/ \E updates \in Updates : Tenancy!UpdateTenant(t, updates)
         \/ Tenancy!DeleteTenant(t)
         \/ Tenancy!UpgradeTenantTier(t, "custom")
  PROVE  TenantsInv'
<1>1. /\ UNCHANGED <<requests, users>> /\ t \in DOMAIN tenants /\ DOMAIN tenants' = DOMAIN tenants
      /\ \A s \in DOMAIN tenants : s # t => tenants'[s] = tenants[s]
  BY DEF Tenancy!UpdateTenant, Tenancy!DeleteTenant, Tenancy!UpgradeTenantTier
<1>2. "status" \in DOMAIN tenants'[t] /\ (t \in ended' => tenants'[t].status = "terminated") /\ ended' \subseteq ended \cup {t}
  <2>1. ASSUME NEW updates \in Updates, Tenancy!UpdateTenant(t, updates)
        PROVE  "status" \in DOMAIN tenants'[t] /\ t \notin ended' /\ ended' = ended
    BY <2>1 DEF Tenancy!UpdateTenant, TenantsInv, EndedStay, StatusesAreThere
  <2>2. ASSUME Tenancy!DeleteTenant(t)
        PROVE  "status" \in DOMAIN tenants'[t] /\ tenants'[t].status = "terminated" /\ ended' = ended \cup {t}
    BY <2>2 DEF Tenancy!DeleteTenant, TenantsInv, StatusesAreThere
  <2>3. ASSUME Tenancy!UpgradeTenantTier(t, "custom")
        PROVE  "status" \in DOMAIN tenants'[t] /\ tenants'[t].status = tenants[t].status /\ ended' = ended
    BY <2>3 DEF Tenancy!UpgradeTenantTier, TenantsInv, StatusesAreThere
  <2> QED
    BY <2>1, <2>2, <2>3 DEF TenantsInv, EndedStay
<1>3. EndedStay' /\ StatusesAreThere'
  BY <1>1, <1>2 DEF TenantsInv, EndedStay, StatusesAreThere
<1>4. /\ DOMAIN users' = DOMAIN tenants'
      /\ \A s \in DOMAIN users' : users'[s] = [i \in 1..Len(users'[s]) |-> users'[s][i]] /\ Len(users'[s]) \in Nat
      /\ \A s \in DOMAIN users : s \in DOMAIN users' /\ Tenancy!ToSet(users[s]) \subseteq Tenancy!ToSet(users'[s])
  BY <1>1 DEF TenantsInv, TenantTypes
<1> QED
  BY <1>1, <1>3, <1>4, AdministrationKeeps

LEMMA CreateTenantUserKeeps ==
  ASSUME TenantsInv, NEW t \in Tenant, NEW email, NEW p, Tenancy!CreateTenantUser(t, email, p)
  PROVE  TenantsInv'
<1> PICK u : users' = [users EXCEPT ![t] = Append(@, u)] /\ t \in DOMAIN tenants /\ UNCHANGED <<tenants, requests, ended>>
  BY DEF Tenancy!CreateTenantUser
<1>1. /\ t \in DOMAIN users /\ DOMAIN users' = DOMAIN users /\ users'[t] = Append(users[t], u)
      /\ \A s \in DOMAIN users : s # t => users'[s] = users[s]
  BY DEF TenantsInv, TenantTypes
<1>2. /\ Len(users'[t]) = Len(users[t]) + 1 /\ users'[t] = [i \in 1..Len(users'[t]) |-> users'[t][i]]
      /\ \A i \in 1..Len(users[t]) : users'[t][i] = users[t][i]
      /\ Len(users[t]) \in Nat /\ DOMAIN users[t] = 1..Len(users[t])
  <2> DEFINE list == users[t]
             S == {list[i] : i \in DOMAIN list} \cup {u}
  <2>1. list = [i \in 1..Len(list) |-> list[i]] /\ Len(list) \in Nat
    BY <1>1 DEF TenantsInv, TenantTypes
  <2> HIDE DEF list
  <2>2. list \in Seq(S) /\ u \in S
    BY <2>1
  <2> HIDE DEF S
  <2>3. /\ Append(list, u) \in Seq(S) /\ Len(Append(list, u)) = Len(list) + 1
        /\ \A i \in 1..Len(list) : Append(list, u)[i] = list[i]
    BY <2>2
  <2>4. \A q \in Seq(S) : q = [i \in 1..Len(q) |-> q[i]]
    OBVIOUS
  <2>5. users'[t] = Append(list, u)
    BY <1>1 DEF list
  <2> QED
    BY <2>1, <2>3, <2>4, <2>5 DEF list
<1>3. Tenancy!ToSet(users[t]) \subseteq Tenancy!ToSet(users'[t])
  BY <1>2 DEF Tenancy!ToSet
<1>4. EndedStay' /\ StatusesAreThere'
  BY DEF TenantsInv, EndedStay, StatusesAreThere
<1>5. /\ DOMAIN users' = DOMAIN tenants'
      /\ \A s \in DOMAIN users' : users'[s] = [i \in 1..Len(users'[s]) |-> users'[s][i]] /\ Len(users'[s]) \in Nat
      /\ \A s \in DOMAIN users : s \in DOMAIN users' /\ Tenancy!ToSet(users[s]) \subseteq Tenancy!ToSet(users'[s])
  <2>1. DOMAIN users' = DOMAIN tenants' /\ t \in DOMAIN tenants
    BY <1>1 DEF TenantsInv, TenantTypes
  <2>2. ASSUME NEW s \in DOMAIN users'
        PROVE  users'[s] = [i \in 1..Len(users'[s]) |-> users'[s][i]] /\ Len(users'[s]) \in Nat
    <3>1. CASE s = t
      BY <1>2, <3>1
    <3>2. CASE s # t
      BY <1>1, <2>2, <3>2 DEF TenantsInv, TenantTypes
    <3> QED
      BY <3>1, <3>2
  <2>3. ASSUME NEW s \in DOMAIN users PROVE Tenancy!ToSet(users[s]) \subseteq Tenancy!ToSet(users'[s])
    BY <1>1, <1>3
  <2> QED
    BY <1>1, <2>1, <2>2, <2>3
<1> QED
  BY <1>4, <1>5, AdministrationKeeps

\* A request gets other values in some of its fields.
LEMMA MovesMoves ==
  ASSUME TenantsInv, NEW r \in TenantRequest, NEW fields, DOMAIN fields \subseteq RequestFields, Tenancy!Moves(r, fields),
         UNCHANGED <<tenants, users, ended>>
  PROVE  /\ \A f \in RequestFields : requests'[r][f] = IF f \in DOMAIN fields THEN fields[f] ELSE requests[r][f]
         /\ WorksForItsUser(r)' => TenantsInv'
<1>1. /\ requests' = [q \in TenantRequest |-> requests'[q]]
      /\ \A q \in TenantRequest : q # r => requests'[q] = requests[q]
      /\ requests'[r] = [f \in RequestFields |-> IF f \in DOMAIN fields THEN fields[f] ELSE requests[r][f]]
  BY DEF Tenancy!Moves, TenantsInv, TenantTypes
<1>2. TenantTypes'
  BY <1>1 DEF TenantsInv, TenantTypes
<1>3. \A q \in TenantRequest : q # r => WorksForItsUser(q)'
  BY <1>1, RequestKeeps DEF TenantsInv, TenantUsers, Tenancy!UsersOf
<1>4. EndedStay' /\ StatusesAreThere'
  BY DEF TenantsInv, EndedStay, StatusesAreThere
<1> QED
  BY <1>1, <1>2, <1>3, <1>4 DEF TenantsInv

\* The stage alone changes: the request is refused, or gets further with the
\* user it was authenticated for.
LEMMA StageMoves ==
  ASSUME TenantsInv, NEW r \in TenantRequest, NEW s, Tenancy!Moves(r, [stage |-> s]), UNCHANGED <<tenants, users, ended>>,
         s \in {"limited", "served"} => requests[r].stage \in {"authenticated", "limited"},
         s \in {"limited", "served", "refused"}
  PROVE  TenantsInv'
<1> DEFINE fields == [stage |-> s]
<1>1. DOMAIN fields = {"stage"} /\ fields["stage"] = s
  OBVIOUS
<1> HIDE DEF fields
<1>2. /\ requests'[r].stage = s /\ requests'[r].snapshot = requests[r].snapshot /\ requests'[r].late = requests[r].late
      /\ requests'[r].user = requests[r].user /\ requests'[r].level = requests[r].level
      /\ WorksForItsUser(r)' => TenantsInv'
  BY <1>1, MovesMoves DEF RequestFields, fields
<1>3. WorksForItsUser(r)'
  BY <1>2 DEF TenantsInv, WorksForItsUser, Validated, TenantUsers, Tenancy!UsersOf
<1> QED
  BY <1>2, <1>3

LEMMA ValidateTenantKeeps ==
  ASSUME TenantsInv, NEW r \in TenantRequest, NEW t, NEW token, Tenancy!ValidateTenant(r, t, token)
  PROVE  TenantsInv'
<1>1. UNCHANGED <<tenants, users, ended>>
  BY DEF Tenancy!ValidateTenant
<1>2. CASE t \in DOMAIN tenants /\ tenants[t].status = "active"
  <2> DEFINE fields == [stage |-> "validated", tenant |-> t, snapshot |-> tenants[t], token |-> token, late |-> t \in ended]
  <2>1. Tenancy!Moves(r, fields)
    BY <1>2 DEF Tenancy!ValidateTenant
  <2>2. /\ DOMAIN fields = {"stage", "tenant", "snapshot", "token", "late"}
        /\ fields["stage"] = "validated" /\ fields["late"] = (t \in ended)
    OBVIOUS
  <2> HIDE DEF fields
  <2>3. /\ requests'[r].stage = "validated" /\ requests'[r].late = (t \in ended)
        /\ WorksForItsUser(r)' => TenantsInv'
    BY <1>1, <2>1, <2>2, MovesMoves DEF RequestFields
  <2>4. t \notin ended
    BY <1>2 DEF TenantsInv, EndedStay
  <2>5. WorksForItsUser(r)'
    BY <1>1, <1>2, <2>3, <2>4 DEF WorksForItsUser, Validated
  <2> QED
    BY <2>3, <2>5
<1>3. CASE ~(t \in DOMAIN tenants /\ tenants[t].status = "active")
  <2>1. Tenancy!Moves(r, [stage |-> "refused"])
    BY <1>3 DEF Tenancy!ValidateTenant
  <2> QED
    BY <1>1, <2>1, StageMoves
<1> QED
  BY <1>2, <1>3

LEMMA AuthenticateTenantKeeps ==
  ASSUME TenantsInv, NEW r \in TenantRequest, Tenancy!AuthenticateTenant(r)
  PROVE  TenantsInv'
<1>1. UNCHANGED <<tenants, users, ended>> /\ requests[r].stage = "validated"
  BY DEF Tenancy!AuthenticateTenant
<1>2. ASSUME NEW u, u \in TenantUsers(requests[r].snapshot.id),
             Tenancy!Moves(r, [stage |-> "authenticated", user |-> u,
                               level |-> Tenancy!determineDataAccessLevel(u.permissions)])
      PROVE  TenantsInv'
  <2> DEFINE fields == [stage |-> "authenticated", user |-> u, level |-> Tenancy!determineDataAccessLevel(u.permissions)]
  <2>1. /\ DOMAIN fields = {"stage", "user", "level"} /\ fields["stage"] = "authenticated" /\ fields["user"] = u
        /\ fields["level"] = Tenancy!determineDataAccessLevel(u.permissions) /\ Tenancy!Moves(r, fields)
    BY <1>2
  <2> HIDE DEF fields
  <2>2. /\ requests'[r].stage = "authenticated" /\ requests'[r].user = u
        /\ requests'[r].level = Tenancy!determineDataAccessLevel(u.permissions)
        /\ requests'[r].snapshot = requests[r].snapshot /\ requests'[r].late = requests[r].late
        /\ WorksForItsUser(r)' => TenantsInv'
    BY <1>1, <2>1, MovesMoves DEF RequestFields
  <2>3. WorksForItsUser(r)'
    BY <1>1, <1>2, <2>2 DEF TenantsInv, WorksForItsUser, Validated, TenantUsers, Tenancy!UsersOf
  <2> QED
    BY <2>2, <2>3
<1>3. \/ Tenancy!Moves(r, [stage |-> "refused"])
      \/ \E u \in TenantUsers(requests[r].snapshot.id) :
           Tenancy!Moves(r, [stage |-> "authenticated", user |-> u,
                             level |-> Tenancy!determineDataAccessLevel(u.permissions)])
  <2>1. CASE requests[r].token = None \/ requests[r].token.expires <= now
    BY <2>1 DEF Tenancy!AuthenticateTenant, Tenancy!ToSet
  <2>2. CASE ~(requests[r].token = None \/ requests[r].token.expires <= now)
    BY <2>2 DEF Tenancy!AuthenticateTenant, TenantUsers
  <2> QED
    BY <2>1, <2>2
<1>4. CASE Tenancy!Moves(r, [stage |-> "refused"])
  BY <1>1, <1>4, StageMoves
<1> QED
  BY <1>2, <1>3, <1>4

LEMMA TenantsUntouched == TenantsInv /\ UNCHANGED <<tenants, users, requests, ended>> => TenantsInv'
BY DEF TenantsInv, TenantTypes, EndedStay, StatusesAreThere, WorksForItsUser, TenantUsers, Tenancy!UsersOf

LEMMA TenantRequestsKeep == TenantsInv /\ Tenancy!Requests => TenantsInv'
<1> SUFFICES ASSUME TenantsInv, Tenancy!Requests PROVE TenantsInv'
  OBVIOUS
<1>1. ASSUME NEW r \in TenantRequest, Tenancy!TenantRateLimit(r) PROVE TenantsInv'
  <2>1. PICK s \in {"limited", "refused"} : Tenancy!Moves(r, [stage |-> s]) /\ UNCHANGED <<tenants, users, ended>>
    BY <1>1 DEF Tenancy!TenantRateLimit
  <2> QED
    BY <1>1, <2>1, StageMoves DEF Tenancy!TenantRateLimit
<1>2. ASSUME NEW r \in TenantRequest, NEW need \in Needs, NEW named, Tenancy!ServeRequest(r, need, named) PROVE TenantsInv'
  <2>1. PICK s \in {"served", "refused"} : Tenancy!Moves(r, [stage |-> s]) /\ UNCHANGED <<tenants, users, ended>>
    BY <1>2 DEF Tenancy!ServeRequest
  <2> QED
    BY <1>2, <2>1, StageMoves DEF Tenancy!ServeRequest
<1>3. ASSUME NEW slug, NEW email, Tenancy!TenantLogin(slug, email) PROVE TenantsInv'
  BY <1>3, TenantsUntouched DEF Tenancy!TenantLogin
<1> QED
  BY <1>1, <1>2, <1>3, ValidateTenantKeeps, AuthenticateTenantKeeps DEF Tenancy!Requests

LEMMA TenantsNextKeeps == TenantsInv /\ [Tenancy!Next]_Tenancy!vars => TenantsInv'
<1> SUFFICES ASSUME TenantsInv, [Tenancy!Next]_Tenancy!vars PROVE TenantsInv'
  OBVIOUS
<1>1. CASE Tenancy!Administration
  BY <1>1, CreateTenantKeeps, TenantChangesKeep, CreateTenantUserKeeps DEF Tenancy!Administration
<1>2. CASE Tenancy!Tick \/ UNCHANGED Tenancy!vars
  BY <1>2, TenantsUntouched DEF Tenancy!Tick, Tenancy!vars
<1> QED
  BY <1>1, <1>2, TenantRequestsKeep DEF Tenancy!Next

\* For any tenants, users and requests, however they are interleaved with updates,
\* of a tenant's id as well, upgrades and the end of a tenant.
THEOREM RequestsAreTheirUsers == TenantsSpec => []ServedAsItsUser
<1>1. TenantsInv => ServedAsItsUser
  BY DEF TenantsInv, WorksForItsUser, Validated, TenantUsers, ServedAsItsUser, Tenancy!ServedAsItsUser
<1> QED
  BY <1>1, InitTenantsInv, TenantsNextKeeps, PTL DEF TenantsSpec

-----------------------------------------------------------------------------
(* Row security: a connection acts for the one operation that holds it, or  *)
(* for nobody.                                                              *)

RowsSpec == Rows!Init /\ [][Rows!Next]_Rows!rowSecurityVars

HeldAlone(o) ==
  /\ \A c, d \in Connection : owner[c] = o /\ owner[d] = o => c = d
  /\ stage[o] = "new" => \A c \in Connection : owner[c] # o
  /\ stage[o] \in {"connected", "set", "queried"} => \E c \in Connection : owner[c] = o

ActsForHolder(o) ==
  stage[o] = "set" /\ KindOf[o] \in {"query", "request"} =>
    \A c \in Connection : owner[c] = o => context[c] \in {UserOf[o], None}

RowTypes ==
  /\ sessionWide \in BOOLEAN
  /\ owner \in [Connection -> Operation \cup {None}]
  /\ context \in [Connection -> {UserOf[o] : o \in Operation} \cup {None}]
  /\ stage \in [Operation -> Rows!Stages]

RowsInv ==
  /\ RowTypes
  /\ \A o \in Operation : HeldAlone(o) /\ ActsForHolder(o)
  /\ ~sessionWide => \A c \in Connection : context[c] = None

\* The connection of an operation that holds one.
LEMMA ClientOfHolder ==
  ASSUME NEW o \in Operation, HeldAlone(o), NEW c \in Connection, owner[c] = o
  PROVE  Rows!ClientOf(o) = c
BY DEF HeldAlone, Rows!ClientOf

LEMMA InitRowsInv == Rows!Init => RowsInv
BY OperationsAssumption DEF Rows!Init, RowsInv, RowTypes, HeldAlone, ActsForHolder, Rows!Stages

\* Whoever gets a connection has none yet.
LEMMA ConnectKeeps ==
  ASSUME RowsInv, NEW o \in Operation, Rows!Connect(o)
  PROVE  RowsInv'
<1> USE DEF RowsInv
<1>1. CASE /\ \A c \in Connection : owner[c] # None
           /\ Rows!GoesTo(o, "failed") /\ owner' = owner
  BY <1>1 DEF Rows!Connect, Rows!GoesTo, RowTypes, HeldAlone, ActsForHolder, Rows!Stages, Rows!Ended
<1>2. ASSUME NEW c \in Connection, owner[c] = None, owner' = [owner EXCEPT ![c] = o],
             Rows!GoesTo(o, IF KindOf[o] = "report" THEN "set" ELSE "connected")
      PROVE  RowsInv'
  <2>1. /\ RowTypes' /\ UNCHANGED <<sessionWide, context>> /\ stage[o] = "new"
        /\ stage' = [stage EXCEPT ![o] = IF KindOf[o] = "report" THEN "set" ELSE "connected"]
    BY <1>2 DEF Rows!Connect, Rows!GoesTo, RowTypes, Rows!Stages
  <2>2. /\ \A d \in Connection : owner'[d] = IF d = c THEN o ELSE owner[d]
        /\ \A p \in Operation : p # o => stage'[p] = stage[p]
    BY <1>2, <2>1 DEF RowTypes
  <2>3. stage'[o] \in {"set", "connected"} /\ (stage'[o] = "set" => KindOf[o] = "report")
    BY <2>1 DEF RowTypes
  <2>4. ASSUME NEW p \in Operation PROVE (HeldAlone(p) /\ ActsForHolder(p))'
    BY <1>2, <2>1, <2>2, <2>3, OperationsAssumption DEF HeldAlone, ActsForHolder
  <2> QED
    BY <2>1, <2>4
<1> QED
  BY <1>1, <1>2 DEF Rows!Connect

\* The holder of a connection gets further, with or without it, and leaves the
\* context of that connection as it is, clears it or makes it its user's.
LEMMA HolderMoves ==
  ASSUME RowsInv, NEW o \in Operation, NEW c \in Connection, owner[c] = o,
         NEW s \in Rows!Stages \ {"new"}, stage' = [stage EXCEPT ![o] = s], sessionWide' = sessionWide,
         \/ owner' = owner
         \/ owner' = [owner EXCEPT ![c] = None] /\ s \in Rows!Ended,
         \/ context' = context
         \/ context' = [context EXCEPT ![c] = None]
         \/ context' = [context EXCEPT ![c] = UserOf[o]] /\ sessionWide,
         s = "set" /\ KindOf[o] \in {"query", "request"} => context'[c] \in {UserOf[o], None}
  PROVE  RowsInv'
<1> USE DEF RowsInv
<1>1. RowTypes'
  <2>1. owner' \in [Connection -> Operation \cup {None}] /\ stage' \in [Operation -> Rows!Stages]
    BY DEF RowTypes
  <2>2. context' \in [Connection -> {UserOf[p] : p \in Operation} \cup {None}]
    <3>1. context \in [Connection -> {UserOf[p] : p \in Operation} \cup {None}]
      BY DEF RowTypes
    <3>2. UserOf[o] \in {UserOf[p] : p \in Operation} \cup {None}
      OBVIOUS
    <3> QED
      BY <3>1, <3>2
  <2> QED
    BY <2>1, <2>2 DEF RowTypes
<1>2. /\ \A d \in Connection : d # c => owner'[d] = owner[d] /\ context'[d] = context[d]
      /\ owner'[c] \in {o, None} /\ (owner'[c] = None => s \in Rows!Ended)
      /\ \A p \in Operation : stage'[p] = IF p = o THEN s ELSE stage[p]
  <2>1. \A d \in Connection : d # c => owner'[d] = owner[d] /\ context'[d] = context[d]
    BY DEF RowTypes
  <2>2. owner'[c] \in {o, None} /\ (owner'[c] = None => s \in Rows!Ended)
    BY OperationsAssumption DEF RowTypes
  <2>3. \A p \in Operation : stage'[p] = IF p = o THEN s ELSE stage[p]
    BY DEF RowTypes
  <2> QED
    BY <2>1, <2>2, <2>3
<1>3. ASSUME NEW p \in Operation PROVE HeldAlone(p)'
  <2>1. CASE p = o
    BY <1>2, <2>1, OperationsAssumption DEF HeldAlone, Rows!Ended
  <2>2. CASE p # o
    BY <1>2, <2>2, OperationsAssumption DEF HeldAlone
  <2> QED
    BY <2>1, <2>2
<1>4. ASSUME NEW p \in Operation PROVE ActsForHolder(p)'
  <2>1. CASE p = o
    <3>1. \A d \in Connection : owner'[d] = o => d = c
      BY <1>2, OperationsAssumption DEF HeldAlone
    <3> QED
      BY <1>2, <2>1, <3>1 DEF ActsForHolder
  <2>2. CASE p # o
    BY <1>2, <2>2, OperationsAssumption DEF ActsForHolder
  <2> QED
    BY <2>1, <2>2
<1>5. ~sessionWide' => \A d \in Connection : context'[d] = None
  BY DEF RowTypes
<1> QED
  BY <1>1, <1>3, <1>4, <1>5

LEMMA SetContextKeeps ==
  ASSUME RowsInv, NEW o \in Operation,
         Rows!SetRLSContext(o) \/ Rows!SetRLSContextFails(o) \/ Rows!SetLocal(o)
  PROVE  RowsInv'
<1>1. stage[o] = "connected" /\ sessionWide' = sessionWide
  BY DEF Rows!SetRLSContext, Rows!SetRLSContextFails, Rows!SetLocal
<1>2. PICK c \in Connection : owner[c] = o
  BY <1>1 DEF RowsInv, HeldAlone
<1>3. Rows!ClientOf(o) = c
  BY <1>2, ClientOfHolder DEF RowsInv
<1>4. CASE Rows!SetRLSContext(o)
  <2>1. /\ stage' = [stage EXCEPT ![o] = "set"] /\ owner' = owner
        /\ context' = IF sessionWide THEN [context EXCEPT ![c] = UserOf[o]] ELSE context
    BY <1>3, <1>4 DEF Rows!SetRLSContext, Rows!GoesTo
  <2>2. context'[c] \in {UserOf[o], None}
    BY <2>1 DEF RowsInv, RowTypes
  <2>3. "set" \in Rows!Stages \ {"new"}
    BY DEF Rows!Stages
  <2> QED
    BY <1>1, <1>2, <2>1, <2>2, <2>3, HolderMoves
<1>5. CASE Rows!SetRLSContextFails(o)
  <2>1. stage' = [stage EXCEPT ![o] = "failed"] /\ owner' = [owner EXCEPT ![c] = None] /\ context' = context
    BY <1>3, <1>5 DEF Rows!SetRLSContextFails, Rows!GoesTo, Rows!Release
  <2>2. "failed" \in Rows!Stages \ {"new"} /\ "failed" \in Rows!Ended
    BY DEF Rows!Stages, Rows!Ended
  <2> QED
    BY <1>1, <1>2, <2>1, <2>2, HolderMoves
<1>6. CASE Rows!SetLocal(o)
  <2>1. PICK s \in {"set", "queried"} : stage' = [stage EXCEPT ![o] = s]
    BY <1>6 DEF Rows!SetLocal, Rows!GoesTo
  <2>2. owner' = owner /\ context' = context /\ KindOf[o] \notin {"query", "request"} /\ s \in Rows!Stages \ {"new"}
    BY <1>6 DEF Rows!SetLocal, Rows!Stages
  <2> QED
    BY <1>1, <1>2, <2>1, <2>2, HolderMoves
<1> QED
  BY <1>4, <1>5, <1>6

LEMMA QueryKeeps ==
  ASSUME RowsInv, NEW o \in Operation, Rows!Query(o) \/ Rows!QueryFails(o)
  PROVE  RowsInv'
<1>1. stage[o] = "set" /\ sessionWide' = sessionWide /\ context' = context
  BY DEF Rows!Query, Rows!QueryFails
<1>2. PICK c \in Connection : owner[c] = o
  BY <1>1 DEF RowsInv, HeldAlone
<1>3. Rows!ClientOf(o) = c
  BY <1>2, ClientOfHolder DEF RowsInv
<1>4. PICK s \in {"queried", "done", "failed"} :
        /\ stage' = [stage EXCEPT ![o] = s]
        /\ owner' = owner \/ (owner' = [owner EXCEPT ![c] = None] /\ s \in Rows!Ended)
  BY <1>3 DEF Rows!Query, Rows!QueryFails, Rows!GoesTo, Rows!Release, Rows!Ended
<1>5. s \in Rows!Stages \ {"new"} /\ s # "set"
  BY DEF Rows!Stages, Rows!Ended
<1> QED
  BY <1>1, <1>2, <1>4, <1>5, HolderMoves

LEMMA ClearKeeps ==
  ASSUME RowsInv, NEW o \in Operation, Rows!Clear(o) \/ Rows!ClearFails(o) \/ Rows!NeverCleared(o)
  PROVE  RowsInv'
<1>1. stage[o] = "queried" /\ sessionWide' = sessionWide
  BY DEF Rows!Clear, Rows!ClearFails, Rows!NeverCleared
<1>2. PICK c \in Connection : owner[c] = o
  BY <1>1 DEF RowsInv, HeldAlone
<1>3. Rows!ClientOf(o) = c
  BY <1>2, ClientOfHolder DEF RowsInv
<1>4. PICK s \in {"done", "failed"} :
        /\ stage' = [stage EXCEPT ![o] = s]
        /\ owner' = owner \/ owner' = [owner EXCEPT ![c] = None]
        /\ context' = context \/ context' = [context EXCEPT ![c] = None]
  BY <1>3 DEF Rows!Clear, Rows!ClearFails, Rows!NeverCleared, Rows!GoesTo, Rows!Release
<1>5. s \in Rows!Stages \ {"new"} /\ s \in Rows!Ended /\ s # "set"
  BY DEF Rows!Stages, Rows!Ended
<1> QED
  BY <1>1, <1>2, <1>4, <1>5, HolderMoves

LEMMA RowsNextKeeps == RowsInv /\ [Rows!Next]_Rows!rowSecurityVars => RowsInv'
<1> SUFFICES ASSUME RowsInv, [Rows!Next]_Rows!rowSecurityVars PROVE RowsInv'
  OBVIOUS
<1>1. CASE UNCHANGED Rows!rowSecurityVars
  BY <1>1 DEF Rows!rowSecurityVars, RowsInv, RowTypes, HeldAlone, ActsForHolder
<1> QED
  BY <1>1, ConnectKeeps, SetContextKeeps, QueryKeeps, ClearKeeps DEF Rows!Next

\* For every pool, and whatever each operation does on whose behalf: what one
\* leaves behind on a connection is never taken for the next one's.
THEOREM QueriesRunAsTheirUser == RowsSpec => []QueryRunsAsItsUser
<1>1. RowsInv => QueryRunsAsItsUser
  <2> SUFFICES ASSUME RowsInv, NEW o \in Operation, stage[o] = "set", KindOf[o] \in {"query", "request"}
               PROVE  context[Rows!ClientOf(o)] \in {UserOf[o], None}
    BY DEF QueryRunsAsItsUser, Rows!QueryRunsAsItsUser
  <2>1. PICK c \in Connection : owner[c] = o
    BY DEF RowsInv, HeldAlone
  <2>2. Rows!ClientOf(o) = c
    BY <2>1, ClientOfHolder DEF RowsInv
  <2> QED
    BY <2>1, <2>2 DEF RowsInv, ActsForHolder
<1> QED
  BY <1>1, InitRowsInv, RowsNextKeeps, PTL DEF RowsSpec

-----------------------------------------------------------------------------
(* The review queue.                                                        *)

ReviewSpec == Review!Init /\ [][Review!Next]_Review!queueVars

ReviewInv == now \in Nat /\ queue \in Seq(ReviewItem \cup {None})

\* A new item, and one with another status.
LEMMA ItemsStayItems ==
  ASSUME NEW item \in ReviewItem, NEW s \in {"pending", "in-progress"} \cup Review!Settled, now \in Nat
  PROVE  /\ [item EXCEPT !.status = s] \in ReviewItem /\ [item EXCEPT !.status = s] # None
         /\ [item EXCEPT !.status = s, !.resolvedAt = now] \in ReviewItem
         /\ [item EXCEPT !.status = s, !.resolvedAt = now] # None
         /\ [item EXCEPT !.status = s].createdAt = item.createdAt
         /\ [item EXCEPT !.status = s, !.resolvedAt = now].createdAt = item.createdAt
BY ClearedAssumption DEF ReviewItem

LEMMA PrioritiesAreFour ==
  ASSUME NEW c
  PROVE  Review!calculatePriority(c) \in {"low", "medium", "high", "critical"}
BY DEF Review!calculatePriority

OpenItemsKept ==
  \A i \in Review!Items : queue[i].status \notin Review!Settled =>
    queue'[i] # None /\ queue'[i].createdAt = queue[i].createdAt

\* An item is changed in place.
LEMMA ItemChanges ==
  ASSUME ReviewInv, NEW i \in Review!Items, NEW s \in {"in-progress"} \cup Review!Settled, now' = now,
         \/ queue' = [queue EXCEPT ![i].status = s]
         \/ queue' = [queue EXCEPT ![i].status = s, ![i].resolvedAt = now]
  PROVE  ReviewInv' /\ OpenItemsKept
<1>1. i \in DOMAIN queue /\ queue[i] \in ReviewItem /\ now \in Nat
  BY DEF ReviewInv, Review!Items
<1> DEFINE plain == [queue[i] EXCEPT !.status = s]
           timed == [queue[i] EXCEPT !.status = s, !.resolvedAt = now]
<1>2. /\ plain \in ReviewItem /\ plain # None /\ plain.createdAt = queue[i].createdAt
      /\ timed \in ReviewItem /\ timed # None /\ timed.createdAt = queue[i].createdAt
  BY <1>1, ItemsStayItems
<1>3. queue' = [queue EXCEPT ![i] = plain] \/ queue' = [queue EXCEPT ![i] = timed]
  <2>1. CASE queue' = [queue EXCEPT ![i].status = s]
    BY <2>1
  <2>2. CASE queue' = [queue EXCEPT ![i].status = s, ![i].resolvedAt = now]
    BY <1>1, <2>2 DEF ReviewItem, ReviewInv
  <2> QED
    BY <2>1, <2>2
<1> HIDE DEF plain, timed
<1>4. PICK new \in ReviewItem : /\ queue' = [queue EXCEPT ![i] = new]
                                /\ new # None /\ new.createdAt = queue[i].createdAt
  BY <1>2, <1>3
<1>5. queue' \in Seq(ReviewItem \cup {None})
  BY <1>1, <1>4 DEF ReviewInv
<1>6. \A j \in DOMAIN queue : queue'[j] = IF j = i THEN new ELSE queue[j]
  BY <1>1, <1>4
<1> QED
  BY <1>1, <1>4, <1>5, <1>6 DEF ReviewInv, OpenItemsKept, Review!Items

LEMMA ReviewNextKeeps == ReviewInv /\ [Review!Next]_Review!queueVars => ReviewInv' /\ (OpenItemsKept \/ UNCHANGED Review!queueVars)
<1> SUFFICES ASSUME ReviewInv, [Review!Next]_Review!queueVars
             PROVE  ReviewInv' /\ (OpenItemsKept \/ UNCHANGED Review!queueVars)
  OBVIOUS
<1>1. ASSUME NEW c \in Conflicts, Review!AddToQueue(c) PROVE ReviewInv' /\ OpenItemsKept
  <2> DEFINE item == [status |-> "pending", priority |-> Review!calculatePriority(c),
                      createdAt |-> now, resolvedAt |-> None]
  <2>1. queue' = Append(queue, item) /\ now' = now
    BY <1>1 DEF Review!AddToQueue
  <2>2. item \in ReviewItem
    BY PrioritiesAreFour DEF ReviewInv, ReviewItem
  <2> HIDE DEF item
  <2>3. queue' \in Seq(ReviewItem \cup {None}) /\ \A i \in DOMAIN queue : queue'[i] = queue[i]
    BY <2>1, <2>2 DEF ReviewInv
  <2> QED
    BY <2>1, <2>3 DEF ReviewInv, OpenItemsKept, Review!Items
<1>2. ASSUME NEW i \in Review!Items, Review!AssignItem(i) PROVE ReviewInv' /\ OpenItemsKept
  BY <1>2, ItemChanges DEF Review!AssignItem
<1>3. ASSUME NEW i \in Review!Items, NEW v \in Decisions \cup {None}, Review!ResolveItem(i, v)
      PROVE  ReviewInv' /\ OpenItemsKept
  BY <1>3, ItemChanges DEF Review!ResolveItem, Review!Settled
<1>4. ASSUME NEW i \in Review!Items, Review!DismissItem(i) PROVE ReviewInv' /\ OpenItemsKept
  BY <1>4, ItemChanges DEF Review!DismissItem, Review!Settled
<1>5. CASE Review!ClearOldResolvedItems
  <2>1. /\ queue' = [i \in DOMAIN queue |-> IF i \in Review!Items /\ Review!Old(i) THEN None ELSE queue[i]]
        /\ now' = now
    BY <1>5 DEF Review!ClearOldResolvedItems
  <2>2. queue' \in Seq(ReviewItem \cup {None})
    BY <2>1 DEF ReviewInv
  <2>3. OpenItemsKept
    BY <2>1 DEF OpenItemsKept, Review!Old, Review!Items
  <2> QED
    BY <2>1, <2>2, <2>3 DEF ReviewInv
<1>6. CASE Review!Tick
  BY <1>6 DEF Review!Tick, ReviewInv, OpenItemsKept, Review!Items
<1>7. CASE UNCHANGED Review!queueVars
  BY <1>7 DEF Review!queueVars, ReviewInv
<1> QED
  BY <1>1, <1>2, <1>3, <1>4, <1>5, <1>6, <1>7 DEF Review!Next

\* Whatever the conflicts, the reviewers and the age at which the settled ones
\* are cleared: an open item is still there after any step, with its date.
THEOREM OpenItemsAreKept == ReviewSpec => OpenIsKept
<1>1. Review!Init => ReviewInv
  BY DEF Review!Init, ReviewInv
<1>2. ReviewInv /\ [Review!Next]_Review!queueVars => [OpenItemsKept]_Review!queueVars
  BY ReviewNextKeeps
<1>3. ReviewSpec => [][OpenItemsKept]_Review!queueVars
  BY <1>1, <1>2, ReviewNextKeeps, PTL DEF ReviewSpec
<1> QED
  BY <1>3 DEF OpenIsKept, Review!OpenIsKept, OpenItemsKept

-----------------------------------------------------------------------------
(* Zero trust: whatever happens in a session, only the making of a context    *)
(* makes it active.                                                           *)

TrustSpec == Trust!Init /\ [][Trust!Next]_Trust!vars

TrustSession(x) ==
  x = [isActive |-> x.isActive, riskScore |-> x.riskScore, startTime |-> x.startTime,
       lastActivity |-> x.lastActivity, ipAddress |-> x.ipAddress, events |-> x.events]

TrustInv ==
  /\ sessions = [s \in DOMAIN sessions |-> sessions[s]]
  /\ \A s \in DOMAIN sessions : TrustSession(sessions[s])
  /\ ActiveHasContext

\* An event neither begins nor ends a session.
LEMMA AddEventKeeps ==
  ASSUME NEW list, list = [s \in DOMAIN list |-> list[s]], \A s \in DOMAIN list : TrustSession(list[s]),
         NEW s, NEW type, NEW risk, NEW after, after = Trust!AddEvent(list, s, type, risk)
  PROVE  /\ after = [q \in DOMAIN after |-> after[q]]
         /\ DOMAIN after = DOMAIN list
         /\ \A q \in DOMAIN list : TrustSession(after[q]) /\ after[q].isActive = list[q].isActive
<1>1. CASE s \notin DOMAIN list
  BY <1>1 DEF Trust!AddEvent
<1>2. CASE s \in DOMAIN list
  <2> DEFINE x == list[s]
             score == IF type = "suspicious" \/ risk > 50 THEN Trust!Cap(x.riskScore + risk, 100) ELSE x.riskScore
             y == [isActive |-> x.isActive, riskScore |-> score, startTime |-> x.startTime,
                   lastActivity |-> now, ipAddress |-> x.ipAddress,
                   events |-> Append(x.events, [type |-> type, riskScore |-> risk])]
  <2>1. TrustSession(x)
    BY <1>2
  <2>2. after = [list EXCEPT ![s].events = Append(@, [type |-> type, riskScore |-> risk]),
                             ![s].lastActivity = now,
                             ![s].riskScore = IF type = "suspicious" \/ risk > 50 THEN Trust!Cap(@ + risk, 100) ELSE @]
    BY <1>2 DEF Trust!AddEvent
  <2>3. /\ after = [q \in DOMAIN after |-> after[q]] /\ DOMAIN after = DOMAIN list
        /\ \A q \in DOMAIN list : q # s => after[q] = list[q]
    BY <2>2
  <2>4. after[s] = y
    BY <1>2, <2>1, <2>2 DEF TrustSession
  <2>5. TrustSession(y) /\ y.isActive = x.isActive
    BY DEF TrustSession
  <2> HIDE DEF x, y
  <2> QED
    BY <1>2, <2>3, <2>4, <2>5 DEF x
<1> QED
  BY <1>1, <1>2

\* A step that makes no session active and loses no context of one that is.
LEMMA NoneIsActivated ==
  ASSUME TrustInv, sessions' = [s \in DOMAIN sessions' |-> sessions'[s]],
         \A s \in DOMAIN sessions' : /\ TrustSession(sessions'[s])
                                     /\ sessions'[s].isActive => \/ s \in DOMAIN sessions /\ sessions[s].isActive
                                                                     /\ (s \in DOMAIN contexts => s \in DOMAIN contexts')
                                                                 \/ s \in DOMAIN contexts'
  PROVE  TrustInv'
BY DEF TrustInv, ActiveHasContext, Trust!ActiveHasContext

LEMMA ContextsKeep ==
  ASSUME TrustInv, NEW s \in Session,
         \/ \E m \in Methods, ip \in Addresses, f \in Factors : Trust!CreateContext(s, m, ip, f)
         \/ \E m \in Methods, f \in Factors : Trust!UpdateContext(s, m, f)
         \/ Trust!RemoveContext(s)
  PROVE  TrustInv'
<1> USE DEF TrustInv
<1>1. ASSUME NEW m \in Methods, NEW ip \in Addresses, NEW f \in Factors, Trust!CreateContext(s, m, ip, f)
      PROVE  TrustInv'
  <2> DEFINE fresh == [isActive |-> TRUE, riskScore |-> 0, startTime |-> now, lastActivity |-> now,
                      ipAddress |-> ip, events |-> <<>>]
             list == Trust!With(sessions, s, fresh)
  <2>1. DOMAIN contexts' = DOMAIN contexts \cup {s} /\ sessions' = Trust!AddEvent(list, s, "login", 0)
    BY <1>1 DEF Trust!CreateContext, Trust!NewSession, Trust!With
  <2>2. TrustSession(fresh)
    BY DEF TrustSession
  <2>3. /\ list = [q \in DOMAIN list |-> list[q]] /\ DOMAIN list = DOMAIN sessions \cup {s}
        /\ list[s] = fresh /\ \A q \in DOMAIN sessions : q # s => list[q] = sessions[q]
    BY DEF Trust!With
  <2> HIDE DEF fresh, list
  <2>4. \A q \in DOMAIN list : TrustSession(list[q])
    BY <2>2, <2>3
  <2>5. /\ sessions' = [q \in DOMAIN sessions' |-> sessions'[q]]
        /\ DOMAIN sessions' = DOMAIN list
        /\ \A q \in DOMAIN list : TrustSession(sessions'[q]) /\ sessions'[q].isActive = list[q].isActive
    BY <2>1, <2>3, <2>4, AddEventKeeps
  <2> QED
    BY <2>1, <2>3, <2>5, NoneIsActivated
<1>2. ASSUME NEW m \in Methods, NEW f \in Factors, Trust!UpdateContext(s, m, f) PROVE TrustInv'
  <2>1. /\ DOMAIN contexts' = DOMAIN contexts \cup {s}
        /\ sessions' = IF s \in DOMAIN sessions /\ sessions[s].isActive
                       THEN [sessions EXCEPT ![s].lastActivity = now] ELSE sessions
    BY <1>2 DEF Trust!UpdateContext, Trust!With
  <2>2. /\ DOMAIN sessions' = DOMAIN sessions /\ sessions' = [q \in DOMAIN sessions' |-> sessions'[q]]
        /\ \A q \in DOMAIN sessions : q # s => sessions'[q] = sessions[q]
    BY <2>1
  <2>3. s \in DOMAIN sessions => TrustSession(sessions'[s]) /\ sessions'[s].isActive = sessions[s].isActive
    BY <2>1 DEF TrustSession
  <2> QED
    BY <2>1, <2>2, <2>3, NoneIsActivated
<1>3. ASSUME Trust!RemoveContext(s) PROVE TrustInv'
  <2> DEFINE list == [sessions EXCEPT ![s].isActive = FALSE]
  <2>1. /\ DOMAIN contexts' = DOMAIN contexts \ {s}
        /\ sessions' = IF s \in DOMAIN sessions THEN Trust!AddEvent(list, s, "logout", 0) ELSE sessions
    BY <1>3 DEF Trust!RemoveContext, Trust!Restrict
  <2>2. CASE s \in DOMAIN sessions
    <3>1. /\ list = [q \in DOMAIN list |-> list[q]] /\ DOMAIN list = DOMAIN sessions
          /\ \A q \in DOMAIN sessions : q # s => list[q] = sessions[q]
      OBVIOUS
    <3>2. TrustSession(list[s]) /\ ~list[s].isActive
      <4> DEFINE x == sessions[s]
      <4>1. TrustSession(x) /\ list[s] = [x EXCEPT !.isActive = FALSE]
        BY <2>2
      <4>2. list[s] = [isActive |-> FALSE, riskScore |-> x.riskScore, startTime |-> x.startTime,
                       lastActivity |-> x.lastActivity, ipAddress |-> x.ipAddress, events |-> x.events]
        BY <4>1 DEF TrustSession
      <4> HIDE DEF list, x
      <4> QED
        BY <4>2 DEF TrustSession
    <3> HIDE DEF list
    <3>3. \A q \in DOMAIN list : TrustSession(list[q])
      BY <3>1, <3>2
    <3>4. /\ sessions' = [q \in DOMAIN sessions' |-> sessions'[q]]
          /\ DOMAIN sessions' = DOMAIN list
          /\ \A q \in DOMAIN list : TrustSession(sessions'[q]) /\ sessions'[q].isActive = list[q].isActive
      BY <2>1, <2>2, <3>1, <3>3, AddEventKeeps
    <3> QED
      BY <2>1, <3>1, <3>2, <3>4, NoneIsActivated
  <2>3. CASE s \notin DOMAIN sessions
    BY <2>1, <2>3 DEF ActiveHasContext, Trust!ActiveHasContext
  <2> QED
    BY <2>2, <2>3
<1> QED
  BY <1>1, <1>2, <1>3

LEMMA TrustNextKeeps == TrustInv /\ [Trust!Next]_Trust!vars => TrustInv'
<1> SUFFICES ASSUME TrustInv, [Trust!Next]_Trust!vars PROVE TrustInv'
  OBVIOUS
<1> USE DEF TrustInv
<1>1. ASSUME UNCHANGED <<contexts, sessions>> PROVE TrustInv'
  BY <1>1 DEF ActiveHasContext, Trust!ActiveHasContext
<1>2. ASSUME NEW s \in Session, NEW e \in Events, Trust!RecordEvent(s, e) PROVE TrustInv'
  <2>1. UNCHANGED contexts /\ sessions' = Trust!AddEvent(sessions, s, e.type, e.riskScore)
    BY <1>2 DEF Trust!RecordEvent
  <2>2. /\ sessions' = [q \in DOMAIN sessions' |-> sessions'[q]]
        /\ DOMAIN sessions' = DOMAIN sessions
        /\ \A q \in DOMAIN sessions : TrustSession(sessions'[q]) /\ sessions'[q].isActive = sessions[q].isActive
    BY <2>1, AddEventKeeps
  <2> QED
    BY <2>1, <2>2, NoneIsActivated
<1>3. ASSUME Trust!Cleanup PROVE TrustInv'
  <2>1. PICK old : UNCHANGED contexts /\ sessions' = Trust!Restrict(sessions, DOMAIN sessions \ old)
    BY <1>3 DEF Trust!Cleanup
  <2>2. sessions' = [s \in DOMAIN sessions \ old |-> sessions[s]]
    BY <2>1 DEF Trust!Restrict
  <2> QED
    BY <2>1, <2>2, NoneIsActivated
<1>4. CASE \E s \in Session : Trust!EvaluateAccess(s) \/ Trust!AnalyzeBehavior(s)
  BY <1>1, <1>4 DEF Trust!EvaluateAccess, Trust!AnalyzeBehavior
<1>5. CASE \/ \E p \in Policies : Trust!AddPolicy(p)
           \/ \E p \in Policies \cup Trust!DefaultPolicies : Trust!RemovePolicy(p.id)
           \/ \E s \in Session, b \in Behaviours, hour \in Hours : Trust!RecordBehavior(s, b, hour)
           \/ Trust!Tick \/ UNCHANGED Trust!vars
  BY <1>1, <1>5 DEF Trust!AddPolicy, Trust!RemovePolicy, Trust!RecordBehavior, Trust!Tick, Trust!vars
<1> QED
  BY <1>2, <1>3, <1>4, <1>5, ContextsKeep DEF Trust!Next

\* For any sessions, events and policies: contexts and sessions, though two
\* managers keep them, agree on who is there.
THEOREM ActiveSessionsHaveContexts == TrustSpec => []ActiveHasContext
<1>1. Trust!Init => TrustInv
  BY DEF Trust!Init, TrustInv, ActiveHasContext, Trust!ActiveHasContext
<1>2. TrustInv => ActiveHasContext
  BY DEF TrustInv
<1> QED
  BY <1>1, <1>2, TrustNextKeeps, PTL DEF TrustSpec

-----------------------------------------------------------------------------
(* Gateways: what a gateway has begun and not counted as answered or failed   *)
(* is on its way.                                                             *)

GatesSpec == Gates!Init /\ [][Gates!Next]_Gates!gatewayVars

GateObject(x) ==
  /\ x = [config |-> x.config, limiters |-> x.limiters, cache |-> x.cache,
          total |-> x.total, successful |-> x.successful, failed |-> x.failed]
  /\ x.total \in Int /\ x.successful \in Int /\ x.failed \in Int

Balance(x) == x.total - x.successful - x.failed
Passes(r) == passing[r].stage \in {"authenticating", "forwarded"}
OnTheWay(o) == {r \in PassingRequest : passing[r].at = o /\ Passes(r)}

GateTypes ==
  /\ objects = [o \in 1..Len(objects) |-> objects[o]] /\ Len(objects) \in Nat
  /\ \A o \in DOMAIN objects : GateObject(objects[o])
  /\ \A g \in GatewayId : gateways[g] \in DOMAIN objects \cup {None}
  /\ passing = [r \in PassingRequest |-> passing[r]]
  /\ \A r \in PassingRequest : Passes(r) => passing[r].at \in DOMAIN objects

GatesInv == GateTypes /\ \A o \in DOMAIN objects : Balance(objects[o]) = Cardinality(OnTheWay(o))

LEMMA OnTheWayIsFinite == \A o : IsFiniteSet(OnTheWay(o)) /\ Cardinality(OnTheWay(o)) \in Nat
<1> SUFFICES ASSUME NEW o PROVE IsFiniteSet(OnTheWay(o)) /\ Cardinality(OnTheWay(o)) \in Nat
  OBVIOUS
<1>1. OnTheWay(o) \subseteq PassingRequest
  BY DEF OnTheWay
<1>2. IsFiniteSet(OnTheWay(o))
  BY <1>1, PassingAssumption, FS_Subset
<1> QED
  BY <1>2, FS_CardinalityType

LEMMA InitGatesInv == Gates!Init => GatesInv
BY DEF Gates!Init, GatesInv, GateTypes, Passes

\* A request is begun by a gateway, gets further with it or is done with: the
\* gateway's metrics change by as much as its requests.
LEMMA RequestPasses ==
  ASSUME GatesInv, NEW r \in PassingRequest, NEW o \in DOMAIN objects, NEW x, GateObject(x), NEW next, NEW what,
         objects' = [objects EXCEPT ![o] = x], gateways' = gateways,
         passing' = [passing EXCEPT ![r] = [stage |-> next, at |-> o, what |-> what]],
         Passes(r) => passing[r].at = o,
         Balance(x) = Balance(objects[o]) + (IF next \in {"authenticating", "forwarded"} THEN 1 ELSE 0)
                                    - (IF Passes(r) THEN 1 ELSE 0)
  PROVE  GatesInv'
<1> DEFINE stays == next \in {"authenticating", "forwarded"}
<1>1. /\ DOMAIN objects' = DOMAIN objects /\ Len(objects') = Len(objects) /\ objects'[o] = x
      /\ \A p \in DOMAIN objects : p # o => objects'[p] = objects[p]
  BY DEF GatesInv, GateTypes
<1>2. /\ passing' = [q \in PassingRequest |-> passing'[q]]
      /\ passing'[r] = [stage |-> next, at |-> o, what |-> what]
      /\ \A q \in PassingRequest : q # r => passing'[q] = passing[q]
  BY DEF GatesInv, GateTypes
<1>3. (Passes(r)' <=> stays) /\ passing'[r].at = o
  BY <1>2 DEF Passes
<1>4. GateTypes'
  <2>1. objects' = [p \in 1..Len(objects') |-> objects'[p]] /\ Len(objects') \in Nat
    BY <1>1 DEF GatesInv, GateTypes
  <2>2. \A p \in DOMAIN objects' : GateObject(objects'[p])
    BY <1>1 DEF GatesInv, GateTypes
  <2>3. \A g \in GatewayId : gateways'[g] \in DOMAIN objects' \cup {None}
    BY <1>1 DEF GatesInv, GateTypes
  <2>4. \A q \in PassingRequest : Passes(q)' => passing'[q].at \in DOMAIN objects'
    BY <1>1, <1>2, <1>3 DEF GatesInv, GateTypes, Passes
  <2> QED
    BY <1>2, <2>1, <2>2, <2>3, <2>4 DEF GateTypes, GateObject
<1>5. ASSUME NEW p \in DOMAIN objects, p # o PROVE Balance(objects'[p]) = Cardinality(OnTheWay(p)')
  <2>1. OnTheWay(p)' = OnTheWay(p)
    BY <1>2, <1>3, <1>5 DEF OnTheWay, Passes
  <2> QED
    BY <1>1, <1>5, <2>1 DEF GatesInv
<1>6. Balance(objects'[o]) = Cardinality(OnTheWay(o)')
  <2>1. /\ Balance(objects[o]) = Cardinality(OnTheWay(o)) /\ Cardinality(OnTheWay(o)) \in Nat
        /\ IsFiniteSet(OnTheWay(o))
    BY OnTheWayIsFinite DEF GatesInv
  <2>2. (r \in OnTheWay(o) <=> Passes(r)) /\ (r \in OnTheWay(o)' <=> stays)
    BY <1>3 DEF OnTheWay
  <2>3. \A q : q # r => (q \in OnTheWay(o)' <=> q \in OnTheWay(o))
    BY <1>2 DEF OnTheWay, Passes
  <2>4. CASE stays /\ ~Passes(r)
    <3>1. OnTheWay(o)' = OnTheWay(o) \cup {r}
      BY <2>2, <2>3, <2>4
    <3>2. Cardinality(OnTheWay(o)') = Cardinality(OnTheWay(o)) + 1
      BY <2>1, <2>2, <2>4, <3>1, FS_AddElement
    <3> QED
      BY <1>1, <2>1, <2>4, <3>2
  <2>5. CASE ~stays /\ Passes(r)
    <3>1. OnTheWay(o)' = OnTheWay(o) \ {r}
      BY <2>2, <2>3, <2>5
    <3>2. Cardinality(OnTheWay(o)') = Cardinality(OnTheWay(o)) - 1
      BY <2>1, <2>2, <2>5, <3>1, FS_RemoveElement
    <3> QED
      BY <1>1, <2>1, <2>5, <3>2
  <2>6. CASE stays <=> Passes(r)
    <3>1. OnTheWay(o)' = OnTheWay(o)
      BY <2>2, <2>3, <2>6
    <3> QED
      BY <1>1, <2>1, <2>6, <3>1
  <2> QED
    BY <2>4, <2>5, <2>6
<1> QED
  BY <1>1, <1>4, <1>5, <1>6 DEF GatesInv

\* What processRequest does with an object whose counters and settings are those
\* of x: it fails the request, answers it from the cache or sends it on.
LEMMA FailedPasses ==
  ASSUME GatesInv, NEW r \in PassingRequest, NEW o \in DOMAIN objects, NEW x, GateObject(x), NEW what,
         gateways' = gateways, Passes(r) => passing[r].at = o,
         Balance(x) = Balance(objects[o]) + 1 - (IF Passes(r) THEN 1 ELSE 0),
         Gates!Failed(r, o, x, what)
  PROVE  GatesInv'
<1>1. [x EXCEPT !.failed = @ + 1] = [config |-> x.config, limiters |-> x.limiters, cache |-> x.cache,
                                     total |-> x.total, successful |-> x.successful, failed |-> x.failed + 1]
  BY DEF GateObject
<1> DEFINE y == [x EXCEPT !.failed = @ + 1]
<1>2. GateObject(y) /\ Balance(y) = Balance(x) - 1
  BY <1>1 DEF GateObject, Balance
<1>3. objects' = [objects EXCEPT ![o] = y] /\ passing' = [passing EXCEPT ![r] = [stage |-> "error", at |-> o, what |-> what]]
  BY DEF Gates!Failed, Gates!Goes
<1>4. GateObject(objects[o]) /\ Balance(objects[o]) \in Int /\ Balance(x) \in Int
  BY DEF GatesInv, GateTypes, GateObject, Balance
<1>5. Balance(y) = Balance(objects[o]) + 0 - (IF Passes(r) THEN 1 ELSE 0)
  BY <1>2, <1>4
<1> HIDE DEF y
<1> QED
  BY <1>2, <1>3, <1>5, RequestPasses

LEMMA LookUpPasses ==
  ASSUME GatesInv, NEW r \in PassingRequest, NEW o \in DOMAIN objects, NEW x, GateObject(x), NEW what,
         gateways' = gateways, Passes(r) => passing[r].at = o,
         Balance(x) = Balance(objects[o]) + 1 - (IF Passes(r) THEN 1 ELSE 0),
         Gates!LookUp(r, o, x, what)
  PROVE  GatesInv'
<1>1. [x EXCEPT !.successful = @ + 1] = [config |-> x.config, limiters |-> x.limiters, cache |-> x.cache,
                                         total |-> x.total, successful |-> x.successful + 1, failed |-> x.failed]
  BY DEF GateObject
<1> DEFINE y == [x EXCEPT !.successful = @ + 1]
<1>2. GateObject(y) /\ Balance(y) = Balance(x) - 1
  BY <1>1 DEF GateObject, Balance
<1>3. GateObject(objects[o]) /\ Balance(objects[o]) \in Int /\ Balance(x) \in Int
  BY DEF GatesInv, GateTypes, GateObject, Balance
<1>4. \/ objects' = [objects EXCEPT ![o] = y] /\ passing' = [passing EXCEPT ![r] = [stage |-> "cached", at |-> o, what |-> what]]
      \/ objects' = [objects EXCEPT ![o] = x] /\ passing' = [passing EXCEPT ![r] = [stage |-> "forwarded", at |-> o, what |-> what]]
  BY DEF Gates!LookUp, Gates!Goes
<1>5. Balance(y) = Balance(objects[o]) + 0 - (IF Passes(r) THEN 1 ELSE 0)
  BY <1>2, <1>3
<1> HIDE DEF y
<1> QED
  BY <1>2, <1>4, <1>5, RequestPasses

LEMMA ProcessRequestKeeps ==
  ASSUME GatesInv, NEW r \in PassingRequest, NEW g \in GatewayId, NEW what, Gates!ProcessRequest(r, g, what)
  PROVE  GatesInv'
<1>1. ~Passes(r) /\ gateways' = gateways
  BY DEF Gates!ProcessRequest, Passes
<1>2. CASE gateways[g] = None
  <2>1. objects' = objects /\ passing' = [passing EXCEPT ![r] = [stage |-> "unknown", at |-> None, what |-> what]]
    BY <1>2 DEF Gates!ProcessRequest, Gates!Goes
  <2>2. passing' = [q \in PassingRequest |-> passing'[q]] /\ ~Passes(r)' /\ \A q \in PassingRequest \ {r} : passing'[q] = passing[q]
    BY <2>1 DEF GatesInv, GateTypes, Passes
  <2>3. \A o : OnTheWay(o)' = OnTheWay(o)
    BY <1>1, <2>2 DEF OnTheWay, Passes
  <2>4. GateTypes'
    BY <1>1, <2>1, <2>2 DEF GatesInv, GateTypes, GateObject, Passes
  <2> QED
    BY <2>1, <2>3, <2>4 DEF GatesInv
<1>3. CASE gateways[g] # None
  <2> DEFINE o == gateways[g]
             y == objects[o]
             begun == [objects[o] EXCEPT !.total = @ + 1]
             counted == [begun EXCEPT !.limiters = Gates!Counted(begun, what.ip)]
             through == IF begun.config.limited THEN counted ELSE begun
  <2>1. o \in DOMAIN objects /\ GateObject(y)
    BY <1>3 DEF GatesInv, GateTypes
  <2>2. begun = [config |-> y.config, limiters |-> y.limiters, cache |-> y.cache,
                 total |-> y.total + 1, successful |-> y.successful, failed |-> y.failed]
    BY <2>1 DEF GateObject
  <2>3. GateObject(begun) /\ Balance(begun) = Balance(y) + 1
    BY <2>1, <2>2 DEF GateObject, Balance
  <2>4. counted = [config |-> begun.config, limiters |-> Gates!Counted(begun, what.ip), cache |-> begun.cache,
                   total |-> begun.total, successful |-> begun.successful, failed |-> begun.failed]
    <3> HIDE DEF begun
    <3> QED
      BY <2>3 DEF GateObject
  <2>5. GateObject(counted) /\ Balance(counted) = Balance(begun)
    BY <2>3, <2>4 DEF GateObject, Balance
  <2>6. GateObject(through) /\ Balance(through) = Balance(y) + 1
    BY <2>3, <2>5
  <2>7. \/ Gates!Failed(r, o, begun, what)
        \/ objects' = [objects EXCEPT ![o] = through] /\ Gates!Goes(r, "authenticating", o, what)
        \/ Gates!LookUp(r, o, through, what)
    BY <1>3 DEF Gates!ProcessRequest
  <2>8. Balance(y) \in Int
    BY <2>1 DEF GateObject, Balance
  <2> HIDE DEF begun, counted, through
  <2>9. CASE Gates!Failed(r, o, begun, what)
    BY <1>1, <2>1, <2>3, <2>8, <2>9, FailedPasses
  <2>10. CASE objects' = [objects EXCEPT ![o] = through] /\ Gates!Goes(r, "authenticating", o, what)
    <3>1. passing' = [passing EXCEPT ![r] = [stage |-> "authenticating", at |-> o, what |-> what]]
      BY <2>10 DEF Gates!Goes
    <3>2. Balance(through) = Balance(objects[o]) + 1 - 0
      BY <2>6, <2>8
    <3> HIDE DEF o, y
    <3> QED
      BY <1>1, <2>1, <2>6, <2>10, <3>1, <3>2, RequestPasses
  <2>11. CASE Gates!LookUp(r, o, through, what)
    BY <1>1, <2>1, <2>6, <2>8, <2>11, LookUpPasses
  <2> QED
    BY <2>7, <2>9, <2>10, <2>11
<1> QED
  BY <1>2, <1>3

LEMMA AuthenticateKeeps ==
  ASSUME GatesInv, NEW r \in PassingRequest, Gates!Authenticate(r)
  PROVE  GatesInv'
<1> DEFINE o == passing[r].at
           what == passing[r].what
<1>1. Passes(r) /\ gateways' = gateways
  BY DEF Gates!Authenticate, Passes
<1>2. o \in DOMAIN objects /\ GateObject(objects[o]) /\ Balance(objects[o]) \in Int
  BY <1>1 DEF GatesInv, GateTypes, GateObject, Balance
<1>3. Gates!LookUp(r, o, objects[o], what) \/ Gates!Failed(r, o, objects[o], what)
  BY DEF Gates!Authenticate
<1> QED
  BY <1>1, <1>2, <1>3, LookUpPasses, FailedPasses

LEMMA AnsweredKeeps ==
  ASSUME GatesInv, NEW r \in PassingRequest, Gates!Answered(r)
  PROVE  GatesInv'
<1> DEFINE o == passing[r].at
           what == passing[r].what
           x == objects[o]
           y == [config |-> x.config, limiters |-> x.limiters,
                 cache |-> IF what.get THEN Gates!With(x.cache, what.key, now) ELSE x.cache,
                 total |-> x.total, successful |-> x.successful + 1, failed |-> x.failed]
<1>1. Passes(r) /\ gateways' = gateways
  BY DEF Gates!Answered, Passes
<1>2. o \in DOMAIN objects /\ GateObject(x) /\ Balance(x) \in Int
  BY <1>1 DEF GatesInv, GateTypes, GateObject, Balance
<1>3. /\ objects' = [objects EXCEPT ![o].cache = IF what.get THEN Gates!With(@, what.key, now) ELSE @,
                                    ![o].successful = @ + 1]
      /\ passing' = [passing EXCEPT ![r] = [stage |-> "answered", at |-> o, what |-> what]]
  BY DEF Gates!Answered, Gates!Goes
<1>4. objects' = [objects EXCEPT ![o] = y]
  <2>1. objects'[o] = y
    BY <1>2, <1>3 DEF GateObject
  <2>2. DOMAIN objects' = DOMAIN objects /\ \A p \in DOMAIN objects : p # o => objects'[p] = objects[p]
    BY <1>3
  <2>3. objects' = [p \in DOMAIN objects' |-> objects'[p]]
    BY <1>3
  <2> HIDE DEF y, o
  <2> QED
    BY <2>1, <2>2, <2>3
<1>5. GateObject(y) /\ Balance(y) = Balance(x) - 1
  BY <1>2 DEF GateObject, Balance
<1>6. Balance(y) = Balance(objects[o]) + 0 - (IF Passes(r) THEN 1 ELSE 0)
  BY <1>1, <1>2, <1>5
<1>7. passing' = [passing EXCEPT ![r] = [stage |-> "answered", at |-> o, what |-> what]]
  BY <1>3
<1> HIDE DEF x, y
<1> QED
  BY <1>1, <1>2, <1>4, <1>5, <1>6, <1>7, RequestPasses

\* Neither a new gateway nor the cleanup touches a counter.
LEMMA CreateGatewayKeeps ==
  ASSUME GatesInv, NEW g \in GatewayId, NEW config, Gates!CreateGateway(g, config)
  PROVE  GatesInv'
<1> DEFINE x == Gates!NewGateway(config)
           n == Len(objects) + 1
<1>1. passing' = passing /\ objects' = Append(objects, x) /\ gateways' = [gateways EXCEPT ![g] = n]
  BY DEF Gates!CreateGateway
<1>2. Len(objects) \in Nat /\ DOMAIN objects = 1..Len(objects)
  BY DEF GatesInv, GateTypes
<1>3. GateObject(x) /\ Balance(x) = 0
  BY DEF Gates!NewGateway, GateObject, Balance
<1> HIDE DEF x
<1>4. /\ Len(objects') = n /\ DOMAIN objects' = 1..n /\ objects' = [o \in 1..n |-> objects'[o]]
      /\ objects'[n] = x /\ \A o \in 1..Len(objects) : objects'[o] = objects[o]
  <2> DEFINE S == {objects[o] : o \in DOMAIN objects} \cup {x}
  <2>1. objects \in Seq(S)
    BY <1>2 DEF GatesInv, GateTypes
  <2>2. x \in S
    OBVIOUS
  <2> HIDE DEF S
  <2>3. objects' \in Seq(S) /\ Len(objects') = n /\ objects'[n] = x
        /\ \A o \in 1..Len(objects) : objects'[o] = objects[o]
    BY <1>1, <2>1, <2>2
  <2> QED
    BY <2>3
<1>5. GateTypes'
  BY <1>1, <1>2, <1>3, <1>4 DEF GatesInv, GateTypes, Passes
<1>6. \A o : OnTheWay(o)' = OnTheWay(o)
  BY <1>1 DEF OnTheWay, Passes
<1>7. OnTheWay(n) = {}
  BY <1>2 DEF OnTheWay, GatesInv, GateTypes
<1>8. Cardinality(OnTheWay(n)) = 0
  BY <1>7, FS_EmptySet
<1> QED
  BY <1>2, <1>3, <1>4, <1>5, <1>6, <1>8 DEF GatesInv

LEMMA CleanupKeeps ==
  ASSUME GatesInv, Gates!Cleanup
  PROVE  GatesInv'
<1>1. /\ passing' = passing /\ gateways' = gateways /\ DOMAIN objects' = DOMAIN objects
      /\ objects' = [o \in DOMAIN objects |-> objects'[o]]
  BY DEF Gates!Cleanup
<1>2. ASSUME NEW o \in DOMAIN objects PROVE GateObject(objects'[o]) /\ Balance(objects'[o]) = Balance(objects[o])
  <2>1. PICK limiters, cache : objects'[o] = objects[o] \/ objects'[o] = [objects[o] EXCEPT !.limiters = limiters, !.cache = cache]
    BY DEF Gates!Cleanup
  <2>2. GateObject(objects[o])
    BY DEF GatesInv, GateTypes
  <2> QED
    BY <2>1, <2>2 DEF GateObject, Balance
<1>3. GateTypes'
  BY <1>1, <1>2 DEF GatesInv, GateTypes, Passes
<1>4. \A o : OnTheWay(o)' = OnTheWay(o)
  BY <1>1 DEF OnTheWay, Passes
<1> QED
  BY <1>1, <1>2, <1>3, <1>4 DEF GatesInv

LEMMA GatesNextKeeps == GatesInv /\ [Gates!Next]_Gates!gatewayVars => GatesInv'
<1> SUFFICES ASSUME GatesInv, [Gates!Next]_Gates!gatewayVars PROVE GatesInv'
  OBVIOUS
<1>1. CASE Gates!Tick \/ UNCHANGED Gates!gatewayVars
  BY <1>1 DEF Gates!Tick, Gates!gatewayVars, GatesInv, GateTypes, GateObject, Passes, OnTheWay
<1> QED
  BY <1>1, ProcessRequestKeeps, AuthenticateKeeps, AnsweredKeeps, CreateGatewayKeeps, CleanupKeeps DEF Gates!Next

\* For any number of gateways and requests: no gateway loses or invents one.
THEOREM MetricsAddUp == GatesSpec => []EveryRequestIsCounted
<1>1. GatesInv => EveryRequestIsCounted
  <2> SUFFICES ASSUME GatesInv, NEW o \in DOMAIN objects
               PROVE  objects[o].total - objects[o].successful - objects[o].failed =
                        Cardinality({r \in PassingRequest : passing[r].at = o /\ passing[r].stage \in {"authenticating", "forwarded"}})
    <3>1. \A S : Gates!Cardinality(S) = Cardinality(S)
      BY DEF Gates!Cardinality, Cardinality
    <3> QED
      BY <3>1 DEF EveryRequestIsCounted, Gates!EveryRequestIsCounted
  <2>1. OnTheWay(o) = {r \in PassingRequest : passing[r].at = o /\ passing[r].stage \in {"authenticating", "forwarded"}}
    BY DEF OnTheWay, Passes
  <2> QED
    BY <2>1 DEF GatesInv, Balance
<1> QED
  BY <1>1, InitGatesInv, GatesNextKeeps, PTL DEF GatesSpec

-----------------------------------------------------------------------------
(* Start and shutdown: who has come past the queue has closed it, who has    *)
(* come past the pool has seen its last query end.                           *)

ServerSpec == Server!Init /\ [][Server!Next]_Server!lifecycleVars

AtWork == {"querying", "checking"}

ServerInv ==
  /\ served \in [ServedRequest -> {"none", "waiting", "answered", "refused"} \cup AtWork]
  /\ handlers \in [Handler -> {"none", "websocket", "queue", "queueClosing", "pool", "poolEnding", "limiter", "ended"}]
  /\ \A h \in Handler :
       /\ handlers[h] # "none" => starting = "running"
       /\ handlers[h] \in {"pool", "poolEnding", "limiter", "ended"} => jobQueue = "none"
       /\ handlers[h] = "poolEnding" => pool # "open"
       /\ handlers[h] \in {"limiter", "ended"} => pool = "ended"
  /\ pool = "ended" => \A r \in ServedRequest : served[r] \notin AtWork
  /\ ExitIsClean

LEMMA InitServerInv == Server!Init => ServerInv
BY DEF Server!Init, ServerInv, ExitIsClean, Server!ExitIsClean

LEMMA StartsKeep == ServerInv /\ Server!Starts => ServerInv'
<1> SUFFICES ASSUME ServerInv, Server!Starts PROVE ServerInv'
  OBVIOUS
<1> USE DEF ServerInv, ExitIsClean, Server!ExitIsClean, Server!At, Server!Goes, Server!GoesOrExits, Server!Exit
<1>1. CASE Server!InitializeJobQueue
  BY <1>1 DEF Server!InitializeJobQueue
<1>2. CASE Server!Listen
  BY <1>2 DEF Server!Listen
<1>3. CASE Server!ValidateConfig \/ Server!Connect \/ Server!Services
  BY <1>3 DEF Server!ValidateConfig, Server!Connect, Server!Services
<1>4. CASE Server!Database("schema", "limiter") \/ Server!Database("seed", "listen")
  BY <1>4 DEF Server!Database
<1>5. CASE Server!InitializeRateLimiter \/ Server!InitializeRedisAgain
  BY <1>5 DEF Server!InitializeRateLimiter, Server!InitializeRedisAgain
<1> QED
  BY <1>1, <1>2, <1>3, <1>4, <1>5 DEF Server!Starts

LEMMA ServingKeeps ==
  ASSUME ServerInv,
         \/ Server!Querying
         \/ \E r \in ServedRequest : Server!Arrive(r)
         \/ \E r \in ServedRequest, kind \in AtWork : Server!BeginQuery(r, kind)
  PROVE  ServerInv'
<1> USE DEF ServerInv, ExitIsClean, Server!ExitIsClean, Server!Running, Server!Becomes, Server!server, AtWork
<1>1. CASE Server!Querying
  BY <1>1 DEF Server!Querying, Server!EndQuery
<1>2. ASSUME NEW r \in ServedRequest, Server!Arrive(r) PROVE ServerInv'
  BY <1>2 DEF Server!Arrive
<1>3. ASSUME NEW r \in ServedRequest, NEW kind \in AtWork, Server!BeginQuery(r, kind) PROVE ServerInv'
  BY <1>3 DEF Server!BeginQuery
<1> QED
  BY <1>1, <1>2, <1>3

LEMMA HandlingKeeps == ServerInv /\ Server!Handling => ServerInv'
<1> SUFFICES ASSUME ServerInv, Server!Handling PROVE ServerInv'
  OBVIOUS
<1> USE DEF ServerInv, ExitIsClean, Server!ExitIsClean, Server!Handles, Server!Reaches
<1>1. ASSUME NEW h \in Handler, Server!CloseWebSocket(h) PROVE ServerInv'
  BY <1>1 DEF Server!CloseWebSocket
<1>2. ASSUME NEW h \in Handler, Server!CloseJobQueue(h) PROVE ServerInv'
  BY <1>2 DEF Server!CloseJobQueue
<1>3. ASSUME NEW h \in Handler, Server!JobQueueClosed(h) PROVE ServerInv'
  BY <1>3 DEF Server!JobQueueClosed, Server!Exit
<1>4. ASSUME NEW h \in Handler, Server!Disconnect(h) PROVE ServerInv'
  BY <1>4 DEF Server!Disconnect, Server!Exit
<1>5. ASSUME NEW h \in Handler, Server!Disconnected(h) PROVE ServerInv'
  BY <1>5 DEF Server!Disconnected, AtWork
<1>6. ASSUME NEW h \in Handler, Server!CleanupRateLimiter(h) PROVE ServerInv'
  BY <1>6 DEF Server!CleanupRateLimiter, Server!Exit, AtWork
<1> QED
  BY <1>1, <1>2, <1>3, <1>4, <1>5, <1>6 DEF Server!Handling

LEMMA ServerNextKeeps == ServerInv /\ [Server!Next]_Server!lifecycleVars => ServerInv'
<1> SUFFICES ASSUME ServerInv, [Server!Next]_Server!lifecycleVars PROVE ServerInv'
  OBVIOUS
<1>1. ASSUME NEW h \in Handler, Server!Signal(h) PROVE ServerInv'
  BY <1>1 DEF Server!Signal, Server!Exit, Server!server, ServerInv, ExitIsClean, Server!ExitIsClean
<1>2. CASE UNCHANGED Server!lifecycleVars
  BY <1>2 DEF Server!lifecycleVars, ServerInv, ExitIsClean, Server!ExitIsClean
<1> QED
  BY <1>1, <1>2, StartsKeep, ServingKeeps, HandlingKeeps DEF Server!Next, AtWork

\* For any number of requests, signals and attempts to connect: graceful
\* shutdown is graceful, whichever of its runs gets to the exit.
THEOREM GracefulExitIsClean == ServerSpec => []ExitIsClean
<1>1. ServerInv => ExitIsClean
  BY DEF ServerInv
<1> QED
  BY <1>1, InitServerInv, ServerNextKeeps, PTL DEF ServerSpec

-----------------------------------------------------------------------------
(* Rate limiting: while a record is still to be rewritten nobody is promised *)
(* anything of it, and it is rewritten once.                                 *)

LimitsSpec == Limits!Init /\ [][Limits!Next]_Limits!limitVars

Underway == [at : {"consuming", "blocking"}, key : Limits!Key, limit : Limit]
LimitedStates == [at : {"none", "passed", "refused", "unavailable"}] \cup Underway
Waits(r, k) == limited[r].at \in {"consuming", "blocking"} /\ limited[r].key = k

LimitTypes ==
  /\ now \in Nat
  /\ tiers \in [User -> Tier \cup {None}]
  /\ records \in [Limits!Key -> LimitRecord \cup {None}]
  /\ limited \in [LimitedRequest -> LimitedStates]
  /\ promised \in [Limits!Key -> Promise \cup {None}]

\* One limiter counts under the key, of which the route says the points.
Alone(k) == \A a, b \in Routes : a.path = k[2] /\ b.path = k[2] => a = b /\ a.points # None

\* The requests of a key go by the points of a route.
LimitIsOfRoute(k) ==
  \A r \in LimitedRequest : Waits(r, k) => \E a \in Routes : a.path = k[2] /\ (Alone(k) => limited[r].limit.points = a.points)

\* A record is of the past and not over; so is the one a promise is about,
\* unless it is gone.
RecordIsOn(k) == records[k] # None => records[k].began <= now /\ records[k].expires > now
PromiseIsOld(k) ==
  promised[k] # None => \/ promised[k].began < now
                        \/ records[k] # None /\ records[k].began = promised[k].began

\* What is promised of the record there is holds, and stays: the record is past
\* its points and nobody is to rewrite it.
PromiseHolds(k) ==
  Alone(k) /\ records[k] # None /\ promised[k] # None /\ records[k].began = promised[k].began =>
    /\ records[k].expires <= promised[k].come
    /\ \A r \in LimitedRequest : Waits(r, k) => limited[r].at # "blocking"
    /\ \A a \in Routes : a.path = k[2] => records[k].consumed > a.points

KeyInv(k) == LimitIsOfRoute(k) /\ RecordIsOn(k) /\ PromiseIsOld(k) /\ PromiseHolds(k)
LimitsInv == LimitTypes /\ \A k \in Limits!Key : KeyInv(k)

\* Whole seconds, rounded up, are not less than the time they stand for.
LEMMA SecondsCover ==
  ASSUME NEW n \in Nat, NEW e \in Nat, e > n, NEW s \in Nat \ {0}
  PROVE  LET come == n + ((e - n + s - 1) \div s) * s IN come \in Nat /\ come >= e
<1> DEFINE x == e - n + s - 1
           q == x \div s
<1>1. x \in Nat /\ x = e - n + s - 1
  OBVIOUS
<1> HIDE DEF x
<1>2. q \in Nat /\ (q + 1) * s > x
  BY <1>1
<1> HIDE DEF q
<1>3. q * s \in Nat /\ (q + 1) * s = q * s + s
  BY <1>2
<1>4. n + q * s \in Nat /\ n + q * s >= e
  BY <1>1, <1>2, <1>3
<1> QED
  BY <1>4 DEF q, x

LEMMA SecondsLast ==
  ASSUME NEW d \in Nat \ {0}, NEW s \in Nat \ {0}
  PROVE  d * s \in Nat \ {0}
OBVIOUS

LEMMA InitLimitsInv == Limits!Init => LimitsInv
<1> SUFFICES ASSUME Limits!Init PROVE LimitsInv
  OBVIOUS
<1> USE DEF Limits!Init, Limits!Idle
<1>1. LimitTypes
  BY DEF LimitTypes, LimitedStates
<1>2. \A k \in Limits!Key : KeyInv(k)
  BY DEF KeyInv, LimitIsOfRoute, RecordIsOn, PromiseIsOld, PromiseHolds, Waits
<1> QED
  BY <1>1, <1>2 DEF LimitsInv

\* What a step leaves alone keeps its invariant: some requests stop to wait for
\* the key, others begin to.
LEMMA KeyUntouched ==
  ASSUME NEW k \in Limits!Key, KeyInv(k), records'[k] = records[k], promised'[k] = promised[k], now' = now,
         \A r \in LimitedRequest : Waits(r, k)' =>
           \/ Waits(r, k) /\ limited'[r].limit = limited[r].limit /\ limited'[r].at = limited[r].at
           \/ /\ limited'[r].at = "consuming"
              /\ \E a \in Routes : a.path = k[2] /\ (Alone(k) => limited'[r].limit.points = a.points)
  PROVE  KeyInv(k)'
<1> USE DEF KeyInv
<1>1. LimitIsOfRoute(k)'
  <2> SUFFICES ASSUME NEW r \in LimitedRequest, Waits(r, k)'
               PROVE  \E a \in Routes : a.path = k[2] /\ (Alone(k) => limited'[r].limit.points = a.points)
    BY DEF LimitIsOfRoute, Alone
  <2>1. CASE Waits(r, k) /\ limited'[r].limit = limited[r].limit
    BY <2>1 DEF LimitIsOfRoute
  <2> QED
    BY <2>1
<1>2. RecordIsOn(k)' /\ PromiseIsOld(k)'
  BY DEF RecordIsOn, PromiseIsOld
<1>3. PromiseHolds(k)'
  <2> SUFFICES ASSUME Alone(k), records'[k] # None, promised'[k] # None, records'[k].began = promised'[k].began
               PROVE  /\ records'[k].expires <= promised'[k].come
                      /\ \A r \in LimitedRequest : Waits(r, k)' => limited'[r].at # "blocking"
                      /\ \A a \in Routes : a.path = k[2] => records'[k].consumed > a.points
    BY DEF PromiseHolds, Alone
  <2>1. /\ records[k].expires <= promised[k].come
        /\ \A r \in LimitedRequest : Waits(r, k) => limited[r].at # "blocking"
        /\ \A a \in Routes : a.path = k[2] => records[k].consumed > a.points
    BY DEF PromiseHolds
  <2> QED
    BY <2>1
<1> QED
  BY <1>1, <1>2, <1>3

LEMMA LimitIsALimit ==
  ASSUME LimitTypes, NEW u \in User, NEW a \in Routes
  PROVE  /\ Limits!Limit(a, u) \in Limit
         /\ a.points # None => Limits!Limit(a, u).points = a.points
<1>1. CASE a.points # None
  BY <1>1, LimitsAssumption DEF Limits!Limit, Limit
<1>2. CASE a.points = None
  BY <1>2, LimitsAssumption DEF Limits!Limit, Limit, LimitTypes
<1> QED
  BY <1>1, <1>2

\* A request arrives, or is done with.
LEMMA ReceiveKeeps ==
  ASSUME LimitsInv, NEW r \in LimitedRequest, NEW u \in User, NEW a \in Routes, Limits!Receive(r, u, a)
  PROVE  LimitsInv'
<1>1. UNCHANGED <<now, tiers, client, records, promised>>
  BY DEF Limits!Receive
<1>2. PICK new : limited' = [limited EXCEPT ![r] = new] /\
        \/ new \in [at : {"none", "passed", "refused", "unavailable"}]
        \/ new = [at |-> "consuming", key |-> <<u, a.path>>, limit |-> Limits!Limit(a, u)]
  <2>1. CASE ~client
    <3>1. limited' = [limited EXCEPT ![r] = [at |-> IF FailPolicy = "closed" THEN "unavailable" ELSE "passed"]]
      BY <2>1 DEF Limits!Receive
    <3>2. [at |-> IF FailPolicy = "closed" THEN "unavailable" ELSE "passed"] \in [at : {"none", "passed", "refused", "unavailable"}]
      OBVIOUS
    <3> QED
      BY <3>1, <3>2
  <2>2. CASE client
    <3>1. limited' = [limited EXCEPT ![r] = [at |-> "consuming", key |-> <<u, a.path>>, limit |-> Limits!Limit(a, u)]]
      BY <2>2 DEF Limits!Receive
    <3> QED
      BY <3>1
  <2> QED
    BY <2>1, <2>2
<1>3. new \in LimitedStates
  <2>1. CASE new = [at |-> "consuming", key |-> <<u, a.path>>, limit |-> Limits!Limit(a, u)]
    <3>1. <<u, a.path>> \in Limits!Key /\ Limits!Limit(a, u) \in Limit
      BY LimitIsALimit, LimitsAssumption DEF LimitsInv, Limits!Key
    <3> QED
      BY <2>1, <3>1 DEF LimitedStates, Underway
  <2> QED
    BY <1>2, <2>1 DEF LimitedStates
<1>4. LimitTypes'
  BY <1>1, <1>2, <1>3 DEF LimitsInv, LimitTypes
<1>5. ASSUME NEW k \in Limits!Key PROVE KeyInv(k)'
  <2>1. ASSUME NEW q \in LimitedRequest, Waits(q, k)'
        PROVE  \/ Waits(q, k) /\ limited'[q].limit = limited[q].limit /\ limited'[q].at = limited[q].at
               \/ /\ limited'[q].at = "consuming"
                  /\ \E b \in Routes : b.path = k[2] /\ (Alone(k) => limited'[q].limit.points = b.points)
    <3>1. CASE q # r
      BY <1>2, <2>1, <3>1 DEF Waits, LimitsInv, LimitTypes
    <3>2. CASE q = r
      <4>1. limited'[q] = new
        BY <1>2, <3>2 DEF LimitsInv, LimitTypes
      <4>2. new = [at |-> "consuming", key |-> <<u, a.path>>, limit |-> Limits!Limit(a, u)] /\ <<u, a.path>> = k
        BY <1>2, <2>1, <4>1 DEF Waits
      <4>3. a.path = k[2] /\ (Alone(k) => Limits!Limit(a, u).points = a.points)
        BY <4>2, LimitIsALimit DEF Alone, LimitsInv
      <4> QED
        BY <4>1, <4>2, <4>3
    <3> QED
      BY <3>1, <3>2
  <2> QED
    BY <1>1, <2>1, KeyUntouched DEF LimitsInv
<1> QED
  BY <1>4, <1>5 DEF LimitsInv

LEMMA ConsumeFailsKeeps ==
  ASSUME LimitsInv, NEW r \in LimitedRequest, Limits!ConsumeFails(r)
  PROVE  LimitsInv'
<1>1. limited' = [limited EXCEPT ![r] = [at |-> "passed"]] /\ UNCHANGED <<now, tiers, client, records, promised>>
  BY DEF Limits!ConsumeFails
<1>2. LimitTypes'
  BY <1>1 DEF LimitsInv, LimitTypes, LimitedStates
<1>3. ASSUME NEW k \in Limits!Key PROVE KeyInv(k)'
  <2>1. \A q \in LimitedRequest : Waits(q, k)' =>
          Waits(q, k) /\ limited'[q].limit = limited[q].limit /\ limited'[q].at = limited[q].at
    BY <1>1 DEF Waits, LimitsInv, LimitTypes
  <2> QED
    BY <1>1, <2>1, KeyUntouched DEF LimitsInv
<1> QED
  BY <1>2, <1>3 DEF LimitsInv

LEMMA TierAndTimeKeep ==
  ASSUME LimitsInv,
         \/ \E u \in User, t \in Tier : Limits!ChangeTier(u, t)
         \/ Limits!Tick
         \/ UNCHANGED Limits!limitVars
  PROVE  LimitsInv'
<1>1. CASE (\E u \in User, t \in Tier : Limits!ChangeTier(u, t)) \/ UNCHANGED Limits!limitVars
  <2>1. UNCHANGED <<now, records, limited, promised>> /\ tiers' \in [User -> Tier \cup {None}]
    BY <1>1 DEF Limits!ChangeTier, Limits!limitVars, LimitsInv, LimitTypes
  <2>2. LimitTypes'
    BY <2>1 DEF LimitsInv, LimitTypes
  <2>3. ASSUME NEW k \in Limits!Key PROVE KeyInv(k)'
    <3>1. \A q \in LimitedRequest : Waits(q, k)' =>
            Waits(q, k) /\ limited'[q].limit = limited[q].limit /\ limited'[q].at = limited[q].at
      BY <2>1 DEF Waits
    <3> QED
      BY <2>1, <3>1, KeyUntouched DEF LimitsInv
  <2> QED
    BY <2>2, <2>3 DEF LimitsInv
<1>2. CASE Limits!Tick
  <2>1. /\ now' = now + 1 /\ now \in Nat /\ UNCHANGED <<tiers, limited, promised>>
        /\ records' = [k \in Limits!Key |-> IF records[k] # None /\ records[k].expires <= now' THEN None ELSE records[k]]
    BY <1>2 DEF Limits!Tick, LimitsInv, LimitTypes
  <2>2. LimitTypes'
    BY <2>1 DEF LimitsInv, LimitTypes
  <2>3. ASSUME NEW k \in Limits!Key PROVE KeyInv(k)'
    <3>1. /\ records'[k] = IF records[k] # None /\ records[k].expires <= now' THEN None ELSE records[k]
          /\ KeyInv(k) /\ records[k] \in LimitRecord \cup {None} /\ promised[k] \in Promise \cup {None}
      BY <2>1 DEF LimitsInv, LimitTypes
    <3>2. LimitIsOfRoute(k)'
      BY <2>1, <3>1 DEF KeyInv, LimitIsOfRoute, Waits, Alone
    <3>3. RecordIsOn(k)'
      BY <2>1, <3>1 DEF KeyInv, RecordIsOn, LimitRecord
    <3>4. PromiseIsOld(k)'
      BY <2>1, <3>1 DEF KeyInv, PromiseIsOld, RecordIsOn, LimitRecord, Promise
    <3>5. PromiseHolds(k)'
      BY <2>1, <3>1 DEF KeyInv, PromiseHolds, Waits, Alone
    <3> QED
      BY <3>2, <3>3, <3>4, <3>5 DEF KeyInv
  <2> QED
    BY <2>2, <2>3 DEF LimitsInv
<1> QED
  BY <1>1, <1>2

\* A request that leaves the record of its key, refused, is promised when the
\* record will be gone, if nobody else is to rewrite it.
Refusal(r, k, record) ==
  /\ limited' = [limited EXCEPT ![r] = [at |-> "refused"]]
  /\ promised' = IF \E q \in LimitedRequest \ {r} : limited[q].at = "blocking" /\ limited[q].key = k THEN promised
                 ELSE [promised EXCEPT ![k] = [come |-> now + Limits!RetryAfter(record.expires) * Second,
                                               began |-> record.began]]

LEMMA RefuseIsRefusal ==
  ASSUME NEW r \in LimitedRequest, NEW record, Limits!Refuse(r, record)
  PROVE  Refusal(r, limited[r].key, record)
BY DEF Limits!Refuse, Refusal

LEMMA RetryAfterCovers ==
  ASSUME now \in Nat, NEW e \in Nat, e > now
  PROVE  /\ now + Limits!RetryAfter(e) * Second \in Nat
         /\ now + Limits!RetryAfter(e) * Second >= e
BY SecondsCover, LimitsAssumption DEF Limits!RetryAfter

\* The other keys see nothing of a step that is about one.
LEMMA OtherKeyKeeps ==
  ASSUME LimitsInv, NEW r \in LimitedRequest, NEW k \in Limits!Key, k # limited[r].key, now' = now,
         records'[k] = records[k], promised'[k] = promised[k],
         \A q \in LimitedRequest \ {r} : limited'[q] = limited[q],
         Waits(r, k)' => limited'[r].key = limited[r].key
  PROVE  KeyInv(k)'
<1>1. \A q \in LimitedRequest : Waits(q, k)' =>
        Waits(q, k) /\ limited'[q].limit = limited[q].limit /\ limited'[q].at = limited[q].at
  BY DEF Waits
<1> QED
  BY <1>1, KeyUntouched DEF LimitsInv

\* Whoever is refused rewrote the record or found it past its points.
LEMMA RefusalKeeps ==
  ASSUME LimitsInv, NEW r \in LimitedRequest, NEW k \in Limits!Key, Waits(r, k), now' = now, UNCHANGED tiers,
         NEW record \in LimitRecord, record.began <= now, record.expires > now,
         record.consumed > limited[r].limit.points,
         records' = [records EXCEPT ![k] = record],
         records[k] # None => record.began = records[k].began,
         records[k] = None => record.began = now,
         Refusal(r, k, record)
  PROVE  LimitsInv'
<1> DEFINE come == now + Limits!RetryAfter(record.expires) * Second
           more == \E q \in LimitedRequest \ {r} : limited[q].at = "blocking" /\ limited[q].key = k
<1>1. limited' = [limited EXCEPT ![r] = [at |-> "refused"]]
  BY DEF Refusal
<1>2. promised' = IF more THEN promised ELSE [promised EXCEPT ![k] = [come |-> come, began |-> record.began]]
  BY DEF Refusal
<1>3. come \in Nat /\ come >= record.expires
  BY RetryAfterCovers DEF LimitsInv, LimitTypes, LimitRecord
<1> HIDE DEF come, more
<1>4. LimitTypes'
  <2>1. now' \in Nat /\ tiers' \in [User -> Tier \cup {None}] /\ records' \in [Limits!Key -> LimitRecord \cup {None}]
    BY DEF LimitsInv, LimitTypes
  <2>2. limited' \in [LimitedRequest -> LimitedStates]
    BY <1>1 DEF LimitsInv, LimitTypes, LimitedStates
  <2>3. [come |-> come, began |-> record.began] \in Promise
    BY <1>3 DEF Promise, LimitRecord
  <2>4. promised' \in [Limits!Key -> Promise \cup {None}]
    BY <1>2, <2>3 DEF LimitsInv, LimitTypes
  <2> QED
    BY <2>1, <2>2, <2>4 DEF LimitTypes
<1>5. \A q \in LimitedRequest \ {r} : limited'[q] = limited[q]
  BY <1>1 DEF LimitsInv, LimitTypes
<1>6. limited'[r] = [at |-> "refused"]
  BY <1>1 DEF LimitsInv, LimitTypes
<1>7. ASSUME NEW j \in Limits!Key, j # k PROVE KeyInv(j)'
  <2>1. records'[j] = records[j] /\ promised'[j] = promised[j]
    BY <1>2, <1>7 DEF LimitsInv, LimitTypes
  <2>2. j # limited[r].key /\ ~Waits(r, j)'
    BY <1>6, <1>7 DEF Waits
  <2> QED
    BY <1>5, <2>1, <2>2, OtherKeyKeeps
<1>8. KeyInv(k) /\ records[k] \in LimitRecord \cup {None} /\ promised[k] \in Promise \cup {None} /\ now \in Nat
  BY DEF LimitsInv, LimitTypes
<1>9. records'[k] = record /\ record # None
  BY NoRecordAssumption DEF LimitsInv, LimitTypes
<1>10. \A q \in LimitedRequest : Waits(q, k)' => q # r /\ Waits(q, k) /\ limited'[q] = limited[q]
  BY <1>5, <1>6 DEF Waits
<1>11. LimitIsOfRoute(k)'
  BY <1>8, <1>10 DEF KeyInv, LimitIsOfRoute, Alone
<1>12. RecordIsOn(k)'
  BY <1>9 DEF RecordIsOn
<1>13. Alone(k) => \A a \in Routes : a.path = k[2] => record.consumed > a.points
  <2> SUFFICES ASSUME Alone(k), NEW a \in Routes, a.path = k[2] PROVE record.consumed > a.points
    OBVIOUS
  <2>1. PICK b \in Routes : b.path = k[2] /\ limited[r].limit.points = b.points
    BY <1>8 DEF KeyInv, LimitIsOfRoute
  <2>2. b = a
    BY <2>1 DEF Alone
  <2> QED
    BY <2>1, <2>2
<1>14. ASSUME more PROVE KeyInv(k)'
  <2>1. promised'[k] = promised[k]
    BY <1>2, <1>14
  <2>2. PromiseIsOld(k)'
    BY <1>8, <1>9, <2>1 DEF KeyInv, PromiseIsOld
  <2>3. PromiseHolds(k)'
    <3>1. PICK q \in LimitedRequest \ {r} : limited[q].at = "blocking" /\ limited[q].key = k
      BY <1>14 DEF more
    <3>2. Waits(q, k)
      BY <3>1 DEF Waits
    <3>3. ~(Alone(k) /\ promised[k] # None /\ record.began = promised[k].began)
      BY <1>8, <3>1, <3>2 DEF KeyInv, PromiseHolds, PromiseIsOld, Promise
    <3> QED
      BY <1>9, <2>1, <3>3 DEF PromiseHolds, Alone
  <2> QED
    BY <1>11, <1>12, <2>2, <2>3 DEF KeyInv
<1>15. ASSUME ~more PROVE KeyInv(k)'
  <2>1. promised'[k] = [come |-> come, began |-> record.began]
    BY <1>2, <1>15 DEF LimitsInv, LimitTypes
  <2>2. PromiseIsOld(k)'
    BY <1>9, <2>1 DEF PromiseIsOld
  <2>3. \A q \in LimitedRequest : Waits(q, k)' => limited'[q].at # "blocking"
    BY <1>10, <1>15 DEF more, Waits
  <2>4. PromiseHolds(k)'
    BY <1>3, <1>9, <1>13, <2>1, <2>3 DEF PromiseHolds, Alone
  <2> QED
    BY <1>11, <1>12, <2>2, <2>4 DEF KeyInv
<1> QED
  BY <1>4, <1>7, <1>14, <1>15 DEF LimitsInv

LEMMA ConsumeKeeps ==
  ASSUME LimitsInv, NEW r \in LimitedRequest, Limits!Consume(r)
  PROVE  LimitsInv'
<1>0. PICK k, limit, record :
        /\ k = limited[r].key /\ limit = limited[r].limit
        /\ record = IF records[k] = None
                    THEN [consumed |-> 1, began |-> now, expires |-> now + limit.duration * Second]
                    ELSE [records[k] EXCEPT !.consumed = @ + 1]
  OBVIOUS
<1>1. limited[r] \in Underway /\ limited[r].at = "consuming"
  BY DEF Limits!Consume, LimitsInv, LimitTypes, LimitedStates
<1>2. k \in Limits!Key /\ limit \in Limit /\ Waits(r, k)
  BY <1>0, <1>1 DEF Underway, Waits
<1>3. now' = now /\ UNCHANGED tiers /\ records' = [records EXCEPT ![k] = record]
  BY <1>0 DEF Limits!Consume
<1>4. now \in Nat /\ KeyInv(k) /\ records[k] \in LimitRecord \cup {None} /\ promised[k] \in Promise \cup {None}
  BY <1>2 DEF LimitsInv, LimitTypes
<1>5. limit.duration * Second \in Nat \ {0} /\ limit.points \in Nat
  BY <1>2, SecondsLast, LimitsAssumption DEF Limit
<1>6. /\ record \in LimitRecord /\ record.began <= now /\ record.expires > now
      /\ records[k] # None => record.began = records[k].began /\ record.expires = records[k].expires
                             /\ record.consumed = records[k].consumed + 1
      /\ records[k] = None => record.began = now
  <2>1. CASE records[k] = None
    <3>1. record = [consumed |-> 1, began |-> now, expires |-> now + limit.duration * Second]
      BY <1>0, <2>1
    <3> QED
      BY <1>4, <1>5, <2>1, <3>1 DEF LimitRecord
  <2>2. CASE records[k] # None
    <3>1. record = [records[k] EXCEPT !.consumed = @ + 1] /\ records[k] \in LimitRecord
      BY <1>0, <1>4, <2>2
    <3> QED
      BY <1>4, <2>2, <3>1 DEF LimitRecord, KeyInv, RecordIsOn
  <2> QED
    BY <2>1, <2>2
<1>7. limit.points \in Nat /\ record.consumed \in Nat
  BY <1>5, <1>6 DEF LimitRecord
<1>8. \/ /\ record.consumed <= limit.points
         /\ limited' = [limited EXCEPT ![r] = [at |-> "passed"]] /\ UNCHANGED promised
      \/ /\ record.consumed = limit.points + 1
         /\ limited' = [limited EXCEPT ![r].at = "blocking"] /\ UNCHANGED promised
      \/ record.consumed > limit.points + 1 /\ Limits!Refuse(r, record)
  BY <1>0 DEF Limits!Consume
<1>9. CASE record.consumed > limit.points + 1
  <2>1. Limits!Refuse(r, record)
    BY <1>7, <1>8, <1>9
  <2>2. Refusal(r, k, record)
    BY <1>0, <2>1, RefuseIsRefusal
  <2>3. record.consumed > limited[r].limit.points
    BY <1>0, <1>7, <1>9
  <2> QED
    BY <1>2, <1>3, <1>6, <2>2, <2>3, RefusalKeeps
<1>10. CASE record.consumed <= limit.points + 1
  <2>1. PICK new : /\ limited' = [limited EXCEPT ![r] = new] /\ UNCHANGED promised
                   /\ \/ new = [at |-> "passed"]
                      \/ new = [limited[r] EXCEPT !.at = "blocking"]
    <3>1. CASE record.consumed <= limit.points
      <4>1. limited' = [limited EXCEPT ![r] = [at |-> "passed"]] /\ UNCHANGED promised
        BY <1>7, <1>8, <3>1
      <4> QED
        BY <4>1
    <3>2. CASE record.consumed = limit.points + 1
      <4>1. limited' = [limited EXCEPT ![r].at = "blocking"] /\ UNCHANGED promised
        BY <1>7, <1>8, <3>2
      <4>2. limited' = [limited EXCEPT ![r] = [limited[r] EXCEPT !.at = "blocking"]]
        BY <4>1
      <4> QED
        BY <4>1, <4>2
    <3> QED
      BY <1>7, <1>10, <3>1, <3>2
  <2>2. new \in LimitedStates /\ (Waits(r, k) /\ new.at \in {"consuming", "blocking"} => new.limit = limit /\ new.key = k)
    BY <1>0, <1>1, <2>1 DEF LimitedStates, Underway
  <2>3. limited'[r] = new /\ \A q \in LimitedRequest \ {r} : limited'[q] = limited[q]
    BY <2>1 DEF LimitsInv, LimitTypes
  <2>4. records' \in [Limits!Key -> LimitRecord \cup {None}] /\ records'[k] = record
    BY <1>2, <1>3, <1>6 DEF LimitsInv, LimitTypes
  <2>5. LimitTypes'
    BY <1>3, <2>1, <2>2, <2>4 DEF LimitsInv, LimitTypes
  <2>6. ASSUME NEW j \in Limits!Key, j # k PROVE KeyInv(j)'
    <3>1. records'[j] = records[j] /\ promised'[j] = promised[j]
      BY <1>3, <2>1, <2>6 DEF LimitsInv, LimitTypes
    <3>2. j # limited[r].key
      BY <1>0, <2>6
    <3>3. Waits(r, j)' => limited'[r].key = limited[r].key
      BY <1>0, <1>2, <2>2, <2>3 DEF Waits
    <3> QED
      BY <1>3, <2>3, <3>1, <3>2, <3>3, OtherKeyKeeps
  <2>7. LimitIsOfRoute(k)'
    <3>1. \A q \in LimitedRequest : Waits(q, k)' => Waits(q, k) /\ limited'[q].limit = limited[q].limit
      BY <1>0, <1>2, <2>2, <2>3 DEF Waits
    <3> QED
      BY <1>4, <3>1 DEF KeyInv, LimitIsOfRoute, Alone
  <2>8. record # None
    BY <1>6, NoRecordAssumption
  <2>9. RecordIsOn(k)'
    BY <1>3, <1>6, <2>4 DEF RecordIsOn
  <2>10. PromiseIsOld(k)'
    BY <1>4, <1>3, <1>6, <2>1, <2>4, <2>8 DEF KeyInv, PromiseIsOld, Promise
  <2>11. PromiseHolds(k)'
    <3> SUFFICES ASSUME Alone(k), promised[k] # None, record.began = promised[k].began PROVE FALSE
      BY <2>1, <2>4 DEF PromiseHolds, Alone
    <3>1. records[k] # None /\ records[k].began = promised[k].began
      BY <1>4, <1>6 DEF KeyInv, PromiseIsOld, Promise
    <3>2. \A a \in Routes : a.path = k[2] => records[k].consumed > a.points
      BY <1>4, <3>1 DEF KeyInv, PromiseHolds
    <3>3. PICK a \in Routes : a.path = k[2] /\ limit.points = a.points
      BY <1>0, <1>2, <1>4 DEF KeyInv, LimitIsOfRoute
    <3>4. records[k] \in LimitRecord /\ record.consumed = records[k].consumed + 1 /\ records[k].consumed > limit.points
      BY <1>4, <1>6, <3>1, <3>2, <3>3
    <3> QED
      BY <1>7, <1>10, <3>4 DEF LimitRecord
  <2>12. KeyInv(k)'
    BY <2>7, <2>9, <2>10, <2>11 DEF KeyInv
  <2> QED
    BY <2>5, <2>6, <2>12 DEF LimitsInv
<1> QED
  BY <1>7, <1>9, <1>10

LEMMA BlockKeeps ==
  ASSUME LimitsInv, NEW r \in LimitedRequest, Limits!Block(r)
  PROVE  LimitsInv'
<1> DEFINE k == limited[r].key
           record == [consumed |-> limited[r].limit.points + 1, expires |-> now + BlockDuration * Second,
                      began |-> IF records[k] = None THEN now ELSE records[k].began]
<1>1. limited[r] \in Underway /\ limited[r].at = "blocking"
  BY DEF Limits!Block, LimitsInv, LimitTypes, LimitedStates
<1>2. k \in Limits!Key /\ limited[r].limit.points \in Nat /\ Waits(r, k)
  BY <1>1 DEF Underway, Waits, Limit
<1>3. now' = now /\ UNCHANGED tiers /\ records' = [records EXCEPT ![k] = record]
  BY DEF Limits!Block
<1>4. now \in Nat /\ KeyInv(k) /\ records[k] \in LimitRecord \cup {None}
  BY <1>2 DEF LimitsInv, LimitTypes
<1>5. BlockDuration * Second \in Nat \ {0}
  BY SecondsLast, LimitsAssumption
<1>6. /\ records[k] # None => record.began = records[k].began
      /\ records[k] = None => record.began = now
      /\ record.began \in Nat /\ record.began <= now
  BY <1>4 DEF KeyInv, RecordIsOn, LimitRecord
<1>7. record.consumed \in Nat /\ record.consumed > limited[r].limit.points /\ record.expires \in Nat /\ record.expires > now
  BY <1>2, <1>4, <1>5
<1>8. record \in LimitRecord
  BY <1>6, <1>7 DEF LimitRecord
<1>9. Refusal(r, k, record)
  BY RefuseIsRefusal DEF Limits!Block
<1> HIDE DEF record, k
<1> QED
  BY <1>2, <1>3, <1>6, <1>7, <1>8, <1>9, RefusalKeeps

LEMMA LimitsNextKeeps == LimitsInv /\ [Limits!Next]_Limits!limitVars => LimitsInv'
<1> SUFFICES ASSUME LimitsInv, [Limits!Next]_Limits!limitVars PROVE LimitsInv'
  OBVIOUS
<1>1. ASSUME NEW r \in LimitedRequest,
             \/ \E u \in User, a \in Routes : Limits!Receive(r, u, a)
             \/ Limits!Consume(r)
             \/ Limits!Block(r)
             \/ Limits!ConsumeFails(r)
      PROVE  LimitsInv'
  BY <1>1, ReceiveKeeps, ConsumeKeeps, BlockKeeps, ConsumeFailsKeeps
<1> QED
  BY <1>1, TierAndTimeKeep DEF Limits!Next

\* For any routes, points, windows and number of requests: whoever waits as long
\* as it was told finds the record gone, where one limiter counts on a path.
THEOREM RetryAfterIsKept == LimitsSpec => []RetryAfterHolds
<1>1. LimitsInv => RetryAfterHolds
  <2> SUFFICES ASSUME LimitsInv, NEW k \in Limits!Key, Alone(k), records[k] # None, promised[k] # None,
                      records[k].began = promised[k].began
               PROVE  records[k].expires <= promised[k].come
    BY DEF RetryAfterHolds, Limits!RetryAfterHolds, Alone
  <2> QED
    BY DEF LimitsInv, KeyInv, PromiseHolds
<1> QED
  BY <1>1, InitLimitsInv, LimitsNextKeeps, PTL DEF LimitsSpec
-----------------------------------------------------------------------------
(* Card statistics: until two calculations of a day overlap its row is        *)
(* written once, and nothing of the day is cached or read before that.        *)

StatisticsSpec == Statistics!Init /\ [][Statistics!Next]_Statistics!statisticsVars

Calculated(c) == calculations[c] = [stage |-> calculations[c].stage, day |-> calculations[c].day, total |-> calculations[c].total]
Asked(r) == readers[r] = [stage |-> readers[r].stage, key |-> readers[r].key, data |-> readers[r].data]
Entry(x) == x = [data |-> x.data, left |-> x.left]

StatisticsTypes ==
  /\ daily = [d \in Statistics!Day |-> daily[d]]
  /\ kept = [k \in Statistics!Key |-> kept[k]]
  /\ \A k \in Statistics!Key : kept[k] # None => Entry(kept[k])
  /\ calculations = [c \in Calculation |-> calculations[c]] /\ \A c \in Calculation : Calculated(c)
  /\ readers = [r \in Reader |-> readers[r]] /\ \A r \in Reader : Asked(r)

WorksOn(c, d) == calculations[c].stage \in Statistics!Working /\ calculations[c].day = d

\* One calculation at a time works on the day, and none before its row is there.
OneWorksOn(d) ==
  /\ \A c, o \in Calculation : WorksOn(c, d) /\ WorksOn(o, d) => c = o
  /\ \A c \in Calculation : calculations[c].stage \in {"reading", "writing"} /\ calculations[c].day = d => daily[d] = None

\* What is cached or about to be cached of the day is a row, and the row.
CachedOf(d) == kept[d] # None => kept[d].data # None /\ kept[d].data = daily[d]
FoundBy(r, d) ==
  readers[r].stage = "found" /\ readers[r].key = d => readers[r].data # None /\ readers[r].data = daily[d]

DayInv(d) == OneWorksOn(d) /\ CachedOf(d) /\ \A r \in Reader : FoundBy(r, d)
StatisticsInv == StatisticsTypes /\ \A d \in Statistics!Day \ overlapped : DayInv(d)

LEMMA InitStatisticsInv == Statistics!Init => StatisticsInv
<1> SUFFICES ASSUME Statistics!Init PROVE StatisticsInv
  OBVIOUS
<1>1. /\ \A c \in Calculation : calculations[c] = [stage |-> "new", day |-> 0, total |-> 0]
      /\ \A r \in Reader : readers[r] = [stage |-> "idle", key |-> Today, data |-> None]
      /\ \A k \in Statistics!Key : kept[k] = None
  BY DEF Statistics!Init, Statistics!Idle
<1>2. StatisticsTypes
  BY <1>1 DEF Statistics!Init, StatisticsTypes, Calculated, Asked
<1>3. ASSUME NEW d \in Statistics!Day PROVE DayInv(d)
  BY <1>1, <1>3 DEF DayInv, OneWorksOn, CachedOf, FoundBy, WorksOn, Statistics!Working, Statistics!Key
<1> QED
  BY <1>2, <1>3 DEF StatisticsInv

\* The key of a day is none of the other two.
LEMMA DaysAreKeys ==
  \A d \in Statistics!Day : d \in Statistics!Key /\ d # Today /\ d # Bin /\ Statistics!Source(d) = daily[d]
BY KeysAssumption DEF Statistics!Key, Statistics!Source

\* A step that writes no row, caches nothing and lets calculations go on only.
LEMMA QuietStatistics ==
  ASSUME StatisticsInv, StatisticsTypes', daily' = daily, overlapped \subseteq overlapped',
         \A d \in Statistics!Day \ overlapped' : OneWorksOn(d)',
         \A d \in Statistics!Day : kept'[d] # None => kept[d] # None /\ kept'[d].data = kept[d].data,
         \A r \in Reader : readers'[r].stage = "found" => readers'[r] = readers[r]
  PROVE  StatisticsInv'
<1>1. ASSUME NEW d \in Statistics!Day \ overlapped' PROVE CachedOf(d)' /\ \A r \in Reader : FoundBy(r, d)'
  BY <1>1 DEF StatisticsInv, DayInv, CachedOf, FoundBy
<1>2. Statistics!Day' = Statistics!Day
  BY DEF Statistics!Day
<1> QED
  BY <1>1, <1>2 DEF StatisticsInv, DayInv

\* A calculation goes on with the same day, or ends.
LEMMA GoesOnWorking ==
  ASSUME StatisticsInv, daily' = daily, overlapped' = overlapped, NEW c \in Calculation, NEW s, NEW t,
         calculations[c].stage \in Statistics!Working,
         s \in {"reading", "writing"} => calculations[c].stage \in {"reading", "writing"},
         calculations' = [calculations EXCEPT ![c] = calculations'[c]],
         calculations'[c] = [stage |-> s, day |-> calculations[c].day, total |-> t]
  PROVE  /\ \A d \in Statistics!Day \ overlapped : OneWorksOn(d)'
         /\ calculations' = [o \in Calculation |-> calculations'[o]] /\ \A o \in Calculation : Calculated(o)'
<1>1. /\ calculations' = [o \in Calculation |-> calculations'[o]]
      /\ \A o \in Calculation : o # c => calculations'[o] = calculations[o]
  BY DEF StatisticsInv, StatisticsTypes
<1>2. \A o \in Calculation : Calculated(o)'
  BY <1>1 DEF StatisticsInv, StatisticsTypes, Calculated
<1>3. ASSUME NEW d \in Statistics!Day \ overlapped PROVE OneWorksOn(d)'
  BY <1>1, <1>3 DEF StatisticsInv, DayInv, OneWorksOn, WorksOn
<1> QED
  BY <1>1, <1>2, <1>3

\* The first look: a day without a row is calculated.
LEMMA FindByDateKeeps ==
  ASSUME StatisticsInv, NEW c \in Calculation, NEW e, Statistics!FindByDate(c, e)
  PROVE  StatisticsInv'
<1>1. UNCHANGED <<daily, kept, readers>> /\ calculations[c].stage = "new"
  BY DEF Statistics!FindByDate
<1>2. CASE daily[e] # None
  <2>1. overlapped' = overlapped /\ calculations' = [calculations EXCEPT ![c].stage = "done"]
    BY <1>2 DEF Statistics!FindByDate, Statistics!Goes
  <2>2. /\ calculations' = [o \in Calculation |-> calculations'[o]]
        /\ calculations'[c] = [stage |-> "done", day |-> calculations[c].day, total |-> calculations[c].total]
        /\ \A o \in Calculation : o # c => calculations'[o] = calculations[o]
    BY <2>1 DEF StatisticsInv, StatisticsTypes, Calculated
  <2>3. StatisticsTypes'
    BY <1>1, <2>2 DEF StatisticsInv, StatisticsTypes, Calculated, Asked, Entry, Statistics!Day, Statistics!Key
  <2>4. \A d \in Statistics!Day \ overlapped : OneWorksOn(d)'
    BY <1>1, <2>2 DEF StatisticsInv, DayInv, OneWorksOn, WorksOn, Statistics!Working
  <2> QED
    BY <1>1, <2>1, <2>3, <2>4, QuietStatistics
<1>3. CASE daily[e] = None
  <2>1. /\ calculations' = [calculations EXCEPT ![c] = [stage |-> "reading", day |-> e, total |-> 0]]
        /\ overlapped' = overlapped \cup {x \in {e} : \E o \in Calculation \ {c} : WorksOn(o, x)}
    BY <1>3 DEF Statistics!FindByDate, WorksOn
  <2>2. /\ calculations' = [o \in Calculation |-> calculations'[o]]
        /\ calculations'[c] = [stage |-> "reading", day |-> e, total |-> 0]
        /\ \A o \in Calculation : o # c => calculations'[o] = calculations[o]
    BY <2>1 DEF StatisticsInv, StatisticsTypes
  <2>3. StatisticsTypes'
    BY <1>1, <2>2 DEF StatisticsInv, StatisticsTypes, Calculated, Asked, Entry, Statistics!Day, Statistics!Key
  <2>4. ASSUME NEW d \in Statistics!Day \ overlapped' PROVE OneWorksOn(d)'
    <3>1. OneWorksOn(d)
      BY <2>1, <2>4 DEF StatisticsInv, DayInv
    <3>2. d = e => \A o \in Calculation \ {c} : ~WorksOn(o, d)
      BY <2>1, <2>4
    <3> QED
      BY <1>1, <1>3, <2>2, <3>1, <3>2 DEF OneWorksOn, WorksOn, Statistics!Working
  <2> QED
    BY <1>1, <2>1, <2>3, <2>4, QuietStatistics
<1> QED
  BY <1>2, <1>3

\* The row is written while nothing of the day is cached or read.
LEMMA UpsertKeeps ==
  ASSUME StatisticsInv, NEW c \in Calculation, Statistics!Upsert(c)
  PROVE  StatisticsInv'
<1> PICK e : e = calculations[c].day
  OBVIOUS
<1>1. /\ UNCHANGED <<kept, readers, overlapped>> /\ calculations[c].stage = "writing"
      /\ daily' = [daily EXCEPT ![e] = calculations[c].total]
      /\ calculations' = [calculations EXCEPT ![c].stage = "clearing"]
  BY DEF Statistics!Upsert, Statistics!Goes
<1>2. /\ calculations' = [o \in Calculation |-> calculations'[o]]
      /\ calculations'[c] = [stage |-> "clearing", day |-> e, total |-> calculations[c].total]
      /\ \A o \in Calculation : o # c => calculations'[o] = calculations[o]
  BY <1>1 DEF StatisticsInv, StatisticsTypes, Calculated
<1>3. daily' = [d \in Statistics!Day |-> daily'[d]] /\ \A d \in Statistics!Day : d # e => daily'[d] = daily[d]
  BY <1>1 DEF StatisticsInv, StatisticsTypes
<1>4. StatisticsTypes'
  BY <1>1, <1>2, <1>3 DEF StatisticsInv, StatisticsTypes, Calculated, Asked, Entry, Statistics!Day, Statistics!Key
<1>5. ASSUME NEW d \in Statistics!Day \ overlapped PROVE DayInv(d)'
  <2>1. DayInv(d)
    BY <1>5 DEF StatisticsInv
  <2>2. CASE d # e
    BY <1>1, <1>2, <1>3, <1>5, <2>1, <2>2 DEF DayInv, OneWorksOn, WorksOn, CachedOf, FoundBy
  <2>3. CASE d = e
    <3>1. daily[d] = None /\ WorksOn(c, d) /\ \A o \in Calculation : WorksOn(o, d) => o = c
      BY <1>1, <2>1, <2>3 DEF DayInv, OneWorksOn, WorksOn, Statistics!Working
    <3>2. kept[d] = None /\ \A r \in Reader : ~(readers[r].stage = "found" /\ readers[r].key = d)
      BY <2>1, <3>1 DEF DayInv, CachedOf, FoundBy
    <3>3. OneWorksOn(d)'
      BY <1>2, <2>1, <3>1 DEF OneWorksOn, WorksOn, Statistics!Working
    <3> QED
      BY <1>1, <3>2, <3>3 DEF DayInv, CachedOf, FoundBy
  <2> QED
    BY <2>2, <2>3
<1> QED
  BY <1>1, <1>4, <1>5 DEF StatisticsInv, Statistics!Day

\* The other steps of a calculation.
LEMMA CalculationKeeps ==
  ASSUME StatisticsInv, NEW c \in Calculation,
         Statistics!ReadCards(c) \/ Statistics!ClearCache(c) \/ Statistics!CalculationFails(c)
  PROVE  StatisticsInv'
<1>1. UNCHANGED <<daily, readers, overlapped>>
  BY DEF Statistics!ReadCards, Statistics!ClearCache, Statistics!CalculationFails
<1>2. \E s, t : /\ calculations[c].stage \in Statistics!Working
                /\ s \in {"reading", "writing"} => calculations[c].stage \in {"reading", "writing"}
                /\ calculations' = [calculations EXCEPT ![c] = calculations'[c]]
                /\ calculations'[c] = [stage |-> s, day |-> calculations[c].day, total |-> t]
  <2>1. Calculated(c) /\ calculations = [o \in Calculation |-> calculations[o]]
    BY DEF StatisticsInv, StatisticsTypes
  <2>2. ASSUME NEW s, calculations' = [calculations EXCEPT ![c].stage = s]
        PROVE  /\ calculations' = [calculations EXCEPT ![c] = calculations'[c]]
               /\ calculations'[c] = [stage |-> s, day |-> calculations[c].day, total |-> calculations[c].total]
    <3>1. calculations'[c] = [calculations[c] EXCEPT !.stage = s] /\ calculations' = [calculations EXCEPT ![c] = calculations'[c]]
      BY <2>1, <2>2
    <3> QED
      BY <2>1, <3>1 DEF Calculated
  <2>3. CASE Statistics!ReadCards(c)
    <3> PICK n : n = made[calculations[c].day]
      OBVIOUS
    <3>1. /\ calculations[c].stage = "reading"
          /\ calculations' = [calculations EXCEPT ![c].stage = "writing", ![c].total = n]
      BY <2>3 DEF Statistics!ReadCards
    <3>2. /\ calculations'[c] = [calculations[c] EXCEPT !.stage = "writing", !.total = n]
          /\ calculations' = [calculations EXCEPT ![c] = calculations'[c]]
      BY <2>1, <3>1
    <3>3. calculations'[c] = [stage |-> "writing", day |-> calculations[c].day, total |-> n]
      BY <2>1, <3>2 DEF Calculated
    <3>4. calculations[c].stage \in Statistics!Working
      BY <3>1 DEF Statistics!Working
    <3> QED
      BY <3>1, <3>2, <3>3, <3>4
  <2>4. CASE Statistics!ClearCache(c)
    <3>1. PICK k \in {calculations[c].day, Today} :
             /\ calculations[c].stage = IF k = Today THEN "clearingToday" ELSE "clearing"
             /\ calculations' = [calculations EXCEPT ![c].stage = IF k = Today THEN "done" ELSE "clearingToday"]
      BY <2>4 DEF Statistics!ClearCache, Statistics!Goes
    <3> DEFINE s == IF k = Today THEN "done" ELSE "clearingToday"
    <3>2. calculations[c].stage \in Statistics!Working /\ s \notin {"reading", "writing"}
      BY <3>1 DEF Statistics!Working
    <3>3. calculations' = [calculations EXCEPT ![c].stage = s]
      BY <3>1
    <3> HIDE DEF s
    <3> QED
      BY <2>2, <3>2, <3>3
  <2>5. CASE Statistics!CalculationFails(c)
    <3>1. calculations[c].stage \in {"reading", "writing"} /\ calculations' = [calculations EXCEPT ![c].stage = "done"]
      BY <2>5 DEF Statistics!CalculationFails, Statistics!Goes
    <3>2. calculations[c].stage \in Statistics!Working
      BY <3>1 DEF Statistics!Working
    <3> QED
      BY <2>2, <3>1, <3>2
  <2> QED
    BY <2>3, <2>4, <2>5
<1>3. /\ \A d \in Statistics!Day \ overlapped : OneWorksOn(d)'
      /\ calculations' = [o \in Calculation |-> calculations'[o]] /\ \A o \in Calculation : Calculated(o)'
  BY <1>1, <1>2, GoesOnWorking
<1>4. kept' = kept \/ \E k : kept' = [kept EXCEPT ![k] = None]
  BY DEF Statistics!ReadCards, Statistics!ClearCache, Statistics!CalculationFails
<1>5. /\ kept' = [k \in Statistics!Key |-> kept'[k]]
      /\ \A k \in Statistics!Key : kept'[k] # None => kept'[k] = kept[k]
  BY <1>4 DEF StatisticsInv, StatisticsTypes
<1>6. StatisticsTypes'
  BY <1>1, <1>3, <1>5 DEF StatisticsInv, StatisticsTypes, Asked, Entry, Statistics!Day, Statistics!Key
<1> QED
  BY <1>1, <1>3, <1>5, <1>6, DaysAreKeys, QuietStatistics

\* A reader caches the row it found.
LEMMA SetKeeps ==
  ASSUME StatisticsInv, NEW r \in Reader, Statistics!Set(r)
  PROVE  StatisticsInv'
<1> PICK k : k = readers[r].key
  OBVIOUS
<1> DEFINE entry == [data |-> readers[r].data, left |-> Statistics!TimeOf(k)]
<1>1. /\ UNCHANGED <<daily, calculations, overlapped>> /\ readers[r].stage = "found"
      /\ readers' = [readers EXCEPT ![r] = Statistics!Idle]
      /\ kept' = kept \/ kept' = [kept EXCEPT ![k] = entry]
  BY DEF Statistics!Set
<1>2. entry.data = readers[r].data /\ Entry(entry)
  BY DEF Entry
<1> HIDE DEF entry
<1>3. /\ kept' = [x \in Statistics!Key |-> kept'[x]]
      /\ \A x \in Statistics!Key : kept'[x] = kept[x] \/ (x = k /\ kept'[x] = entry)
  BY <1>1 DEF StatisticsInv, StatisticsTypes
<1>4. /\ readers' = [q \in Reader |-> readers'[q]] /\ readers'[r] = [stage |-> "idle", key |-> Today, data |-> None]
      /\ \A q \in Reader : q # r => readers'[q] = readers[q]
  BY <1>1 DEF StatisticsInv, StatisticsTypes, Statistics!Idle
<1>5. StatisticsTypes'
  <2>1. \A x \in Statistics!Key : kept'[x] # None => Entry(kept'[x])
    BY <1>2, <1>3 DEF StatisticsInv, StatisticsTypes
  <2>2. \A q \in Reader : Asked(q)'
    BY <1>4 DEF StatisticsInv, StatisticsTypes, Asked
  <2> QED
    BY <1>1, <1>3, <1>4, <2>1, <2>2 DEF StatisticsInv, StatisticsTypes, Calculated, Statistics!Day, Statistics!Key
<1>6. ASSUME NEW d \in Statistics!Day \ overlapped PROVE DayInv(d)'
  <2>1. DayInv(d) /\ d \in Statistics!Key
    BY <1>6, DaysAreKeys DEF StatisticsInv
  <2>2. OneWorksOn(d)'
    BY <1>1, <2>1 DEF DayInv, OneWorksOn, WorksOn
  <2>3. CachedOf(d)'
    BY <1>1, <1>2, <1>3, <2>1 DEF DayInv, CachedOf, FoundBy
  <2>4. \A q \in Reader : FoundBy(q, d)'
    BY <1>1, <1>4, <2>1 DEF DayInv, FoundBy
  <2> QED
    BY <2>2, <2>3, <2>4 DEF DayInv
<1> QED
  BY <1>1, <1>5, <1>6 DEF StatisticsInv, Statistics!Day

\* A reader finds the row there is.
LEMMA FindKeeps ==
  ASSUME StatisticsInv, NEW r \in Reader, NEW k, Statistics!Get(r, k) \/ Statistics!Find(r)
  PROVE  StatisticsInv'
<1>1. UNCHANGED <<daily, kept, calculations, overlapped>>
  BY DEF Statistics!Get, Statistics!Find
<1>2. \/ readers' = readers
      \/ \E x : /\ readers' = [readers EXCEPT ![r] = x] /\ x = [stage |-> x.stage, key |-> x.key, data |-> x.data]
                /\ x.stage = "found" => x.data # None /\ x.data = Statistics!Source(x.key)
  <2>1. CASE Statistics!Get(r, k)
    <3> DEFINE x == [stage |-> "missed", key |-> k, data |-> None]
    <3>1. readers' = readers \/ readers' = [readers EXCEPT ![r] = x]
      BY <2>1 DEF Statistics!Get
    <3>2. x = [stage |-> x.stage, key |-> x.key, data |-> x.data] /\ x.stage # "found"
      OBVIOUS
    <3> QED
      BY <3>1, <3>2
  <2>2. CASE Statistics!Find(r)
    <3> PICK n : n = readers[r].key
      OBVIOUS
    <3> DEFINE x == IF Statistics!Source(n) = None THEN [stage |-> "idle", key |-> Today, data |-> None]
                    ELSE [stage |-> "found", key |-> n, data |-> Statistics!Source(n)]
    <3>1. readers' = [readers EXCEPT ![r] = x]
      BY <2>2 DEF Statistics!Find, Statistics!Idle
    <3>2. /\ x = [stage |-> x.stage, key |-> x.key, data |-> x.data]
          /\ x.stage = "found" => x.data # None /\ x.data = Statistics!Source(x.key)
      OBVIOUS
    <3> QED
      BY <3>1, <3>2
  <2> QED
    BY <2>1, <2>2
<1>3. /\ readers' = [q \in Reader |-> readers'[q]] /\ \A q \in Reader : Asked(q)'
      /\ \A q \in Reader : q # r => readers'[q] = readers[q]
      /\ readers'[r].stage = "found" => \/ readers'[r] = readers[r]
                                        \/ readers'[r].data # None /\ readers'[r].data = Statistics!Source(readers'[r].key)
  <2>1. readers = [q \in Reader |-> readers[q]] /\ \A q \in Reader : Asked(q)
    BY DEF StatisticsInv, StatisticsTypes
  <2>2. CASE readers' = readers
    BY <2>1, <2>2 DEF Asked
  <2>3. CASE readers' # readers
    <3> PICK x : /\ readers' = [readers EXCEPT ![r] = x] /\ x = [stage |-> x.stage, key |-> x.key, data |-> x.data]
                 /\ x.stage = "found" => x.data # None /\ x.data = Statistics!Source(x.key)
      BY <1>2, <2>3
    <3>1. readers' = [q \in Reader |-> readers'[q]] /\ readers'[r] = x /\ \A q \in Reader : q # r => readers'[q] = readers[q]
      BY <2>1
    <3>2. \A q \in Reader : Asked(q)'
      BY <2>1, <3>1 DEF Asked
    <3> QED
      BY <3>1, <3>2
  <2> QED
    BY <2>2, <2>3
<1>4. StatisticsTypes'
  BY <1>1, <1>3 DEF StatisticsInv, StatisticsTypes, Calculated, Entry, Statistics!Day, Statistics!Key
<1>5. ASSUME NEW d \in Statistics!Day \ overlapped PROVE DayInv(d)'
  <2>1. DayInv(d) /\ Statistics!Source(d) = daily[d]
    BY <1>5, DaysAreKeys DEF StatisticsInv
  <2>2. OneWorksOn(d)' /\ CachedOf(d)'
    BY <1>1, <2>1 DEF DayInv, OneWorksOn, WorksOn, CachedOf
  <2>3. ASSUME NEW q \in Reader PROVE FoundBy(q, d)'
    BY <1>1, <1>3, <2>1 DEF DayInv, FoundBy
  <2> QED
    BY <2>2, <2>3 DEF DayInv
<1> QED
  BY <1>1, <1>4, <1>5 DEF StatisticsInv, Statistics!Day

\* Time only takes entries away.
LEMMA StatisticsTickKeeps ==
  ASSUME StatisticsInv, Statistics!Tick
  PROVE  StatisticsInv'
<1>1. /\ UNCHANGED <<daily, calculations, readers, overlapped>>
      /\ kept' = [k \in Statistics!Key |-> IF kept[k] = None \/ kept[k].left <= 1 THEN None
                                           ELSE [kept[k] EXCEPT !.left = @ - 1]]
  BY DEF Statistics!Tick
<1>2. ASSUME NEW k \in Statistics!Key, kept'[k] # None
      PROVE  Entry(kept'[k]) /\ kept[k] # None /\ kept'[k].data = kept[k].data
  <2>1. kept[k] # None /\ kept'[k] = [kept[k] EXCEPT !.left = kept[k].left - 1]
    BY <1>1, <1>2
  <2>2. Entry(kept[k])
    BY <2>1 DEF StatisticsInv, StatisticsTypes
  <2> QED
    BY <2>1, <2>2 DEF Entry
<1>3. kept' = [k \in Statistics!Key |-> kept'[k]]
  BY <1>1
<1>4. StatisticsTypes'
  BY <1>1, <1>2, <1>3 DEF StatisticsInv, StatisticsTypes, Calculated, Asked, Statistics!Day, Statistics!Key
<1>5. \A d \in Statistics!Day \ overlapped : OneWorksOn(d)'
  BY <1>1 DEF StatisticsInv, DayInv, OneWorksOn, WorksOn
<1> QED
  BY <1>1, <1>2, <1>4, <1>5, DaysAreKeys, QuietStatistics

LEMMA StatisticsNextKeeps == StatisticsInv /\ [Statistics!Next]_Statistics!statisticsVars => StatisticsInv'
<1> SUFFICES ASSUME StatisticsInv, [Statistics!Next]_Statistics!statisticsVars PROVE StatisticsInv'
  OBVIOUS
<1>1. ASSUME UNCHANGED <<daily, kept, calculations, readers, overlapped>> PROVE StatisticsInv'
  <2>1. StatisticsTypes'
    BY <1>1 DEF StatisticsInv, StatisticsTypes, Calculated, Asked, Entry, Statistics!Day, Statistics!Key
  <2>2. \A d \in Statistics!Day \ overlapped : DayInv(d)'
    BY <1>1 DEF StatisticsInv, DayInv, OneWorksOn, WorksOn, CachedOf, FoundBy
  <2> QED
    BY <1>1, <2>1, <2>2 DEF StatisticsInv, Statistics!Day
<1>2. CASE Statistics!BeginInsert \/ \E d \in Statistics!Day : Statistics!EndInsert(d)
  BY <1>1, <1>2 DEF Statistics!BeginInsert, Statistics!EndInsert
<1>3. CASE UNCHANGED Statistics!statisticsVars
  BY <1>1, <1>3 DEF Statistics!statisticsVars
<1> QED
  BY <1>2, <1>3, FindByDateKeeps, UpsertKeeps, CalculationKeeps, SetKeeps, FindKeeps, StatisticsTickKeeps
     DEF Statistics!Next

\* What is cached of a day for an hour is the day's row, although keys are
\* deleted late or never, unless two calculations of the day have overlapped
\* (cardStatistics.ts:249, card-statistics-aggregator.ts).
THEOREM CachedRowsAreRows == StatisticsSpec => []CachedRowIsTheRow
<1>1. StatisticsInv => CachedRowIsTheRow
  BY DEF StatisticsInv, DayInv, CachedOf, FoundBy, CachedRowIsTheRow, Statistics!CachedRowIsTheRow
<1> QED
  BY <1>1, InitStatisticsInv, StatisticsNextKeeps, PTL DEF StatisticsSpec

-----------------------------------------------------------------------------
(* Test cards: a run takes a line off its list only when the table has its    *)
(* card. A row's place among the rows only grows as others are inserted, so   *)
(* that what was passed over by a page was passed over by the one before.     *)

TestsSpec == Tests!Init /\ [][Tests!Next]_Tests!vars

Loading == {"finding", "creating", "loading"}
Loaded(i) == Tests!Taken(Tests!CardAt(i))
LoadInv(r) ==
  /\ loads[r].stage \in Loading => \A i \in Tests!Parsed \ loads[r].left : Loaded(i)
  /\ loads[r].stage = "done" => \A i \in Tests!Parsed : Loaded(i)

ReaderOf(S) ==
  [stage : {"new", "ready", "counted", "fetched", "done"}, offset : Nat, total : Nat, count : Nat,
   seen : SUBSET S, began : SUBSET S, torn : BOOLEAN]
SeenUpTo(n) == \A c \in reader.began : Tests!Rank(c) <= n => c \in reader.seen
ReaderInv ==
  /\ reader \in ReaderOf(cards)
  /\ reader.stage = "new" => reader.offset = 0
  /\ SeenUpTo(reader.offset)
  /\ reader.stage = "counted" => reader.total = reader.count
  /\ reader.stage = "fetched" => SeenUpTo(reader.offset + Tests!PageSize)
  /\ reader.stage = "done" /\ ~reader.torn => reader.began \subseteq reader.seen

TestsInv ==
  /\ IsFiniteSet(cards)
  /\ loads = [r \in Load |-> loads[r]]
  /\ \A r \in Load : LoadInv(r)
  /\ ReaderInv

LEMMA RowsAreCounted == \A S : Tests!Cardinality(S) = Cardinality(S)
BY DEF Tests!Cardinality, Cardinality

LEMMA PageSizeIsNumber == Tests!PageSize \in Nat
BY PagesAssumption DEF Tests!PageSize

\* A row has one of the first places, and rows that are added move it back.
LEMMA RankIsPlace ==
  ASSUME IsFiniteSet(cards), NEW c
  PROVE  /\ Tests!Rank(c) \in Nat /\ Cardinality(cards) \in Nat /\ Tests!Rank(c) <= Cardinality(cards)
         /\ c \in cards => Tests!Rank(c) >= 1
<1> DEFINE S == {d \in cards : d = c \/ Tests!Before(d, c)}
<1>1. IsFiniteSet(S) /\ Cardinality(S) \in Nat /\ Cardinality(cards) \in Nat /\ Cardinality(S) <= Cardinality(cards)
  BY FS_Subset, FS_CardinalityType
<1>2. Tests!Rank(c) = Cardinality(S)
  BY RowsAreCounted DEF Tests!Rank
<1>3. ASSUME c \in cards PROVE Cardinality(S) # 0
  <2>1. c \in S
    BY <1>3
  <2> QED
    BY <1>1, <2>1, FS_EmptySet
<1> HIDE DEF S
<1> QED
  BY <1>1, <1>2, <1>3

LEMMA RanksGrow ==
  ASSUME IsFiniteSet(cards'), cards \subseteq cards', NEW c
  PROVE  Tests!Rank(c) \in Nat /\ Tests!Rank(c)' \in Nat /\ Tests!Rank(c) <= Tests!Rank(c)'
<1> DEFINE S == {d \in cards : d = c \/ Tests!Before(d, c)}
           T == {d \in cards' : d = c \/ Tests!Before(d, c)}
<1>1. S \subseteq T /\ T \subseteq cards'
  OBVIOUS
<1>2. Tests!Rank(c) = Cardinality(S)
  BY RowsAreCounted DEF Tests!Rank
<1>3. Tests!Rank(c)' = Cardinality(T)
  BY RowsAreCounted DEF Tests!Rank, Tests!Before, Tests!Index
<1> HIDE DEF S, T
<1>4. IsFiniteSet(T)
  BY <1>1, FS_Subset
<1>5. Cardinality(T) \in Nat /\ IsFiniteSet(S) /\ Cardinality(S) \in Nat /\ Cardinality(S) <= Cardinality(T)
  BY <1>1, <1>4, FS_Subset, FS_CardinalityType
<1> QED
  BY <1>2, <1>3, <1>5

LEMMA InitTestsInv == Tests!Init => TestsInv
<1> SUFFICES ASSUME Tests!Init PROVE TestsInv
  OBVIOUS
<1>1. cards = {} /\ reader = [stage |-> "new", offset |-> 0, total |-> 0, count |-> 0,
                              seen |-> {}, began |-> {}, torn |-> FALSE]
  BY DEF Tests!Init
<1>2. IsFiniteSet(cards)
  BY <1>1, FS_EmptySet
<1>3. loads = [r \in Load |-> loads[r]] /\ \A r \in Load : loads[r].stage = "ready"
  BY DEF Tests!Init
<1>4. ReaderInv
  BY <1>1 DEF ReaderInv, ReaderOf, SeenUpTo
<1> QED
  BY <1>2, <1>3, <1>4 DEF TestsInv, LoadInv, Loading

\* Rows that are added take nothing from the reader.
LEMMA ReaderKeeps ==
  ASSUME ReaderInv, IsFiniteSet(cards'), cards \subseteq cards', UNCHANGED reader
  PROVE  ReaderInv'
<1>1. ASSUME NEW n \in Nat, SeenUpTo(n) PROVE SeenUpTo(n)'
  <2> SUFFICES ASSUME NEW c \in reader.began, Tests!Rank(c)' <= n PROVE c \in reader.seen
    BY DEF SeenUpTo
  <2>1. Tests!Rank(c) <= n
    BY RanksGrow
  <2> QED
    BY <1>1, <2>1 DEF SeenUpTo
<1>2. reader \in ReaderOf(cards')
  BY DEF ReaderInv, ReaderOf
<1>3. reader.offset \in Nat /\ reader.offset + Tests!PageSize \in Nat
  BY PageSizeIsNumber DEF ReaderInv, ReaderOf
<1>4. SeenUpTo(reader.offset)'
  <2>1. PICK n \in Nat : n = reader.offset
    BY <1>3
  <2>2. SeenUpTo(n)
    BY <2>1 DEF ReaderInv
  <2>3. SeenUpTo(n)'
    BY <1>1, <2>2
  <2> QED
    BY <2>1, <2>3 DEF SeenUpTo
<1>5. reader.stage = "fetched" => SeenUpTo(reader.offset + Tests!PageSize)'
  <2> SUFFICES ASSUME reader.stage = "fetched" PROVE SeenUpTo(reader.offset + Tests!PageSize)'
    OBVIOUS
  <2>1. PICK n \in Nat : n = reader.offset + Tests!PageSize
    BY <1>3
  <2>2. SeenUpTo(n)
    BY <2>1 DEF ReaderInv
  <2>3. SeenUpTo(n)'
    BY <1>1, <2>2
  <2>4. n = reader'.offset + Tests!PageSize
    BY <2>1
  <2> QED
    BY <2>3, <2>4 DEF SeenUpTo
<1> QED
  BY <1>2, <1>4, <1>5 DEF ReaderInv

\* What a run does to the rows, and to its list.
LEMMA LoadKeeps ==
  ASSUME TestsInv, NEW r \in Load, UNCHANGED reader, IsFiniteSet(cards'), cards \subseteq cards',
         NEW load, loads' = [loads EXCEPT ![r] = load],
         load.stage \in Loading => \A i \in Tests!Parsed \ load.left : Loaded(i)',
         load.stage = "done" => \A i \in Tests!Parsed : Loaded(i)'
  PROVE  TestsInv'
<1>1. \A i : Loaded(i) => Loaded(i)'
  BY DEF Loaded, Tests!Taken, Tests!CardAt, Tests!parseTableRow, Tests!HeaderOf
<1>2. loads' = [q \in Load |-> loads'[q]] /\ loads'[r] = load /\ \A q \in Load \ {r} : loads'[q] = loads[q]
  BY DEF TestsInv
<1>3. ASSUME NEW q \in Load PROVE LoadInv(q)'
  <2>1. CASE q = r
    BY <1>2, <2>1 DEF LoadInv, Loading
  <2>2. CASE q # r
    <3>1. loads'[q] = loads[q] /\ LoadInv(q)
      BY <1>2, <2>2 DEF TestsInv
    <3> QED
      BY <1>1, <3>1 DEF LoadInv
  <2> QED
    BY <2>1, <2>2
<1>4. ReaderInv'
  BY ReaderKeeps DEF TestsInv
<1> QED
  BY <1>2, <1>3, <1>4 DEF TestsInv

\* run, from its beginning and over its gateways.
LEMMA MovesKeeps ==
  ASSUME TestsInv, NEW r \in Load, NEW where, NEW slug, NEW left, Tests!Moves(r, where, slug, left),
         UNCHANGED reader, IsFiniteSet(cards'), cards \subseteq cards',
         where \in Loading => \A i \in Tests!Parsed \ left : Loaded(i)',
         where = "done" => \A i \in Tests!Parsed : Loaded(i)'
  PROVE  TestsInv'
<1> DEFINE load == [stage |-> where, slug |-> slug, left |-> left, started |-> loads[r].started]
<1>1. loads' = [loads EXCEPT ![r] = load]
  BY DEF Tests!Moves
<1>2. load.stage = where /\ load.left = left
  OBVIOUS
<1> HIDE DEF load
<1> QED
  BY <1>1, <1>2, LoadKeeps

LEMMA StartKeeps ==
  ASSUME TestsInv, NEW r \in Load, Tests!Start(r)
  PROVE  TestsInv'
<1> DEFINE load ==
      IF Tests!Parsed = {} THEN [stage |-> "done", slug |-> "", left |-> {}, started |-> loads[r].started + 1]
      ELSE [stage |-> "finding", slug |-> Tests!HeaderOf(Tests!Min(Tests!Parsed)), left |-> Tests!Parsed,
            started |-> loads[r].started + 1]
<1>1. UNCHANGED <<cards, reader>> /\ loads' = [loads EXCEPT ![r] = load]
  BY DEF Tests!Start
<1>2. load.stage = "done" => Tests!Parsed = {}
  OBVIOUS
<1>3. load.left = Tests!Parsed
  OBVIOUS
<1>4. IsFiniteSet(cards')
  BY <1>1 DEF TestsInv
<1> HIDE DEF load
<1> QED
  BY <1>1, <1>2, <1>3, <1>4, LoadKeeps

LEMMA CreateCardKeeps ==
  ASSUME TestsInv, NEW r \in Load, Tests!CreateCard(r)
  PROVE  TestsInv'
<1>line. PICK line : line = Tests!Min(Tests!OfGateway(loads[r].slug, loads[r].left))
  OBVIOUS
<1>rest. PICK left : left = loads[r].left \ {line}
  OBVIOUS
<1> DEFINE card == Tests!CardAt(line)
<1>1. /\ loads[r].stage = "loading" /\ UNCHANGED reader
      /\ cards' = IF Tests!Taken(card) THEN cards ELSE cards \cup {card}
      /\ Tests!Goes(r, left)
  BY <1>line, <1>rest DEF Tests!CreateCard
<1>2. IsFiniteSet(cards') /\ cards \subseteq cards'
  BY <1>1, FS_AddElement DEF TestsInv
<1>3. \E c \in cards' : c.slug = card.slug /\ c.pan = card.pan
  BY <1>1 DEF Tests!Taken
<1>4. Loaded(line)'
  BY <1>3 DEF Loaded, Tests!Taken, Tests!CardAt, Tests!parseTableRow, Tests!HeaderOf
<1>5. \A i \in Tests!Parsed \ loads[r].left : Loaded(i)
  BY <1>1 DEF TestsInv, LoadInv, Loading
<1> HIDE DEF card
<1>6. ASSUME NEW i \in Tests!Parsed \ left PROVE Loaded(i)'
  <2>1. CASE i = line
    BY <1>4, <2>1
  <2>2. CASE i # line
    <3>1. Loaded(i)
      BY <1>5, <1>rest, <2>2
    <3> QED
      BY <1>2, <3>1 DEF Loaded, Tests!Taken, Tests!CardAt, Tests!parseTableRow, Tests!HeaderOf
  <2> QED
    BY <2>1, <2>2
<1>7. CASE left = {}
  <2>1. Tests!Moves(r, "done", "", left)
    BY <1>1, <1>7 DEF Tests!Goes
  <2> QED
    BY <1>1, <1>2, <1>6, <1>7, <2>1, MovesKeeps DEF Loading
<1>8. CASE left # {}
  <2>1. ASSUME NEW where \in Loading, NEW slug, Tests!Moves(r, where, slug, left) PROVE TestsInv'
    <3>1. where # "done"
      BY DEF Loading
    <3> QED
      BY <1>1, <1>2, <1>6, <2>1, <3>1, MovesKeeps
  <2>2. "loading" \in Loading /\ "finding" \in Loading
    BY DEF Loading
  <2> QED
    BY <1>1, <1>8, <2>1, <2>2 DEF Tests!Goes
<1> QED
  BY <1>7, <1>8

\* The other steps of a run add no row.
LEMMA RunKeeps ==
  ASSUME TestsInv, NEW r \in Load,
         Tests!FindGateway(r) \/ Tests!CreateGateway(r) \/ Tests!LoadFails(r)
  PROVE  TestsInv'
<1>1. UNCHANGED <<cards, reader>> /\ loads[r].stage \in Loading
  BY DEF Tests!FindGateway, Tests!CreateGateway, Tests!LoadFails, Loading
<1>2. IsFiniteSet(cards') /\ cards \subseteq cards'
  BY <1>1 DEF TestsInv
<1>3. PICK left : left = loads[r].left
  OBVIOUS
<1>4. \A i \in Tests!Parsed \ left : Loaded(i)'
  BY <1>1, <1>3 DEF TestsInv, LoadInv, Loaded, Tests!Taken
<1>5. ASSUME NEW where \in Loading, Tests!Moves(r, where, loads[r].slug, left) PROVE TestsInv'
  <2>1. where # "done"
    BY DEF Loading
  <2> QED
    BY <1>1, <1>2, <1>4, <1>5, <2>1, MovesKeeps
<1>6. ASSUME Tests!Fails(r) PROVE TestsInv'
  <2>1. Tests!Moves(r, "failed", "", {}) /\ "failed" \notin Loading /\ "failed" # "done"
    BY <1>6 DEF Tests!Fails, Loading
  <2> QED
    BY <1>1, <1>2, <2>1, MovesKeeps
<1>7. "loading" \in Loading /\ "creating" \in Loading
  BY DEF Loading
<1>8. CASE Tests!FindGateway(r)
  BY <1>3, <1>5, <1>7, <1>8 DEF Tests!FindGateway
<1>9. CASE Tests!CreateGateway(r)
  BY <1>3, <1>5, <1>6, <1>7, <1>9 DEF Tests!CreateGateway
<1> QED
  BY <1>6, <1>8, <1>9 DEF Tests!LoadFails

\* The reader does nothing to the rows.
LEMMA ReadingKeeps ==
  ASSUME TestsInv, UNCHANGED <<cards, loads>>, ReaderInv'
  PROVE  TestsInv'
BY DEF TestsInv, LoadInv, Loaded, Tests!Taken

LEMMA BeginKeeps ==
  ASSUME TestsInv, Tests!Begin
  PROVE  TestsInv'
<1>1. UNCHANGED <<cards, loads>> /\ reader.stage = "new" /\ reader' = [reader EXCEPT !.stage = "ready", !.began = cards]
  BY DEF Tests!Begin
<1>2. reader \in ReaderOf(cards) /\ reader.offset = 0
  BY <1>1 DEF TestsInv, ReaderInv
<1>3. /\ reader' \in ReaderOf(cards) /\ reader'.stage = "ready" /\ reader'.offset = 0
      /\ reader'.began = cards
  BY <1>1, <1>2 DEF ReaderOf
<1>4. SeenUpTo(0)'
  <2>1. \A c \in cards : Tests!Rank(c) \in Nat /\ Tests!Rank(c) >= 1
    BY RankIsPlace DEF TestsInv
  <2>2. \A c \in cards' : Tests!Rank(c)' \in Nat /\ Tests!Rank(c)' >= 1
    BY <1>1, <2>1 DEF Tests!Rank, Tests!Before, Tests!Index
  <2> QED
    BY <1>1, <1>3, <2>2 DEF SeenUpTo
<1>5. ReaderInv'
  BY <1>1, <1>3, <1>4 DEF ReaderInv, ReaderOf
<1> QED
  BY <1>1, <1>5, ReadingKeeps

\* What the reader sees when it reads a page.
LEMMA PageCovers ==
  ASSUME TestsInv, NEW c \in reader.began
  PROVE  Tests!Rank(c) <= reader.offset + Tests!PageSize => c \in reader.seen \cup Tests!Page
<1>1. Tests!Rank(c) \in Nat /\ reader.offset \in Nat /\ c \in cards
  BY RankIsPlace DEF TestsInv, ReaderInv, ReaderOf
<1>2. Tests!Rank(c) <= reader.offset => c \in reader.seen
  BY DEF TestsInv, ReaderInv, SeenUpTo
<1> QED
  BY <1>1, <1>2 DEF Tests!Page

LEMMA SearchFirstKeeps ==
  ASSUME TestsInv, Tests!SearchFirst
  PROVE  TestsInv'
<1>1. UNCHANGED <<cards, loads>> /\ reader.stage = "ready"
  BY DEF Tests!SearchFirst
<1>2. reader \in ReaderOf(cards) /\ Cardinality(cards) \in Nat /\ Tests!Page \subseteq cards
  BY RankIsPlace DEF TestsInv, ReaderInv, Tests!Page
<1>3. SeenUpTo(reader.offset)
  BY DEF TestsInv, ReaderInv
<1>4. \A c : Tests!Rank(c)' = Tests!Rank(c)
  BY <1>1 DEF Tests!Rank, Tests!Before, Tests!Index
<1>5. CASE reader' = [reader EXCEPT !.stage = "counted", !.total = Cardinality(cards), !.count = Cardinality(cards)]
  <2>1. /\ reader' \in ReaderOf(cards) /\ reader'.stage = "counted" /\ reader'.total = reader'.count
        /\ reader'.offset = reader.offset /\ reader'.began = reader.began /\ reader'.seen = reader.seen
    BY <1>2, <1>5 DEF ReaderOf
  <2>2. SeenUpTo(reader.offset)'
    BY <1>3, <1>4, <2>1 DEF SeenUpTo
  <2>3. ReaderInv'
    BY <1>1, <2>1, <2>2 DEF ReaderInv, ReaderOf
  <2> QED
    BY <1>1, <2>3, ReadingKeeps
<1>6. CASE reader' = [reader EXCEPT !.stage = "fetched", !.seen = @ \cup Tests!Page, !.count = Cardinality(cards)]
  <2>1. /\ reader' \in ReaderOf(cards) /\ reader'.stage = "fetched"
        /\ reader'.offset = reader.offset /\ reader'.began = reader.began
        /\ reader'.seen = reader.seen \cup Tests!Page
    BY <1>2, <1>6 DEF ReaderOf
  <2>2. SeenUpTo(reader.offset)'
    BY <1>3, <1>4, <2>1 DEF SeenUpTo
  <2>3. SeenUpTo(reader.offset + Tests!PageSize)'
    BY <1>4, <2>1, PageCovers DEF SeenUpTo, Tests!PageSize
  <2>4. ReaderInv'
    BY <1>1, <2>1, <2>2, <2>3 DEF ReaderInv, ReaderOf, Tests!PageSize
  <2> QED
    BY <1>1, <2>4, ReadingKeeps
<1> QED
  BY <1>5, <1>6, RowsAreCounted DEF Tests!SearchFirst

\* After both queries everything up to the end of the page has been seen, and
\* if both found the same number of rows the last page reaches the last row.
LEMMA SearchSecondKeeps ==
  ASSUME TestsInv, Tests!SearchSecond
  PROVE  TestsInv'
<1> DEFINE total == IF reader.stage = "counted" THEN reader.total ELSE Cardinality(cards)
           seen == IF reader.stage = "counted" THEN reader.seen \cup Tests!Page ELSE reader.seen
           more == Tests!HasMore(total)
           next == reader.offset + Tests!PageSize
<1>1. /\ UNCHANGED <<cards, loads>> /\ reader.stage \in {"counted", "fetched"}
      /\ reader' = [reader EXCEPT !.stage = IF more THEN "ready" ELSE "done", !.seen = seen,
                                  !.offset = IF more THEN next ELSE reader.offset, !.total = 0, !.count = 0,
                                  !.torn = reader.torn \/ Cardinality(cards) # reader.count]
  BY RowsAreCounted DEF Tests!SearchSecond
<1>2. reader \in ReaderOf(cards) /\ Cardinality(cards) \in Nat /\ seen \in SUBSET cards
  BY RankIsPlace DEF TestsInv, ReaderInv, ReaderOf, Tests!Page
<1>3. \A c : Tests!Rank(c)' = Tests!Rank(c)
  BY <1>1 DEF Tests!Rank, Tests!Before, Tests!Index
<1>4. \A c \in reader.began : Tests!Rank(c) <= next => c \in seen
  <2>1. CASE reader.stage = "counted"
    BY <2>1, PageCovers
  <2>2. CASE reader.stage # "counted"
    BY <1>1, <2>2 DEF TestsInv, ReaderInv, SeenUpTo
  <2> QED
    BY <2>1, <2>2
<1>5. \A c \in reader.began : Tests!Rank(c) <= reader.offset => c \in seen
  BY DEF TestsInv, ReaderInv, SeenUpTo
<1>6. next \in Nat
  BY <1>2, PageSizeIsNumber DEF ReaderOf
<1>7. total \in Nat /\ (more <=> total > next)
  BY <1>2 DEF ReaderOf, Tests!HasMore
<1>8. ~more /\ Cardinality(cards) = reader.count => reader.began \subseteq seen
  <2> SUFFICES ASSUME ~more, Cardinality(cards) = reader.count, NEW c \in reader.began PROVE c \in seen
    OBVIOUS
  <2>1. total = Cardinality(cards)
    BY DEF TestsInv, ReaderInv
  <2>2. Tests!Rank(c) \in Nat /\ Tests!Rank(c) <= Cardinality(cards)
    BY RankIsPlace DEF TestsInv
  <2> QED
    BY <1>2, <1>4, <1>6, <1>7, <2>1, <2>2
<1> HIDE DEF total, seen, more, next
<1>9. /\ reader' \in ReaderOf(cards) /\ reader'.stage = (IF more THEN "ready" ELSE "done")
      /\ reader'.offset = (IF more THEN next ELSE reader.offset)
      /\ reader'.seen = seen /\ reader'.began = reader.began
      /\ reader'.torn = (reader.torn \/ Cardinality(cards) # reader.count)
  <2>1. (reader.torn \/ Cardinality(cards) # reader.count) \in BOOLEAN
    BY <1>2 DEF ReaderOf
  <2> QED
    BY <1>1, <1>2, <1>6, <2>1 DEF ReaderOf
<1>10. SeenUpTo(reader.offset)'
  BY <1>3, <1>4, <1>5, <1>9 DEF SeenUpTo
<1>11. reader'.stage = "done" /\ ~reader'.torn => reader'.began \subseteq reader'.seen
  BY <1>8, <1>9
<1>12. ReaderInv'
  BY <1>1, <1>9, <1>10, <1>11 DEF ReaderInv, ReaderOf
<1> QED
  BY <1>1, <1>12, ReadingKeeps

LEMMA TestsNextKeeps == TestsInv /\ [Tests!Next]_Tests!vars => TestsInv'
<1> SUFFICES ASSUME TestsInv, [Tests!Next]_Tests!vars PROVE TestsInv'
  OBVIOUS
<1>1. CASE UNCHANGED Tests!vars
  <2>1. UNCHANGED <<cards, loads, reader>> /\ IsFiniteSet(cards')
    BY <1>1 DEF Tests!vars, TestsInv
  <2>2. ReaderInv'
    BY <2>1, ReaderKeeps DEF TestsInv
  <2> QED
    BY <2>1, <2>2, ReadingKeeps
<1> QED
  BY <1>1, StartKeeps, CreateCardKeeps, RunKeeps, BeginKeeps, SearchFirstKeeps, SearchSecondKeeps DEF Tests!Next

\* A run of the ETL that came to its end has loaded every card of the file,
\* whatever others loaded, skipped and failed on (testCardsETL.ts:290).
THEOREM DoneLoadsAll == TestsSpec => []DoneIsLoaded
<1>1. TestsInv => DoneIsLoaded
  BY DEF TestsInv, LoadInv, Loaded, DoneIsLoaded, Tests!DoneIsLoaded
<1> QED
  BY <1>1, InitTestsInv, TestsNextKeeps, PTL DEF TestsSpec

\* Whoever turns the pages while cards are inserted misses none that was there
\* at the beginning, as long as the two queries of each page agree about the
\* number of rows (testCard.ts:258).
THEOREM PagesCoverAll == TestsSpec => []PagesMissNothing
<1>1. TestsInv => PagesMissNothing
  BY DEF TestsInv, ReaderInv, PagesMissNothing, Tests!PagesMissNothing
<1> QED
  BY <1>1, InitTestsInv, TestsNextKeeps, PTL DEF TestsSpec

-----------------------------------------------------------------------------
(* Sums over a set, by induction on its size: a set of numbers has a least    *)
(* one, so that no number is the first for which something does not hold.     *)

LEMMA LeastNumber ==
  ASSUME NEW S \in SUBSET Nat, S # {}
  PROVE  \E n \in S : \A m \in S : n <= m
<1> DEFINE R == {p \in Nat \X Nat : p[1] < p[2]}
<1>1. IsWellFoundedOn(R, Nat)
  BY NatLessThanWellFounded DEF OpToRel
<1> HIDE DEF R
<1>2. PICK n \in S : \A m \in S : <<m, n>> \notin R
  BY <1>1, WFMin
<1>3. \A m \in S : ~(m < n)
  BY <1>2 DEF R
<1> QED
  BY <1>3

\* Induction on numbers, for a set.
LEMMA NumberInduction ==
  ASSUME NEW S, 0 \in S, \A n \in Nat : n \in S => n + 1 \in S
  PROVE  Nat \subseteq S
<1> SUFFICES ASSUME Nat \ S # {} PROVE FALSE
  OBVIOUS
<1>1. PICK n \in Nat \ S : \A m \in Nat \ S : n <= m
  BY LeastNumber
<1>2. n # 0 /\ n - 1 \in Nat
  BY <1>1
<1>3. n - 1 \in S
  BY <1>1, <1>2
<1> QED
  BY <1>1, <1>2, <1>3

OneOf(s) == CHOOSE x \in s : TRUE

\* A sum adds one element after the other.
LEMMA SumIsFold ==
  ASSUME NEW S, IsFiniteSet(S), NEW fun, \A x \in S : fun[x] \in Int
  PROVE  \E sum \in [SUBSET S -> Int] :
           /\ \A s \in SUBSET S :
                sum[s] = IF s = {} THEN 0 ELSE fun[OneOf(s)] + sum[s \ {OneOf(s)}]
           /\ Identities!SumFunctionOnSet(fun, S) = sum[S]
<1> DEFINE D(n) == {s \in SUBSET S : Cardinality(s) <= n}
           Folds(g, n) == \A s \in D(n) :
                            g[s] = IF s = {} THEN 0 ELSE fun[OneOf(s)] + g[s \ {OneOf(s)}]
           N == {n \in Nat : \E g \in [D(n) -> Int] : Folds(g, n)}
<1>1. \A s \in SUBSET S : IsFiniteSet(s) /\ Cardinality(s) \in Nat
  BY FS_Subset, FS_CardinalityType
<1>2. \A s \in SUBSET S : s # {} =>
        OneOf(s) \in s /\ Cardinality(s \ {OneOf(s)}) = Cardinality(s) - 1
  BY <1>1, FS_RemoveElement DEF OneOf
<1>3. 0 \in N
  <2>1. \A s \in D(0) : s = {}
    BY <1>1, FS_EmptySet
  <2>2. [s \in D(0) |-> 0] \in [D(0) -> Int] /\ Folds([s \in D(0) |-> 0], 0)
    BY <2>1
  <2> QED
    BY <2>2
<1>4. ASSUME NEW n \in Nat, n \in N PROVE n + 1 \in N
  <2>1. PICK g \in [D(n) -> Int] : Folds(g, n)
    BY <1>4
  <2> DEFINE h == [s \in D(n + 1) |-> IF s = {} THEN 0 ELSE fun[OneOf(s)] + g[s \ {OneOf(s)}]]
  <2>2. \A s \in D(n + 1) : s # {} => s \ {OneOf(s)} \in D(n) /\ fun[OneOf(s)] \in Int
    BY <1>1, <1>2
  <2>3. h \in [D(n + 1) -> Int]
    BY <2>2
  <2>4. \A s \in D(n) : s \in D(n + 1) /\ h[s] = g[s]
    BY <1>1, <2>1
  <2>5. Folds(h, n + 1)
    BY <2>2, <2>4
  <2> HIDE DEF h
  <2>6. \E f \in [D(n + 1) -> Int] : Folds(f, n + 1)
    <3> HIDE DEF D
    <3> QED
      BY <2>3, <2>5
  <2>7. n + 1 \in Nat
    OBVIOUS
  <2> HIDE DEF Folds, D
  <2> QED
    BY <2>6, <2>7
<1>5. PICK n \in Nat : n = Cardinality(S)
  BY <1>1
<1>6. n \in N
  <2> HIDE DEF N
  <2> QED
    BY <1>3, <1>4, NumberInduction
<1>7. D(n) = SUBSET S
  BY <1>5, FS_Subset, <1>1
<1> DEFINE Eq(g) == g = [s \in SUBSET S |->
                            IF s = {} THEN 0 ELSE fun[OneOf(s)] + g[s \ {OneOf(s)}]]
<1>8. PICK g \in [SUBSET S -> Int] : Eq(g)
  <2>1. PICK g \in [D(n) -> Int] : Folds(g, n)
    BY <1>6
  <2> QED
    BY <1>7, <2>1
<1> DEFINE sum == CHOOSE iter : Eq(iter)
<1>9. Identities!SumFunctionOnSet(fun, S) = sum[S]
  BY DEF Identities!SumFunctionOnSet, Identities!FoldFunctionOnSet, Identities!MapThenFoldSet, OneOf
<1>10. Eq(sum)
  BY <1>8
<1> HIDE DEF sum
<1>11. \A s \in SUBSET S : sum[s] = g[s]
  <2> DEFINE M == {k \in Nat : \A s \in D(k) : sum[s] = g[s]}
  <2>1. 0 \in M
    <3>1. \A s \in D(0) : s = {}
      BY <1>1, FS_EmptySet
    <3> QED
      BY <3>1, <1>8, <1>10
  <2>2. ASSUME NEW k \in Nat, k \in M PROVE k + 1 \in M
    <3>1. ASSUME NEW s \in D(k + 1) PROVE sum[s] = g[s]
      <4>1. s # {} => s \ {OneOf(s)} \in D(k)
        BY <1>1, <1>2
      <4>2. s # {} => sum[s \ {OneOf(s)}] = g[s \ {OneOf(s)}]
        BY <4>1, <2>2
      <4> QED
        BY <4>2, <1>8, <1>10
    <3> QED
      BY <3>1
  <2>3. n \in M
    <3> HIDE DEF M
    <3> QED
      BY <2>1, <2>2, NumberInduction
  <2> QED
    BY <2>3, <1>7
<1>12. sum \in [SUBSET S -> Int]
  BY <1>8, <1>10, <1>11
<1> QED
  BY <1>9, <1>10, <1>12

\* A sum of natural numbers is one, and nothing adds up to 0.
LEMMA SumOfNumbers ==
  ASSUME NEW S, IsFiniteSet(S), NEW fun, \A x \in S : fun[x] \in Nat
  PROVE  /\ Identities!SumFunctionOnSet(fun, S) \in Nat
         /\ S = {} => Identities!SumFunctionOnSet(fun, S) = 0
<1>0. \A x \in S : fun[x] \in Int
  OBVIOUS
<1>sum. PICK sum \in [SUBSET S -> Int] :
        /\ \A s \in SUBSET S :
             sum[s] = IF s = {} THEN 0 ELSE fun[OneOf(s)] + sum[s \ {OneOf(s)}]
        /\ Identities!SumFunctionOnSet(fun, S) = sum[S]
  BY <1>0, SumIsFold
<1>1. /\ \A s \in SUBSET S : s = {} => sum[s] = 0
      /\ \A s \in SUBSET S : s # {} => sum[s] = fun[OneOf(s)] + sum[s \ {OneOf(s)}]
      /\ Identities!SumFunctionOnSet(fun, S) = sum[S]
  BY <1>sum
<1>2. \A s \in SUBSET S : Cardinality(s) \in Nat /\ (Cardinality(s) = 0 <=> s = {})
  BY FS_Subset, FS_CardinalityType, FS_EmptySet
<1>3. \A s \in SUBSET S : s # {} =>
        OneOf(s) \in S /\ s \ {OneOf(s)} \in SUBSET S /\ Cardinality(s \ {OneOf(s)}) = Cardinality(s) - 1
  BY FS_Subset, FS_RemoveElement DEF OneOf
<1> DEFINE N == {n \in Nat : \A s \in SUBSET S : Cardinality(s) <= n => sum[s] \in Nat}
<1>4. 0 \in N
  <2> SUFFICES ASSUME NEW s \in SUBSET S, Cardinality(s) <= 0 PROVE sum[s] \in Nat
    OBVIOUS
  <2>1. s = {}
    BY <1>2
  <2> QED
    BY <1>1, <2>1
<1>5. ASSUME NEW n \in Nat, n \in N PROVE n + 1 \in N
  <2> SUFFICES ASSUME NEW s \in SUBSET S, Cardinality(s) <= n + 1, s # {} PROVE sum[s] \in Nat
    BY <1>1
  <2>1. sum[s \ {OneOf(s)}] \in Nat
    BY <1>2, <1>3, <1>5
  <2>2. fun[OneOf(s)] \in Nat
    BY <1>3
  <2>3. sum[s] = fun[OneOf(s)] + sum[s \ {OneOf(s)}]
    BY <1>1
  <2> QED
    BY <2>1, <2>2, <2>3
<1>6. Cardinality(S) \in N
  <2> HIDE DEF N
  <2> QED
    BY <1>2, <1>4, <1>5, NumberInduction
<1> QED
  BY <1>1, <1>2, <1>6

-----------------------------------------------------------------------------
(* Identity: a proof is valid until a verification refuses it, and what is     *)
(* valid counts for at least 5 points of 100.                                  *)

IdentitySpec == Identities!Init /\ [][Identities!Next]_Identities!identityVars

ProofRecord ==
  [sessionId : Holder, type : DOMAIN Identities!Weights, sound : BOOLEAN, confidence : Int, isValid : BOOLEAN]
Verdict == {"none", "valid", "refused"}

IdentityInv ==
  /\ proofs \in Seq(ProofRecord) /\ answers \in Seq(Verdict)
  /\ Len(answers) = Len(proofs)
  /\ \A i \in 1..Len(proofs) : proofs[i].isValid <=> answers[i] # "refused"

LEMMA InitIdentityInv == Identities!Init => IdentityInv
BY DEF Identities!Init, IdentityInv

LEMMA CreateProofKeeps ==
  ASSUME IdentityInv, NEW s \in Holder, NEW proof \in Proofs, Identities!CreateProof(s, proof)
  PROVE  IdentityInv'
<1> DEFINE record == [sessionId |-> s, type |-> proof.type, sound |-> proof.sound,
                      confidence |-> proof.confidence, isValid |-> TRUE]
<1>1. proofs' = Append(proofs, record) /\ answers' = Append(answers, "none")
  BY DEF Identities!CreateProof
<1>2. record \in ProofRecord /\ record.isValid
  BY ProofsAssumption DEF ProofRecord
<1>3. "none" \in Verdict /\ "none" # "refused"
  BY DEF Verdict
<1>4. proofs \in Seq(ProofRecord) /\ answers \in Seq(Verdict) /\ Len(answers) = Len(proofs)
  BY DEF IdentityInv
<1> HIDE DEF record
<1>5. proofs' \in Seq(ProofRecord) /\ answers' \in Seq(Verdict) /\ Len(answers') = Len(proofs') /\ Len(proofs') = Len(proofs) + 1
  BY <1>1, <1>2, <1>3, <1>4
<1>6. ASSUME NEW i \in 1..Len(proofs') PROVE proofs'[i].isValid <=> answers'[i] # "refused"
  <2>1. CASE i \in 1..Len(proofs)
    <3>1. proofs'[i] = proofs[i] /\ answers'[i] = answers[i]
      BY <1>1, <1>4, <2>1
    <3> QED
      BY <2>1, <3>1 DEF IdentityInv
  <2>2. CASE i = Len(proofs) + 1
    <3>1. proofs'[i] = record /\ answers'[i] = "none"
      BY <1>1, <1>4, <2>2
    <3> QED
      BY <1>2, <1>3, <3>1
  <2>3. Len(proofs) \in Nat
    BY <1>4
  <2> QED
    BY <1>5, <2>1, <2>2, <2>3
<1> QED
  BY <1>5, <1>6 DEF IdentityInv

LEMMA VerifyProofKeeps ==
  ASSUME IdentityInv, NEW i, Identities!VerifyProof(i)
  PROVE  IdentityInv'
<1>1. proofs \in Seq(ProofRecord) /\ answers \in Seq(Verdict) /\ Len(answers) = Len(proofs)
  BY DEF IdentityInv
<1>2. PICK valid \in Identities!Outcomes(proofs[i]) :
        /\ proofs' = [proofs EXCEPT ![i].isValid = valid]
        /\ answers' = [answers EXCEPT ![i] = IF valid THEN "valid" ELSE "refused"]
  BY DEF Identities!VerifyProof
<1>3. i \in 1..Len(proofs) /\ proofs[i] \in ProofRecord
  BY <1>1 DEF Identities!VerifyProof
<1>4. valid \in BOOLEAN
  <2>1. proofs[i].sound \in BOOLEAN /\ proofs[i].confidence \in Int
    BY <1>3 DEF ProofRecord
  <2>2. (proofs[i].confidence > 5) \in BOOLEAN
    OBVIOUS
  <2> QED
    BY <1>2, <2>1, <2>2 DEF Identities!Outcomes
<1> DEFINE proof == [proofs[i] EXCEPT !.isValid = valid]
           verdict == IF valid THEN "valid" ELSE "refused"
<1>5. proof \in ProofRecord /\ proof.isValid = valid /\ verdict \in Verdict /\ (valid <=> verdict # "refused")
  BY <1>3, <1>4 DEF ProofRecord, Verdict
<1>6. proofs' = [proofs EXCEPT ![i] = proof] /\ answers' = [answers EXCEPT ![i] = verdict]
  BY <1>2
<1> HIDE DEF proof, verdict
<1>7. proofs' \in Seq(ProofRecord) /\ answers' \in Seq(Verdict) /\ Len(answers') = Len(proofs') /\ Len(proofs') = Len(proofs)
  BY <1>1, <1>3, <1>5, <1>6
<1>8. ASSUME NEW j \in 1..Len(proofs') PROVE proofs'[j].isValid <=> answers'[j] # "refused"
  <2>1. CASE j = i
    BY <1>1, <1>3, <1>5, <1>6, <2>1
  <2>2. CASE j # i
    <3>1. proofs'[j] = proofs[j] /\ answers'[j] = answers[j]
      BY <1>1, <1>6, <1>7, <2>2
    <3> QED
      BY <1>7, <3>1 DEF IdentityInv
  <2> QED
    BY <2>1, <2>2
<1> QED
  BY <1>7, <1>8 DEF IdentityInv

LEMMA IdentityNextKeeps == IdentityInv /\ [Identities!Next]_Identities!identityVars => IdentityInv'
<1> SUFFICES ASSUME IdentityInv, [Identities!Next]_Identities!identityVars PROVE IdentityInv'
  OBVIOUS
<1>1. ASSUME UNCHANGED <<proofs, answers>> PROVE IdentityInv'
  BY <1>1 DEF IdentityInv
<1>2. CASE \/ \E platform \in Platforms : Identities!RegisterDevice(platform)
           \/ \E s \in Holder, b \in Patterns, hour \in PatternHours : Identities!AnalyzeBehavior(s, b, hour)
           \/ Identities!Cleanup
           \/ Identities!Tick
  BY <1>1, <1>2 DEF Identities!RegisterDevice, Identities!AnalyzeBehavior, Identities!Cleanup, Identities!Tick
<1>3. CASE UNCHANGED Identities!identityVars
  BY <1>1, <1>3 DEF Identities!identityVars
<1> QED
  BY <1>2, <1>3, CreateProofKeeps, VerifyProofKeeps DEF Identities!Next

LEMMA PlacesAreFinite ==
  ASSUME NEW n \in Nat
  PROVE  IsFiniteSet(1..n)
BY FS_Interval

LEMMA LesserOfTwo ==
  ASSUME NEW a \in Int, NEW b \in Int
  PROVE  Identities!Min({a, b}) = IF a <= b THEN a ELSE b
<1>1. \E x \in {a, b} : \A y \in {a, b} : x <= y
  OBVIOUS
<1>2. Identities!Min({a, b}) \in {a, b} /\ \A y \in {a, b} : Identities!Min({a, b}) <= y
  BY <1>1 DEF Identities!Min
<1> QED
  BY <1>2

LEMMA ProductOfNumbers ==
  ASSUME NEW a \in Nat, NEW b \in Nat
  PROVE  a * b \in Nat
OBVIOUS

\* The score as a number of valid proofs and their points.
Score(points, n) ==
  Identities!Min({points + 10 * Identities!Min({5 * n, 30}), 1000})
LEMMA ScoreIsEarned ==
  ASSUME NEW points \in Nat, NEW n \in Nat, n = 0 => points = 0
  PROVE  Score(points, n) > 0 <=> n # 0
<1>1. Identities!Min({5 * n, 30}) = IF 5 * n <= 30 THEN 5 * n ELSE 30
  BY LesserOfTwo, 5 * n \in Int
<1>2. PICK m \in Nat : m = Identities!Min({5 * n, 30}) /\ (m > 0 <=> n # 0)
  BY <1>1
<1>3. PICK all \in Nat : all = points + 10 * m
  OBVIOUS
<1>4. all > 0 <=> n # 0
  BY <1>2, <1>3
<1>5. Score(points, n) = Identities!Min({all, 1000})
  BY <1>2, <1>3 DEF Score
<1> QED
  BY <1>4, <1>5, LesserOfTwo

\* As long as no confidence is below 0, a session has trust exactly as long as
\* one of its proofs is not refused (zeroTrust.ts:calculateTrustScore).
THEOREM TrustNeedsProof == IdentitySpec => []TrustIsEarned
<1>1. ASSUME IdentityInv PROVE TrustIsEarned
  <2> SUFFICES ASSUME NEW s \in Holder, \A i \in Identities!ProofsOf(s) : proofs[i].confidence >= 0
               PROVE  (Identities!calculateTrustScore(s) > 0)
                        <=> {i \in Identities!ProofsOf(s) : answers[i] # "refused"} # {}
    BY DEF TrustIsEarned, Identities!TrustIsEarned
  <2> DEFINE valid == {i \in Identities!ProofsOf(s) : proofs[i].isValid}
             worth == [i \in valid |-> Identities!Weights[proofs[i].type] * proofs[i].confidence]
  <2>1. valid = {i \in Identities!ProofsOf(s) : answers[i] # "refused"}
    BY <1>1 DEF IdentityInv, Identities!ProofsOf
  <2>2. valid \subseteq 1..Len(proofs) /\ Len(proofs) \in Nat
    BY <1>1 DEF IdentityInv, Identities!ProofsOf
  <2>3. IsFiniteSet(valid)
    <3>1. IsFiniteSet(1..Len(proofs))
      BY <2>2, PlacesAreFinite
    <3> HIDE DEF valid
    <3> QED
      BY <2>2, <3>1, FS_Subset
  <2>4. ASSUME NEW i \in valid PROVE worth[i] \in Nat
    <3>1. proofs[i] \in ProofRecord /\ proofs[i].confidence >= 0
      BY <1>1, <2>2 DEF IdentityInv
    <3>2. proofs[i].confidence \in Nat /\ Identities!Weights[proofs[i].type] \in Nat
      BY <3>1 DEF ProofRecord, Identities!Weights
    <3>3. worth[i] = Identities!Weights[proofs[i].type] * proofs[i].confidence
      OBVIOUS
    <3> QED
      BY <3>2, <3>3, ProductOfNumbers
  <2>5. Identities!calculateTrustScore(s)
          = Score(Identities!SumFunctionOnSet(worth, valid), Identities!Cardinality(valid))
    BY DEF Identities!calculateTrustScore, Score
  <2> HIDE DEF valid, worth
  <2>6. /\ Identities!SumFunctionOnSet(worth, valid) \in Nat
        /\ valid = {} => Identities!SumFunctionOnSet(worth, valid) = 0
    BY <2>3, <2>4, SumOfNumbers
  <2>7. Identities!Cardinality(valid) \in Nat /\ (Identities!Cardinality(valid) = 0 <=> valid = {})
    <3>1. Identities!Cardinality(valid) = Cardinality(valid)
      BY DEF Identities!Cardinality, Cardinality
    <3> QED
      BY <2>3, <3>1, FS_CardinalityType, FS_EmptySet
  <2> QED
    BY <2>1, <2>5, <2>6, <2>7, ScoreIsEarned
<1> QED
  BY <1>1, InitIdentityInv, IdentityNextKeeps, PTL DEF IdentitySpec

-----------------------------------------------------------------------------
(* The golden set: what it says of a BIN comes from the rows, of which each   *)
(* group of equal values has a size and a weight, so that one is the best.    *)
(* Both measurements are of the table as long as it does not change.          *)

GoldenSpec == Golden!Init /\ [][Golden!Next]_Golden!goldenVars

Running == {"at", "records", "exact", "answers"}
Measured == {"at", "records", "exact", "counted", "correct", "gaps"}
Comparing == {"at", "records", "exact", "left", "matched", "mismatched"}
FieldsOf(run, b) == run.records[b].fields

RecordsAreVerified ==
  goldenSet # None /\ goldenSet.mode \in {"core", "all"} =>
    \A b \in DOMAIN goldenSet.records : goldenSet.records[b].method = "cross-source" =>
      Golden!Admitted(goldenSet.mode, Golden!Verified(b)) /\ goldenSet.records[b].fields = Golden!Verified(b)

BaselineIsExact ==
  /\ baseline.at = "running" =>
       DOMAIN baseline = Running /\ (baseline.exact => \A b \in DOMAIN baseline.answers : baseline.answers[b] = table[b])
  /\ baseline.at = "done" =>
       DOMAIN baseline = Measured /\
       (baseline.exact => baseline.correct \subseteq Golden!Correct(baseline.records, table))

ComparisonIsExact ==
  comparison.at \in {"running", "done"} =>
    /\ DOMAIN comparison = Comparing
    /\ comparison.at = "done" => comparison.left = {}
    /\ comparison.exact =>
         /\ \A c \in comparison.mismatched :
              c[2] \in Golden!Compared(FieldsOf(comparison, c[1])) \ Golden!Matching(FieldsOf(comparison, c[1]), table[c[1]])
         /\ \A b \in DOMAIN comparison.records \ comparison.left : table[b] # None =>
              \A f \in Golden!Matching(FieldsOf(comparison, b), table[b]) : <<b, f>> \in comparison.matched

GoldenInv ==
  /\ listings \in Sources
  /\ RecordsAreVerified
  /\ DOMAIN baseline \in {{"at", "exact"}, Running, Measured}
  /\ DOMAIN comparison \in {{"at", "exact"}, Comparing}
  /\ BaselineIsExact /\ ComparisonIsExact

LEMMA InitGoldenInv == Golden!Init => GoldenInv
<1> SUFFICES ASSUME Golden!Init PROVE GoldenInv
  OBVIOUS
<1>1. baseline = Golden!Idle /\ comparison = Golden!Idle /\ goldenSet = None /\ listings \in Sources
  BY DEF Golden!Init
<1>2. Golden!Idle.at = "none" /\ DOMAIN Golden!Idle = {"at", "exact"}
  BY DEF Golden!Idle
<1> QED
  BY <1>1, <1>2 DEF GoldenInv, RecordsAreVerified, BaselineIsExact, ComparisonIsExact

\* What nobody touches stays as it is.
LEMMA RowsDecide ==
  ASSUME UNCHANGED listings, NEW b
  PROVE  Golden!Verified(b)' = Golden!Verified(b)
BY DEF Golden!Verified, Golden!VerifyField, Golden!Best, Golden!GoesBefore, Golden!Backing, Golden!Weight,
       Golden!Giving, Golden!Values, Golden!RowsOf

LEMMA VerifiedStay ==
  ASSUME RecordsAreVerified, UNCHANGED <<listings, goldenSet>>
  PROVE  RecordsAreVerified'
<1>1. \A b : Golden!Verified(b)' = Golden!Verified(b)
  BY RowsDecide
<1> QED
  BY <1>1 DEF RecordsAreVerified, Golden!Admitted, Golden!Backed

LEMMA BaselineStays ==
  ASSUME BaselineIsExact, UNCHANGED <<baseline, table>>
  PROVE  BaselineIsExact'
BY DEF BaselineIsExact, Golden!Correct, Golden!Counted

LEMMA ComparisonStays ==
  ASSUME ComparisonIsExact, UNCHANGED <<comparison, table>>
  PROVE  ComparisonIsExact'
BY DEF ComparisonIsExact, FieldsOf, Golden!Matching, Golden!Compared

LEMMA GenerateFromSourcesKeeps ==
  ASSUME GoldenInv, NEW mode, NEW fill, Golden!GenerateFromSources(mode, fill)
  PROVE  GoldenInv'
<1> DEFINE agreed == Golden!Agreed(mode)
           filled == IF fill THEN Golden!Filled(agreed) ELSE {}
           content == [b \in agreed \cup filled |->
             IF b \in agreed THEN [fields |-> Golden!Verified(b), method |-> "cross-source"]
             ELSE [fields |-> Golden!AutoFilled(b), method |-> "manual"]]
<1>1. UNCHANGED <<listings, table, baseline, comparison>> /\ goldenSet' = [mode |-> mode, records |-> content]
  BY DEF Golden!GenerateFromSources
<1>2. goldenSet'.mode = mode /\ goldenSet'.records = content
  BY <1>1
<1>3. ASSUME NEW b \in DOMAIN content, content[b].method = "cross-source"
      PROVE  Golden!Admitted(mode, Golden!Verified(b)) /\ content[b].fields = Golden!Verified(b)
  <2>1. b \in agreed
    BY <1>3
  <2> QED
    BY <2>1 DEF Golden!Agreed
<1> HIDE DEF content
<1>4. RecordsAreVerified'
  <2>1. \A b : Golden!Verified(b)' = Golden!Verified(b)
    BY <1>1, RowsDecide
  <2> QED
    BY <1>2, <1>3, <2>1 DEF RecordsAreVerified, Golden!Admitted, Golden!Backed
<1> QED
  BY <1>1, <1>4, BaselineStays, ComparisonStays DEF GoldenInv

\* The other steps that touch neither a measurement nor the table.
LEMMA WritingKeeps ==
  ASSUME GoldenInv, Golden!GenerateFromTable \/ Golden!Sample \/ Golden!GenerateReport \/ UNCHANGED Golden!goldenVars
  PROVE  GoldenInv'
<1>1. UNCHANGED <<listings, table, baseline, comparison>>
  BY DEF Golden!GenerateFromTable, Golden!Sample, Golden!GenerateReport, Golden!goldenVars
<1>2. CASE goldenSet' = [mode |-> "table", records |-> [b \in {} |-> None]]
  <2>1. RecordsAreVerified'
    BY <1>2 DEF RecordsAreVerified
  <2> QED
    BY <1>1, <2>1, BaselineStays, ComparisonStays DEF GoldenInv
<1>3. CASE UNCHANGED goldenSet
  BY <1>1, <1>3, VerifiedStay, BaselineStays, ComparisonStays DEF GoldenInv
<1> QED
  BY <1>2, <1>3 DEF Golden!GenerateFromTable, Golden!Sample, Golden!GenerateReport, Golden!goldenVars

-----------------------------------------------------------------------------
(* Measuring *)

LEMMA BaselineKeeps ==
  ASSUME GoldenInv, UNCHANGED <<listings, table, goldenSet, comparison>>,
         DOMAIN baseline' \in {{"at", "exact"}, Running, Measured}, BaselineIsExact'
  PROVE  GoldenInv'
BY VerifiedStay, ComparisonStays DEF GoldenInv

LEMMA BeginBaselineKeeps ==
  ASSUME GoldenInv, Golden!BeginBaseline
  PROVE  GoldenInv'
<1>1. /\ UNCHANGED <<listings, table, goldenSet, comparison>>
      /\ baseline' = [at |-> "running", records |-> goldenSet.records, exact |-> TRUE, answers |-> [b \in {} |-> None]]
  BY DEF Golden!BeginBaseline
<1>2. DOMAIN baseline' = Running /\ baseline'.at = "running" /\ DOMAIN baseline'.answers = {}
  BY <1>1 DEF Running
<1> QED
  BY <1>1, <1>2, BaselineKeeps DEF BaselineIsExact

LEMMA LookUpKeeps ==
  ASSUME GoldenInv, NEW b, Golden!LookUp(b)
  PROVE  GoldenInv'
<1>1. /\ UNCHANGED <<listings, table, goldenSet, comparison>> /\ baseline.at = "running"
  BY DEF Golden!LookUp
<1> DEFINE answers1(row) == [c \in DOMAIN baseline.answers \cup {b} |-> IF c = b THEN row ELSE baseline.answers[c]]
<1>2. PICK row : baseline' = [baseline EXCEPT !.answers = answers1(row), !.exact = baseline.exact /\ row = table[b]]
  BY DEF Golden!LookUp, Golden!Exactly
<1>3. DOMAIN baseline = Running
  BY <1>1 DEF GoldenInv, BaselineIsExact
<1>4. /\ DOMAIN baseline' = Running /\ baseline'.at = "running"
      /\ baseline'.answers = answers1(row) /\ baseline'.exact = (baseline.exact /\ row = table[b])
  BY <1>1, <1>2, <1>3 DEF Running
<1>5. baseline'.exact => \A c \in DOMAIN baseline'.answers : baseline'.answers[c] = table[c]
  <2> SUFFICES ASSUME baseline'.exact, NEW c \in DOMAIN answers1(row) PROVE answers1(row)[c] = table[c]
    BY <1>4
  <2>1. baseline.exact /\ row = table[b]
    BY <1>4
  <2>2. c # b => c \in DOMAIN baseline.answers /\ baseline.answers[c] = table[c]
    BY <1>1, <2>1 DEF GoldenInv, BaselineIsExact
  <2> QED
    BY <2>1, <2>2
<1> QED
  BY <1>1, <1>4, <1>5, BaselineKeeps DEF BaselineIsExact

LEMMA EndBaselineKeeps ==
  ASSUME GoldenInv, Golden!EndBaseline
  PROVE  GoldenInv'
<1> DEFINE correct == Golden!Correct(baseline.records, baseline.answers)
<1>1. /\ UNCHANGED <<listings, table, goldenSet, comparison>> /\ baseline.at = "running"
      /\ DOMAIN baseline.answers = DOMAIN baseline.records
      /\ DOMAIN baseline' = Measured /\ baseline'.at = "done" /\ baseline'.records = baseline.records
      /\ baseline'.exact = baseline.exact /\ baseline'.correct = correct
  BY DEF Golden!EndBaseline, Measured
<1>2. baseline.exact => correct \subseteq Golden!Correct(baseline.records, table)
  <2> SUFFICES ASSUME baseline.exact, NEW c \in correct PROVE c \in Golden!Correct(baseline.records, table)
    OBVIOUS
  <2>1. c[1] \in DOMAIN baseline.records
    BY DEF Golden!Correct, Golden!Counted
  <2>2. baseline.answers[c[1]] = table[c[1]]
    BY <1>1, <2>1 DEF GoldenInv, BaselineIsExact
  <2> QED
    BY <2>2 DEF Golden!Correct
<1>3. Golden!Correct(baseline.records, table)' = Golden!Correct(baseline'.records, table)
  BY <1>1 DEF Golden!Correct, Golden!Counted
<1> HIDE DEF correct
<1>4. BaselineIsExact'
  BY <1>1, <1>2, <1>3 DEF BaselineIsExact
<1> QED
  BY <1>1, <1>4, BaselineKeeps

-----------------------------------------------------------------------------
(* Comparing *)

LEMMA ComparisonKeeps ==
  ASSUME GoldenInv, UNCHANGED <<listings, table, goldenSet, baseline>>,
         DOMAIN comparison' \in {{"at", "exact"}, Comparing}, ComparisonIsExact'
  PROVE  GoldenInv'
BY VerifiedStay, BaselineStays DEF GoldenInv

LEMMA BeginComparisonKeeps ==
  ASSUME GoldenInv, Golden!BeginComparison
  PROVE  GoldenInv'
<1>1. /\ UNCHANGED <<listings, table, goldenSet, baseline>>
      /\ DOMAIN comparison' = Comparing /\ comparison'.at = "running"
      /\ comparison'.mismatched = {} /\ comparison'.left = DOMAIN comparison'.records
  BY DEF Golden!BeginComparison, Comparing
<1> QED
  BY <1>1, ComparisonKeeps DEF ComparisonIsExact

LEMMA CompareRecordKeeps ==
  ASSUME GoldenInv, NEW b, Golden!CompareRecord(b)
  PROVE  GoldenInv'
<1> DEFINE fields == comparison.records[b].fields
           matching(row) == IF row = None THEN {} ELSE Golden!Matching(fields, row)
           compared(row) == IF row = None THEN {} ELSE Golden!Compared(fields)
<1>1. UNCHANGED <<listings, table, goldenSet, baseline>> /\ comparison.at = "running"
  BY DEF Golden!CompareRecord
<1>2. PICK row :
        comparison' = [comparison EXCEPT !.left = comparison.left \ {b}, !.exact = comparison.exact /\ row = table[b],
                         !.matched = comparison.matched \cup ({b} \X matching(row)),
                         !.mismatched = comparison.mismatched \cup ({b} \X (compared(row) \ matching(row)))]
  BY DEF Golden!CompareRecord, Golden!Exactly
<1>3. DOMAIN comparison = Comparing
  BY <1>1 DEF GoldenInv, ComparisonIsExact
<1>4. /\ DOMAIN comparison' = Comparing /\ comparison'.at = "running" /\ comparison'.records = comparison.records
      /\ comparison'.left = comparison.left \ {b}
      /\ comparison'.exact = (comparison.exact /\ row = table[b])
      /\ comparison'.matched = comparison.matched \cup ({b} \X matching(row))
      /\ comparison'.mismatched = comparison.mismatched \cup ({b} \X (compared(row) \ matching(row)))
  BY <1>1, <1>2, <1>3 DEF Comparing
<1>5. /\ comparison.exact => \A c \in comparison.mismatched :
           c[2] \in Golden!Compared(FieldsOf(comparison, c[1])) \ Golden!Matching(FieldsOf(comparison, c[1]), table[c[1]])
      /\ comparison.exact => \A d \in DOMAIN comparison.records \ comparison.left : table[d] # None =>
           \A f \in Golden!Matching(FieldsOf(comparison, d), table[d]) : <<d, f>> \in comparison.matched
  BY <1>1 DEF GoldenInv, ComparisonIsExact
<1>6. \A d : FieldsOf(comparison, d)' = FieldsOf(comparison, d)
  BY <1>4 DEF FieldsOf
<1>7. fields = FieldsOf(comparison, b)
  BY DEF FieldsOf
<1>8. ASSUME comparison'.exact, NEW c \in comparison'.mismatched
      PROVE  c[2] \in Golden!Compared(FieldsOf(comparison, c[1])) \ Golden!Matching(FieldsOf(comparison, c[1]), table[c[1]])
  <2>1. CASE c \in comparison.mismatched
    BY <1>4, <1>5, <1>8, <2>1
  <2>2. CASE c \in {b} \X (compared(row) \ matching(row))
    <3>1. c[1] = b /\ c[2] \in compared(row) \ matching(row) /\ row = table[b]
      BY <1>4, <1>8, <2>2
    <3> QED
      BY <1>7, <3>1
  <2> QED
    BY <1>4, <1>8, <2>1, <2>2
<1>9. ASSUME comparison'.exact, NEW d \in DOMAIN comparison'.records \ comparison'.left, table[d] # None,
             NEW f \in Golden!Matching(FieldsOf(comparison, d), table[d])
      PROVE  <<d, f>> \in comparison'.matched
  <2>1. CASE d = b
    <3>1. f \in matching(row)
      BY <1>4, <1>7, <1>9, <2>1
    <3> QED
      BY <1>4, <2>1, <3>1
  <2>2. CASE d # b
    BY <1>4, <1>5, <1>9, <2>2
  <2> QED
    BY <2>1, <2>2
<1> HIDE DEF matching, compared, fields
<1>10. ComparisonIsExact'
  BY <1>1, <1>4, <1>6, <1>8, <1>9 DEF ComparisonIsExact, Golden!Matching, Golden!Compared
<1> QED
  BY <1>1, <1>4, <1>10, ComparisonKeeps

LEMMA EndComparisonKeeps ==
  ASSUME GoldenInv, Golden!EndComparison
  PROVE  GoldenInv'
<1>1. /\ UNCHANGED <<listings, table, goldenSet, baseline>> /\ comparison.at = "running" /\ comparison.left = {}
      /\ comparison' = [comparison EXCEPT !.at = "done"]
  BY DEF Golden!EndComparison
<1>2. DOMAIN comparison = Comparing
  BY <1>1 DEF GoldenInv, ComparisonIsExact
<1>3. /\ DOMAIN comparison' = Comparing /\ comparison'.at = "done" /\ comparison'.left = {}
      /\ comparison'.exact = comparison.exact /\ comparison'.records = comparison.records
      /\ comparison'.matched = comparison.matched /\ comparison'.mismatched = comparison.mismatched
  BY <1>1, <1>2 DEF Comparing
<1>4. \A d : FieldsOf(comparison, d)' = FieldsOf(comparison, d)
  BY <1>3 DEF FieldsOf
<1>5. ASSUME comparison'.exact, NEW c \in comparison'.mismatched
      PROVE  (c[2] \in Golden!Compared(FieldsOf(comparison, c[1])) \ Golden!Matching(FieldsOf(comparison, c[1]), table[c[1]]))'
  <2>1. c[2] \in Golden!Compared(FieldsOf(comparison, c[1])) \ Golden!Matching(FieldsOf(comparison, c[1]), table[c[1]])
    BY <1>1, <1>3, <1>5 DEF GoldenInv, ComparisonIsExact
  <2> QED
    BY ONLY <1>1, <1>4, <2>1 DEF Golden!Matching, Golden!Compared
<1>6. ASSUME comparison'.exact, NEW d \in DOMAIN comparison'.records \ comparison'.left, table'[d] # None,
             NEW f \in Golden!Matching(FieldsOf(comparison, d), table[d])'
      PROVE  <<d, f>> \in comparison'.matched
  <2>1. f \in Golden!Matching(FieldsOf(comparison, d), table[d])
    BY ONLY <1>1, <1>4, <1>6 DEF Golden!Matching, Golden!Compared
  <2> QED
    BY <1>1, <1>3, <1>6, <2>1 DEF GoldenInv, ComparisonIsExact
<1>7. ComparisonIsExact'
  BY <1>3, <1>5, <1>6 DEF ComparisonIsExact
<1> QED
  BY <1>1, <1>3, <1>7, ComparisonKeeps

\* After a change of the table neither is exact.
LEMMA TableChangesKeeps ==
  ASSUME GoldenInv, NEW b, NEW row, Golden!TableChanges(b, row)
  PROVE  GoldenInv'
<1>1. /\ UNCHANGED <<listings, goldenSet>>
      /\ baseline' = [baseline EXCEPT !.exact = FALSE] /\ comparison' = [comparison EXCEPT !.exact = FALSE]
  BY DEF Golden!TableChanges
<1>2. DOMAIN baseline \in {{"at", "exact"}, Running, Measured} /\ DOMAIN comparison \in {{"at", "exact"}, Comparing}
  BY DEF GoldenInv
<1>3. /\ DOMAIN baseline' = DOMAIN baseline /\ baseline'.at = baseline.at /\ ~baseline'.exact
      /\ DOMAIN comparison' = DOMAIN comparison /\ comparison'.at = comparison.at /\ ~comparison'.exact
  BY <1>1, <1>2 DEF Running, Measured, Comparing
<1>4. comparison.at \in {"running", "done"} => comparison'.left = comparison.left
  BY <1>1 DEF GoldenInv, ComparisonIsExact, Comparing
<1>5. BaselineIsExact'
  BY <1>3 DEF GoldenInv, BaselineIsExact
<1>6. ComparisonIsExact'
  BY <1>3, <1>4 DEF GoldenInv, ComparisonIsExact
<1> QED
  BY <1>1, <1>2, <1>3, <1>5, <1>6, VerifiedStay DEF GoldenInv

LEMMA GoldenNextKeeps == GoldenInv /\ [Golden!Next]_Golden!goldenVars => GoldenInv'
BY GenerateFromSourcesKeeps, WritingKeeps, BeginBaselineKeeps, LookUpKeeps, EndBaselineKeeps, BeginComparisonKeeps,
   CompareRecordKeeps, EndComparisonKeeps, TableChangesKeeps
   DEF Golden!Next

\* As long as the table stays as it is, what a lookup gets right the comparison
\* finds matching, unless it gave up the record (validate.ts:114,
\* accuracyFramework.ts).
THEOREM MeasurementsAgree == GoldenSpec => []MeasuresAgree
<1>1. ASSUME GoldenInv PROVE MeasuresAgree
  <2> SUFFICES ASSUME baseline.at = "done", comparison.at = "done", baseline.exact, comparison.exact,
                      baseline.records = comparison.records, NEW c \in baseline.correct
               PROVE  /\ c \notin comparison.mismatched
                      /\ Golden!Compared(baseline.records[c[1]].fields) = Golden!Field => c \in comparison.matched
    BY DEF MeasuresAgree, Golden!MeasuresAgree
  <2> DEFINE fields == FieldsOf(comparison, c[1])
             row == table[c[1]]
  <2>1. /\ c \in (DOMAIN comparison.records) \X Golden!Field
        /\ row # None /\ fields[c[2]].value = row[c[2]]
    BY <1>1 DEF GoldenInv, BaselineIsExact, Golden!Correct, Golden!Counted, FieldsOf
  <2>2. c[2] \in Golden!Compared(fields) => c[2] \in Golden!Matching(fields, row)
    BY <2>1 DEF Golden!Matching, Golden!Same
  <2>3. c \notin comparison.mismatched
    BY <1>1, <2>2 DEF GoldenInv, ComparisonIsExact
  <2>4. ASSUME Golden!Compared(fields) = Golden!Field PROVE c \in comparison.matched
    <3>1. c[2] \in Golden!Matching(fields, row) /\ c[1] \in DOMAIN comparison.records /\ c = <<c[1], c[2]>>
      BY <2>1, <2>2, <2>4
    <3> QED
      BY <1>1, <2>1, <3>1 DEF GoldenInv, ComparisonIsExact
  <2> QED
    BY <2>3, <2>4 DEF FieldsOf
<1> QED
  BY <1>1, InitGoldenInv, GoldenNextKeeps, PTL DEF GoldenSpec

-----------------------------------------------------------------------------
(* The best value: of finitely many there is one that no other goes before.   *)

LEMMA GreatestIsThere ==
  ASSUME NEW V, IsFiniteSet(V), V # {}, NEW g, \A i \in V : g[i] \in Int
  PROVE  \E i \in V : \A j \in V : g[j] <= g[i]
<1> DEFINE Greatest(s) == \E i \in s : \A j \in s : g[j] <= g[i]
           N == {n \in Nat : \A s \in SUBSET V : s # {} /\ Cardinality(s) <= n => Greatest(s)}
<1>1. \A s \in SUBSET V : IsFiniteSet(s) /\ Cardinality(s) \in Nat /\ (Cardinality(s) = 0 <=> s = {})
  BY FS_Subset, FS_CardinalityType, FS_EmptySet
<1>2. 0 \in N
  <2>1. \A s \in SUBSET V : Cardinality(s) <= 0 => s = {}
    BY <1>1
  <2> HIDE DEF Greatest
  <2> QED
    BY <2>1
<1>3. ASSUME NEW n \in Nat, n \in N PROVE n + 1 \in N
  <2> SUFFICES ASSUME NEW s \in SUBSET V, s # {}, Cardinality(s) <= n + 1 PROVE Greatest(s)
    BY n + 1 \in Nat
  <2>1. PICK x \in s : TRUE
    OBVIOUS
  <2>2. Cardinality(s \ {x}) = Cardinality(s) - 1
    BY <1>1, <2>1, FS_RemoveElement
  <2>3. CASE s \ {x} = {}
    <3>1. g[x] <= g[x] /\ \A j \in s : j = x
      BY <2>1, <2>3
    <3> QED
      BY <2>1, <3>1
  <2>4. CASE s \ {x} # {}
    <3>1. Cardinality(s \ {x}) <= n
      BY <1>1, <2>2
    <3>2. Greatest(s \ {x})
      <4> HIDE DEF Greatest
      <4> QED
        BY <1>3, <2>4, <3>1
    <3>3. PICK i \in s \ {x} : \A j \in s \ {x} : g[j] <= g[i]
      BY <3>2
    <3>4. CASE g[x] <= g[i]
      BY <3>3, <3>4
    <3>5. CASE ~(g[x] <= g[i])
      <4>1. g[x] \in Int /\ \A j \in s : g[j] \in Int
        BY <2>1
      <4>2. ASSUME NEW j \in s PROVE g[j] <= g[x]
        BY <3>3, <3>5, <4>1
      <4> QED
        BY <2>1, <4>2
    <3> QED
      BY <3>4, <3>5
  <2> QED
    BY <2>3, <2>4
<1>4. Cardinality(V) \in N
  <2> HIDE DEF N
  <2> QED
    BY <1>1, <1>2, <1>3, NumberInduction
<1> HIDE DEF Greatest
<1>5. Greatest(V)
  BY <1>1, <1>4
<1> QED
  BY <1>5 DEF Greatest

\* First by one number, then by another, then by place.
LEMMA FirstIsThere ==
  ASSUME NEW V \in SUBSET Nat, IsFiniteSet(V), V # {},
         NEW n, \A i \in V : n[i] \in Int, NEW w, \A i \in V : w[i] \in Int
  PROVE  \E i \in V : \A j \in V :
           n[i] > n[j] \/ (n[i] = n[j] /\ w[i] > w[j]) \/ (n[i] = n[j] /\ w[i] = w[j] /\ i <= j)
<1>1. PICK p \in V : \A j \in V : n[j] <= n[p]
  BY GreatestIsThere
<1> DEFINE W == {i \in V : n[i] = n[p]}
<1>2. IsFiniteSet(W) /\ W # {} /\ \A i \in W : w[i] \in Int
  BY FS_Subset
<1>3. PICK q \in W : \A j \in W : w[j] <= w[q]
  <2> HIDE DEF W
  <2> QED
    BY <1>2, GreatestIsThere
<1> DEFINE X == {i \in W : w[i] = w[q]}
<1>4. X \in SUBSET Nat /\ X # {}
  OBVIOUS
<1>5. PICK i \in X : \A j \in X : i <= j
  <2> HIDE DEF X
  <2> QED
    BY <1>4, LeastNumber
<1>6. ASSUME NEW j \in V
      PROVE  n[i] > n[j] \/ (n[i] = n[j] /\ w[i] > w[j]) \/ (n[i] = n[j] /\ w[i] = w[j] /\ i <= j)
  <2>1. i \in V /\ n[i] = n[p] /\ w[i] = w[q]
    OBVIOUS
  <2>2. n[j] <= n[i] /\ n[i] \in Int /\ n[j] \in Int /\ w[i] \in Int /\ w[j] \in Int
    BY <1>1, <2>1
  <2>3. n[j] = n[i] => w[j] <= w[i]
    BY <1>3, <2>1
  <2>4. n[j] = n[i] /\ w[j] = w[i] => i <= j
    BY <1>5, <2>1
  <2> HIDE DEF W, X
  <2> QED
    BY <2>2, <2>3, <2>4
<1> QED
  BY <1>6

LEMMA RowsAreFinite ==
  ASSUME listings \in Sources, NEW b, NEW S \in SUBSET Golden!RowsOf(b)
  PROVE  /\ S \in SUBSET Nat /\ IsFiniteSet(S) /\ Golden!Cardinality(S) = Cardinality(S) /\ Cardinality(S) \in Nat
         /\ Golden!Weight(S) \in Int
<1>1. listings \in Seq({listings[i] : i \in DOMAIN listings}) /\ \A i \in DOMAIN listings : WeightOf(listings[i].source) \in Nat
  BY SourcesAssumption
<1>2. DOMAIN listings = 1..Len(listings) /\ Len(listings) \in Nat
  BY <1>1
<1>3. S \subseteq 1..Len(listings)
  BY <1>2 DEF Golden!RowsOf
<1>4. IsFiniteSet(1..Len(listings))
  BY <1>2, PlacesAreFinite
<1>5. IsFiniteSet(S) /\ Cardinality(S) \in Nat
  BY <1>3, <1>4, FS_Subset, FS_CardinalityType
<1>6. Golden!Cardinality(S) = Cardinality(S)
  BY DEF Golden!Cardinality, Cardinality
<1> DEFINE weights == [i \in S |-> WeightOf(listings[i].source)]
<1>7. \A i \in S : weights[i] \in Nat
  BY <1>1, <1>2, <1>3
<1>8. Golden!Weight(S) = Identities!SumFunctionOnSet(weights, S)
  BY DEF Golden!Weight, Golden!SumFunctionOnSet, Golden!FoldFunctionOnSet, Golden!MapThenFoldSet,
         Identities!SumFunctionOnSet, Identities!FoldFunctionOnSet, Identities!MapThenFoldSet
<1> HIDE DEF weights
<1>9. Golden!Weight(S) \in Int
  BY <1>5, <1>7, <1>8, SumOfNumbers
<1> QED
  BY <1>2, <1>3, <1>5, <1>6, <1>9

\* The best row of those that give a value is one of them.
LEMMA BestIsBest ==
  ASSUME listings \in Sources, NEW b, NEW f, Golden!Values(b, f) # {}
  PROVE  /\ Golden!Best(b, f) \in Golden!Values(b, f)
         /\ \A j \in Golden!Values(b, f) : Golden!GoesBefore(b, f, Golden!Best(b, f), j)
<1> DEFINE V == Golden!Values(b, f)
           n == [i \in V |-> Golden!Cardinality(Golden!Backing(b, f, i))]
           w == [i \in V |-> Golden!Weight(Golden!Backing(b, f, i))]
<1>1. V \in SUBSET Golden!RowsOf(b)
  BY DEF Golden!Values
<1>2. V \in SUBSET Nat /\ IsFiniteSet(V)
  BY <1>1, RowsAreFinite
<1>3. ASSUME NEW i \in V PROVE n[i] \in Int /\ w[i] \in Int
  <2>1. PICK S : S = Golden!Backing(b, f, i)
    OBVIOUS
  <2>2. S \in SUBSET Golden!RowsOf(b)
    BY <2>1 DEF Golden!Backing, Golden!Giving
  <2>3. Golden!Cardinality(S) = Cardinality(S) /\ Cardinality(S) \in Nat /\ Golden!Weight(S) \in Int
    BY <2>2, RowsAreFinite
  <2>4. n[i] = Golden!Cardinality(S) /\ w[i] = Golden!Weight(S)
    BY <2>1
  <2> HIDE DEF n, w
  <2> QED
    BY <2>3, <2>4
<1>4. \E i \in V : \A j \in V :
        n[i] > n[j] \/ (n[i] = n[j] /\ w[i] > w[j]) \/ (n[i] = n[j] /\ w[i] = w[j] /\ i <= j)
  <2> HIDE DEF V, n, w
  <2> QED
    BY <1>2, <1>3, FirstIsThere DEF V
<1>5. \E i \in V : \A j \in V : Golden!GoesBefore(b, f, i, j)
  <2>1. PICK i \in V : \A j \in V :
          n[i] > n[j] \/ (n[i] = n[j] /\ w[i] > w[j]) \/ (n[i] = n[j] /\ w[i] = w[j] /\ i <= j)
    BY <1>4
  <2>2. ASSUME NEW j \in V PROVE Golden!GoesBefore(b, f, i, j)
    BY <2>1 DEF Golden!GoesBefore
  <2> QED
    BY <2>2
<1> QED
  BY <1>5 DEF Golden!Best

\* If no source lists the BIN twice, as many sources as rows give a value.
LEMMA SourcesAreRows ==
  ASSUME listings \in Sources, NEW b, NEW S \in SUBSET Golden!RowsOf(b),
         \A i, j \in DOMAIN listings :
           listings[i].source = listings[j].source /\ listings[i].bin = listings[j].bin => i = j
  PROVE  Golden!Cardinality({listings[i].source : i \in S}) = Golden!Cardinality(S)
<1> DEFINE T == {listings[i].source : i \in S}
           h == [i \in S |-> listings[i].source]
<1>1. \A i, j \in S : h[i] = h[j] => i = j
  BY DEF Golden!RowsOf
<1>2. h \in Bijection(S, T)
  <2>1. h \in [S -> T]
    OBVIOUS
  <2>2. \A t \in T : \E i \in S : h[i] = t
    OBVIOUS
  <2> HIDE DEF h, T
  <2> QED
    BY <1>1, <2>1, <2>2 DEF Bijection, Injection, Surjection, IsInjective
<1>3. ExistsBijection(S, T)
  BY <1>2 DEF ExistsBijection
<1>4. Cardinality(T) = Cardinality(S)
  <2> HIDE DEF T
  <2> QED
    BY <1>3, RowsAreFinite, FS_Bijection
<1> HIDE DEF T
<1>5. Golden!Cardinality(T) = Cardinality(T)
  BY DEF Golden!Cardinality, Cardinality
<1>6. Golden!Cardinality(S) = Cardinality(S)
  BY RowsAreFinite
<1> QED
  BY <1>4, <1>5, <1>6 DEF T

\* In the modes that want two sources a golden value has two, and none has more
\* that give another one (verificationProtocol.ts:95, generate-from-sources.ts:158).
THEOREM GoldenHasBacking == GoldenSpec => []GoldenIsAgreed
<1>1. ASSUME GoldenInv PROVE GoldenIsAgreed
  <2> SUFFICES ASSUME goldenSet # None, goldenSet.mode \in {"core", "all"},
                      \A i, j \in DOMAIN listings :
                        listings[i].source = listings[j].source /\ listings[i].bin = listings[j].bin => i = j,
                      NEW b \in DOMAIN goldenSet.records, goldenSet.records[b].method = "cross-source",
                      NEW f \in IF goldenSet.mode = "core" THEN {"country", "network"} ELSE Golden!Field
               PROVE  LET giving(v) == Golden!Cardinality({listings[i].source : i \in Golden!Giving(b, f, v)})
                          value == goldenSet.records[b].fields[f].value
                      IN  giving(value) >= 2 /\ \A i \in Golden!Values(b, f) : giving(listings[i][f]) <= giving(value)
    BY DEF GoldenIsAgreed, Golden!GoldenIsAgreed
  <2>0. listings \in Sources
    BY <1>1 DEF GoldenInv
  <2>1. Golden!Admitted(goldenSet.mode, Golden!Verified(b)) /\ goldenSet.records[b].fields = Golden!Verified(b)
    BY <1>1 DEF GoldenInv, RecordsAreVerified
  <2>2. f \in Golden!Field /\ Golden!Backed(Golden!Verified(b)[f])
    BY <2>1 DEF Golden!Admitted, Golden!Field
  <2>3. Golden!Verified(b)[f] = Golden!VerifyField(b, f)
    BY <2>2 DEF Golden!Verified
  <2>4. Golden!Values(b, f) # {}
    BY <2>2, <2>3 DEF Golden!Backed, Golden!VerifyField
  <2>5. PICK best : best = Golden!Best(b, f)
    OBVIOUS
  <2>6. /\ goldenSet.records[b].fields[f].value = listings[best][f]
        /\ Golden!Cardinality(Golden!Backing(b, f, best)) >= 2
    BY <2>1, <2>2, <2>3, <2>4, <2>5 DEF Golden!Backed, Golden!VerifyField
  <2> DEFINE giving(v) == Golden!Cardinality({listings[i].source : i \in Golden!Giving(b, f, v)})
  <2>7. ASSUME NEW v PROVE giving(v) = Golden!Cardinality(Golden!Giving(b, f, v)) /\ giving(v) \in Nat
    <3>1. Golden!Giving(b, f, v) \in SUBSET Golden!RowsOf(b)
      BY DEF Golden!Giving
    <3>2. Golden!Cardinality(Golden!Giving(b, f, v)) \in Nat
      <4>1. PICK S : S = Golden!Giving(b, f, v)
        OBVIOUS
      <4>2. S \in SUBSET Golden!RowsOf(b)
        BY <3>1, <4>1
      <4>3. Golden!Cardinality(S) = Cardinality(S) /\ Cardinality(S) \in Nat
        BY <2>0, <4>2, RowsAreFinite
      <4> QED
        BY <4>1, <4>3
    <3>3. giving(v) = Golden!Cardinality(Golden!Giving(b, f, v))
      BY <2>0, <3>1, SourcesAreRows
    <3> QED
      BY <3>2, <3>3
  <2> HIDE DEF giving
  <2>8. ASSUME NEW i \in Golden!Values(b, f) PROVE giving(listings[i][f]) <= giving(listings[best][f])
    <3>1. Golden!GoesBefore(b, f, best, i)
      BY <2>0, <2>4, <2>5, BestIsBest
    <3>2. giving(listings[i][f]) = Golden!Cardinality(Golden!Backing(b, f, i)) /\ giving(listings[i][f]) \in Nat
      BY <2>7 DEF Golden!Backing
    <3>3. giving(listings[best][f]) = Golden!Cardinality(Golden!Backing(b, f, best)) /\ giving(listings[best][f]) \in Nat
      BY <2>7 DEF Golden!Backing
    <3> QED
      BY <3>1, <3>2, <3>3 DEF Golden!GoesBefore
  <2>9. giving(listings[best][f]) >= 2
    BY <2>6, <2>7 DEF Golden!Backing
  <2> QED
    BY <2>6, <2>8, <2>9 DEF giving
<1> QED
  BY <1>1, InitGoldenInv, GoldenNextKeeps, PTL DEF GoldenSpec


===============================================================================
