------------------------------- MODULE Tenants -------------------------------
(***************************************************************************)
(* Tenants, their users and the middleware in front of a tenant's routes:  *)
(* TenantManagementSystem keeps everything in memory, and a request works  *)
(* with the tenant object it was given when the tenant was validated,      *)
(* whatever becomes of the tenant before it is authenticated and served.   *)
(***************************************************************************)
EXTENDS Integers, Sequences, FiniteSets, SequencesExt, Functions

CONSTANTS
  Tenant,      \* the ids there may be, tenant_main among them
  MainTenant, MainSlug,
  Slugs, Emails,
  Permissions, \* the lists of permissions a user may be given
  Updates,     \* the bodies of PUT /tenants/:tenantId: some fields and their values
  Request,     \* numbered in the order they come
  Needs,       \* what a route may ask for: [permissions, level, tier]
  AccessTokenTime,
  WindowMs, MaxRequests, \* the options of tenantRateLimit
  MaxUsers, MaxTokens, MaxTime, \* bounds of the model: users created, logins, the clock
  None

VARIABLES
  now,
  tenants,  \* those there are; each keeps an id of its own beside the one it is stored under
  users,    \* the users of each tenant, in the order they were created
  tokens,   \* the access tokens handed out
  requests, \* what each request has got so far
  windows,  \* the counters of tenantRateLimit
  ended     \* history: the tenants that have been terminated

vars == <<now, tenants, users, tokens, requests, windows, ended>>

Tiers == <<"basic", "professional", "enterprise", "custom">>
Levels == <<"own_data", "shared_data", "tenant_data", "system_data">>

\* Is what comes before b in the list, or b itself?
AtLeast(list, a, b) ==
  \E i, j \in DOMAIN list : list[i] = a /\ list[j] = b /\ i >= j

\* late is history: had the tenant been terminated before the request came?
NewRequest == [stage |-> "new", tenant |-> None, snapshot |-> None, token |-> None,
               user |-> None, level |-> None, late |-> FALSE]

\* Everything is of its kind.
TypeOK ==
  /\ now \in 0..MaxTime
  /\ DOMAIN tenants \subseteq Tenant /\ DOMAIN users = DOMAIN tenants
  /\ \A t \in DOMAIN tenants :
       /\ tenants[t].status \in {"pending", "active", "suspended", "terminated"}
       /\ tenants[t].tier \in ToSet(Tiers) /\ tenants[t].slug \in Slugs /\ tenants[t].id \in Tenant
  /\ \A k \in tokens : k.tenant \in DOMAIN tenants /\ k.expires \in Nat
  /\ \A r \in Request : requests[r].stage \in
       {"new", "validated", "authenticated", "limited", "served", "refused"}
  /\ \A t \in DOMAIN windows : windows[t].count \in Nat \ {0}
  /\ ended \subseteq DOMAIN tenants

\* initializeDefaultTenants: the only tenant that is active from the start
Init ==
  /\ now = 0
  /\ tenants = [t \in {MainTenant} |->
       [id |-> t, status |-> "active", tier |-> "enterprise", slug |-> MainSlug, nth |-> 1]]
  /\ users = [t \in {MainTenant} |-> <<>>]
  /\ tokens = {}
  /\ requests = [r \in Request |-> NewRequest]
  /\ windows = [t \in {} |-> 0]
  /\ ended = {}

-----------------------------------------------------------------------------
(* Tenants *)

\* Nothing asks whether the slug is taken.
CreateTenant(t, slug, tier) ==
  /\ t \in Tenant \ DOMAIN tenants
  /\ tenants' = [s \in DOMAIN tenants \cup {t} |->
       IF s = t THEN [id |-> t, status |-> "pending", tier |-> tier, slug |-> slug,
                      nth |-> Cardinality(DOMAIN tenants) + 1]
       ELSE tenants[s]]
  /\ users' = [s \in DOMAIN users \cup {t} |-> IF s = t THEN <<>> ELSE users[s]]
  /\ UNCHANGED <<now, tokens, requests, windows, ended>>

\* Mutant of UpdateTenant: a terminated tenant can be updated.
UpdateAnyTenant(t, updates) ==
  /\ t \in DOMAIN tenants
  /\ tenants' = [tenants EXCEPT ![t] =
       [f \in DOMAIN @ |-> IF f \in DOMAIN updates THEN updates[f] ELSE @[f]]]
  /\ UNCHANGED <<now, users, tokens, requests, windows, ended>>

\* The body's fields replace the tenant's, whatever they are, its id among
\* them: the tenant stays stored under the id it was created with.
UpdateTenant(t, updates) ==
  /\ t \in DOMAIN tenants /\ tenants[t].status # "terminated"
  /\ tenants' = [tenants EXCEPT ![t] =
       [f \in DOMAIN @ |-> IF f \in DOMAIN updates THEN updates[f] ELSE @[f]]]
  /\ UNCHANGED <<now, users, tokens, requests, windows, ended>>

DeleteTenant(t) ==
  /\ t \in DOMAIN tenants
  /\ tenants' = [tenants EXCEPT ![t].status = "terminated"]
  /\ ended' = ended \cup {t}
  /\ UNCHANGED <<now, users, tokens, requests, windows>>

\* Whatever the tenant's status. The limits of the new tier are put beside the
\* old ones, under other names: those that are read stay as they were.
UpgradeTenantTier(t, tier) ==
  /\ t \in DOMAIN tenants
  /\ tenants' = [tenants EXCEPT ![t].tier = tier]
  /\ UNCHANGED <<now, users, tokens, requests, windows, ended>>

\* Neither the tenant's status nor its limits are asked for.
CreateTenantUser(t, email, permissions) ==
  /\ t \in DOMAIN tenants
  /\ Len(users[t]) < MaxUsers
  /\ users' = [users EXCEPT ![t] =
       Append(@, [id |-> <<t, Len(@) + 1>>, email |-> email, permissions |-> permissions])]
  /\ UNCHANGED <<now, tenants, tokens, requests, windows, ended>>

determineDataAccessLevel(permissions) ==
  IF permissions \cap {"admin", "system_admin"} # {} THEN "system_data"
  ELSE IF "tenant_admin" \in permissions THEN "tenant_data"
  ELSE IF "team_lead" \in permissions THEN "shared_data"
  ELSE "own_data"

-----------------------------------------------------------------------------
(* Requests *)

Moves(r, fields) ==
  requests' = [requests EXCEPT ![r] =
    [f \in DOMAIN @ |-> IF f \in DOMAIN fields THEN fields[f] ELSE @[f]]]

\* getTenantUsers
UsersOf(t) == IF t \in DOMAIN users THEN users[t] ELSE <<>>

\* tenantLogin: the first tenant of the slug and the first user of the address
\* under the id that tenant carries; the password is not looked at.
TenantLogin(slug, email) ==
  /\ Cardinality(tokens) < MaxTokens
  /\ \E t \in DOMAIN tenants : \E i \in DOMAIN UsersOf(tenants[t].id) :
       LET known == UsersOf(tenants[t].id) IN
       /\ tenants[t].slug = slug /\ tenants[t].status = "active"
       /\ \A s \in DOMAIN tenants : tenants[s].slug = slug => tenants[s].nth >= tenants[t].nth
       /\ known[i].email = email /\ \A j \in 1..(i - 1) : known[j].email # email
       /\ tokens' = tokens \cup {[tenant |-> tenants[t].id, user |-> known[i].id,
                                  expires |-> now + AccessTokenTime]}
  /\ UNCHANGED <<now, tenants, users, requests, windows, ended>>

\* validateTenant: the tenant the request names, as it is now. An answer of 4xx
\* ends the request here and below.
ValidateTenant(r, t, token) ==
  /\ requests[r].stage = "new" /\ \A q \in 1..(r - 1) : requests[q].stage # "new"
  /\ token \in tokens \cup {None}
  /\ IF t \in DOMAIN tenants /\ tenants[t].status = "active"
     THEN Moves(r, [stage |-> "validated", tenant |-> t, snapshot |-> tenants[t],
                    token |-> token, late |-> t \in ended])
     ELSE Moves(r, [stage |-> "refused"])
  /\ UNCHANGED <<now, tenants, users, tokens, windows, ended>>

\* The user is looked up in the tenant of the token, which must be the id that
\* the validated tenant carries.
AuthenticateTenant(r) ==
  /\ requests[r].stage = "validated"
  /\ LET token == requests[r].token
         known == IF token = None \/ token.expires <= now THEN <<>> ELSE UsersOf(token.tenant)
         found == {u \in ToSet(known) : u.id = token.user /\ token.tenant = requests[r].snapshot.id}
     IN  \/ \E u \in found :
              Moves(r, [stage |-> "authenticated", user |-> u,
                        level |-> determineDataAccessLevel(u.permissions)])
         \/ found = {} /\ Moves(r, [stage |-> "refused"])
  /\ UNCHANGED <<now, tenants, users, tokens, windows, ended>>

\* The counter after one more request of t; a counter whose time is now counts
\* on, one whose time has passed is deleted and begun anew.
Window(t) ==
  IF t \in DOMAIN windows /\ windows[t].resetTime >= now
  THEN [windows[t] EXCEPT !.count = @ + 1]
  ELSE [count |-> 1, resetTime |-> now + WindowMs]

TenantRateLimit(r) ==
  /\ requests[r].stage = "authenticated"
  /\ LET t == requests[r].tenant
         kept == {s \in DOMAIN windows : windows[s].resetTime >= now}
         allowed == Window(t).count <= MaxRequests
     IN  /\ windows' = [s \in kept \cup {t} |-> IF s = t THEN Window(t) ELSE windows[s]]
         /\ Moves(r, [stage |-> IF allowed THEN "limited" ELSE "refused"])
  /\ UNCHANGED <<now, tenants, users, tokens, ended>>

\* requirePermissions, requireDataAccessLevel and requireTier of a route, and
\* preventCrossTenantAccess, for which the request names another tenant in its
\* query or body; then the route's handler.
ServeRequest(r, need, named) ==
  /\ requests[r].stage = "limited"
  /\ LET permissions == requests[r].user.permissions
         allowed == /\ need.permissions \subseteq permissions \/ "admin" \in permissions
                    /\ AtLeast(Levels, requests[r].level, need.level)
                    /\ AtLeast(Tiers, requests[r].snapshot.tier, need.tier)
                    /\ named \in {None, requests[r].tenant}
     IN  Moves(r, [stage |-> IF allowed THEN "served" ELSE "refused"])
  /\ UNCHANGED <<now, tenants, users, tokens, windows, ended>>

Tick ==
  /\ now < MaxTime
  /\ now' = now + 1
  /\ UNCHANGED <<tenants, users, tokens, requests, windows, ended>>

Administration ==
  \/ \E t \in Tenant, slug \in Slugs : CreateTenant(t, slug, "basic")
  \/ \E t \in Tenant, updates \in Updates : UpdateTenant(t, updates)
  \/ \E t \in Tenant : DeleteTenant(t)
  \/ \E t \in Tenant : UpgradeTenantTier(t, "custom")
  \/ \E t \in Tenant, email \in Emails, p \in Permissions : CreateTenantUser(t, email, p)

Requests ==
  \/ \E slug \in Slugs, email \in Emails : TenantLogin(slug, email)
  \/ \E r \in Request, t \in Tenant, k \in tokens \cup {None} : ValidateTenant(r, t, k)
  \/ \E r \in Request : AuthenticateTenant(r)
  \/ \E r \in Request : TenantRateLimit(r)
  \/ \E r \in Request, need \in Needs, named \in Tenant \cup {None} : ServeRequest(r, need, named)

Next == Administration \/ Requests \/ Tick

-----------------------------------------------------------------------------
(* Properties *)

\* A request is served only to a user of the tenant whose id it was validated
\* with, which is the tenant it named as long as no update has put another id
\* in that tenant's record; with the rights that user has; and never when it
\* came in after the tenant had been terminated: no update or upgrade brings a
\* terminated tenant back, under whichever id, and termination overtakes at
\* most the requests already validated (tenantAuth.ts, updateTenant).
ServedAsItsUser ==
  \A r \in Request : requests[r].stage = "served" =>
    /\ requests[r].user \in ToSet(UsersOf(requests[r].snapshot.id))
    /\ requests[r].level = determineDataAccessLevel(requests[r].user.permissions)
    /\ ~requests[r].late

=============================================================================
