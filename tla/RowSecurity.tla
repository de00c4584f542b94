----------------------------- MODULE RowSecurity -----------------------------
(***************************************************************************)
(* Whose rows a query sees: operations take a connection out of the pool,  *)
(* tell the database on whose behalf they ask, run their query, take that  *)
(* back and return the connection. What one leaves behind on a connection  *)
(* the next one finds there.                                               *)
(***************************************************************************)
EXTENDS Integers, FiniteSets, Functions

CONSTANTS
  Client,     \* the connections of the pool (max: 20)
  Operation,
  KindOf,     \* [Operation -> Kinds]
  UserOf,     \* on whose behalf; the service account for service operations
  None

VARIABLES
  sessionWide, \* does set_rls_context last for the session or for its statement?
  owner,       \* the operation that holds each connection
  context,     \* whom the database takes each connection to act for
  stage        \* how far each operation has got

rowSecurityVars == <<sessionWide, owner, context, stage>>

\* queryWithRLS and createAuditLog; the reports; a request behind rlsMiddleware
\* or serviceAuthMiddleware; executeQuery and executeSystemQuery for a tenant.
Kinds == {"query", "report", "request", "tenant"}
Ended == {"done", "failed"}
Stages == {"new", "connected", "set", "queried"} \cup Ended

ClientOf(o) == CHOOSE c \in Client : owner[c] = o
Holds(o) == o \in Range(owner)

\* Everything is of its kind.
TypeOK ==
  /\ sessionWide \in BOOLEAN
  /\ owner \in [Client -> Operation \cup {None}]
  /\ context \in [Client -> Range(UserOf) \cup {None}]
  /\ stage \in [Operation -> Stages]
  /\ \A o \in Operation : stage[o] \in Stages \ ({"new"} \cup Ended) => Holds(o)

\* rls-final-fix.sql makes the setting last, rls-policies.sql does not.
Init ==
  /\ sessionWide \in BOOLEAN
  /\ owner = [c \in Client |-> None]
  /\ context = [c \in Client |-> None]
  /\ stage = [o \in Operation |-> "new"]

GoesTo(o, s) == stage' = [stage EXCEPT ![o] = s]
Release(o) == owner' = [owner EXCEPT ![ClientOf(o)] = None]

\* pool.connect(): a free connection, or after 5 seconds none at all.
Connect(o) ==
  /\ stage[o] = "new"
  /\ \/ \E c \in Client :
          /\ owner[c] = None
          /\ owner' = [owner EXCEPT ![c] = o]
          /\ GoesTo(o, IF KindOf[o] = "report" THEN "set" ELSE "connected")
     \/ /\ \A c \in Client : owner[c] # None
        /\ GoesTo(o, "failed") /\ UNCHANGED owner
  /\ UNCHANGED <<sessionWide, context>>

\* set_rls_context with a setting for the statement alone has no effect after.
SetRLSContext(o) ==
  /\ stage[o] = "connected" /\ KindOf[o] \in {"query", "request"}
  /\ context' = IF sessionWide THEN [context EXCEPT ![ClientOf(o)] = UserOf[o]] ELSE context
  /\ GoesTo(o, "set")
  /\ UNCHANGED <<sessionWide, owner>>

\* Mutant of SetRLSContextFails: the query is run all the same.
SetRLSContextIgnored(o) ==
  /\ stage[o] = "connected" /\ KindOf[o] \in {"query", "request"}
  /\ GoesTo(o, "set")
  /\ UNCHANGED <<sessionWide, owner, context>>

\* An error, and the connection goes back: status 500 for a request.
SetRLSContextFails(o) ==
  /\ stage[o] = "connected" /\ KindOf[o] \in {"query", "request"}
  /\ Release(o) /\ GoesTo(o, "failed")
  /\ UNCHANGED <<sessionWide, context>>

\* SET LOCAL outside a transaction changes nothing; it may fail, and then the
\* query is not run.
SetLocal(o) ==
  /\ stage[o] = "connected" /\ KindOf[o] = "tenant"
  /\ \/ GoesTo(o, "set") \/ GoesTo(o, "queried")
  /\ UNCHANGED <<sessionWide, owner, context>>

\* The query of a tenant may be preceded by an entry in the audit log, whose
\* failure is ignored.
Query(o) ==
  /\ stage[o] = "set"
  /\ IF KindOf[o] = "report" THEN Release(o) /\ GoesTo(o, "done")
     ELSE GoesTo(o, "queried") /\ UNCHANGED owner
  /\ UNCHANGED <<sessionWide, context>>

\* finally: the connection goes back as it is. The handler of a request answers
\* the error and the request goes on.
QueryFails(o) ==
  /\ stage[o] = "set"
  /\ IF KindOf[o] \in {"query", "report"} THEN Release(o) /\ GoesTo(o, "failed")
     ELSE GoesTo(o, "queried") /\ UNCHANGED owner
  /\ UNCHANGED <<sessionWide, context>>

\* clear_rls_context, or RESET for a tenant, whose setting never was made.
Clear(o) ==
  /\ stage[o] = "queried"
  /\ context' = IF sessionWide /\ KindOf[o] # "tenant" THEN [context EXCEPT ![ClientOf(o)] = None]
                ELSE context
  /\ Release(o) /\ GoesTo(o, "done")
  /\ UNCHANGED sessionWide

\* Only queryWithRLS releases in its finally; clearRLSMiddleware and
\* executeQuery have the release after the statement that fails.
ClearFails(o) ==
  /\ stage[o] = "queried"
  /\ IF KindOf[o] = "query" THEN Release(o) ELSE UNCHANGED owner
  /\ GoesTo(o, "failed")
  /\ UNCHANGED <<sessionWide, context>>

\* The handler of a request answers without passing it on.
NeverCleared(o) ==
  /\ stage[o] = "queried" /\ KindOf[o] = "request"
  /\ GoesTo(o, "done")
  /\ UNCHANGED <<sessionWide, owner, context>>

Next == \E o \in Operation :
  \/ Connect(o)
  \/ SetRLSContext(o)
  \/ SetRLSContextFails(o)
  \/ SetLocal(o)
  \/ Query(o)
  \/ QueryFails(o)
  \/ Clear(o)
  \/ ClearFails(o)
  \/ NeverCleared(o)

-----------------------------------------------------------------------------
(* Properties *)

\* A query that has a user never runs as another one, whatever operations
\* before it left on the connection when they failed half way.
QueryRunsAsItsUser ==
  \A o \in Operation : stage[o] = "set" /\ KindOf[o] \in {"query", "request"} =>
    context[ClientOf(o)] \in {UserOf[o], None}

=============================================================================
