---------------------------- MODULE CardRegistry ----------------------------
(***************************************************************************)
(* What card generation promises, without the layers that implement it:    *)
(* a request either fails or returns a card that is stored, that the       *)
(* request itself stored, and that no other request returns.               *)
(***************************************************************************)
CONSTANTS Request, Card, NoRequest, NoCard

VARIABLES owner,    \* owner[c]: the request that stored card c
          outcome   \* outcome[r]: a card, "pending" or "failed"

registryVars == <<owner, outcome>>

Init ==
  /\ owner = [c \in Card |-> NoRequest]
  /\ outcome = [r \in Request |-> "pending"]

\* A pending request stores a fresh card, at most once in its life.
Store(r, c) ==
  /\ outcome[r] = "pending"
  /\ owner[c] = NoRequest
  /\ \A d \in Card : owner[d] # r
  /\ owner' = [owner EXCEPT ![c] = r]
  /\ UNCHANGED outcome

\* The stored card is handed to the caller.
Deliver(r, c) ==
  /\ outcome[r] = "pending"
  /\ owner[c] = r
  /\ outcome' = [outcome EXCEPT ![r] = c]
  /\ UNCHANGED owner

\* Requests fail: one by one, or together when their process dies.  A card
\* such a request had already stored stays stored and belongs to nobody else.
Fail(R) ==
  /\ \A r \in R : outcome[r] = "pending"
  /\ outcome' = [r \in Request |-> IF r \in R THEN "failed" ELSE outcome[r]]
  /\ UNCHANGED owner

Next ==
  \/ \E r \in Request, c \in Card : Store(r, c) \/ Deliver(r, c)
  \/ \E R \in SUBSET Request : Fail(R)

RegistrySpec == Init /\ [][Next]_registryVars
=============================================================================
