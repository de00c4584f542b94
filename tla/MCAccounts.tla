---- MODULE MCAccounts ----
(* Two requests on two processes; clients call one of four groups of       *)
(* operations, so that each group is explored with all its interleavings.  *)
EXTENDS Accounts, TLC

CONSTANTS r1, r2, p1, p2

MCProcOf == r1 :> p1 @@ r2 :> p2
MCProfile == {
  {"register", "login", "refresh", "logout"},
  {"register", "change", "forgot", "reset"},
  {"register", "login", "change", "setup", "enable", "disable"},
  {"register", "create", "use", "rotate", "revoke"}}
====
