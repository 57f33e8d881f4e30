---------------------------- MODULE MCAuthPipeline ----------------------------
(***************************************************************************)
(* AuthPipeline for TLC: a dependency with a fallback, and a service with   *)
(* rules.                                                                   *)
(***************************************************************************)
EXTENDS AuthPipeline, TLC

CONSTANTS q1, alice, db, mem, svc, impl, obj

Sender == (q1 :> alice)

Chains == (db :> <<mem>>) @@ (mem :> << >>) @@ (svc :> << >>)
RulesOf == (svc :> [role \in Roles \cup {NoRole} |-> IF role = "admin" THEN NoImpl ELSE impl])
MadeByCall == (impl :> "callable")

=============================================================================
