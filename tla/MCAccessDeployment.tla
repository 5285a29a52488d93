------------------------- MODULE MCAccessDeployment -------------------------
(***************************************************************************)
(* One provider, one policy and one application, as cloudflare/access.json *)
(* desires them.  The account has a legacy provider and a legacy policy    *)
(* and perhaps earlier versions of the desired ones, or their ids are left *)
(* for new resources; one more application is somebody else's.             *)
(***************************************************************************)
EXTENDS AccessDeployment, TLC

CONSTANTS x0, x1, idp, policy, app, oldIdp, newIdp, oldPolicy, newPolicy, gate, foreign

MCIdKind == [i \in Id |->
  CASE i \in {oldIdp, newIdp} -> "identity_provider"
    [] i \in {oldPolicy, newPolicy} -> "reusable_policy"
    [] OTHER -> "application"]

MCKindOf == (idp :> "identity_provider") @@ (policy :> "reusable_policy")
            @@ (app :> "application")

MCFits == [i \in Id |->
  CASE i = newIdp -> idp
    [] i = newPolicy -> policy
    [] i = gate -> app
    [] OTHER -> noKey]

MCNeeds  == [k \in Key |-> IF k = app THEN {idp, policy} ELSE {}]
MCBlocks == [i \in Id |-> IF i = foreign THEN {"old"} ELSE {}]
MCOrder  == <<idp, policy, app>>
=============================================================================
