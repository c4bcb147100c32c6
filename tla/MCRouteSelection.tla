------------------------- MODULE MCRouteSelection --------------------------
(***************************************************************************)
(* An instance of RouteSelection for TLC: a model with a free route and    *)
(* one of unknown access, and a generic provider's model, of unknown       *)
(* access too, that the user has allowed, with an authenticated route the  *)
(* user has not.                                                           *)
(***************************************************************************)
EXTENDS RouteSelection

CONSTANTS freeA, authA, userB, authB, modelA, modelB

MCRoute == {freeA, authA, userB, authB}
MCModelOf == [r \in MCRoute |-> IF r \in {freeA, authA} THEN modelA ELSE modelB]
MCAccess == [r \in MCRoute |-> IF r = freeA THEN "Free" ELSE "Unknown"]
MCPolicy == [r \in MCRoute |->
    CASE r = userB -> "allow" [] r = authB -> "deny" [] OTHER -> "unset"]

\* A refresh may drop the free route; a request may need what one route lacks.
MCCatalogs == {MCRoute, MCRoute \ {freeA}}
MCCapable == {MCRoute, MCRoute \ {userB}}
============================================================================
