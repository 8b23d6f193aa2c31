--------------------------- MODULE MCAuthorization ---------------------------
(***************************************************************************)
(* Users and calls are interchangeable.  RouteFacts has no state: its      *)
(* assumptions about the routes are evaluated here.                        *)
(***************************************************************************)
EXTENDS Authorization, RouteFacts, TLC
Symmetry == Permutations(Users) \union Permutations(Calls)
=============================================================================
