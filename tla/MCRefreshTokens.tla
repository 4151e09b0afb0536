--------------------------- MODULE MCRefreshTokens ---------------------------
(***************************************************************************)
(* Instances of RefreshTokens for TLC: two users of two organisations.     *)
(***************************************************************************)
EXTENDS RefreshTokens, TLC

CONSTANTS alice, bob, acme, beta

MCOrgOf == alice :> acme @@ bob :> beta

\* Requests, clients, families and tokens are interchangeable names.
Symmetry == Permutations(Request) \cup Permutations(Client)
            \cup Permutations(Family) \cup Permutations(Token)

=============================================================================
