------------------------------- MODULE MCAccess -------------------------------
(* A small instance of Access. *)
EXTENDS Access, TLC

(* Tokens, requests and the users that are not seeded are interchangeable. *)
Symmetry == Permutations(Clients) \cup Permutations(Tokens) \cup Permutations(Users \ {Admin})
=============================================================================
