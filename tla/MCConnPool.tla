------------------------------ MODULE MCConnPool ------------------------------
(* Small instances of ConnPool for TLC. *)
EXTENDS ConnPool, TLC

Symmetry == Permutations(Conns) \cup Permutations(Clients) \cup Permutations(Fingerprints)
              \cup Permutations(Endpoints) \cup Permutations(Users)
=============================================================================
