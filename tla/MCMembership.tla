---------------------------- MODULE MCMembership ----------------------------
(* Instances of Membership for TLC. *)
EXTENDS Membership, TLC

CONSTANTS u1, u2, u3, h1, h2, i1, i2

\* Users, handlers and invite rows are interchangeable: nothing names one.
Symmetry == Permutations(Users) \cup Permutations(Handlers) \cup Permutations(Invites)
=============================================================================
