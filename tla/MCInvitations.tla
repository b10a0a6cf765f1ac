--------------------------- MODULE MCInvitations ---------------------------
(* A small instance of Invitations, and with it of Accounts. *)
EXTENDS Invitations, TLC

Symmetry == Permutations(Handlers) \cup Permutations(Passwords)
=============================================================================
