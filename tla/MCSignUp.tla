------------------------------ MODULE MCSignUp ------------------------------
(* Model values for the runs of SignUp and, through it, AccountLifecycle. *)
EXTENDS SignUp, TLC

CONSTANTS o1, o2, r1, r2, i1

(* Requests are compared for equality only. *)
Interchangeable == Permutations(Requests)

InvitedTo == [i \in Invites |-> o1]
=============================================================================
