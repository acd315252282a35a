------------------------ MODULE MCBearerCredentials ------------------------
(* Model values for the runs of BearerCredentials. *)
EXTENDS BearerCredentials, TLC

CONSTANTS k1, k2, k3, c1, q1, q2, e1, e2, s1, s2

(* The rows not there initially, and the requests, are interchangeable: the  *)
(* specification compares them for equality only.                            *)
Interchangeable ==
  Permutations({k2, k3}) \cup Permutations(Requests)
=============================================================================
