-------------------------- MODULE MCLastSuperadmin --------------------------
(* Model values and symmetry for the runs of LastSuperadmin. *)
EXTENDS LastSuperadmin, TLC

CONSTANTS a, b, o1, o2, admin, owner

(* Two superadmins, each through a role and an organization of their own. *)
TwoSuperadmins == {<<a, o1, admin>>, <<b, o2, owner>>}

(* Two superadmins whose grants sit in one organization. *)
SameOrganization == {<<a, o1, admin>>, <<b, o1, admin>>}

(* A single directly granted superadmin; the actor's own authority comes    *)
(* through a group and is not counted.                                      *)
OneSuperadmin == {<<a, o1, admin>>}

(* Requests may be renamed, and the two superadmins swapped together with   *)
(* their organizations and roles.                                           *)
Swap == (a :> b) @@ (b :> a) @@ (o1 :> o2) @@ (o2 :> o1)
        @@ (admin :> owner) @@ (owner :> admin)
Stay == (a :> a) @@ (b :> b) @@ (o1 :> o1) @@ (o2 :> o2)
        @@ (admin :> admin) @@ (owner :> owner)
Symmetry == {p @@ s : p \in Permutations(Requests), s \in {Swap, Stay}}
=============================================================================
