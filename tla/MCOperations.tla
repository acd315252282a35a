---------------------------- MODULE MCOperations ----------------------------
(***************************************************************************)
(* What keeps the platform in order: who may do what (Console) and as whom *)
(* (Impersonation), how fast (RateLimit), which build and schema are       *)
(* served (Release) and with which database login (RuntimeLogin).  A       *)
(* behaviour exercises one of the five, chosen in the initial state, as in *)
(* MCPlatform.                                                             *)
(***************************************************************************)
EXTENDS Console, Impersonation, RateLimit, Release, RuntimeLogin, TLC

(* An organization o1 with a superadmin, an administrator and a role that   *)
(* neither of them holds, and a second organization.                        *)
CONSTANTS root, admin, o1, o2, su, manager, stray, copy, g1, superuser, administer, exporting,
          ann, bob, cy, borrowing, earlier, main, branch, prod, scratch,
          one, two  \* requests, server instances, runs of drk-deploy

VARIABLE part  \* the part whose steps this behaviour has

operationsVars == <<consoleVars, borrowVars, rateVars, releaseVars, loginVars, part>>
-----------------------------------------------------------------------------
Owners == [r \in Roles |-> IF r = su THEN Global ELSE o1]
GroupOwners == [g \in Groups |-> o1]
Seeded == [r \in Roles |-> CASE r = su -> {superuser} [] r = manager -> {administer}
                             [] r = stray -> {exporting} [] OTHER -> {}]
Assigned == {<<root, o2, su>>, <<admin, o1, manager>>}
-----------------------------------------------------------------------------
(* Two administrators of o1, ann and bob, and cy, a member of it.  All but   *)
(* perhaps ann are members of o2 too, which is suspended, and bob has a role *)
(* there: an administrator's, or a superuser's.                              *)
Administrators(annIsIn, role) ==
  [enrolled |-> [x \in People \X Tenants |-> IF x # <<ann, o2>> \/ annIsIn THEN "active" ELSE "none"],
   granted |-> ({ann, bob} \X {o1} \X {"impersonate"}) \cup {<<bob, o2, role>>},
   tenants |-> {o1}]

Situations == {Administrators(TRUE, "impersonate"), Administrators(FALSE, "superuser")}
-----------------------------------------------------------------------------
(* Migrations: two files of an earlier release were folded into one, and a   *)
(* branch and main have different versions of the next one.                  *)
Texts == [c \in Commits |-> [f \in Files |->
  CASE c = earlier /\ f \in {3, 4} -> {<<f, "a">>}
    [] c # earlier /\ f = 1 -> {<<3, "a">>, <<4, "a">>}
    [] c = main /\ f = 2 -> {<<2, "a">>}
    [] c = branch /\ f = 2 -> {<<2, "b">>}
    [] OTHER -> {}]]

FoldedInto == [f \in Files |-> IF f = 1 THEN {3, 4} ELSE {}]
Sections == [f \in Files |-> IF f \in {3, 4} THEN {<<f, "a">>} ELSE {}]

(* A new database, one with half of the earlier release, one with all of it. *)
Empty == [f \in Files |-> Absent]
Ledgers == {Empty,
            [Empty EXCEPT ![3] = {<<3, "a">>}],
            [Empty EXCEPT ![3] = Unknown, ![4] = {<<4, "a">>}]}
-----------------------------------------------------------------------------
(* A part that is not the one exercised is left in one initial state. *)
OperationsInit ==
  /\ part \in {"access", "borrowing", "rate", "release", "logins"}
  /\ ConsoleInit
  /\ groups = Groups /\ groupMembers = {}
  /\ BorrowInit
  /\ part # "borrowing" => enrolled[<<ann, o2>>] = "active"
  /\ RateInit
  /\ part # "rate" => lead = [i \in Instances |-> 0]
  /\ ReleaseInit
  /\ part # "release" => checkout = main /\ ledger[prod] = Empty /\ serving = NoCommit /\ gitOn
  /\ LoginInit
  /\ part # "logins" => databaseUrl = AsOwner /\ ~deployed[1].gated

ConsoleStep ==
  /\ part = "access" /\ ConsoleNext
  /\ UNCHANGED <<borrowVars, rateVars, releaseVars, loginVars, part>>

BorrowingStep ==
  /\ part = "borrowing" /\ BorrowNext
  /\ UNCHANGED <<consoleVars, rateVars, releaseVars, loginVars, part>>

RateStep ==
  /\ part = "rate" /\ RateNext
  /\ UNCHANGED <<consoleVars, borrowVars, releaseVars, loginVars, part>>

ReleaseStep ==
  /\ part = "release" /\ ReleaseNext
  /\ UNCHANGED <<consoleVars, borrowVars, rateVars, loginVars, part>>

LoginStep ==
  /\ part = "logins" /\ LoginNext
  /\ UNCHANGED <<consoleVars, borrowVars, rateVars, releaseVars, part>>

OperationsNext == ConsoleStep \/ BorrowingStep \/ RateStep \/ ReleaseStep \/ LoginStep

OperationsSpec == OperationsInit /\ [][OperationsNext]_operationsVars

(* The state of the part exercised keeps its type; the others do not move. *)
OperationsTypeOK ==
  CASE part = "access" -> ConsoleTypeOK
    [] part = "borrowing" -> BorrowTypeOK
    [] part = "rate" -> RateTypeOK
    [] part = "release" -> ReleaseTypeOK
    [] part = "logins" -> LoginTypeOK

(* The two of anything are interchangeable. *)
Symmetry == Permutations({one, two})
=============================================================================
