---------------------------- MODULE RuntimeLogin ----------------------------
(***************************************************************************)
(* The database login production connects with: db:runtime-login of the    *)
(* deployment tool mints a least-privilege login named by the minute,      *)
(* writes it to the hosting environment and redeploys; its retire modes     *)
(* drop the logins no longer used.  Operators run it at the same time, and  *)
(* pushes, promotions and rollbacks change what is served meanwhile.        *)
(***************************************************************************)
EXTENDS Integers, FiniteSets, Sequences

CONSTANTS Operators,   \* runs of db:runtime-login
          Minutes,     \* bound: the clock, whose minutes name the logins
          MaxLogins,   \* bound: runs started
          MaxDeploys   \* bound: deployments

ASSUME LoginAssumption == 1 \in Minutes /\ Minutes \subseteq Nat \ {0} /\ {MaxLogins, MaxDeploys} \subseteq Nat

VARIABLES minute,
          login,      \* minute -> the password of the login named by it, 0 for none
          databaseUrl, \* DATABASE_URL of Production: a login's name and password
          deployed,   \* the deployments: what they connect with, and whether they have the gate
          serves,     \* the one production serves
          assigning,  \* new builds get the production domain (off after a rollback)
          operator,   \* the runs
          passwords,  \* passwords generated so far
          excused     \* something was done that the tool cannot see or was told to do

loginVars == <<minute, login, databaseUrl, deployed, serves, assigning, operator, passwords, excused>>

Owner0 == 0  \* the owner's name: production may connect as the owner
AsOwner == [name |-> Owner0, password |-> 0]
LoginNames == {Owner0} \union Minutes
Connections == {AsOwner} \union [name : Minutes, password : 1..MaxLogins + 1]

(* The login and password that a connection needs are there. *)
Connects(c) == c.name = Owner0 \/ login[c.name] = c.password

Unread == [at |-> "idle", mode |-> "create", except |-> Owner0, force |-> FALSE, serving |-> 0, gate |-> FALSE,
           liveUser |-> Owner0, login |-> Owner0, password |-> 0, doomed |-> {}]

SetOperator(o, r) == operator' = [operator EXCEPT ![o] = r]
OperatorEnds(o) == SetOperator(o, Unread)
-----------------------------------------------------------------------------
(* The owner of a build: its schema gate connects with DATABASE_URL, and as  *)
(* the owner only while no rotated login exists.                             *)
GatePasses(gated, c) ==
  gated => IF c.name = Owner0 THEN \A n \in Minutes : login[n] = 0 ELSE Connects(c)

Build(gated) ==
  /\ Len(deployed) < MaxDeploys
  /\ GatePasses(gated, databaseUrl)
  /\ deployed' = Append(deployed, [connects |-> databaseUrl, gated |-> gated])

(* Production is given to a deployment: whether its login is still there is  *)
(* nothing Vercel looks at.                                                  *)
Serve(d) ==
  /\ serves' = d
  /\ excused' = (excused \/ ~Connects(deployed[d].connects))

Push ==
  /\ Build(TRUE)
  /\ UNCHANGED <<minute, login, databaseUrl, serves, assigning, operator, passwords, excused>>

Assign ==
  /\ assigning /\ serves < Len(deployed)
  /\ Serve(Len(deployed))
  /\ UNCHANGED <<minute, login, databaseUrl, deployed, assigning, operator, passwords>>

PromoteDeployment(d) ==
  /\ d \in DOMAIN deployed /\ d # serves
  /\ Serve(d)
  /\ assigning' = (d > serves)
  /\ UNCHANGED <<minute, login, databaseUrl, deployed, operator, passwords>>

Tick ==
  /\ minute + 1 \in Minutes
  /\ minute' = minute + 1
  /\ UNCHANGED <<login, databaseUrl, deployed, serves, assigning, operator, passwords, excused>>
-----------------------------------------------------------------------------
(* readOptions, checkKitTree, targetIdentity: the serving deployment and the *)
(* user its gate line names.  Without a line the operator has to vouch for   *)
(* the database, and the user is unknown.                                    *)
targetIdentity(o, mode, except, force) ==
  LET d == deployed[serves]
  IN [Unread EXCEPT !.at = "read", !.mode = mode, !.except = except, !.force = force,
                    !.serving = serves, !.gate = d.gated, !.liveUser = d.connects.name]

(* The name that would be minted is production's own. *)
NameInUse_Unchecked(r, name) == FALSE

NameInUse(r, name) == r.gate /\ r.liveUser = name

(* runtimeLogin without a retire mode, up to the kit command. *)
StartMint(o) ==
  /\ operator[o].at = "idle" /\ passwords < MaxLogins
  /\ LET r == targetIdentity(o, "create", Owner0, FALSE)
     IN /\ ~NameInUse(r, minute)
        /\ SetOperator(o, [r EXCEPT !.login = minute, !.password = passwords + 1])
  /\ passwords' = passwords + 1
  /\ UNCHANGED <<minute, login, databaseUrl, deployed, serves, assigning, excused>>

(* runRuntimeLogin: creates the login, or sets the password of one that is   *)
(* there, in one transaction; then connects as it to verify.                 *)
Mint(o) ==
  /\ operator[o].at = "read" /\ operator[o].mode = "create"
  /\ LET r == operator[o]
     IN /\ login' = [login EXCEPT ![r.login] = r.password]
        /\ excused' = (excused \/ r.serving # serves \/ ~r.gate)
        /\ \/ SetOperator(o, [r EXCEPT !.at = "minted"])
           \/ OperatorEnds(o)
  /\ UNCHANGED <<minute, databaseUrl, deployed, serves, assigning, passwords>>

(* The kit command fails before it has written anything. *)
KitFails(o) ==
  /\ operator[o].at \in {"read", "kept"}
  /\ OperatorEnds(o)
  /\ UNCHANGED <<minute, login, databaseUrl, deployed, serves, assigning, passwords, excused>>

(* planEnvWrites: DATABASE_URL first; a later write that fails leaves it     *)
(* written.                                                                  *)
WriteEnv(o) ==
  /\ operator[o].at = "minted"
  /\ \/ OperatorEnds(o) /\ UNCHANGED databaseUrl
     \/ /\ databaseUrl' = [name |-> operator[o].login, password |-> operator[o].password]
        /\ OperatorEnds(o) \/ SetOperator(o, [operator[o] EXCEPT !.at = "written"])
  /\ UNCHANGED <<minute, login, deployed, serves, assigning, passwords, excused>>

(* --redeploy: the serving deployment's commit is built again. *)
Redeploy(o) ==
  /\ operator[o].at = "written"
  /\ Build(operator[o].gate) \/ UNCHANGED deployed
  /\ OperatorEnds(o)
  /\ UNCHANGED <<minute, login, databaseUrl, serves, assigning, passwords, excused>>
-----------------------------------------------------------------------------
RetireRefused(r) ==
  IF r.except # Owner0 THEN ~(r.gate /\ r.except = r.liveUser)
                       ELSE r.gate /\ r.liveUser # Owner0

StartRetire(o, except, force) ==
  /\ operator[o].at = "idle" /\ passwords < MaxLogins
  /\ LET r == targetIdentity(o, "retire", except, force)
     IN (RetireRefused(r) => force) /\ SetOperator(o, r)
  /\ passwords' = passwords + 1
  /\ UNCHANGED <<minute, login, databaseUrl, deployed, serves, assigning, excused>>

(* retireLogins: the login to keep has to be there. *)
RetireKeep(o) ==
  /\ operator[o].at = "read" /\ operator[o].mode = "retire"
  /\ LET r == operator[o]
     IN IF r.except # Owner0 /\ login[r.except] = 0
        THEN OperatorEnds(o)
        ELSE SetOperator(o, [r EXCEPT !.at = "kept"])
  /\ UNCHANGED <<minute, login, databaseUrl, deployed, serves, assigning, passwords, excused>>

(* The others are listed once; those with open sessions stay unless forced. *)
RetireRead(o) ==
  /\ operator[o].at = "kept"
  /\ LET r == operator[o]
         rotated == {n \in Minutes : login[n] # 0 /\ n # r.except}
     IN \E idle \in SUBSET rotated :
          /\ r.force => idle = rotated
          /\ SetOperator(o, [r EXCEPT !.at = "drop", !.doomed = idle])
  /\ UNCHANGED <<minute, login, databaseUrl, deployed, serves, assigning, passwords, excused>>

RetireDrop(o, n) ==
  /\ operator[o].at = "drop" /\ n \in operator[o].doomed
  /\ LET r == operator[o]
     IN /\ \/ /\ login' = [login EXCEPT ![n] = 0]
              /\ excused' = (excused \/ r.force \/ ~r.gate \/ r.serving # serves)
           \/ UNCHANGED <<login, excused>>
        /\ SetOperator(o, [r EXCEPT !.doomed = @ \ {n}])
  /\ UNCHANGED <<minute, databaseUrl, deployed, serves, assigning, passwords>>

Retired(o) ==
  /\ operator[o].at = "drop" /\ operator[o].doomed = {}
  /\ OperatorEnds(o)
  /\ UNCHANGED <<minute, login, databaseUrl, deployed, serves, assigning, passwords, excused>>
-----------------------------------------------------------------------------
(* Production connects as the owner, or as a login minted earlier; a         *)
(* deployment from before the gate prints no line.                           *)
LoginInit ==
  /\ minute = 1
  /\ \E c \in {AsOwner, [name |-> 1, password |-> MaxLogins + 1]}, gated \in BOOLEAN :
       /\ login = [n \in Minutes |-> IF n = c.name THEN c.password ELSE 0]
       /\ databaseUrl = c
       /\ deployed = <<[connects |-> c, gated |-> gated]>>
  /\ serves = 1 /\ assigning = TRUE
  /\ operator = [o \in Operators |-> Unread]
  /\ passwords = 0 /\ excused = FALSE

LoginNext ==
  \/ Push \/ Assign \/ Tick
  \/ \E d \in 1..MaxDeploys : PromoteDeployment(d)
  \/ \E o \in Operators :
       \/ StartMint(o) \/ Mint(o) \/ KitFails(o) \/ WriteEnv(o) \/ Redeploy(o)
       \/ \E except \in LoginNames, force \in BOOLEAN : StartRetire(o, except, force)
       \/ RetireKeep(o) \/ RetireRead(o) \/ Retired(o) \/ \E n \in Minutes : RetireDrop(o, n)

LoginSpec == LoginInit /\ [][LoginNext]_loginVars
-----------------------------------------------------------------------------
LoginTypeOK ==
  /\ minute \in Minutes /\ login \in [Minutes -> 0..MaxLogins + 1]
  /\ databaseUrl \in Connections
  /\ deployed \in Seq([connects : Connections, gated : BOOLEAN]) /\ serves \in DOMAIN deployed
  /\ \A o \in Operators : operator[o].at \in {"idle", "read", "kept", "minted", "written", "drop"}

(* Production can connect: the login of the deployment it serves is there    *)
(* with the password it was built with, whatever runs of db:runtime-login    *)
(* failed half way or ran at once, unless a run was forced, could not read   *)
(* which login is in use, acted on a deployment no longer served, or a       *)
(* deployment was given production after its login had gone.                 *)
ServedLoginStands == excused \/ Connects(deployed[serves].connects)
=============================================================================
