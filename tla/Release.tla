------------------------------- MODULE Release -------------------------------
(***************************************************************************)
(* How a commit comes to serve production: drk-deploy gates a run,         *)
(* migrates the production database with the kit's runner, builds, and     *)
(* promotes, probes and perhaps rolls back; beside it Vercel's git         *)
(* integration builds every push, and a migrate command prepares the       *)
(* database from a branch.  The build's deploy gate is what keeps a build  *)
(* from going live ahead of its schema.                                    *)
(*                                                                         *)
(* A migration's text is the set of facts that it makes true of a schema;  *)
(* its checksum is as good as the text.  Schemas only grow.  A crash or a  *)
(* refusal ends a run anywhere, and the database lock goes with its        *)
(* session.                                                                *)
(***************************************************************************)
EXTENDS Naturals, FiniteSets

CONSTANTS Commits,
          Main,         \* commits of the production branch
          Files,        \* numbers of migration files
          Text,         \* by commit and file; {} where the commit has no such file
          Folds,        \* the earlier files that a consolidated file stands for
          FoldText,     \* what the section of a folded file does
          Databases, Production,
          Seed,         \* ledgers that the production database may start from
          Absent,       \* not in the ledger
          Unknown,      \* ledgered before checksums were
          Runs, NoRun,
          NoCommit,
          MaxRuns,      \* bound: runs of drk-deploy
          MaxMoves      \* bound: times the checkout is moved

FilesOf(c) == {f \in Files : Text[c][f] # {}}

Facts == UNION {Text[c][f] : c \in Commits, f \in Files}
Entries == {Absent, Unknown} \cup SUBSET Facts

(* A consolidated file does what its sections do, and replaces them.  What   *)
(* was ledgered at first was applied, and without a checksum it was applied  *)
(* as every commit that still has the file has it.                           *)
ASSUME ReleaseAssumption ==
  /\ Files \subseteq Nat /\ Main \subseteq Commits /\ Production \in Databases
  /\ NoCommit \notin Commits /\ NoRun \notin Runs
  /\ Absent # Unknown /\ \A text \in SUBSET Facts : text \notin {Absent, Unknown}
  /\ Folds \in [Files -> SUBSET Files] /\ FoldText \in [Files -> SUBSET Facts]
  /\ \A c \in Commits : \A f \in FilesOf(c) :
       /\ Folds[f] # {} => Text[c][f] = UNION {FoldText[g] : g \in Folds[f]}
       /\ Folds[f] \cap FilesOf(c) = {}
  /\ Seed \subseteq [Files -> Entries]
  /\ \A l \in Seed, f \in Files :
       /\ l[f] \in {Absent, Unknown} \/ l[f] \subseteq FoldText[f]
       /\ l[f] = Unknown => \A c \in Commits : Text[c][f] \subseteq FoldText[f]
  /\ MaxRuns \in Nat /\ MaxMoves \in Nat

VARIABLES
  checkout,  \* the commit in the operator's checkout
  ledger,    \* app_schema_migrations, by database: checksum of each file
  schema,    \* facts that hold of each database
  lock,      \* who holds each database's migration lock
  run,       \* runs of drk-deploy
  gitBuild,  \* commits that Vercel has built and is about to promote
  serving,   \* the commit production serves
  gitOn,     \* whether Vercel deploys pushes
  runs, moves,
  swapped    \* a build took a token for another commit than was migrated (history)

releaseVars == <<checkout, ledger, schema, lock, run, gitBuild, serving, gitOn, runs, moves, swapped>>

NotRunning == [at |-> "rest", head |-> NoCommit, previous |-> NoCommit, migrates |-> FALSE,
               promotes |-> FALSE, rollback |-> FALSE, source |-> NoCommit, token |-> NoCommit,
               built |-> NoCommit]

MaybeCommit == Commits \cup {NoCommit}

ReleaseTypeOK ==
  /\ checkout \in Commits /\ serving \in MaybeCommit /\ gitBuild \subseteq Commits
  /\ ledger \in [Databases -> [Files -> Entries]]
  /\ schema \in [Databases -> SUBSET Facts]
  /\ lock \in [Databases -> Runs \cup {NoRun}]
  /\ run \in [Runs -> [at : {"rest", "gated", "migrating", "migrated", "built", "probing"},
                       head : MaybeCommit, previous : MaybeCommit, source : MaybeCommit,
                       token : MaybeCommit, built : MaybeCommit,
                       migrates : BOOLEAN, promotes : BOOLEAN, rollback : BOOLEAN]]
  /\ gitOn \in BOOLEAN /\ swapped \in BOOLEAN /\ runs \in 0..MaxRuns /\ moves \in 0..MaxMoves

Needs(c) == UNION {Text[c][f] : f \in Files}

ReleaseInit ==
  /\ checkout \in Commits
  /\ \E l \in Seed :
       ledger = [d \in Databases |-> IF d = Production THEN l ELSE [f \in Files |-> Absent]]
  /\ schema = [d \in Databases |->
       UNION {FoldText[f] : f \in {g \in Files : ledger[d][g] # Absent}}]
  /\ serving \in {c \in Commits : Needs(c) \subseteq schema[Production]} \cup {NoCommit}
  /\ lock = [d \in Databases |-> NoRun] /\ run = [r \in Runs |-> NotRunning]
  /\ gitBuild = {} /\ gitOn \in BOOLEAN
  /\ runs = MaxRuns /\ moves = MaxMoves /\ swapped = FALSE
-----------------------------------------------------------------------------
(* Ledgers *)

Ledgered(d, f) == ledger[d][f] # Absent

(* A checksum that is known and is another one. *)
Differs(d, f, text) == ledger[d][f] \notin {Absent, Unknown, text}

AllFolded(d, f) == Folds[f] # {} /\ \A g \in Folds[f] : Ledgered(d, g)
NoneFolded(d, f) == \A g \in Folds[f] : ~Ledgered(d, g)

(* reconcileLedgerChecksum and planConsolidatedMigrations do not throw. *)
Plannable(d, c) ==
  \A f \in FilesOf(c) :
    /\ ~Differs(d, f, Text[c][f])
    /\ ~Ledgered(d, f) => \/ NoneFolded(d, f)
                          \/ AllFolded(d, f) /\ \A g \in Folds[f] : ~Differs(d, g, FoldText[g])

(* evaluateLedger says ok. *)
LedgerOk(d, c) ==
  \A f \in FilesOf(c) :
    IF Ledgered(d, f) THEN ~Differs(d, f, Text[c][f])
    ELSE AllFolded(d, f) /\ \A g \in Folds[f] : ~Differs(d, g, FoldText[g])
-----------------------------------------------------------------------------
(* The operator *)

MoveCheckout(c) ==
  /\ moves > 0 /\ c # checkout
  /\ checkout' = c /\ moves' = moves - 1
  /\ UNCHANGED <<ledger, schema, lock, run, gitBuild, serving, gitOn, runs, swapped>>

(* releaseGate: the tree is clean and its commit may be released (--allow-ref *)
(* admits one that is not on main), and what production serves is recorded.   *)
GateRun(r) ==
  /\ run[r] = NotRunning /\ runs > 0
  /\ \E migrates, rollback \in BOOLEAN :
       run' = [run EXCEPT ![r] = [NotRunning EXCEPT
         !.at = "gated", !.head = checkout, !.previous = serving,
         !.migrates = migrates, !.promotes = TRUE, !.rollback = rollback]]
  /\ runs' = runs - 1
  /\ UNCHANGED <<checkout, ledger, schema, lock, gitBuild, serving, gitOn, moves, swapped>>

(* migrateCommand: from any clean commit, a pull request's included. *)
GateMigrate(r) ==
  /\ run[r] = NotRunning /\ runs > 0
  /\ run' = [run EXCEPT ![r] = [NotRunning EXCEPT !.at = "gated", !.head = checkout, !.migrates = TRUE]]
  /\ runs' = runs - 1
  /\ UNCHANGED <<checkout, ledger, schema, lock, gitBuild, serving, gitOn, moves, swapped>>
-----------------------------------------------------------------------------
(* Migrations *)

(* verifyMigrationTarget *)
TargetVerified(d) == d = Production

(* The runner takes the lock, reads the ledger and the files of the checkout  *)
(* as it is now, checks them, and fills in checksums that were not ledgered.  *)
RunnerStarts(r, d) ==
  /\ run[r].at = "gated" /\ run[r].migrates
  /\ TargetVerified(d) /\ lock[d] = NoRun
  /\ Plannable(d, checkout)
  /\ lock' = [lock EXCEPT ![d] = r]
  /\ run' = [run EXCEPT ![r].at = "migrating", ![r].source = checkout]
  /\ ledger' = [ledger EXCEPT ![d] = [f \in Files |->
       IF @[f] = Unknown /\ f \in FilesOf(checkout) THEN Text[checkout][f] ELSE @[f]]]
  /\ UNCHANGED <<checkout, schema, gitBuild, serving, gitOn, runs, moves, swapped>>

Missing(d, c) == {f \in FilesOf(c) : ~Ledgered(d, f)}
Recordable(d, c) == {f \in Missing(d, c) : AllFolded(d, f)}

(* A consolidated file whose sections are all there is only recorded; then   *)
(* the files that are missing are applied in order, in a transaction each    *)
(* with its ledger row.                                                      *)
RunnerWrites(r, d) ==
  LET c == run[r].source
  IN /\ run[r].at = "migrating" /\ lock[d] = r
     /\ \/ \E f \in Recordable(d, c) :
             /\ ledger' = [ledger EXCEPT ![d][f] = Text[c][f]]
             /\ UNCHANGED schema
        \/ /\ Recordable(d, c) = {}
           /\ \E f \in Missing(d, c) :
                /\ \A g \in Missing(d, c) : f <= g
                /\ ledger' = [ledger EXCEPT ![d][f] = Text[c][f]]
                /\ schema' = [schema EXCEPT ![d] = @ \cup Text[c][f]]
     /\ UNCHANGED <<checkout, lock, run, gitBuild, serving, gitOn, runs, moves, swapped>>

(* A deploy goes on to build, and names the commit that it gated. *)
RunnerEnds(r, d) ==
  /\ run[r].at = "migrating" /\ lock[d] = r
  /\ Missing(d, run[r].source) = {}
  /\ lock' = [lock EXCEPT ![d] = NoRun]
  /\ run' = [run EXCEPT ![r] = IF @.promotes
                                 THEN [@ EXCEPT !.at = "migrated", !.token = run[r].head]
                                 ELSE NotRunning]
  /\ UNCHANGED <<checkout, ledger, schema, gitBuild, serving, gitOn, runs, moves, swapped>>
-----------------------------------------------------------------------------
(* Builds and promotions *)

(* Mutant: any token is taken for a migrated commit. *)
PlanDeployGate_AnyToken(token, head) ==
  IF token # NoCommit THEN TRUE ELSE LedgerOk(Production, head)

(* planDeployGate: a token skips the ledger where it names the commit being  *)
(* built; a production build without one compares the ledger.                *)
PlanDeployGate(token, head) ==
  IF token # NoCommit THEN token = head ELSE LedgerOk(Production, head)

BuildRun(r) ==
  /\ \/ run[r].at = "migrated"
     \/ run[r].at = "gated" /\ run[r].promotes /\ ~run[r].migrates
  /\ PlanDeployGate(run[r].token, checkout)
  /\ run' = [run EXCEPT ![r].at = "built", ![r].built = checkout]
  /\ swapped' = (swapped \/ (run[r].token = checkout /\ run[r].source # checkout))
  /\ UNCHANGED <<checkout, ledger, schema, lock, gitBuild, serving, gitOn, runs, moves>>

Promote(r) ==
  /\ run[r].at = "built"
  /\ serving' = run[r].built
  /\ run' = [run EXCEPT ![r].at = "probing"]
  /\ UNCHANGED <<checkout, ledger, schema, lock, gitBuild, gitOn, runs, moves, swapped>>

(* verifyOrRollBack: promotes back what the gate recorded. *)
RollBack(r) ==
  /\ run[r].at = "probing" /\ run[r].rollback /\ run[r].previous # NoCommit
  /\ serving' = run[r].previous
  /\ run' = [run EXCEPT ![r] = NotRunning]
  /\ UNCHANGED <<checkout, ledger, schema, lock, gitBuild, gitOn, runs, moves, swapped>>

(* Refused, failed, crashed, or healthy and done. *)
RunEnds(r) ==
  /\ run[r] # NotRunning
  /\ run' = [run EXCEPT ![r] = NotRunning]
  /\ lock' = [d \in Databases |-> IF lock[d] = r THEN NoRun ELSE lock[d]]
  /\ UNCHANGED <<checkout, ledger, schema, gitBuild, serving, gitOn, runs, moves, swapped>>

(* Vercel builds a push; its gate polls the ledger until it passes or the    *)
(* build fails.                                                              *)
GitBuilds(c) ==
  /\ gitOn /\ c \in Main \ gitBuild
  /\ PlanDeployGate(NoCommit, c)
  /\ gitBuild' = gitBuild \cup {c}
  /\ UNCHANGED <<checkout, ledger, schema, lock, run, serving, gitOn, runs, moves, swapped>>

GitPromotes(c) ==
  /\ c \in gitBuild
  /\ gitBuild' = gitBuild \ {c} /\ serving' = c
  /\ UNCHANGED <<checkout, ledger, schema, lock, run, gitOn, runs, moves, swapped>>
-----------------------------------------------------------------------------
ReleaseNext ==
  \/ \E c \in Commits : MoveCheckout(c) \/ GitBuilds(c) \/ GitPromotes(c)
  \/ \E r \in Runs :
       \/ GateRun(r) \/ GateMigrate(r)
       \/ \E d \in Databases : RunnerStarts(r, d) \/ RunnerWrites(r, d) \/ RunnerEnds(r, d)
       \/ BuildRun(r) \/ Promote(r) \/ RollBack(r) \/ RunEnds(r)

ReleaseSpec == ReleaseInit /\ [][ReleaseNext]_releaseVars
-----------------------------------------------------------------------------
(* Correctness *)

(* F-47.  What production serves always finds in the production database     *)
(* everything its own migrations create, with the text it was built with:    *)
(* through crashes between files, runs side by side, a branch that migrated  *)
(* another version of a file first, consolidated files, a checkout that      *)
(* moves between gate, migration and build, pushes built meanwhile, and      *)
(* rollbacks; unless the checkout was away while the run migrated and back   *)
(* for its build.                                                            *)
ServedSchemaIsThere ==
  serving # NoCommit /\ ~swapped => Needs(serving) \subseteq schema[Production]
=============================================================================
