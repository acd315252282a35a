# A TLA+ model of devresponsekit

devresponsekit is a multi-tenant administration platform (Next.js, PostgreSQL through
Kysely, Better Auth). Its state is in the database; each HTTP request, cron tick or
operator script is a process that reads and writes it in one or more transactions at
READ COMMITTED. What is hard about it is what those processes do to each other between
two statements, and what is left when one of them stops half-way. That is what the
modules here model. Finding numbers (F-10, F-101), rule names (REVOKE-2) and review
numbers are the source's own.

## 1. Inventory

| Component | State | Operations | What makes it correct |
|---|---|---|---|
| Last-superadmin guard, REVOKE-2 (`src/lib/admin/access-scope.server.ts` and the routes listed there) | `app_user_roles`, membership, organization and account status, role permissions, the Better Auth ban | revoke a role, strip `superuser` from a role, change or remove memberships, suspend an organization, block or suspend a user, ban, soft-delete; and what adds grants: approve, unban, restore, assign, grant, invite, activate | concurrent removals never leave the platform without a superadmin; a refused ban is undone |
| Email outbox (`src/lib/email`, `src/lib/retention.server.ts`) | `app_outbox` rows; the inline send's retry loop; a drain's open transaction | send inline, drain, sweep stale rows, prune | one caller at a time, bounded calls, no second acceptance without a lost answer, secrets kept no longer than needed, every row settles |
| Bearer credentials (`src/lib/api-auth`, `src/lib/auth.ts`) | `app_api_keys`, `app_oauth_clients`, sessions, issued JWTs | create, rotate, revoke, evict all on a new password or deletion, mint a token | nothing minted by an old session or key survives the eviction; a rotated key has one successor; retired credentials retire their tokens |
| Account lifecycle (`src/lib/admin/user-actions.server.ts`) | account status, ban, memberships with their snapshots, the prior-ban record | soft-delete, restore, erase, ban, unban, decide a membership | restore gives back what the deletion took and nothing more (F-57, F-152); erased stays deleted |
| Invitations and provisioning (`src/lib/invitations.server.ts`, `src/lib/user-provisioning.server.ts`) | invitation rows, pending accounts | create, resend, revoke, consume, provision, re-evaluate | a token is consumed once; no activation without an approver |
| Organizations and settings forms (`src/lib/default-organization.server.ts`, `src/lib/admin/record-etag.server.ts`, `src/lib/forms`) | the records, the default flag, what a browser form holds | create, edit under If-Match, move the default, delete | exactly one default; what is saved is what its author saw |
| SSO handoff (`src/lib/sso.server.ts`, `src/app/api/sso`) | nonces, sessions, applications | launch, consume, disable, delete, sweep | a code becomes at most one session; a swept application is signed out |
| MCP agents (`src/lib/mcp`) | service account, membership, client | register, approve, revoke, reap | the quota holds; no agent is half active |
| Lists and exports (`src/lib/admin/list-query.server.ts`, `export/[resource]`) | a cursor, a walk by pages | page, export, walk a catalogue | nothing is skipped, doubled or silently missing |
| Users grid (`_users-grid.tsx`, `users/bulk`) | URL, rows, selection, dialog, batch | filter, select, confirm, apply | the batch is what was chosen and confirmed |
| Administrator console (`src/lib/admin/grantable-permissions.server.ts`, `membership-grants.server.ts`, the role, group and member routes) | roles, permissions, groups, memberships, assignments | assign, revoke, edit, copy, add, remove | no administrator confers or removes more than they hold (AUTHZ-3); a removal takes all grants (F-12) |
| Impersonation (`users/[id]/impersonate`, `src/lib/impersonation-*.server.ts`) | sessions with their borrower | open, stop, ban, sign out, reset | a borrowed session is bounded by its borrower |
| Rate limits (`src/lib/http`) | buckets in the database and in memory | consume, fall back, prune | the limit holds across processes and clocks |
| Releases (`vercel-cli/src/commands/release.ts`, `src/db/deploy-gate.ts`, `src/db/migrations`) | ledger, schema, builds, what is served | migrate, gate, build, promote, roll back | served code finds its schema |
| Database logins (`vercel-cli/src/commands/runtime-login.ts`, `src/db/runtime-login.ts`) | logins, `DATABASE_URL`, deployments | mint, write, redeploy, retire | the served deployment's login stands |
| Interface, documentation, i18n, SDK, observability, environment | none that another component reads | | not modelled (section 12) |

Interactions. A ban is written by Better Auth on its own connection, so it cannot share
the transaction of the guard that judges it: the ban and soft-delete routes are sagas.
A soft-delete ends with an eviction of the account's bearer credentials. Invitations send
through the outbox, and the drain asks the invitation table whether a link is still live.
Accepting an invitation adds grants the guard counts. Retention runs over the outbox.

Everything hard to test in this code that the survey met is listed, with its line, under
`hazards` in `PROJECT.json`.

## 2. Modules

| Modules | Status |
|---|---|
| `LastSuperadmin`, `Outbox`, `BearerCredentials` | runs of their own (sections 3 to 5); proofs in `LastSuperadminProofs`, `SuperadminSurvivesProofs`, `OutboxProofs`, `OutboxPromptProofs`, `BearerCredentialsProofs` |
| `OneShot` | abstract: a single-use grant |
| `AccountLifecycle`, `SignUp` (extends it; implements `OneShot`) | run `platform` (sections 6 and 7); proofs in `SignUpProofs` |
| `Organizations`, `SsoHandoff` (implements `OneShot`), `McpAgents`, `AdminLists`, `UserGrid` | run `platform`; proofs in `PlatformProofs` |
| `Console`, `Impersonation`, `RateLimit`, `Release`, `RuntimeLogin` | run `operations` (sections 6 and 8); proofs in `OperationsProofs` |

A component's theorems are about its own specification (`ConsoleSpec`, `SsoSpec`, ...).
`PlatformImplementsParts` and `OperationsImplementParts` carry them over to the composed
specifications that the runs check: the composition starts each part in a state its own
specification allows, and a step of one part is a stutter of the others.

## 3. LastSuperadmin

A grant `<<u, o, r>>` is a row of `app_user_roles`; it counts under the joins of
`activeGlobalSuperuserGrants`. A request is a process with a place `pc`; a removal goes
`opened` (transaction begun), `reading` (the statement snapshot of the `FOR UPDATE` read),
`locked` (row locks held, rows re-evaluated), then commits or rolls back. A saga first reads
the ban in place, bans, then runs the same transaction and on refusal undoes. A bulk action
(`executeBulkUserAction`) is one request per account. Membership status is abstracted to
none, active and inactive, because only `active` counts. Routes that only add grants are one
step, after waiting for the rows they write or reference.

`Free` and `Lockable` are the row locks. The rows of a read are locked in one step; PostgreSQL
takes them one by one, which adds deadlocks (one transaction is aborted: `RollBack`) and no
other outcome. Roles, organizations and permissions in use cannot be deleted (foreign keys
and `assertRoleNotInUse`), and erasure is for deactivated accounts, so none of these removes
a counting grant. A ban does not lapse before its own request ends.

`Exclusive` is the workload: with it, two requests about one account are not in flight
together. The code does not enforce this; runs `lockout` and `concurrent_bans` are about what
happens at that edge.

| Run | Instance | Shows |
|---|---|---|
| `superadmin` | 2 users, 2 organizations, 2 roles, 3 requests of every kind, Exclusive, symmetry | `TypeOK`; `CountedGrantsStay`: locks protect what was counted; `NoUnverifiedBanLeft`; `ASuperadminSurvives` |
| `lockout` (violation) | both superadmins in one organization; bans and a suspension | `NeverLockedOut` fails: the suspension reads no grant while bans are provisional, and an empty read is nothing to protect |
| `concurrent_bans` (violation) | one superadmin, two bans of it | `NoUnverifiedBanLeft` fails: one undo restores the other's refused ban |

Three requests are enough for the known shapes: a removal, one that races it, and one that
changes what either saw. Two superadmins are the smallest case in which a removal may be
accepted. `ASuperadminSurvives` names its two provisos: no request was let through by an empty
read, no saga crashed. Both are real outcomes of the code, and the first is the `lockout` run.
Requests are one-shot, so a run ends: deadlock is not checked.

Proofs. `LastSuperadminProofs`: `TypeCorrect`; `CountedGrantsKept`, for every workload.
`SuperadminSurvivesProofs`, under `Exclusive`: `BookkeepingHolds`, `UnverifiedBansGo`,
`SuperadminSurvives`. `ASuperadminSurvives` is not inductive: when a request commits, one must
know that what it writes is covered by the removal it was measured by, that a provisional ban
is its saga's, and that a restore writes a deactivated account only. `ExclusiveBookkeeping`
says this. The step that carries the argument: the grants a committing request holds all still
count (`CountedGrantsStay`), one of them is outside its removal, and its write ends no grant
outside the removal.

## 4. Outbox

One row per email with its columns, the inline send (`sender`, `tries`, `reply`) and each drain
(`claimed` is the row its transaction has locked). Time is relative: `due` until
`next_attempt_at`, `age` since creation. A provider's reply is ok, transient, permanent, or
lost (accepted, the answer never came). A database failure after a delivery aborts the drain's
transaction, `DrainRollsBack`. `calls`, `accepts` and the others in `history` are not in the code.

Abstracted: rendering; the order in which due rows are taken; `logged` rows keep their payload
by design (`send.server.ts` 307-312). Assumed (`OutboxAssumption`): the inline cap is below
the cap, retention is enabled and not shorter than the pending age. `Prompt` states that an
inline send has written its row by age `Settle`, before the lease ends: the code bounds the
send to 20 s against a lease of 2 minutes, but a stalled process or slow update can exceed it.

| Run | Instance | Shows |
|---|---|---|
| `outbox` | 1 row, 2 drains of its provider, Prompt, 2 faults | `OneCallerAtATime`, `AcceptedOnceIfRecorded`, `CallsWithinCap`; liveness `EveryRowSettles` |
| `outbox_stalled` | not Prompt, the two drains on two providers | what holds all the same: `PayloadWhileNeeded`, `OneProviderPerRow`, `NeverRequeued` |

Rows do not interact except through drains claiming one at a time, so one row with two drains
has every race. Two faults allow a lost answer and a crash in one life. Lease 2, Settle 1,
backoff 1 to 3, token 6, pending 9 and retention 10 keep the order of the real durations.
Fairness: time passes; an inline send and an open drain transaction go on (provider calls have
timeouts); the sweep is strongly fair, since retention keeps being scheduled and may find the row
locked. No drain is assumed to claim anything, so a row settles even when its provider was removed.
A queue may stay empty for ever: deadlock is not checked.

Proofs. `OutboxProofs`, with no assumption on speed: `TypeCorrect`, `PayloadKept`,
`NotRequeued`, `ProviderNeverSwitched`. `OutboxPromptProofs`, under `Prompt`:
`BookkeepingHolds`, `OneCaller`, `AcceptedOnce`, `CapHolds`. The invariant
`PromptBookkeeping` is needed because the properties relate counters of the past to what is in
flight: calls made are calls recorded, uncounted and open, and a send in flight has
`due + age = Lease`, so its row is not due.

## 5. BearerCredentials

The keys and clients of one account, its sessions, requests that mint or rotate, and evictions.
`root` is the authority a credential goes back to: an old session, a new one (new password),
another principal, or a token from before the `cid` claim, which takes no fence. A request is
`authenticated`, `fenced` (FOR SHARE on the owner), `checked`, then inserts; rotation reads,
locks and swaps; the token endpoint verifies, then mints. An eviction replaces the password,
ends the sessions and runs passes under FOR NO KEY UPDATE until one finds nothing, at most
`MaxPasses`. The last statement of a transaction and its commit are one step. A failed session
sweep (the reset hook logs it and goes on) and a failed pass are actions.

Abstracted: scopes, expiry dates of keys (an expired key does not authenticate, and is revoked all
the same), audiences. External: Better Auth's sign-in; a sign-in verified with the old password
that writes its session after the sweep is inside Better Auth and not modelled. The exact
millisecond in which `secret_rotated_at` equals `iat` is not told apart from the rest of its second.

| Run | Instance | Shows |
|---|---|---|
| `credentials` | a key, a client, 2 free rows, an old and a new session, 2 requests, 1 eviction, 2 passes, symmetry | `TypeOK`, `NoOldCredentialSurvives`, `OneSuccessor` |
| `eviction_ends` | a key, a free row, 1 request, 2 evictions, a clock | two evictions of one account, waiting for each other and for the request, end: `EvictionEnds` |
| `old_secret` (violation) | a client, 1 request, 1 rotation, 2 seconds | `OldSecretRetired` fails: verified before the rotation, minted after it |

Two requests show a mint against a rotation and two rotations of one key; two free rows let both
write; two passes let a mint between them reach the bound. Fairness: an open request goes on
(weak), and an eviction that is able to go on again and again does (strong: PostgreSQL queues lock
waiters). Requests are one-shot and evictions end: deadlock is not checked.

Proofs (`BearerCredentialsProofs`): `TypeCorrect`, `OneSuccessorHolds`, `EvictionIsComplete`,
`FenceBookkeepingHolds`, for any number of rows, sessions, requests and evictions. A pass that
finds nothing proves that nothing old is active then (`SweptIsAll`, since the locks keep fenced
writers out, `LocksExclude`), and afterwards nothing old is written, because who passes the
re-check has a live source (`CheckedIsFresh`) and rotation needs an active key.

## 6. The two composed runs

`MCPlatform` and `MCOperations` put components side by side under one next-state relation. A
behaviour exercises one of them, chosen in its first state (`part`), and the others stay in one
initial state: the parts share no variable, so letting them interleave would multiply states and
show nothing new. Components that do share state are one part: `SignUp` extends
`AccountLifecycle`, and their requests run against each other on one account. Where a module
needs another's effect only, it has it as an input (an application disabled, a membership gone).

In each of these modules requests are processes that read at one step and write at a later one,
because the routes check on the connection pool and write in a statement or transaction of their
own. A request may end anywhere (a refusal, an error, a crash). Deadlock is not checked: requests
are bounded and a quiet system is in order. The two requests, tabs, instances or operators of a
part are interchangeable, hence `SYMMETRY`.

Some promises hold only up to a race that the code accepts or does not see. Then a history
variable marks that very race, the property excuses the marked state alone, and the module's
comment names it: `stale`, `torn` (AccountLifecycle), `late`, `blessed` (Console), `outran`
(SsoHandoff), `reinstated` (McpAgents), `slack` (RateLimit), `swapped` (Release), `excused`
(RuntimeLogin), `shifted`, `late` (Impersonation). Sections 9 and 10 list the races. A mark is of one
ticket, request or session wherever the race is: a ticket that is launched anew after a launch
failed, say, has not outrun anything yet.

## 7. Run `platform`

**AccountLifecycle.** One account: status, ban in Better Auth, memberships with their
`pre_deactivation_status`, the audit row that records the prior ban, erasure. Soft-delete is read,
ban, record, transaction, with its compensation; restore is read, ban put back, transaction.
`NoStrandedMembership`, `BanIsAdministrators` (F-57), `ErasedStaysDeleted` (F-151),
`HeldForApprover` (F-152).

**SignUp.** Provisioning, sign-in re-evaluation (`reevaluatePendingActivation`) and invitations on
top of it: `OnlyAdministratorsLift`, and `InvitationsAreOneShot`, a refinement: an invitation maps
to a grant of `OneShot` (`pending` offered, `accepted` taken, `revoked` withdrawn) and those it
admitted are its winners. Two requests at a time, three in all, one edit; one organization
activates by itself, the other does not. Three requests are the shortest way from a deletion
through a restore to whatever runs against both.

**Organizations.** Records with a default flag, edits under If-Match, moves and deletes of the
default, and two Settings forms that follow the server (`useSavedFormBaseline`). An ETag is a hash
of the content, so a tag is modelled by the content and an earlier content has its tag again.
`OneDefaultOrganization` (F-40), `SavedAsShown` (F-39). Two organizations, two names, four saves:
an overtaken save followed by a save of the overtaken form needs four.

**SsoHandoff.** Launch checks and inserts a nonce; consume burns it and opens a session; disabling
or deleting an application sweeps nonces, then sessions, and may fail at any point.
`HandoffsAreOneShot` is the second refinement of `OneShot`; `SweptAppSignedOut` (F-82). Two tickets,
two consumers, two sweepers.

**McpAgents.** Registration under the quota, approval (two statements), revocation, the reaper.
`QuotaHeld`, `AgentStandsWhole`. Two agents under a quota of one.

**AdminLists.** The export walks by keyset cursor, with nulls sorted as `applyKeyset` does and
truncation at `MAX_EXPORT_ROWS`; `fetchAllPages` walks a catalogue by page number and starts over
when the count moved. A page is stated as what ORDER BY and LIMIT give: for an export, the sequence
that is sorted and ahead of every row it leaves out (there is one); for a walk, which only uses the
page as a set, the rows whose number of predecessors is in the page's range. Five rows with repeated
and null sort values, pages of two, two writes by others. `ExportIsTheView`, `CatalogWhole`.
`KnownToDiffer` names where an export's query is not the grid's.

**UserGrid.** URL, result, selection, dialog and batch; a handler keeps the values of the render it
was created in. `ActsOnWhatWasChosen` (F-62, F-114). Three users on pages of one, a cap of two, two
moves, one batch, one write by somebody else.

Proofs of `SignUpProofs`, about `SignUpSpec`, for any organizations, invitations, requests and
bounds. `SignUpTyped` needs `Carries`: a request about to write a ban or to consume an invitation
has one in hand. `Held` gives `MembershipsAreNotStranded` and `RestoredIsHeld`: a membership a
deletion took and nobody approved is blocked or pending *and carries its snapshot*, and no
re-evaluation that is up to date has picked it. `StaysErased` gives `ErasedIsFinal`: from the erasure on,
every restore under way is out of date. `BansOK` gives `DeletionRestoresTheBan`: it says for each
statement of the sagas where the administrators' ban is at that moment (on the account, in what
the request read, or on record), given that one request at most writes it. `AdministratorsLift`
is proved step by step, and `InvitationsAreSingleUse` from what a step may do to one invitation
(`InviteStep`), every such step being one of `OneShot` or a stutter.

Proofs of `PlatformProofs`. `DefaultIsUnique` and `SavesAreAsShown`: a tab always compares its
values with the very record it names in If-Match (`FormOK`), so an accepted save carries every
field in which what its author saw differs from the table. `SweepSignsOut`: `Passed` says that
once the nonces of an application are swept, what can still become a session of it was in flight
then; the order of the sweep's two statements is what makes it inductive. `TokensAreOneShot` is
the second refinement. `QuotaIsHard`: the registration that holds the lock is alone and has room
(`RoomOK`). `AgentsStandWhole`: approval writes the account before the membership.
`BatchIsAsChosen`: a selection is always of the URL's own scope (`GridStates`), so what the
dialog's handler closed over is what was on screen, and the batch only shrinks.

`ExportsTheView` rests on `UpToCursor`: of the rows nobody wrote, exactly those not beyond the cursor
are written out. The cursor is a pair of a key and an id, not a row, so it goes on meaning the same
when its row is edited or deleted; `AheadIsOrder` (keys and ids are totally ordered, nulls last) and
`FullPage` (what is beyond the new cursor is what was beyond the old one and not in the page) carry
it over a page, and `ShortPage` ends it: a page below its limit had all that was left. Where the
export's query is the grid's, `SameQuery` turns exported into listed. `CatalogIsWhole` counts instead,
as offset pages may well skip rows: what is held was listed at some time; if nothing came in, the
first page's count is the size of all that was ever listed, and if nothing left, all that is held is
still listed and the last page counted it. Either way an answer that holds as many as it reports holds
them all. That `Reported` takes the largest count when the count moved is what the proof needs, and
what its mutant drops.

## 8. Run `operations`

**Console.** Roles, permissions, groups, memberships and assignments as sixteen operations, each a
check and a later write. `NoEscalation`: no sequence of edits lets the members of an organization
hold what none of them was given legitimately (`vested`); what a superadmin's write adds to
everybody's grants is legitimate, and so is what a request adds that such a write overtook
(`blessed`), and so on along a chain of overtaken requests. `NoDormantGrant` (F-12).
`BoundedRevocation`: what a write takes away, its caller held. A superadmin and an administrator
of one organization, a role neither holds, a role to copy into, one group that starts empty, two
requests at a time and three in all: a detour through a group is to fill it, give it a role and
use the result.

**Impersonation.** `POST users/[id]/impersonate` compares ranks statement by statement
(`CompareUnion`, IMP-1; `CompareShared`, IMP-2), checks that the session would be admitted
somewhere (F-148), and has Better Auth open it; afterwards each request looks at the borrower's
reach only (`Reachable`). Bans, sign-outs and resets are sequences of statements, each of which may
fail. `BorrowedSessionsBounded` has three parts. `ReachIsTheHumans`: it goes nowhere its human
could not go now, after any chain of impersonations. `RankIsTheHumans`: a tenant, account or ban
that comes back mid-session gives it nothing that was not compared; what was granted, stripped or
joined since then is excused by `shifted`, because the code compares once. `ContainedIsOut` (F-08):
once an administrator's ban or sign-out has ended, the account drives no session, except one being
inserted while the sweep passed. Sessions opened by a superuser are not compared, and so not
judged. Bearer callers are refused by the route (all are organization-bound) and left out. The
statements inside `permissionKeysByActiveOrg` are one step; grants through groups are folded into
`granted`. Two administrators with a role in a suspended tenant and a member, two borrowed
sessions, two changes by others: an unban takes a ban first, and a chain needs two sessions.

**RateLimit.** One key's bucket in PostgreSQL, the bucket in each instance's memory while the
database is out of reach, the cooldown, and pruning; each clock leads or lags. `FloorHeld`: no more
passes than the burst and what came in by the fastest clock, and `slack` for prunes and evictions.
Two instances, burst of two, a lead of two, three units of time, two faults.

**Release.** `drk-deploy` gates, migrates file by file, builds, promotes, probes, rolls back; Vercel
builds pushes; another run migrates from a branch. A migration is the set of schema facts it
makes; folded files and unknown checksums are as in `migration-plan.ts`. `ServedSchemaIsThere`
(F-47) excuses a run whose checkout was elsewhere while it migrated and back for its build
(`swapped`, section 10). Three commits, four files of which one
folds two, three runs, a checkout that moves twice: away and back.

**RuntimeLogin.** Minting, writing, redeploying and retiring logins named by the minute, by two
operators, against pushes and promotions. Retiring looks for the login to keep, then lists the
others, then drops them one by one. `ServedLoginStands`. Two minutes, two logins, three
deployments: one served, one built meanwhile, one to go back to.

Proofs of `OperationsProofs`, for every value of the constants.

- Console: `ConsoleTyped`, `NothingEscalates`, `GrantsGoWithMembership`, `RevocationIsBounded`, all
  from `ConsoleInvariant`. `NoEscalation` is not inductive, because requests write what they checked
  earlier: the invariant adds, per request, that what it is about to confer is vested where it confers
  it (`TaskConferred`), that what it is about to take its caller holds (`TaskMeasured`), and that whom it
  grants something is a member or has parted since (`TaskExpected`), each unless the request is a
  superadmin's or was overtaken. A write by anyone else then confers vested keys only (`Modest`).
- Impersonation: `BorrowTyped`, `BorrowedAreBounded`, from `BorrowInvariant`: the human behind a row is
  its borrower (`BorrowSound`), a row or a request that was compared and has not shifted ranks below its
  human as far as it has been compared (`BorrowRanked`), and a contained account has no session of its
  own and asks only with cookies marked late (`BorrowContained`). The last depends on a sweep ending
  the account's own sessions first.
- RateLimit: `RateTyped`, `FloorIsHeld`. What a bucket let through and still holds came in by the
  bucket's own time (`SharedHolds`), or, in memory, by the earlier of that and its clock's (`LocalHolds`).
- Release: `ReleaseTyped`, `SchemaPrecedesServing`. The ledger never vouches for a text that the schema
  lacks (`LedgerTrue`), a migrating run holds the lock and its plan stays good (`RunInOrder`), and
  everything built or recorded for a rollback fits.
- RuntimeLogin: `LoginTyped`, `ProductionCanConnect`, from what a run in progress knows of the
  deployment that it read (`RunKnows`), which is never rewritten.

## 9. Findings

Five places where the code does not do what its comments or documents say, each with a run and an
entry in `PROJECT.json`: the empty read (`lockout`), concurrent bans (`concurrent_bans`), the token
minted across a rotation (`old_secret`), and

- `restored_waits`: the re-evaluation reads which memberships a restore holds back and then writes by
  status alone; a deletion and a restore in between are activated without an approver.
- `late_grant` (`GrantedOnlyToMembers`; the console alone, two requests): `users/[id]/app-roles` checks
  that the user is a member and inserts the grant in a later transaction. A removal in between has
  taken the grants there were; the new one stays with somebody who is no member, and counts again
  when he comes back. `NoDormantGrant` is about removals and excuses it (`late`).

## 10. Races and limits the models show

No run is kept for these. The first five go against a sentence of the repository (`erased-user.ts` 2,
`deactivated-user.ts` 2, `credential-eviction.server.ts` 114, `src/db/runtime-login.ts` 538,
`use-grid-selection.ts` 55) and TLC shows each when the excuse is dropped or the sentence is stated;
the others no sentence contradicts outright, or the code accepts them.

- A restore writes by id after it has checked that the account is not erased: one that began before an
  erasure leaves an erased account waiting for approval (`ErasedStaysDeleted` without `stale`).
- An unban checks that the account is not deleted and lifts the ban later. A soft-delete in between
  loses its ban and leaves the account deleted and not banned; likewise a second soft-delete of one
  account records the first one's ban as the prior one (`torn`, for `BanIsAdministrators`).
- An administrator's mint is fenced and may still come between two passes of an eviction, which then
  needs one pass more. Enough of them end it at `MaxPasses`, with the error meant for an unfenced path.
- Two rotations of logins in one minute have one name: the first one's login may be in service when
  the second, which compared names before that, sets its password (`excused`).
- "Select all matching", clicked while the grid still shows the previous result, stores that result's
  total, so the confirmation names it, and the cap is compared with it.
- A member added to a group while a superadmin adds a role to it (`blessed` in `Console`). This race
  can be handed on: an administrator's edit that adds a role to a group is in flight, a superadmin
  adds a permission to that role, another administrator's add-members passes its check while the group
  does not have the role yet, and then both write. The
  proof of `NoEscalation` found this chain; TLC confirms it on the run's instance once the copied role
  exists from the start. A request that is overtaken by an overtaken write is therefore marked too.
- A launch between check and insert, and a consume between burn and session, outrun the sweep.
- Approving an MCP agent is two statements without a transaction: a crash between them leaves an
  active account with a pending membership, and no second approval completes it.
- A prune by an instance whose clock leads gives a bucket back early, by as much as clocks differ; the
  bucket in memory earns again for time its clock lives through twice.
- A form that was overtaken answers 412 until its user changes something.
- A password reset ends the sessions an account has borrowed before the account's own; one opened in
  between lives until the one-hour cap.
- An administrator who joins a tenant mid-session reaches it with the borrowed identity's permissions;
  the ranks there were not compared, since it was not shared.
- Exports leave out the search on memberships, search fewer columns of applications, drop the
  permission filter of roles and list no permissions without a scope; exactly `MAX_EXPORT_ROWS` rows
  are marked truncated; a walk during which rows both come and go may miss one without saying so.
- A deployment names to its build the commit that the gate read (`release.ts` 1189), not the one the
  runner found in the checkout when it migrated. With the checkout moved in between and back, the
  build's gate skips the ledger although another commit was migrated, and the build may be served
  without its schema (`swapped`). The proof of `ServedSchemaIsThere` stopped at this step; the run,
  whose checkout could move once only, had not met it and now lets it move twice.
- "Clear filters" calls two setters on one render's state, so the search text stays, and the debounced
  search reverts a filter set within its 300 ms (`data-grid-filters.tsx`).

Assumed in `Release` (`ReleaseAssumption`) and `RuntimeLogin`: no `--allow-unverified-target`; what
was ledgered at first was applied, and a ledger row without a checksum is of the file's own text in
every commit that has it; a consolidated file does what its sections do and replaces them; a rollback
meets no concurrent promotion. A forced run, an unreadable environment or a promotion of a
deployment whose login is gone are marked `excused`.

## 11. What is proved and what is only model-checked

Proved by TLAPS for every value of the constants: every invariant, action property and refinement
that a passing run checks. Each proof has the same shape: an
inductive invariant (sections 3 to 8 say which and why), one step per action that preserves it, and
a temporal step. TLC finds no violation of these invariants on the instances of the runs either.

The constants' assumptions are in the modules that declare them and are evaluated by the runs. Those
that the proofs added say that organizations, agents and grid accounts are finitely many (they are
counted), that a stand-in such as `NoBucket` is not a real value, that the rows of a list are
finitely many, numbered and sorted by integers or null, with page sizes and caps of at least one, and
what section 10 says of migrations at the start.

Only model-checked:

- liveness, `EveryRowSettles` and `EvictionEnds`: TLAPS as used here does neither fairness nor ENABLED;
- the five violations.

No module uses a RECURSIVE operator.

## 12. Not modelled

About half of the repository's lines have no behaviour to model: the generated SDK (about 20,000),
rendering in `.tsx` files (about 28,000), OpenAPI documents, message catalogues, email templates,
schema definitions and static SQL. Of the rest:

- reads without a later write (overviews, audit lists, documentation rendering), and validation of one
  request's fields;
- environment validation (`src/lib/env.ts`), the deployment tool's set-up and `env` commands, Sentry
  scrubbing and metrics: sequential, no state shared with another component;
- retention outside the outbox: deletes by age, idempotent, in batches;
- the MCP tool dispatcher and the `/api/v1` variants of modelled routes: they call the same helpers;
- `soft_delete` as a bulk action of the grid: the saga it runs per row is in `AccountLifecycle`;
- Better Auth itself: its statements appear where this code triggers them.

Run a check with `tlc -config MCOutbox.cfg MCOutbox`, a proof with `tlapm OutboxProofs.tla`.
`platform` and `operations` take three to four minutes with two workers. Each property has a
mutant, a definition with a suffix such as `Recheck_Skipped`, marked "Mistake" or "Mutant", that
replaces the definition after it and makes the property fail.
