# A verification development for taskdev-backend

taskdev-backend is a NestJS application over PostgreSQL (TypeORM), Redis and
Bull queues: organizations, projects and tasks, with accounts, invitations,
notifications and webhooks around them.  This directory holds TLA+ models of
its parts, configurations that check them with TLC, and theorems about them
that TLAPS checks for every value of the constants.

A handler of the backend is an `async` function.  It runs alone up to an
`await`, other handlers run while it waits, and several processes may serve the
same database.  Hardly any handler opens a transaction around its reads and
writes, and `Repository.save` writes back an entity that was read some awaits
ago.  Most of what can go wrong is therefore in the interleavings, which the
unit tests, with mocked repositories, do not reach.  That is what the models
are about: **a step is one database call**, and a request in flight is a small
process that holds its local variables between two of them.

## 1. Inventory

| Part | State it keeps | Operations | What is hard | What makes it correct |
|---|---|---|---|---|
| organizations | `organizations` (soft-deleted), `organization_members` (unique per person) | create, update, remove, addMember, removeMember | check, then act; save after a deletion | the owner is never locked out; a deletion removes the row that was checked |
| projects | `projects` (tree, soft-deleted), `project_members` | the same, and the tree | the same; depth checked before the save | the same; two levels, no cycle |
| invitations | `invitations` | create, createProjectInvitation, accept, resend, cancel | calls two other services, whose writes are not undone | accepted means let in; organization before project; decisions are final |
| auth | authentication columns of `users` | register, login, refresh, logout(All), codes, passwords | save of a stale entity; one code for three flows | sign-out sticks; a change of password is undone by one order of calls only; codes are used once |
| active sessions | `active_sessions` | createSession with a limit, revocations, clean-up | count, then insert | bounded |
| login guard | `login_attempts`, `blocked_ips`, a cache per process | canAttemptLogin, recordSuccess/Failure, blockIp, autoBlockIp, unblockIp, clean-up | a cache refreshed in the background, count before record, restart; a block extended by those it refuses | attempts bounded; a block bites, no longer than was asked for and no shorter |
| users | profile, roles, photo of `users`, files on the disk | roles, activation, deletion, profile, photo, phone verification | count, then save; delete, write, save | there is always a super administrator; a photo is not lost |
| security events, alerts, configuration | own tables; a cache of the configuration that never expires | update of a setting, start of the process | the cache is set after the commit | the setting that was changed is the one that rules |
| webhooks | `webhook_events` | registerEvent, mark*, retry, clean-up | | nothing calls registerEvent: the table stays empty |
| tasks, task statuses | `tasks`, `task_assignees`, `task_statuses` | create, update, subtasks, positions | default statuses made by an event; delete and insert of assignees; assignees who have been deleted | a move leaves completedAt as the status says; subtask assignees within the parent's; those are told whom a change concerns |
| project modules | `project_modules` | create, update, remove, reorder | depth and descendants by one query per level; circles | three levels; no child of a deleted module; requests end |
| notifications | `notifications`, preferences, switches of events, a Bull queue | listeners of events, preferences, broadcast, send-email, read, delete | failures, retries and crashes in the middle of a loop; a row of preferences made on first use; a save of a row that is gone | everybody told once or known to be missed; repetitions bounded; every job ends |
| comments | `comments`, `task_comment_reads` | create, list, update, remove | a mark in another table between a comment and its announcement | every comment is announced; none is hidden unread |
| i18n | `translations`, a cache of the process | create, update, delete, bulkImport, reloadCache | the cache is changed beside the table; an import that fails in the middle | `t()` answers what the table says |
| storage configuration | `storage_configs`, cached copies, clients, credentials that are encrypted | updateConfig, validateProvider, activateProvider | two updates without a transaction; merge of stored and new credentials | one provider active, the one that was asked for; credentials can be read |
| feature flags | `feature_flags` | create, update, remove, isEnabled | a chain of flags followed query by query | the answer is that of the whole chain; it comes |
| jobs | a Bull queue, `job_executions` | triggerJob | | its enumeration of jobs is empty: nothing can be triggered |
| cache | Redis | get, set, delByPattern, interceptor | | only its own administration routes use it |
| activity, search, email, storage of files, platform | rows that are only inserted, reads, I/O, configuration | | no protocol | |

How they interact: `auth` calls the login guard before a login and the active
sessions after it; `users` shares the code columns with `auth`; `invitations`
calls `organizations.addMember` and `projects.addMemberByUserId`; `projects`
emits `project.created`, on which `task statuses` acts; `tasks`, `projects` and
`comments` emit the events from which `notifications` are made; the login guard
reads its limits from the security configuration; `tasks` counts what is unread
from the rows that `comments` marks, and drops from its lists whom `users` has
deleted.
`PROJECT.json` lists the parts with their files, and under `hazards` each place
that is hard to test, with the properties that cover it or the reason why none
does yet.

## 2. Modules

| Module | Stands for | Extends |
|---|---|---|
| `Requests` | the slots of requests in flight: `pc`, parameters, entity read, return address | |
| `Organizations` | `OrganizationsService` and its tables | `Requests` |
| `Projects` | `ProjectsService` without the tree | `Organizations` |
| `Invitations` | `InvitationsService`, the composition of the three and the specification `Spec` | `Projects` |
| `Membership` | the abstract specification that organizations and projects implement (an instance for each at the end of `Invitations`) | |
| `InvitationsProofs` | the proofs about types and owners, of the refinement, and of what it takes to accept an invitation | `Invitations`, `TLAPS` |
| `Accounts` | one account: `AuthService`, `ActiveSessionService`, phone verification, the profile and the administrator's form of `UsersService` as far as they touch its columns | |
| `PasswordHistory` | `Accounts` with the history of which requests hold the user as it was before a change of the password | `Accounts` |
| `AccountsProofs` | the proofs about types, sessions, lost changes of a password, and requests that nobody disturbs | `PasswordHistory`, `FiniteSetTheorems`, `TLAPS` |
| `LoginGuard` | one IP address and one process: `LoginAttemptService`, `BlockedIpService` | |
| `LoginGuardProofs` | the proofs that blocks stop logins and that the limit of logins holds, with the sums it takes | `LoginGuard`, `FiniteSetTheorems`, `WellFoundedInduction`, `TLAPS` |
| `Broadcasts` | one broadcast: `NotificationsService.sendBroadcast`, `NotificationProcessor` and the Bull queue between them | |
| `BroadcastsProofs` | the proofs about who is told, how often, and what the rows say | `Broadcasts`, `FiniteSetTheorems`, `SequenceTheorems`, `TLAPS` |
| `Tasks` | the board of one project: `TasksService`, `TaskStatusesService`, the row locks of PostgreSQL | |
| `TasksProofs` | the proofs about dates, assignees, events and bulk moves | `Tasks`, `SequenceTheorems`, `TLAPS` |
| `Handlers` | the slots of the services below: the call that a handler awaits, its local variables, whether it has overlapped with another | |
| `HandlersProofs` | lemmas about slots, tables of rows and their keys, for the next two | `Handlers`, `SequenceTheorems`, `TLAPS` |
| `ProjectTree` | `ProjectsService` again, for `parentId` | `Handlers` |
| `ModuleTree` | `ProjectModulesService` | `Handlers` |
| `FeatureFlags` | `FeatureFlagsService` | `Handlers` |
| `Inbox` | `NotificationEventsService`, the preferences, switches and in-app notifications | `Handlers` |
| `Comments` | `CommentsService`, whose events end in the inbox | `Inbox` |
| `Users` | roles, activation, deletion, profile and photo: `UsersService`, `FileUploadService` | `Handlers` |
| `Translations` | `I18nService` and its cache | `Handlers` |
| `Settings` | `SecurityConfigService` and its cache | `Handlers` |
| `Storage` | `StorageConfigService`, `StorageService` without the files | `Handlers` |
| `ServicesProofs` | the proofs about users, settings, translations, storage, both trees and the flags | `HandlersProofs`, these modules, `FiniteSetTheorems`, `WellFoundedInduction` |
| `NewsProofs` | the proofs about notifications and comments | `HandlersProofs`, `Comments`, `FiniteSetTheorems` |
| `MCServices` | `Accounts` and the services about people, texts and configuration, in one run | all of these |
| `MCJobsAndTrees` | `Broadcasts`, the trees and the flags, in one run | all of these |
| `MCInvitations`, `MCLoginGuard`, `MCBroadcasts`, `MCTasks` | desks (see below), symmetry sets, lists of recipients, assignees and moves for TLC | |

The names of the actions are those of the methods, or of the call they make
where a method makes several: `organizations.addMember` is `AddOrgMember` or
`FindOrg`, then `VerifyOrgAdmin`, `FindOrgMember`, `InsertOrgMember`.  When
`invitations.accept` calls it, the slot's `ret` holds what accept does
afterwards (`AcceptPlan`).  `map` in `PROJECT.json` gives the lines of each
definition.

`MCServices` and `MCJobsAndTrees` put services that share no table side by side,
and `MCInvitations` and `MCServices` put instances of one service with different
bounds.  Their initial states choose a *desk*, the service or the instance that moves; the others stay as
they are.  A run of such a module is therefore the union of the runs of its desks,
and the states of two desks are not multiplied.  Where a theorem is about one of
these services, its module has a specification of it on its own (`UsersSpec`,
`SettingsSpec`, `TextsSpec`, `StorageSpec`, `TreeSpec`, `ModSpec`, `FlagsSpec`, and
`NewsSpec` for notifications and comments), whose steps include those of the desk.

### Decisions that apply to all of them

* **One step per database call.**  What a handler does before its first call,
  and what it does between two of them, happens in the step of the call
  before.  `TypeORM.save` is a SELECT, to find the columns that differ, and an
  UPDATE of those.  In `Accounts` and for the rows of `tasks`, where columns are
  written by several handlers, they are two steps.  In the modules that extend
  `Handlers` a save writes the whole row that was read, which is what it comes to
  when every column that differs is written.  In the other modules a save is one step:
  every two writers of a row there touch columns for which the two orders of
  the save's halves give rows that the one-step saves give too, except for the
  expiry date of an invitation that is settled already, which nothing reads.
* **Sharing.**  Accounts share no row, and neither do the blocks of different
  addresses: one of each is enough.  E-mail addresses are people.
* **Errors.**  A thrown exception ends the request (`Finish`) and leaves what
  it has written.  `ConflictException` is caught by `accept` and
  `createProjectInvitation` exactly where the code catches it; a unique
  violation is not one and is not caught.
* **Primary keys.**  A membership row has an `id` that grows with every
  insertion, because `remove(member)` deletes by the key that was read.
* **Libraries.**  `WHERE projectId = null` is dropped by TypeORM
  (`Collides`); bcrypt reads the first 72 bytes, which the refresh tokens of a
  user have in common (`Matches`); a JWT is identified by the second in which
  it is signed; two hashes of one value differ (`Rehashed`); a saved entity
  writes `deletedAt` back (`SaveOrg`).
* **Left out**: sending e-mail and SMS, logs, activity records and security
  events (insert-only), `lastActivityAt` (which sessions are the oldest is a
  choice), `attemptsSinceBlock`, the expiry of codes and tokens (refused like a
  wrong one), `isActive` of users at a login, wording of answers, pushes to browsers.

### Fairness

The modules about requests state no fairness, `Tasks` and the desks of
`MCJobsAndTrees` apart: a request may stop for ever (a
lost connection, a crash of the process), and all their properties hold when it
does.  `LoginGuard` has one timing assumption,
`Patience`: a request is not in flight for longer than that many minutes.  It
is needed because a refresh that has read the table may otherwise overwrite the
cache arbitrarily late, and it is justified by the time-outs of HTTP clients and
proxies rather than by the code.

`Broadcasts` states weak fairness of two things.  Some job that can go on goes
on: Bull's processor loop takes the next job as soon as a handler is done, and
the calls of a handler return or throw.  And a job that nobody runs is found:
Bull looks for stalled jobs at an interval.  Nothing obliges a call to fail, a
process to die or an administrator to send a broadcast; `MaxTroubles` bounds the
first two, since with failures without end a list without end could be retried.

`Tasks` states weak fairness of each request that is in flight: its next database
call returns, unless it waits for a row lock.  It also states that PostgreSQL,
which looks for deadlocks after `deadlock_timeout`, ends one of the transactions
that wait in a circle.  Both are needed to say that nobody waits for ever; the
locks themselves are given back by the code alone, in `bulkUpdatePositions`'
`catch`.

`MCJobsAndTrees` adds weak fairness of the calls of each handler of the trees and
the flags: the database answers.  Nothing obliges a request to arrive.  `WalksEnd`
needs no more, since every step of such a handler is a call.

### Handlers and `alone`

A handler that has begun is at a call, `at`, with its local variables in `my`.
The first query of a handler reads what is there when the request arrives, so both
are one step (`Receive`); a handler with a single call is one step (`AtOnce`).

`alone` is a history variable that no guard reads: it says that no other handler
has been in flight since this one began.  Several properties say *what a handler
that nobody disturbed leaves behind, from any state that earlier races have left*.
That is weaker than the same without the condition, which this code does not
keep: its checks and its saves are separate calls without a transaction.  It is
stronger than a test of the handler, which starts from a clean state.  `Raced`
says that somebody has overlapped.

### The board

A request of `Tasks` holds a `plan`, the calls it still has to make, which the
code fixes when the task has been read.  `bulkUpdatePositions` is the only
handler with a transaction of its own: its updates lock their rows (`lock`), are
seen by nobody before `Commit`, and are undone by `Rollback`, which a status that
is gone leads to.  Everybody else's update of a locked row waits.  An insertion
of several assignees is one statement, which the unique index refuses as a whole.

`deleteUser` leaves the rows of `task_assignees`.  `getTaskAssignees` drops them
(the relation to a deleted user is empty), the check of a subtask's assignees does
not, and neither does the model.  `RemoveUser` is the deletion, of those users the
run names (`Leavers`).

Class-validator's `IsOptional` lets `null` through as it does a column that is
missing, which the service tells apart.  A status that is `null` skips the dates and
is saved.  A list of assignees that is `null` is read as one that was given: it has
no length, which throws in the check of a subtask, and for other tasks after the
old assignees have been deleted.

`alone` and `before` are not in the code.  `alone` says that nobody else has
written a task, an assignment or a status since the request began, `before` holds
the assignees at that moment; the properties of single requests use them, and no
guard does.

### The queue

`Broadcasts` models Bull as the code uses it, and `PROJECT.json` marks that part as
external.  A job waits, is at a call of its handler, has returned, is lost with
its process, or is settled.  Waiting jobs are taken in any order, which covers
the backoff.  A handler that throws uses up one of `defaultJobOptions.attempts`;
a job found stalled is given back `maxStalledCount` times.  The recipients are
the users that an administrator names, who need not be there any more, or all
active ones in the order in which the query returns them (`UsersForAudience`).  Several processes
or handlers are one number, `Concurrency`; a crash hits all of them, which is
the worst case.  `Mailer` says whether an `EmailService` is injected: section 5
explains why in this repository it is not, so that the run `jobs_and_trees` checks
the handler as it is written (`TRUE`), and `silent_email` as it is wired.

## 3. What the runs show

| Run | Question | Instance |
|---|---|---|
| `invitations` | `AcceptedMeansJoined`, `OrgBeforeProject`, `SettledStaysSettled` while members leave and the project is deleted; `OwnersKeepTheirSeat`, `OwnerRowsAreFinal`, `OrgsKeepMembership`, `ProjectsKeepMembership` under updates, deletions, additions and removals, with OWNER among the roles that are granted | 2 requests, 2 people, 1 organization, 1 project, `MaxRow` = 2; desks: 1 invitation and 1 lapse of time; the operations on one organization, or on one project, which read nothing of each other |
| `sessions` | `SessionBound`, `OnlyLoginSignsIn`; `OnlyOvertakenUndo`; `CachesAgree`; `ActivationTakesEffect` | desks: an account with 2 requests, limit 2, 4 session rows, 2 seconds, 1 password; an account with 2 requests of the nine kinds that save it, 2 passwords, 1 wrong code, 2 codes or reset tokens, 1 session row, 1 second; translations with 2 places and 2 rows; settings with 2 keys; storage with 2 providers and 2 versions |
| `people` | `CodesMoveForward`; `EveryoneToldOnce`, `NoticesMoveForward`; `CommentsAnnounced`, `ListingsHideNothing`; `SomebodyAdministers`; `PhotosKept` | desks: an account with all its eighteen operations, 1 request, 2 passwords, 3 codes, 2 session rows; 2 handlers, 2 people, 2 events, 2 comments, 2 photos |
| `login_guard` | `ChecksBounded`, `BlockBites`, with restarts | 2 requests, 4 minutes, limit 1, threshold 2; the system blocks for 1 minute, administrators for 4 |
| `jobs_and_trees` | `RepeatsBounded`, `DoneMeansTold`, `EmailRowsExplained`, `JobsSettle`; `TreeKeepsTwoLevels`; `ModulesInOrder`, `WalksEnd`; `FlagsAnswered` | desks: nobody, one or 2 recipients, one of them with a deleted account, 2 jobs at once, 2 attempts, 1 stall, 2 troubles; 2 handlers and 3 projects, or 3 modules with 2 levels, or 2 flags |
| `tasks` | `DateFollowsStatus`, `TellsDifference`, `SubtaskWithinParent`, `BulkAllOrNothing`, `RequestsEnd` | 2 requests, 3 tasks, the second a subtask of the first, 3 statuses, 2 people, of whom one sends the requests and the other may be deleted, lists of none, one and both of them, a status that is `null` or completed, 2 bulk moves of the same two cards in opposite orders |
| `super_admin`, `lost_password`, `reblock`, `shortened_block`, `silent_email`, `credentials` | a statement of the repository that the code does not keep (section 5) | smallest that shows it |

Each of the runs `invitations`, `sessions`, `login_guard`, `jobs_and_trees` and `tasks` also
checks `TypeOK`.

* `AcceptedMeansJoined`: the status ACCEPTED is only ever written behind two
  additions that did not fail otherwise than with "already a member".
* `OrgBeforeProject`: no path of an invitation, neither its acceptance nor the
  invitation of somebody who has an account, which adds him at once, reaches the
  project without the organization.  `ProjectsService.addMember`, which an
  administrator of the project calls, asks for no organization.
* `SettledStaysSettled`: a request that starts after an invitation is settled
  cannot make it pending again.  A request that read it *before* can overwrite
  the decision (a resend that finishes after a cancellation makes the
  invitation pending again); the property is stated so that it says what the code does
  ensure.
* `OwnerRowsAreFinal`: `removeMember` checks a role and deletes later.  The row
  may be removed by another administrator meanwhile, and the person added again as an
  owner; the deletion is by key and misses the new row.  Deleting by
  organization and person (the mutant) would remove it.
* `OrgsKeepMembership`, `ProjectsKeepMembership`: `Membership` knows no requests,
  look-ups, keys or deletions of groups.  The mapping hides them and keeps who
  owns a group and the role of each person.  What is left of the races is one
  founding, admission or dismissal at a time; a role that was given is never
  changed in place, since a second insertion of one person meets the unique
  index.  An upsert there (the mutant) would change it.
* `SessionBound`: MaxSessions + requests in flight - 1.  The bound is tight:
  with one request it is the configured limit, with more each may have counted
  before another inserts.
* `OnlyLoginSignsIn`: from a state in which the account has no refresh token
  and no handler in flight saw one, only `login` can lead to a token.
* `OnlyOvertakenUndo`: `lost_password` shows that a login undoes a change of the
  password.  `sessions` shows of all requests, racing, which orders of the calls do:
  the change falls between the query that loads the user and the SELECT of the save.
  Nothing later undoes it, because the UPDATE names only the columns that differed
  at the SELECT, and nothing that began later does.  An UPDATE of all columns (the
  mutant) would undo changes up to the end of the save.
* `CodesMoveForward` holds for one request at a time.  It fails with two: the stale
  save gives back tries and codes.
* `TypeOK` of `LoginGuard` says that extensions do not add up: no block ends later
  than the longest term that the system or an administrator asks for, counted from
  now.  `shortened_block` is the other direction, which the code does not keep.
* `BlockBites`: a login gets past the guard of a block in force only within
  `Ttl + Patience` of the moment the block came into force or was extended,
  however refreshes, unblocks, expiries and restarts interleave.  In force means
  before its last instant.  At that instant the two halves of `BlockedIpService`
  differ: `isBlocked` lets go of a block when `now > expiresAt`, `refreshCache`
  loads those with `expiresAt > now`, so that a login may get past a block which
  the row still calls live (a block as short as the cache's age shows it).

* `DoneMeansTold`, `RepeatsBounded`: the error of one recipient neither ends the
  loop of a broadcast nor has it repeated.  The loop keeps no record of whom it has
  told, so a crash repeats it for everybody, at most `maxStalledCount` times.
* `RepeatsBounded`, `EmailRowsExplained`: a second message and a row left PENDING both
  need a run of `handleSendEmail` that was cut short by a failing database
  call or a crash.  An error of the mail service is not one: it is caught and recorded.
  Were it thrown (the mutant), each attempt would insert a row and might mail.
* `JobsSettle`: every job ends, completed or failed, those that a repeated
  broadcast adds included.

* `DateFollowsStatus` is about moves to a status; an update that takes the status
  away leaves the date, and the next move must put that right.  `TellsDifference`
  compares who is told with the assignments as they were and are, of people who have
  not been deleted and without the one who sends the request.  Somebody deleted who
  is still on the list is told of it again, and not told that he was taken off.
* These two and `SubtaskWithinParent` are about requests
  that nobody else's write falls into, from any state that earlier requests have
  left, interrupted ones included.  Without that condition they do not hold of this code: two
  moves of one task can leave the status of one and the date of the other, two
  updates of the assignees the union of both, and a parent may lose somebody
  whom its subtask keeps.
* `BulkAllOrNothing`: the step of a bulk move that changes a card puts all its
  cards in place.  An update that bypassed the query runner (the mutant) would
  show some of them moved, and leave them so after a rollback.
* `RequestsEnd`: bulk moves of the same cards in opposite orders wait for each
  other's rows; one of them is ended by PostgreSQL and rolls back, and a bulk
  move that is refused halfway gives its rows back.  A transaction that stayed
  open (the mutant) would block every later update of its rows.

* `TreeKeepsTwoLevels`, `ModulesInOrder`: a request that overlaps with no other
  keeps every live sub-project under a live root; a deletion of a module takes
  everything below it along, and a creation respects the limit.  The update of a
  module checks neither level nor circle, which is why circles appear.
* `WalksEnd`: the walks up, down and along `dependsOn` remember nothing.  They end
  unless there is a circle of modules or of flags that are on, or somebody keeps
  changing them.  A walk that asked again for what it has (the mutants) would not.
* `FlagsAnswered`: the answer of an undisturbed check is that of the smallest set
  of flags that contains the one asked for and what its members depend on.
* `EveryoneToldOnce`: a delivery ends as one row, withheld by a switch or a
  preference, or missed, and only handlers that race for the insertion of
  somebody's preferences end as missed, at most one less than can race.
* `NoticesMoveForward`: unread, read, gone.  Only a `markAsRead` that read its row
  before another handler deleted it brings it back.
* `CommentsAnnounced`: the announcement hangs on a mark in another table.  The
  insertion of that mark can fail once per person; otherwise every comment stored
  is announced, and no comment twice.
* `ListingsHideNothing`: a comment of somebody else counts as read only if it was
  in an answer, or if its reader wrote one too, which marks all that is there.
* `SomebodyAdministers`: three operations count before they take the role away;
  the last super administrator goes only where handlers overlap.
* `PhotosKept`: the old file is deleted before the new one is written.  A profile
  with a photo that is not on the disk is left by a race or by a write that fails
  (`FailUpload`), and by nothing else.
* `CachesAgree`: an undisturbed change of a text or a setting, and an undisturbed
  lookup of a setting that finds no copy in the cache, leaves the cache with what the table
  says of it, wherever the change moved a text, and even where races had left them
  apart.  Of handlers that overlap it says nothing: a lookup that has read the row
  before a change puts the old value over the new one.  A lookup that found no row
  leaves the cache alone.
* `ActivationTakesEffect`: an undisturbed activation that succeeds leaves its provider as the
  only active row, a cached copy that says so, and a client made with the
  configuration of the table, whatever earlier requests have left of the three.

Every property of a passing run has a mutant in `PROJECT.json`: a change of one
mapped definition, of the kind a refactoring might make, under which TLC finds
the property violated.

**Bounds.**  Two requests are enough for every race of a check with one
interfering write, which is the shape of all hazards listed for these parts;
`MaxRow` lets a row be inserted, removed and inserted again, which is what the
race on keys needs; one invitation suffices because handlers touch one row of
`invitations` each, and `FindPending` reads the others only to refuse; `MaxNow`
= 1 is one lapse of the seven days.  In `Accounts` `MaxClock` = 2 has two
logins in the same second and in different ones; at the desk of sessions `MaxRows` exceeds
the limit on sessions by two.  In `people`, with one request, codes are what matters:
`MaxSecrets` = 3 is three codes one after another, of any kind.  The revocation of one
session by an administrator and the clean-up run there and not in `sessions`: to a
login they are what a logout is, a call that makes rows inactive.  At the desk of passwords in `sessions` one
request may be followed by others in its slot while the second one waits, so that
several changes fall into one save; the nine kinds are those that load and save the
user, one for each way of doing so.  In `LoginGuard` four minutes hold a block, its expiry and
what follows.  In `login_guard` administrators ask for four minutes, which do not end
within the run, as permanent blocks do not; `reblock` and `shortened_block` have
permanent ones and short ones.  In `Broadcasts` two
troubles are enough to use up both attempts, both lives of a stalled job, or one of
each, so that all the bounds are reached; the code's three attempts add
repetitions of the same kind.  With the handlers of `Handlers`, two slots are one disturbed by one other, which
may be several in turn.  `MaxTree` = 3 and `MaxModules` = 3 are a root, a child and
what would be one level too many, since `Levels` is 2 there where the code has 3; the
walks are as long as the levels.  `Chains` has flags that need each other and one
that is never there.  `MaxSecret` counts encryptions up to two, since more make no
difference to a decryption.  The storage desk moves one handler at a time; two at a time is what
the desk of activations is for, where nothing else but the expiry of the cached
copy interferes.  What people mute is the category `tasks`; the switch of the
whole channel goes through the same test.

In `Tasks` the second request may run inside the
first or after it; that is enough for each pair of handlers, a refusal, a deadlock and the
state each leaves to the other.  The first task begins with a
completion date and no status, which an update that takes its status away leaves, so
that two requests start from a torn pair; the second task is clean.  One user who
acts and one who may be deleted are two of each kind: who is told and who is not.  `Endpoints`, `OrgGrants`, `ProjectGrants` and `Terms` select the
operations of a run; over the runs together every action fires.  The symmetry
sets permute interchangeable request slots, passwords and, where there is no super
administrator, people.

## 4. What is proved

| Theorem | Statement |
|---|---|
| `InvitationsProofs!TypeCorrect` | `Spec => []TypeOK` |
| `InvitationsProofs!OwnersStay` | `Spec => []OwnersKeepTheirSeat` |
| `InvitationsProofs!OwnerRowsStay` | `Spec => OwnerRowsAreFinal` |
| `InvitationsProofs!OrgsImplement` | `Spec => OrgsKeepMembership` |
| `InvitationsProofs!ProjectsImplement` | `Spec => ProjectsKeepMembership` |
| `InvitationsProofs!Accepted` | `Spec => []AcceptedMeansJoined` |
| `InvitationsProofs!OrgFirst` | `Spec => []OrgBeforeProject` |
| `InvitationsProofs!DecisionsStand` | `Spec => SettledStaysSettled` |
| `AccountsProofs!AccountsTyped` | `Spec => []TypeOK` |
| `AccountsProofs!SessionsLimited` | `Spec => []SessionBound` |
| `AccountsProofs!LoginsSignIn` | `Spec => OnlyLoginSignsIn` |
| `AccountsProofs!ChangesUndoneByOvertaken` | `HistorySpec => OnlyOvertakenUndo` |
| `AccountsProofs!CodesForwardAlone` | `Spec /\ []OneAtATime => CodesMoveForward` |
| `LoginGuardProofs!GuardTyped` | `Spec => []TypeOK` |
| `LoginGuardProofs!BlocksBite` | `Spec => BlockBites` |
| `LoginGuardProofs!ChecksStayBounded` | `Spec => []ChecksBounded` |
| `TasksProofs!BoardTyped` | `Spec => []TypeOK` |
| `TasksProofs!DatesFollow` | `Spec => []DateFollowsStatus` |
| `TasksProofs!EventsTell` | `Spec => []TellsDifference` |
| `TasksProofs!SubtasksWithin` | `Spec => []SubtaskWithinParent` |
| `TasksProofs!BulkWhole` | `Spec => BulkAllOrNothing` |
| `BroadcastsProofs!BroadcastsTyped` | `Spec => []TypeOK` |
| `BroadcastsProofs!BroadcastTells` | `Spec => []DoneMeansTold` |
| `BroadcastsProofs!RepeatsLimited` | `Spec => []RepeatsBounded` |
| `BroadcastsProofs!RowsExplained` | `Spec => [](Mailer => EmailRowsExplained)` |
| `ServicesProofs!AdministratorsStay` | `UsersSpec => SomebodyAdministers` |
| `ServicesProofs!PhotosStay` | `UsersSpec => PhotosKept` |
| `ServicesProofs!SettingsStay` | `SettingsSpec => SettingsAgree` |
| `ServicesProofs!TextsStay` | `TextsSpec => TextsAgree` |
| `ServicesProofs!ActivationsTakeEffect` | `StorageSpec => ActivationTakesEffect` |
| `ServicesProofs!TreeLevels` | `TreeSpec => TreeKeepsTwoLevels` |
| `ServicesProofs!ModulesStay` | `ModSpec => ModulesInOrder` |
| `ServicesProofs!FlagsStay` | `FlagsSpec => []FlagsAnswered` |
| `NewsProofs!EverybodyIsTold` | `NewsSpec => []EveryoneToldOnce` |
| `NewsProofs!EveryCommentIsAnnounced` | `NewsSpec => []CommentsAnnounced` |
| `NewsProofs!NoticesOnlyMoveForward` | `NewsSpec => NoticesMoveForward` |
| `NewsProofs!ListingsShowAll` | `NewsSpec => ListingsHideNothing` |

`CachesAgree`, which the run `sessions` checks, is `SettingsAgree` and `TextsAgree`
together.  All the invariants that the passing runs check are stated here, and so
are all their properties of steps.

Each holds for every value of the constants that the named assumptions of its
module allow, the bounds included, which a theorem takes as any number:

* invitations: any sets of people, organizations, projects, invitations and
  request slots, finite or not, by `OrgConstants`, `ProjectConstants`,
  `InvitationConstants` (roles and bounds are what they are, NULL is no person, group
  or role) and `NoneIsNoRow` (NULL is no row);
* `Accounts`: any limits, and a finite set of request slots (`AccountConstants`),
  since `SessionBound` counts them;
* `LoginGuard`: any limits and times, and a finite set of request slots
  (`GuardConstants`), since `ChecksBounded` counts them;
* `Tasks`: any board, lists of assignees and bulk moves, a bulk move naming a task
  once at most, as `TaskConstants` says;
* `Broadcasts`: any recipients and lists, and any numbers of processes, attempts,
  stalls and troubles (`BroadcastConstants`);
* the modules over `Handlers`: finitely many slots, and one at least
  (`SlotsAssumption`), since `EveryoneToldOnce` and `CommentsAnnounced` count those
  who race; beside it, that the comments' authors and audience are people
  (`AuthorsAssumption`), that there is a level below the first
  (`LevelsAssumption`), that `Local` is a provider (`LocalAssumption`), and that the
  default texts are finitely many and an imported list is a list of items and has
  one (`TextsAssumption`).

One theorem has a hypothesis on the behaviour.  `CodesMoveForward` is a property of
one request at a time, and `CodesForwardAlone` says so: under `[]OneAtATime` no two
requests are ever in flight together, while any number of them may follow one
another.  What a race does to a password is not left out like this, but stated:
`ChangesUndoneByOvertaken` is about any number of requests in flight.
`RowsExplained` is about the processor with an `EmailService`; `silent_email` is the
run without.

*Types.*  `TypeOK` is inductive because it contains `Prepared`: which local
variables are set at each `pc`, and what a pending `ret` needs.  Each action is
handled once: `PutTyped` reduces a step of one slot to the new request's being
typed and prepared, `MovesPrepared` treats the steps that only move `pc`.

*Owners.*  `OwnersKeepTheirSeat` is not inductive: a request about to delete
holds a key that was read earlier, and the step that deletes must be shown to
miss owners' rows.  The invariant `SeatInv` adds

* `GroupsSound`: the owner of a group is a member of it with the role OWNER, and
  a group that was never created has no members;
* `RequestsSound`: the organization or the project a request has found, and the
  project of the invitation it has read, were created; a request about to delete a
  membership `Spares` the rows of owners: the key it read is no larger than the
  key of the row in that place, and if it is the same the row is not an OWNER's;
* `InvitesSound`: the project an invitation names, if it names one, was created.

Every step of every handler satisfies `TablesStep` (a row is left alone, inserted
under a new key into an empty place, or removed if it is not an owner's; a group
is created together with its owner's row, or keeps its owner) and `SlotStep`
(only the slot that acts changes, and what it becomes is sound in the new
state); `GroupsSurvive` and `SoundSurvives` show that such a step preserves the
invariant.  `OwnerRowsStay` follows from the same invariant and
`TablesStep`.  TLC checks `SeatInv` on the instances of section 3 too; it was
found there before it was proved.

*Refinement.*  Initial tables map to the initial state of `Membership`.  A step
that leaves the tables of members alone, and any update, deletion or revival of
a group, maps to a stutter, since none of them changes an owner; a creation maps
to `Found`, which needs that a group never created has no owner; an insertion maps to `Admit`, which needs that the
request's group was created (`RequestsSound`); a deletion that finds its row
maps to `Dismiss`, which needs `Spares`.  `SeatInv` is therefore the invariant of
this proof too.

*Acceptance.*  `accept` marks the invitation at the end of a way on which it waits
for the database up to eight times, and says nothing of the tables when it does.
`JoinInv` adds to `SeatInv` what a request has behind it at each stage, by its `pc` and
by what it is to return to (`ret`): whoever is about to be marked, or to enter the
project, was in the organization.  What makes this survive the steps of others is
that the keys of membership rows only grow (`TablesStep`): who was a member once, was
one for ever, and that is all the properties speak of.  `DecisionsStand` needs only
`TypeOK`: an invitation that no request in flight has read is written by nobody in
this step, and a handler that takes it up reads it as decided.

*The sessions of an account.*  `SessionBound` is not inductive, since a handler counts
the sessions, revokes some with one save after the other, and inserts its own, while
others do the same on counts of their own.  `WayInv` says of *any group* of handlers
that have counted and are to insert that the one which counted last keeps few enough
sessions for all of the group: since it counted, the others of the group
have waited, and whoever else has inserted did so once.  `LimitInv` is the two
together, with the types.  For the tries and codes of a request
that is alone, `LoyalInv` says that an entity about to be saved differs from the row in
what the request is about only, and that the UPDATE leaves out no column that differs.

*Lost changes of a password.*  `OnlyOvertakenUndo` holds of requests that race, so no
entity need agree with the row.  `HistoryInv` says of a request which is not about the
password, and is not `overtaken`, that its entity has the row's password up to the
SELECT, and that after the SELECT the password is not among the columns it writes.
Every other UPDATE either leaves the password as it is, or makes those overtaken that
have not reached their SELECT; the row is written by nothing but an UPDATE
(`RowWritten`).  `CodesIssued` (the codes in the row and in the entities are some that have
been issued) makes a code that a request has just made differ from the one before.

*The blocks.*  A login slips past a block because of the cache, which a refresh has
filled from a table it read some time before, or a handler has changed for a row
that somebody else has switched on since.  `CacheInv` says that such a handler
came in before the block (`SlotFine`) and that a cache which misses a block in force
was filled at most `Patience` after it (`CacheTells`); `Ttl` later nobody believes it.

*The terms of blocks.*  `GuardTyped` needs the terms of what handlers hold as well as
those of the row (`AllWithinTerms`): a block made or extended starts from now, and with
time every end comes nearer.

*The limit of logins.*  `ChecksBounded` counts the logins that were checked in the
window together with those still to be recorded.  A login is let in only where fewer
attempts than the limit are recorded in the window, and with it at most all the
slots are under way; a login that records moves from the one summand to the other; time
only drops minutes from the window.  `ChecksInv` adds to `CacheInv` that no attempt
is recorded in a minute to come (`FutureEmpty`).  The difficulty was the sum: `MapThenSumSet`
of the community modules is a recursive function over sets, of which nothing is
known but its equation, and not even that there is a function that satisfies it.  The lemmas on sums
prove that: were there an n for which no function gives the sums of the subsets of up
to n members, there would be a least one (`LeastNumber`), and it is none.  In
the same way, by a counterexample that is least by inclusion (`LeastSet`), a sum does
not depend on the order of its members, grows with the function and the set, and is that
of two parts.

*The board.*  The three properties about an answered request speak of its end and of
nothing before.  `BoardInv` says of each request in flight: the form of what is left
of its plan (`Shape`); what it knows of its task whatever the others do (`Grounded`);
and, as long as nobody else has written, how its local variables relate to the tables
at the call that it has come to (`Undisputed`, in which the users who were deleted are a
parameter, and which their number growing leaves true: `RemoveUserKeeps`), beside the types, the locks
(`LocksFine`), and that two creating requests make different tasks (`CreatorsApart`).
The steps are reduced to two kinds, of a request that leaves the tables alone
(`PutKeeps`) and of one that writes and thereby disturbs the others (`WriteKeeps`).
`BulkWhole` needs of it that the only call of a bulk move that changes
tasks is its commit, and that each card is named once (`Shape`).

*The queue.*  `QueueInv` says how far the loop of a broadcast has come and that the
current run of it has told everybody it has behind it or logged an error (`JobSound`,
`Told`), from which `DoneMeansTold` follows.  For the properties that count, it names
what is counted, so that each count is the size of a set which a step changes in one
element: `Sendings` are pairs of an e-mail job and a run of it, and no more messages
have left than there are such pairs; `Tellings` are pairs of a place on the list and a
run of the broadcast; `Savers` are the handlers about to save a row, which with the
troubles account for every PENDING row.  A step that moves one job is reduced to what
it does to that job (the lemmas `...Job`) and to the sets it leaves alone (`...Quiet`).
Only a crash moves several jobs, and there the sets lose what runs, which is what the
troubles gain.  `Attempts + MaxStalls` bounds the runs of a job since each of them is an
attempt counted or a stall counted, or the last.

*Undisturbed handlers.*  The properties of the services over `Handlers` are about
steps, since races break what they keep, and their theorems are about steps of
behaviours in which anything may overlap.  All have the same skeleton.  `SlotInv`
says that a handler that has overlapped with nobody is the only one in flight
(`AloneInv`); `HandlersProofs` shows once what `Receive`, `Await`, `AwaitNext`,
`Answer` and `AtOnce` do to the slots.  An operator `...Prepared` says which local
variables are set at each call, for every handler; an operator `...Checked` what
a handler that is alone has read and still holds.  A step disturbs all the handlers
but its own, and a call that only reads leaves the tables alone; so the invariant is inductive
whatever the writes do, and each write needs one lemma about what it does where it
is alone.  What differs is what is known:

* users: who takes the role of an administrator away has counted another one; for the
  photos, that each file has one owner, and nobody else's row or entity names it
  (`OwnedBy`), which holds whoever races, since a new file has a new name;
* settings and translations: the value that is about to go to the cache is the one
  in the table.  What a reload puts there is determined by the table because each place
  has one live row at most (`TextsUnique`, part of the invariant).  An import is
  followed item by item, however many there are;
* storage: `OnItsWay` follows an activation from the UPDATE of all rows over its own
  to the cached copies and the client; at each call it says what is active and
  which copies are gone, so that the last call finds the row and nothing stale.
  `activateProvider` calls helpers that are called by others, too; `Equipped` is what
  these need of anybody;
* the project tree: the new parent is a root and another project, and no live
  project is below this one.  An insertion below a root, a save that `MayMove`
  allows, and a removal that makes roots of its children keep the levels;
* the module tree: a handler walks up, or down, one query at a time, and `ModChecked` says
  how far it has come.  `WithinLevels` is a recursive function of the number of
  levels; that the walk's answer agrees with it follows, again, from a
  counterexample of least length.  A deletion has found everything below, level by
  level, when its last query finds nothing;
* flags: `Chain` of a flag is an intersection of sets; it is the flag and the chain of
  what it needs.  So a walk along `dependsOn` has left behind flags that are on, and
  all others of the chain it began with are in the chain of the next one.

*Notifications and comments.*  `EveryoneToldOnce` and `CommentsAnnounced` are invariants of every
state, races included, and both count.  `NewsInv` has the types and the undisturbed
handlers.  `ToldInv` says of each event and each person whom it concerns that there is a
notice, or a handler that delivers it, or that the person was spared (withheld or missed);
and that there is at most one notice, or at most one such handler, but not both.
`MissInv` is about the race for a person's row of
preferences: as long as there is no row nobody has missed anything; once there is,
those that have missed something and the handlers that still will (they found no row)
are together fewer than the slots (`Race`), because one slot made the row.  A handler that
loses goes from the second set to the first.  `MarkInv` is the same
race for the mark of the comments, where the loser's comment stays without
announcement, and `CarryInv` says that a comment between its insertion and its event is
carried by one handler, so that none is announced twice.

TLC checked each of these invariants too, on the instances of section 3 or on smaller
ones, with bounds for the quantifiers that have none.

*Only model-checked*:

* liveness (`JobsSettle`, `RequestsEnd`, `WalksEnd`), which needs ENABLED: out of
  reach of the provers used here;
* `BlockTakesEffect` and the other properties that are expected to fail: there is nothing to prove.

## 5. Where the code and its own statements differ

* **Invitations of super administrators cannot be accepted** (`super_admin`).
  `create` allows them for any organization, `accept` then asks for the
  inviter's membership.
* **A change of password can be undone by a login in flight**
  (`lost_password`).
* **An address can be blocked once** (`reblock`).  The row of an inactive block
  holds the unique address; the test that expects a new row uses a mocked
  repository.
* **An administrator's block is shortened by who ignores it** (`shortened_block`).
  `autoBlockIp` says that it extends a block.  It sets the end to
  `block_duration_minutes` from now, and an administrator may have asked for more.
  Refused attempts count as failures, so that the address itself brings this about.
* **The e-mail of a broadcast is never sent** (`silent_email`).  The DTO offers
  `sendEmail`, 'Enviar también por email'.  `NotificationProcessor` asks for an
  optional `'EmailService'`, which no module that it can see exports (`AuthModule`
  provides it and keeps it, `EmailModule` is not global), and falls back to
  marking the row as sent, which its comment calls simulated.  `EmailService` has no
  `sendNotificationEmail` either.
* **Stored credentials are encrypted again** (`credentials`).  `updateConfig` takes
  part of a configuration, merges it into the stored one and encrypts the whole.
  After a second change that does not name the credentials, one decryption gives a
  ciphertext.  The run starts from what the environment has given in plain text.

## 6. Races and gaps that no property forbids

The code has them; the properties are stated so that they say what holds beside
them.

* Two requests can make a third level of projects or of modules, or a module under
  one that is being deleted; the update of a module can close a circle, after which
  every walk that enters it goes on for ever.
* A save of a row that was read before its soft deletion brings it back:
  organizations, projects, modules, comments, notifications.
* `update` of a user by an administrator and the administrator's revocation of
  sessions leave the refresh token of the account as it is.
* Wrong codes that race are counted once; a refresh that fails between the
  revocation of the old session and the save of the new token leaves the client
  with neither (`auth.service.ts:511`).
* Two requests can both find no pending invitation and insert one each
  (`invitations.service.ts:104`).
* An update that names an assignee twice deletes the assignees and then meets the
  unique index (`tasks.service.ts:899`).  One whose list is `null` deletes them and
  then throws, since `null` has no length (`tasks.service.ts:895`).
* An update whose status is `null` takes the status away and leaves the completion
  date (`tasks.service.ts:468, 495`).
* A user who was deleted stays in `task_assignees`: a subtask may be given to him
  if he is on the parent's list, and he is told again when a list that names him is
  saved.
* A project whose listeners failed on `project.created` has no statuses
  (`task-statuses.service.ts:19`).
* Two changes of one text or setting that race leave the cache with
  the one and the table with the other; the security configuration keeps it so
  until the next restart.  An import of texts that is refused midway leaves its
  first items in the table and not in the cache.  A restart resets the texts
  that ship with the program.
* An update of the configuration of a storage provider does not make its client
  anew; a copy from the cache may lack the methods of the entity, and then the
  handler throws; the mask `********`, sent back by a form, is stored.
* `update({}, ...)` in `activateProvider` means all rows or is refused, depending on
  the release of TypeORM; the model has both.

## 7. Not modelled

* **Webhooks.**  Nothing calls `registerEvent`, the `mark` methods,
  `getRetryableEvents` or the clean-up.  The table stays empty; who calls what and
  when would have to be guessed.
* **Jobs.**  The enumeration of jobs that may be triggered is empty.
* **Cache.**  Nothing but its administration routes uses `CacheService`, and no
  route is cached by the interceptor.  Whoever begins to will meet two things:
  `delByPattern` cuts six characters off keys whose prefix has five
  (`cache.service.ts:128`), and the interceptor stores an answer that was computed
  before an invalidation (`cache.service.ts:82`).
* **Security events and alerts, activity, user activity.**  Rows are inserted and
  read; nothing calls the creation of an alert.
* **Parts of modelled components that nothing reaches**: `reorder` of project
  modules, hidden by the route of `update`; `addRole`, `removeRole`, `regenerateSlug`;
  the listeners of `org.member_added`, `org.invitation_received` and
  `user.password.changed`; the digest e-mails; the broadcast to the members of an
  organization, which throws.
* **Search, e-mail, the storage providers and the files themselves, platform**: reads,
  I/O and configuration.  No other module stores a file through `StorageService`.
* **Tasks**: the legacy column `assignedToId`, the other columns, and who may do
  what.  **Task statuses**: `createGlobalDefaults`, which the seeder calls.
  **Notifications**: what is pushed to browsers.

## 8. Plan

1. An abstract specification of one recipient (told, missed, or told again after a
   crash) that `Broadcasts` is shown to implement.
2. `Tasks`: who may do what (`verifyTaskEditAccess` and its siblings), whose answer
   is used after several calls; `assignedToId`, which a request that sends it alone
   lets drift from `task_assignees`.
