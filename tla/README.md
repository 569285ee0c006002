# Verification of the Rooeel backend

TLA+ models of the state the Rooeel API keeps in PostgreSQL and in its cache, of the
handlers that change it, and of what they promise. TLC checks small instances;
TLAPS proves every safety property of the passing runs, and that the request service
implements its documented pipeline, for every value of the constants.

## 1. The system

The backend is one NestJS process (possibly several) over a PostgreSQL database reached
through Prisma. A handler is an `async` function: it runs alone between two `await`s, and
at an `await` any other handler may run. No handler opens a database transaction, so what
is atomic is **one Prisma call** and nothing larger. Everything difficult in this code
follows from that, and from what a foreign key or a unique index does or does not protect.

| Component | State | Operations | Interacts with |
|---|---|---|---|
| Accounts (`AdminService`, `UserService`) | `Admin`, `User` | create, update, remove, reset a password, edit one's profile, change one's password | every other component refers to its rows |
| Change requests (`RequestService`) | `UserRequest` | create, approve, reject, generate a password, forgot password | writes `User`; rows cascade with user and admin |
| Sessions (`AuthService`) | `RefreshToken`, cache of logged-out `jti`s | login, signup, refresh, logout | reads `Admin`, `User` |
| Reset links (`AuthService`) | `PasswordResetToken` | ask for a link, use a link | finds users by address, writes `User` |
| Project structure (`ProjectService`) | `Project`, `Department`, `DepartmentRole`, `ProjectRole`, `ProjectUser`, `Permission`, `DepartmentRolePolicy` | create, remove, assign, place, permit | references `User`; read by the access policy |
| Access policy (`ProjectService`, `ProjectPermissionGuard`) | none of its own | the access map of a member; the guard's answer | reads the structure tables |
| Tasks, subtasks (`ProjectService`) | `Task`, `SubTask` | create, update, remove | asks the access policy |
| Work orders, storage | `WorkOrderPdf`, an S3 bucket | upload, delete, presign | two stores |
| Dynamic fields | `ProjectField`, `ProjectFieldValue` | create, delete, set | inside a project |
| Mail, hashing, logging, configuration, resolvers, controllers, role guards | none | forwarding | — |

**What is hard.** Check-then-act across awaits (emails, request status, token rows,
project-wide permissions); read-modify-write of whole rows (`updateMyProfile`); two
dependent writes with a failure in between (approval, password generation, link use,
refresh); ordering of a write and the mail that announces it; cascades that remove a row a
handler in flight is about to refer to; the seconds of JWTs against the milliseconds of
the cache; a bucket written beside the database; two pieces of code that answer one
question (access map and guard, two task listings). The full
list, each at its line, is under `hazards` in `PROJECT.json`.

**What makes each component correct.**

* Accounts: one user per email; `createdBy` names an existing admin; no password that
  nobody knows.
* Change requests: a request is decided by the creator of its user, only once; approved
  means written; written means, eventually, approved; rejected means untouched.
* Sessions: a refresh replaces the token; a logout ends the sign-in, of that account only, and
  the JWT it was called with is not accepted again.
* Reset links: one outstanding link per address; one password per link; an address loses
  its link only by expiry, by use, or when a new one is not sent; a failed use does not spend it.
* Structure: nothing refers to what is gone; members point into their own project; one
  permission per key.
* Policy: department-role policies decide alone; guard and map agree; rights on tasks
  include viewing; what is granted under any name of a resource is a right on it; a hardcoded
  task needs a row.
* Tasks: overlapping edits keep each other's columns; only the creator delegates and
  validates; references hold; the two listings agree.
* Work orders: a listed order has its file; only failed uploads and cascades leave a file
  behind; a link belongs to the project that was checked.

## 2. Modules

```
Accounts ──────┬── ChangeRequests ──(refines, decisions apart)── ReviewPipeline
               └── PasswordReset
Sessions    ProjectStructure    AccessPolicy    Tasks    ProjectContents
XProofs  EXTENDS X, TLAPS         MCX  EXTENDS X, TLC
```

| Module | Models | State ↔ code |
|---|---|---|
| `Accounts` | `AdminService`, `UserService`, `AuthService.signup`'s insert, `RequestService.forgotPassword` | `admins`, `users`: the tables. `calls`: handlers suspended at an await, with what they have read (`seen`), what they will write (`patch`) and where they stand (`at`). `issued`: passwords are numbers. History: `told`, passwords known to somebody in plain text |
| `ChangeRequests` | `RequestService` over `Accounts` | `requests`: the table. History: `applied`, stored requests whose change reached the user row |
| `ReviewPipeline` | README.md:613-615 of the repository | abstract: `status`, `effective` |
| `PasswordReset` | `AuthService.forgotPassword`, `resetPassword` over `Accounts` | `tokens`: the table. `links`: handlers. History: `mailed`, `uses`, `crossed` (tokens created while another call stood at its creation too) |
| `Sessions` | `AuthService.login`, `signup`, `refreshTokens`, `logout`, `JwtStrategy` | `tokens`: `RefreshToken` rows with their JWTs; `blacklist`: the cache; `now`: the clock. History: `presented` (with which JWTs of a token a logout was called), `loggedOut`, `ended` |
| `ProjectStructure` | the writers of the structure tables in `ProjectService` | one variable per table; `calls`: the three handlers that write what they read. History: `crossed`, the keys two `setPermission` calls were about to create at once |
| `AccessPolicy` | `normalizePolicyResource`, `buildPolicyFlags`, `getAccessMapForProjectUser`, `canPerformTaskResourceAction`, the fields of `applyViewerPolicyOnProject`, `ProjectPermissionGuard` | the rows these read, for one member |
| `Tasks` | the task and subtask handlers of `ProjectService`, their resolver and guard, `getTasks`, the tasks of `applyViewerPolicyOnProject` | `tasks`, `subtasks`, `members`: the rows of one project; `calls`: handlers between read, check and write. The rights of a member are data here, the answer `AccessPolicy` would give |
| `ProjectContents` | work orders (`ProjectController`, `ProjectService`, `StorageService`) and dynamic fields | `orders`, `fields`, `values`: tables (`values[f]`: the project the value row keeps); `bucket`: per key unused, stored or deleted. History: `orphaned`, files whose upload failed or whose row a cascade took; `broken`, orders whose deletion broke off |

How the code becomes actions:

* A handler is split where it **writes something it read, or acts on a check, before an
  await**. One whose reads only choose the error to answer is a single action at its write;
  a refused call is no step. Trailing reads and includes are left out.
* The unique indexes, foreign keys and `onDelete` actions of `schema.prisma` are part of
  the writes: a write that breaks one fails and ends its handler. `Delete` in
  `ProjectStructure` is the whole cascade of one `prisma.*.delete`; `AccountStep` adds the
  cascade to `UserRequest` to every step of `Accounts`.
* A call to the bucket that reports an error may have taken effect (`StoreFileFails`,
  `DeleteFileFails`) or not (`Fail`); `StorageService` rethrows either way.
* In `Tasks` what the rights are and when they change is left open: `SetMember` gives a
  member any row of the instance at any time, so a call may pass its check and lose the
  right before it writes.
* `Fail` ends a handler between any two of its steps, keeping what it wrote: an await
  that rejects, a process that stops. The constants `FailAt`, `LinkFailAt` and `Failures`
  name where an instance lets this happen. `Tasks` has no such step: its handlers write
  once, and one cut short before its write is one that has not resumed.
* Autoincrement ids are never reused: a row is `unborn`, `live` or `gone`.
* A token outlives its account: a guarded endpoint may be called with the id of an admin
  that ever existed (`KnownAdmin`).
* firstName and lastName are one field `name`, which every handler treats alike. Resource
  names are compared normalised. A query without `orderBy` returns rows in any order, so
  "the first" is a choice.
* In `AccessPolicy` the search of `setPermission` and its write are one step that may find a
  project-wide row and update it, or miss it and create a second. When the search misses one
  is a question of two calls, which `ProjectStructure` models with both their awaits.
* The two JWTs of a pair share secret and `jti`, and `JwtStrategy` does not look at their
  type, so `Sessions` lets a logout be called with either (`Kinds`), each for its own life.
* Operators whose comment begins with *Mutant* are plausible bugs, used to show that a
  property depends on the code it is about. No specification uses them.

## 3. What is checked

### Runs that pass

| Run | Checks | Instance |
|---|---|---|
| `accounts` | emails stay unique, creators exist, a password is lost only by a call cut short before its mail | 2 users, 1 admin, 2 emails, 2 handlers, 2 passwords, failures at every step, mail included |
| `requests` | requests stay with the creator, decisions are the creator's, approved means written, written gets decided, a generated password is answered | 1 request, 1 user, 2 admins, 2 names, 2 handlers, failures before the writes |
| `requests_apart` | `RequestService` implements `ReviewPipeline`; a change in effect leaves the profile only for a value somebody gave, or by an `updateMyProfile` that had read the row before | 1 user, 1 admin, 2 requests, 2 names, 2 handlers, failures before the writes; behaviours in which no request has two decisions in flight (`CONSTRAINT DecisionsApart`) |
| `structure` | no dangling reference, departments of the project, roles of the department; two permissions on one key come only of two calls that both searched before either created | 2 projects, 2 departments, 1 department role, 1 project role, 1 resource, 2 permissions, 2 handlers between read and write, failures there |
| `sessions` | a refreshed token is retired, a logout ends the sign-in; after a logout neither JWT of the pair is accepted before the last second of one that was presented | 2 tokens, 2 handlers, failures, logouts with either JWT, a second of access and two of refresh, half-second ticks |
| `links` | a failed use leaves the link valid; a working link, or one coming, is lost only by expiry, by use, or to a call cut short before its mail; two unused links mean two calls that both deleted first; a link that set a password is spent | 1 user, 2 addresses, 2 tokens, 2 link handlers, failures but for the two below, address changes, removal |
| `access_policy` | policies decide alone, guard and map agree, rights on tasks include viewing, a grant under an alias is a right on the resource, hardcoded tasks need a row, guard and filter agree on fields | TASK, both field resources, a view-only and an editable task resource, an alias and an unknown name, 1 department, every set of up to 3 rows |
| `tasks` | edits keep the other columns, only the creator delegates and validates, references hold, the two listings agree and a department narrows them | 1 task, 1 subtask, 1 user, 1 admin, 2 departments, 2 handlers, an editor and a worker, removals of user, departments and project |
| `contents` | listed files exist, deletions leave no file, references hold, links stay in the project | 2 admins with a project each, 2 orders, 2 files, 1 field, 2 handlers, failures at every step |

**Why these bounds.** A race here needs two handlers and the row they share; a third handler
in the same place repeats one of the two. Overlap with a removal needs one row that goes, and
one more where it could be mistaken for another (two projects, two departments, two users for a
freed address, two admins for a foreign decision). In `structure` one department role is enough
to be left behind by a move to the other department. A refresh needs a token and its successor.
In `sessions` half-second ticks tell whole seconds from fractions; with a second of access and
two of refresh, three ticks go past the end of the access JWT and its cache entry, so that the
refresh JWT is accepted once more, and into the last second of that one.

`FailAt` and `LinkFailAt` leave out the failures that would defeat a property by themselves: in
`requests` and `requests_apart` a stop between the two writes of a decision, with which a mail or
an answer is lost too, in `links` a stop between using a link and marking it. A stop between
deleting and creating a link is left out of `links` for the size of its graph only; the one a step
later, before the mail, is there and loses the link as well. The theorems hold with failures
anywhere, but for those that name the one they exclude, and remove the bounds for all of the
safety properties.

In `tasks` the one user is now creator, now assignee, and the admin's tasks are another's; a
membership is drawn from four rows, enough to have and to lack each right and a department. In
`access_policy` a resource is decided by at most a policy, a project-wide and a department
permission, or by two project-wide ones and a policy, hence three rows. `CHECK_DEADLOCK FALSE`
stands where an instance comes to rest once ids, passwords or clock are used up. Symmetry is used
in runs of safety properties only, over ids that no definition tells apart.

**What overlap does break.** The code loses some promises to some interleavings, and a
property then names the interleaving and says that no other does harm.
`ChangeUndoneOnlyByStaleEdit` allows for the write of an `updateMyProfile` that read the row
before the change; `OnePermissionPerKey` for two project-wide `setPermission` calls that both
search and then both create; `OneTokenPerAddress` for two `forgotPassword` calls that both
delete and then both create; `LinkLostOnlyUnsent` for a call cut short after its deletion. All
four are checked with two handlers. `FollowsPipeline` needs two decisions on one request not to
overlap: its theorem has `[]DecisionsApart` as hypothesis, its run explores the states of
`DecisionsApart`, and everything else overlaps in both. Overlapping decisions are the subject of
`requests_reject_race`.
`LogoutEndsSignIn` excepts a refresh that had passed its checks when the logout ran: the
history variable `ended` holds the sign-ins without one.

**Fairness.** `WF(Resume(c))`: the event loop resumes a handler whose awaited call has
settled, and database, hash and mail calls settle. Nothing is assumed of clients. The
liveness properties are checked without failures between the two writes of a handler: a
process that stops there does leave a written request undecided and a used link unmarked.

### Runs that show a disagreement

Each checks one statement of the repository and finds a behaviour of the code against it.

| Run | Statement | What happens |
|---|---|---|
| `requests_reject_race` | README.md:615 "Reject keeps user profile unmodified" | overlapping approve and reject both pass the pending check; the change is written and the request ends rejected |
| `sessions_same_id` | schema.prisma:66 `userType` tells whose a token is | an admin's logout revokes the tokens of the user with the same id |
| `links_used_twice` | auth.service.ts:278 "has already been used" | two uses of one link pass the check before either marks it |

### Observed, without a run

* `approveRequest` is two updates, not the "DB transaction" of README.md:614.
* `updateMyProfile` lets users change the fields README.md:610 says they cannot change
  directly.
* The mail with a temporary password says "Your password has not been changed"
  (email.service.ts:99); it has been, one await before.
* `request.controller.ts:38-42` says forgot-password creates a pending `password_reset`
  request for the admin; the service replaces the password at once.
* Two overlapping refreshes of one token both store a successor (auth.service.ts:107-132).
* A time to live is rounded down to whole seconds, and to 0 it is not remembered, so the JWT
  a logout was called with is accepted again, or still, in its last second
  (auth.service.ts:147-151).
* `JwtStrategy` does not ask of which type a JWT is (jwt.strategy.ts:26-33): the refresh JWT of
  a sign-in is accepted as bearer for its whole life. The pair shares a `jti`, so a logout
  closes both, but with the access JWT only for as long as that one had left: afterwards the
  refresh JWT is accepted as bearer again (auth.service.ts:147-151).
  `LogoutOutlastsPresented` says how long a logout holds.
* A profile edit that read the row before an approval writes the old value back
  (user.service.ts:148-150); `ChangeUndoneOnlyByStaleEdit` says that nothing else does.
* A `forgotPassword` cut short between its deletion and its mail leaves the address without
  even the link it had (auth.service.ts:255-270).
* A member without a department is listed every task by `getTasks`, and by `getUserProjects`,
  the one query that filters a project with its tasks, only those without a department or
  assigned to the member (project.service.ts:1186, 606, 547). `findOne` reads no tasks.
* An admin's alias for a resource is resolved when a row is stored, a task's is not: a task
  that names an alias or an unknown resource is decided by the rights on TASK
  (project.service.ts:136, 400).
* A task's creator is a number without a role, so the user with the number of the admin who
  created a task may delegate and complete it (project.service.ts:1316).
* A task's assignee and department need not be of its project, and the assigned worker may
  set a finished task back (project.service.ts:1268, 1326).
* `setFieldValue` stores any project beside a field: the guard asks for the right in that
  project, not in the field's (project.service.ts:697).
* A deletion of a work order that fails after the bucket leaves the row in the list without
  its file, until somebody deletes it again (project.service.ts:772).
* Files of a removed project or admin stay in the bucket.
* `ProjectPermissionGuard` verifies the token itself and asks neither whether it was logged
  out nor of which type it is (project-permission.guard.ts:39).
* When rows exist but none about the resource asked for, the guard goes by its defaults, which
  let the common resources be viewed, where the access map denies (project-permission.guard.ts:150,
  project.service.ts:502);
  `GuardAgreesWithMap` excepts the case.
* Of two project-wide rows on a resource that overlapping calls have left, the guard goes by
  the first, and the map by both together, or by the first once the role has a policy
  (project.service.ts:1123, 482).
* `setUserRole` accepts the role of another project (project.service.ts:880).
* Once a department role has a policy, only the first of several permissions on a fallback
  resource counts (project.service.ts:482).

## 4. What is proved

| Module | Theorems | From |
|---|---|---|
| `AccountsProofs` | `AccountsTypeCorrect`, `CreatorsAlwaysLive`, `EmailsAlwaysUnique` | `AccountInv` |
| | `OnlyTheUnmailedIsLost`, `PasswordsStayReachable` | `PasswordInv` |
| `ChangeRequestsProofs` | `TypeCorrect`, `RequestsGoToCreators`, `DecisionsByCreators`, `ApprovedMeansApplied` | `Inv` |
| | `GeneratedPasswordsReachable`, `OnlyTheUntoldIsLost` | `GenerationInv` |
| | `ChangesUndoneByStaleEdits` | `CarriesInv` |
| | `DecisionsApartFollowPipeline` | `PipelineInv` |
| | `NothingAppliedIsStranded` | `AppliedIsHeld` |
| `ProjectStructureProofs` | `TypeCorrect`, `NothingDangles`, `MembersStayInTheirProject`, `RolesFollowDepartments` | `Inv` |
| | `KeysDoubleOnlyByCrossing`, `DepartmentPermissionsUnique` | `KeyInv` |
| `AccessPolicyProofs` | `TypeCorrect`, `PoliciesDecide`, `TaskRightsAreVisible`, `GuardAndMapAgree`, `GrantsAreRights`, `HardcodedTasksAreClosed`, `FieldDecisionsAgree` | one policy per resource, task flags normalised |
| `SessionsProofs` | `TypeCorrect`, `RotationRetires`, `LogoutIsFinal`, `LogoutsOutlastPresented` | `IInv` |
| `PasswordResetProofs` | `TypeCorrect`, `FailedUseKeepsLink`, `OneLinkPerAddress`, `LinksLostOnlyUnsent` | `LinksInv` |
| | `NoUsedTokenIsStranded`, `LinksLoseNoPassword` | `HeldInv`, `ChosenPasswords` |
| `TasksProofs` | `TypeCorrect`, `TasksPointSomewhere`, `EditsDoNotUndo`, `OnlyTheCreatorDelegates`, `ListingsOfAMember` | the invariant of calls in flight |
| `ProjectContentsProofs` | `TypeCorrect`, `ContentsPointSomewhere`, `ListedFilesAlwaysExist`, `DeletionsLoseNoFile`, `LinksBelongToProject` | `IInv` |

The assumptions are those the modules name: `None` and `Keep` are not data values, the
bounds are numbers, the resource classes nest as in the code's lists. They bound nothing:
the theorems hold for any number of rows, handlers and operations. A theorem that needs more
says so in its statement:

| Hypothesis | Of | Without it |
|---|---|---|
| `"mail" \notin FailAt`, also `"mark"` for a generated password | `PasswordsStayReachable`, `GeneratedPasswordsReachable` | a password is stored and its mail or answer lost. `OnlyTheUnmailedIsLost` and `OnlyTheUntoldIsLost` have no such hypothesis: nothing else loses one |
| `"mark" \notin FailAt` | the pipeline, `NothingAppliedIsStranded` | a process that stops between the two writes leaves a pending request in effect |
| `[]DecisionsApart` | the pipeline | `requests_reject_race` |
| `"mark" \notin LinkFailAt` | `NoUsedTokenIsStranded` | a stop before the used token is marked |

Each hypothesis excludes one schedule or one failure that the code does not survive, and the
run of the property satisfies it. `DecisionsApart` speaks of behaviours, not of constants:
any number of handlers may run, on the same users. The theorems about stale edits, permission
keys and lost links have no hypothesis: the schedule that does harm is in the property.

Every module has a type invariant with a `TypeCorrect` theorem (`AccountsTypeCorrect` for
`Accounts`). Those of `AccessPolicy`, `Tasks` and `ProjectContents` are only proved; their
runs check the properties that say more.

The arguments:

* **Accounts.** Alone, uniqueness of emails is not inductive: an insert is safe because
  no *other* handler is about to insert the same id, and because a suspended handler's
  `patch` is well-typed for its step. `AccountInv` adds `CallOK` (what a call in flight
  carries at each step) and `IdsDistinct`. The lookup before a write plays no part in the
  proof: the unique index does all of it.
* **Change requests.** A request's admin is its user's creator because `createdBy` changes
  only to null, when the admin goes, and then the cascade takes the request too. A decision
  stays the creator's because a call carries the user and admin of its request and both are
  never rewritten. Approved means applied because a deciding call at `mark` has `applied`
  its request already, or its request is gone. `ChangeRequests` uses `AccountInv` for the
  steps of `Accounts` and adds its own invariant of calls.
* **Passwords.** `KnownOrDue(u, S)`: what is stored for `u` is known, or a call at one of the
  steps `S` carries it. One lemma per kind of step shows that a row keeps this, unless a call
  is cut short at `S`; the steps are shared by all services, so `NextKeepsKnown` serves the
  accounts alone (`S` = mail), the requests (mail and mark) and the links. It needs that a
  handler which will store a chosen password carries a known one (`PasswordsCarried`, for links
  `ChosenPasswords`), and for generated ones that the row of a call about to answer still
  exists while its user has an admin (`GenerationOK`): otherwise the mark fails and the answer
  with it.
* **Profiles.** Every writer of a profile but one writes only the fields it was given and keeps
  the rest. `CarriesInv` says of the others in flight what they were given: a call about a
  password carries no name and no email, an approval exactly what its request asks for. So
  what takes a change out of effect is about the same field (`GivenAnew`), or is the write of
  an `updateMyProfile`, which puts back what it read (`StaleEdit`).
* **The documented pipeline.** A removal of an account maps to `Withdraw`, the insert of
  `createRequest` to `Submit`, the *first* write of an approval or a generation to `Approve`,
  the status write of a rejection to `Reject`; every other step stutters, the second write
  of an approval too, because `PipelineStatus` is approved already while one is at `mark`.
  `PipelineInv` says that a call deciding on a request finds it pending still, and that what
  took effect is there: the first is what overlapping decisions break.
* **Stranded work.** `AppliedIsHeld`: whatever took effect and is pending is carried by a call
  at `mark`, overlapping decisions or not. That leaves `AppliedGetsDecided` nothing to ask
  but the fairness of that call. `UsedIsHeld` is the same for links.
* **Project structure.** The check of a placement is an await old when it is used. It still
  holds because what was read is unchanged or gone (`CallOK`: a department never moves to
  another project, a role never to another department) and because the foreign key refuses
  what is gone. Each kind of removal keeps `ChildrenHaveParents` by one lemma on `Delete`.
* **Permission keys.** With a department the unique index keeps a key unique whatever overlaps
  (`DepartmentPermissionsUnique`). A project-wide key has none. `KeyInv` adds that a call which
  found no row still finds none when it creates one, or its key is `crossed` (`SearchOK`), and
  that of two such calls on one key the later has seen the earlier (`CrossingsSeen`). Only a
  creation on that key can put a row where a call found none, and the creator was then the
  other call; the upsert of department permissions and every deletion cannot.
* **Access policy.** The stored flags have the form `PolicyFlags` gives them and a resource has
  one policy, so a policy's row is the union of the rows on its resource. Of the permissions
  nothing is assumed: there may be several on a resource. What is stored is a resource, which
  stands for itself, and any row on it may be the one met first: hence `GrantsTakeEffect`.
* **Sessions.** `SuccessorRetiresParent` needs to know that a refresh about to store a
  successor carries a parent it has revoked; `LogoutEndsSignIn` that no refresh of an ended
  sign-in is in flight, which the history variable records when a logout runs;
  `LogoutOutlastsPresented` that the cache entry ends in the last second of a JWT presented, or
  that second has come (`Remembered`). Logouts with the two JWTs may overwrite each other's
  entry, so it is kept of the entry, not of the logout that wrote it.
* **Reset links.** The accounts keep `AccountInv`: to them a link is one more writer of a
  password. `LinkOK` says that a call at `mark` has set its password, and that the unused
  tokens an address has while a call is about to create one were created since that call
  deleted, by a call that saw it. `LinksLostOnlyUnsent` needs no invariant of its own: a
  deletion turns the link an address has into one that is due, a creation or a mail hands it
  on, and every step that does neither leaves tokens and other calls as they were.
* **Tasks.** References are safe because the write checks them and every removal nulls or
  cascades; nothing is assumed of the check. That only the creator delegates holds at the
  write because a call that passed its check carries what it was checked for, and a row's
  creator never changes (the call in flight names the creator, or its task is gone).
* **Work orders.** Keys are drawn once, so no two orders and no order and upload share one
  (`OrdersOK`, `CallsOK`); a call past the bucket's deletion names a file that is deleted,
  and only its own order listed it.

**Model-checked only.** The two liveness properties, `AppliedGetsDecided` and
`UsedTokenIsSpent`: fairness speaks of ENABLED, which is beyond the prover. Their safety halves
are theorems (*stranded work*), so what rests on the runs is that a call at its last step
is resumed. The `violation` runs are counterexamples and need no proof.

## 5. Not modelled

* Of `applyViewerPolicyOnProject` only tasks and fields: users, departments and work orders
  are shown or not by one lookup in the access map each.
* Names of projects, departments and roles, with renaming; a duplicate is refused by the
  unique indexes, and no other handler reads a name. The other columns of a project.
* `AdminService.update`: columns nothing modelled reads.
* `getUserPermission`, `getFileStream`, `getFileUrl`: called nowhere or reads without effect.
  That a view link lives for fifteen minutes, beyond the removal of its order.
* The structure of `formSchema` and `submissionData`: of the first the creator and the
  resource, of the second nothing decides anything.
* Signatures, hashing, mail layout, environment, logging; resolvers and controllers beyond
  the guards and inputs of tasks, fields and work orders, which forward.
  `PasswordResetModule` is not imported by the application.

## 6. Plan

1. *Done:* accounts, change requests and their pipeline, sessions, reset links, structure,
   policy, tasks, work orders and fields, each with proofs.
2. Names and renaming in `ProjectStructure`, with the duplicate checks; the project's own
   columns; `AdminService.update`, whose email sign-in reads.
3. *Done:* proofs of every safety property of the runs and of the refinement of
   `ReviewPipeline`. Next: an abstract specification of the two stores of work orders (a document
   is stored, listed, withdrawn) and one of a sign-in (opened, renewed, closed), each with the
   component shown to implement it.
4. `Tasks` over `AccessPolicy` itself instead of its answers, once an instance of both fits.
