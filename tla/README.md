# Al-Faruq backend: TLA+ verification project

The Al-Faruq backend is a NestJS server over PostgreSQL (TypeORM). It sells
access to films, series and books through the Chapa payment gateway, runs a
review workflow for uploaded content, and carries the usual surroundings:
accounts, sessions, policies, notifications, reports. All handlers run in one
Node process: a handler runs undisturbed until it awaits a query or an HTTP
call, and at every `await` any other handler may run. The database runs at
READ COMMITTED; there is hardly any locking, and few operations use a
transaction. That is where the hard behaviours are, so the modules here take a
handler apart at its awaits.

## 1. Inventory

State is in PostgreSQL tables unless another place is named.

| Component (src/src) | State | Operations that change it | Interacts with |
|---|---|---|---|
| Purchase (`purchase/`) | pending transactions, purchases, entitlements; the transaction at Chapa | initiatePurchase, verifyAndGrantAccess (webhook and browser redirect) | Entitlement, Catalogue, Users, Chapa |
| Entitlement (`entitlement/`) | none of its own | none (nightly job only logs) | reads the entitlements and the content hierarchy |
| Feed (`feed/`) | none | none | Entitlement, Catalogue |
| Policy flags (`privacy-policy/`, `terms-of-service/`) | isActive and isMandatory of each version | create, activate, deactivate, makeMandatory, makeOptional | Acceptance |
| Acceptance and guards | acceptance rows; request.user during a request | recordAcceptance, accept | Policy flags, Login |
| Login and sessions (`auth/`) | session rows | login, Google login, logout, forceLogoutAllSessions | Devices, Acceptance |
| Accounts and passwords (`auth/`, `users/`) | user rows, one-time password and its expiry | register, social login, requestPasswordReset, resetPassword, changePassword, setPassword, UsersService.update and remove | Mail |
| Catalogue (`content/`) | content rows with status and lock, price rows | create, update, remove, submit, approve, reject, archive, restore, lockContent, unlockContent | Notifications, Purchase |
| Settlement and reports (`reports/`) | one row per settled day | handleDailySettlement at 01:00 | Purchase |
| Reminders (`reminders/`) | setting rows, cron jobs in memory | update, onModuleInit | Notifications |
| Notifications (`notifications/`, `firebase/`) | history, read and cleared marks | broadcast, push on publication, mark, clear, delete | Devices, Firebase |
| Devices (`devices/`) | FCM tokens and their user | registerDevice, deleteDevice, deleteTokens | Notifications, Login |
| YouTube cache (`youtube/`) | cache entry in memory (see below) | getPlaylistVideos, refreshPlaylistCache, nightly job | YouTube API |
| Quran seeder (`quran/`) | juz and surah rows | onModuleInit | |
| Role seed and admin (`database/`, `admin/`, `roles/`) | roles, permissions, assignments, the admin's account | start-up seed, assignPermissionsToRole, assignRolesToUser, createRole | Accounts, Reminders |
| Bookmarks, News, Languages | single rows | create, update, delete | |
| Search, Upload, Mail, shell | none | none | |

`app.module.ts` gives the cache a Redis store with the option `store`. The
cache-manager of package.json (7.2) takes `stores` and ignores `store`, so that the
cache is one map in the memory of each process, and `YoutubeCache` has it so. Were
it in Redis, an entry would survive a restart, with which nothing else changes.

What is hard, and what makes each component correct:

- **Purchase.** Webhook and redirect race for one order; either may come before
  the payment is settled; the gateway or the database fails; the process dies;
  user or content is deleted, or deleted and inserted again by a `save()` that
  overtakes the deletion. Correct: nobody pays without getting access, nobody
  gets it twice or without paying, the three tables agree, and access lasts as
  long as was bought.
- **Feed.** What is published must be shown unlocked to those whom the purchase
  check counts as having access, and to nobody else.
- **Policy flags.** At most one version has each flag; the apps are never left
  without one while it is replaced.
- **Acceptance.** Nobody uses the app without having accepted the mandatory
  versions. The guards that say so are registered globally and run before the
  route's JwtAuthGuard has put a user into the request.
- **Login.** At most three active sessions for one user; the count and the
  insert are several awaits apart.
- **Accounts.** One update does not undo another, unless they overlap; one
  person has one account.
- **Catalogue.** Nothing is published that no reviewer has seen; locked content
  has an active price and unlocked content none; a publication is announced
  once. No operation has a transaction, and every `save()` reads the row again
  and writes what differs.
- **Settlement.** A settlement has all sales of its day; the parts of an amount
  add up to it, whichever cent each of them was rounded to; four reports tell
  the same story.
- **Reminders, YouTube cache.** Memory agrees with the rows (the API) after the
  last of several overlapping changes.
- **Notifications and devices.** A broadcast reaches every device, once; a live
  token is never removed as stale, and belongs to its last user; what a user has
  cleared stays cleared.
- **Seeders.** Servers that start side by side, or after one that died in the
  middle, all come up, with everything seeded.

The hazards, each at its line, are in `PROJECT.json`, with the properties that
watch them, or the reason why none does.

## 2. Plan

Done: `Purchase` with its ledger and `Feed` on top of it, `PolicyFlags`; the
three components of a person, `Sessions`, `Acceptance` and `Accounts`, composed in
`PeopleSystem`; `Catalogue`; and the services `Settlement`, `Reminders`,
`QuranSeeder`, `RoleSeed`, `Push`, `Inbox` and `YoutubeCache`, composed in
`ServicesSystem`. Every invariant and action property that a run checks is proved.

Left, in this order:

1. `PolicyFlags` as an implementation of what `Acceptance` assumes of an admin:
   each Commit maps to one Enforce, or to none. It holds only while admins do
   not overlap, as OneActiveTerms shows.
2. An abstract specification of what a seeder promises (a row appears once and
   for good), which `QuranSeeder` and `RoleSeed` implement as `Purchase` does its
   ledger.
3. `Storefront`, Catalogue with Purchase: the price that `FindPricing` chooses
   freely is then the one that lockContent wrote.
4. A model of two checks one after the other in Languages and Bookmarks, should
   anything come to depend on their rows.

The runs are few: one for each question that needs its own instance or its own
fairness. Components that share nothing are checked side by side in one run.

Every module takes its sets as CONSTANTS, has one action per step of a handler
and declares no RECURSIVE operator, so that it can be proved about.

## 3. Modules

### Purchase

`Purchase.tla` models `purchase.service.ts` with the parts of
`entitlement.service.ts`, `content.service.ts` and `users.service.ts` it depends
on.

| Model | Code |
|---|---|
| `pending`, `purchases`, `grants`, `validUntil` | rows of pending_transaction, purchase and user_content_entitlement, by tx_ref |
| `users`, `contents` | rows of the user and content tables |
| `order`, `stage`, `days`, `createdAt` | an initiatePurchase request: its arguments, the next await, the durationDays it read, the time it saved |
| `vpc`, `vtx`, `until` | a running verifyAndGrantAccess: the next await, its tx_ref, the expiresAt it computed |
| `chapa` | the gateway's own state of the transaction |
| `FindUser` ... `SavePending` | initiatePurchase from await to await |
| `BeginVerify`, `ReadPending`, `LookupPurchase`, `AskChapa`, `LoadParties`, `Commit`, `DropPending` | verifyAndGrantAccess from await to await |
| `Pay`, `Tick`, `Crash` | the customer at Chapa, the clock, a restart of the process (running handlers vanish, rows stay) |
| `DeleteContent`, `DeleteUser` | removals, with the rows that cascade |
| `StaleSaveContent`, `StaleSaveUser` | a `save()` of an entity read before the deletion inserts the row again |

`Commit` is one step because it is one database transaction: the unique column
chapaTransactionId and the foreign keys decide whether it commits or rolls back.
A request is named by the tx_ref it will draw; it has 128 random bits, so tx_refs
never collide. `FindPricing` picks any price an admin may have set. The constant
`Disturbances` says what may go wrong in an instance, so that a run or a theorem
can say which disturbances a promise survives.

`PurchaseLedger.tla` is what the component promises: an order is placed, may be
paid, and a paid order is granted at most once and for good. `ImplementsLedger`
maps *placed* to the orders with a checkout URL, *paid* to what the gateway has
seen paid and *granted* to the orders with an entitlement.

### Feed

`Feed.tla` extends Purchase with what getFeed, getMyPurchases and
getContentForUser unlock. These handlers only read, so they are operators over
the tables. None of them looks at validUntil.

| Model | Code |
|---|---|
| `published` | the content rows that have the status PUBLISHED when the handler reads them. The workflow changes it whenever it likes and no step of a purchase depends on it, so that it is an argument, and the properties are for every set of rows |
| `EntitledIds` | entitledContentIds, from all entitlement rows of the user |
| `TypeFilters`, `TopLevelTypes`, `Selected` | `where.status` and `where.type`: the category of the request, or the top-level types |
| `FeedUnlocks`, `Library` | getFeed and getMyPurchases: what they list, if it is entitled itself |
| `Page` | what getContentForUser reads: a published content with its children and theirs, of any status; none (404) if it is not published |
| `DetailUnlocks` | _processContentNode on each of them, with the ids for checkUserAccess |

OwnerNotLockedOut says how the views agree with checkUserAccess, as far as content is
published: every page that shows a content shows it unlocked to whoever has access
to it, the feed does so for content without a parent, and the library has what was
bought, with a page that leads down to the content. It does not say that a
series unlocked for its buyer shows up so in `GET /feed?category=EPISODE`: that view
asks for the episode's own entitlement only (section 6).

### PolicyFlags

`PolicyFlags.tla` models `_updatePolicyStatus` and `create` of the privacy policy
service and `activate`, `makeMandatory` and `create` of the terms service; the
variable `service`, chosen at the start, says which. A request reads its row, then its transaction
clears the flag everywhere and saves the row.

| Model | Code |
|---|---|
| `present`, `rows` | committed rows and their flags |
| `lock`, `draft` | a row written by a transaction that has not committed, and its new flags |
| `pc`, `target`, `entity` | an admin's request: the next statement, the row, the entity in memory |
| `todo`, `matched`, `changed` | fields still to clear, rows the running UPDATE has picked, columns save() writes |
| `asked`, `overlapped` | history, not in the code: the flags requests have asked for, whether two have run at once |
| `UpdatePolicyStatus`, `Create` | the read of the row, the early return, the start of the transaction |
| `PickRows`, `ClearRows` | one UPDATE: picks from what is committed when it starts, waits for locked rows, looks at them again |
| `CompareRow`, `WriteRow`, `InsertRow` | save(): selects the row, writes the columns that differ |
| `Commit`, `Rollback` | end of the transaction; a failure, a deadlock or a crash at any point |

The multipart form of create is not modelled: the flags are those the service
receives.

### Acceptance, Sessions, Accounts

`PeopleSystem.tla` composes them: it extends `Acceptance` and instantiates the two
others. They meet only in the user table, of which each sees rows deleted, so
that a behaviour is one of the three. login counts the sessions of `Members`,
those with the role USER. `MCPeople.tla` is its instance.

`Acceptance.tla`: recordAcceptance and accept, the guards in the order Nest runs
them, and the flags that login and refreshAccessToken sign into a token. All of
them do the same two reads, so that a request has a `task` (guard, accept, flag),
a document `doc` and the version it has `found`.

| Model | Code |
|---|---|
| `users`, `accepted`, `inForce` | the user rows, the acceptance rows, the version that is active and mandatory |
| `route`, `who`, `user` | the endpoint, the bearer of the token, request.user |
| `step`, `task`, `doc`, `found` | the next await and what it is for |
| `flagged` | the documents the token will ask for |
| `seen` | history: the versions that were in force since the request began |
| `GlobalGuards`, `JwtAuthGuard`, `RolesGuard` | the guards up to the route's own: the global one skips, as request.user is not yet there |
| `ReadMandatory`, `CountAcceptance` | the two reads, an await apart, and where each `task` goes from their answer |
| `FindUser`, `InsertAcceptance`, `RefreshAccessToken` | the rest of recordAcceptance and accept; the unique constraint and the foreign key decide |
| `Enforce`, `RemoveUser` | an admin changes what is in force (PolicyFlags has the steps of that), a user is deleted |

`Sessions.tla`: login behind its four entrances. `CountSessions` and
`SaveSession` are as many awaits apart as in the code, `Logout`,
`ForceLogoutAllSessions` and `RemoveUser` come at any time. A session row is
named by the login request that inserts it. Whether a user has three devices is a
free choice. `overlapped` is history.

`Accounts.tla`: registration, first social logins, the one-time code, changes of
password, address and link.

| Model | Code |
|---|---|
| `rows` | address, password, code and its expiry, social identity of each account |
| `kind`, `person`, `given`, `target`, `attrs` | a request, what it presents, the account it is about, the columns it wants to change |
| `entity`, `changed` | UsersService.update: the entity it has read and assigned to, the columns that save() finds different |
| `ReadForUpdate`, `Compare`, `Write` | update and the two statements of its save() |
| `Create` | the INSERT that the unique columns may refuse |
| `promised`, `overlapped` | history: the rows as the answers have it; whether two requests have run at once |

An undefined attribute is one that save() leaves alone: that is why resetPassword
leaves the code valid.

### Catalogue

`Catalogue.tla` models one content of `content.service.ts`: `row` has its status,
lock, media and thumbnail, `tiers` the price row of each access type. A request
reads the row (`SubmitForReview` to `Remove`, with the checks of each), changes
its `entity`, and save() reads again (`SelectForSave`) and writes the columns that
differ (`WriteRow`). Then come the price rows (`DeactivateTiers`, `FindTier`,
`InsertTier`, `SelectTier`, `WriteTier`) and the announcement
(`NotifyContentPublished`). A `save()` of an entity whose row is gone inserts it
(`InsertRow`); `update` preloads the row a second time (`Preload`);
`StatementFails` ends a request after any of its statements. `reviewed`, `edited`,
`announced`, `approvals`, `overlapped`, `failed` are history.

`MCCatalogue.tla` gives three media arrays, two of them with the same thumbnail.
Initial states are any row that complete operations leave.

### Services

`ServicesSystem.tla` composes seven services that share nothing but the process:
it extends `Settlement` and instantiates the six others, and a behaviour is one
of the seven. `MCServices.tla` is its instance.

| Module | State and actions |
|---|---|
| `Settlement` | `sale` is a purchase row in cents with every value that its rounding may give, `settlement` the row of each day; the job of each server is `CheckExisting`, `FindPurchases`, `SaveSettlement`, and may fail at each. The four reports are operators over both; the settlements report adds up the rows (`Stored`), the three others the purchases |
| `Reminders` | `setting` is the row, `job` the cron job in memory with the entity it was scheduled with; `Update`, which may change all columns at once, replaces the job before `SelectForSave` and `Save`; `Start`, `SeedReminderSettings`, `OnModuleInit` are a start-up |
| `QuranSeeder` | `juz`, `juzOf` are the rows; every server runs the seeder twice in a start-up (main.ts and onModuleInit), in the two loops of the code: `next` is the juz and the surah of it that a server saves next, `ToCreate` what createdSurahs has left of a juz, and each save is `SelectRow` and `InsertRow` |
| `RoleSeed` | `stored`, `granted`, `accounts` are permissions and reminders, roles with their permissions, and the accounts that hold the admin's address or number. `Plan` is what a start-up seeds, row by row (`FindRow`, `InsertRow`; for a role that is there `SelectRow`, `WriteRow`); what it throws ends the process, which boots again. Beside it run createRole and assignPermissionsToRole, and accounts come, go and change their address |
| `Push` | `owner` is the user of each device row; `FindDevice`, `SelectDevice`, `MoveDevice`, `InsertDevice` are registerDevice; `FindAllTokens`, `SendMulticast`, `DeleteTokens`, `RecordNotification` a broadcast chunk by chunk |
| `Inbox` | `status` is the status row of a user and a notification, written by a save() of a plain object: `SelectStatus`, `WriteStatus` |
| `YoutubeCache` | `cache` has the versions of the pages stored under each key; `GetCached`, `DeleteCached`, `List`, `SetCached` are a read or a refresh, page by page |

## 4. Runs

| Run | Instance | Shows |
|---|---|---|
| `purchase_races` | one order, three verify calls, every disturbance | TypeOK, NoDoubleGrant, AllOrNothing, AnswersAreFinal, PaidAccessLasts, ImplementsLedger |
| `purchase_feed` | two users, a series with season and episode, any of them published, two orders, crashes and deletions | PaidOrderKept: no paid order is lost, not even in a crash; WholeSeriesUnlocked at every level; OwnerNotLockedOut: what is published is shown unlocked to whoever has access to it; NothingUnpaidUnlocked: and to nobody who did not pay |
| `purchase_granted` | two orders of one content, two verify calls, deletions, webhook fairness | PaidEventuallyGranted |
| `policy_alone` | three policies or terms, two admins | TypeOK; OnlyOneUnlessOverlapping with a rollback at any statement; NeverNone: once some terms are active there always are, within the limits below |
| `people` | four logins; two requests about acceptances, or about accounts | TypesOK; LimitUnlessOverlapping; TokensTruthful, ProfileOnlyAfterTerms and AcceptedWhileInForce against an admin who changes what is in force; OneAccountPerPerson and AnswersHold |
| `catalogue` | one content, two requests that may overlap and fail | TypeOK; PublishedWasReviewed, whatever overlaps; PublishedAsReviewed, LockAndPriceAgree, AnnouncedOnce, ThumbnailInStep, until requests overlap |
| `services` | seven services, each in an instance of its own | TypesOK; PartsAddUp, SettledDayIsWhole, NoDayForgotten, ReportsAgree; JobMatchesRow; EventuallySeeded; EveryServerStarts; BroadcastReachesAll, OnlyDeadTokensCleaned, DeviceOfLastUser; ClearedStaysCleared; FreshAfterRefresh |

Runs that find a disagreement between the code and what it says of itself
(details under "findings" in `PROJECT.json`):

| Run | Property | Found |
|---|---|---|
| `purchase_scope` | PricedContentIsSold | a priced DAWAH content cannot be bought |
| `feed_expired` | UnlockedOnlyWhileValid | an expired rental stays unlocked in the feed |
| `policy_races` | OneActiveTerms | two admins who activate two versions of the terms at once leave both active |
| `mandatory_enforced` | MandatoryEnforced | a user who has accepted nothing is served: the global guard runs before request.user is set, and skips |
| `session_limit` | AtMostThreeSessions | four logins that overlap create four sessions |

The trace of `policy_races` is two activations and nothing else: no version is active,
the UPDATE of the second starts before the first commits and picks no row, and both
save theirs. The privacy policies have the same two statements. They have more:
makeMandatory, makeOptional, activate and deactivate save the entity they read
before their transaction, so that a deactivate may raise isMandatory again on a
version from which another admin has just taken it, and two versions are mandatory
(`privacy-policy.service.ts:342-343`). OneActiveTerms leaves that out by looking at
behaviours that ask for isActive only.

NeverNone speaks of behaviours where two admins at most ask for one flag only,
or no requests overlap, because it fails beyond that: a makeMandatory that read
its row before an activate saves isActive as it was, and of three that overlap in
activate two may each clear the row that the other has found set, and therefore
not written.

One disagreement is not a run: the index option that is to let pending rows
expire "after 24 hours" (`pending-transaction.entity.ts:74`) is one of MongoDB's;
in PostgreSQL it does nothing, and the model has no action that removes them.

### Bounds

- Verify calls are interchangeable and interact only through one order's rows;
  two can race, a third can come after both. The slots are reused without end.
- Two orders are enough for one to be unlocked by the other; access is looked
  up three levels, so the hierarchy has three. Every subset of the content is
  tried as the published one in every state.
- `MaxNow` is one or two days and rentals last one, so that a rental starts,
  runs and expires, and an order is verified on a later day than it was placed.
  It is zero in `purchase_granted`, where no property reads the clock.
- Policies: a request has one target and clears the others; the third is the one
  neither of two requests targets. Initial states have any existing rows with
  at most one flagged.
- Symmetry is used only in runs without liveness: on users, orders and verify
  slots, which are interchangeable because every user of an instance has an
  e-mail address, and on policies and admins. Contents have their kinds and
  places in the hierarchy and are told apart.
- People: four logins are one more than the limit; two requests race for every
  row, with a second version to change to, a second person, a second id. One
  change of what is in force falls between any two reads. The clock goes as far
  as a code expires. About a million states.
- Catalogue: the two requests cover every pair of operations, of which each has
  all its statements; what a third could do to the row the initial states
  already contain. 835 315 states.
- Services, 894 462 states in all. Settlement: prices of 33 and 9999 cents, and
  10, with 15 % VAT and 2.5 % fee, so that VAT, fee and shares fall between
  cents; two servers and three days, of which two are settled. Reminders: three
  updates, of which two overlap and one follows; two crashes. QuranSeeder: two
  servers and two faults, a surah that spans two juz. RoleSeed: two servers, one
  fault, two changes of accounts, one request of an admin; one row of each kind
  but two roles, one with and one without permissions. Push: two users register
  one token, another token makes a second chunk. Inbox: two readers, two
  notifications, two marks. YoutubeCache: three requests, two playlists, one
  search, data that changes once.
- Deadlock is not checked where a finite instance really stops: a purchase
  instance when its requests are used up and the clock has reached its bound,
  and the instances of people, catalogue and services when theirs are.

### Fairness

`HandlerFairness` is weak fairness of each running handler: Node resumes it when
its query or HTTP call returns, and each returns or fails. Nothing obliges a
customer to pay. `WebhookSpec` adds that the gateway delivers the webhook of a
settled payment. It is strong fairness because the slots are this model's bound:
the server never refuses a webhook for want of one. Crashes are excluded from
`purchase_granted`: a crash can swallow a webhook, and the code relies on the
gateway to send it again. Early calls and failures are excluded because they
remove the pending row of an order that is paid later, as `PaidOrderKept` says.

The two seeders assume weak fairness of each server's StartUp: bootstrap awaits
one statement after the other without waiting for anybody, and
`restart: always` in docker-compose.yml boots a process again that has ended.
Faults and changes of accounts are bounded and need no fairness. So
`EveryServerStarts` says that what a server throws when another one has seeded
the same row does not repeat for ever. It excepts LockedOut: no account has
ADMIN_EMAIL and another one the number `0000000000`. Then every start-up fails.
An admin brings that about by changing his address with changeAdminCredentials
and leaving the environment as it is (section 6).

## 5. Proofs

Theorems are about the specification of a component, not about its instance; the
run checks the same property, under the same name, on the instance.

For every set of users, contents, orders, calls and days
(`PurchaseProofs.tla`), from the assumptions named in
`Purchase.tla`:

- `TypeCorrect`: TypeOK.
- `CoreCorrect`: the inductive invariant CoreInv, which is TypeOK with two parts
  that make the rest inductive: OrdersAgree (what the stage of a request says of
  gateway, pending row and purchase) and CallsAgree (what the stage of a verify
  call says of its order: a call past the gateway has a paid order, one about to
  drop the row has no purchase that could contradict it). From it
  `GrantedOnce`, `TransactionAtomic`, `AnswersFinal`.
- `LedgerImplemented`: every step of Purchase is a ledger step or a stutter.
- `AccessCorrect`: with ExpiryInv, which relates validUntil and the expiry a
  running call has computed to the time of the order.
- `SeriesUnlocked`: for any hierarchy, with ChainLooksDown: checkUserAccess looks up
  two levels, so it finds the content of a purchase from its children and from
  theirs. ContentService.create and update accept any parent; what is nested
  deeper is not unlocked, and the theorem does not say that it is.
- `OrderKept`: with KeptInv, in an instance without early calls, gateway and
  database failures and stale saves. Crashes are allowed.
- `OwnersSee`, `ViewsArePaid`: the views of the feed, for any part of the content
  that is published, from the above and NoOrphans (an entitlement's content is in
  the table). Neither needs a bound on the hierarchy.

For every set of policies (`PolicyProofs.tla`):

- `TypeCorrect`: TypeOK for any number of overlapping admins.
- `OneFlagged`: at most one policy has each flag until two requests overlap.
  SoloInv says that until then at most one transaction runs, that the flags its
  request holds in memory and that it has finished clearing are seen raised in
  no other row, that it has raised no flag elsewhere, and that before it commits
  its row has the flags it holds.
- `TermsStay`: NeverNone. Until requests overlap from SoloInv and TermsAlone: a
  request about terms leaves alone every flag that it does not raise. For two
  admins from PairInv: a request that commits without having written its row
  found the flag set there by the other, and leaves alone a row that has it;
  that this happens to one of the two at a time (OneUnwritten) is what fails
  with three.

For every set of users, versions and requests, if Changes is a natural number
(`AcceptanceProofs.tla`): TypeCorrect, FlagsTruthful, ProfileGuarded,
OnlyVersionsInForce. AcceptanceInv adds to the types SeenAgrees (a running request
has seen what is in force), FoundAgrees (the version it holds was in force while
it ran) and FlagsAgree (what a token leaves out, and what a profile was served
for, has been complied with). `CompliedForGood` says that
complying is for good, because acceptances go only with their user.

For every set of users, logins, people, accounts and requests
(`PeopleProofs.tla`), if Logins is finite, None is none of the values and the
times of a code are numbers: TypesCorrect, LimitHolds, OneAccount, AnswersKept.
`EachOnItsOwn` is the argument for a composition: every step of PeopleSystem is a
step of each component or leaves it alone, so that PeopleSpec implies the
specification of each, and what is proved of a component holds of the whole.

- LimitInv: of a user whose logins do not overlap at most one login is in flight,
  and while it is about to save there is room for one more session. Count is
  the cardinality of a finite set; that it drops when sessions end, and grows by
  one at most, are lemmas.
- AccountsInv: the types, OneAccountPerPerson (kept by the unique columns alone,
  however requests overlap), and, until requests overlap, Alone: at most one
  runs, and with it the rows are what the answers said but for what that
  request has written and not yet answered (Kept). That the entity is the row
  with the attributes assigned, and `changed` the columns that differ, is what makes
  a save() of part of the columns store the entity.

For every set of requests and media (`CatalogueProofs.tla`), if Absent is no row
(AbsentAssumption): TypeCorrect and ReviewEnforced with CoreInv, however requests
overlap; OpsAgree says what the step of a request says of its operation and its
entity; ReviewAgrees, that before an admin has published something neither the
row nor any entity in memory, however stale, is public.
SeenIsPublished, LockMatchesPrices, NoSecondAnnouncement and ThumbnailFollowsMedia
need SoloInv: until requests overlap, at most one runs, and
the row (SoloRow) and what the running request holds (SoloRequest) are as its
step has left them. The proof sorts all actions into those that bring a request
(`Arrives`) and those that carry it on (`Continues`).

For any number of sales, days, servers, updates, devices, broadcasts, users,
notifications, playlists and rows to seed (`ServicesProofs.tla`): TypesCorrect,
PartsOfSales, DaysAreWhole, DaysRemembered, ReportsTellTheSame, JobFollowsRow,
LastUserHasDevice, NobodyMissed, LiveDevicesStay, ClearedIsFinal, CacheIsFresh. As
above, `EachOnItsOwn` takes a behaviour of the whole apart, and each service has
an inductive invariant of its own. The assumptions are the `...Constants` of
ServicesSystem and Settlement.

- SettlementInv (`SettlementProofs.tla`): the row of a settled day, and the one
  that a job is about to save, are what the sales of the day come to (RowRight),
  unless one was deleted; a job works on a day that is over, so that no later
  sale is of that day (JobsAgree, DaysPast); then the day it has passed is settled
  or had no sales. The first part of the module has the theory of sums that this
  needs: SumFunction of the community modules is a fold, and that the sum over a
  finite set does not depend on the order in which the fold picks is proved from
  its CHOOSE. Induction over a finite set is done with a set of subsets in place
  of a predicate (`FiniteInduction`), because the library's induction theorem takes
  an operator. ReportsAgree follows from SettlementInv: what is added up over the
  sales is added up over their days (SumByDays), so that revenue and number of
  sales are those that the settlements have stored, and the shares, linear in
  the net, are within their rounding.
  PartsAddUp is arithmetic over every rounding of every price; `net >= 0` needs
  that VAT and fee leave half of a price, Fee * (100 + Vat) <= 50000, which
  15 % and 2.5 % do by far.
- JobInv: unless the last update to begin has overlapped or one has failed since,
  the running update is the only one, has scheduled its entity, and `updChanged`
  are the columns in which the row differs from it: so that writing those makes
  the row the entity, and the job its job. That an update which begins alone
  needs nothing of what was before is why it repairs what others have left.
- PushInv: OwnersAgree (a row has the user promised, and a registration that found
  a row still has one to update, or the token is tangled) and CastsAgree (a
  broadcast has sent nothing to the tokens it has yet to send to and has dealt
  with the others; those it holds stale are dead). OnlyDeadTokensCleaned is an
  action property and follows from it step by step.
- ClearedInv: MarksAgree (a row that a SELECT found is lost only with its user or
  its notification, which never come back), AnswersAgree and RowsAgree (a row is
  cleared just when that was answered).
- FreshInv: a fetch that stores its pages has as many as its key needs, none older
  than its beginning (PagesAgree), and, until a refresh has met an older fetch,
  began no earlier than the last complete refresh (FetchesAgree).
- QuranInv and RolesInv (`SeedProofs.tla`): a server that saves a surah has saved
  its juz; whoever compares or saves the permissions of a role has found it, and
  roles stay. Both are needed for the foreign keys in the types.

Only model-checked: PaidEventuallyGranted, EventuallySeeded and EveryServerStarts.
Liveness under fairness and ENABLED are beyond the prover. The five properties that
the code breaks have a run each and no theorem.

## 6. Not modelled

- Bookmarks: addBookmark looks for a row before it inserts one, with no unique
  constraint behind it, so that two taps leave two rows; nothing else reads them.
- News, Languages, Tafsirs and Reciters: one row at a time, nothing shared.
- Search, Upload, Mail and the application shell: no state.
- assignRolesToUser, and RolesService, which only reads.
- In the modelled components: texts of mails and messages, URLs, paging, filters,
  logging, and the fields of a row that no property tells apart.

What was met on the way, is in the models as it is, and no property forbids:

- checkUserAccess does not look at the status, the feed does: the buyer of
  content that has been archived since cannot buy it again ("User already has
  access"), and gets a 404 and no entry in his library
  (`feed.service.ts:109, 135`). initiatePurchase does not look at it either: a draft
  that is priced can be bought, and not seen.
- `GET /feed?category=EPISODE` shows the episodes of a series as locked to its buyer,
  whose page of the series shows them unlocked (`feed.service.ts:76`).
- A content nested more than two levels below a bought one is not unlocked:
  create and update accept any parent (`content.service.ts`), checkUserAccess looks
  at three levels (`entitlement.service.ts:34-51`).
- The transaction report and the settlements are headed "LEGACY REPORTS ... These
  are less accurate as they don't account for VAT/fees correctly"
  (`reports.service.ts:218-219`). Their code does account for both: the shares are of
  netAmountForSplit, as those of the ledger and the reconciliation are.
  ReportsAgree holds of them, so that the comment describes an earlier version;
  what they miss is the last millisecond (below).
- A change of one flag of a privacy policy saves the other flag as it was read, and
  may leave two mandatory versions (`privacy-policy.service.ts:342-343`).
- After changeAdminCredentials with a new address, or when the admin's account
  is gone and somebody has registered its number, no server starts again until
  ADMIN_EMAIL is changed (`seed.service.ts:152-174`).
- Every start-up gives the default roles their default permissions again and
  takes back what an admin has assigned (`seed.service.ts:137`).
- resetPassword passes undefined for the code, which save() leaves alone: the
  code, "One-Time" in `reset-password.dto.ts:20`, stays valid until it expires
  (`auth.service.ts:462`).
- Sales of the last millisecond of a day are in no settlement
  (`reports.service.ts:67`), and a day all of whose jobs fail is never settled.
- A reminder that fails to be saved has already been rescheduled; a null passes
  `IsOptional` and is such a failure (`reminders.service.ts:57`).
- A broadcast is not awaited: what it throws ends the process
  (`notifications.controller.ts:122`).
- An uploader may edit archived content of his, and restoreContent publishes
  the edit: the admin who restores it reads it, but it has been through no second
  review (`content.service.ts:153`).
- The cache of the search results lives for 3600 milliseconds, where the comment
  says an hour (`youtube.service.ts:87`).
- A purchase whose user is gone makes the transaction report fail
  (`reports.service.ts:274`).
