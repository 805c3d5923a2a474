# TLA+ models of the DONGLE server

DONGLE is the back end of a university-club portal: a NestJS application over
one PostgreSQL database, S3 for uploads and a GitHub call for feedback. Every
HTTP handler is a sequence of SQL statements separated by `await`s, and pm2 may
run several Node processes, so the statements of different requests interleave
freely. Only one operation opens a transaction (registering a club); all the
others rely on conditional UPDATEs, on constraints of the schema, or on nothing. Its deployment is a
sequence of shell commands on one server, any of which may fail or be cancelled,
and some of which run on although they were.
That is where this code can go wrong and where unit tests, which mock the
repositories, cannot look; it is what the modules are about.

Paths below are relative to the repository's `src/v1` unless they name another
directory. `PROJECT.json` maps each definition to the lines it stands for.

## 1. Inventory

| component | state it keeps | operations | hard behaviour | what makes it correct |
|---|---|---|---|---|
| club registration (`clubs/clubs.service.ts`, `auth/auth.service.ts`) | `one_time_keys`, `users`, `clubs` | issue a key; register a club with it, with an existing president or a new account | requests racing for one key, waiting for row locks and unique entries, expiry between look and UPDATE, failure inside the transaction | one club per key, all rows or none, a failed attempt gives the key back, no use after expiry, no endless wait |
| users (`users/`) | `users` | create (open to everybody while the table is empty), update, remove | checks and writes are separate statements, bcrypt between them; `remove` writes two tables without a transaction | the anonymous creation is over for good, login ids and phones differ unless requests overlap, system accounts are never touched, deleted stays deleted |
| clubs (`clubs/`) | `clubs` | create, update, delete, icon update | president and period are checked against rows read earlier; an icon is uploaded before its row is written | a president is a live user, a period starts before it ends unless updates overlap, a deleted club is frozen, an issued icon that is shown exists |
| sessions (`auth/`) | `users.refresh_token`, issued JWTs | login, refresh, logout, check of an access token | two reads and a store per call while user and club change; tokens carry claims of the past | deleted users stay out, a logout lasts, a token is refused for its club only when the club changed |
| club schedules (`club_schedules/`) | `club_schedules` | create, update, change of visibility, removal; by presidents and administrators; four lists | read, UPDATE whose count nobody looks at, second read; clubs deleted in between; each list decides in its own way what it shows | a success was really written, removed means gone, deleted rows frozen, no lost updates, the lists agree on what is public |
| club reports (`club_reports/`) | `club_reports` | create, update, remove, lists | guards read user and club, the write comes later; ownership is part of each WHERE | what is written belongs to a club the author could write to, removed reports stay away, one removal succeeds |
| main banners (`main_banners/`) | `main_banners`, images in S3 | create, update, remove, public list | written dates become instants; a second read after the UPDATE may find nothing; the list takes the time before its SELECT | dates of the calendar only, periods not empty, the list shows the moment it was asked for, a removed banner is frozen |
| roles and permissions (`auth/guards`, `auth/constants`) | none | role and club checks | the claims of a token are of the past, and the tables may change again between the guards and the write | a write goes to a club the user could write to while the request was there |
| dashboard (`dashboard/`) | none | counts and the schedules of the month | Seoul month boundaries, months half open while calendars are closed | the month holds the present, only a reversed schedule is in no month |
| feedback (`feedback/`) | none (GitHub issues) | one POST | lost reply | an issue names role and club its author had |
| uploads (`src/common/lib/s3-uploads.ts`) | S3 objects | PutObject under a fresh name | object without a row that names it | no row without the object it names |
| pure helpers (`src/common/lib`: date-time, phones) | none | parse, normalise | leap days, ends of months and years, missing time or zone | agree with a reference definition |
| schema (`src/database/migrations`, `sql.ddl`) | the schema | BaselineSchema, later migrations | two descriptions of the same tables differ | the handlers work on both |
| deployment (`.github/workflows`) | environment file and backup, release and backup, markers, schema, processes | upload, replace, migrate, reload, health check, roll back | failure or cancellation at any command, scripts that run on when their ssh is gone, a lost reply, commands that are not atomic, processes that restart by themselves | the release that was found is never lost, a rollback restores, a success is complete, migrations come first |
| validation, response envelope, health check, application shell, maintenance scripts | none | formatting, wiring, one-off commands | none | none |

Interactions. Registration calls `UsersService.create` and
`AuthService.consumeOneTimeKey` with its own entity manager, so they take part
in its transaction. `UsersService.remove` writes `clubs`; `ClubsService` reads
`users`; tokens are made from both tables and later compared with both by every guarded
route, so what reports, icons, uploads and feedback may do depends on them. A
schedule belongs to a club (or to nobody, when an administrator made it) and is
reached through a join that leaves deleted clubs out; the dashboard counts the
same rows by month. Everything is shared through PostgreSQL at READ COMMITTED;
there is no in-process shared state. A deployment replaces the files the
processes run and migrates the schema they use.

## 2. Modules

| module | models | state | actions |
|---|---|---|---|
| `Registration` | `POST /v1/clubs/registration-urls` and `POST /v1/clubs`, one step per SQL statement | committed rows of three tables, the clock, and per request its body, next statement and the `new Date()` it put into the key UPDATE | `createRegistrationUrl`, `Submit`, the statements of `ClubsService.create`, `Commit`, `Rollback`, `Abort`, `Tick` |
| `OneShotRegistration` | what registration promises: key to club in one step | issued and spent keys, registrations, accounts | `Issue`, `Register` |
| `Tables` | rows and bodies of users and clubs; which claims of a token still hold | the tables, requests and their next statement | helpers only |
| `Users` | `UsersService`, bootstrap guard | that of `Tables` | guard, token check, duplicate checks, INSERT, reads, UPDATE, the two statements of `remove` |
| `Clubs` | `ClubsService` writes | that of `Tables` | president check, INSERT, date check, UPDATE, delete |
| `Directory` | composes `Users` and `Clubs`: requests arrive, run, and may break off anywhere | that of `Tables`, `met`: whom each request has been in flight together with, and `serial`: no two requests have overlapped yet | `Submit`, `UserStep`, `ClubStep`, `Abort` |
| `Sessions` | extends `Directory` with auth calls, so users and clubs change beneath them through the handlers' own steps | clock, `refresh_token`, tokens handed out, calls | `Arrive...`, the two reads, signing, storing, `Fail` |
| `Content` | extends `Directory` with the guarded writes that hang on a club: reports, icons, the images of reports and banners, feedback | reports, icons, objects in S3, issues on GitHub, requests with their token | `ArriveAt`, the two reads of the guards, `Upload`, `StoreIcon`, `CreateReport`, `UpdateReport`, `DeleteReport`, `PostFeedback`, `Break` |
| `ClubSchedules` | `ClubSchedulesService` and the deletion of clubs; its lists and the month of the dashboard as operators | schedules, deleted clubs, per request body, next statement and the row it read | `Submit`, `Insert`, `Read`, `Write`, `Reread`, `Abort`, `DeleteClub` |
| `OneStepSchedules` | what the schedules promise: a request takes effect in one step, at most once, and no answer is a lie | rows, what was asked, who was served and who answered | `Ask`, `Effect`, `Answer` |
| `SeoulTime` | `date-time.ts`, what `Date` does, the month of the dashboard | none | operators only |
| `Banners` | `MainBannersService`, over `SeoulTime` | clock, banners, requests with the `new Date()` of a list | `Submit`, `Insert`, `Update`, `Reread`, `Remove`, `FindActive`, `Abort`, `Tick` |
| `Deploy` | `deploy-prod.yml`, command by command, over several runs | the four files, schema, what each pm2 process has loaded, markers, next command, scripts that run on without a runner | one action per command of deployment and rollback; `Underway` (half a command), `Fail`, `Cancel`, `Stop`, `Restart` |
| `Registration_proofs`, `ClubSchedules_proofs`, `Directory_proofs`, `Serial_proofs`, `Sessions_proofs`, `Content_proofs`, `Banners_proofs`, `Deploy_proofs` | theorems; `Serial_proofs` is about what the checks of `Directory` are worth when requests overlap and when they do not | | |
| `MCRegistration`, `MCDirectory`, `MCSessions`, `MCContent`, `MCClubSchedules`, `MCBanners`, `MCDeploy` | values of the constants for TLC | | |

Correspondence. `pc[r]` (in `Sessions` `step[s]`, in `Content` `at[w]`) is the next statement of a
handler; the computation after a statement belongs to that statement's action,
up to the next `await`. A transaction's INSERTs are invisible until `Commit`
publishes them; its row lock is `LockHolders`, derived from the places where
it is held. An action whose name starts like the source's method is that
method's statement; a definition `X_slip` with a comment "(slip)" is a
plausible mistake at `X`, used to see that the properties notice it, and is
part of no specification. Variables marked (history) record what happened for a
property; no action looks at them.

PostgreSQL, TypeORM and jsonwebtoken are modelled as the code uses them: an
UPDATE evaluates its WHERE on the committed row, waits for a row lock, and
evaluates it anew afterwards; a unique INSERT waits for an uncommitted equal
entry; a TypeORM join leaves soft-deleted rows out; a `null` in a TypeORM
`where` is dropped (so clearing a president asks for any user at all);
jsonwebtoken rejects a token from the second of its `exp` on, and signs whole
seconds.

Two constants stand for facts about the schema that differ between its two
descriptions: `StampsNullable` (may `used_at` and its siblings of
`one_time_keys` be left out of an INSERT) and `UniquePresident` (is there
UNIQUE(`clubs.president_id`)). `sql.ddl` says yes and no, `BaselineSchema` no
and yes, and BaselineSchema changes nothing where the tables exist already, so
the two facts vary independently. Properties are stated under the one they need.

Abstractions. Names, texts, colours, tags, passwords and the name claim of
tokens influence no control flow that the properties see; a wrong password or
a rejected text is an `Abort`, `Fail` or refusal that may always happen.
Of the texts of a schedule patch only whether any is given matters (`texts` of
an update form): a patch of texts alone is accepted, an empty one is not.
A login id or a phone is a model value and the phone is taken as normalised.
Dates are small integers, except in `SeoulTime` and `Banners`, where an instant
is an hour and a date is what the regular expressions split it into; minutes
and seconds take the same path as hours. `UpdateUserDto.refresh_token` (an
administrator may write the column directly) is left out. An image or a report
is named by the request that wrote it, since `randomUUID` and the sequence of
ids never repeat. The two `new Date()` of `auth.service.ts:266` and `:267` are one
instant.

`icon_url` is written by the upload and also by the body of `POST /v1/clubs` and
`PUT /v1/clubs/:id`, which takes any string. A URL the server issued is modelled
by the request that uploaded its image, every other string by a value of `Url`
that is none of them. Nothing checks such a string, so of other links nothing is
claimed; `IconsExist` is about issued URLs, which a body can only repeat once
the image is there, because it ends in a random UUID (`Known` in `Content`).

`Deploy` takes run n to bring release n and environment n; a release is `dist`
with `package.json`, `yarn.lock` and the pm2 configuration, and `node_modules`
follows them. `cp`, `rm -r` and `tar` may be seen half done (`Underway`). The
migrations of a release are one transaction, hence `Migrate` is one step.
Repairs by hand are not modelled: a run finds what the last one left.

The commands of a step are a here-document that ssh feeds to a bash on the
server without a terminal. When the connection is lost the step fails and the
rollback starts, and when the run is cancelled the ssh of the runner ends, but
in neither case does the bash get a signal. So `Fail` and `Cancel` may leave the
script in `left`, from where it takes the same steps as a current run, beside
the rollback and later runs, until it comes to its end, a command of it fails or
the server ends it (`Stop`). `upset` records that such a script has acted:
`unwatched` if it is one of the current run, `overlapped` if one of an earlier
run. A file two scripts write at once is `Torn` when either saw the other's
half; that a finer mixture could be complete by chance is not modelled. The
properties name the cases they except, and the leftover scripts are really among
them: a rollback that has put the environment back while the script of its run
goes on to replace `dist` ends as `envRestored` with another release.

## 3. Runs

| run | instance | shows |
|---|---|---|
| `registration_race` | 1 key, 3 requests (two interchangeable), 5 bodies, clock 0..2, lifetime 1, no unique constraint | `OneClubPerKey`, `KeySpentIffClub`, `AllOrNothing`, `UsedBeforeExpiry`, `RefusalIsJustified`, and `RegisterInOneStep`: the refinement of `OneShotRegistration` |
| `registration_unique` | 2 keys, 2 requests, bodies that name the same president, unique constraint, fair handlers | `OneClubPerPresident` and the liveness property `EveryFormIsAnswered` |
| `registration_baseline` | the schema of BaselineSchema | violates `IssuingSucceeds` |
| `directory_races` | empty database, or one administrator presiding a club and a system account; 3 concurrent requests out of 24 bodies | in every order `BootstrapStaysClosed`, `SystemAccountsUntouched`, `DeletedIsFinal`; that nothing but an overtaken request breaks what it has checked: `AccountsClashByRaceOnly`, `PeriodsReversedByRaceOnly`, `RemovedUserWrittenByRaceOnly`; as long as no two requests overlap `PresidentsAreLive` |
| `directory_president` | an update that names a president, and that user's removal | violates `NoDeletedPresident` |
| `sessions_changes` | 1 president, 2 clubs, 3 calls of which 2 at once, 1 change of user or club, clock 0..2, lifetimes 1 and 2 | `DeletedUserStaysOut`, `PresidedClubIsAccepted`, `LoggedOutStaysOut` |
| `sessions_logout_race` | the same without changes | violates `LogoutEndsSession` |
| `content_writes` | an administrator, a president, 2 clubs of which one is vacant, a report; 2 concurrent requests out of 17 bodies with tokens of the past; 2 changes of users and clubs out of 6, one after the other, that write a link or an issued URL, too | `WritesArePermitted`, `RemovedOnce`, `RemovedStaysRemoved`, `IconsExist` |
| `schedules_races` | 2 clubs, a club's and a common schedule, 3 requests out of 18 bodies, both clubs may be deleted | `AnsweredMeansWritten`, `OnlyGivenFieldsChange`, `ReversedByRaceOnly`, `SchedulesChangeInOneStep`: the refinement of `OneStepSchedules`; `PublicViewsAgree`, `OnlyReversedIsMissed` |
| `banners_calendar` | one banner, 2 requests out of 26 bodies, 5 hours to start from, 4 hours to pass | `RefusesExactlyInvalid`, `StartsInSeoul`, `MonthHoldsNow`, `ListIsAsOfArrival`, `AnsweredUpdateWasWritten`, `RemovedIsFrozen` |
| `deploy_runs` | a fresh server, or one with a complete release; 3 runs, 2 processes, 1 script that runs on at a time, beside the first two runs, at most 4 - n kinds of trouble by run n | `TypeOK`, `FoundReleaseKept`, `FailureRestores`, `SuccessMeansRunning`, `SchemaNotBehind`, `RunningPairsMatch` |
| `deploy_env_backup` | the same with 2 runs | violates `PreviousEnvRestored` |

Where a theorem proves a type invariant for all values of the constants, or
that rows stay as their deletion left them (`DeletedIsFrozen` and
`RemovedIsGone` of schedules, which the refinement implies,
`DeletedClubKeepsIcon`), no run repeats it; the `TypeOK` of `Deploy` says more
than types (an environment file never disappears) and is checked as well.

Bounds. `MaxClock`, `MaxUsers`, `MaxClubs`, `MaxSchedules`, `MaxReports`,
`MaxBanners`, `MaxDate`, `MaxTicks`, `MaxConcurrent`, `MaxCalls`, `MaxRuns` and
`MaxLeft` bound the state. Three requests are what the
properties need: two that race and one that comes afterwards (a retry with the
key given back, an anonymous creation after the removal of all users, a
refresh after login and logout). The tables have room for the rows those
requests can insert, except that a second new club may find `MaxClubs` reached
and wait, which hides no step of another kind. The bodies hold for each check
of the code one that passes it and one that fails. The clock reaches the
instants before, at and after an expiry. The dates of `banners_calendar` are
the first and last days of months and years, leap days of years that are leap
years for each of the three rules and of years that are not, dates that do not
exist, and the years 0, 99, 100 and 9999; its clock crosses the turn of a year,
of February with and without a leap day, and of a month. Three deployments are
a good one, one that fails or is cancelled, and one that finds what it left;
two processes are enough for one to run something else than the other.
`deploy_runs` keeps to states with few kinds of trouble in `upset` at once, fewer
the more runs there are (`FewTroubles`): three in one run, two in two, one in
three, and no script that runs on beside a third run. Each kind alone meets two
runs and what the third one makes of it, each pair two, and the theorems know
no such bound.
`content_writes` changes the directory one request at a time, so that a removed
user does not become a president (see section 4). `registration_race` leaves the unique
constraint out, so that its waiting does not hide interleavings;
`registration_unique` puts it in. Requests stand for themselves and are used
once; runs end when all are served, hence deadlock is not checked (a request
that waits forever would be found by `EveryFormIsAnswered`).

Fairness. Only `EveryFormIsAnswered` needs it: WF of `Serve(r)` for each
request, that is, Node continues a handler whose statement was answered, and
PostgreSQL answers a statement that can proceed. Nothing forces clients to
submit, administrators to issue keys, or the clock to advance. Weak fairness
is enough although requests wait for locks: a lock is released by its holder's
own fair steps, and a waiter that is overtaken is refused by the row the winner
left. The cycle that could spoil it, key row held while waiting for an index
entry, does not close, since index entries come after key rows in every
transaction and a transaction takes one of each.

## 4. What the violation runs show

* `registration_baseline`: on a database built by the migrations, issuing a key
  fails, because the INSERT leaves out columns that are NOT NULL there.
* `directory_president`: a president check before, or an unlinking before, the
  other request's write leaves a live club with a deleted president.
* `sessions_logout_race`: a refresh that compared its token before the logout
  stores a new token after it. `LoggedOutStaysOut` in `sessions_changes` says
  that this is the only way.
* `deploy_env_backup`: the marker that tells the rollback to put `.env.bak` back
  is set before the copy that fills it. When that copy fails, the environment
  file is untouched, yet the rollback moves an older or a half written backup in
  its place, where `docs/deployment.md` (lines 121 and 187) says that the
  previous file is restored. `FailureRestores` in `deploy_runs` says that besides
  a failed copy only a script that acts after its connection was lost, or after
  its run was cancelled, keeps a rollback that ended well from having restored
  everything.

Others of the same kind are visible in the modules and have no run of their
own: two first administrators; two users with one login id or phone (look,
then insert, with no unique index); an update of a user deleted meanwhile
(`userRepository.update(id, ...)` asks for nothing but the id); two updates of
a club's period that are each valid and leave a reversed one
(`AccountsClashByRaceOnly`, `RemovedUserWrittenByRaceOnly` and
`PeriodsReversedByRaceOnly` say exactly when); the same of schedules
(`ReversedByRaceOnly` says exactly when); one refresh token exchanged twice at
once; one user presiding two clubs where the unique constraint is missing; a
second issue when feedback is sent again after a lost reply; a deployment
that fails after it has succeeded, when the reply of its last ssh is lost and
the markers are gone; a deployment that is rolled back or cancelled and replaces
the release nevertheless, by a script whose connection is gone.

## 5. Proofs

The theorems hold for every value of the constants that satisfies the named
assumptions (`ConstantsAssumption`, `TablesAssumption`, `SessionsAssumption`,
`ContentAssumption`, `SchedulesAssumption`, `BannersAssumption`,
`DeployAssumption`), which say that model values are distinct, bodies are
bodies and bounds are numbers. TLC evaluates the assumptions in each run. Some
theorems assume besides that the tables are in order when the model starts
(`Constrained`, `Orderly`, `StartsOrdered`) or that the unique constraint is
there; they say so in their statement.

`Registration_proofs`. None of the properties is inductive: that a key makes
one club depends on who holds its row. The invariant `IInv` adds

* `OneLockHolder`: a row lock has one holder;
* `LockedKeyIsOpen`: while it is held the committed row is stored, unused and
  was alive at the holder's instant, so no second request can consume it and
  no expiry is overlooked;
* `RowsAreCommitted`: clubs and new accounts are exactly those of requests
  that are done;
* `SpentIffDone`, `OneDonePerKey`, `UsedIsStored`: used keys and finished
  requests correspond one to one;
* `AccountPlaces`: only bodies with an account reach the account's statements.

`PresidentsHaveOneClub` needs one more, `Reserved`: a request whose club is
inserted and not committed holds the index entry of its president, so no
committed club and no other such request has that president. It assumes the
unique constraint.

From `IInv` follow `TypeCorrect`, `KeyMakesOneClub`, `KeyIsNeverLost`, `Atomicity`,
`ExpiryIsRespected`, the action property `RefusalsAreJustified`, and
`Refinement`: `Commit` maps to the abstract `Register`, issuing to `Issue`, and
all other statements to stuttering.

`ClubSchedules_proofs`. The UPDATE's count is never examined, so the truth of
an answer rests on the second read. `IInv` adds `RightPlaces`, `ReadRowStays`
(a row once read exists for ever and stays in its club) and `MissedIsDeleted`
(an UPDATE that missed its row missed it because it was deleted; hence the
second read misses it too). This gives `TypeCorrect`, `AnswersAreTrue`,
`RemovalIsTrue`, and the action properties `DeletionIsFinal` and
`NoLostUpdate`. `ReversalNeedsARace` needs besides that what was validated
stays validated until it is written (`ValidatedBeforeWriting`).

`Refinement` shows that the statements implement `OneStepSchedules`. A request
counts as served when its UPDATE found the row (history variable `wrote`) or
its INSERT is done, and as answered when its handler is done. `Insert` maps to
an `Effect` that is answered at once, `Submit` to `Ask`, the second read to
`Answer` or to nothing. The UPDATE has three images: if it finds its row, an
`Effect`, answered at once for a removal; if it misses, for a removal the
`Answer` that `Removed` allows (`ReadRowStays` says that only a deletion can
have come in between), and for a patch a stutter. Besides `IInv` and
`Validated` the proof needs `NothingYet`, that a handler has not written before
its UPDATE, so that no request is served twice. The abstract specification
does not promise that a patch keeps the period in order together with what
another one wrote; the handlers do not, either.

`PublicViewsAreTheSame` and
`OnlyReversedGetLost` are about the four list queries and the month of the
dashboard, and follow from the type of a stored row.

`Directory_proofs`. `Sound` adds to `TypeOK` that a request that has read a row
finds it still there, since rows are never removed. Every write is then a step
of one row (`UserRows`, `ClubRows`), and `SystemAccountsAreUntouched` and
`DeletionIsFinal` need no more: the WHERE of each UPDATE decides.
`BootstrapIsOver` rests on `Anonymous`: who passed the guard without a token
arrived at an empty table, and once there is a row nobody passes it.
With the unique constraint a user presides one club (`OneClubEachAlways`, which
needs `References`, that presidents are rows that exist, so that a user just
inserted presides nothing yet); it is a lemma, since it repeats the constraint,
and `Sessions_proofs` uses it.

`Serial_proofs`. A check and the write that relies on it are two statements, so
whether the write does harm depends on what has happened in between. Three
invariants say, per request, that what it has found still holds or else who has
undone it, a request that it has met and that has been answered since:
`ValueFree` of the login id and the phone it gives (theorem
`AccountsClashOnlyInRaces`), `PeriodFits` of the period of its club
(`PeriodsReverseOnlyInRaces`), `TargetLives` of the user it updates
(`RemovedUserWrittenOnlyInRaces`). Each rests on `Together`, that requests in
flight have met, and on what a step does to a value of a row (`FieldSteps`,
`PeriodSteps`, `LivesEnd`). They assume nothing of the tables at the start.
`PresidentsStayLive` is about requests that do not overlap: the invariant
`Serial` says that the one request in flight finds the user unlinked and the
president live at its write. A request cut off in between leaves the presidents
as they should be, which is the point of the theorem; it assumes that they are
so at the start (`Orderly`).

`Sessions_proofs`. All that holds of `Directory` holds here, because the calls
leave its tables alone (`DirectoryKept`). `InHand` says which row, token and
claims a call has at each statement, `StaysOut` that a call that arrived after
its user's removal never gets past the first read, `Overtaken` that only a
refresh that had compared its token before a logout is still on its way after it. They give
`SessionsTypeCorrect`, `DeletedUserIsOut`, `LoggedOutIsOut`; with the unique
constraint `PresidentIsAccepted`.

`Content_proofs`. `Behind(w)` keeps what a request has done before it gets where
it is; an icon about to be stored was uploaded. The one write of this module to
the tables of `Directory` is that of an icon (`IconStored`), so what holds of the
directory goes on holding (`SoundKept`, `SerialKept`). `IconsExist` is inductive
with the same said of the bodies in flight (`UrlsExist`), since a request of the
directory leaves an icon as it was, or writes that of its body (`IconFromBody`). For `WritesWerePermitted`,
`Entitled(w)` says that a request that passed a guard was entitled to its club
at that moment; the step from the two reads, which see two states of the
tables, to one moment is where `Serial_proofs` is needed: a president who is
found in a club is live while requests do not overlap.

`Banners_proofs`. Per request: where its kind can be (`Doing`), an UPDATE that
found its row left one (`Found`), a list's answer against the rows nobody wrote
to since (`Listed`), and an answer of nothing means removed (`Answered`); for
these an instant is an integer. The calendar is a part of its own. `Date` finds
the year of a day by looking at three years around day * 400 / 146097: every
year begins within a day and a half of its mean (`MeanYear`), so the right one
is among them (`SomeYear`) and there is no second (`OneYear`). With the table of
months (`MonthLength`, `MonthsInOrder`) a day has one year, month and day of
month, and each date of the calendar comes back from its day (`DayOfDate`).
Hence `ValidIsCalendar`: the comparison in `assertValidDateParts` lets through
the dates of the calendar and no others (a day that runs over comes back in the
next month, a year of two digits in another century), and instants are ordered
as the written parts are (`PeriodIsOrdered`). `RefusalIsExact`,
`StartsAsWritten` and `MonthIsThePresent` follow with `Decided`, which carries
the decision about a body to the end of its request. The last one assumes that
the clock stays before the year 9999 (`FourDigits`): in its December the next
month would be written with five digits, which the pattern refuses.

`Deploy_proofs`. What a command may rely on is what those before it left, so the
invariant says for each place of a run which files are the run's, which are
those it found, and which markers are set. It comes in three parts. Whatever
leftover scripts do, nothing is of a run that has not begun (`Begun`), and a run
has at most one script besides its rollback (`OneScript`). Unless one of an
earlier run acts, `ReleaseKept` says that the release that was found is in place
until a script of the run removes it and in the backup from then on, which holds
also when that script runs on beside the rollback, and `RunAt` what a run has
done so far. Unless any leftover script acts, `RollbackAt` says what a rollback
starts from and has restored, and `FoundPairs` carries pairs of release and
environment over to the next run.

Only model-checked: `EveryFormIsAnswered`, since liveness is out of the prover's
reach. All other properties of the passing runs are theorems.

## 6. Not modelled

* Phone normalisation: a pure function of strings, character by character; the
  modules take normalised phones.
* Validation of bodies, response envelopes, mappers, health check, wiring: no
  state. That validation may refuse a request is part of `Abort`, `Fail`, `Break`.
* Filters by name, category, type and free text, and the counts of the
  dashboard other than that of the month: single reads that change nothing.
* `ClubReportsService.remove(id)`, which no route calls.
* The permission table of `Directory` and `ClubSchedules`: their requests are
  those that passed `RoleGuard`; stale claims are the subject of `Sessions` and
  `Content`, whose guards are the same code.
* Migrations other than the two differences named above: they run once, in
  order, before the application. The jobs of the workflows that only verify and
  build; the external health check's number of attempts.
* Maintenance scripts (backup, copy of production to development, checks of the
  documents): sequential, started by hand, and nothing else depends on their
  intermediate states.

## 7. Plan

What is left, by importance:

1. Guards in front of the handlers of `Directory` and `ClubSchedules`, so that
   claims may get stale between guard and handler there as well.
2. Phone normalisation over sequences of character classes, against a
   reference definition.
3. The migrations as steps over the schema, composed with `Deploy`: what a
   process of the old release does between `Migrate` and `Reload`, as with
   MakeClubScheduleClubNullable.
