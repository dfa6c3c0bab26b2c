# c8y-data-service: a verification project in TLA+

The data service exports measurements from Cumulocity.  A core service sends it
tasks over RabbitMQ; the data service schedules them as jobs of agenda (documents
in MongoDB), downloads measurements window by window, stores them as CSV files in
min.io, moves and deletes files on request, uploads files to CKAN, and answers
with status messages.  This directory holds TLA+ modules of that behaviour, TLC
configurations that check them on small instances, and proofs that the TLA+ proof
system checks.  `PROJECT.json` lists the components, the runs, the hazards with
the properties that are about them, the theorems, and for every definition the
source lines it models.

## 1. Inventory

| Component (under `src/src`) | State it keeps | Operations | Modelled in |
|---|---|---|---|
| fetch period (`core/jobs/handlers/data-fetch.job.handler.ts`, `getFetchPeriodData`) | none | a period from the payload and the clock | `FetchPeriod` |
| agenda (external; `jobs.service.ts`, `application-config.service.ts`) | job documents: `disabled`, `lockedAt`, `nextRunAt`, payload | lock, lock expiry, `job.save()`, `saveJobState` | `JobDocument` |
| data-fetch jobs (`jobs.service.ts`, `jobs.runner.ts`, `data-fetch.job.handler.ts`) | the in-memory copy of a run, its period, its results | schedule, refuse, run, store, save, report, fail | `DataFetchJobs` |
| task modes (`setDisabledStatus`, `handleTaskModeMessage`) | copies of the documents found | enable, disable, confirm | `DataFetchJobs`, `MessageIntake` |
| object store (`core/file-storage`) | two buckets of objects | save, stat, move, remove | `FileStorage` |
| visibility and deletion of files (`visibilitystate-change-job.handler.ts`, `messages-handler.service.ts`) | visibility jobs, the message in hand | schedule, move, answer, remove | `FileStorage` |
| upload (`data-upload.job.handler.ts`, `core/ckan`) | groups, packages and resources in CKAN | create each, open the stored file | `DataUpload` |
| message consumers (`core/messages`) | four queues with `prefetchCount` 1 | consume, acknowledge, stall, redeliver | `MessageIntake` (users, tasks, modes), `FileStorage` (files) |
| message producer | none | publish | sets of sent messages |
| users (`core/users`) | users and credentials | upsert, delete, look up | `MessageIntake`; a failing look-up in `DataFetchJobs` |
| paged download (`core/cumulocity/download.service.ts` and the two services that extend it) | the page that came last, the pages handled | fetch a page, hand it on | `PagedDownload` |
| object sync (`object-sync.job.handler.ts`) | the entries of the page, the count of entries | look up fragments, read children, report a page | `ObjectSync` |
| CSV writer (`core/cumulocity/filewriter`) | columns, the last row, two local files | write rows, close; store and delete by the run | `CsvFiles` |
| configuration, modules, bootstrap | none of its own | wiring | not modelled |

How they interact.  A message handler runs one message per queue at a time, but
the four queues, the runs of agenda and the shutdown hook interleave at every
`await`.  They share job documents (each actor reads a whole document and later
writes it back), objects in min.io (each actor makes several calls that nothing
ties together) and names in CKAN.  Nothing in the service takes a lock other than
agenda's `lockedAt`, which expires after ten minutes.

What is hard here: lost updates between whole-document saves; locks that expire
under a run; kills between two calls of different systems (object store, database,
message broker); look-ups whose answer is used a call later; messages that are
delivered again, and a queue that stands because its error handler neither
acknowledges nor rejects.  `PROJECT.json` lists each of these at its line.

What makes each component correct: no instant of the requested range is skipped or
passed without its result being on its way (fetch); one run at a time, and an
answer for every task (jobs); a disabled task stays disabled (modes); a stored
file is kept, is where the server was told, is public only on request and is gone
after its deletion (files); DONE means that every file is in CKAN once, and an
unfinished package is never silent (upload); a download that completes has what
was listed when it began, and a sync that is done reported it (paging, sync); the
file stored for a sensor has its own rows under the right columns (CSV writer);
users are what their messages say, a task has one outcome, and a mode that was
confirmed holds unless a run that held another flag saves it back (message consumers).

## 2. Modules

**`FetchPeriod`** translates `getFetchPeriodData` and `getFetchPossibility` to
functions of a payload record and the clock.  Dates are integers, `None` is an
absent field.

**`JobDocument`** holds what the service relies on in agenda: which document is
due, which lock has expired, what `save()` and `saveJobState` write.  A field the
in-memory copy does not have (`Absent`) keeps its stored value; this is why a job
that was never disabled is not disturbed by a stale copy and one that was is.

**`DataFetchJobs`** is the core.  `db[j]` is the stored document, `runs[w]` a run
with its own `copy`, `mode` the mode message in hand with its `copies`.  One
action is the code between two awaits on which another actor's step can matter:
`LockDue`/`LockExpired` → `Start` → `Download` → `StoreFile` (once per sensor) →
`SaveProgress` → `Report` → `Finish`; `Postpone` for a period that cannot be
fetched yet, `Fail` for every throw of the handler, `SaveUnanswered` for a save of the
job that took effect but was answered with an error, `ModeReceive` → `ModeFind` →
`ModeSave` (once per job) → `ModeReply`; `Crash`, `Shutdown`, `Exit`, `Tick`.
`stored`, `rejected`, `reported` and `lost` record what happened (`lost` has the results
that a kill or such an answer kept from being sent); `disturbed[j]`
records that a lock expired under a run of `j` or that a mode message rewrote its
document, so that a property can say exactly which guarantees depend on that.

**`FetchTask`** is what one fetch task promises, without jobs, locks or copies: a
cursor that never moves back, windows that are settled (every sensor stored or
rejected) before the cursor passes them, and results only for settled windows.
`DataFetchJobs` implements it for every job (`DeliversWindowByWindow`): the cursor is
the stored `currentDateFrom`, a delivery is a result sent, and only in a job that a
mode message or an overrun disturbed may the cursor be set back.

**`FileStorage`** follows each file to its bucket and path, where `DataFetchJobs`
keeps only that it was stored.  `SaveBegin` → `SaveStat` → `Put` → `ReportFile` is
`saveFileToBucket` in a run; `Lock` → `MoveStat` → `MoveCopy` → `MoveRemove` →
`Answer` → `Finish` is a visibility job with the three calls of `moveObject`;
`AskVisibility`/`AskDeletion` → `ScheduleMove`/`RemoveFrom` → `Acknowledge` is the
`file.status` queue, which `HandlerFails` and `RemoveFails` (a removal that had an effect)
stall and `Crash` delivers again; a state that is neither PUBLIC nor PRIVATE fails its move.
`known[f]` is where the server was last told that `f` is, and what its next
request names.  `disturbed[f]` records what crossed the handling of `f`: two runs
moving it at once ("overlap"), a request made while an earlier one was unfinished
("hasty"), a move cut short by a crash or a failed call ("interrupted"), another
file reached by its path or put or copied over it ("clash").

**`FileCustody`** is what is promised for a file, without calls, jobs, movers and queues:
it is put once, in the private bucket; copied, to the same path of a bucket that was
asked for, before it is given up where it was; told of at its only place; and removed
altogether only after its deletion was asked for.  `FileStorage` implements it for every
file (`IsCustody`): `places` are the buckets and paths that hold the file, `told` is
`known`, and nothing is said of a file whose handling was `Crossed`.

**`DataUpload`** is the loop of the upload handler, one request of CKAN or of the
store per action, with the repeated runs that crashes and expired locks bring.
`GroupUnread` is an answer to the look-up of a group that is not ok but can be read:
`findGroup` takes it for a group that is missing, and the handler goes on to create it.

**`PagedDownload`** is the loop of `fetchData` over a listing that the server pages
by position: `FetchPage`/`UndefinedPage`/`FetchFails` → `HandlePage`/`HandleFails` →
… → `Close`.  `ItemAdded` and `ItemRemoved` change the listing between two pages;
`first`, `shifted` and `truncated` record what a property must know of that: the
items listed at the first page, how many were added and removed since, and whether the
client gave no page where there was to be one, the first included.

**`ObjectSync`** composes the download with its page handler: each of its actions
is a call of `handlePageResult` (`MapSensors`, `MapChild`, `ChildFails`, `MapGroup`,
`SendPage`), a step of the job around it, or a step of the download, whose properties
therefore hold of a sync as they are.  The detail of a child and its fragments are two
requests of the code and one step here, as nothing but the listing moves in between.

**`CsvFiles`** is the file side of a data-fetch run.  Each download has a `CSVWriter`:
`Open` → `WriteRow`… → `BeginCopy` → `Copy` → `Unlink`; the run goes on when all have
settled (`AllSettled`) and then stores and deletes the final files one by one.  Paths
lead to inodes and a stream keeps the inode it opened, so that writers of one name do to
each other what they would do on a disk.  `Added` is what `extractRowData` does to the
set of columns: those of a measurement that are new go behind the others.  A cell is the
number of the measurement its value is from.  `clashed` records the downloads that had
their files while another of the same name had: two sensors of a task, or a run and its
overrun.

**`MessageIntake`** has the queues of users, scheduled tasks and modes, each as the log
of what was sent to it and the number acknowledged; the consumer of a queue is ready
for the next message, has handled it, or stands (`stalled`) because its handler threw.
`SetDisabledStatus` → `SaveModes` → `SendTaskModeMessage` is the mode handler between
its awaits; `ScheduleTask` and `FailTask` are the two outcomes of a task, and a message
whose body is `null` has neither (`TaskMessageThrows`); `Crash` gives unacknowledged
messages again.  Of a run it has what the run does to the flag of a document: `Lock` takes
a copy of it, `SaveRun` saves that copy's flag back over whatever was set since (a copy
without a flag leaves the stored one alone), `CompleteJob` disables the job, `FailRun`
saves nothing.  `stale` records the tasks whose mode was set while a run held another
flag, `completed` the documents that a run disabled since their mode was set.  Everything
else about runs is in `DataFetchJobs`, which follows one job; here there are several
tasks, documents and messages.

`MCDataFetchJobs`, `MCFileStorage`, `MCDataUpload`, `MCObjectSync`, `MCCsvFiles` and
`MCMessageIntake` define the instances for TLC.  `DataFetchJobsProofs`,
`DataFetchLocksProofs`, `DataFetchTaskProofs` (each extends the one before),
`FileStorageProofs`, `DataUploadProofs`, `ObjectSyncProofs` (with those of
`PagedDownload`), `CsvFilesProofs` and `MessageIntakeProofs` hold the proofs.
Definitions whose comment begins with "Mutant" are variants of the definition below
them, with a plausible bug; each property is known to fail for one of them.

## 3. Runs

| Run | Instance | What it shows |
|---|---|---|
| `fetch_windows` | 1 job, 2 workers, 2 sensors, lock lifetime 2, clock to 4, 2 crashes or shutdowns, 1 fault; seven kinds of task, with two, one, endless, future or no windows | no gap, nothing passed untold, exact results; the job implements `FetchTask` |
| `fetch_modes` | 1 job, 2 workers, 1 sensor, lock lifetime 2, clock to 3, 1 message that disables, 1 crash or shutdown, 1 fault; two windows of which one is over, or none | one run at a time unless a lock expired or a mode message rewrote the document; DONE is final; no stranded job; every task is answered or was disabled |
| `fetch_disabled` (violation) | 2 mode messages | a running job undoes its own disabling |
| `fetch_future` (violation) | a period in the future | DONE without data |
| `files_moves` | 2 files of one name, 2 jobs, 2 movers, 2 messages, 1 crash, 1 fault, 1 overrun | files are not lost, known, not exposed, gone when deleted; the store implements `FileCustody` |
| `files_live` | 2 files of one name, 1 save at a time, PUBLIC only, 1 job, 2 movers, 2 messages, the same failures | a save takes a free path while no call has failed; every move is answered |
| `files_race` (violation) | 2 saves of one name at once | a save replaces a file |
| `upload` | 3 tasks, 4 files, 2 names, 1 group, 2 workers, 1 of each failure | DONE is uploaded, one resource per package, half packages reported, one answer, all answered |
| `upload_group` (violation) | 2 tasks of one group, no failures | a run fails because its group exists |
| `object_sync` | 4 objects in pages of 2, of them a group with a device and a group in it; 1 object added, 2 removed, 1 paging fault, 1 failing call, 1 kill | completed downloads miss no more than was removed and repeat no more than was added, DONE gives the amount that was reported, done is complete but for as many as were removed, every sync is answered |
| `csv` | 2 runs of 2 sensors with own or shared names; files of 2, 1 and 1 measurements and a download with a null; 1 crash, 1 fault | the stored file is the download's own, cells are under their columns, failures and leftovers have a cause |
| `intake` | 3 messages in all, of 4 kinds about users, 5 about tasks and 2 about modes; 1 run at a time, 2 crashes, 1 fault | users follow their messages, one outcome per task, confirmed modes hold beside the runs of the jobs unless a run held another flag, queues move on |

Bounds and why they are enough.  The jobs of `DataFetchJobs` share nothing but the
workers and the mode message, so one job with two workers has every interleaving of two
runs, and two runs are what a lost update takes; two windows and a clock of four
instants hold a window in the past, the one in progress and the one in the future, and
a lock that expires once under a run and once after a crash.  One fault and one crash
in one behaviour reach every step between which they can fall.  In `FileStorage` two
jobs and two movers are two moves of one file at once; two files are what a name or a
deletion message can confuse, and two messages move a file there and back, or move it
and delete it.  In `DataUpload` one task with two files has a file behind the one that
fails, and two tasks compete for a group and a name.  In `ObjectSync` two full pages
and one item more have every way in which a change moves items across a page border,
makes a page more or empties the last one; two removals and an addition cross it in
both directions in one download.  In `CsvFiles` two runs of two sensors are
enough for any two writers of one name, in one run or in two; the measurements bring a
column late, leave one out and make a short file after a longer one.  In
`MessageIntake` three messages in all are a user that is made, changed and deleted, or a
task that is enabled and then disabled while a run of it is in progress, or two tasks
and a mode.  Every bound is a constant whose name
begins with `Max`, and the proofs hold for all of them; the clock is the only bound
that stops the system, which is why deadlock is not checked.  `LockCanStillExpire`
keeps a lock that will be needed within the clock.

Fairness.  `Fairness` asks weak fairness of what the Node event loop and agenda's
polling do: a step of a run that is ready, the locking of a due job or of one whose lock
expired, the exit of a process that is stopping, the clock.  Nothing is asked of
messages, failures, crashes, or of a queue that stalled: no code restarts the service,
so `EveryMoveAnswered` speaks of jobs that were scheduled and not of messages that were
sent, and `QueuesMoveOn` leaves out a queue that stands.  A download ends because the
listing grows a bounded number of times (`MaxAdded`); the code itself has no limit, as
no caller sets `maxPages`.

## 4. Disagreements found

1. `fetch_disabled`: a job that carries an explicit flag, because it was enabled by an
   earlier message, and is disabled while one of its runs is in progress is enabled
   again by `job.save()` in the handler (`data-fetch.job.handler.ts:176`, and line 101
   when nothing can be fetched yet) after the service confirmed the opposite;
   `jobs.service.ts:247` says it "stops from being scheduled again".
2. `fetch_future`: a last window, or a single task, whose start lies in the future is
   reported as DONE without data; the test at `data-fetch.job.handler.spec.ts:333`
   is named "waits for next sync cycle when trying to fetch from the future", stands
   among those of periodic tasks and covers only a window that is not the last.  The
   trace of the run is a task with a single period.
3. `files_race`: `saveFileToBucket` promises a new name for a name that exists
   (`file-storage.service.ts:21`), but looks up and puts in two calls.
4. `upload_group`: `createGroupIfNeeded` promises not to create a group that exists
   (`data-upload.job.handler.ts:97`), and fails when another run creates it in
   between.

Seen while modelling, and not runs of their own:

- `handleUserMessage` tests for an id that could not be converted
  (`messages-handler.service.ts:38`) after `idToObjectID`, which throws for it
  (`helpers.ts:37`): such a message is not skipped with a warning but stops the queue of
  users, again after each restart (`UserMessageThrows`; `QueuesMoveOn` names the case).
- `addCustomAttributesToExtras` calls itself as `this.addCustomAttributesToExtras`
  (`helpers.ts:138`) in a function that is not a method: nested attributes throw, and
  the upload fails, where its comment says "recursively".
- `setDisabledStatus` confirms a task whose save failed (`unsaved` in `MessageIntake`).
- A task message whose body is `null` makes `Object.keys` throw in the handler of the
  errors themselves (`helpers.ts:95`), so that it stops the queue of tasks
  (`TaskMessageThrows`; `QueuesMoveOn` names the case).
- A task whose window is 0 seconds long delivers one empty window for ever.

The disturbances that the properties of `FileStorage` leave out are real, too:
without the exclusion of "overlap" TLC shows a file that two moves in opposite
directions remove from both buckets; without "interrupted", one that was refused
publication and can be read in public; without "hasty", one that survives its
deletion in the other bucket.  Without `clashed`, `CsvFiles` has a file with the rows of
another run.  In `MessageIntake`, a task was confirmed as disabled but one of its jobs is
live without `repeated`, and without `stale` for the reason of `fetch_disabled`.

## 5. Proofs

Every theorem is of a specification without fairness, for every value of the
constants: any sets of jobs, runs, files, users, columns and messages, any listing
and page size, any bound.  The proofs assume nothing but the named `ASSUME`s of the
modules: bounds are natural numbers, requests are well formed, sensors and files are
finitely many, the fragments and children of objects are what their types say, and
`None`, `Absent` and `Broken` differ from what they stand beside.  TLC evaluates each
of them in the runs of its module.  No theorem has hypotheses of its own.

In each module of proofs the first lemmas say what an action does to each part of the
state (`...Effect`), the next ones that a step keeps each conjunct of the inductive
invariant (`...Next`), and the theorems combine these.

**`DataFetchJobsProofs`**: `TypeCorrect` (`TypeOK`), `NoGap` (`NoGapBeforeCursor`),
`NothingPassedUntold` (`CursorIsReported`), `ReportsExact` (`ReportsAreStored`).
None of the last three properties is inductive: a run that is about to save its copy,
or a mode message that holds an old one, may write any date it has in hand.
The inductive invariant (`FeedInv`) therefore says of *every* copy of a job's document
(stored, in a run, in a mode message) that its date is covered and told; of a run that
is storing, that each sensor is still to be stored, stored, or rejected for exactly its
period; and of a run that is about to report, that its results are stored.  It needs
no lock and no order among the actors: this is why these guarantees survive lost
updates.  Steps that write no date and no file are handled together (`QuietStep`);
`Download`, `StoreFile` and `SaveProgress` are the ones that extend what is covered, and
`FetchPeriod` gives that the next date is the end of the period just fetched.

**`DataFetchLocksProofs`**: `NoJobStranded` (`NoStrandedJob`), `OneRun`
(`OneRunUnlessDisturbed`), `DoneStaysDone` (`DoneIsFinal`).  For the first, `AnswerInv`
says that any copy of a document that agenda would never run again (no lock, no next
run), the stored one or one that a mode message may save, belongs to a job that was
answered, and that a run that takes the next run away answers before it unlocks
(`AnswersWhatEnds`).  For the others, `LockInv` says that a live run of an undisturbed
job holds its lock and has the flag and the date of the stored document in its copy
(`HoldsItsLock`), so that no second run can start and no stale flag is saved, and that a
run has disabled its job by the time it reports the last result (`DisablesTheDone`).

**`DataFetchTaskProofs`**: `ImplementsFetchTask`
(`Spec => DeliversWindowByWindow`), the refinement of `FetchTask`.  Each step of
`DataFetchJobs` is a step of one task (scheduled, a window settled, a result sent, the
cursor set back) or a stutter.  `TaskInv` adds to `FeedInv` and `LockInv` where a cursor
in any copy can stand (`StoodAt`: at an end of a delivered window, or at the start of
a task of which nothing was delivered), that the window a run is storing is the whole
request or one window long (`WindowFits`), and that an undisturbed task stands behind
every window it delivered (`DeliversForward`).  The step that sends a result needs all
three: an undisturbed job never delivers the same window twice.  Windows of 0 seconds
are the one exception, in the code as in `FetchTask` (`Still`): such a task stands still
and delivers the empty window again.

**`FileStorageProofs`**: `TypeCorrect` (`TypeOK`), `Exposed` (`ExposedOnlyOnRequest`),
`FilesKept` (`NoFileLost`), `Located` (`LocationIsKnown`), `Deleted` (`DeletedIsGone`),
`StoreIsCustody` (`Spec => IsCustody`).
`RequestsInv` relates messages, jobs and what was asked for; `RunsInv` says that two
live runs of one file have marked it as overlapped; `SavesInv` that a file has no place
before it is put and one until the server is told.  `KeptInv` has the reason why no
file is lost: a move that has yet to remove has copied to another bucket.  `LocatedInv`
gives the places of an uncrossed file at each point of a move, `DeletedInv` that what
is left of a deleted file lies in a bucket that the message, given again or not, has
yet to clean.  `StoreIsCustody` is the refinement of `FileCustody`: each step is, for
every uncrossed file at once, one of its steps or a stutter.  `StoreInv` puts the
invariants above together with `HeldInv`, that a move about to remove an uncrossed file
removes it from where the server knows it; then the removal gives up the old place and
never the copy.

**`DataUploadProofs`**: `TypeCorrect` (`TypeOK`), `OneResource`
(`OneResourcePerPackage`), `DoneUploaded` (`DoneIsUploaded`), `HalfPackageReported`
(`HalfPackageIsReported`), `OneAnswer` (`OneAnswerUnlessRepeated`).  CKAN's refusal of a
package that exists is what keeps repeated runs apart: `PackagesInv` says that the run
that made a package is the only one about to upload to it, `AnswersInv` that what
lies behind a run is uploaded, and `OnceInv` that a task whose job was not locked again
has one run, without an answer before its end.

**`ObjectSyncProofs`**: `DownloadTyped` (`TypeOK`), `Missed` (`MissedAreRemovals`),
`Repeated` (`RepeatsAreAdditions`), `SyncPages` (hence both hold of a sync),
`SyncTypeCorrect` (`SyncTypeOK`), `Complete` (`SyncIsComplete`), `AmountReported`
(`AmountIsReported`).  `MissedInv` bounds what is lost: of the items listed at first, no
more than were removed neither passed nor lie behind the pages read, and there is a page
to come while any do.  A removal pulls at most one item over the border to the pages
that were read, an addition none.  `RepeatedInv` counts the other way: what was handed
on, what is on the page and what is still to come is no more than the different items
among it and those that were added.  Both are arguments about how an insertion or a
removal moves the positions of a sequence, which the first lemmas (`IsCut` and what
follows) state once.  That a step of a sync is a step of the download or leaves it alone
(`SyncDownloads`) follows from the definitions, and carries both over to a sync.
`ToldInv`
says of a sync that whatever was handed on was told, with the children found so far for
each object still to do.  `AmountReported` compares a counter of the run with a sum
over the messages sent, which the community modules define as a recursive function over
the subsets of the positions.  That this function exists, and that any position may be
taken out of a sum first, would be inductions; the library's induction theorems are out
of the provers' reach, so the lemmas take a smallest finite set for which the claim
fails (`LeastSubset`, from `WFMin`) and find a smaller one.  `AmountAny` is what the
steps use.  `AmountInv` then says that the counter is the sum over the messages of this
run while it runs, and each DONE answer the sum over those of its own: a repeated run
sends under its own number and leaves the earlier sums alone.  `MissedAreRemovals` and
`SyncIsComplete` leave out downloads that an undefined page or the limit of pages
(`MaxPages`, which no caller of the code sets) cut short.

**`CsvFilesProofs`**: `FilesTyped` (`TypeOK`), `StoredOwn` (`StoredIsOwnFile`),
`StoredCells` (`CellsUnderColumns`), `Failures` (`FailureHasCause`), `Leftovers`
(`LeftoverHasCause`).  A download is alone if no other one at work has its name
(`AloneInv`).  A path leads to an inode made for its name (`LinksInv`), so the steps of
other downloads touch other paths and inodes, and the files of one that is alone hold
what its own steps put there (`FilesInv`), whatever was in them before, as opening
empties them.  That the cells stand under their columns (`DataInv`) rests on `Added`
putting new columns behind those that are there, so that the rows already written keep
their meaning when the header grows.  `OwnedInv` names for each local file the
download that accounts for it.

**`MessageIntakeProofs`**: `TypeCorrect` (`TypeOK`), `UsersFollow`
(`UsersFollowMessages`), `OneOutcome` (`OneOutcomePerTask`), `ModeHolds`
(`ConfirmedModeHolds`).  `UsersInv`: the users are what the acknowledged messages say
(`SaidNext`: one message more says one thing more), or those and the one in hand.
`OutcomesInv`: a task has no outcome before its message is handled and one from then on.
`ModeInv` follows a mode message from its reading to its answer: it holds the documents
of every task that can have its mode confirmed, and once they are saved they have it,
or belong to a task that is `unsaved` or `stale`.  A task that is
neither has, while it is disabled, only runs whose copy has no flag (`InMode`), so that
what they save changes nothing but to complete the job.

Only model-checked:

- liveness (`EveryTaskAnswered`, `EveryMoveAnswered`, `EveryUploadAnswered`,
  `EverySyncAnswered`, `QueuesMoveOn`): it needs fairness and `ENABLED`, which the prover
  does not reach;
- `SaveTakesFreePath`: it holds in the instance of `files_live` (one save on its way at
  a time, publications only), which the code does not ensure, so there is no theorem of
  the code to prove; `files_race` has the counterexample without the first;
- the properties of the four violation runs, which do not hold.

## 6. Assumptions about what is not in the repository

- agenda locks by one conditional update and hands the run the document it returned;
  a run whose lock had expired before it began is dropped; `stop()` unlocks jobs that
  have a next run; a single job that failed is not tried again.
- RabbitMQ delivers a message again if the process ends before its acknowledgement,
  and holds further ones back while one is unacknowledged.  Published messages arrive.
- min.io acts on one call at a time; it refuses to copy a missing object, or an
  object onto itself.  A failing call may have taken effect.
- CKAN refuses a group or package name that exists.
- Cumulocity answers a query with the page of the listing as it is at that moment,
  and with the number of pages in each answer; `paging.next()` of its client asks for
  the next page with the same query.

- The file system: a path leads to an inode, opening with `w+` empties the file that is
  there, a stream writes at its own position, and unlinking takes only the path away.
  Local files outlive the process; memory does not.
- MongoDB applies one user call or document save at once; in `MessageIntake` a call
  that fails has no effect.  Mongoose does not set a field that is undefined.

Left out of the modules that follow the rest of a component: the lock of an object sync
that expires under its live run (`application-config.service.ts:32`; the other modules
have it), a page without paging information (`download.service.ts:25`, after which the
download stops), a `fileName` that is the empty string and stays one
(`csv-writer.ts:28`), random `nocolumns_` names that meet, a redelivered upload message
that makes a second job of its task (`MessageIntake` has it, `DataUpload` one job per
task), and modes for upload and sync jobs in `DataUpload` and `ObjectSync`: one that is
disabled is not run and never answered, so `EveryUploadAnswered` and `EverySyncAnswered`
speak of jobs that nobody disabled.  The refusal of an unknown platform is in
`MessageIntake` (`Schedulable`).  `fetch_windows` has no mode messages, and `fetch_modes`
no second sensor; the proofs have both.

Not modelled: the values of measurements and the metadata of packages beyond what the
properties tell apart, credentials of Cumulocity and CKAN, cron patterns (a repeating
job has an interval), days other than one (paths of different days never meet), the
loss of the broker's connection while the process lives (amqplib reconnects; what it
does to handlers in progress is not the repository's code), and the first start, when
queues do not exist yet.  `onModuleInit` makes the buckets at every start; what min.io
answers for a bucket that is there, and so whether a restart gets past it, is not in
the repository: the models assume that a restart succeeds.  Configuration, modules and
bootstrap have no behaviour beyond the values they give.

## 7. Plan

Done: all components with behaviour of their own, as listed in section 1; theorems for
every safety property, action property and refinement that the passing runs check, but
for `SaveTakesFreePath`.

Left:

1. *Extend.* Modes for upload and sync jobs, and the two documents of a redelivered task
   through the windows of their runs: `DataFetchJobs` and `DataUpload` have one document
   per task, and `MessageIntake` of a run only what it does to the flag.
2. *Prove.* The exact outcome of the disturbed cases: which of the marks of
   `FileStorage` ("overlap", "hasty", "interrupted") each property of a file needs to
   leave out, as a lemma for each of the others.

Two hazards remain without a property, as nothing in the repository says what should
happen there: a file copied over another that took its name
(`file-storage.service.ts:119`; such files are marked "clash"), and a page that is
undefined in the middle of a download (`download.service.ts:53`; such downloads are
marked `truncated`).
