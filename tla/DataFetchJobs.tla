---------------------------- MODULE DataFetchJobs ----------------------------
(***************************************************************************)
(* The life of data-fetch jobs: a task message schedules a job, agenda     *)
(* locks it when it is due and runs its handler, the handler downloads one *)
(* window of measurements for every sensor, stores a file per sensor,      *)
(* moves the job's dates one window on and reports the result; meanwhile   *)
(* task-mode messages enable and disable jobs, locks expire, the database  *)
(* fails and the service crashes or is shut down.                          *)
(*                                                                         *)
(* src/core/jobs/jobs.service.ts, runners/jobs.runner.ts,                  *)
(* handlers/data-fetch.job.handler.ts and, for the mode messages,          *)
(* src/core/messages/messages-handler.service.ts.                          *)
(*                                                                         *)
(* Between two awaits the code is atomic; every action below is the code   *)
(* between two awaits on which another actor's step can matter.            *)
(***************************************************************************)
EXTENDS JobDocument, FiniteSets

CONSTANTS Jobs,         \* tasks the server may schedule; one job document each
          Workers,      \* runs the service can have in progress at once
          Sensors,      \* the sensors of a job
          Requests,     \* the task messages that may be sent
          ModeTypes,    \* the mode messages that may be sent
          MaxTime,      \* bound: the clock stops here
          MaxModes,     \* bound: mode messages sent
          MaxCrashes,   \* bound: crashes and shutdowns
          MaxFaults     \* bound: calls to a database, a store or a server that fail

Request == [dateFrom : Maybe(Int), dateTo : Maybe(Int), firstRunAt : Maybe(Int),
            interval : Maybe(Nat \ {0}), window : Maybe(Nat)]

ASSUME RequestsAssumption ==
  /\ Requests \subseteq Request
  /\ \A r \in Requests : r.interval = None => r.window = None
ASSUME SensorsAssumption == IsFiniteSet(Sensors)
ASSUME JobsAssumption == None \notin Jobs
Period == [canFetch : BOOLEAN, nextRunAt : Maybe(Int), from : Int, to : Int,
           nextFrom : Int, nextTo : Int, shouldComplete : BOOLEAN]

(* None is none of the values whose absence it stands for.                 *)
ASSUME AbsenceAssumption == /\ None \notin Request
                            /\ None \notin Period
                            /\ None \notin {"ENABLED", "DISABLED"}
ASSUME ModeTypesAssumption == ModeTypes \subseteq {"ENABLED", "DISABLED"}
ASSUME BoundsAssumption == /\ MaxTime \in Nat
                           /\ MaxModes \in Nat
                           /\ MaxCrashes \in Nat
                           /\ MaxFaults \in Nat

VARIABLES
  now,        \* the wall clock
  request,    \* request[j]: the task message of job j, None before it is sent
  db,         \* db[j]: the document of job j, None before it is scheduled
  service,    \* "up", or "stopping" once its shutdown has begun
  runs,       \* runs[w]: the run in progress in slot w
  mode,       \* the mode message being handled
  stored,     \* files put in the object store
  rejected,   \* downloads that failed
  reported,   \* task status messages sent: results and failures
  lost,       \* results that were saved and never sent
  confirmed,  \* confirmed[j]: the mode the service last confirmed for job j
  disturbed,  \* disturbed[j]: what may have broken the lock of job j
  budget      \* how much of each bound is left

vars == <<now, request, db, service, runs, mode, stored, rejected, reported, lost,
          confirmed, disturbed, budget>>

(* A file, a failed download, or a result on its way: one window of one    *)
(* sensor of one job.                                                      *)
File == [job : Jobs, from : Int, to : Int, sensor : Sensors]

Statuses == {"DONE", "WAITING_NEXT_CYCLE", "FAILED"}

(* A message with a result has the window and the sensors it was fetched   *)
(* for; without one, because nothing was fetched, from and to are None.    *)
StatusMessage == [job : Jobs, status : Statuses, from : Maybe(Int),
                  to : Maybe(Int), sensors : SUBSET Sensors]

NoRun  == [pc |-> "idle", job |-> None, copy |-> None, period |-> None,
           todo |-> {}, results |-> {}]
NoMode == [pc |-> "idle", type |-> None, tasks |-> {},
           copies |-> [j \in Jobs |-> None], todo |-> {}]

Live(w) == runs[w].pc # "idle"

(* getFetchPeriodData's argument, from the run's copy of the document and  *)
(* the parts of the payload that never change.                             *)
Payload(j, copy) == [dateTo          |-> request[j].dateTo,
                     window          |-> request[j].window,
                     currentDateFrom |-> copy.currentDateFrom,
                     currentDateTo   |-> copy.currentDateTo]

PeriodOf(w) == FetchPeriodData(Payload(runs[w].job, runs[w].copy), now)

PeriodMissing(w) == HasNoPeriod(Payload(runs[w].job, runs[w].copy))

Files(j, period, sensors) ==
  {[job |-> j, from |-> period.from, to |-> period.to, sensor |-> s] : s \in sensors}

(* Mutant: the result takes its window from the job after the dates moved. *)
ResultOfMovedJob(run) ==
  [job     |-> run.job,
   status  |-> IF run.period.shouldComplete THEN "DONE" ELSE "WAITING_NEXT_CYCLE",
   from    |-> IF run.period.canFetch THEN run.copy.currentDateFrom ELSE None,
   to      |-> IF run.period.canFetch THEN run.copy.currentDateTo ELSE None,
   sensors |-> run.results]

(* Mutant: the result lists every sensor, downloaded or not.               *)
ResultOfAllSensors(run) ==
  [job     |-> run.job,
   status  |-> IF run.period.shouldComplete THEN "DONE" ELSE "WAITING_NEXT_CYCLE",
   from    |-> IF run.period.canFetch THEN run.period.from ELSE None,
   to      |-> IF run.period.canFetch THEN run.period.to ELSE None,
   sensors |-> IF run.period.canFetch THEN Sensors ELSE {}]

ResultOf(run) ==
  [job     |-> run.job,
   status  |-> IF run.period.shouldComplete THEN "DONE" ELSE "WAITING_NEXT_CYCLE",
   from    |-> IF run.period.canFetch THEN run.period.from ELSE None,
   to      |-> IF run.period.canFetch THEN run.period.to ELSE None,
   sensors |-> run.results]

FailureOf(j) == [job |-> j, status |-> "FAILED", from |-> None, to |-> None,
                 sensors |-> {}]

HasResult(m) == m.from # None

Init ==
  /\ now = 0
  /\ request = [j \in Jobs |-> None]
  /\ db = [j \in Jobs |-> None]
  /\ service = "up"
  /\ runs = [w \in Workers |-> NoRun]
  /\ mode = NoMode
  /\ stored = {}
  /\ rejected = {}
  /\ reported = {}
  /\ lost = {}
  /\ confirmed = [j \in Jobs |-> None]
  /\ disturbed = [j \in Jobs |-> {}]
  /\ budget = [modes |-> MaxModes, crashes |-> MaxCrashes, faults |-> MaxFaults]

Spend(what) == /\ budget[what] > 0
               /\ budget' = [budget EXCEPT ![what] = @ - 1]

(* The bounded clock must leave a lock the time to expire: what makes a    *)
(* job wait for its lock does not happen later than this.                  *)
LockCanStillExpire == now + LockLifetime =< MaxTime
------------------------------------------------------------------------------
(*                         Scheduling a task                               *)

(* Mutant: the check of the starting date is left out.                     *)
AcceptedWithoutStart(r) == r.interval # None => r.window # None

(* A task message that scheduleDataFetchJob accepts.                       *)
Accepted(r) == /\ r.dateFrom # None
               /\ r.interval # None => r.window # None

(* Without firstRunAt a job is due at once.  Agenda lets a repeating job   *)
(* that was given a first run start then or an interval later.             *)
FirstRuns(r) ==
  LET start == IF r.firstRunAt = None THEN now ELSE r.firstRunAt
  IN  IF r.interval = None \/ r.firstRunAt = None
      THEN {start}
      ELSE {start, start + r.interval}

ScheduleJob(j) ==
  /\ request[j] = None
  /\ \E r \in {q \in Requests : Accepted(q)} :
       /\ request' = [request EXCEPT ![j] = r]
       /\ \E first \in FirstRuns(r) :
            db' = [db EXCEPT ![j] = [disabled        |-> Absent,
                                     lockedAt        |-> Absent,
                                     nextRunAt       |-> first,
                                     currentDateFrom |-> r.dateFrom,
                                     currentDateTo   |-> r.dateTo]]
  /\ UNCHANGED <<now, service, runs, mode, stored, rejected, reported, lost, confirmed,
                 disturbed, budget>>

(* The message is refused, or the job cannot be saved: the task is         *)
(* reported as failed and no job exists.                                   *)
RefuseTask(j) ==
  /\ request[j] = None
  /\ \E r \in Requests :
       /\ request' = [request EXCEPT ![j] = r]
       /\ \/ ~Accepted(r) /\ UNCHANGED budget
          \/ Accepted(r) /\ Spend("faults")
  /\ reported' = reported \union {FailureOf(j)}
  /\ UNCHANGED <<now, db, service, runs, mode, stored, rejected, lost, confirmed,
                 disturbed>>
------------------------------------------------------------------------------
(*                     Agenda: locking and the run                         *)

(* Slot w takes the lock of job j and keeps the document as it was then.   *)
TakeLock(w, j) ==
  /\ service = "up"
  /\ ~Live(w)
  /\ db[j].disabled # TRUE
  /\ db' = [db EXCEPT ![j].lockedAt = now]
  /\ runs' = [runs EXCEPT ![w] = [NoRun EXCEPT !.pc = "locked", !.job = j,
                                               !.copy = db'[j]]]
  /\ UNCHANGED <<now, request, service, mode, stored, rejected, reported, lost,
                 confirmed, budget>>

LockDue(w, j) ==
  /\ db[j] # None
  /\ IsDue(db[j], now)
  /\ TakeLock(w, j)
  /\ UNCHANGED disturbed

(* A lock older than its lifetime is taken over, whether or not the run    *)
(* that holds it is still going on.                                        *)
LockExpired(w, j) ==
  /\ db[j] # None
  /\ LockExpiredAt(db[j], now)
  /\ TakeLock(w, j)
  /\ disturbed' = IF \E v \in Workers : Live(v) /\ runs[v].job = j
                  THEN [disturbed EXCEPT ![j] = @ \union {"overrun"}]
                  ELSE disturbed

(* A lock that expired before the run could start is given up.             *)
DropExpired(w) ==
  /\ runs[w].pc = "locked"
  /\ runs[w].copy.lockedAt + LockLifetime < now
  /\ runs' = [runs EXCEPT ![w] = NoRun]
  /\ UNCHANGED <<now, request, db, service, mode, stored, rejected, reported, lost,
                 confirmed, disturbed, budget>>

(* job.run() up to the handler: a repeating job gets its next run, a job   *)
(* that does not repeat gets none; the status PROCESSING is sent.          *)
Start(w) ==
  LET run  == runs[w]
      next == IF request[run.job].interval = None
              THEN None ELSE now + request[run.job].interval
      copy == [run.copy EXCEPT !.nextRunAt = next]
  IN  /\ run.pc = "locked"
      /\ run.copy.lockedAt + LockLifetime >= now
      /\ db' = [db EXCEPT ![run.job] = SaveRunState(@, copy)]
      /\ runs' = [runs EXCEPT ![w].pc = "started", ![w].copy = copy]
      /\ UNCHANGED <<now, request, service, mode, stored, rejected, reported, lost,
                     confirmed, disturbed, budget>>

(* job.run() after the handler, failed or not: the lock is released.       *)
Finish(w) ==
  /\ runs[w].pc = "finish"
  /\ db' = [db EXCEPT ![runs[w].job] =
              SaveRunState(@, [runs[w].copy EXCEPT !.lockedAt = None])]
  /\ runs' = [runs EXCEPT ![w] = NoRun]
  /\ UNCHANGED <<now, request, service, mode, stored, rejected, reported, lost,
                 confirmed, disturbed, budget>>

(* The database refuses the run's state: before the handler the run does   *)
(* not take place, after it the failure is ignored; the lock stays.        *)
RunStateLost(w) ==
  /\ runs[w].pc \in {"locked", "finish"}
  /\ LockCanStillExpire
  /\ Spend("faults")
  /\ runs' = [runs EXCEPT ![w] = NoRun]
  /\ UNCHANGED <<now, request, db, service, mode, stored, rejected, reported, lost,
                 confirmed, disturbed>>
------------------------------------------------------------------------------
(*                       The data-fetch handler                            *)

(* All sensors are downloaded at once; those whose download fails are left *)
(* out and nothing else notices.                                           *)
Download(w) ==
  LET run == runs[w]
      period == PeriodOf(w)
  IN  /\ run.pc = "started"
      /\ ~PeriodMissing(w)
      /\ period.canFetch
      /\ \E fetched \in SUBSET Sensors :
           /\ Cardinality(Sensors \ fetched) =< budget.faults
           /\ budget' = [budget EXCEPT !.faults = @ - Cardinality(Sensors \ fetched)]
           /\ rejected' = rejected \union Files(run.job, period, Sensors \ fetched)
           /\ runs' = [runs EXCEPT ![w].pc = "store", ![w].period = period,
                                   ![w].todo = fetched, ![w].results = {}]
      /\ UNCHANGED <<now, request, db, service, mode, stored, reported, lost, confirmed,
                     disturbed>>

(* One downloaded file goes to the object store.                           *)
StoreFile(w) ==
  LET run == runs[w]
  IN  /\ run.pc = "store"
      /\ \E s \in run.todo :
           /\ stored' = stored \union Files(run.job, run.period, {s})
           /\ runs' = [runs EXCEPT ![w].todo = @ \ {s},
                                   ![w].results = @ \union {s}]
      /\ UNCHANGED <<now, request, db, service, mode, rejected, reported, lost,
                     confirmed, disturbed, budget>>

(* Mutant: the last window does not disable the job.                       *)
AdvancedNeverDisabled(run) ==
  [run.copy EXCEPT !.currentDateFrom = run.period.nextFrom,
                   !.currentDateTo   = run.period.nextTo]

(* Mutant: the handler releases the lock when it saves its progress.       *)
AdvancedUnlocked(run) ==
  [run.copy EXCEPT
     !.currentDateFrom = run.period.nextFrom,
     !.currentDateTo   = run.period.nextTo,
     !.lockedAt        = None,
     !.disabled        = IF run.period.shouldComplete THEN TRUE ELSE @]

(* The copy after a completed fetch: its dates one window on, disabled if  *)
(* this was the last window.                                               *)
Advanced(run) ==
  [run.copy EXCEPT
     !.currentDateFrom = run.period.nextFrom,
     !.currentDateTo   = run.period.nextTo,
     !.disabled        = IF run.period.shouldComplete THEN TRUE ELSE @]

(* Mutant: the dates are saved before every file is stored.                *)
SaveProgressEarly(w) ==
  LET run == runs[w]
  IN  /\ run.pc = "store"
      /\ db' = [db EXCEPT ![run.job] = Save(@, Advanced(run))]
      /\ runs' = [runs EXCEPT ![w].pc = "report", ![w].copy = Advanced(run)]
      /\ UNCHANGED <<now, request, service, mode, stored, rejected, reported, lost,
                     confirmed, disturbed, budget>>

SaveProgress(w) ==
  LET run == runs[w]
  IN  /\ run.pc = "store"
      /\ run.todo = {}
      /\ db' = [db EXCEPT ![run.job] = Save(@, Advanced(run))]
      /\ runs' = [runs EXCEPT ![w].pc = "report", ![w].copy = Advanced(run)]
      /\ UNCHANGED <<now, request, service, mode, stored, rejected, reported, lost,
                     confirmed, disturbed, budget>>

(* The copy of a run that cannot fetch yet: it may move the next run.      *)
Postponed(run, period) ==
  [run.copy EXCEPT !.nextRunAt =
     IF period.nextRunAt # None THEN period.nextRunAt ELSE @]

Postpone(w) ==
  LET run == runs[w]
      period == PeriodOf(w)
      copy == Postponed(run, period)
  IN  /\ run.pc = "started"
      /\ ~PeriodMissing(w)
      /\ ~period.canFetch
      /\ db' = [db EXCEPT ![run.job] = Save(@, copy)]
      /\ runs' = [runs EXCEPT ![w].pc = "report", ![w].copy = copy,
                              ![w].period = period]
      /\ UNCHANGED <<now, request, service, mode, stored, rejected, reported, lost,
                     confirmed, disturbed, budget>>

Report(w) ==
  /\ runs[w].pc = "report"
  /\ reported' = reported \union {ResultOf(runs[w])}
  /\ runs' = [runs EXCEPT ![w].pc = "finish"]
  /\ UNCHANGED <<now, request, db, service, mode, stored, rejected, lost, confirmed,
                 disturbed, budget>>

(* Mutant: a handler that throws tells the server nothing.                 *)
FailSilently(w) ==
  /\ runs[w].pc \in {"started", "store"}
  /\ \/ runs[w].pc = "started" /\ PeriodMissing(w) /\ UNCHANGED budget
     \/ ~(runs[w].pc = "started" /\ PeriodMissing(w)) /\ Spend("faults")
  /\ runs' = [runs EXCEPT ![w].pc = "finish"]
  /\ UNCHANGED <<now, request, db, service, mode, stored, rejected, reported,
                 lost, confirmed, disturbed>>

(* The handler throws: the user or the period is missing, a file cannot be *)
(* stored or the job cannot be saved.  The task is reported as failed.  A  *)
(* run whose save failed has already changed its copy.                     *)
Fail(w) ==
  LET run == runs[w]
      copies == IF run.pc = "started" /\ ~PeriodMissing(w) /\ ~PeriodOf(w).canFetch
                THEN {run.copy, Postponed(run, PeriodOf(w))}
                ELSE {run.copy}
  IN  /\ run.pc \in {"started", "store"}
      /\ \/ run.pc = "started" /\ PeriodMissing(w) /\ UNCHANGED budget
         \/ ~(run.pc = "started" /\ PeriodMissing(w)) /\ Spend("faults")
      /\ reported' = reported \union {FailureOf(run.job)}
      /\ \E copy \in copies :
           runs' = [runs EXCEPT ![w].pc = "finish", ![w].copy = copy]
      /\ UNCHANGED <<now, request, db, service, mode, stored, rejected, lost, confirmed,
                     disturbed>>
(* The save of the job takes effect, but the database answers with an      *)
(* error: the task is reported as failed and its result is never sent.     *)
SaveUnanswered(w) ==
  /\ runs[w].pc = "report"
  /\ Spend("faults")
  /\ reported' = reported \union {FailureOf(runs[w].job)}
  /\ lost' = lost \union {ResultOf(runs[w])}
  /\ runs' = [runs EXCEPT ![w].pc = "finish"]
  /\ UNCHANGED <<now, request, db, service, mode, stored, rejected, confirmed, disturbed>>
------------------------------------------------------------------------------
(*                        Shutdown and crash                               *)

(* The end of the process: every run in progress is gone, and so is a      *)
(* result that was saved but not sent.  The mode message was not           *)
(* acknowledged, so the broker delivers it again.                          *)
Kill ==
  /\ service' = "up"
  /\ runs' = [w \in Workers |-> NoRun]
  /\ lost' = lost \union {ResultOf(runs[w]) : w \in {v \in Workers : runs[v].pc = "report"}}
  /\ mode' = IF mode.pc = "idle" THEN mode
             ELSE [NoMode EXCEPT !.pc = "queued", !.type = mode.type, !.tasks = mode.tasks]
  /\ UNCHANGED <<now, request, db, stored, rejected, reported, confirmed, disturbed>>

Crash ==
  /\ LockCanStillExpire
  /\ Spend("crashes")
  /\ Kill

(* Mutant: every job that is held is unlocked, with a next run or without. *)
ShutdownUnlocksAll ==
  LET held == {j \in Jobs : \E w \in Workers : Live(w) /\ runs[w].job = j}
  IN  /\ service = "up"
      /\ LockCanStillExpire
      /\ Spend("crashes")
      /\ service' = "stopping"
      /\ db' = [j \in Jobs |-> IF j \in held THEN [db[j] EXCEPT !.lockedAt = Absent]
                              ELSE db[j]]
      /\ UNCHANGED <<now, request, runs, mode, stored, rejected, reported, lost,
                     confirmed, disturbed>>

(* onModuleDestroy: agenda.stop() takes no more jobs and unlocks those it  *)
(* holds, except the ones without a next run; handlers go on until the     *)
(* process exits.                                                          *)
Shutdown ==
  LET held == {j \in Jobs : \E w \in Workers : Live(w) /\ runs[w].job = j}
  IN  /\ service = "up"
      /\ LockCanStillExpire
      /\ Spend("crashes")
      /\ service' = "stopping"
      /\ db' = [j \in Jobs |-> IF j \in held /\ db[j].nextRunAt # None
                              THEN [db[j] EXCEPT !.lockedAt = Absent] ELSE db[j]]
      /\ UNCHANGED <<now, request, runs, mode, stored, rejected, reported, lost,
                     confirmed, disturbed>>

Exit ==
  /\ service = "stopping"
  /\ Kill
  /\ UNCHANGED budget
------------------------------------------------------------------------------
(*                  Enabling and disabling jobs                            *)

(* One task-mode message is handled at a time (prefetch count 1).          *)
ModeReceive ==
  /\ mode.pc = "idle"
  /\ Spend("modes")
  /\ \E type \in ModeTypes, tasks \in (SUBSET Jobs) \ {{}} :
       mode' = [NoMode EXCEPT !.pc = "queued", !.type = type, !.tasks = tasks]
  /\ UNCHANGED <<now, request, db, service, runs, stored, rejected, reported,
                 lost, confirmed, disturbed>>

(* setDisabledStatus looks up the jobs of the message: whole documents.    *)
ModeFind ==
  LET found == {j \in mode.tasks : db[j] # None}
  IN  /\ mode.pc = "queued"
      /\ LockCanStillExpire
      /\ mode' = [mode EXCEPT !.pc = "saving", !.todo = found,
                     !.copies = [j \in Jobs |-> IF j \in found THEN db[j] ELSE None]]
      /\ UNCHANGED <<now, request, db, service, runs, stored, rejected, reported,
                     lost, confirmed, disturbed, budget>>

(* The look-up throws: the message is neither acknowledged nor rejected    *)
(* and, being the only one the channel may hold, stops the queue.          *)
ModeFindFails ==
  /\ mode.pc = "queued"
  /\ Spend("faults")
  /\ mode' = [mode EXCEPT !.pc = "stalled"]
  /\ UNCHANGED <<now, request, db, service, runs, stored, rejected, reported,
                 lost, confirmed, disturbed>>

(* job.disable().save() or job.enable().save() of one of the jobs found:   *)
(* the document as it was found, with the new disabled flag.               *)
ModeSave(j) ==
  /\ mode.pc = "saving"
  /\ j \in mode.todo
  /\ db' = [db EXCEPT ![j] =
              Save(@, [mode.copies[j] EXCEPT !.disabled = (mode.type = "DISABLED")])]
  /\ mode' = [mode EXCEPT !.todo = @ \ {j}]
  /\ disturbed' = [disturbed EXCEPT ![j] = @ \union {"mode"}]
  /\ UNCHANGED <<now, request, service, runs, stored, rejected, reported, lost,
                 confirmed, budget>>

(* awaitAllPromises keeps the failure of a save to itself.                 *)
ModeSaveFails(j) ==
  /\ mode.pc = "saving"
  /\ j \in mode.todo
  /\ Spend("faults")
  /\ mode' = [mode EXCEPT !.todo = @ \ {j}]
  /\ UNCHANGED <<now, request, db, service, runs, stored, rejected, reported,
                 lost, confirmed, disturbed>>

(* Every job that was found is confirmed, saved or not.                    *)
ModeReply ==
  /\ mode.pc = "saving"
  /\ mode.todo = {}
  /\ confirmed' = [j \in Jobs |-> IF mode.copies[j] # None THEN mode.type
                                  ELSE confirmed[j]]
  /\ mode' = NoMode
  /\ UNCHANGED <<now, request, db, service, runs, stored, rejected, reported,
                 lost, disturbed, budget>>
------------------------------------------------------------------------------
Tick ==
  /\ now < MaxTime
  /\ now' = now + 1
  /\ UNCHANGED <<request, db, service, runs, mode, stored, rejected, reported,
                 lost, confirmed, disturbed, budget>>

(* The steps of a run that nothing but the service itself delays.          *)
RunStep(w) == \/ DropExpired(w) \/ Start(w) \/ Download(w) \/ StoreFile(w)
              \/ SaveProgress(w) \/ Postpone(w) \/ Report(w) \/ Fail(w)
              \/ Finish(w)

Next ==
  \/ \E j \in Jobs : ScheduleJob(j)
  \/ \E j \in Jobs : RefuseTask(j)
  \/ \E w \in Workers, j \in Jobs : LockDue(w, j)
  \/ \E w \in Workers, j \in Jobs : LockExpired(w, j)
  \/ \E w \in Workers : DropExpired(w)
  \/ \E w \in Workers : Start(w)
  \/ \E w \in Workers : Download(w)
  \/ \E w \in Workers : StoreFile(w)
  \/ \E w \in Workers : SaveProgress(w)
  \/ \E w \in Workers : Postpone(w)
  \/ \E w \in Workers : Report(w)
  \/ \E w \in Workers : Fail(w)
  \/ \E w \in Workers : SaveUnanswered(w)
  \/ \E w \in Workers : Finish(w)
  \/ \E w \in Workers : RunStateLost(w)
  \/ Crash
  \/ Shutdown
  \/ Exit
  \/ ModeReceive
  \/ ModeFind
  \/ ModeFindFails
  \/ \E j \in Jobs : ModeSave(j)
  \/ \E j \in Jobs : ModeSaveFails(j)
  \/ ModeReply
  \/ Tick

Spec == Init /\ [][Next]_vars

(* Agenda polls for due and expired jobs, Node runs what is ready, a       *)
(* process that is stopping exits and time passes.  Nothing makes a        *)
(* message arrive, a call fail or the service crash.                       *)
Fairness ==
  /\ WF_vars(Tick)
  /\ WF_vars(Exit)
  /\ \A w \in Workers : WF_vars(RunStep(w))
  /\ \A j \in Jobs : WF_vars(\E w \in Workers : LockDue(w, j) \/ LockExpired(w, j))

FairSpec == Spec /\ Fairness
------------------------------------------------------------------------------
(*                             Properties                                  *)

Scheduled(j) == db[j] # None

(* A run in progress: it holds the date of its lock, and it has its period *)
(* when it comes to use it.                                                *)
Run ==
  {r \in [pc      : {"locked", "started", "store", "report", "finish"},
          job     : Jobs,
          copy    : Document,
          period  : Maybe(Period),
          todo    : SUBSET Sensors,
          results : SUBSET Sensors] :
     /\ r.copy.lockedAt \in Int
     /\ r.pc \in {"store", "report"} => r.period # None
     /\ r.pc = "store" => r.period.canFetch}

Mode ==
  {m \in [pc     : {"idle", "queued", "saving", "stalled"},
          type   : Maybe(ModeTypes),
          tasks  : SUBSET Jobs,
          copies : [Jobs -> Maybe(Document)],
          todo   : SUBSET Jobs] :
     /\ m.pc # "idle" => m.type # None
     /\ \A j \in m.todo : m.copies[j] # None}

(* The types of the state, and that runs and mode messages work on jobs    *)
(* that were scheduled.                                                    *)
TypeOK ==
  /\ now \in Nat
  /\ request \in [Jobs -> Maybe(Requests)]
  /\ db \in [Jobs -> Maybe(Document)]
  /\ service \in {"up", "stopping"}
  /\ runs \in [Workers -> Run \union {NoRun}]
  /\ mode \in Mode
  /\ stored \subseteq File
  /\ rejected \subseteq File
  /\ reported \subseteq StatusMessage
  /\ lost \subseteq StatusMessage
  /\ confirmed \in [Jobs -> Maybe(ModeTypes)]
  /\ disturbed \in [Jobs -> SUBSET {"overrun", "mode"}]
  /\ budget \in [modes : Nat, crashes : Nat, faults : Nat]
  /\ \A j \in Jobs : Scheduled(j) => request[j] # None /\ Accepted(request[j])
  /\ \A w \in Workers : Live(w) => Scheduled(runs[w].job)
  /\ \A j \in Jobs : mode.copies[j] # None => Scheduled(j)

(* Every instant from the start of the requested range up to date lies,    *)
(* for every sensor, in a window that was fetched and stored or whose      *)
(* download failed.                                                        *)
Covered(j, date) ==
  \A t \in request[j].dateFrom .. date - 1, s \in Sensors :
    \E f \in stored \union rejected :
      f.job = j /\ f.sensor = s /\ f.from =< t /\ t < f.to

(* A job's cursor (currentDateFrom) never passes an instant that was not   *)
(* fetched, however saves of overlapping runs, stale copies, failures and  *)
(* crashes are ordered: handle() moves the dates only after every file is  *)
(* stored, and moves them by one window.                                   *)
NoGapBeforeCursor ==
  \A j \in Jobs : Scheduled(j) => Covered(j, db[j].currentDateFrom)

(* Results that were sent, are about to be sent, or were lost between      *)
(* saving the job and sending the message.                                 *)
Results == {m \in reported \union lost : HasResult(m)}
             \union {ResultOf(runs[w]) : w \in {v \in Workers :
                        runs[v].pc = "report" /\ runs[v].period.canFetch}}

Told(j, date) ==
  \A t \in request[j].dateFrom .. date - 1 :
    \E m \in Results : m.job = j /\ m.from =< t /\ t < m.to

(* The cursor passes no instant whose result is not on its way to the      *)
(* server: saving the job (handle) and sending the result (runDataFetchJob)*)
(* are two steps, and only a kill between them, or a save that takes       *)
(* effect and is answered with an error, loses a result.                   *)
CursorIsReported ==
  \A j \in Jobs : Scheduled(j) => Told(j, db[j].currentDateFrom)

(* A result names exactly the sensors whose file is in the object store;   *)
(* the sensors it leaves out are those whose download failed.              *)
ReportsAreStored ==
  \A m \in {r \in reported : HasResult(r)} :
    /\ Files(m.job, m, m.sensors) \subseteq stored
    /\ Files(m.job, m, Sensors \ m.sensors) \subseteq rejected

(* A job that agenda will never run again - it is unlocked and has no next *)
(* run - has told the server that it is done or that it failed.  A run     *)
(* that was killed, shut down or whose state was lost keeps its lock until *)
(* it expires instead.                                                     *)
NoStrandedJob ==
  \A j \in Jobs : Scheduled(j) /\ Unlocked(db[j]) /\ db[j].nextRunAt = None =>
    \E m \in reported : m.job = j /\ m.status \in {"DONE", "FAILED"}

(* Two runs of one job are in progress at once only after a lock expired   *)
(* under a run or a mode message rewrote the job's document.               *)
OneRunUnlessDisturbed ==
  \A v, w \in Workers :
    v # w /\ Live(v) /\ Live(w) /\ runs[v].job = runs[w].job
      => disturbed[runs[v].job] # {}

(* A job that reported its last result is disabled and stays so, unless    *)
(* its lock was disturbed (then a stale copy may have been saved over it). *)
DoneIsFinal ==
  \A j \in Jobs :
    disturbed[j] = {} /\ (\E m \in reported : m.job = j /\ m.status = "DONE"
                                              /\ HasResult(m))
      => db[j].disabled = TRUE

(* Each job as its task sees it: where it stands, what was fetched, what   *)
(* was told, and whether its lock was disturbed.                           *)
Cursor == [j \in Jobs |-> IF Scheduled(j) THEN db[j].currentDateFrom ELSE None]

Settled == [j \in Jobs |-> {[from |-> f.from, to |-> f.to, sensor |-> f.sensor] :
                             f \in {g \in stored \union rejected : g.job = j}}]

Delivered == [j \in Jobs |-> {[from |-> m.from, to |-> m.to] :
                               m \in {r \in Results : r.job = j}}]

Crossed == [j \in Jobs |-> disturbed[j] # {}]

Task == INSTANCE FetchTask WITH
  Tasks     <- Jobs,
  cursor    <- Cursor,
  settled   <- Settled,
  delivered <- Delivered,
  crossed   <- Crossed

(* Every job implements FetchTask: locks, copies, saves and messages come  *)
(* to no more than a task that is delivered window by window, each once    *)
(* and whole, unless its lock was disturbed (a stale copy may then be      *)
(* saved, and the task goes back).                                         *)
DeliversWindowByWindow == Task!Spec

(* Every scheduled task is answered with a result, a failure or a next     *)
(* cycle, through crashes, shutdowns and failures: a killed run's lock     *)
(* expires and the job is run again.  What is left out is a task disabled  *)
(* by a message and a result that was saved and never sent.                *)
EveryTaskAnswered ==
  \A j \in Jobs :
    Scheduled(j) ~>
      \/ \E m \in reported \union lost : m.job = j
      \/ Scheduled(j) /\ db[j].disabled = TRUE /\ "mode" \in disturbed[j]

(* jobs.service.ts says of setDisabledStatus "Disables (stops from being   *)
(* scheduled again) jobs": once the service has confirmed that a job is    *)
(* disabled, and as long as no message enables it, no run of it begins.    *)
DisabledIsNotRunAgain ==
  [][\A w \in Workers, j \in Jobs :
       confirmed[j] = "DISABLED" /\ mode.type # "ENABLED" /\ ~Live(w)
         => runs'[w].job # j]_vars

(* data-fetch.job.handler.spec.ts says "waits for next sync cycle when     *)
(* trying to fetch from the future": a run that could not fetch does not   *)
(* report its job as done.                                                 *)
FutureFetchWaits ==
  \A m \in reported : ~HasResult(m) => m.status # "DONE"
=============================================================================
