------------------------- MODULE DataFetchJobsProofs -------------------------
(***************************************************************************)
(* Proofs about DataFetchJobs, for any values of its constants.            *)
(*                                                                         *)
(* The first part proves type correctness, one lemma per action (Type...). *)
(*                                                                         *)
(* The second part proves that the dates of a job pass only what was       *)
(* fetched and told.  A step may save any copy of a document that a run or *)
(* a mode message still holds, however old, so the inductive invariant     *)
(* FeedInv speaks of all of them (Cursors), and of what a run has stored   *)
(* and not yet told.  Steps that move no date on are taken together by     *)
(* QuietStep; Download, StoreFile, SaveProgress and Report have lemmas of  *)
(* their own (Feed...).                                                    *)
(***************************************************************************)
EXTENDS DataFetchJobs, FiniteSetTheorems, TLAPS

USE DEF Maybe

(* The initial state is well typed.                                        *)
LEMMA InitType == Init => TypeOK
  <1> SUFFICES ASSUME Init PROVE TypeOK OBVIOUS
  <1>1. runs \in [Workers -> Run \union {NoRun}]
    BY DEF Init
  <1>2. mode \in Mode
    BY DEF Init, NoMode, Mode
  <1>3. budget \in [modes : Nat, crashes : Nat, faults : Nat]
    BY BoundsAssumption DEF Init
  <1> QED BY <1>1, <1>2, <1>3 DEF Init, TypeOK, NoRun, NoMode, Live, Scheduled

(* What a run in progress may rely on. *)
LEMMA LiveRun ==
  ASSUME TypeOK, NEW w \in Workers, Live(w)
  PROVE  /\ runs[w] \in Run
         /\ runs[w].job \in Jobs
         /\ runs[w].copy \in Document
         /\ runs[w].copy.lockedAt \in Int
         /\ db[runs[w].job] \in Document
         /\ request[runs[w].job] \in Request
         /\ Accepted(request[runs[w].job])
         /\ request[runs[w].job].dateFrom \in Int
  <1>1. runs[w] \in Run
    BY DEF TypeOK, Live, NoRun
  <1>2. runs[w].job \in Jobs /\ runs[w].copy \in Document /\ runs[w].copy.lockedAt \in Int
    BY <1>1 DEF Run
  <1>3. db[runs[w].job] \in Document
    BY <1>2 DEF TypeOK, Scheduled
  <1>4. request[runs[w].job] \in Requests /\ Accepted(request[runs[w].job])
    BY <1>2 DEF TypeOK, Scheduled
  <1>5. request[runs[w].job] \in Request
    BY <1>4, RequestsAssumption
  <1> QED BY <1>1, <1>2, <1>3, <1>4, <1>5 DEF Accepted, Request

(* A step that puts run r in slot w, with the documents left alone.        *)
LEMMA TypeOfRunStep ==
  ASSUME TypeOK, NEW w \in Workers, NEW r \in Run \union {NoRun},
         r = NoRun \/ db[r.job] # None,
         runs' = [runs EXCEPT ![w] = r],
         \A k \in Jobs : db[k] # None => db'[k] # None
  PROVE  /\ runs' \in [Workers -> Run \union {NoRun}]
         /\ \A v \in Workers : Live(v)' => db'[runs'[v].job] # None
  <1>1. runs' \in [Workers -> Run \union {NoRun}]
    BY DEF TypeOK
  <1>2. ASSUME NEW v \in Workers, Live(v)' PROVE db'[runs'[v].job] # None
    <2>1. CASE v = w
      <3>1. runs'[v] = r /\ r # NoRun
        BY <2>1, <1>2 DEF Live, NoRun, TypeOK
      <3>2. r.job \in Jobs
        BY <3>1 DEF Run
      <3> QED BY <3>1, <3>2
    <2>2. CASE v # w
      <3>1. runs'[v] = runs[v] /\ Live(v)
        BY <2>2, <1>2 DEF TypeOK, Live
      <3>2. runs[v].job \in Jobs /\ db[runs[v].job] # None
        BY <3>1, LiveRun DEF TypeOK, Scheduled
      <3> QED BY <3>1, <3>2
    <2> QED BY <2>1, <2>2
  <1> QED BY <1>1, <1>2

(* A step that writes document d of a scheduled job.                       *)
LEMMA TypeOfSave ==
  ASSUME TypeOK, NEW j \in Jobs, NEW d \in Document, db[j] # None,
         db' = [db EXCEPT ![j] = d]
  PROVE  /\ db' \in [Jobs -> Maybe(Document)]
         /\ \A k \in Jobs : db'[k] # None <=> db[k] # None
  <1>1. db' \in [Jobs -> Maybe(Document)]
    BY DEF TypeOK
  <1>2. ASSUME NEW k \in Jobs PROVE db'[k] # None <=> db[k] # None
    <2>1. d # None
      BY DocumentAssumption
    <2>2. db'[k] = IF k = j THEN d ELSE db[k]
      BY DEF TypeOK
    <2> QED BY <2>1, <2>2
  <1> QED BY <1>1, <1>2

(* Starting a run writes lockedAt and nextRunAt of its document.           *)
LEMMA TypeStart == ASSUME TypeOK, NEW w \in Workers, Start(w) PROVE TypeOK'
  <1> DEFINE run == runs[w]
             next == IF request[run.job].interval = None
              THEN None ELSE now + request[run.job].interval
             copy == [run.copy EXCEPT !.nextRunAt = next]
             new == [run EXCEPT !.pc = "started", !.copy = copy]
             doc == SaveRunState(db[run.job], copy)
  <1>1. Live(w) /\ run \in Run
    BY LiveRun DEF Start, Live
  <1>2. next \in Maybe(Int)
    BY <1>1, LiveRun DEF TypeOK, Request
  <1>3. copy \in Document /\ doc \in Document /\ copy.lockedAt \in Int
    BY <1>1, <1>2, LiveRun DEF Document, SaveRunState
  <1>4. new \in Run /\ new.job = run.job
    BY <1>1, <1>3 DEF Run
  <1>5. runs' = [runs EXCEPT ![w] = new] /\ db' = [db EXCEPT ![run.job] = doc]
    BY <1>1 DEF Start, TypeOK
  <1>6. run.job \in Jobs /\ db[run.job] # None
    BY <1>1, LiveRun DEF TypeOK, Scheduled
  <1> HIDE DEF run, new, doc
  <1>7. /\ db' \in [Jobs -> Maybe(Document)]
        /\ \A k \in Jobs : db'[k] # None <=> db[k] # None
    BY <1>3, <1>5, <1>6, TypeOfSave
  <1>8. /\ runs' \in [Workers -> Run \union {NoRun}]
        /\ \A v \in Workers : Live(v)' => db'[runs'[v].job] # None
    BY <1>4, <1>5, <1>6, <1>7, TypeOfRunStep
  <1>9. UNCHANGED <<now, request, service, mode, stored, rejected, reported, lost,
                     confirmed, disturbed, budget>>
    BY DEF Start
  <1> QED BY <1>7, <1>8, <1>9 DEF TypeOK, Scheduled, Accepted

(* The period that a run computes.                                         *)
LEMMA PeriodType ==
  ASSUME TypeOK, NEW w \in Workers, Live(w), ~PeriodMissing(w)
  PROVE  PeriodOf(w) \in Period
  <1> DEFINE p == Payload(runs[w].job, runs[w].copy)
  <1>1. /\ p.dateTo \in Maybe(Int)
        /\ p.window \in Maybe(Nat)
        /\ p.currentDateFrom \in Int
        /\ p.currentDateTo \in Maybe(Int)
    BY LiveRun DEF Payload, Document, Request
  <1>2. p.window = None => p.currentDateTo # None
    BY DEF PeriodMissing, HasNoPeriod
  <1>3. now \in Nat
    BY DEF TypeOK
  <1>4. PeriodOf(w) = FetchPeriodData(p, now)
    BY DEF PeriodOf
  <1> HIDE DEF p
  <1>5. CASE p.window # None
    BY <1>1, <1>3, <1>4, <1>5 DEF FetchPeriodData, WindowPeriod, FetchPossibility, Period
  <1>6. CASE p.window = None
    BY <1>1, <1>2, <1>3, <1>4, <1>6 DEF FetchPeriodData, WholePeriod, FetchPossibility, Period
  <1> QED BY <1>5, <1>6

(* Spending from a bound leaves natural numbers.                           *)
LEMMA SpendType == ASSUME TypeOK, NEW what \in {"modes", "crashes", "faults"}, Spend(what)
                   PROVE budget' \in [modes : Nat, crashes : Nat, faults : Nat]
  BY DEF TypeOK, Spend

(* A failure is a status message.                                          *)
LEMMA FailureType == ASSUME NEW j \in Jobs PROVE FailureOf(j) \in StatusMessage
  BY DEF FailureOf, StatusMessage, Statuses

(* What a run reports is a status message.                                 *)
LEMMA ResultType ==
  ASSUME NEW r \in Run, r.pc = "report" PROVE ResultOf(r) \in StatusMessage
  <1>1. r.period \in Period /\ r.job \in Jobs /\ r.results \in SUBSET Sensors
    BY DEF Run
  <1> QED BY <1>1 DEF ResultOf, StatusMessage, Statuses, Period

(* The files of a period are files.                                        *)
LEMMA FilesType ==
  ASSUME NEW j \in Jobs, NEW p \in Period, NEW S \in SUBSET Sensors
  PROVE  Files(j, p, S) \subseteq File
  BY DEF Files, File, Period

(* A new document is well typed, and its request was accepted.             *)
LEMMA TypeScheduleJob == ASSUME TypeOK, NEW j \in Jobs, ScheduleJob(j) PROVE TypeOK'
  <1>1. PICK r \in Requests : /\ Accepted(r)
                             /\ request' = [request EXCEPT ![j] = r]
                             /\ \E first \in FirstRuns(r) :
            db' = [db EXCEPT ![j] = [disabled        |-> Absent,
                                     lockedAt        |-> Absent,
                                     nextRunAt       |-> first,
                                     currentDateFrom |-> r.dateFrom,
                                     currentDateTo   |-> r.dateTo]]
    BY DEF ScheduleJob
  <1>2. r \in Request /\ now \in Nat
    BY RequestsAssumption DEF TypeOK
  <1>3. PICK first \in FirstRuns(r) :
            db' = [db EXCEPT ![j] = [disabled        |-> Absent,
                                     lockedAt        |-> Absent,
                                     nextRunAt       |-> first,
                                     currentDateFrom |-> r.dateFrom,
                                     currentDateTo   |-> r.dateTo]]
    BY <1>1
  <1> DEFINE d == [disabled        |-> Absent,
                   lockedAt        |-> Absent,
                   nextRunAt       |-> first,
                   currentDateFrom |-> r.dateFrom,
                   currentDateTo   |-> r.dateTo]
  <1>4. first \in Int
    BY <1>2 DEF FirstRuns, Request
  <1>5. d \in Document
    BY <1>1, <1>2, <1>4 DEF Document, Request, Accepted
  <1>6. db' \in [Jobs -> Maybe(Document)]
    BY <1>3, <1>5 DEF TypeOK
  <1>7. \A k \in Jobs : db[k] # None => db'[k] # None
    <2>1. d # None
      BY <1>5, DocumentAssumption
    <2> QED BY <2>1, <1>3 DEF TypeOK
  <1>8. \A k \in Jobs : db'[k] # None => request'[k] # None /\ Accepted(request'[k])
    <2>1. r # None
      BY <1>2, AbsenceAssumption
    <2> SUFFICES ASSUME NEW k \in Jobs, db'[k] # None
                 PROVE request'[k] # None /\ Accepted(request'[k])
      OBVIOUS
    <2>2. CASE k = j
      BY <2>1, <2>2, <1>1 DEF TypeOK
    <2>3. CASE k # j
      <3>1. db[k] # None
        BY <2>3, <1>3 DEF TypeOK
      <3>2. request[k] # None /\ Accepted(request[k])
        BY <3>1 DEF TypeOK, Scheduled
      <3> QED BY <3>2, <2>3, <1>1 DEF TypeOK
    <2> QED BY <2>2, <2>3
  <1>9. request' \in [Jobs -> Maybe(Requests)]
    BY <1>1 DEF TypeOK
  <1>10. \A w \in Workers : runs[w].pc # "idle" => runs[w].job \in Jobs
    BY LiveRun DEF Live
  <1>11. UNCHANGED <<now, service, runs, mode, stored, rejected, reported, lost, confirmed,
                 disturbed, budget>>
    BY DEF ScheduleJob
  <1> QED BY <1>6, <1>7, <1>8, <1>9, <1>10, <1>11 DEF TypeOK, Scheduled, Live, Accepted

(* A refused task only leaves a failure.                                   *)
LEMMA TypeRefuseTask == ASSUME TypeOK, NEW j \in Jobs, RefuseTask(j) PROVE TypeOK'
  <1>1. PICK r \in Requests : /\ request' = [request EXCEPT ![j] = r]
                             /\ \/ ~Accepted(r) /\ UNCHANGED budget
                                \/ Accepted(r) /\ Spend("faults")
    BY DEF RefuseTask
  <1>2. budget' \in [modes : Nat, crashes : Nat, faults : Nat]
    BY <1>1, SpendType DEF TypeOK
  <1>3. request[j] = None /\ db[j] = None
    BY DEF RefuseTask, TypeOK, Scheduled
  <1>4. reported' \subseteq StatusMessage
    BY FailureType DEF RefuseTask, TypeOK
  <1>5. request' \in [Jobs -> Maybe(Requests)]
    BY <1>1 DEF TypeOK
  <1>6. \A k \in Jobs : db[k] # None => request'[k] = request[k]
    BY <1>1, <1>3 DEF TypeOK
  <1>7. UNCHANGED <<now, db, service, runs, mode, stored, rejected, lost, confirmed, disturbed>>
    BY DEF RefuseTask
  <1> QED BY <1>2, <1>4, <1>5, <1>6, <1>7 DEF TypeOK, Scheduled, Live

(* A lock gives a run a copy of the document.                              *)
LEMMA TypeTakeLock ==
  ASSUME TypeOK, NEW w \in Workers, NEW j \in Jobs, db[j] # None, TakeLock(w, j),
         disturbed' \in [Jobs -> SUBSET {"overrun", "mode"}]
  PROVE  TypeOK'
  <1> DEFINE d == [db[j] EXCEPT !.lockedAt = now]
             r == [NoRun EXCEPT !.pc = "locked", !.job = j, !.copy = d]
  <1>1. db[j] \in Document /\ now \in Nat
    BY DEF TypeOK
  <1>2. d \in Document /\ d.lockedAt \in Int
    BY <1>1 DEF Document
  <1>3. db' = [db EXCEPT ![j] = d]
    BY DEF TakeLock
  <1>4. db'[j] = d
    BY <1>3 DEF TypeOK
  <1>5. runs' = [runs EXCEPT ![w] = r]
    BY <1>4 DEF TakeLock
  <1> HIDE DEF d
  <1>6. r \in Run /\ r.job = j
    BY <1>2 DEF Run, NoRun
  <1> HIDE DEF r
  <1>7. /\ db' \in [Jobs -> Maybe(Document)]
        /\ \A k \in Jobs : db'[k] # None <=> db[k] # None
    BY <1>2, <1>3, TypeOfSave
  <1>8. /\ runs' \in [Workers -> Run \union {NoRun}]
        /\ \A v \in Workers : Live(v)' => db'[runs'[v].job] # None
    BY <1>5, <1>6, <1>7, TypeOfRunStep
  <1>9. UNCHANGED <<now, request, service, mode, stored, rejected, reported, lost,
                 confirmed, budget>>
    BY DEF TakeLock
  <1> QED BY <1>7, <1>8, <1>9 DEF TypeOK, Scheduled, Accepted

(* A step that changes the run in slot w and none of the documents.        *)
LEMMA TypeOfSlot ==
  ASSUME TypeOK, NEW w \in Workers, NEW r \in Run \union {NoRun},
         r = NoRun \/ (Live(w) /\ r.job = runs[w].job),
         runs' = [runs EXCEPT ![w] = r], UNCHANGED db
  PROVE  /\ runs' \in [Workers -> Run \union {NoRun}]
         /\ \A v \in Workers : Live(v)' => db'[runs'[v].job] # None
  <1>1. r = NoRun \/ db[r.job] # None
    BY DEF TypeOK, Scheduled
  <1> QED BY <1>1, TypeOfRunStep

(* A dropped run leaves an empty slot.                                     *)
LEMMA TypeDropExpired == ASSUME TypeOK, NEW w \in Workers, DropExpired(w) PROVE TypeOK'
  <1>1. runs' = [runs EXCEPT ![w] = NoRun] /\ UNCHANGED db
    BY DEF DropExpired
  <1>2. /\ runs' \in [Workers -> Run \union {NoRun}]
        /\ \A v \in Workers : Live(v)' => db'[runs'[v].job] # None
    BY <1>1, TypeOfSlot
  <1> QED BY <1>2 DEF DropExpired, TypeOK, Scheduled

(* A run whose state is lost leaves an empty slot.                         *)
LEMMA TypeRunStateLost == ASSUME TypeOK, NEW w \in Workers, RunStateLost(w) PROVE TypeOK'
  <1>1. runs' = [runs EXCEPT ![w] = NoRun] /\ UNCHANGED db
    BY DEF RunStateLost
  <1>2. /\ runs' \in [Workers -> Run \union {NoRun}]
        /\ \A v \in Workers : Live(v)' => db'[runs'[v].job] # None
    BY <1>1, TypeOfSlot
  <1>3. budget' \in [modes : Nat, crashes : Nat, faults : Nat]
    BY SpendType DEF RunStateLost
  <1> QED BY <1>2, <1>3 DEF RunStateLost, TypeOK, Scheduled

(* The end of a run releases its lock.                                     *)
LEMMA TypeFinish == ASSUME TypeOK, NEW w \in Workers, Finish(w) PROVE TypeOK'
  <1> DEFINE j == runs[w].job
             d == SaveRunState(db[j], [runs[w].copy EXCEPT !.lockedAt = None])
  <1>1. Live(w)
    BY DEF Finish, Live
  <1>2. d \in Document
    BY <1>1, LiveRun DEF SaveRunState, Document
  <1>3. j \in Jobs /\ db[j] # None
    BY <1>1, LiveRun DEF TypeOK, Scheduled
  <1>4. db' = [db EXCEPT ![j] = d]
    BY DEF Finish
  <1> HIDE DEF d, j
  <1>5. /\ db' \in [Jobs -> Maybe(Document)]
        /\ \A k \in Jobs : db'[k] # None <=> db[k] # None
    BY <1>2, <1>3, <1>4, TypeOfSave
  <1>6. runs' = [runs EXCEPT ![w] = NoRun]
    BY DEF Finish
  <1>7. /\ runs' \in [Workers -> Run \union {NoRun}]
        /\ \A v \in Workers : Live(v)' => db'[runs'[v].job] # None
    BY <1>5, <1>6, TypeOfRunStep
  <1> QED BY <1>5, <1>7 DEF Finish, TypeOK, Scheduled, Accepted

(* A download gives its run a period that can be fetched.                  *)
LEMMA TypeDownload == ASSUME TypeOK, NEW w \in Workers, Download(w) PROVE TypeOK'
  <1> DEFINE run == runs[w]
             period == PeriodOf(w)
  <1>1. PICK fetched \in SUBSET Sensors :
           /\ Cardinality(Sensors \ fetched) =< budget.faults
           /\ budget' = [budget EXCEPT !.faults = @ - Cardinality(Sensors \ fetched)]
           /\ rejected' = rejected \union Files(run.job, period, Sensors \ fetched)
           /\ runs' = [runs EXCEPT ![w].pc = "store", ![w].period = period,
                                   ![w].todo = fetched, ![w].results = {}]
    BY DEF Download
  <1> DEFINE r == [run EXCEPT !.pc = "store", !.period = period,
                              !.todo = fetched, !.results = {}]
  <1>2. Live(w) /\ period.canFetch
    BY DEF Download, Live
  <1>3. period \in Period
    BY <1>2, PeriodType DEF Download
  <1>4. run \in Run /\ run.job \in Jobs
    BY <1>2, LiveRun
  <1>5. runs' = [runs EXCEPT ![w] = r]
    BY <1>1
  <1>6. rejected' \subseteq File
    BY <1>1, <1>3, <1>4, FilesType DEF TypeOK
  <1>7. budget' \in [modes : Nat, crashes : Nat, faults : Nat]
    <2>1. Cardinality(Sensors \ fetched) \in Nat
      BY <1>1, SensorsAssumption, FS_CardinalityType, FS_Difference
    <2> QED BY <2>1, <1>1 DEF TypeOK
  <1> HIDE DEF period
  <1>8. r \in Run /\ r.job = run.job
    BY <1>2, <1>3, <1>4, AbsenceAssumption DEF Run
  <1> HIDE DEF r, run
  <1>9. UNCHANGED <<now, request, db, service, mode, stored, reported, lost, confirmed,
                     disturbed>>
    BY DEF Download
  <1>10. /\ runs' \in [Workers -> Run \union {NoRun}]
        /\ \A v \in Workers : Live(v)' => db'[runs'[v].job] # None
    BY <1>2, <1>5, <1>8, <1>9, TypeOfSlot DEF run
  <1> QED BY <1>6, <1>7, <1>9, <1>10 DEF TypeOK, Scheduled, Accepted

(* A stored file moves from the todo of its run to its results.            *)
LEMMA TypeStoreFile == ASSUME TypeOK, NEW w \in Workers, StoreFile(w) PROVE TypeOK'
  <1> DEFINE run == runs[w]
  <1>1. PICK s \in run.todo :
           /\ stored' = stored \union Files(run.job, run.period, {s})
           /\ runs' = [runs EXCEPT ![w].todo = @ \ {s},
                                   ![w].results = @ \union {s}]
    BY DEF StoreFile
  <1> DEFINE r == [run EXCEPT !.todo = @ \ {s}, !.results = @ \union {s}]
  <1>2. Live(w) /\ run.pc = "store"
    BY DEF StoreFile, Live
  <1>3. run \in Run /\ run.job \in Jobs
    BY <1>2, LiveRun
  <1>4. run.period \in Period /\ s \in Sensors
    BY <1>2, <1>3 DEF Run
  <1>5. stored' \subseteq File
    BY <1>1, <1>3, <1>4, FilesType DEF TypeOK
  <1>6. r \in Run /\ r.job = run.job
    BY <1>3, <1>4 DEF Run
  <1>7. runs' = [runs EXCEPT ![w] = r]
    BY <1>1 DEF TypeOK
  <1> HIDE DEF r, run
  <1>8. UNCHANGED <<now, request, db, service, mode, rejected, reported, lost,
                     confirmed, disturbed, budget>>
    BY DEF StoreFile
  <1>9. /\ runs' \in [Workers -> Run \union {NoRun}]
        /\ \A v \in Workers : Live(v)' => db'[runs'[v].job] # None
    BY <1>2, <1>6, <1>7, <1>8, TypeOfSlot DEF run
  <1> QED BY <1>5, <1>8, <1>9 DEF TypeOK, Scheduled, Accepted

(* A saved copy is a document.                                             *)
LEMMA SaveType ==
  ASSUME NEW d \in Document, NEW c \in Document
  PROVE  Save(d, c) \in Document
  BY DEF Save, Document

(* A copy whose dates moved on is a document that is still locked.         *)
LEMMA AdvancedType ==
  ASSUME NEW r \in Run, r.period \in Period
  PROVE  Advanced(r) \in Document /\ Advanced(r).lockedAt \in Int
  <1>1. r.copy \in Document /\ r.copy.lockedAt \in Int
    BY DEF Run
  <1> QED BY <1>1 DEF Advanced, Document, Period

(* A postponed copy is a document that is still locked.                    *)
LEMMA PostponedType ==
  ASSUME NEW r \in Run, NEW p \in Period
  PROVE  Postponed(r, p) \in Document /\ Postponed(r, p).lockedAt \in Int
  <1>1. r.copy \in Document /\ r.copy.lockedAt \in Int
    BY DEF Run
  <1> QED BY <1>1 DEF Postponed, Document, Period

(* A step of slot w that saves document d of the job of its run and goes   *)
(* on with run r.                                                          *)
LEMMA TypeOfSavingStep ==
  ASSUME TypeOK, NEW w \in Workers, Live(w), NEW r \in Run, r.job = runs[w].job,
         NEW d \in Document,
         runs' = [runs EXCEPT ![w] = r], db' = [db EXCEPT ![r.job] = d],
         UNCHANGED <<now, request, service, mode, stored, rejected, reported, lost,
                     confirmed, disturbed, budget>>
  PROVE  TypeOK'
  <1>1. r.job \in Jobs /\ db[r.job] # None
    BY LiveRun DEF TypeOK, Scheduled
  <1>2. /\ db' \in [Jobs -> Maybe(Document)]
        /\ \A k \in Jobs : db'[k] # None <=> db[k] # None
    BY <1>1, TypeOfSave
  <1>3. /\ runs' \in [Workers -> Run \union {NoRun}]
        /\ \A v \in Workers : Live(v)' => db'[runs'[v].job] # None
    BY <1>1, <1>2, TypeOfRunStep
  <1> QED BY <1>2, <1>3 DEF TypeOK, Scheduled, Accepted

(* Saving the dates of a completed fetch.                                  *)
LEMMA TypeSaveProgress == ASSUME TypeOK, NEW w \in Workers, SaveProgress(w) PROVE TypeOK'
  <1> DEFINE run == runs[w]
             r == [run EXCEPT !.pc = "report", !.copy = Advanced(run)]
             d == Save(db[run.job], Advanced(run))
  <1>1. Live(w) /\ run.pc = "store"
    BY DEF SaveProgress, Live
  <1>2. run \in Run /\ run.job \in Jobs /\ db[run.job] \in Document
    BY <1>1, LiveRun
  <1>3. run.period \in Period
    BY <1>1, <1>2 DEF Run
  <1>4. Advanced(run) \in Document /\ Advanced(run).lockedAt \in Int
    BY <1>2, <1>3, AdvancedType
  <1>5. r \in Run /\ r.job = run.job
    BY <1>2, <1>3, <1>4, AbsenceAssumption DEF Run
  <1>6. d \in Document
    BY <1>2, <1>4, SaveType
  <1>7. runs' = [runs EXCEPT ![w] = r] /\ db' = [db EXCEPT ![r.job] = d]
    BY <1>5 DEF SaveProgress, TypeOK
  <1>8. UNCHANGED <<now, request, service, mode, stored, rejected, reported, lost,
                     confirmed, disturbed, budget>>
    BY DEF SaveProgress
  <1> HIDE DEF r, d
  <1> QED BY <1>1, <1>5, <1>6, <1>7, <1>8, TypeOfSavingStep

(* Saving a job that cannot be fetched yet.                                *)
LEMMA TypePostpone == ASSUME TypeOK, NEW w \in Workers, Postpone(w) PROVE TypeOK'
  <1> DEFINE run == runs[w]
             period == PeriodOf(w)
             copy == Postponed(run, period)
             r == [run EXCEPT !.pc = "report", !.copy = copy, !.period = period]
             d == Save(db[run.job], copy)
  <1>1. Live(w) /\ run.pc = "started"
    BY DEF Postpone, Live
  <1>2. run \in Run /\ run.job \in Jobs /\ db[run.job] \in Document
    BY <1>1, LiveRun
  <1>3. period \in Period
    BY <1>1, PeriodType DEF Postpone
  <1>4. runs' = [runs EXCEPT ![w] = r] /\ db' = [db EXCEPT ![run.job] = d]
    BY DEF Postpone, TypeOK
  <1> HIDE DEF period
  <1>5. copy \in Document /\ copy.lockedAt \in Int
    BY <1>2, <1>3, PostponedType
  <1> HIDE DEF copy
  <1>6. r \in Run /\ r.job = run.job
    BY <1>1, <1>2, <1>3, <1>5, AbsenceAssumption DEF Run
  <1>7. d \in Document
    BY <1>2, <1>5, SaveType
  <1>8. UNCHANGED <<now, request, service, mode, stored, rejected, reported, lost,
                     confirmed, disturbed, budget>>
    BY DEF Postpone
  <1> HIDE DEF r, d
  <1> QED BY <1>1, <1>6, <1>7, <1>4, <1>8, TypeOfSavingStep

(* Reporting sends a status message.                                       *)
LEMMA TypeReport == ASSUME TypeOK, NEW w \in Workers, Report(w) PROVE TypeOK'
  <1> DEFINE r == [runs[w] EXCEPT !.pc = "finish"]
  <1>1. Live(w) /\ runs[w].pc = "report"
    BY DEF Report, Live
  <1>2. runs[w] \in Run
    BY <1>1, LiveRun
  <1>3. r \in Run /\ r.job = runs[w].job
    BY <1>2 DEF Run
  <1>4. runs' = [runs EXCEPT ![w] = r] /\ UNCHANGED db
    BY DEF Report, TypeOK
  <1> HIDE DEF r
  <1>5. /\ runs' \in [Workers -> Run \union {NoRun}]
        /\ \A v \in Workers : Live(v)' => db'[runs'[v].job] # None
    BY <1>1, <1>3, <1>4, TypeOfSlot
  <1>6. reported' \subseteq StatusMessage
    BY <1>1, <1>2, ResultType DEF Report, TypeOK
  <1> QED BY <1>5, <1>6 DEF Report, TypeOK, Scheduled, Accepted

(* A save that was not answered sends a status message and loses a result. *)
LEMMA TypeSaveUnanswered ==
  ASSUME TypeOK, NEW w \in Workers, SaveUnanswered(w) PROVE TypeOK'
  <1> DEFINE r == [runs[w] EXCEPT !.pc = "finish"]
  <1>1. Live(w) /\ runs[w].pc = "report"
    BY DEF SaveUnanswered, Live
  <1>2. runs[w] \in Run /\ runs[w].job \in Jobs
    BY <1>1, LiveRun
  <1>3. r \in Run /\ r.job = runs[w].job
    BY <1>2 DEF Run
  <1>4. runs' = [runs EXCEPT ![w] = r] /\ UNCHANGED db
    BY DEF SaveUnanswered, TypeOK
  <1> HIDE DEF r
  <1>5. /\ runs' \in [Workers -> Run \union {NoRun}]
        /\ \A v \in Workers : Live(v)' => db'[runs'[v].job] # None
    BY <1>1, <1>3, <1>4, TypeOfSlot
  <1>6. reported' \subseteq StatusMessage /\ lost' \subseteq StatusMessage
    BY <1>1, <1>2, ResultType, FailureType DEF SaveUnanswered, TypeOK
  <1>7. budget' \in [modes : Nat, crashes : Nat, faults : Nat]
    BY SpendType DEF SaveUnanswered, TypeOK
  <1> QED BY <1>5, <1>6, <1>7 DEF SaveUnanswered, TypeOK, Scheduled, Accepted

(* A run that fails sends a status message and keeps a copy.               *)
LEMMA TypeFail == ASSUME TypeOK, NEW w \in Workers, Fail(w) PROVE TypeOK'
  <1> DEFINE run == runs[w]
  <1>1. Live(w) /\ run.pc \in {"started", "store"}
    BY DEF Fail, Live
  <1>2. run \in Run /\ run.job \in Jobs
    BY <1>1, LiveRun
  <1>3. PICK copy : /\ \/ copy = run.copy
                       \/ /\ run.pc = "started" /\ ~PeriodMissing(w)
                          /\ copy = Postponed(run, PeriodOf(w))
                    /\ runs' = [runs EXCEPT ![w].pc = "finish", ![w].copy = copy]
    BY DEF Fail
  <1>4. copy \in Document /\ copy.lockedAt \in Int
    <2>1. CASE copy = run.copy
      BY <2>1, <1>2 DEF Run
    <2>2. CASE ~PeriodMissing(w) /\ copy = Postponed(run, PeriodOf(w))
      BY <2>2, <1>1, <1>2, PeriodType, PostponedType
    <2> QED BY <2>1, <2>2, <1>3
  <1> DEFINE r == [run EXCEPT !.pc = "finish", !.copy = copy]
  <1>5. r \in Run /\ r.job = run.job
    BY <1>2, <1>4 DEF Run
  <1>6. runs' = [runs EXCEPT ![w] = r] /\ UNCHANGED db
    BY <1>3 DEF Fail, TypeOK
  <1> HIDE DEF r
  <1>7. /\ runs' \in [Workers -> Run \union {NoRun}]
        /\ \A v \in Workers : Live(v)' => db'[runs'[v].job] # None
    BY <1>1, <1>5, <1>6, TypeOfSlot
  <1>8. reported' \subseteq StatusMessage
    BY <1>2, FailureType DEF Fail, TypeOK
  <1>9. budget' \in [modes : Nat, crashes : Nat, faults : Nat]
    BY SpendType DEF Fail, TypeOK
  <1> QED BY <1>7, <1>8, <1>9 DEF Fail, TypeOK, Scheduled, Accepted

(* The parts of a mode message are well typed.                             *)
LEMMA ModeIsType ==
  ASSUME NEW m \in Mode
  PROVE  /\ m.type \in Maybe(ModeTypes) /\ m.tasks \in SUBSET Jobs
         /\ m.copies \in [Jobs -> Maybe(Document)] /\ m.todo \in SUBSET Jobs
         /\ m.pc # "idle" => m.type # None
         /\ \A j \in m.todo : m.copies[j] # None
  BY DEF Mode

(* No message is a well-typed state of the queue.                          *)
LEMMA NoModeType == NoMode \in Mode /\ \A j \in Jobs : NoMode.copies[j] = None
  BY DEF NoMode, Mode

(* Kill leaves no run and a queued message, if any.                        *)
LEMMA TypeKill ==
  ASSUME TypeOK, Kill, budget' \in [modes : Nat, crashes : Nat, faults : Nat]
  PROVE  TypeOK'
  <1>1. runs' \in [Workers -> Run \union {NoRun}] /\ \A w \in Workers : ~Live(w)'
    BY DEF Kill, Live, NoRun
  <1>2. lost' \subseteq StatusMessage
    <2>1. ASSUME NEW w \in Workers, runs[w].pc = "report"
          PROVE  ResultOf(runs[w]) \in StatusMessage
      <3>1. Live(w)
        BY <2>1 DEF Live
      <3> QED BY <3>1, <2>1, LiveRun, ResultType
    <2> QED BY <2>1 DEF Kill, TypeOK
  <1>3. mode' \in Mode /\ \A j \in Jobs : mode'.copies[j] # None => db[j] # None
    <2>1. CASE mode.pc = "idle"
      BY <2>1 DEF Kill, TypeOK, Scheduled
    <2>2. CASE mode.pc # "idle"
      <3>1. mode' = [NoMode EXCEPT !.pc = "queued", !.type = mode.type, !.tasks = mode.tasks]
        BY <2>2 DEF Kill
      <3>2. mode.type \in ModeTypes /\ mode.type # None /\ mode.tasks \in SUBSET Jobs
        BY <2>2, ModeIsType DEF TypeOK
      <3> QED BY <3>1, <3>2 DEF NoMode, Mode
    <2> QED BY <2>1, <2>2
  <1> QED BY <1>1, <1>2, <1>3 DEF Kill, TypeOK, Scheduled

(* A crash is a kill.                                                      *)
LEMMA TypeCrash == ASSUME TypeOK, Crash PROVE TypeOK'
  BY SpendType, TypeKill DEF Crash

(* An exit is a kill.                                                      *)
LEMMA TypeExit == ASSUME TypeOK, Exit PROVE TypeOK'
  <1>1. budget' \in [modes : Nat, crashes : Nat, faults : Nat]
    BY DEF Exit, TypeOK
  <1> QED BY <1>1, TypeKill DEF Exit

(* A shutdown takes the locks off documents.                               *)
LEMMA TypeShutdown == ASSUME TypeOK, Shutdown PROVE TypeOK'
  <1> DEFINE unlocked(j) == [db[j] EXCEPT !.lockedAt = Absent]
  <1>1. \A j \in Jobs : db'[j] = db[j] \/ (db[j] # None /\ db'[j] = unlocked(j))
    <2> SUFFICES ASSUME NEW j \in Jobs
                 PROVE db'[j] = db[j] \/ (db[j] # None /\ db'[j] = unlocked(j))
      OBVIOUS
    <2>1. CASE \E w \in Workers : Live(w) /\ runs[w].job = j
      <3>1. db[j] # None
        BY <2>1 DEF TypeOK, Scheduled
      <3> QED BY <3>1 DEF Shutdown
    <2>2. CASE ~\E w \in Workers : Live(w) /\ runs[w].job = j
      BY <2>2 DEF Shutdown
    <2> QED BY <2>1, <2>2
  <1>2. \A j \in Jobs : db[j] # None => unlocked(j) \in Document
    BY DEF TypeOK, Document
  <1>3. \A j \in Jobs : db[j] # None <=> db'[j] # None
    BY <1>1, <1>2, DocumentAssumption
  <1>4. db' \in [Jobs -> Maybe(Document)]
    <2>1. \A j \in Jobs : db'[j] \in Maybe(Document)
      BY <1>1, <1>2 DEF TypeOK
    <2>2. DOMAIN db' = Jobs /\ db' = [j \in DOMAIN db' |-> db'[j]]
      BY DEF Shutdown
    <2> QED BY <2>1, <2>2
  <1>5. budget' \in [modes : Nat, crashes : Nat, faults : Nat]
    BY SpendType DEF Shutdown
  <1>6. \A w \in Workers : Live(w) => runs[w].job \in Jobs
    BY LiveRun
  <1>7. service' = "stopping" /\ UNCHANGED <<now, request, runs, mode, stored, rejected,
                                             reported, lost, confirmed, disturbed>>
    BY DEF Shutdown
  <1> QED BY <1>3, <1>4, <1>5, <1>6, <1>7 DEF TypeOK, Scheduled, Live, Accepted

(* A mode message that arrives is queued.                                  *)
LEMMA TypeModeReceive == ASSUME TypeOK, ModeReceive PROVE TypeOK'
  <1>1. PICK type \in ModeTypes, tasks \in SUBSET Jobs :
          mode' = [NoMode EXCEPT !.pc = "queued", !.type = type, !.tasks = tasks]
    BY DEF ModeReceive
  <1>2. type # None
    BY ModeTypesAssumption, AbsenceAssumption
  <1>3. mode' \in Mode /\ \A j \in Jobs : mode'.copies[j] = None
    BY <1>1, <1>2 DEF NoMode, Mode
  <1>4. budget' \in [modes : Nat, crashes : Nat, faults : Nat]
    BY SpendType DEF ModeReceive
  <1> QED BY <1>3, <1>4 DEF ModeReceive, TypeOK, Scheduled, Live, Accepted

(* The copies a mode message holds are those of scheduled jobs.            *)
LEMMA TypeModeFind == ASSUME TypeOK, ModeFind PROVE TypeOK'
  <1> DEFINE found == {j \in mode.tasks : db[j] # None}
             copies == [j \in Jobs |-> IF j \in found THEN db[j] ELSE None]
  <1>1. mode' = [mode EXCEPT !.pc = "saving", !.todo = found, !.copies = copies]
    BY DEF ModeFind
  <1>2. copies \in [Jobs -> Maybe(Document)]
    BY DEF TypeOK
  <1>3. found \in SUBSET Jobs /\ mode.type \in ModeTypes /\ mode.type # None
         /\ mode.tasks \in SUBSET Jobs
    BY ModeIsType DEF TypeOK, ModeFind
  <1>4. \A j \in found : copies[j] # None
    BY <1>3
  <1>5. \A j \in Jobs : copies[j] # None => db[j] # None
    OBVIOUS
  <1> HIDE DEF found, copies
  <1>6. mode \in Mode
    BY DEF TypeOK
  <1>7. mode' \in Mode /\ mode'.copies = copies
    BY <1>1, <1>2, <1>3, <1>4, <1>6 DEF Mode
  <1> QED BY <1>5, <1>7 DEF ModeFind, TypeOK, Scheduled, Live, Accepted

(* A step of the mode message that keeps its copies.                       *)
LEMMA TypeOfModeStep ==
  ASSUME NEW m \in Mode, NEW j
  PROVE  /\ [m EXCEPT !.todo = @ \ {j}] \in Mode
         /\ [m EXCEPT !.todo = @ \ {j}].copies = m.copies
  BY DEF Mode

(* A look-up that throws leaves a stalled message.                         *)
LEMMA TypeModeFindFails == ASSUME TypeOK, ModeFindFails PROVE TypeOK'
  <1>1. mode \in Mode /\ mode.pc = "queued"
    BY DEF TypeOK, ModeFindFails
  <1>2. mode' \in Mode /\ mode'.copies = mode.copies
    BY <1>1 DEF ModeFindFails, Mode
  <1>3. budget' \in [modes : Nat, crashes : Nat, faults : Nat]
    BY SpendType DEF ModeFindFails
  <1> QED BY <1>2, <1>3 DEF ModeFindFails, TypeOK, Scheduled, Live, Accepted

(* A save that fails is done with.                                         *)
LEMMA TypeModeSaveFails == ASSUME TypeOK, NEW j \in Jobs, ModeSaveFails(j) PROVE TypeOK'
  <1>1. mode' \in Mode /\ mode'.copies = mode.copies
    BY TypeOfModeStep DEF TypeOK, ModeSaveFails
  <1>2. budget' \in [modes : Nat, crashes : Nat, faults : Nat]
    BY SpendType DEF ModeSaveFails
  <1> QED BY <1>1, <1>2 DEF ModeSaveFails, TypeOK, Scheduled, Live, Accepted

(* A mode message saves its copy with the new flag.                        *)
LEMMA TypeModeSave == ASSUME TypeOK, NEW j \in Jobs, ModeSave(j) PROVE TypeOK'
  <1> DEFINE c == [mode.copies[j] EXCEPT !.disabled = (mode.type = "DISABLED")]
             d == Save(db[j], c)
  <1>1. mode' \in Mode /\ mode'.copies = mode.copies
    BY TypeOfModeStep DEF TypeOK, ModeSave
  <1>2. mode.copies[j] \in Document
    BY ModeIsType DEF TypeOK, ModeSave
  <1>3. db[j] # None
    BY ModeIsType DEF TypeOK, ModeSave, Scheduled
  <1>4. c \in Document
    BY <1>2 DEF Document
  <1>5. d \in Document
    BY <1>3, <1>4, SaveType DEF TypeOK
  <1>6. db' = [db EXCEPT ![j] = d]
    BY DEF ModeSave
  <1> HIDE DEF d
  <1>7. /\ db' \in [Jobs -> Maybe(Document)]
        /\ \A k \in Jobs : db'[k] # None <=> db[k] # None
    BY <1>3, <1>5, <1>6, TypeOfSave
  <1>8. disturbed' \in [Jobs -> SUBSET {"overrun", "mode"}]
    BY DEF ModeSave, TypeOK
  <1>9. \A w \in Workers : Live(w) => runs[w].job \in Jobs
    BY LiveRun
  <1> QED BY <1>1, <1>7, <1>8, <1>9 DEF ModeSave, TypeOK, Scheduled, Live, Accepted

(* The reply confirms the type of the message.                             *)
LEMMA TypeModeReply == ASSUME TypeOK, ModeReply PROVE TypeOK'
  <1>1. mode.type \in ModeTypes
    BY ModeIsType DEF TypeOK, ModeReply
  <1>2. confirmed' \in [Jobs -> Maybe(ModeTypes)]
    BY <1>1 DEF TypeOK, ModeReply
  <1> QED BY <1>2, NoModeType DEF ModeReply, TypeOK, Scheduled, Live, Accepted

(* Types are preserved by every step.                                      *)
LEMMA NextType == TypeOK /\ [Next]_vars => TypeOK'
  <1> SUFFICES ASSUME TypeOK, [Next]_vars PROVE TypeOK'
    OBVIOUS
  <1>1. ASSUME NEW w \in Workers, NEW j \in Jobs, LockDue(w, j) PROVE TypeOK'
    <2>1. disturbed' \in [Jobs -> SUBSET {"overrun", "mode"}]
      BY <1>1 DEF LockDue, TypeOK
    <2> QED BY <1>1, <2>1, TypeTakeLock DEF LockDue
  <1>2. ASSUME NEW w \in Workers, NEW j \in Jobs, LockExpired(w, j) PROVE TypeOK'
    <2>1. disturbed' \in [Jobs -> SUBSET {"overrun", "mode"}]
      BY <1>2 DEF LockExpired, TypeOK
    <2> QED BY <1>2, <2>1, TypeTakeLock DEF LockExpired
  <1>3. CASE Tick
    BY <1>3 DEF Tick, TypeOK, Scheduled, Live, Accepted
  <1>4. CASE UNCHANGED vars
    BY <1>4 DEF vars, TypeOK, Scheduled, Live, Accepted
  <1> QED
    BY <1>1, <1>2, <1>3, <1>4, TypeScheduleJob, TypeRefuseTask, TypeDropExpired,
       TypeStart, TypeDownload, TypeStoreFile, TypeSaveProgress, TypePostpone,
       TypeReport, TypeFail, TypeSaveUnanswered, TypeFinish, TypeRunStateLost, TypeCrash, TypeShutdown,
       TypeExit, TypeModeReceive, TypeModeFind, TypeModeFindFails, TypeModeSave,
       TypeModeSaveFails, TypeModeReply DEF Next

(* Type correctness of the whole component, for any jobs, slots, sensors,  *)
(* requests and bounds.                                                    *)
THEOREM TypeCorrect == Spec => []TypeOK
  <1> QED BY InitType, NextType, PTL DEF Spec
------------------------------------------------------------------------------
(* The cursors that a step may save: a document's own, the one in the copy *)
(* of a run, and the one in a copy a mode message holds.                   *)
Cursors(j) ==
  {d \in Int : \/ Scheduled(j) /\ d = db[j].currentDateFrom
               \/ \E w \in Workers : /\ Live(w) /\ runs[w].job = j
                                     /\ d = runs[w].copy.currentDateFrom
               \/ mode.copies[j] # None /\ d = mode.copies[j].currentDateFrom}

(* A run that is storing files: its window begins at its cursor, and what  *)
(* it no longer has to store was stored or could not be downloaded.        *)
StoresItsWindow(run) ==
  run.pc = "store" =>
    /\ run.period.from = run.copy.currentDateFrom
    /\ run.period.nextFrom \in {run.period.from, run.period.to}
    /\ Files(run.job, run.period, run.results) \subseteq stored
    /\ Files(run.job, run.period, Sensors \ (run.todo \union run.results))
         \subseteq rejected

(* A run that is about to report a result has stored its files.            *)
ReportsItsWindow(run) ==
  run.pc = "report" /\ run.period.canFetch =>
    /\ Files(run.job, run.period, run.results) \subseteq stored
    /\ Files(run.job, run.period, Sensors \ run.results) \subseteq rejected

(* The inductive invariant behind the properties of the cursor: every      *)
(* cursor that can still be saved is covered and told, not only the stored *)
(* one, and runs report what they stored.                                  *)
FeedInv ==
  /\ TypeOK
  /\ \A j \in Jobs : \A d \in Cursors(j) : Covered(j, d) /\ Told(j, d)
  /\ \A w \in Workers : StoresItsWindow(runs[w]) /\ ReportsItsWindow(runs[w])
  /\ ReportsAreStored

(* A range stays covered as files are added.                               *)
LEMMA FilesGrow ==
  ASSUME NEW j \in Jobs, NEW d \in Int, Covered(j, d), request'[j] = request[j],
         stored \subseteq stored', rejected \subseteq rejected'
  PROVE  Covered(j, d)'
  BY DEF Covered

(* Results stay results: a run that leaves "report" has sent or lost its own.*)
LEMMA ResultsGrow ==
  ASSUME TypeOK, TypeOK', reported \subseteq reported', lost \subseteq lost',
         \A w \in Workers : runs[w].pc = "report" =>
           runs'[w] = runs[w] \/ ResultOf(runs[w]) \in reported' \union lost'
  PROVE  Results \subseteq Results'
  <1> SUFFICES ASSUME NEW m \in Results PROVE m \in Results'
    OBVIOUS
  <1>1. CASE m \in reported \union lost /\ HasResult(m)
    BY <1>1 DEF Results
  <1>2. CASE \E w \in Workers : /\ runs[w].pc = "report" /\ runs[w].period.canFetch
                               /\ m = ResultOf(runs[w])
    <2>1. PICK w \in Workers : /\ runs[w].pc = "report" /\ runs[w].period.canFetch
                               /\ m = ResultOf(runs[w])
      BY <1>2
    <2>2. runs[w].period \in Period
      BY <2>1, LiveRun DEF Live, Run
    <2>3. HasResult(m)
      BY <2>1, <2>2, NoneAssumption DEF HasResult, ResultOf, Period
    <2>4. CASE runs'[w] = runs[w]
      <3>1. m = ResultOf(runs'[w])
        BY <2>1, <2>4
      <3> QED BY <2>1, <2>4, <3>1 DEF Results, ResultOf
    <2>5. CASE m \in reported' \union lost'
      BY <2>3, <2>5 DEF Results
    <2> QED BY <2>1, <2>4, <2>5
  <1> QED BY <1>1, <1>2 DEF Results

(* A range stays told as results are added.                                *)
LEMMA ToldGrows ==
  ASSUME NEW j \in Jobs, NEW d \in Int, Told(j, d), request'[j] = request[j],
         Results \subseteq Results'
  PROVE  Told(j, d)'
  BY DEF Told

(* A step that saves and takes over nothing but existing cursors.          *)
LEMMA NoNewCursor ==
  ASSUME FeedInv, TypeOK',
         \A j \in Jobs : Cursors(j)' \subseteq Cursors(j),
         \A j \in Jobs : db[j] # None => request'[j] = request[j],
         stored \subseteq stored', rejected \subseteq rejected',
         Results \subseteq Results'
  PROVE  \A j \in Jobs : \A d \in Cursors(j)' : Covered(j, d)' /\ Told(j, d)'
  <1>1. ASSUME NEW j \in Jobs, NEW d \in Cursors(j)' PROVE Covered(j, d)' /\ Told(j, d)'
    <2>1. d \in Cursors(j) /\ d \in Int
      BY DEF Cursors
    <2>2. db[j] # None
      BY <2>1 DEF Cursors, FeedInv, TypeOK, Scheduled
    <2> QED BY <2>1, <2>2, FilesGrow, ToldGrows DEF FeedInv
  <1> QED BY <1>1

(* The steps that neither fetch nor report a result: they move no cursor   *)
(* on, and a run they change is neither storing nor about to report one.   *)
LEMMA QuietStep ==
  ASSUME FeedInv, TypeOK',
         \A j \in Jobs : Cursors(j)' \subseteq Cursors(j),
         \A j \in Jobs : db[j] # None => request'[j] = request[j],
         UNCHANGED <<stored, rejected>>,
         reported \subseteq reported', lost \subseteq lost',
         \A m \in reported' : m \in reported \/ ~HasResult(m),
         \A w \in Workers :
           \/ runs'[w] = runs[w]
           \/ /\ runs'[w].pc # "store"
              /\ runs'[w].pc = "report" => ~runs'[w].period.canFetch
              /\ runs[w].pc = "report" => ResultOf(runs[w]) \in lost'
  PROVE  FeedInv'
  <1>1. Results \subseteq Results'
    BY ResultsGrow DEF FeedInv
  <1>2. \A j \in Jobs : \A d \in Cursors(j)' : Covered(j, d)' /\ Told(j, d)'
    BY <1>1, NoNewCursor
  <1>3. ASSUME NEW w \in Workers
        PROVE  StoresItsWindow(runs[w])' /\ ReportsItsWindow(runs[w])'
    BY DEF FeedInv, StoresItsWindow, ReportsItsWindow
  <1>4. ReportsAreStored'
    BY DEF FeedInv, ReportsAreStored, HasResult
  <1> QED BY <1>2, <1>3, <1>4 DEF FeedInv

(* What happens to the cursors when a step leaves documents or copies as   *)
(* they are, or writes one of the cursors there already.                   *)
LEMMA CursorsKept ==
  ASSUME TypeOK,
         \A j \in Jobs : db'[j] # None =>
           db[j] # None /\ db'[j].currentDateFrom \in Cursors(j),
         \A w \in Workers : runs'[w].pc # "idle" =>
           /\ runs'[w].job \in Jobs
           /\ runs'[w].copy.currentDateFrom \in Cursors(runs'[w].job),
         \A j \in Jobs : mode'.copies[j] # None =>
           mode'.copies[j].currentDateFrom \in Cursors(j)
  PROVE  \A j \in Jobs : Cursors(j)' \subseteq Cursors(j)
  <1> SUFFICES ASSUME NEW j \in Jobs, NEW d \in Cursors(j)' PROVE d \in Cursors(j)
    OBVIOUS
  <1>1. CASE Scheduled(j)' /\ d = db'[j].currentDateFrom
    BY <1>1 DEF Scheduled
  <1>2. CASE \E w \in Workers : /\ Live(w)' /\ runs'[w].job = j
                               /\ d = runs'[w].copy.currentDateFrom
    BY <1>2 DEF Live
  <1>3. CASE mode'.copies[j] # None /\ d = mode'.copies[j].currentDateFrom
    BY <1>3
  <1> QED BY <1>1, <1>2, <1>3 DEF Cursors

(* The stored cursor and that of every copy are among the cursors of a job.*)
LEMMA CursorsThere ==
  ASSUME TypeOK
  PROVE  /\ \A j \in Jobs : db[j] # None => db[j].currentDateFrom \in Cursors(j)
         /\ \A w \in Workers : Live(w) =>
              /\ runs[w].job \in Jobs
              /\ runs[w].copy.currentDateFrom \in Cursors(runs[w].job)
         /\ \A j \in Jobs : mode.copies[j] # None =>
              mode.copies[j].currentDateFrom \in Cursors(j)
  <1>1. ASSUME NEW j \in Jobs, db[j] # None PROVE db[j].currentDateFrom \in Cursors(j)
    <2>1. db[j].currentDateFrom \in Int
      BY <1>1 DEF TypeOK, Document
    <2> QED BY <1>1, <2>1 DEF Cursors, Scheduled
  <1>2. ASSUME NEW w \in Workers, Live(w)
        PROVE  /\ runs[w].job \in Jobs
               /\ runs[w].copy.currentDateFrom \in Cursors(runs[w].job)
    <2>1. runs[w].job \in Jobs /\ runs[w].copy.currentDateFrom \in Int
      BY <1>2, LiveRun DEF Document
    <2> QED BY <1>2, <2>1 DEF Cursors
  <1>3. ASSUME NEW j \in Jobs, mode.copies[j] # None
        PROVE  mode.copies[j].currentDateFrom \in Cursors(j)
    <2>1. mode.copies[j] \in Document
      BY <1>3, ModeIsType DEF TypeOK
    <2>2. mode.copies[j].currentDateFrom \in Int
      BY <2>1 DEF Document
    <2> QED BY <1>3, <2>2 DEF Cursors
  <1> QED BY <1>1, <1>2, <1>3

(* Kill: the runs are gone, their results are in lost.                     *)
LEMMA FeedKill == ASSUME FeedInv, TypeOK', Kill PROVE FeedInv'
  <1>1. \A w \in Workers : runs'[w].pc = "idle"
    BY DEF Kill, NoRun
  <1>2. mode' = mode \/ \A j \in Jobs : mode'.copies[j] = None
    BY DEF Kill, NoMode
  <1>3. \A j \in Jobs : Cursors(j)' \subseteq Cursors(j)
    BY <1>1, <1>2, CursorsKept, CursorsThere DEF FeedInv, Kill
  <1>4. \A w \in Workers : runs[w].pc = "report" => ResultOf(runs[w]) \in lost'
    BY DEF Kill
  <1>5. UNCHANGED <<request, stored, rejected, reported>> /\ lost \subseteq lost'
    BY DEF Kill
  <1> QED BY <1>1, <1>3, <1>4, <1>5, QuietStep

(* Steps of one slot that move no cursor on.                               *)
LEMMA FeedQuietSlot ==
  ASSUME FeedInv, TypeOK', NEW w \in Workers,
         \/ Start(w) \/ DropExpired(w) \/ RunStateLost(w) \/ Finish(w) \/ Postpone(w)
         \/ Fail(w)
  PROVE  FeedInv'
  <1> DEFINE j == runs[w].job
  <1>1. Live(w) /\ runs[w].pc # "report" /\ j \in Jobs /\ db[j] \in Document
         /\ runs[w].copy \in Document
    BY LiveRun DEF Start, DropExpired, RunStateLost, Finish, Postpone, Fail, Live, FeedInv
  <1>2. \A v \in Workers : v # w => runs'[v] = runs[v]
    BY DEF Start, DropExpired, RunStateLost, Finish, Postpone, Fail, FeedInv, TypeOK
  <1>3. \/ runs'[w].pc = "idle"
        \/ /\ runs'[w].job = j
           /\ runs'[w].copy.currentDateFrom = runs[w].copy.currentDateFrom
           /\ runs'[w].pc # "store"
           /\ runs'[w].pc = "report" => ~runs'[w].period.canFetch
    <2>1. runs[w] \in Run
      BY <1>1, LiveRun DEF FeedInv
    <2>2. CASE DropExpired(w) \/ RunStateLost(w) \/ Finish(w)
      BY <2>2 DEF DropExpired, RunStateLost, Finish, NoRun, FeedInv, TypeOK
    <2>3. CASE Start(w)
      BY <2>1, <2>3, <1>1 DEF Start, FeedInv, TypeOK, Run, Document
    <2>4. CASE Postpone(w)
      BY <2>1, <2>4, <1>1 DEF Postpone, Postponed, FeedInv, TypeOK, Run, Document
    <2>5. CASE Fail(w)
      <3>1. PICK copy : /\ copy = runs[w].copy \/ copy = Postponed(runs[w], PeriodOf(w))
                        /\ runs' = [runs EXCEPT ![w].pc = "finish", ![w].copy = copy]
        BY <2>5 DEF Fail
      <3>2. copy.currentDateFrom = runs[w].copy.currentDateFrom
        BY <3>1, <1>1 DEF Postponed, Document
      <3>3. runs' = [runs EXCEPT ![w] = [runs[w] EXCEPT !.pc = "finish", !.copy = copy]]
        BY <3>1 DEF FeedInv, TypeOK
      <3>4. runs'[w] = [runs[w] EXCEPT !.pc = "finish", !.copy = copy]
        BY <3>3 DEF FeedInv, TypeOK
      <3> QED BY <2>1, <3>2, <3>4 DEF Run
    <2> QED BY <2>2, <2>3, <2>4, <2>5
  <1>4. /\ \A k \in Jobs : k # j => db'[k] = db[k]
        /\ db'[j].currentDateFrom \in {db[j].currentDateFrom, runs[w].copy.currentDateFrom}
    <2>1. CASE DropExpired(w) \/ RunStateLost(w) \/ Fail(w)
      BY <2>1 DEF DropExpired, RunStateLost, Fail
    <2>2. CASE Start(w) \/ Finish(w)
      <3>1. \E c : db' = [db EXCEPT ![j] = SaveRunState(@, c)]
        BY <2>2 DEF Start, Finish
      <3> QED BY <3>1, <1>1 DEF SaveRunState, FeedInv, TypeOK, Document
    <2>3. CASE Postpone(w)
      BY <2>3, <1>1 DEF Postpone, Postponed, Save, FeedInv, TypeOK, Document
    <2> QED BY <2>1, <2>2, <2>3
  <1>5. UNCHANGED <<request, mode, stored, rejected, lost>>
    BY DEF Start, DropExpired, RunStateLost, Finish, Postpone, Fail
  <1>6. reported \subseteq reported' /\ \A m \in reported' : m \in reported \/ ~HasResult(m)
    BY DEF Start, DropExpired, RunStateLost, Finish, Postpone, Fail, FailureOf, HasResult
  <1>7. db[j] # None /\ \A k \in Jobs : db'[k] # None => db[k] # None
    BY <1>1, <1>4, DocumentAssumption
  <1> HIDE DEF j
  <1>8. \A k \in Jobs : Cursors(k)' \subseteq Cursors(k)
    <2>1. \A k \in Jobs : db'[k] # None =>
           db[k] # None /\ db'[k].currentDateFrom \in Cursors(k)
      BY <1>1, <1>4, <1>7, CursorsThere DEF FeedInv, j
    <2>2. \A v \in Workers : runs'[v].pc # "idle" =>
           /\ runs'[v].job \in Jobs
           /\ runs'[v].copy.currentDateFrom \in Cursors(runs'[v].job)
      BY <1>1, <1>2, <1>3, CursorsThere DEF FeedInv, j, Live
    <2> QED BY <1>5, <2>1, <2>2, CursorsKept, CursorsThere DEF FeedInv
  <1> QED BY <1>1, <1>2, <1>3, <1>5, <1>6, <1>8, QuietStep

(* A lock copies a stored cursor.                                          *)
LEMMA FeedTakeLock ==
  ASSUME FeedInv, TypeOK', NEW w \in Workers, NEW j \in Jobs, db[j] # None, TakeLock(w, j)
  PROVE  FeedInv'
  <1>1. /\ db[j] \in Document
        /\ db' = [db EXCEPT ![j] = [db[j] EXCEPT !.lockedAt = now]]
    BY DEF TakeLock, FeedInv, TypeOK
  <1>2. /\ \A k \in Jobs : k # j => db'[k] = db[k]
        /\ db'[j].currentDateFrom = db[j].currentDateFrom
    BY <1>1 DEF FeedInv, TypeOK, Document
  <1>3. /\ \A v \in Workers : v # w => runs'[v] = runs[v]
        /\ runs'[w] = [NoRun EXCEPT !.pc = "locked", !.job = j, !.copy = db'[j]]
    BY DEF TakeLock, FeedInv, TypeOK
  <1>4. /\ runs'[w].pc = "locked" /\ runs'[w].job = j
        /\ runs'[w].copy.currentDateFrom = db[j].currentDateFrom
    BY <1>2, <1>3 DEF NoRun
  <1>5. runs[w].pc = "idle" /\ UNCHANGED <<request, mode, stored, rejected, reported, lost>>
    BY DEF TakeLock, Live
  <1>6. \A k \in Jobs : Cursors(k)' \subseteq Cursors(k)
    <2>1. \A k \in Jobs : db'[k] # None =>
           db[k] # None /\ db'[k].currentDateFrom \in Cursors(k)
      BY <1>2, CursorsThere DEF FeedInv
    <2>2. \A v \in Workers : runs'[v].pc # "idle" =>
           /\ runs'[v].job \in Jobs
           /\ runs'[v].copy.currentDateFrom \in Cursors(runs'[v].job)
      BY <1>3, <1>4, CursorsThere DEF FeedInv, Live
    <2> QED BY <1>5, <2>1, <2>2, CursorsKept, CursorsThere DEF FeedInv
  <1> QED BY <1>3, <1>4, <1>5, <1>6, QuietStep

(* A refused task has no cursor.                                           *)
LEMMA FeedRefuseTask ==
  ASSUME FeedInv, TypeOK', NEW j \in Jobs, RefuseTask(j) PROVE FeedInv'
  <1>1. UNCHANGED <<db, runs, mode, stored, rejected, lost>>
    BY DEF RefuseTask
  <1>2. \A k \in Jobs : Cursors(k)' \subseteq Cursors(k)
    BY <1>1, CursorsKept, CursorsThere DEF FeedInv, Live
  <1>3. reported \subseteq reported' /\ \A m \in reported' : m \in reported \/ ~HasResult(m)
    BY DEF RefuseTask, FailureOf, HasResult
  <1>4. \A k \in Jobs : db[k] # None => request'[k] = request[k]
    BY DEF RefuseTask, FeedInv, TypeOK, Scheduled
  <1> QED BY <1>1, <1>2, <1>3, <1>4, QuietStep

(* Steps that leave the runs and the messages alone.                       *)
LEMMA FeedQuietElse ==
  ASSUME FeedInv, TypeOK',
         \/ Shutdown \/ ModeReceive \/ ModeFind \/ ModeFindFails \/ ModeReply \/ Tick
         \/ UNCHANGED vars \/ \E j \in Jobs : ModeSave(j) \/ ModeSaveFails(j)
  PROVE  FeedInv'
  <1>1. UNCHANGED <<request, runs, stored, rejected, reported, lost>>
    BY DEF Shutdown, ModeReceive, ModeFind, ModeFindFails, ModeReply, Tick, vars,
           ModeSave, ModeSaveFails
  <1>2. \A k \in Jobs : db'[k] # None =>
          db[k] # None /\ db'[k].currentDateFrom \in Cursors(k)
    <2>1. CASE UNCHANGED db
      BY <2>1, CursorsThere DEF FeedInv
    <2>2. CASE Shutdown
      <3>1. ASSUME NEW k \in Jobs
            PROVE db'[k] = db[k] \/ db'[k] = [db[k] EXCEPT !.lockedAt = Absent]
        BY <2>2 DEF Shutdown
      <3>2. ASSUME NEW k \in Jobs, db[k] = None PROVE db'[k] = None
        <4>1. ~\E w \in Workers : Live(w) /\ runs[w].job = k
          BY <3>2 DEF FeedInv, TypeOK, Scheduled
        <4> QED BY <4>1, <3>2, <2>2 DEF Shutdown
      <3>3. \A k \in Jobs : db[k] # None => db'[k].currentDateFrom = db[k].currentDateFrom
        BY <3>1 DEF FeedInv, TypeOK, Document
      <3> QED BY <3>2, <3>3, CursorsThere DEF FeedInv
    <2>3. CASE \E j \in Jobs : ModeSave(j)
      <3>1. PICK j \in Jobs : ModeSave(j)
        BY <2>3
      <3>2. mode.copies[j] # None /\ mode.copies[j] \in Document /\ db[j] # None
        BY <3>1, ModeIsType DEF ModeSave, FeedInv, TypeOK, Scheduled
      <3>3. db'[j].currentDateFrom = mode.copies[j].currentDateFrom
        BY <3>1, <3>2 DEF ModeSave, Save, FeedInv, TypeOK, Document
      <3>4. \A k \in Jobs : k # j => db'[k] = db[k]
        BY <3>1 DEF ModeSave, FeedInv, TypeOK
      <3> QED BY <3>2, <3>3, <3>4, CursorsThere DEF FeedInv
    <2> QED BY <2>1, <2>2, <2>3 DEF ModeReceive, ModeFind, ModeFindFails, ModeReply,
               Tick, vars, ModeSaveFails
  <1>3. \A k \in Jobs : mode'.copies[k] # None =>
          mode'.copies[k].currentDateFrom \in Cursors(k)
    <2>1. CASE mode' = mode \/ mode'.copies = mode.copies
      BY <2>1, CursorsThere DEF FeedInv
    <2>2. CASE \A k \in Jobs : mode'.copies[k] = None
      BY <2>2
    <2>3. CASE \A k \in Jobs : mode'.copies[k] \in {db[k], None}
      BY <2>3, CursorsThere DEF FeedInv
    <2>4. CASE Shutdown \/ Tick \/ UNCHANGED vars
      BY <2>1, <2>4 DEF Shutdown, Tick, vars
    <2>5. CASE ModeReceive \/ ModeReply
      <3>1. mode'.copies = NoMode.copies
        BY <2>5 DEF ModeReceive, ModeReply, NoMode
      <3> QED BY <2>2, <3>1, NoModeType
    <2>6. CASE ModeFind
      BY <2>3, <2>6 DEF ModeFind, FeedInv, TypeOK, Mode
    <2>7. CASE ModeFindFails \/ \E j \in Jobs : ModeSave(j) \/ ModeSaveFails(j)
      BY <2>1, <2>7 DEF ModeFindFails, ModeSave, ModeSaveFails, FeedInv, TypeOK, Mode
    <2> QED BY <2>4, <2>5, <2>6, <2>7
  <1>4. \A k \in Jobs : Cursors(k)' \subseteq Cursors(k)
    BY <1>1, <1>2, <1>3, CursorsKept, CursorsThere DEF FeedInv, Live
  <1> QED BY <1>1, <1>4, QuietStep

(* A new job's cursor is the start of its range: nothing lies before it.   *)
LEMMA FeedScheduleJob ==
  ASSUME FeedInv, TypeOK', NEW j \in Jobs, ScheduleJob(j) PROVE FeedInv'
  <1>1. request[j] = None /\ db[j] = None
    BY DEF ScheduleJob, FeedInv, TypeOK, Scheduled
  <1>2. /\ \A k \in Jobs : k # j => db'[k] = db[k] /\ request'[k] = request[k]
        /\ db'[j].currentDateFrom = request'[j].dateFrom
    BY DEF ScheduleJob, FeedInv, TypeOK
  <1>3. UNCHANGED <<runs, mode, stored, rejected, reported, lost>>
    BY DEF ScheduleJob
  <1>4. \A k \in Jobs : k # j => Cursors(k)' \subseteq Cursors(k)
    BY <1>2, <1>3 DEF Cursors, Scheduled, Live
  <1>5. \A d \in Cursors(j)' : d = request'[j].dateFrom
    <2>1. mode.copies[j] = None /\ \A w \in Workers : Live(w) => runs[w].job # j
      BY <1>1 DEF FeedInv, TypeOK, Scheduled
    <2> QED BY <1>2, <1>3, <2>1 DEF Cursors, Live
  <1>6. Results \subseteq Results'
    BY <1>3, ResultsGrow DEF FeedInv
  <1>7. ASSUME NEW k \in Jobs, NEW d \in Cursors(k)' PROVE Covered(k, d)' /\ Told(k, d)'
    <2>1. d \in Int
      BY DEF Cursors
    <2>2. CASE k = j
      BY <1>5, <2>1, <2>2 DEF Covered, Told
    <2>3. CASE k # j
      <3>1. d \in Cursors(k)
        BY <1>4, <2>3
      <3> QED BY <1>2, <1>3, <1>6, <2>1, <2>3, <3>1, FilesGrow, ToldGrows DEF FeedInv
    <2> QED BY <2>2, <2>3
  <1> QED BY <1>3, <1>7 DEF FeedInv, StoresItsWindow, ReportsItsWindow, ReportsAreStored

(* Downloading: what was not downloaded is recorded as rejected, and the   *)
(* window begins at the cursor.                                            *)
LEMMA FeedDownload ==
  ASSUME FeedInv, TypeOK', NEW w \in Workers, Download(w) PROVE FeedInv'
  <1> DEFINE run == runs[w]
             period == PeriodOf(w)
  <1>1. PICK fetched \in SUBSET Sensors :
           /\ rejected' = rejected \union Files(run.job, period, Sensors \ fetched)
           /\ runs' = [runs EXCEPT ![w].pc = "store", ![w].period = period,
                                   ![w].todo = fetched, ![w].results = {}]
    BY DEF Download
  <1>2. Live(w) /\ run.pc = "started" /\ run \in Run
    BY LiveRun DEF Download, Live, FeedInv
  <1>3. UNCHANGED <<request, db, mode, stored, reported, lost>>
    BY DEF Download
  <1>4. /\ \A v \in Workers : v # w => runs'[v] = runs[v]
        /\ runs'[w] = [run EXCEPT !.pc = "store", !.period = period,
                                  !.todo = fetched, !.results = {}]
    BY <1>1 DEF FeedInv, TypeOK
  <1>5. period.from = run.copy.currentDateFrom /\ period.nextFrom \in {period.from, period.to}
    BY DEF PeriodOf, FetchPeriodData, WindowPeriod, WholePeriod, Payload
  <1> HIDE DEF period
  <1>6. /\ runs'[w].pc = "store" /\ runs'[w].job = run.job /\ runs'[w].copy = run.copy
        /\ runs'[w].period = period /\ runs'[w].todo = fetched /\ runs'[w].results = {}
    BY <1>2, <1>4 DEF Run
  <1>7. \A k \in Jobs : Cursors(k)' \subseteq Cursors(k)
    BY <1>2, <1>3, <1>4, <1>6, CursorsKept, CursorsThere DEF FeedInv, Live
  <1>8. Results \subseteq Results'
    BY <1>2, <1>3, <1>4, ResultsGrow DEF FeedInv
  <1>9. \A j \in Jobs : \A d \in Cursors(j)' : Covered(j, d)' /\ Told(j, d)'
    BY <1>1, <1>3, <1>7, <1>8, NoNewCursor
  <1>10. ASSUME NEW v \in Workers PROVE StoresItsWindow(runs[v])' /\ ReportsItsWindow(runs[v])'
    <2>1. CASE v = w
      BY <1>1, <1>5, <1>6, <2>1 DEF StoresItsWindow, ReportsItsWindow, Files
    <2>2. CASE v # w
      BY <1>1, <1>3, <1>4, <2>2 DEF FeedInv, StoresItsWindow, ReportsItsWindow
    <2> QED BY <2>1, <2>2
  <1>11. ReportsAreStored'
    BY <1>1, <1>3 DEF FeedInv, ReportsAreStored
  <1> QED BY <1>9, <1>10, <1>11 DEF FeedInv

(* A stored file is one file more.                                         *)
LEMMA FeedStoreFile ==
  ASSUME FeedInv, TypeOK', NEW w \in Workers, StoreFile(w) PROVE FeedInv'
  <1> DEFINE run == runs[w]
  <1>1. PICK s \in run.todo :
           /\ stored' = stored \union Files(run.job, run.period, {s})
           /\ runs' = [runs EXCEPT ![w].todo = @ \ {s}, ![w].results = @ \union {s}]
    BY DEF StoreFile
  <1>2. Live(w) /\ run.pc = "store" /\ run \in Run
    BY LiveRun DEF StoreFile, Live, FeedInv
  <1>3. UNCHANGED <<request, db, mode, rejected, reported, lost>>
    BY DEF StoreFile
  <1>4. /\ \A v \in Workers : v # w => runs'[v] = runs[v]
        /\ runs'[w] = [run EXCEPT !.todo = @ \ {s}, !.results = @ \union {s}]
    BY <1>1 DEF FeedInv, TypeOK
  <1>5. /\ runs'[w].pc = "store" /\ runs'[w].job = run.job /\ runs'[w].copy = run.copy
        /\ runs'[w].period = run.period /\ runs'[w].todo = run.todo \ {s}
        /\ runs'[w].results = run.results \union {s}
    BY <1>2, <1>4 DEF Run
  <1>6. \A k \in Jobs : Cursors(k)' \subseteq Cursors(k)
    BY <1>2, <1>3, <1>4, <1>5, CursorsKept, CursorsThere DEF FeedInv, Live
  <1>7. Results \subseteq Results'
    BY <1>2, <1>3, <1>4, ResultsGrow DEF FeedInv
  <1>8. \A j \in Jobs : \A d \in Cursors(j)' : Covered(j, d)' /\ Told(j, d)'
    BY <1>1, <1>3, <1>6, <1>7, NoNewCursor
  <1>9. ASSUME NEW v \in Workers PROVE StoresItsWindow(runs[v])' /\ ReportsItsWindow(runs[v])'
    <2>1. CASE v = w
      <3>1. (run.todo \ {s}) \union (run.results \union {s}) = run.todo \union run.results
        BY <1>1
      <3>2. Files(run.job, run.period, run.results \union {s})
              = Files(run.job, run.period, run.results) \union Files(run.job, run.period, {s})
        BY DEF Files
      <3>3. StoresItsWindow(run)
        BY DEF FeedInv
      <3>4. StoresItsWindow(runs[w])'
        <4>1. Files(run.job, run.period, run.results \union {s}) \subseteq stored'
          BY <1>1, <1>2, <3>2, <3>3 DEF StoresItsWindow
        <4> QED BY <1>2, <1>3, <1>5, <3>1, <3>3, <4>1 DEF StoresItsWindow, Files
      <3> QED BY <1>5, <2>1, <3>4 DEF ReportsItsWindow, StoresItsWindow
    <2>2. CASE v # w
      BY <1>1, <1>3, <1>4, <2>2 DEF FeedInv, StoresItsWindow, ReportsItsWindow
    <2> QED BY <2>1, <2>2
  <1>10. ReportsAreStored'
    BY <1>1, <1>3 DEF FeedInv, ReportsAreStored
  <1> QED BY <1>8, <1>9, <1>10 DEF FeedInv

(* The one step that moves a cursor on: the new cursor is the end of a     *)
(* window that is stored for every sensor, and the run is about to report  *)
(* that window.                                                            *)
LEMMA FeedSaveProgress ==
  ASSUME FeedInv, TypeOK', NEW w \in Workers, SaveProgress(w) PROVE FeedInv'
  <1> DEFINE run == runs[w]
  <1>1. /\ Live(w) /\ run.pc = "store" /\ run.todo = {} /\ run \in Run /\ run.job \in Jobs
       /\ run.copy \in Document /\ db[run.job] \in Document
    BY LiveRun DEF SaveProgress, Live, FeedInv
  <1>2. run.period.nextFrom \in Int
    BY <1>1 DEF Run, Period
  <1>3. PICK j \in Jobs, next \in Int : j = run.job /\ next = run.period.nextFrom
    BY <1>1, <1>2
  <1>4. /\ Live(w) /\ run.pc = "store" /\ run.todo = {} /\ run \in Run /\ run.job = j
        /\ run.copy \in Document /\ db[j] \in Document
    BY <1>1, <1>3
  <1>5. run.period \in Period /\ run.period.canFetch /\ run.results \in SUBSET Sensors
         /\ next = run.period.nextFrom /\ run.period.from \in Int /\ run.period.to \in Int
    BY <1>3, <1>4 DEF Run, Period
  <1>6. UNCHANGED <<request, mode, stored, rejected, reported, lost>>
    BY DEF SaveProgress
  <1>7. /\ \A v \in Workers : v # w => runs'[v] = runs[v]
        /\ runs'[w] = [run EXCEPT !.pc = "report", !.copy = Advanced(run)]
        /\ \A k \in Jobs : k # j => db'[k] = db[k]
        /\ db'[j] = Save(db[j], Advanced(run))
    BY <1>4 DEF SaveProgress, FeedInv, TypeOK
  <1>8. Advanced(run).currentDateFrom = next
    BY <1>3, <1>4 DEF Advanced, Document
  <1>9. /\ runs'[w].pc = "report" /\ runs'[w].job = j
        /\ runs'[w].period = run.period /\ runs'[w].results = run.results
        /\ runs'[w].copy.currentDateFrom = next
    BY <1>4, <1>7, <1>8 DEF Run
  <1>10. db'[j].currentDateFrom = next
    <2>1. Advanced(run) \in Document
      BY <1>4, <1>5, AdvancedType
    <2> QED BY <2>1, <1>7, <1>8 DEF Save, Document
  <1>11. db[j] # None
    BY <1>4, DocumentAssumption
  <1>12. Results \subseteq Results'
    BY <1>4, <1>6, <1>7, ResultsGrow DEF FeedInv
  <1>13. /\ Files(j, run.period, run.results) \subseteq stored
         /\ Files(j, run.period, Sensors \ run.results) \subseteq rejected
         /\ run.period.from = run.copy.currentDateFrom
         /\ next \in {run.period.from, run.period.to}
    <2>1. run.todo \union run.results = run.results
      BY <1>4
    <2>2. StoresItsWindow(run)
      BY DEF FeedInv
    <2> QED BY <1>3, <1>4, <2>1, <2>2 DEF StoresItsWindow
  <1>14. Covered(j, run.copy.currentDateFrom) /\ Told(j, run.copy.currentDateFrom)
    BY <1>4, CursorsThere DEF FeedInv
  <1>15. request[j].dateFrom \in Int
    BY <1>3, <1>4, LiveRun DEF FeedInv
  <1>16. Covered(j, next)'
    <2> SUFFICES ASSUME NEW t \in request[j].dateFrom .. next - 1, NEW s \in Sensors
                 PROVE \E f \in stored \union rejected :
                         f.job = j /\ f.sensor = s /\ f.from =< t /\ t < f.to
      BY <1>6 DEF Covered
    <2>1. CASE t < run.copy.currentDateFrom
      <3>1. t \in request[j].dateFrom .. run.copy.currentDateFrom - 1
        BY <2>1, <1>4, <1>5, <1>13, <1>15
      <3> QED BY <3>1, <1>14 DEF Covered
    <2>2. CASE ~(t < run.copy.currentDateFrom)
      <3> DEFINE f == [job |-> j, from |-> run.period.from, to |-> run.period.to,
                       sensor |-> s]
      <3>1. f \in stored \union rejected
        BY <1>13 DEF Files
      <3>2. f.from =< t /\ t < f.to
        BY <2>2, <1>4, <1>5, <1>13, <1>15
      <3> QED BY <3>1, <3>2
    <2> QED BY <2>1, <2>2
  <1>17. Told(j, next)'
    <2> DEFINE m == ResultOf(runs'[w])
    <2>1. m.job = j /\ m.from = run.period.from /\ m.to = run.period.to
      BY <1>5, <1>9 DEF ResultOf
    <2>2. m \in Results'
      BY <1>5, <1>9 DEF Results, ResultOf
    <2> HIDE DEF m
    <2> SUFFICES ASSUME NEW t \in request[j].dateFrom .. next - 1
                 PROVE \E n \in Results' : n.job = j /\ n.from =< t /\ t < n.to
      BY <1>6 DEF Told
    <2>3. CASE t < run.copy.currentDateFrom
      <3>1. t \in request[j].dateFrom .. run.copy.currentDateFrom - 1
        BY <2>3, <1>4, <1>5, <1>13, <1>15
      <3> QED BY <3>1, <1>12, <1>14 DEF Told
    <2>4. CASE ~(t < run.copy.currentDateFrom)
      <3>1. m.from =< t /\ t < m.to
        BY <2>1, <2>4, <1>4, <1>5, <1>13, <1>15
      <3> QED BY <2>1, <2>2, <3>1
    <2> QED BY <2>3, <2>4
  <1>18. ASSUME NEW k \in Jobs, NEW d \in Cursors(k)', ~(k = j /\ d = next)
         PROVE  d \in Cursors(k)
    <2>1. CASE Scheduled(k)' /\ d = db'[k].currentDateFrom
      BY <2>1, <1>7, <1>10, <1>18, CursorsThere DEF FeedInv, Scheduled
    <2>2. CASE \E v \in Workers : /\ Live(v)' /\ runs'[v].job = k
                                 /\ d = runs'[v].copy.currentDateFrom
      <3>1. PICK v \in Workers : /\ Live(v)' /\ runs'[v].job = k
                                 /\ d = runs'[v].copy.currentDateFrom
        BY <2>2
      <3>2. v # w
        BY <3>1, <1>9, <1>18
      <3> QED BY <3>1, <3>2, <1>7, CursorsThere DEF FeedInv, Live
    <2>3. CASE mode'.copies[k] # None /\ d = mode'.copies[k].currentDateFrom
      BY <2>3, <1>6, CursorsThere DEF FeedInv
    <2> QED BY <2>1, <2>2, <2>3 DEF Cursors
  <1>19. \A k \in Jobs : \A d \in Cursors(k)' : Covered(k, d)' /\ Told(k, d)'
    <2> SUFFICES ASSUME NEW k \in Jobs, NEW d \in Cursors(k)'
                 PROVE Covered(k, d)' /\ Told(k, d)'
      OBVIOUS
    <2>1. CASE k = j /\ d = next
      BY <2>1, <1>16, <1>17
    <2>2. CASE ~(k = j /\ d = next)
      <3>1. d \in Cursors(k) /\ d \in Int
        BY <2>2, <1>18 DEF Cursors
      <3> QED BY <3>1, <1>6, <1>12, FilesGrow, ToldGrows DEF FeedInv
    <2> QED BY <2>1, <2>2
  <1>20. ASSUME NEW v \in Workers PROVE StoresItsWindow(runs[v])' /\ ReportsItsWindow(runs[v])'
    <2>1. CASE v = w
      BY <1>6, <1>9, <1>13, <2>1 DEF StoresItsWindow, ReportsItsWindow
    <2>2. CASE v # w
      BY <1>6, <1>7, <2>2 DEF FeedInv, StoresItsWindow, ReportsItsWindow
    <2> QED BY <2>1, <2>2
  <1>21. ReportsAreStored'
    BY <1>6 DEF FeedInv, ReportsAreStored
  <1> QED BY <1>19, <1>20, <1>21 DEF FeedInv

(* Reporting: the result moves from the run to the messages sent.          *)
LEMMA FeedReport ==
  ASSUME FeedInv, TypeOK', NEW w \in Workers, Report(w) PROVE FeedInv'
  <1> DEFINE run == runs[w]
             m == ResultOf(run)
  <1>1. Live(w) /\ run.pc = "report" /\ run \in Run /\ run.period \in Period
    BY LiveRun DEF Report, Live, FeedInv, Run
  <1>2. UNCHANGED <<request, db, mode, stored, rejected, lost>> /\ reported' = reported \union {m}
    BY DEF Report
  <1>3. /\ \A v \in Workers : v # w => runs'[v] = runs[v]
        /\ runs'[w] = [run EXCEPT !.pc = "finish"]
    BY DEF Report, FeedInv, TypeOK
  <1>4. runs'[w].pc = "finish" /\ runs'[w].job = run.job /\ runs'[w].copy = run.copy
    BY <1>1, <1>3 DEF Run
  <1>5. \A k \in Jobs : Cursors(k)' \subseteq Cursors(k)
    BY <1>1, <1>2, <1>3, <1>4, CursorsKept, CursorsThere DEF FeedInv, Live
  <1>6. Results \subseteq Results'
    BY <1>2, <1>3, ResultsGrow DEF FeedInv
  <1>7. \A j \in Jobs : \A d \in Cursors(j)' : Covered(j, d)' /\ Told(j, d)'
    BY <1>2, <1>5, <1>6, NoNewCursor
  <1>8. ASSUME NEW v \in Workers PROVE StoresItsWindow(runs[v])' /\ ReportsItsWindow(runs[v])'
    BY <1>2, <1>3, <1>4 DEF FeedInv, StoresItsWindow, ReportsItsWindow
  <1>9. ReportsAreStored'
    <2>1. HasResult(m) => /\ run.period.canFetch /\ m.job = run.job
                          /\ m.from = run.period.from /\ m.to = run.period.to
                          /\ m.sensors = run.results
      BY <1>1 DEF HasResult, ResultOf, Period
    <2>2. ReportsItsWindow(run)
      BY DEF FeedInv
    <2> HIDE DEF m
    <2>3. HasResult(m) => /\ Files(m.job, m, m.sensors) \subseteq stored
                          /\ Files(m.job, m, Sensors \ m.sensors) \subseteq rejected
      BY <1>1, <2>1, <2>2 DEF ReportsItsWindow, Files
    <2> QED BY <1>2, <2>3 DEF FeedInv, ReportsAreStored
  <1> QED BY <1>7, <1>8, <1>9 DEF FeedInv

(* A save that was not answered: the result moves from the run to the lost *)
(* ones.                                                                   *)
LEMMA FeedSaveUnanswered ==
  ASSUME FeedInv, TypeOK', NEW w \in Workers, SaveUnanswered(w) PROVE FeedInv'
  <1> DEFINE run == runs[w]
  <1>1. Live(w) /\ run.pc = "report" /\ run \in Run
    BY LiveRun DEF SaveUnanswered, Live, FeedInv
  <1>2. /\ \A v \in Workers : v # w => runs'[v] = runs[v]
        /\ runs'[w] = [run EXCEPT !.pc = "finish"]
    BY DEF SaveUnanswered, FeedInv, TypeOK
  <1>3. runs'[w].pc = "finish" /\ runs'[w].job = run.job /\ runs'[w].copy = run.copy
    BY <1>1, <1>2 DEF Run
  <1>4. /\ UNCHANGED <<request, db, mode, stored, rejected>>
        /\ lost \subseteq lost' /\ ResultOf(run) \in lost'
    BY DEF SaveUnanswered
  <1>5. reported \subseteq reported' /\ \A m \in reported' : m \in reported \/ ~HasResult(m)
    BY DEF SaveUnanswered, FailureOf, HasResult
  <1>6. \A k \in Jobs : Cursors(k)' \subseteq Cursors(k)
    BY <1>1, <1>2, <1>3, <1>4, CursorsKept, CursorsThere DEF FeedInv, Live
  <1> QED BY <1>2, <1>3, <1>4, <1>5, <1>6, QuietStep

(* Nothing is scheduled, running or reported at the start.                 *)
LEMMA FeedInit == Init => FeedInv
  <1> SUFFICES ASSUME Init PROVE FeedInv
    OBVIOUS
  <1>1. TypeOK
    BY InitType
  <1>2. \A j \in Jobs : Cursors(j) = {}
    BY DEF Init, Cursors, Scheduled, Live, NoRun, NoMode
  <1> QED BY <1>1, <1>2 DEF Init, FeedInv, StoresItsWindow, ReportsItsWindow,
                            ReportsAreStored, NoRun

(* Every step preserves the invariant.                                     *)
LEMMA FeedNext == FeedInv /\ [Next]_vars => FeedInv'
  <1> SUFFICES ASSUME FeedInv, [Next]_vars PROVE FeedInv'
    OBVIOUS
  <1>1. TypeOK'
    BY NextType DEF FeedInv
  <1>2. ASSUME NEW w \in Workers, NEW j \in Jobs, LockDue(w, j) \/ LockExpired(w, j)
        PROVE  FeedInv'
    BY <1>1, <1>2, FeedTakeLock DEF LockDue, LockExpired
  <1>3. CASE Crash \/ Exit
    BY <1>1, <1>3, FeedKill DEF Crash, Exit
  <1> QED
    BY <1>1, <1>2, <1>3, FeedScheduleJob, FeedRefuseTask, FeedQuietSlot, FeedDownload,
       FeedStoreFile, FeedSaveProgress, FeedReport, FeedSaveUnanswered, FeedQuietElse
       DEF Next

(* The invariant holds in every reachable state.                           *)
LEMMA FeedSafe == Spec => []FeedInv
  <1> QED BY FeedInit, FeedNext, PTL DEF Spec

(* For any jobs, slots, sensors, requests, lock lifetime and bounds, the   *)
(* cursor of a job passes only what was fetched and stored or rejected.    *)
THEOREM NoGap == Spec => []NoGapBeforeCursor
  <1>1. FeedInv => NoGapBeforeCursor
    BY CursorsThere DEF FeedInv, NoGapBeforeCursor, Scheduled
  <1> QED BY <1>1, FeedSafe, PTL

(* The cursor of a job passes only what was reported, is about to be       *)
(* reported, or was saved and never sent.                                  *)
THEOREM NothingPassedUntold == Spec => []CursorIsReported
  <1>1. FeedInv => CursorIsReported
    BY CursorsThere DEF FeedInv, CursorIsReported, Scheduled
  <1> QED BY <1>1, FeedSafe, PTL

(* Every result that was sent names exactly the sensors whose file is in   *)
(* the object store.                                                       *)
THEOREM ReportsExact == Spec => []ReportsAreStored
  <1>1. FeedInv => ReportsAreStored
    BY DEF FeedInv
  <1> QED BY <1>1, FeedSafe, PTL
=============================================================================
