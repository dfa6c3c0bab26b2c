------------------------- MODULE DataFetchLocksProofs -------------------------
(***************************************************************************)
(* Proofs about the locks of DataFetchJobs, for any values of its          *)
(* constants: a job that ends was answered, a job has one run and a done   *)
(* job stays done unless its lock was disturbed.                           *)
(*                                                                         *)
(* The first part says once what each action does to the runs and to the   *)
(* documents (...Effect); the invariants are proved from these facts.      *)
(***************************************************************************)
EXTENDS DataFetchJobsProofs

USE DEF Maybe

(* A step of slot w, whose run is of job j, leaves the other runs and the  *)
(* other jobs alone.                                                       *)
OthersKept(w, j) == /\ \A v \in Workers \ {w} : runs'[v] = runs[v]
                    /\ \A k \in Jobs \ {j} : db'[k] = db[k]

(* A document in which only lockedAt and nextRunAt may differ.             *)
SameTask(doc, old) == /\ doc.disabled = old.disabled
                      /\ doc.currentDateFrom = old.currentDateFrom
                      /\ doc.currentDateTo = old.currentDateTo

(* A lock is taken: the document and the copy are locked now.              *)
LEMMA TakeLockEffect ==
  ASSUME TypeOK, NEW w \in Workers, NEW j \in Jobs, db[j] # None, TakeLock(w, j)
  PROVE  /\ service = "up" /\ ~Live(w) /\ db[j].disabled # TRUE
         /\ runs'[w] \in Run /\ runs'[w].pc = "locked" /\ runs'[w].job = j
         /\ runs'[w].copy = db'[j]
         /\ db'[j] \in Document /\ ~Unlocked(db'[j]) /\ SameTask(db'[j], db[j])
         /\ OthersKept(w, j)
         /\ UNCHANGED <<now, request, service, mode, stored, rejected, reported, lost>>
  <1> DEFINE d == [db[j] EXCEPT !.lockedAt = now]
             r == [NoRun EXCEPT !.pc = "locked", !.job = j, !.copy = d]
  <1>1. db[j] \in Document /\ now \in Nat
    BY DEF TypeOK
  <1>2. d \in Document /\ d.lockedAt \in Int /\ SameTask(d, db[j])
    BY <1>1 DEF Document, SameTask
  <1>3. db'[j] = d /\ \A k \in Jobs \ {j} : db'[k] = db[k]
    BY DEF TakeLock, TypeOK
  <1>4. runs'[w] = r /\ \A v \in Workers \ {w} : runs'[v] = runs[v]
    BY <1>3 DEF TakeLock, TypeOK
  <1>5. ~Unlocked(d)
    BY <1>2, NoneAssumption, AbsentAssumption DEF Unlocked
  <1> HIDE DEF d
  <1>6. r \in Run /\ r.pc = "locked" /\ r.job = j /\ r.copy = d
    BY <1>2 DEF Run, NoRun
  <1> HIDE DEF r
  <1> QED BY <1>2, <1>3, <1>4, <1>5, <1>6 DEF TakeLock, OthersKept

(* A run starts: it and its document get their next run.                   *)
LEMMA StartEffect ==
  ASSUME TypeOK, NEW w \in Workers, Start(w),
         NEW j, j = runs[w].job
  PROVE  /\ j \in Jobs /\ db[j] # None
         /\ runs[w] \in Run /\ runs[w].pc = "locked"
         /\ runs'[w] \in Run /\ runs'[w].pc = "started" /\ runs'[w].job = j
         /\ SameTask(runs'[w].copy, runs[w].copy)
         /\ runs'[w].copy.nextRunAt = None => request[j].interval = None
         /\ db'[j] # None /\ ~Unlocked(db'[j]) /\ SameTask(db'[j], db[j])
         /\ OthersKept(w, j)
         /\ UNCHANGED <<now, request, service, mode, stored, rejected, reported, lost,
                        disturbed>>
  <1> DEFINE next == IF request[j].interval = None THEN None ELSE now + request[j].interval
             copy == [runs[w].copy EXCEPT !.nextRunAt = next]
             new == [runs[w] EXCEPT !.pc = "started", !.copy = copy]
             doc == SaveRunState(db[j], copy)
  <1>1. /\ Live(w) /\ runs[w] \in Run /\ runs[w].pc = "locked" /\ j \in Jobs
        /\ runs[w].copy \in Document /\ runs[w].copy.lockedAt \in Int
        /\ db[j] \in Document /\ request[j] \in Request
    BY LiveRun DEF Start, Live
  <1>2. next \in Maybe(Int) /\ (next = None => request[j].interval = None)
    BY <1>1, NoneAssumption DEF TypeOK, Request
  <1>3. /\ runs'[w] = new /\ db'[j] = doc
        /\ OthersKept(w, j)
    BY <1>1 DEF Start, TypeOK, OthersKept
  <1> HIDE DEF next
  <1>4. /\ copy \in Document /\ copy.lockedAt \in Int /\ copy.nextRunAt = next
        /\ SameTask(copy, runs[w].copy)
    BY <1>1, <1>2 DEF Document, SameTask
  <1>5. doc \in Document /\ ~Unlocked(doc) /\ SameTask(doc, db[j])
    BY <1>1, <1>4, NoneAssumption, AbsentAssumption
       DEF Document, SaveRunState, Unlocked, SameTask
  <1> HIDE DEF copy, doc
  <1>6. new \in Run /\ new.pc = "started" /\ new.job = j /\ new.copy = copy
    BY <1>1, <1>4 DEF Run
  <1> HIDE DEF new
  <1>7. db[j] # None /\ doc # None
    BY <1>1, <1>5, DocumentAssumption
  <1> QED BY <1>1, <1>2, <1>3, <1>4, <1>5, <1>6, <1>7 DEF Start

(* A run ends: its document gets the run's next run and loses its lock.    *)
LEMMA FinishEffect ==
  ASSUME TypeOK, NEW w \in Workers, Finish(w),
         NEW j, j = runs[w].job
  PROVE  /\ j \in Jobs /\ db[j] # None
         /\ runs[w] \in Run /\ runs[w].pc = "finish"
         /\ runs'[w] = NoRun
         /\ db'[j] # None /\ SameTask(db'[j], db[j])
         /\ db'[j].nextRunAt = runs[w].copy.nextRunAt
         /\ OthersKept(w, j)
         /\ UNCHANGED <<now, request, service, mode, stored, rejected, reported, lost,
                        disturbed>>
  <1> DEFINE copy == [runs[w].copy EXCEPT !.lockedAt = None]
             doc == SaveRunState(db[j], copy)
  <1>1. /\ Live(w) /\ runs[w] \in Run /\ runs[w].pc = "finish" /\ j \in Jobs
        /\ runs[w].copy \in Document /\ db[j] \in Document
    BY LiveRun DEF Finish, Live
  <1>2. runs'[w] = NoRun /\ db'[j] = doc /\ OthersKept(w, j)
    BY <1>1 DEF Finish, TypeOK, OthersKept
  <1>3. copy.nextRunAt = runs[w].copy.nextRunAt
    BY <1>1 DEF Document
  <1>4. /\ doc \in Document /\ SameTask(doc, db[j])
        /\ doc.nextRunAt = runs[w].copy.nextRunAt
    BY <1>1, <1>3 DEF Document, SaveRunState, SameTask
  <1>5. db[j] # None /\ doc # None
    BY <1>1, <1>4, DocumentAssumption
  <1> QED BY <1>1, <1>2, <1>4, <1>5 DEF Finish

(* A run is dropped or its state is lost: the documents stay.              *)
LEMMA DropEffect ==
  ASSUME TypeOK, NEW w \in Workers, DropExpired(w) \/ RunStateLost(w)
  PROVE  /\ Live(w) /\ runs[w].pc # "report" /\ runs'[w] = NoRun
         /\ \A v \in Workers \ {w} : runs'[v] = runs[v]
         /\ UNCHANGED <<now, request, db, service, mode, stored, rejected, reported, lost,
                        disturbed>>
  BY DEF DropExpired, RunStateLost, TypeOK, Live

(* A run downloads its period.                                             *)
LEMMA DownloadEffect ==
  ASSUME TypeOK, NEW w \in Workers, Download(w)
  PROVE  /\ runs[w] \in Run /\ runs[w].pc = "started"
         /\ ~PeriodMissing(w) /\ PeriodOf(w) \in Period
         /\ runs'[w] \in Run /\ runs'[w].pc = "store" /\ runs'[w].job = runs[w].job
         /\ runs'[w].copy = runs[w].copy /\ runs'[w].period = PeriodOf(w)
         /\ \A v \in Workers \ {w} : runs'[v] = runs[v]
         /\ \E S \in SUBSET Sensors :
              rejected' = rejected \union Files(runs[w].job, PeriodOf(w), S)
         /\ UNCHANGED <<now, request, db, service, mode, stored, reported, lost, disturbed>>
  <1>1. PICK fetched \in SUBSET Sensors :
           /\ rejected' = rejected \union Files(runs[w].job, PeriodOf(w), Sensors \ fetched)
           /\ runs' = [runs EXCEPT ![w].pc = "store", ![w].period = PeriodOf(w),
                                   ![w].todo = fetched, ![w].results = {}]
    BY DEF Download
  <1> DEFINE r == [runs[w] EXCEPT !.pc = "store", !.period = PeriodOf(w),
                                  !.todo = fetched, !.results = {}]
  <1>2. /\ Live(w) /\ runs[w] \in Run /\ runs[w].pc = "started"
        /\ ~PeriodMissing(w) /\ PeriodOf(w).canFetch
    BY LiveRun DEF Download, Live
  <1>3. PeriodOf(w) \in Period
    BY <1>2, PeriodType
  <1>4. runs'[w] = r /\ \A v \in Workers \ {w} : runs'[v] = runs[v]
    BY <1>1 DEF TypeOK
  <1>5. /\ r \in Run /\ r.pc = "store" /\ r.job = runs[w].job
        /\ r.copy = runs[w].copy /\ r.period = PeriodOf(w)
    BY <1>2, <1>3, AbsenceAssumption DEF Run
  <1>6. Sensors \ fetched \in SUBSET Sensors
    OBVIOUS
  <1> HIDE DEF r
  <1> QED BY <1>1, <1>2, <1>3, <1>4, <1>5, <1>6 DEF Download

(* A run stores a file of its period.                                      *)
LEMMA StoreFileEffect ==
  ASSUME TypeOK, NEW w \in Workers, StoreFile(w)
  PROVE  /\ runs[w] \in Run /\ runs[w].pc = "store" /\ runs[w].period \in Period
         /\ runs'[w] \in Run /\ runs'[w].pc = "store" /\ runs'[w].job = runs[w].job
         /\ runs'[w].copy = runs[w].copy /\ runs'[w].period = runs[w].period
         /\ \A v \in Workers \ {w} : runs'[v] = runs[v]
         /\ \E S \in SUBSET Sensors :
              stored' = stored \union Files(runs[w].job, runs[w].period, S)
         /\ UNCHANGED <<now, request, db, service, mode, rejected, reported, lost, disturbed>>
  <1>1. PICK s \in runs[w].todo :
           /\ stored' = stored \union Files(runs[w].job, runs[w].period, {s})
           /\ runs' = [runs EXCEPT ![w].todo = @ \ {s}, ![w].results = @ \union {s}]
    BY DEF StoreFile
  <1> DEFINE r == [runs[w] EXCEPT !.todo = @ \ {s}, !.results = @ \union {s}]
  <1>2. Live(w) /\ runs[w] \in Run /\ runs[w].pc = "store"
    BY LiveRun DEF StoreFile, Live
  <1>3. runs[w].period \in Period /\ {s} \in SUBSET Sensors
    BY <1>1, <1>2 DEF Run
  <1>4. runs'[w] = r /\ \A v \in Workers \ {w} : runs'[v] = runs[v]
    BY <1>1 DEF TypeOK
  <1>5. /\ r \in Run /\ r.pc = "store" /\ r.job = runs[w].job
        /\ r.copy = runs[w].copy /\ r.period = runs[w].period
    BY <1>1, <1>2, <1>3 DEF Run
  <1> HIDE DEF r
  <1> QED BY <1>1, <1>2, <1>3, <1>4, <1>5 DEF StoreFile

(* Document e is copy c saved over document d: only the disabled flag may  *)
(* be the document's own, and a lock held by the copy is held by e.        *)
LEMMA SaveEffect ==
  ASSUME NEW d \in Document, NEW c \in Document, NEW e, e = Save(d, c)
  PROVE  /\ e \in Document
         /\ e.currentDateFrom = c.currentDateFrom
         /\ e.nextRunAt = c.nextRunAt
         /\ c.disabled # Absent => e.disabled = c.disabled
         /\ c.disabled = d.disabled => e.disabled = c.disabled
         /\ c.lockedAt \in Int => ~Unlocked(e)
         /\ Unlocked(e) => Unlocked(c)
  <1>1. /\ e.currentDateFrom = c.currentDateFrom
        /\ e.nextRunAt = c.nextRunAt
        /\ e.disabled = IF c.disabled = Absent THEN d.disabled ELSE c.disabled
        /\ e.lockedAt = IF c.lockedAt = Absent THEN d.lockedAt ELSE c.lockedAt
    BY DEF Save, Document
  <1>2. e \in Document
    BY SaveType
  <1> QED BY <1>1, <1>2, NoneAssumption, AbsentAssumption DEF Unlocked

(* A run saves its progress: the document takes over the run's copy, whose *)
(* dates have moved on, and is disabled after the last window.             *)
LEMMA SaveProgressEffect ==
  ASSUME TypeOK, NEW w \in Workers, SaveProgress(w),
         NEW j, j = runs[w].job
  PROVE  /\ j \in Jobs /\ db[j] # None /\ db[j] \in Document
         /\ runs[w] \in Run /\ runs[w].pc = "store" /\ runs[w].todo = {}
         /\ runs[w].period \in Period
         /\ runs'[w] \in Run /\ runs'[w].pc = "report" /\ runs'[w].job = j
         /\ runs'[w].period = runs[w].period /\ runs'[w].results = runs[w].results
         /\ runs'[w].copy.currentDateFrom = runs[w].period.nextFrom
         /\ runs'[w].copy.nextRunAt = runs[w].copy.nextRunAt
         /\ runs'[w].copy.disabled =
              IF runs[w].period.shouldComplete THEN TRUE ELSE runs[w].copy.disabled
         /\ db'[j] \in Document /\ ~Unlocked(db'[j])
         /\ db'[j].currentDateFrom = runs[w].period.nextFrom
         /\ runs[w].copy.disabled = db[j].disabled =>
              db'[j].disabled = runs'[w].copy.disabled
         /\ OthersKept(w, j)
         /\ UNCHANGED <<now, request, service, mode, stored, rejected, reported, lost,
                        disturbed>>
  <1> DEFINE copy == Advanced(runs[w])
             r == [runs[w] EXCEPT !.pc = "report", !.copy = copy]
  <1>1. /\ Live(w) /\ runs[w] \in Run /\ runs[w].pc = "store" /\ runs[w].todo = {}
        /\ j \in Jobs /\ runs[w].copy \in Document /\ db[j] \in Document
    BY LiveRun DEF SaveProgress, Live
  <1>2. runs[w].period \in Period
    BY <1>1 DEF Run
  <1>3. copy \in Document /\ copy.lockedAt \in Int
    BY <1>1, <1>2, AdvancedType
  <1>4. /\ copy.currentDateFrom = runs[w].period.nextFrom
        /\ copy.nextRunAt = runs[w].copy.nextRunAt
        /\ copy.disabled = IF runs[w].period.shouldComplete THEN TRUE ELSE runs[w].copy.disabled
    BY <1>1, <1>2 DEF Advanced, Document
  <1>5. runs'[w] = r /\ db'[j] = Save(db[j], copy) /\ OthersKept(w, j)
    BY <1>1 DEF SaveProgress, TypeOK, OthersKept
  <1> HIDE DEF copy
  <1>6. /\ r \in Run /\ r.pc = "report" /\ r.job = j /\ r.copy = copy
        /\ r.period = runs[w].period /\ r.results = runs[w].results
    BY <1>1, <1>3, <1>2, AbsenceAssumption DEF Run
  <1> HIDE DEF r
  <1>7. /\ db'[j] \in Document /\ ~Unlocked(db'[j])
        /\ db'[j].currentDateFrom = copy.currentDateFrom
    <2>1. /\ db[j] \in Document /\ copy \in Document /\ copy.lockedAt \in Int
          /\ db'[j] = Save(db[j], copy)
      BY <1>1, <1>3, <1>5
    <2>2. PICK e : e = db'[j]
      OBVIOUS
    <2>3. e \in Document
      BY ONLY <2>1, <2>2, SaveEffect
    <2>4. ~Unlocked(e)
      BY ONLY <2>1, <2>2, SaveEffect
    <2>5. e.currentDateFrom = copy.currentDateFrom
      BY ONLY <2>1, <2>2, SaveEffect
    <2> QED BY <2>2, <2>3, <2>4, <2>5
  <1>8. runs[w].copy.disabled = db[j].disabled => db'[j].disabled = copy.disabled
    <2>1. /\ copy.disabled # Absent => db'[j].disabled = copy.disabled
          /\ copy.disabled = db[j].disabled => db'[j].disabled = copy.disabled
      <3>1. db[j] \in Document /\ copy \in Document /\ db'[j] = Save(db[j], copy)
        BY <1>1, <1>3, <1>5
      <3> QED BY ONLY <3>1, SaveEffect
    <2>2. TRUE # Absent
      BY AbsentAssumption, Zenon
    <2> QED BY <2>1, <2>2, <1>4, Zenon
  <1>9. db[j] # None
    BY <1>1, DocumentAssumption
  <1> QED BY <1>1, <1>2, <1>4, <1>5, <1>6, <1>7, <1>8, <1>9 DEF SaveProgress

(* A run that cannot fetch yet saves its copy with a next run.             *)
LEMMA PostponeEffect ==
  ASSUME TypeOK, NEW w \in Workers, Postpone(w),
         NEW j, j = runs[w].job
  PROVE  /\ j \in Jobs /\ db[j] # None
         /\ runs[w] \in Run /\ runs[w].pc = "started"
         /\ ~PeriodMissing(w) /\ PeriodOf(w) \in Period /\ ~PeriodOf(w).canFetch
         /\ runs'[w] \in Run /\ runs'[w].pc = "report" /\ runs'[w].job = j
         /\ runs'[w].period = PeriodOf(w)
         /\ SameTask(runs'[w].copy, runs[w].copy)
         /\ runs'[w].copy.nextRunAt = None => runs[w].copy.nextRunAt = None
         /\ db'[j] \in Document /\ ~Unlocked(db'[j])
         /\ db'[j].currentDateFrom = runs[w].copy.currentDateFrom
         /\ runs[w].copy.disabled = db[j].disabled => db'[j].disabled = db[j].disabled
         /\ OthersKept(w, j)
         /\ UNCHANGED <<now, request, service, mode, stored, rejected, reported, lost,
                        disturbed>>
  <1> DEFINE period == PeriodOf(w)
             copy == Postponed(runs[w], period)
             r == [runs[w] EXCEPT !.pc = "report", !.copy = copy, !.period = period]
  <1>1. /\ Live(w) /\ runs[w] \in Run /\ runs[w].pc = "started"
        /\ j \in Jobs /\ runs[w].copy \in Document /\ db[j] \in Document
        /\ ~PeriodMissing(w) /\ ~period.canFetch
    BY LiveRun DEF Postpone, Live
  <1>2. period \in Period
    BY <1>1, PeriodType
  <1>3. runs'[w] = r /\ db'[j] = Save(db[j], copy) /\ OthersKept(w, j)
    BY <1>1 DEF Postpone, TypeOK, OthersKept
  <1> HIDE DEF period
  <1>4. copy \in Document /\ copy.lockedAt \in Int
    BY <1>1, <1>2, PostponedType
  <1>5. /\ SameTask(copy, runs[w].copy)
        /\ copy.nextRunAt = None => runs[w].copy.nextRunAt = None
    BY <1>1, <1>2 DEF Postponed, Document, SameTask
  <1> HIDE DEF copy
  <1>6. r \in Run /\ r.pc = "report" /\ r.job = j /\ r.copy = copy /\ r.period = period
    BY <1>1, <1>2, <1>4, AbsenceAssumption DEF Run
  <1> HIDE DEF r
  <1>7. /\ db'[j] \in Document /\ ~Unlocked(db'[j])
        /\ db'[j].currentDateFrom = copy.currentDateFrom
        /\ copy.disabled = db[j].disabled => db'[j].disabled = copy.disabled
    <2>1. /\ db[j] \in Document /\ copy \in Document /\ copy.lockedAt \in Int
          /\ db'[j] = Save(db[j], copy)
      BY <1>1, <1>3, <1>4
    <2>2. PICK e : e = db'[j]
      OBVIOUS
    <2>3. e \in Document
      BY ONLY <2>1, <2>2, SaveEffect
    <2>4. ~Unlocked(e)
      BY ONLY <2>1, <2>2, SaveEffect
    <2>5. /\ e.currentDateFrom = copy.currentDateFrom
          /\ copy.disabled = db[j].disabled => e.disabled = copy.disabled
      BY ONLY <2>1, <2>2, SaveEffect
    <2> QED BY <2>2, <2>3, <2>4, <2>5
  <1>8. db[j] # None
    BY <1>1, DocumentAssumption
  <1> QED BY <1>1, <1>2, <1>3, <1>5, <1>6, <1>7, <1>8 DEF Postpone, SameTask, period

(* A run sends its result.                                                 *)
LEMMA ReportEffect ==
  ASSUME TypeOK, NEW w \in Workers, Report(w)
  PROVE  /\ runs[w] \in Run /\ runs[w].pc = "report" /\ runs[w].period \in Period
         /\ runs'[w].pc = "finish" /\ runs'[w].job = runs[w].job
         /\ runs'[w].copy = runs[w].copy
         /\ \A v \in Workers \ {w} : runs'[v] = runs[v]
         /\ reported' = reported \union {ResultOf(runs[w])}
         /\ UNCHANGED <<now, request, db, service, mode, stored, rejected, lost, disturbed>>
  <1> DEFINE r == [runs[w] EXCEPT !.pc = "finish"]
  <1>1. Live(w) /\ runs[w] \in Run /\ runs[w].pc = "report"
    BY LiveRun DEF Report, Live
  <1>2. runs[w].period \in Period
    BY <1>1 DEF Run
  <1>3. runs'[w] = r /\ \A v \in Workers \ {w} : runs'[v] = runs[v]
    BY DEF Report, TypeOK
  <1>4. r.pc = "finish" /\ r.job = runs[w].job /\ r.copy = runs[w].copy
    BY <1>1 DEF Run
  <1> QED BY <1>1, <1>2, <1>3, <1>4 DEF Report

(* A run whose save was not answered fails, and its result is lost.        *)
LEMMA UnansweredEffect ==
  ASSUME TypeOK, NEW w \in Workers, SaveUnanswered(w)
  PROVE  /\ runs[w] \in Run /\ runs[w].pc = "report"
         /\ runs'[w].pc = "finish" /\ runs'[w].job = runs[w].job
         /\ runs'[w].copy = runs[w].copy
         /\ \A v \in Workers \ {w} : runs'[v] = runs[v]
         /\ reported' = reported \union {FailureOf(runs[w].job)}
         /\ lost' = lost \union {ResultOf(runs[w])}
         /\ UNCHANGED <<now, request, db, service, mode, stored, rejected, disturbed>>
  <1> DEFINE r == [runs[w] EXCEPT !.pc = "finish"]
  <1>1. Live(w) /\ runs[w] \in Run /\ runs[w].pc = "report"
    BY LiveRun DEF SaveUnanswered, Live
  <1>2. runs'[w] = r /\ \A v \in Workers \ {w} : runs'[v] = runs[v]
    BY DEF SaveUnanswered, TypeOK
  <1>3. r.pc = "finish" /\ r.job = runs[w].job /\ r.copy = runs[w].copy
    BY <1>1 DEF Run
  <1> QED BY <1>1, <1>2, <1>3 DEF SaveUnanswered

(* A run fails: its task is reported as failed.                            *)
LEMMA FailEffect ==
  ASSUME TypeOK, NEW w \in Workers, Fail(w)
  PROVE  /\ runs[w] \in Run /\ runs[w].pc \in {"started", "store"}
         /\ runs'[w].pc = "finish" /\ runs'[w].job = runs[w].job
         /\ SameTask(runs'[w].copy, runs[w].copy)
         /\ \A v \in Workers \ {w} : runs'[v] = runs[v]
         /\ reported' = reported \union {FailureOf(runs[w].job)}
         /\ UNCHANGED <<now, request, db, service, mode, stored, rejected, lost, disturbed>>
  <1>1. /\ Live(w) /\ runs[w] \in Run /\ runs[w].pc \in {"started", "store"}
        /\ runs[w].copy \in Document
    BY LiveRun DEF Fail, Live
  <1>2. PICK copy : /\ copy \in {runs[w].copy, Postponed(runs[w], PeriodOf(w))}
                    /\ runs' = [runs EXCEPT ![w].pc = "finish", ![w].copy = copy]
    BY DEF Fail
  <1>3. SameTask(copy, runs[w].copy)
    BY <1>1, <1>2 DEF Postponed, Document, SameTask
  <1> DEFINE r == [runs[w] EXCEPT !.pc = "finish", !.copy = copy]
  <1>4. runs'[w] = r /\ \A v \in Workers \ {w} : runs'[v] = runs[v]
    BY <1>2 DEF TypeOK
  <1>5. r.pc = "finish" /\ r.job = runs[w].job /\ r.copy = copy
    BY <1>1 DEF Run
  <1> QED BY <1>1, <1>3, <1>4, <1>5 DEF Fail

(* A new document is due some time and not locked.                         *)
LEMMA ScheduleEffect ==
  ASSUME TypeOK, NEW j \in Jobs, ScheduleJob(j)
  PROVE  /\ db[j] = None /\ db'[j] # None
         /\ db'[j].nextRunAt # None /\ db'[j].currentDateFrom = request'[j].dateFrom
         /\ \A k \in Jobs \ {j} : db'[k] = db[k] /\ request'[k] = request[k]
         /\ \A k \in Jobs : db[k] # None => request'[k] = request[k]
         /\ UNCHANGED <<now, service, runs, mode, stored, rejected, reported, lost,
                        disturbed>>
  <1>1. request[j] = None /\ db[j] = None
    BY DEF ScheduleJob, TypeOK, Scheduled
  <1>2. PICK r \in Requests :
          /\ Accepted(r)
          /\ request' = [request EXCEPT ![j] = r]
          /\ \E first \in FirstRuns(r) :
               db' = [db EXCEPT ![j] = [disabled        |-> Absent,
                                     lockedAt        |-> Absent,
                                     nextRunAt       |-> first,
                                     currentDateFrom |-> r.dateFrom,
                                     currentDateTo   |-> r.dateTo]]
    BY DEF ScheduleJob
  <1>3. PICK first \in FirstRuns(r) :
            db' = [db EXCEPT ![j] = [disabled        |-> Absent,
                                     lockedAt        |-> Absent,
                                     nextRunAt       |-> first,
                                     currentDateFrom |-> r.dateFrom,
                                     currentDateTo   |-> r.dateTo]]
    BY <1>2
  <1>4. first \in Int /\ r \in Request /\ r.dateFrom # None
    BY <1>2, RequestsAssumption DEF FirstRuns, Request, Accepted, TypeOK
  <1>5. db'[j].nextRunAt = first /\ db'[j].currentDateFrom = r.dateFrom /\ request'[j] = r
    BY <1>2, <1>3 DEF TypeOK
  <1>6. db' \in [Jobs -> Maybe(Document)] /\ db'[j] # None
    <2> DEFINE d == [disabled        |-> Absent,
                     lockedAt        |-> Absent,
                     nextRunAt       |-> first,
                     currentDateFrom |-> r.dateFrom,
                     currentDateTo   |-> r.dateTo]
    <2>1. d \in Document
      BY <1>4 DEF Document, Request
    <2>2. db' = [db EXCEPT ![j] = d]
      BY <1>3
    <2> HIDE DEF d
    <2> QED BY <2>1, <2>2, DocumentAssumption DEF TypeOK
  <1>7. \A k \in Jobs \ {j} : db'[k] = db[k] /\ request'[k] = request[k]
    BY <1>2, <1>3 DEF TypeOK
  <1> QED BY <1>1, <1>4, <1>5, <1>6, <1>7, NoneAssumption DEF ScheduleJob

(* A shutdown takes the locks off documents that have a next run.          *)
LEMMA ShutdownEffect ==
  ASSUME TypeOK, Shutdown
  PROVE  /\ service' = "stopping"
         /\ \A j \in Jobs :
              \/ db'[j] = db[j]
              \/ /\ db[j] # None /\ db'[j] # None
                 /\ SameTask(db'[j], db[j])
                 /\ db'[j].nextRunAt # None
         /\ UNCHANGED <<now, request, runs, mode, stored, rejected, reported, lost, disturbed>>
  <1> DEFINE unlocked(j) == [db[j] EXCEPT !.lockedAt = Absent]
  <1>1. ASSUME NEW j \in Jobs
        PROVE  db'[j] = db[j] \/ (db[j] # None /\ db[j].nextRunAt # None
                                  /\ db'[j] = unlocked(j))
    <2>1. CASE \E w \in Workers : Live(w) /\ runs[w].job = j
      <3>1. db[j] # None
        BY <2>1 DEF TypeOK, Scheduled
      <3> QED BY <3>1 DEF Shutdown
    <2>2. CASE ~\E w \in Workers : Live(w) /\ runs[w].job = j
      BY <2>2 DEF Shutdown
    <2> QED BY <2>1, <2>2
  <1>2. ASSUME NEW j \in Jobs, db[j] # None
        PROVE  /\ unlocked(j) \in Document /\ unlocked(j).nextRunAt = db[j].nextRunAt
               /\ SameTask(unlocked(j), db[j])
    BY <1>2 DEF TypeOK, Document, SameTask
  <1> HIDE DEF unlocked
  <1> QED BY <1>1, <1>2, DocumentAssumption DEF Shutdown

(* A mode message saves the copy it holds over a document.                 *)
LEMMA ModeSaveEffect ==
  ASSUME TypeOK, NEW j \in Jobs, ModeSave(j)
  PROVE  /\ mode.copies[j] # None /\ mode.copies[j] \in Document
         /\ db[j] # None /\ db'[j] # None
         /\ db'[j].nextRunAt = mode.copies[j].nextRunAt
         /\ db'[j].currentDateFrom = mode.copies[j].currentDateFrom
         /\ Unlocked(db'[j]) => Unlocked(mode.copies[j])
         /\ \A k \in Jobs \ {j} : db'[k] = db[k] /\ disturbed'[k] = disturbed[k]
         /\ disturbed'[j] # {}
         /\ mode'.copies = mode.copies
         /\ UNCHANGED <<now, request, service, runs, stored, rejected, reported, lost>>
  <1> DEFINE c == [mode.copies[j] EXCEPT !.disabled = (mode.type = "DISABLED")]
  <1>1. mode.copies[j] \in Document /\ mode.copies[j] # None
    BY ModeIsType DEF TypeOK, ModeSave
  <1>2. db[j] # None /\ db[j] \in Document
    BY <1>1 DEF TypeOK, ModeSave, Scheduled
  <1>3. /\ c \in Document /\ c.nextRunAt = mode.copies[j].nextRunAt
        /\ c.currentDateFrom = mode.copies[j].currentDateFrom
        /\ c.lockedAt = mode.copies[j].lockedAt
    BY <1>1 DEF Document
  <1>4. db'[j] = Save(db[j], c) /\ \A k \in Jobs \ {j} : db'[k] = db[k]
    BY DEF ModeSave, TypeOK
  <1> HIDE DEF c
  <1>5. /\ db'[j] \in Document /\ db'[j].nextRunAt = c.nextRunAt
        /\ db'[j].currentDateFrom = c.currentDateFrom
        /\ Unlocked(db'[j]) => Unlocked(c)
    BY <1>2, <1>3, <1>4, SaveEffect
  <1>6. db'[j] # None
    BY <1>5, DocumentAssumption
  <1>7. mode'.copies = mode.copies
    BY TypeOfModeStep DEF TypeOK, ModeSave
  <1>8. disturbed'[j] # {} /\ \A k \in Jobs \ {j} : disturbed'[k] = disturbed[k]
    BY DEF ModeSave, TypeOK
  <1> QED BY <1>1, <1>2, <1>3, <1>4, <1>5, <1>6, <1>7, <1>8 DEF ModeSave, Unlocked

(* The other steps of a mode message: copies are dropped or those of now.  *)
LEMMA ModeEffect ==
  ASSUME TypeOK, ModeReceive \/ ModeFind \/ ModeFindFails \/ ModeReply
                   \/ \E j \in Jobs : ModeSaveFails(j)
  PROVE  /\ \A j \in Jobs : \/ mode'.copies[j] = None
                            \/ mode'.copies[j] = mode.copies[j]
                            \/ mode'.copies[j] = db[j]
         /\ UNCHANGED <<now, request, db, service, runs, stored, rejected, reported, lost,
                        disturbed>>
  <1>1. mode \in Mode
    BY DEF TypeOK
  <1>2. CASE ModeReceive
    <2>1. PICK type \in ModeTypes, tasks \in SUBSET Jobs :
            mode' = [NoMode EXCEPT !.pc = "queued", !.type = type, !.tasks = tasks]
      BY <1>2 DEF ModeReceive
    <2>2. \A j \in Jobs : mode'.copies[j] = None
      BY <2>1 DEF NoMode
    <2> QED BY <1>2, <2>2 DEF ModeReceive
  <1>3. CASE ModeFind
    <2>1. \A j \in Jobs : mode'.copies[j] = None \/ mode'.copies[j] = db[j]
      BY <1>1, <1>3 DEF ModeFind, Mode
    <2> QED BY <1>3, <2>1 DEF ModeFind
  <1>4. CASE ModeFindFails
    BY <1>1, <1>4 DEF ModeFindFails, Mode
  <1>5. CASE ModeReply
    <2>1. \A j \in Jobs : mode'.copies[j] = None
      BY <1>5, NoModeType DEF ModeReply
    <2> QED BY <1>5, <2>1 DEF ModeReply
  <1>6. CASE \E j \in Jobs : ModeSaveFails(j)
    <2>1. PICK j \in Jobs : ModeSaveFails(j)
      BY <1>6
    <2>2. mode'.copies = mode.copies
      BY <1>1, <2>1, TypeOfModeStep DEF ModeSaveFails
    <2> QED BY <2>1, <2>2 DEF ModeSaveFails
  <1> QED BY <1>2, <1>3, <1>4, <1>5, <1>6

(* A kill ends every run; the copies of a mode message are dropped.        *)
LEMMA KillEffect ==
  ASSUME TypeOK, Kill
  PROVE  /\ \A w \in Workers : runs'[w] = NoRun
         /\ lost' = lost \union
              {ResultOf(runs[w]) : w \in {v \in Workers : runs[v].pc = "report"}}
         /\ \A j \in Jobs : mode'.copies[j] = None \/ mode'.copies[j] = mode.copies[j]
         /\ UNCHANGED <<now, request, db, stored, rejected, reported, disturbed>>
  <1>1. mode' = mode \/ \A j \in Jobs : mode'.copies[j] = None
    BY DEF Kill, NoMode
  <1> QED BY <1>1 DEF Kill

(* A task that is refused has no document.                                 *)
LEMMA RefuseEffect ==
  ASSUME TypeOK, NEW j \in Jobs, RefuseTask(j)
  PROVE  /\ reported' = reported \union {FailureOf(j)}
         /\ \A k \in Jobs : db[k] # None => request'[k] = request[k]
         /\ UNCHANGED <<now, db, service, runs, mode, stored, rejected, lost, disturbed>>
  <1>1. request[j] = None /\ db[j] = None
    BY DEF RefuseTask, TypeOK, Scheduled
  <1>2. PICK r \in Requests : request' = [request EXCEPT ![j] = r]
    BY DEF RefuseTask
  <1> QED BY <1>1, <1>2 DEF RefuseTask, TypeOK

(* What the period of a run is, apart from whether it can be fetched.      *)
LEMMA PeriodShape ==
  ASSUME TypeOK, NEW w \in Workers, Live(w),
         NEW window, window = request[runs[w].job].window
  PROVE  /\ PeriodOf(w).from = runs[w].copy.currentDateFrom
         /\ window = None => /\ PeriodOf(w).shouldComplete
                             /\ PeriodOf(w).nextFrom = PeriodOf(w).from
         /\ window # None => /\ PeriodOf(w).to = PeriodOf(w).from + window
                             /\ PeriodOf(w).nextFrom = PeriodOf(w).to
  BY DEF PeriodOf, Payload, FetchPeriodData, WindowPeriod, WholePeriod
------------------------------------------------------------------------------
Answered(j) == \E m \in reported : m.job = j /\ m.status \in {"DONE", "FAILED"}

(* Agenda never runs a job with this document again.                       *)
Ended(doc) == Unlocked(doc) /\ doc.nextRunAt = None

(* A run whose job will have no next run is that of a single task, and the *)
(* server is told so before the run gives up its lock.                     *)
AnswersWhatEnds(run) ==
  run.pc # "locked" /\ run.copy.nextRunAt = None =>
    /\ run.pc = "started" => request[run.job].window = None
    /\ run.pc \in {"store", "report"} => run.period.shouldComplete
    /\ run.pc = "finish" => Answered(run.job)

(* The inductive invariant behind NoStrandedJob: it also holds for the     *)
(* copies of documents that a mode message may save.                       *)
AnswerInv ==
  /\ TypeOK
  /\ \A j \in Jobs : db[j] # None /\ Ended(db[j]) => Answered(j)
  /\ \A j \in Jobs : mode.copies[j] # None /\ Ended(mode.copies[j]) => Answered(j)
  /\ \A w \in Workers : Live(w) => AnswersWhatEnds(runs[w])

(* A step that keeps what was reported and ends no unanswered job.         *)
LEMMA AnswerStep ==
  ASSUME AnswerInv, TypeOK', reported \subseteq reported',
         \A j \in Jobs : db[j] # None => request'[j] = request[j],
         \A j \in Jobs : db'[j] = db[j] \/ (Ended(db'[j]) => Answered(j)'),
         \A j \in Jobs : \/ mode'.copies[j] = None
                         \/ mode'.copies[j] = mode.copies[j]
                         \/ mode'.copies[j] = db[j],
         \A w \in Workers : \/ runs'[w] = runs[w]
                            \/ Live(w)' => AnswersWhatEnds(runs[w])'
  PROVE  AnswerInv'
  <1>1. ASSUME NEW j, Answered(j) PROVE Answered(j)'
    BY <1>1 DEF Answered
  <1>2. ASSUME NEW j \in Jobs, db'[j] # None, Ended(db'[j]) PROVE Answered(j)'
    BY <1>1, <1>2 DEF AnswerInv
  <1>3. ASSUME NEW j \in Jobs, mode'.copies[j] # None, Ended(mode'.copies[j])
        PROVE  Answered(j)'
    BY <1>1, <1>3 DEF AnswerInv
  <1>4. ASSUME NEW w \in Workers, Live(w)' PROVE AnswersWhatEnds(runs[w])'
    <2>1. CASE runs'[w] = runs[w]
      <3>1. Live(w) /\ AnswersWhatEnds(runs[w])
        BY <2>1, <1>4 DEF AnswerInv, Live
      <3>2. request'[runs[w].job] = request[runs[w].job]
        BY <3>1, LiveRun DEF AnswerInv, TypeOK, Scheduled
      <3> QED BY <2>1, <3>1, <3>2, <1>1 DEF AnswersWhatEnds
    <2> QED BY <2>1, <1>4
  <1> QED BY <1>2, <1>3, <1>4 DEF AnswerInv, Ended, Unlocked

(* Nothing is scheduled at the start.                                      *)
LEMMA AnswerInit == Init => AnswerInv
  BY InitType DEF Init, AnswerInv, NoMode, NoRun, Live

(* Taking a lock ends nothing.                                             *)
LEMMA AnswerTakeLock ==
  ASSUME AnswerInv, TypeOK', NEW w \in Workers, NEW j \in Jobs, db[j] # None, TakeLock(w, j)
  PROVE  AnswerInv'
  <1>1. /\ runs'[w].pc = "locked" /\ ~Unlocked(db'[j])
        /\ OthersKept(w, j) /\ UNCHANGED <<request, mode, reported>>
    BY TakeLockEffect DEF AnswerInv
  <1> QED BY <1>1, AnswerStep DEF OthersKept, Ended, AnswersWhatEnds

(* A run of a repeating task starts with a next run.                       *)
LEMMA AnswerStart ==
  ASSUME AnswerInv, TypeOK', NEW w \in Workers, Start(w) PROVE AnswerInv'
  <1> DEFINE j == runs[w].job
  <1>1. /\ j \in Jobs /\ db[j] # None
        /\ runs'[w].pc = "started" /\ runs'[w].job = j
        /\ runs'[w].copy.nextRunAt = None => request[j].interval = None
        /\ ~Unlocked(db'[j])
        /\ OthersKept(w, j) /\ UNCHANGED <<request, mode, reported>>
    BY StartEffect DEF AnswerInv
  <1> HIDE DEF j
  <1>2. request[j].interval = None => request[j].window = None
    BY <1>1, RequestsAssumption DEF AnswerInv, TypeOK, Scheduled
  <1>3. AnswersWhatEnds(runs[w])'
    BY <1>1, <1>2 DEF AnswersWhatEnds
  <1> QED BY <1>1, <1>3, AnswerStep DEF OthersKept, Ended

(* The period of a single task completes it.                               *)
LEMMA AnswerDownload ==
  ASSUME AnswerInv, TypeOK', NEW w \in Workers, Download(w) PROVE AnswerInv'
  <1>1. /\ runs[w].pc = "started"
        /\ runs'[w].pc = "store" /\ runs'[w].job = runs[w].job
        /\ runs'[w].copy = runs[w].copy /\ runs'[w].period = PeriodOf(w)
        /\ \A v \in Workers \ {w} : runs'[v] = runs[v]
        /\ UNCHANGED <<request, db, mode, reported>>
    BY DownloadEffect DEF AnswerInv
  <1>2. Live(w) /\ AnswersWhatEnds(runs[w])
    BY <1>1 DEF Live, AnswerInv
  <1>3. request[runs[w].job].window = None => PeriodOf(w).shouldComplete
    BY <1>2, PeriodShape DEF AnswerInv
  <1>4. AnswersWhatEnds(runs[w])'
    BY <1>1, <1>2, <1>3 DEF AnswersWhatEnds
  <1> QED BY <1>1, <1>4, AnswerStep

(* Storing a file changes neither document nor copy.                       *)
LEMMA AnswerStoreFile ==
  ASSUME AnswerInv, TypeOK', NEW w \in Workers, StoreFile(w) PROVE AnswerInv'
  <1>1. /\ runs[w].pc = "store"
        /\ runs'[w].pc = "store" /\ runs'[w].job = runs[w].job
        /\ runs'[w].copy = runs[w].copy /\ runs'[w].period = runs[w].period
        /\ \A v \in Workers \ {w} : runs'[v] = runs[v]
        /\ UNCHANGED <<request, db, mode, reported>>
    BY StoreFileEffect DEF AnswerInv
  <1>2. AnswersWhatEnds(runs[w])
    BY <1>1 DEF Live, AnswerInv
  <1>3. AnswersWhatEnds(runs[w])'
    BY <1>1, <1>2 DEF AnswersWhatEnds
  <1> QED BY <1>1, <1>3, AnswerStep

(* Saving the progress keeps the lock and the next run of the copy.        *)
LEMMA AnswerSaveProgress ==
  ASSUME AnswerInv, TypeOK', NEW w \in Workers, SaveProgress(w) PROVE AnswerInv'
  <1> DEFINE j == runs[w].job
  <1>1. /\ j \in Jobs /\ runs[w].pc = "store"
        /\ runs'[w].pc = "report" /\ runs'[w].period = runs[w].period
        /\ runs'[w].copy.nextRunAt = runs[w].copy.nextRunAt
        /\ ~Unlocked(db'[j])
        /\ OthersKept(w, j) /\ UNCHANGED <<request, mode, reported>>
    BY SaveProgressEffect DEF AnswerInv
  <1>2. AnswersWhatEnds(runs[w])
    BY <1>1 DEF Live, AnswerInv
  <1>3. AnswersWhatEnds(runs[w])'
    BY <1>1, <1>2 DEF AnswersWhatEnds
  <1> HIDE DEF j
  <1> QED BY <1>1, <1>3, AnswerStep DEF OthersKept, Ended

(* A postponed run of a single task says that its task is done.            *)
LEMMA AnswerPostpone ==
  ASSUME AnswerInv, TypeOK', NEW w \in Workers, Postpone(w) PROVE AnswerInv'
  <1> DEFINE j == runs[w].job
  <1>1. /\ j \in Jobs /\ runs[w].pc = "started"
        /\ runs'[w].pc = "report" /\ runs'[w].period = PeriodOf(w)
        /\ runs'[w].copy.nextRunAt = None => runs[w].copy.nextRunAt = None
        /\ ~Unlocked(db'[j])
        /\ OthersKept(w, j) /\ UNCHANGED <<request, mode, reported>>
    BY PostponeEffect DEF AnswerInv
  <1>2. Live(w) /\ AnswersWhatEnds(runs[w])
    BY <1>1 DEF Live, AnswerInv
  <1>3. request[j].window = None => PeriodOf(w).shouldComplete
    BY <1>2, PeriodShape DEF AnswerInv
  <1>4. AnswersWhatEnds(runs[w])'
    BY <1>1, <1>2, <1>3 DEF AnswersWhatEnds
  <1> HIDE DEF j
  <1> QED BY <1>1, <1>4, AnswerStep DEF OthersKept, Ended

(* Reporting a run that completes its task answers it.                     *)
LEMMA AnswerReport ==
  ASSUME AnswerInv, TypeOK', NEW w \in Workers, Report(w) PROVE AnswerInv'
  <1> DEFINE m == ResultOf(runs[w])
  <1>1. /\ runs[w].pc = "report"
        /\ runs'[w].pc = "finish" /\ runs'[w].job = runs[w].job
        /\ runs'[w].copy = runs[w].copy
        /\ \A v \in Workers \ {w} : runs'[v] = runs[v]
        /\ reported' = reported \union {m}
        /\ UNCHANGED <<request, db, mode>>
    BY ReportEffect DEF AnswerInv
  <1>2. AnswersWhatEnds(runs[w])
    BY <1>1 DEF Live, AnswerInv
  <1>3. runs[w].period.shouldComplete => m.job = runs[w].job /\ m.status = "DONE"
    BY DEF ResultOf
  <1> HIDE DEF m
  <1>4. AnswersWhatEnds(runs[w])'
    BY <1>1, <1>2, <1>3 DEF AnswersWhatEnds, Answered
  <1> QED BY <1>1, <1>4, AnswerStep

(* A failure answers the task.                                             *)
LEMMA AnswerFail ==
  ASSUME AnswerInv, TypeOK', NEW w \in Workers, Fail(w) \/ SaveUnanswered(w)
  PROVE  AnswerInv'
  <1> DEFINE m == FailureOf(runs[w].job)
  <1>1. /\ runs'[w].pc = "finish" /\ runs'[w].job = runs[w].job
        /\ \A v \in Workers \ {w} : runs'[v] = runs[v]
        /\ reported' = reported \union {m}
        /\ UNCHANGED <<request, db, mode>>
    BY FailEffect, UnansweredEffect DEF AnswerInv
  <1>2. m.job = runs[w].job /\ m.status = "FAILED"
    BY DEF FailureOf
  <1> HIDE DEF m
  <1>3. AnswersWhatEnds(runs[w])'
    BY <1>1, <1>2 DEF AnswersWhatEnds, Answered
  <1> QED BY <1>1, <1>3, AnswerStep

(* A run gives up its lock only after its task was answered.               *)
LEMMA AnswerFinish ==
  ASSUME AnswerInv, TypeOK', NEW w \in Workers, Finish(w) PROVE AnswerInv'
  <1>1. PICK j : j = runs[w].job
    OBVIOUS
  <1>2. /\ j \in Jobs /\ runs[w].pc = "finish" /\ runs'[w] = NoRun
        /\ db'[j].nextRunAt = runs[w].copy.nextRunAt
        /\ OthersKept(w, j) /\ UNCHANGED <<request, mode, reported>>
    BY <1>1, FinishEffect DEF AnswerInv
  <1>3. AnswersWhatEnds(runs[w])
    BY <1>2 DEF Live, AnswerInv
  <1>4. Ended(db'[j]) => Answered(j)'
    BY <1>1, <1>2, <1>3 DEF AnswersWhatEnds, Ended, Answered
  <1>5. ~Live(w)'
    BY <1>2 DEF Live, NoRun
  <1> QED BY <1>2, <1>4, <1>5, AnswerStep DEF OthersKept

(* The steps of the service as a whole and of the messages.                *)
LEMMA AnswerElse ==
  ASSUME AnswerInv, TypeOK',
         \/ \E j \in Jobs : ScheduleJob(j) \/ RefuseTask(j) \/ ModeSave(j)
         \/ \E w \in Workers : DropExpired(w) \/ RunStateLost(w)
         \/ Kill \/ Shutdown
         \/ ModeReceive \/ ModeFind \/ ModeFindFails \/ ModeReply
         \/ \E j \in Jobs : ModeSaveFails(j)
         \/ Tick \/ UNCHANGED vars
  PROVE  AnswerInv'
  <1>1. TypeOK
    BY DEF AnswerInv
  <1>2. ASSUME NEW j \in Jobs, ScheduleJob(j) PROVE AnswerInv'
    <2>1. /\ db'[j].nextRunAt # None
          /\ \A k \in Jobs \ {j} : db'[k] = db[k]
          /\ \A k \in Jobs : db[k] # None => request'[k] = request[k]
          /\ UNCHANGED <<runs, mode, reported>>
      BY <1>1, <1>2, ScheduleEffect
    <2> QED BY <2>1, AnswerStep DEF Ended
  <1>3. ASSUME NEW j \in Jobs, RefuseTask(j) PROVE AnswerInv'
    BY <1>1, <1>3, RefuseEffect, AnswerStep
  <1>4. ASSUME NEW j \in Jobs, ModeSave(j) PROVE AnswerInv'
    <2>1. /\ mode.copies[j] # None
          /\ db'[j].nextRunAt = mode.copies[j].nextRunAt
          /\ Unlocked(db'[j]) => Unlocked(mode.copies[j])
          /\ \A k \in Jobs \ {j} : db'[k] = db[k]
          /\ mode'.copies = mode.copies
          /\ UNCHANGED <<request, runs, reported>>
      BY <1>1, <1>4, ModeSaveEffect
    <2>2. Ended(db'[j]) => Answered(j)'
      BY <2>1 DEF AnswerInv, Ended, Answered
    <2> QED BY <2>1, <2>2, AnswerStep
  <1>5. ASSUME NEW w \in Workers, DropExpired(w) \/ RunStateLost(w) PROVE AnswerInv'
    <2>1. /\ runs'[w] = NoRun /\ \A v \in Workers \ {w} : runs'[v] = runs[v]
          /\ UNCHANGED <<request, db, mode, reported>>
      BY <1>1, <1>5, DropEffect
    <2>2. ~Live(w)'
      BY <2>1 DEF Live, NoRun
    <2> QED BY <2>1, <2>2, AnswerStep
  <1>6. CASE Kill
    <2>1. /\ \A j \in Jobs : mode'.copies[j] = None \/ mode'.copies[j] = mode.copies[j]
          /\ UNCHANGED <<request, db, reported>>
      BY <1>1, <1>6, KillEffect
    <2>2. \A w \in Workers : ~Live(w)'
      BY <1>1, <1>6, KillEffect DEF Live, NoRun
    <2> QED BY <2>1, <2>2, AnswerStep
  <1>7. CASE Shutdown
    <2>1. /\ \A j \in Jobs : db'[j] = db[j] \/ db'[j].nextRunAt # None
          /\ UNCHANGED <<request, runs, mode, reported>>
      BY <1>1, <1>7, ShutdownEffect
    <2> QED BY <2>1, AnswerStep DEF Ended
  <1>8. CASE ModeReceive \/ ModeFind \/ ModeFindFails \/ ModeReply
                \/ \E j \in Jobs : ModeSaveFails(j)
    BY <1>1, <1>8, ModeEffect, AnswerStep
  <1>9. CASE Tick \/ UNCHANGED vars
    BY <1>9, AnswerStep DEF Tick, vars
  <1> QED BY <1>2, <1>3, <1>4, <1>5, <1>6, <1>7, <1>8, <1>9

(* Every step preserves the invariant.                                     *)
LEMMA AnswerNext == AnswerInv /\ [Next]_vars => AnswerInv'
  <1> SUFFICES ASSUME AnswerInv, [Next]_vars PROVE AnswerInv'
    OBVIOUS
  <1>1. TypeOK'
    BY NextType DEF AnswerInv
  <1>2. ASSUME NEW w \in Workers, NEW j \in Jobs, LockDue(w, j) \/ LockExpired(w, j)
        PROVE  AnswerInv'
    BY <1>1, <1>2, AnswerTakeLock DEF LockDue, LockExpired
  <1>3. CASE Crash \/ Exit
    BY <1>1, <1>3, AnswerElse DEF Crash, Exit
  <1> QED
    BY <1>1, <1>2, <1>3, AnswerStart, AnswerDownload, AnswerStoreFile,
       AnswerSaveProgress, AnswerPostpone, AnswerReport, AnswerFail, AnswerFinish,
       AnswerElse DEF Next

(* A job that agenda will never run again was answered, whatever crashes,  *)
(* shutdowns, lost saves and mode messages there were.                     *)
THEOREM NoJobStranded == Spec => []NoStrandedJob
  <1>1. AnswerInv => NoStrandedJob
    BY DEF AnswerInv, NoStrandedJob, Scheduled, Ended, Answered
  <1> QED BY <1>1, AnswerInit, AnswerNext, PTL DEF Spec
------------------------------------------------------------------------------
Undisturbed(j) == disturbed[j] = {}

(* The copy of a run agrees with the stored document, which is locked      *)
(* until the service begins to stop.                                       *)
HoldsItsLock(w) ==
  /\ service = "up" => ~Unlocked(db[runs[w].job])
  /\ runs[w].copy.disabled = db[runs[w].job].disabled
  /\ runs[w].copy.currentDateFrom = db[runs[w].job].currentDateFrom

(* A run works on a job that is enabled, and has disabled it by the time   *)
(* it reports the last result.                                             *)
DisablesTheDone(run) ==
  /\ run.pc \in {"locked", "started", "store"} => run.copy.disabled # TRUE
  /\ run.pc = "report" /\ run.period.canFetch /\ run.period.shouldComplete
       => run.copy.disabled = TRUE

IsLastResult(m) == m.status = "DONE" /\ HasResult(m)

(* The inductive invariant behind OneRunUnlessDisturbed and DoneIsFinal:   *)
(* without a disturbance a run and the stored document agree, so that a    *)
(* second run finds the lock taken and no stale copy is saved.             *)
LockInv ==
  /\ TypeOK
  /\ OneRunUnlessDisturbed
  /\ \A w \in Workers : Live(w) /\ Undisturbed(runs[w].job) => HoldsItsLock(w)
  /\ \A w \in Workers : Live(w) => DisablesTheDone(runs[w])
  /\ \A m \in reported \union lost : HasResult(m) => Scheduled(m.job)
  /\ DoneIsFinal

(* A step of the run of job j in slot w.                                   *)
LEMMA LockSlotStep ==
  ASSUME LockInv, TypeOK', NEW w \in Workers, NEW j \in Jobs,
         Live(w), runs[w].job = j, OthersKept(w, j), db'[j] # None,
         UNCHANGED <<service, disturbed>>,
         \/ runs'[w] = NoRun
         \/ /\ runs'[w].job = j /\ DisablesTheDone(runs[w])'
            /\ Undisturbed(j) => HoldsItsLock(w)',
         Undisturbed(j) /\ db[j].disabled = TRUE => db'[j].disabled = TRUE,
         \A m \in reported' \union lost' : m \in reported \union lost \/ m.job = j,
         \A m \in reported' :
           \/ m \in reported
           \/ /\ m.job = j
              /\ IsLastResult(m) /\ Undisturbed(j) => db'[j].disabled = TRUE
  PROVE  LockInv'
  <1>1. \A v \in Workers \ {w} : runs'[v] = runs[v]
    BY DEF OthersKept
  <1>2. \A v \in Workers \ {w} : Live(v) /\ Undisturbed(j) => runs[v].job # j
    BY DEF LockInv, OneRunUnlessDisturbed, Undisturbed
  <1>3. OneRunUnlessDisturbed'
    BY <1>1, <1>2 DEF LockInv, OneRunUnlessDisturbed, Undisturbed, Live, NoRun
  <1>4. ASSUME NEW v \in Workers, Live(v)', Undisturbed(runs[v].job)'
        PROVE  HoldsItsLock(v)'
    <2>1. CASE v = w
      BY <2>1, <1>4 DEF Live, NoRun, Undisturbed
    <2>2. CASE v # w
      <3>1. Live(v) /\ runs'[v] = runs[v] /\ Undisturbed(runs[v].job)
        BY <1>1, <1>4, <2>2 DEF Live, Undisturbed
      <3>2. runs[v].job \in Jobs \ {j} /\ HoldsItsLock(v)
        BY <1>2, <2>2, <3>1, LiveRun DEF LockInv
      <3>3. db'[runs[v].job] = db[runs[v].job]
        BY <3>2 DEF OthersKept
      <3> QED BY <3>1, <3>2, <3>3 DEF HoldsItsLock, Unlocked
    <2> QED BY <2>1, <2>2
  <1>5. ASSUME NEW v \in Workers, Live(v)' PROVE DisablesTheDone(runs[v])'
    <2>1. CASE v = w
      BY <2>1, <1>5 DEF Live, NoRun
    <2>2. CASE v # w
      BY <1>1, <1>5, <2>2 DEF Live, LockInv, DisablesTheDone
    <2> QED BY <2>1, <2>2
  <1>6. \A k \in Jobs : Scheduled(k) => Scheduled(k)'
    BY DEF OthersKept, Scheduled
  <1>7. ASSUME NEW m \in reported' \union lost', HasResult(m) PROVE Scheduled(m.job)'
    <2>1. CASE m \in reported \union lost
      <3>1. Scheduled(m.job) /\ m.job \in Jobs
        BY <1>7, <2>1 DEF LockInv, TypeOK, StatusMessage
      <3> QED BY <3>1, <1>6
    <2>2. CASE m.job = j
      BY <2>2 DEF Scheduled
    <2> QED BY <2>1, <2>2
  <1>8. ASSUME NEW k \in Jobs, disturbed'[k] = {},
               NEW m \in reported', m.job = k, IsLastResult(m)
        PROVE  db'[k].disabled = TRUE
    <2>1. CASE m \in reported
      <3>1. db[k].disabled = TRUE
        BY <1>8, <2>1 DEF LockInv, DoneIsFinal, IsLastResult
      <3> QED BY <1>8, <3>1 DEF OthersKept, Undisturbed
    <2>2. CASE m \notin reported
      <3>1. m.job = j /\ (IsLastResult(m) /\ Undisturbed(j) => db'[j].disabled = TRUE)
        BY <2>2
      <3> QED BY <1>8, <3>1 DEF Undisturbed
    <2> QED BY <2>1, <2>2
  <1> QED BY <1>3, <1>4, <1>5, <1>7, <1>8 DEF LockInv, DoneIsFinal, IsLastResult

(* A step that ends runs at most, and changes no disabled flag and no date *)
(* of a job that stays undisturbed.                                        *)
LEMMA LockQuietStep ==
  ASSUME LockInv, TypeOK',
         \A w \in Workers : runs'[w] = runs[w] \/ runs'[w] = NoRun,
         \A j \in Jobs : Undisturbed(j)' => Undisturbed(j),
         \A j \in Jobs : db[j] # None =>
           /\ db'[j] # None
           /\ Undisturbed(j)' => SameTask(db'[j], db[j])
           /\ Undisturbed(j)' /\ (\E w \in Workers : Live(w)') /\ service' = "up"
                => service = "up" /\ (Unlocked(db[j]) <=> Unlocked(db'[j])),
         \A m \in reported' \union lost' :
           m \in reported \union lost \/ ~HasResult(m) \/ Scheduled(m.job),
         \A m \in reported' : m \in reported \/ ~HasResult(m)
  PROVE  LockInv'
  <1>1. \A w \in Workers : Live(w)' => Live(w) /\ runs'[w] = runs[w]
    BY DEF Live, NoRun
  <1>2. OneRunUnlessDisturbed'
    BY <1>1, LiveRun DEF LockInv, OneRunUnlessDisturbed, Undisturbed
  <1>3. ASSUME NEW v \in Workers, Live(v)', Undisturbed(runs[v].job)'
        PROVE  HoldsItsLock(v)'
    <2> DEFINE j == runs[v].job
    <2>1. Live(v) /\ runs'[v] = runs[v]
      BY <1>1, <1>3
    <2>2. j \in Jobs /\ db[j] # None
      BY <2>1, LiveRun DEF LockInv, TypeOK, Scheduled
    <2>3. disturbed'[j] = {}
      BY <1>3, <2>1 DEF Undisturbed
    <2>4. HoldsItsLock(v)
      BY <2>1, <2>2, <2>3 DEF LockInv, Undisturbed
    <2>5. SameTask(db'[j], db[j])
      BY <2>2, <2>3 DEF Undisturbed
    <2>6. service' = "up" => service = "up" /\ (Unlocked(db[j]) <=> Unlocked(db'[j]))
      BY <1>3, <2>2, <2>3 DEF Undisturbed
    <2> QED BY <2>1, <2>4, <2>5, <2>6 DEF HoldsItsLock, SameTask, Unlocked
  <1>4. ASSUME NEW v \in Workers, Live(v)' PROVE DisablesTheDone(runs[v])'
    BY <1>1, <1>4 DEF LockInv, DisablesTheDone
  <1>5. ASSUME NEW m \in reported' \union lost', HasResult(m) PROVE Scheduled(m.job)'
    <2>1. Scheduled(m.job)
      BY <1>5 DEF LockInv
    <2>2. m.job \in Jobs
      BY DEF TypeOK, StatusMessage
    <2> QED BY <2>1, <2>2 DEF Scheduled
  <1>6. ASSUME NEW k \in Jobs, disturbed'[k] = {},
               NEW m \in reported', m.job = k, IsLastResult(m)
        PROVE  db'[k].disabled = TRUE
    <2>1. m \in reported /\ Scheduled(k) /\ Undisturbed(k)
      BY <1>6 DEF IsLastResult, LockInv, Undisturbed
    <2>2. db[k].disabled = TRUE
      BY <1>6, <2>1 DEF LockInv, DoneIsFinal, IsLastResult, Undisturbed
    <2> QED BY <1>6, <2>1, <2>2 DEF Scheduled, Undisturbed, SameTask
  <1> QED BY <1>2, <1>3, <1>4, <1>5, <1>6 DEF LockInv, DoneIsFinal, IsLastResult

(* Nothing runs and nothing was reported at the start.                     *)
LEMMA LockInit == Init => LockInv
  BY InitType DEF Init, LockInv, NoRun, Live, OneRunUnlessDisturbed, DoneIsFinal

(* A lock is taken by a single run, or over a run and then the job counts  *)
(* as disturbed.                                                           *)
LEMMA LockTakeLock ==
  ASSUME LockInv, TypeOK', NEW w \in Workers, NEW j \in Jobs, db[j] # None, TakeLock(w, j),
         \A k \in Jobs : Undisturbed(k)' => Undisturbed(k),
         \A v \in Workers : Live(v) /\ runs[v].job = j => ~Undisturbed(j)'
  PROVE  LockInv'
  <1>1. /\ service = "up" /\ ~Live(w) /\ db[j].disabled # TRUE
        /\ runs'[w].pc = "locked" /\ runs'[w].job = j
        /\ runs'[w].copy = db'[j]
        /\ db'[j] \in Document /\ ~Unlocked(db'[j]) /\ SameTask(db'[j], db[j])
        /\ \A v \in Workers \ {w} : runs'[v] = runs[v]
        /\ \A k \in Jobs \ {j} : db'[k] = db[k]
        /\ UNCHANGED <<service, reported, lost>>
    BY TakeLockEffect DEF OthersKept, LockInv
  <1>2. OneRunUnlessDisturbed'
    <2> SUFFICES ASSUME NEW u \in Workers, NEW v \in Workers, u # v,
                        Live(u)', Live(v)', runs'[u].job = runs'[v].job
                 PROVE  disturbed'[runs'[u].job] # {}
      BY DEF OneRunUnlessDisturbed
    <2>1. CASE u = w \/ v = w
      BY <1>1, <2>1 DEF Live, Undisturbed
    <2>2. CASE u # w /\ v # w
      <3>1. /\ Live(u) /\ Live(v) /\ runs'[u] = runs[u] /\ runs'[v] = runs[v]
            /\ runs[u].job \in Jobs
        BY <1>1, <2>2, LiveRun DEF Live, LockInv
      <3>2. ~Undisturbed(runs[u].job)
        BY <3>1 DEF LockInv, OneRunUnlessDisturbed, Undisturbed
      <3> QED BY <3>1, <3>2 DEF Undisturbed
    <2> QED BY <2>1, <2>2
  <1>3. ASSUME NEW v \in Workers, Live(v)', Undisturbed(runs[v].job)'
        PROVE  HoldsItsLock(v)'
    <2>1. CASE v = w
      BY <1>1, <2>1 DEF HoldsItsLock, Unlocked
    <2>2. CASE v # w
      <3>1. Live(v) /\ runs'[v] = runs[v] /\ runs[v].job \in Jobs
        BY <1>1, <1>3, <2>2, LiveRun DEF Live, LockInv
      <3>2. runs[v].job # j /\ Undisturbed(runs[v].job)
        BY <1>3, <3>1 DEF Undisturbed
      <3>3. HoldsItsLock(v) /\ db'[runs[v].job] = db[runs[v].job]
        BY <1>1, <3>1, <3>2 DEF LockInv
      <3> QED BY <1>1, <3>1, <3>3 DEF HoldsItsLock, Unlocked
    <2> QED BY <2>1, <2>2
  <1>4. ASSUME NEW v \in Workers, Live(v)' PROVE DisablesTheDone(runs[v])'
    <2>1. CASE v = w
      <3>1. runs'[w].copy.disabled # TRUE
        BY <1>1 DEF SameTask
      <3> QED BY <1>1, <2>1, <3>1 DEF DisablesTheDone
    <2>2. CASE v # w
      BY <1>1, <1>4, <2>2 DEF LockInv, DisablesTheDone, Live
    <2> QED BY <2>1, <2>2
  <1>5. db'[j] # None
    BY <1>1, DocumentAssumption
  <1>6. ASSUME NEW m \in reported' \union lost', HasResult(m) PROVE Scheduled(m.job)'
    <2>1. Scheduled(m.job) /\ m.job \in Jobs
      BY <1>1, <1>6 DEF LockInv, TypeOK, StatusMessage
    <2> QED BY <1>1, <1>5, <2>1 DEF Scheduled
  <1>7. ASSUME NEW k \in Jobs, disturbed'[k] = {},
               NEW m \in reported', m.job = k, IsLastResult(m)
        PROVE  db'[k].disabled = TRUE
    <2>1. db[k].disabled = TRUE
      BY <1>1, <1>7 DEF LockInv, DoneIsFinal, IsLastResult, Undisturbed
    <2>2. k # j
      BY <1>1, <2>1
    <2> QED BY <1>1, <2>1, <2>2
  <1> QED BY <1>2, <1>3, <1>4, <1>6, <1>7 DEF LockInv, DoneIsFinal, IsLastResult

(* The steps of a run.                                                     *)
LEMMA LockRunStep ==
  ASSUME LockInv, TypeOK', NEW w \in Workers,
         \/ Start(w) \/ Download(w) \/ StoreFile(w) \/ SaveProgress(w) \/ Postpone(w)
         \/ Report(w) \/ Fail(w) \/ SaveUnanswered(w) \/ Finish(w)
  PROVE  LockInv'
  <1>1. PICK j : j = runs[w].job
    OBVIOUS
  <1>2. Live(w)
    BY DEF Start, Download, StoreFile, SaveProgress, Postpone, Report, Fail, SaveUnanswered,
       Finish, Live
  <1>3. /\ TypeOK /\ j \in Jobs /\ runs[w].job = j /\ runs[w] \in Run
        /\ db[j] # None /\ db[j] \in Document
    BY <1>1, <1>2, LiveRun DEF LockInv, TypeOK, Scheduled
  <1>4. DisablesTheDone(runs[w]) /\ (Undisturbed(j) => HoldsItsLock(w))
    BY <1>2, <1>3 DEF LockInv
  <1>5. CASE Start(w)
    <2>1. /\ runs[w].pc = "locked" /\ runs'[w].pc = "started" /\ runs'[w].job = j
          /\ SameTask(runs'[w].copy, runs[w].copy)
          /\ ~Unlocked(db'[j]) /\ SameTask(db'[j], db[j])
          /\ OthersKept(w, j) /\ UNCHANGED <<service, reported, lost, disturbed>>
      BY <1>1, <1>3, <1>5, StartEffect
    <2>2. DisablesTheDone(runs[w])'
      BY <1>4, <2>1 DEF DisablesTheDone, SameTask
    <2>3. Undisturbed(j) => HoldsItsLock(w)'
      BY <1>3, <1>4, <2>1 DEF HoldsItsLock, SameTask, Unlocked
    <2>4. db'[j] # None
      BY <1>1, <1>3, <1>5, StartEffect
    <2>5. db[j].disabled = TRUE => db'[j].disabled = TRUE
      BY <2>1 DEF SameTask
    <2> QED BY <1>2, <1>3, <2>1, <2>2, <2>3, <2>4, <2>5, LockSlotStep
  <1>6. CASE Download(w) \/ StoreFile(w)
    <2>1. /\ runs[w].pc \in {"started", "store"} /\ runs'[w].pc = "store" /\ runs'[w].job = j
          /\ runs'[w].copy = runs[w].copy
          /\ \A v \in Workers \ {w} : runs'[v] = runs[v]
          /\ UNCHANGED <<db, service, reported, lost, disturbed>>
      BY <1>3, <1>6, DownloadEffect, StoreFileEffect
    <2>2. DisablesTheDone(runs[w])'
      BY <1>4, <2>1 DEF DisablesTheDone
    <2>3. Undisturbed(j) => HoldsItsLock(w)'
      BY <1>3, <1>4, <2>1 DEF HoldsItsLock, Unlocked
    <2> QED BY <1>2, <1>3, <2>1, <2>2, <2>3, LockSlotStep DEF OthersKept
  <1>7. CASE SaveProgress(w)
    <2>1. /\ runs[w].pc = "store" /\ runs'[w].pc = "report" /\ runs'[w].job = j
          /\ runs'[w].period = runs[w].period
          /\ runs'[w].copy.currentDateFrom = db'[j].currentDateFrom
          /\ runs'[w].copy.disabled =
               IF runs[w].period.shouldComplete THEN TRUE ELSE runs[w].copy.disabled
          /\ runs[w].copy.disabled = db[j].disabled =>
               db'[j].disabled = runs'[w].copy.disabled
          /\ db'[j] \in Document /\ ~Unlocked(db'[j])
          /\ OthersKept(w, j) /\ UNCHANGED <<service, reported, lost, disturbed>>
      BY <1>1, <1>3, <1>7, SaveProgressEffect
    <2>2. DisablesTheDone(runs[w])'
      BY <2>1 DEF DisablesTheDone
    <2>3. Undisturbed(j) => HoldsItsLock(w)'
      BY <1>3, <1>4, <2>1 DEF HoldsItsLock, Unlocked
    <2>4. Undisturbed(j) /\ db[j].disabled = TRUE => db'[j].disabled = TRUE
      BY <1>3, <1>4, <2>1, Zenon DEF HoldsItsLock
    <2>5. db'[j] # None
      BY <2>1, DocumentAssumption
    <2> QED BY <1>2, <1>3, <2>1, <2>2, <2>3, <2>4, <2>5, LockSlotStep
  <1>8. CASE Postpone(w)
    <2>1. /\ runs'[w].pc = "report" /\ runs'[w].job = j
          /\ runs'[w].period = PeriodOf(w) /\ ~PeriodOf(w).canFetch
          /\ SameTask(runs'[w].copy, runs[w].copy)
          /\ db'[j].currentDateFrom = runs[w].copy.currentDateFrom
          /\ runs[w].copy.disabled = db[j].disabled => db'[j].disabled = db[j].disabled
          /\ db'[j] \in Document /\ ~Unlocked(db'[j])
          /\ OthersKept(w, j) /\ UNCHANGED <<service, reported, lost, disturbed>>
      BY <1>1, <1>3, <1>8, PostponeEffect
    <2>2. DisablesTheDone(runs[w])'
      BY <2>1 DEF DisablesTheDone
    <2>3. Undisturbed(j) => HoldsItsLock(w)'
      BY <1>3, <1>4, <2>1 DEF HoldsItsLock, SameTask, Unlocked
    <2>4. Undisturbed(j) /\ db[j].disabled = TRUE => db'[j].disabled = TRUE
      BY <1>3, <1>4, <2>1, Zenon DEF HoldsItsLock
    <2>5. db'[j] # None
      BY <2>1, DocumentAssumption
    <2> QED BY <1>2, <1>3, <2>1, <2>2, <2>3, <2>4, <2>5, LockSlotStep
  <1>9. CASE Report(w)
    <2> DEFINE m == ResultOf(runs[w])
    <2>1. /\ runs[w].pc = "report" /\ runs'[w].pc = "finish" /\ runs'[w].job = j
          /\ runs'[w].copy = runs[w].copy
          /\ \A v \in Workers \ {w} : runs'[v] = runs[v]
          /\ reported' = reported \union {m}
          /\ UNCHANGED <<db, service, lost, disturbed>>
      BY <1>3, <1>9, ReportEffect
    <2>2. DisablesTheDone(runs[w])'
      BY <2>1 DEF DisablesTheDone
    <2>3. Undisturbed(j) => HoldsItsLock(w)'
      BY <1>3, <1>4, <2>1 DEF HoldsItsLock, Unlocked
    <2>4. m.job = j
      BY <1>3 DEF ResultOf
    <2>5. IsLastResult(m) => runs[w].period.canFetch /\ runs[w].period.shouldComplete
      BY DEF IsLastResult, HasResult, ResultOf
    <2>6. IsLastResult(m) /\ Undisturbed(j) => db'[j].disabled = TRUE
      BY <1>3, <1>4, <2>1, <2>5, Zenon DEF DisablesTheDone, HoldsItsLock
    <2> HIDE DEF m
    <2> QED BY <1>2, <1>3, <2>1, <2>2, <2>3, <2>4, <2>6, LockSlotStep DEF OthersKept
  <1>10. CASE Fail(w)
    <2> DEFINE m == FailureOf(j)
    <2>1. /\ runs'[w].pc = "finish" /\ runs'[w].job = j
          /\ SameTask(runs'[w].copy, runs[w].copy)
          /\ \A v \in Workers \ {w} : runs'[v] = runs[v]
          /\ reported' = reported \union {m}
          /\ UNCHANGED <<db, service, lost, disturbed>>
      BY <1>3, <1>10, FailEffect
    <2>2. DisablesTheDone(runs[w])'
      BY <2>1 DEF DisablesTheDone
    <2>3. Undisturbed(j) => HoldsItsLock(w)'
      BY <1>3, <1>4, <2>1 DEF HoldsItsLock, SameTask, Unlocked
    <2>4. m.job = j /\ ~IsLastResult(m)
      BY DEF FailureOf, IsLastResult
    <2> HIDE DEF m
    <2> QED BY <1>2, <1>3, <2>1, <2>2, <2>3, <2>4, LockSlotStep DEF OthersKept
  <1>11. CASE SaveUnanswered(w)
    <2> DEFINE m == FailureOf(j)
               result == ResultOf(runs[w])
    <2>1. /\ runs[w].pc = "report" /\ runs'[w].pc = "finish" /\ runs'[w].job = j
          /\ runs'[w].copy = runs[w].copy
          /\ \A v \in Workers \ {w} : runs'[v] = runs[v]
          /\ reported' = reported \union {m} /\ lost' = lost \union {result}
          /\ UNCHANGED <<db, service, disturbed>>
      BY <1>3, <1>11, UnansweredEffect
    <2>2. DisablesTheDone(runs[w])'
      BY <1>4, <2>1 DEF DisablesTheDone
    <2>3. Undisturbed(j) => HoldsItsLock(w)'
      BY <1>3, <1>4, <2>1 DEF HoldsItsLock, Unlocked
    <2>4. m.job = j /\ ~IsLastResult(m) /\ result.job = j
      BY <1>3 DEF FailureOf, ResultOf, IsLastResult
    <2> HIDE DEF m, result
    <2> QED BY <1>2, <1>3, <2>1, <2>2, <2>3, <2>4, LockSlotStep DEF OthersKept
  <1>12. CASE Finish(w)
    <2>1. /\ runs'[w] = NoRun
          /\ SameTask(db'[j], db[j])
          /\ OthersKept(w, j) /\ UNCHANGED <<service, reported, lost, disturbed>>
      BY <1>1, <1>3, <1>12, FinishEffect
    <2>2. db'[j] # None
      BY <1>1, <1>3, <1>12, FinishEffect
    <2>3. db[j].disabled = TRUE => db'[j].disabled = TRUE
      BY <2>1 DEF SameTask
    <2> QED BY <1>2, <1>3, <2>1, <2>2, <2>3, LockSlotStep
  <1> QED BY <1>5, <1>6, <1>7, <1>8, <1>9, <1>10, <1>11, <1>12

(* The steps of the service as a whole and of the messages.                *)
LEMMA LockElse ==
  ASSUME LockInv, TypeOK',
         \/ \E j \in Jobs : ScheduleJob(j) \/ RefuseTask(j) \/ ModeSave(j)
         \/ \E w \in Workers : DropExpired(w) \/ RunStateLost(w)
         \/ Kill \/ Shutdown
         \/ ModeReceive \/ ModeFind \/ ModeFindFails \/ ModeReply
         \/ \E j \in Jobs : ModeSaveFails(j)
         \/ Tick \/ UNCHANGED vars
  PROVE  LockInv'
  <1>1. TypeOK
    BY DEF LockInv
  <1>2. ASSUME NEW j \in Jobs, ScheduleJob(j) PROVE LockInv'
    <2>1. /\ db[j] = None /\ db'[j] # None
          /\ \A k \in Jobs \ {j} : db'[k] = db[k]
          /\ UNCHANGED <<service, runs, reported, lost, disturbed>>
      BY <1>1, <1>2, ScheduleEffect
    <2> QED BY <2>1, LockQuietStep DEF SameTask, Unlocked, Undisturbed
  <1>3. ASSUME NEW j \in Jobs, RefuseTask(j) PROVE LockInv'
    <2>1. ~HasResult(FailureOf(j))
      BY DEF HasResult, FailureOf
    <2> QED BY <1>1, <1>3, <2>1, RefuseEffect, LockQuietStep
              DEF SameTask, Unlocked, Undisturbed
  <1>4. ASSUME NEW j \in Jobs, ModeSave(j) PROVE LockInv'
    <2>1. /\ db'[j] # None
          /\ \A k \in Jobs \ {j} : db'[k] = db[k] /\ disturbed'[k] = disturbed[k]
          /\ disturbed'[j] # {}
          /\ UNCHANGED <<service, runs, reported, lost>>
      BY <1>1, <1>4, ModeSaveEffect
    <2> QED BY <2>1, LockQuietStep DEF SameTask, Unlocked, Undisturbed
  <1>5. ASSUME NEW w \in Workers, DropExpired(w) \/ RunStateLost(w) PROVE LockInv'
    <2>1. /\ runs'[w] = NoRun /\ \A v \in Workers \ {w} : runs'[v] = runs[v]
          /\ UNCHANGED <<db, service, reported, lost, disturbed>>
      BY <1>1, <1>5, DropEffect
    <2> QED BY <2>1, LockQuietStep DEF SameTask, Unlocked, Undisturbed
  <1>6. CASE Kill
    <2>1. /\ \A w \in Workers : runs'[w] = NoRun
          /\ lost' = lost \union
               {ResultOf(runs[w]) : w \in {v \in Workers : runs[v].pc = "report"}}
          /\ UNCHANGED <<db, reported, disturbed>>
      BY <1>1, <1>6, KillEffect
    <2>2. \A w \in Workers : ~Live(w)'
      BY <2>1 DEF Live, NoRun
    <2>3. ASSUME NEW m \in lost', m \notin lost PROVE Scheduled(m.job)
      <3>1. PICK w \in Workers : runs[w].pc = "report" /\ m = ResultOf(runs[w])
        BY <2>1, <2>3
      <3>2. m.job = runs[w].job
        BY <3>1 DEF ResultOf
      <3> QED BY <1>1, <3>1, <3>2 DEF TypeOK, Live
    <2> QED BY <2>1, <2>2, <2>3, LockQuietStep DEF SameTask, Undisturbed
  <1>7. CASE Shutdown
    <2>1. /\ service' = "stopping"
          /\ \A j \in Jobs :
               \/ db'[j] = db[j]
               \/ db'[j] # None /\ SameTask(db'[j], db[j])
          /\ UNCHANGED <<runs, reported, lost, disturbed>>
      BY <1>1, <1>7, ShutdownEffect
    <2> QED BY <2>1, LockQuietStep DEF SameTask, Undisturbed
  <1>8. CASE ModeReceive \/ ModeFind \/ ModeFindFails \/ ModeReply
                \/ \E j \in Jobs : ModeSaveFails(j)
    <2>1. UNCHANGED <<db, service, runs, reported, lost, disturbed>>
      BY <1>1, <1>8, ModeEffect
    <2> QED BY <2>1, LockQuietStep DEF SameTask, Unlocked, Undisturbed
  <1>9. CASE Tick \/ UNCHANGED vars
    <2>1. UNCHANGED <<db, service, runs, reported, lost, disturbed>>
      BY <1>9 DEF Tick, vars
    <2> QED BY <2>1, LockQuietStep DEF SameTask, Unlocked, Undisturbed
  <1> QED BY <1>2, <1>3, <1>4, <1>5, <1>6, <1>7, <1>8, <1>9

(* Every step preserves the invariant.                                     *)
LEMMA LockNext == LockInv /\ [Next]_vars => LockInv'
  <1> SUFFICES ASSUME LockInv, [Next]_vars PROVE LockInv'
    OBVIOUS
  <1>1. TypeOK /\ TypeOK'
    BY NextType DEF LockInv
  <1>2. ASSUME NEW w \in Workers, NEW j \in Jobs, LockDue(w, j) PROVE LockInv'
    <2>1. Unlocked(db[j]) /\ db[j] # None /\ TakeLock(w, j) /\ UNCHANGED disturbed
      BY <1>2 DEF LockDue, IsDue
    <2>2. service = "up"
      BY <2>1 DEF TakeLock
    <2>3. ASSUME NEW v \in Workers, Live(v), runs[v].job = j PROVE ~Undisturbed(j)
      BY <2>1, <2>2, <2>3 DEF LockInv, HoldsItsLock
    <2> QED BY <1>1, <2>1, <2>3, LockTakeLock DEF Undisturbed
  <1>3. ASSUME NEW w \in Workers, NEW j \in Jobs, LockExpired(w, j) PROVE LockInv'
    <2>1. db[j] # None /\ TakeLock(w, j)
      BY <1>3 DEF LockExpired
    <2>2. \A k \in Jobs : Undisturbed(k)' => Undisturbed(k)
      BY <1>1, <1>3 DEF LockExpired, Undisturbed, TypeOK
    <2>3. \A v \in Workers : Live(v) /\ runs[v].job = j => ~Undisturbed(j)'
      BY <1>1, <1>3 DEF LockExpired, Undisturbed, TypeOK
    <2> QED BY <1>1, <2>1, <2>2, <2>3, LockTakeLock
  <1>4. CASE Crash \/ Exit
    BY <1>1, <1>4, LockElse DEF Crash, Exit
  <1> QED BY <1>1, <1>2, <1>3, <1>4, LockRunStep, LockElse DEF Next

(* The invariant holds in every reachable state.                           *)
LEMMA LockSafe == Spec => []LockInv
  <1> QED BY LockInit, LockNext, PTL DEF Spec

(* A job has two runs in progress only after a lock expired under a run or *)
(* a mode message rewrote its document.                                    *)
THEOREM OneRun == Spec => []OneRunUnlessDisturbed
  <1>1. LockInv => OneRunUnlessDisturbed
    BY DEF LockInv
  <1> QED BY <1>1, LockSafe, PTL

(* A job that reported its last result stays disabled, unless its lock was *)
(* disturbed.                                                              *)
THEOREM DoneStaysDone == Spec => []DoneIsFinal
  <1>1. LockInv => DoneIsFinal
    BY DEF LockInv
  <1> QED BY <1>1, LockSafe, PTL
=============================================================================
