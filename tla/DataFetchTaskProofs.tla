------------------------- MODULE DataFetchTaskProofs -------------------------
(***************************************************************************)
(* The proof that DataFetchJobs implements FetchTask, for any values of    *)
(* its constants: every step of the service is a step of one task, as the  *)
(* task sees it, or changes nothing a task sees.                           *)
(*                                                                         *)
(* The inductive invariant TaskInv adds to those of the other proofs where *)
(* a cursor can stand (an end of a window that was delivered, or the start *)
(* of a task of which nothing was) and that an undisturbed task has its    *)
(* delivered windows behind it.                                            *)
(***************************************************************************)
EXTENDS DataFetchLocksProofs

USE DEF Maybe

(* What a task sees of an unscheduled and of a scheduled job.              *)
LEMMA CursorOf ==
  ASSUME NEW j \in Jobs
  PROVE  Cursor[j] = IF db[j] # None THEN db[j].currentDateFrom ELSE None
  BY DEF Cursor, Scheduled

(* The windows of a job that were delivered are those of its results.      *)
LEMMA DeliveredOf ==
  ASSUME NEW j \in Jobs
  PROVE  /\ \A m \in Results : m.job = j => [from |-> m.from, to |-> m.to] \in Delivered[j]
         /\ \A d \in Delivered[j] :
              \E m \in Results : m.job = j /\ d = [from |-> m.from, to |-> m.to]
  BY DEF Delivered

(* A window that is settled for a sensor is that of a file.                *)
LEMMA SettledOf ==
  ASSUME NEW j \in Jobs
  PROVE  /\ \A f \in stored \union rejected : f.job = j =>
              [from |-> f.from, to |-> f.to, sensor |-> f.sensor] \in Settled[j]
         /\ \A e \in Settled[j] : \E f \in stored \union rejected :
              f.job = j /\ e = [from |-> f.from, to |-> f.to, sensor |-> f.sensor]
  BY DEF Settled

(* Where the cursor of a job may stand: at an end of a window that was     *)
(* delivered, or where the task begins.                                    *)
StoodAt(j, d) ==
  \/ \E m \in Results : m.job = j /\ (d = m.from \/ d = m.to)
  \/ (\A m \in Results : m.job # j) /\ d = db[j].currentDateFrom

(* The window that a run is storing: whole, and then it completes its job, *)
(* or as long as the window of the request, and then the job goes on after *)
(* it.                                                                     *)
WindowFits(run) ==
  run.pc = "store" =>
    /\ request[run.job].window = None =>
         run.period.shouldComplete /\ run.period.nextFrom = run.period.from
    /\ request[run.job].window # None =>
         /\ run.period.to = run.period.from + request[run.job].window
         /\ run.period.nextFrom = run.period.to

(* An enabled, undisturbed job stands behind every window it delivered,    *)
(* and has delivered none if it has a single one.                          *)
DeliversForward(j) ==
  Scheduled(j) /\ Undisturbed(j) /\ db[j].disabled # TRUE =>
    \A m \in Results : m.job = j =>
      request[j].window # None /\ m.to =< db[j].currentDateFrom

TaskInv ==
  /\ FeedInv
  /\ LockInv
  /\ \A m \in Results : m.to \in Int
  /\ \A j \in Jobs : \A d \in Cursors(j) : StoodAt(j, d)
  /\ \A w \in Workers : Live(w) => WindowFits(runs[w])
  /\ \A j \in Jobs : DeliversForward(j)

(* The results are those of scheduled jobs, and their windows are ranges   *)
(* of instants.                                                            *)
LEMMA ResultOfScheduled ==
  ASSUME LockInv, NEW m \in Results
  PROVE  /\ m.job \in Jobs /\ Scheduled(m.job)
         /\ m.from \in Int
  <1>1. CASE m \in reported \union lost /\ HasResult(m)
    BY <1>1, NoneAssumption DEF LockInv, TypeOK, StatusMessage, HasResult
  <1>2. CASE \E w \in Workers : /\ runs[w].pc = "report" /\ runs[w].period.canFetch
                               /\ m = ResultOf(runs[w])
    <2>1. PICK w \in Workers : /\ runs[w].pc = "report" /\ runs[w].period.canFetch
                              /\ m = ResultOf(runs[w])
      BY <1>2
    <2>2. /\ Live(w) /\ TypeOK /\ runs[w].period \in Period /\ runs[w].job \in Jobs
          /\ Scheduled(runs[w].job)
      BY <2>1, LiveRun DEF Live, LockInv, TypeOK, Run
    <2>3. m.job = runs[w].job /\ m.from = runs[w].period.from
      BY <2>1 DEF ResultOf
    <2> QED BY <2>2, <2>3 DEF Period
  <1> QED BY <1>1, <1>2 DEF Results

(* A step that leaves what a task sees of every job.                       *)
LEMMA TaskStutter ==
  ASSUME TypeOK, TypeOK', Results' = Results, UNCHANGED <<stored, rejected>>,
         \A j \in Jobs : /\ db'[j] = None <=> db[j] = None
                         /\ db[j] # None =>
                              db'[j].currentDateFrom = db[j].currentDateFrom
                         /\ disturbed'[j] = {} <=> disturbed[j] = {}
  PROVE  UNCHANGED Task!vars
  <1>1. Cursor' = Cursor
    BY DEF Cursor, Scheduled
  <1>2. Settled' = Settled
    BY DEF Settled
  <1>3. Delivered' = Delivered
    BY DEF Delivered
  <1>4. Crossed' = Crossed
    BY DEF Crossed
  <1> QED BY <1>1, <1>2, <1>3, <1>4 DEF Task!vars

(* A cursor that stood somewhere is a position of its task.                *)
LEMMA StoodIsPosition ==
  ASSUME NEW j \in Jobs, db[j] # None, NEW d, StoodAt(j, d)
  PROVE  d \in Task!Positions(j)
  <1>1. CASE d = db[j].currentDateFrom
    BY <1>1, CursorOf DEF Task!Positions
  <1>2. CASE \E m \in Results : m.job = j /\ (d = m.from \/ d = m.to)
    <2>1. PICK m \in Results : m.job = j /\ (d = m.from \/ d = m.to)
      BY <1>2
    <2>2. [from |-> m.from, to |-> m.to] \in Delivered[j]
      BY <2>1, DeliveredOf
    <2> DEFINE e == [from |-> m.from, to |-> m.to]
    <2>3. e \in Delivered[j] /\ (d = e.from \/ d = e.to)
      BY <2>1, <2>2
    <2> HIDE DEF e
    <2> QED BY <2>3 DEF Task!Positions
  <1> QED BY <1>1, <1>2 DEF StoodAt

(* A step that disturbs job j and may set its cursor back.                 *)
LEMMA TaskGoesBack ==
  ASSUME TypeOK, TypeOK', NEW j \in Jobs, db[j] # None, db'[j] # None,
         StoodAt(j, db'[j].currentDateFrom), disturbed'[j] # {},
         Results' = Results, UNCHANGED <<stored, rejected>>,
         \A k \in Jobs \ {j} : db'[k] = db[k] /\ disturbed'[k] = disturbed[k]
  PROVE  Task!GoBack(j)
  <1>1. db'[j].currentDateFrom \in Task!Positions(j)
    BY StoodIsPosition
  <1>2. Cursor[j] # None
    <2>1. db[j].currentDateFrom \in Int
      BY DEF TypeOK, Document
    <2> QED BY <2>1, CursorOf, NoneAssumption
  <1>3. Cursor' = [Cursor EXCEPT ![j] = db'[j].currentDateFrom]
    BY DEF Cursor, Scheduled
  <1>4. Crossed' = [Crossed EXCEPT ![j] = TRUE]
    BY DEF Crossed
  <1>5. Settled' = Settled
    BY DEF Settled
  <1>6. Delivered' = Delivered
    BY DEF Delivered
  <1> QED BY <1>1, <1>2, <1>3, <1>4, <1>5, <1>6 DEF Task!GoBack

(* A window may begin where an undisturbed job stands, and elsewhere only  *)
(* if the job was disturbed.                                               *)
LEMMA WindowBegins ==
  ASSUME NEW j \in Jobs, db[j] # None, NEW v,
         StoodAt(j, v.from),
         Undisturbed(j) => v.from = db[j].currentDateFrom
  PROVE  Task!Begins(j, v)
  <1>1. v.from \in Task!Positions(j)
    BY StoodIsPosition
  <1>2. Crossed[j] <=> ~Undisturbed(j)
    BY DEF Crossed, Undisturbed
  <1> QED BY <1>1, <1>2, CursorOf DEF Task!Begins

(* A step that adds files of a window of job j.                            *)
LEMMA TaskSettles ==
  ASSUME TypeOK, TypeOK', NEW j \in Jobs, db[j] # None,
         NEW period, NEW S \in SUBSET Sensors,
         stored' \union rejected' = (stored \union rejected) \union Files(j, period, S),
         Results' = Results, UNCHANGED <<db, disturbed>>,
         StoodAt(j, period.from),
         Undisturbed(j) => period.from = db[j].currentDateFrom
  PROVE  Task!Settle(j)
  <1>1. Cursor[j] # None
    <2>1. db[j].currentDateFrom \in Int
      BY DEF TypeOK, Document
    <2> QED BY <2>1, CursorOf, NoneAssumption
  <1>2. Cursor' = Cursor /\ Delivered' = Delivered /\ Crossed' = Crossed
    BY DEF Cursor, Scheduled, Delivered, Crossed
  <1>3. \A f \in Files(j, period, S) : f.job = j /\ f.from = period.from
    BY DEF Files
  <1>4. \A k \in Jobs \ {j} : Settled'[k] = Settled[k]
    BY <1>3 DEF Settled
  <1>5. Settled' = [Settled EXCEPT ![j] = Settled'[j]]
    BY <1>4 DEF Settled
  <1>6. Settled[j] \subseteq Settled'[j]
    BY DEF Settled
  <1>7. ASSUME NEW e \in Settled'[j], e \notin Settled[j] PROVE Task!Begins(j, e)
    <2>1. PICK f \in stored' \union rejected' :
            f.job = j /\ e = [from |-> f.from, to |-> f.to, sensor |-> f.sensor]
      BY <1>7 DEF Settled
    <2>2. f \notin stored \union rejected
      BY <2>1, <1>7, SettledOf
    <2>3. e.from = period.from
      BY <2>1, <2>2, <1>3
    <2> QED BY <2>3, WindowBegins
  <1> QED BY <1>1, <1>2, <1>5, <1>6, <1>7 DEF Task!Settle

(* A step that adds a result of job j and moves the job's cursor to an end *)
(* of its window.                                                          *)
LEMMA TaskDelivers ==
  ASSUME TypeOK, TypeOK', NEW j \in Jobs, db[j] # None, db'[j] # None,
         NEW m, m.job = j, Results' = Results \union {m},
         UNCHANGED <<stored, rejected, disturbed>>,
         \A k \in Jobs \ {j} : db'[k] = db[k],
         db'[j].currentDateFrom \in {m.from, m.to},
         \A s \in Sensors : [job |-> j, from |-> m.from, to |-> m.to, sensor |-> s]
                              \in stored \union rejected,
         StoodAt(j, m.from),
         Undisturbed(j) => /\ m.from = db[j].currentDateFrom
                           /\ \/ m.from = m.to
                              \/ [from |-> m.from, to |-> m.to] \notin Delivered[j]
  PROVE  Task!Deliver(j)
  <1>1. PICK v : v = [from |-> m.from, to |-> m.to]
    OBVIOUS
  <1>2. v.from = m.from /\ v.to = m.to
    BY <1>1
  <1>3. Task!Begins(j, v)
    BY <1>2, WindowBegins
  <1>4. Crossed[j] <=> ~Undisturbed(j)
    BY DEF Crossed, Undisturbed
  <1>5. \A s \in Sensors : [from |-> v.from, to |-> v.to, sensor |-> s] \in Settled[j]
    <2> SUFFICES ASSUME NEW s \in Sensors
                 PROVE  [from |-> v.from, to |-> v.to, sensor |-> s] \in Settled[j]
      OBVIOUS
    <2> DEFINE f == [job |-> j, from |-> m.from, to |-> m.to, sensor |-> s]
    <2>1. f \in stored \union rejected /\ f.job = j
      OBVIOUS
    <2>2. f.from = v.from /\ f.to = v.to /\ f.sensor = s
      BY <1>2
    <2> HIDE DEF f
    <2> QED BY <2>1, <2>2, SettledOf
  <1>6. Delivered' = [Delivered EXCEPT ![j] = @ \union {v}]
    <2>1. \A k \in Jobs \ {j} : Delivered'[k] = Delivered[k]
      BY DEF Delivered
    <2>2. Delivered'[j] = Delivered[j] \union {v}
      BY <1>1 DEF Delivered
    <2>3. Delivered = [k \in Jobs |-> Delivered[k]] /\ Delivered' = [k \in Jobs |-> Delivered'[k]]
      BY DEF Delivered
    <2> QED BY <2>1, <2>2, <2>3
  <1>7. v \in Delivered'[j]
    BY <1>6 DEF Delivered
  <1>8. Cursor' = [Cursor EXCEPT ![j] = db'[j].currentDateFrom]
    BY DEF Cursor, Scheduled
  <1>9. Settled' = Settled /\ Crossed' = Crossed
    BY DEF Settled, Crossed
  <1>10. db'[j].currentDateFrom \in {v.from, v.to}
    BY <1>2
  <1>11. Crossed[j] \/ v.from = v.to \/ v \notin Delivered[j]
    BY <1>1, <1>2, <1>4
  <1> QED BY <1>3, <1>5, <1>6, <1>7, <1>8, <1>9, <1>10, <1>11 DEF Task!Deliver

(* A step that schedules job j.                                            *)
LEMMA TaskIsScheduled ==
  ASSUME TypeOK, TypeOK', NEW j \in Jobs, db[j] = None, db'[j] # None,
         Results' = Results, UNCHANGED <<stored, rejected, disturbed>>,
         \A k \in Jobs \ {j} : db'[k] = db[k]
  PROVE  Task!Schedule(j)
  <1>1. Cursor[j] = None
    BY CursorOf
  <1>2. Cursor' = [Cursor EXCEPT ![j] = db'[j].currentDateFrom]
    BY DEF Cursor, Scheduled
  <1>3. db'[j].currentDateFrom \in Int
    BY DEF TypeOK, Document
  <1>4. Cursor'[j] = db'[j].currentDateFrom /\ Cursor'[j] # None
    BY <1>2, <1>3, NoneAssumption DEF Cursor
  <1>5. Settled' = Settled /\ Delivered' = Delivered /\ Crossed' = Crossed
    BY DEF Settled, Delivered, Crossed
  <1> QED BY <1>1, <1>2, <1>4, <1>5 DEF Task!Schedule
------------------------------------------------------------------------------
(* A step that tells the server nothing that was not about to be told.     *)
TellsNothingNew ==
  /\ reported \subseteq reported' /\ lost \subseteq lost'
  /\ \A m \in reported' \union lost' :
       \/ m \in reported \union lost \/ ~HasResult(m)
       \/ \E w \in Workers : runs[w].pc = "report" /\ m = ResultOf(runs[w])
  /\ \A w \in Workers :
       \/ runs'[w] = runs[w]
       \/ /\ runs'[w].pc = "report" => ~runs'[w].period.canFetch
          /\ runs[w].pc = "report" => ResultOf(runs[w]) \in reported' \union lost'

LEMMA SameResults ==
  ASSUME TypeOK, TypeOK', TellsNothingNew
  PROVE  Results' = Results
  <1>1. Results \subseteq Results'
    BY ResultsGrow DEF TellsNothingNew
  <1>2. ASSUME NEW m \in Results' PROVE m \in Results
    <2>1. CASE m \in reported' \union lost' /\ HasResult(m)
      <3>1. CASE m \in reported \union lost
        BY <2>1, <3>1 DEF Results
      <3>2. CASE \E w \in Workers : runs[w].pc = "report" /\ m = ResultOf(runs[w])
        <4>1. PICK w \in Workers : runs[w].pc = "report" /\ m = ResultOf(runs[w])
          BY <3>2
        <4>2. runs[w].period.canFetch
          BY <2>1, <4>1 DEF HasResult, ResultOf
        <4> QED BY <4>1, <4>2 DEF Results
      <3> QED BY <2>1, <3>1, <3>2 DEF TellsNothingNew
    <2>2. CASE \E w \in Workers : /\ runs'[w].pc = "report" /\ runs'[w].period.canFetch
                                 /\ m = ResultOf(runs'[w])
      <3>1. PICK w \in Workers : /\ runs'[w].pc = "report" /\ runs'[w].period.canFetch
                                 /\ m = ResultOf(runs'[w])
        BY <2>2
      <3>2. runs'[w] = runs[w]
        BY <3>1 DEF TellsNothingNew
      <3>3. runs[w].pc = "report" /\ runs[w].period.canFetch /\ m = ResultOf(runs[w])
        BY <3>1, <3>2
      <3> QED BY <3>3 DEF Results
    <2>3. (m \in reported' \union lost' /\ HasResult(m))
            \/ \E w \in Workers : /\ runs'[w].pc = "report" /\ runs'[w].period.canFetch
                                 /\ m = ResultOf(runs'[w])
      BY DEF Results, ResultOf, HasResult
    <2> QED BY <2>1, <2>2, <2>3
  <1> QED BY <1>1, <1>2

(* A step that leaves job j where it stands, unless it disturbs it.        *)
KeepsJob(j) ==
  /\ db'[j] # None => db[j] # None /\ db'[j].currentDateFrom \in Cursors(j)
  /\ db[j] # None => db'[j] # None /\ request'[j] = request[j]
  /\ db[j] # None /\ Undisturbed(j)' =>
       /\ Undisturbed(j)
       /\ db'[j].currentDateFrom = db[j].currentDateFrom
       /\ db[j].disabled = TRUE => db'[j].disabled = TRUE
  /\ mode'.copies[j] # None => mode'.copies[j].currentDateFrom \in Cursors(j)

(* A step after which the run in slot w works from a cursor there already. *)
KeepsRun(w) ==
  runs'[w].pc # "idle" => /\ runs'[w].job \in Jobs
                          /\ runs'[w].copy.currentDateFrom \in Cursors(runs'[w].job)
                          /\ WindowFits(runs[w])'

LEMMA TaskKept ==
  ASSUME TaskInv, FeedInv', LockInv', Results' = Results,
         \A j \in Jobs : KeepsJob(j), \A w \in Workers : KeepsRun(w)
  PROVE  TaskInv'
  <1>1. \A j \in Jobs : Cursors(j)' \subseteq Cursors(j)
    BY CursorsKept DEF TaskInv, LockInv, KeepsJob, KeepsRun
  <1>2. ASSUME NEW j \in Jobs, NEW d \in Cursors(j)' PROVE StoodAt(j, d)'
    <2>1. d \in Cursors(j) /\ db'[j] # None
      BY <1>1, <1>2 DEF Cursors, LockInv, TypeOK, Scheduled
    <2>2. db'[j].currentDateFrom \in Cursors(j) /\ StoodAt(j, d)
      BY <2>1 DEF TaskInv, KeepsJob
    <2>3. CASE \E m \in Results : m.job = j /\ (d = m.from \/ d = m.to)
      BY <2>3 DEF StoodAt
    <2>4. CASE \A m \in Results : m.job # j
      <3>1. db'[j].currentDateFrom = db[j].currentDateFrom
        BY <2>2, <2>4 DEF TaskInv, StoodAt
      <3> QED BY <2>2, <2>4, <3>1 DEF StoodAt
    <2> QED BY <2>2, <2>3, <2>4 DEF StoodAt
  <1>3. \A w \in Workers : Live(w)' => WindowFits(runs[w])'
    BY DEF KeepsRun, Live
  <1>4. ASSUME NEW j \in Jobs PROVE DeliversForward(j)'
    BY DEF TaskInv, DeliversForward, KeepsJob, Scheduled
  <1> QED BY <1>2, <1>3, <1>4 DEF TaskInv

(* A step that leaves every job where it stands is a step of no task.      *)
LEMMA TaskUnmoved ==
  ASSUME TaskInv, FeedInv', LockInv', TellsNothingNew, UNCHANGED <<stored, rejected>>,
         \A j \in Jobs : /\ KeepsJob(j)
                         /\ db[j] # None => db'[j].currentDateFrom = db[j].currentDateFrom
                         /\ disturbed'[j] = {} <=> disturbed[j] = {},
         \A w \in Workers : KeepsRun(w)
  PROVE  TaskInv' /\ UNCHANGED Task!vars
  <1>1. Results' = Results
    BY SameResults DEF TaskInv, LockInv
  <1>2. TaskInv'
    BY <1>1, TaskKept
  <1>3. UNCHANGED Task!vars
    BY <1>1, TaskStutter DEF TaskInv, LockInv, KeepsJob
  <1> QED BY <1>2, <1>3

(* A step of a task or of none.                                            *)
TaskStep == Task!Next \/ UNCHANGED Task!vars

(* A step that leaves the documents alone and stores nothing; a run may    *)
(* end or be over but for its lock, and has told its result by then.       *)
LeavesJobs ==
  /\ UNCHANGED <<db, disturbed, stored, rejected>>
  /\ \A j \in Jobs : db[j] # None => request'[j] = request[j]
  /\ \A j \in Jobs : \/ mode'.copies[j] = None
                    \/ mode'.copies[j] = mode.copies[j]
                    \/ mode'.copies[j] = db[j]
  /\ \A w \in Workers :
       \/ runs'[w] = runs[w]
       \/ /\ runs'[w] = NoRun
          /\ runs[w].pc = "report" => ResultOf(runs[w]) \in lost'
       \/ /\ Live(w) /\ runs'[w].pc = "finish" /\ runs'[w].job = runs[w].job
          /\ SameTask(runs'[w].copy, runs[w].copy)
          /\ runs[w].pc = "report" => ResultOf(runs[w]) \in reported' \union lost'
  /\ reported \subseteq reported' /\ lost \subseteq lost'
  /\ \A m \in reported' \union lost' :
       \/ m \in reported \union lost \/ ~HasResult(m)
       \/ \E w \in Workers : runs[w].pc = "report" /\ m = ResultOf(runs[w])

LEMMA WhatLeavesJobs ==
  ASSUME TypeOK,
         \/ \E j \in Jobs : RefuseTask(j) \/ ModeSaveFails(j)
         \/ \E w \in Workers : \/ DropExpired(w) \/ RunStateLost(w)
                              \/ Report(w) \/ Fail(w) \/ SaveUnanswered(w)
         \/ Kill \/ ModeReceive \/ ModeFind \/ ModeFindFails \/ ModeReply
         \/ Tick \/ UNCHANGED vars
  PROVE  LeavesJobs
  <1>1. \A j \in Jobs : ~HasResult(FailureOf(j))
    BY DEF FailureOf, HasResult
  <1>2. ASSUME NEW j \in Jobs, RefuseTask(j) PROVE LeavesJobs
    BY <1>1, <1>2, RefuseEffect DEF LeavesJobs
  <1>3. CASE ModeReceive \/ ModeFind \/ ModeFindFails \/ ModeReply
                \/ \E j \in Jobs : ModeSaveFails(j)
    BY <1>3, ModeEffect DEF LeavesJobs
  <1>4. ASSUME NEW w \in Workers, DropExpired(w) \/ RunStateLost(w) PROVE LeavesJobs
    BY <1>4, DropEffect DEF LeavesJobs
  <1>5. ASSUME NEW w \in Workers, Report(w) PROVE LeavesJobs
    BY <1>5, ReportEffect DEF LeavesJobs, Live, SameTask
  <1>6. ASSUME NEW w \in Workers, Fail(w) PROVE LeavesJobs
    <2>1. Live(w) /\ runs[w].job \in Jobs
      BY <1>6, LiveRun DEF Fail, Live
    <2> QED BY <1>1, <1>6, <2>1, FailEffect DEF LeavesJobs
  <1>7. ASSUME NEW w \in Workers, SaveUnanswered(w) PROVE LeavesJobs
    <2>1. runs[w].job \in Jobs
      BY <1>7, LiveRun DEF SaveUnanswered, Live
    <2> QED BY <1>1, <1>7, <2>1, UnansweredEffect DEF LeavesJobs, Live, SameTask
  <1>8. CASE Kill
    BY <1>8, KillEffect DEF LeavesJobs
  <1>9. CASE Tick \/ UNCHANGED vars
    BY <1>9 DEF LeavesJobs, Tick, vars
  <1> QED BY <1>2, <1>3, <1>4, <1>5, <1>6, <1>7, <1>8, <1>9

(* Such a step is a step of no task.                                       *)
LEMMA TaskLeft ==
  ASSUME TaskInv, FeedInv', LockInv', LeavesJobs
  PROVE  TaskInv' /\ TaskStep
  <1>1. TypeOK /\ TypeOK'
    BY DEF TaskInv, LockInv
  <1>2. TellsNothingNew
    BY DEF LeavesJobs, TellsNothingNew, NoRun
  <1>3. ASSUME NEW j \in Jobs PROVE KeepsJob(j)
    BY <1>1, CursorsThere DEF LeavesJobs, KeepsJob, Undisturbed
  <1>4. ASSUME NEW w \in Workers PROVE KeepsRun(w)
    <2>1. CASE runs'[w] = runs[w]
      <3>1. ASSUME Live(w) PROVE KeepsRun(w)
        <4>1. runs[w].job \in Jobs /\ runs[w].copy.currentDateFrom \in Cursors(runs[w].job)
              /\ WindowFits(runs[w]) /\ db[runs[w].job] # None
          BY <1>1, <3>1, CursorsThere DEF TaskInv, TypeOK, Scheduled
        <4>2. request'[runs[w].job] = request[runs[w].job]
          BY <4>1 DEF LeavesJobs
        <4> QED BY <2>1, <4>1, <4>2 DEF KeepsRun, WindowFits
      <3> QED BY <2>1, <3>1 DEF KeepsRun, Live
    <2>2. CASE runs'[w] = NoRun
      BY <2>2 DEF KeepsRun, NoRun
    <2>3. CASE /\ Live(w) /\ runs'[w].pc = "finish" /\ runs'[w].job = runs[w].job
               /\ SameTask(runs'[w].copy, runs[w].copy)
      <3>1. runs[w].job \in Jobs /\ runs[w].copy.currentDateFrom \in Cursors(runs[w].job)
        BY <1>1, <2>3, CursorsThere
      <3> QED BY <2>3, <3>1 DEF KeepsRun, SameTask, WindowFits
    <2> QED BY <2>1, <2>2, <2>3 DEF LeavesJobs
  <1> QED BY <1>2, <1>3, <1>4, TaskUnmoved DEF LeavesJobs, TaskStep

(* A run other than the one that takes the step keeps what it had.         *)
LEMMA OtherRunKept ==
  ASSUME TaskInv, NEW w \in Workers, runs'[w] = runs[w],
         \A j \in Jobs : db[j] # None => request'[j] = request[j]
  PROVE  KeepsRun(w)
  <1>1. CASE Live(w)
    <2>1. /\ runs[w].job \in Jobs /\ runs[w].copy.currentDateFrom \in Cursors(runs[w].job)
          /\ WindowFits(runs[w]) /\ db[runs[w].job] # None
      BY <1>1, CursorsThere DEF TaskInv, LockInv, TypeOK, Scheduled
    <2>2. request'[runs[w].job] = request[runs[w].job]
      BY <2>1
    <2> QED BY <2>1, <2>2 DEF KeepsRun, WindowFits
  <1>2. CASE ~Live(w)
    BY <1>2 DEF KeepsRun, Live
  <1> QED BY <1>1, <1>2

(* The lock of a job is taken.  If that disturbs a run of the job, the     *)
(* task goes back to where it stands.                                      *)
LEMMA TaskTakeLock ==
  ASSUME TaskInv, FeedInv', LockInv', NEW w \in Workers, NEW j \in Jobs, db[j] # None,
         TakeLock(w, j),
         \A k \in Jobs \ {j} : disturbed'[k] = disturbed[k],
         disturbed'[j] = disturbed[j] \/ disturbed'[j] # {}
  PROVE  TaskInv' /\ TaskStep
  <1>1. TypeOK /\ TypeOK'
    BY DEF TaskInv, LockInv
  <1>2. /\ ~Live(w) /\ runs'[w].pc = "locked" /\ runs'[w].job = j
        /\ runs'[w].copy = db'[j] /\ db'[j] \in Document /\ SameTask(db'[j], db[j])
        /\ \A v \in Workers \ {w} : runs'[v] = runs[v]
        /\ \A k \in Jobs \ {j} : db'[k] = db[k]
        /\ UNCHANGED <<request, mode, stored, rejected, reported, lost>>
    BY <1>1, TakeLockEffect DEF OthersKept
  <1>3. db'[j] # None /\ db'[j].currentDateFrom = db[j].currentDateFrom
    BY <1>2, DocumentAssumption DEF SameTask
  <1>4. TellsNothingNew
    BY <1>2 DEF TellsNothingNew, Live
  <1>5. Results' = Results
    BY <1>1, <1>4, SameResults
  <1>6. ASSUME NEW k \in Jobs PROVE KeepsJob(k)
    <2>1. disturbed'[k] = {} => disturbed[k] = {}
      OBVIOUS
    <2> QED BY <1>1, <1>2, <1>3, <2>1, CursorsThere DEF KeepsJob, Undisturbed, SameTask
  <1>7. ASSUME NEW v \in Workers PROVE KeepsRun(v)
    <2>1. CASE v = w
      BY <1>1, <1>2, <1>3, <2>1, CursorsThere DEF KeepsRun, WindowFits
    <2>2. CASE v # w
      BY <1>2, <2>2, OtherRunKept
    <2> QED BY <2>1, <2>2
  <1>8. TaskInv'
    BY <1>5, <1>6, <1>7, TaskKept
  <1>9. CASE disturbed'[j] = disturbed[j]
    BY <1>1, <1>2, <1>3, <1>5, <1>8, <1>9, TaskStutter DEF TaskStep
  <1>10. CASE disturbed'[j] # {}
    <2>1. StoodAt(j, db'[j].currentDateFrom)
      BY <1>1, <1>3, CursorsThere DEF TaskInv
    <2> QED BY <1>1, <1>2, <1>3, <1>5, <1>8, <1>10, <2>1, TaskGoesBack DEF TaskStep, Task!Next
  <1> QED BY <1>8, <1>9, <1>10

(* A run starts or ends, or the service begins to stop: only locks and     *)
(* next runs change.                                                       *)
LEMMA TaskLocks ==
  ASSUME TaskInv, FeedInv', LockInv',
         Shutdown \/ \E w \in Workers : Start(w) \/ Finish(w)
  PROVE  TaskInv' /\ TaskStep
  <1>1. TypeOK /\ TypeOK'
    BY DEF TaskInv, LockInv
  <1>2. CASE Shutdown
    <2>1. /\ UNCHANGED <<request, runs, mode, stored, rejected, reported, lost, disturbed>>
          /\ \A j \in Jobs :
               \/ db'[j] = db[j]
               \/ db[j] # None /\ db'[j] # None /\ SameTask(db'[j], db[j])
      BY <1>1, <1>2, ShutdownEffect
    <2>2. TellsNothingNew
      BY <2>1 DEF TellsNothingNew
    <2>3. \A j \in Jobs : KeepsJob(j)
      BY <1>1, <2>1, CursorsThere DEF KeepsJob, SameTask, Undisturbed
    <2>4. \A w \in Workers : KeepsRun(w)
      BY <2>1, OtherRunKept
    <2> QED BY <2>1, <2>2, <2>3, <2>4, TaskUnmoved DEF SameTask, TaskStep
  <1>3. ASSUME NEW w \in Workers, Start(w) \/ Finish(w) PROVE TaskInv' /\ TaskStep
    <2>1. PICK j : j = runs[w].job
      OBVIOUS
    <2>2. /\ j \in Jobs /\ db[j] # None /\ db'[j] # None /\ SameTask(db'[j], db[j])
          /\ OthersKept(w, j)
          /\ UNCHANGED <<request, mode, stored, rejected, reported, lost, disturbed>>
          /\ Live(w) /\ runs[w].pc # "report"
          /\ \/ runs'[w] = NoRun
             \/ /\ runs'[w].pc = "started" /\ runs'[w].job = j
                /\ SameTask(runs'[w].copy, runs[w].copy)
      BY <1>1, <1>3, <2>1, StartEffect, FinishEffect DEF Live
    <2>3. TellsNothingNew
      BY <2>2 DEF TellsNothingNew, OthersKept, NoRun
    <2>4. \A k \in Jobs : KeepsJob(k)
      BY <1>1, <2>2, CursorsThere DEF KeepsJob, SameTask, Undisturbed, OthersKept
    <2>5. ASSUME NEW v \in Workers PROVE KeepsRun(v)
      <3>1. CASE v = w
        BY <1>1, <2>1, <2>2, <3>1, CursorsThere DEF KeepsRun, WindowFits, NoRun, SameTask
      <3>2. CASE v # w
        BY <2>2, <3>2, OtherRunKept DEF OthersKept
      <3> QED BY <3>1, <3>2
    <2> QED BY <2>2, <2>3, <2>4, <2>5, TaskUnmoved DEF SameTask, TaskStep, OthersKept
  <1> QED BY <1>2, <1>3

(* A run that cannot fetch yet saves its copy: the dates that are stored   *)
(* already, or, if the job was disturbed, older ones.                      *)
LEMMA TaskPostpone ==
  ASSUME TaskInv, FeedInv', LockInv', NEW w \in Workers, Postpone(w)
  PROVE  TaskInv' /\ TaskStep
  <1>1. PICK j : j = runs[w].job
    OBVIOUS
  <1>2. TypeOK /\ TypeOK' /\ Live(w)
    BY DEF TaskInv, LockInv, Postpone, Live
  <1>3. /\ j \in Jobs /\ db[j] # None /\ runs[w].pc = "started"
        /\ runs'[w].pc = "report" /\ runs'[w].job = j
        /\ runs'[w].period = PeriodOf(w) /\ ~PeriodOf(w).canFetch
        /\ SameTask(runs'[w].copy, runs[w].copy)
        /\ db'[j] \in Document
        /\ db'[j].currentDateFrom = runs[w].copy.currentDateFrom
        /\ runs[w].copy.disabled = db[j].disabled => db'[j].disabled = db[j].disabled
        /\ OthersKept(w, j)
        /\ UNCHANGED <<request, mode, stored, rejected, reported, lost, disturbed>>
    BY <1>1, <1>2, PostponeEffect
  <1>4. db'[j] # None
    BY <1>3, DocumentAssumption
  <1>5. runs[w].copy.currentDateFrom \in Cursors(j) /\ StoodAt(j, db'[j].currentDateFrom)
    BY <1>1, <1>2, <1>3, CursorsThere DEF TaskInv
  <1>6. Undisturbed(j) => /\ db'[j].currentDateFrom = db[j].currentDateFrom
                          /\ db[j].disabled = TRUE => db'[j].disabled = TRUE
    <2>1. Undisturbed(j) => HoldsItsLock(w)
      BY <1>1, <1>2 DEF TaskInv, LockInv
    <2>2. Undisturbed(j) => db'[j].currentDateFrom = db[j].currentDateFrom
      BY <1>1, <1>3, <2>1 DEF HoldsItsLock
    <2>3. Undisturbed(j) => db'[j].disabled = db[j].disabled
      BY <1>1, <1>3, <2>1, Zenon DEF HoldsItsLock
    <2> QED BY <2>2, <2>3, Zenon
  <1>7. TellsNothingNew
    BY <1>3 DEF TellsNothingNew, OthersKept
  <1>8. Results' = Results
    BY <1>2, <1>7, SameResults
  <1>9. ASSUME NEW k \in Jobs PROVE KeepsJob(k)
    <2>1. CASE k = j
      BY <1>2, <1>3, <1>4, <1>5, <1>6, <2>1, CursorsThere DEF KeepsJob, Undisturbed
    <2>2. CASE k # j
      BY <1>2, <1>3, <2>2, CursorsThere DEF KeepsJob, Undisturbed, OthersKept
    <2> QED BY <2>1, <2>2
  <1>10. ASSUME NEW v \in Workers PROVE KeepsRun(v)
    <2>1. CASE v = w
      BY <1>3, <1>5, <2>1 DEF KeepsRun, WindowFits, SameTask
    <2>2. CASE v # w
      BY <1>3, <2>2, OtherRunKept DEF OthersKept
    <2> QED BY <2>1, <2>2
  <1>11. TaskInv'
    BY <1>8, <1>9, <1>10, TaskKept
  <1>12. CASE Undisturbed(j)
    BY <1>2, <1>3, <1>4, <1>6, <1>8, <1>11, <1>12, TaskStutter DEF TaskStep, OthersKept
  <1>13. CASE ~Undisturbed(j)
    <2>1. Task!GoBack(j)
      BY <1>2, <1>3, <1>4, <1>5, <1>8, <1>13, TaskGoesBack DEF OthersKept, Undisturbed
    <2> QED BY <1>3, <1>11, <2>1 DEF TaskStep, Task!Next
  <1> QED BY <1>12, <1>13

(* A mode message saves the document it found: the task goes back to where *)
(* it stood then.                                                          *)
LEMMA TaskModeSave ==
  ASSUME TaskInv, FeedInv', LockInv', NEW j \in Jobs, ModeSave(j)
  PROVE  TaskInv' /\ TaskStep
  <1>1. TypeOK /\ TypeOK'
    BY DEF TaskInv, LockInv
  <1>2. /\ mode.copies[j] # None
        /\ db[j] # None /\ db'[j] # None
        /\ db'[j].currentDateFrom = mode.copies[j].currentDateFrom
        /\ \A k \in Jobs \ {j} : db'[k] = db[k] /\ disturbed'[k] = disturbed[k]
        /\ disturbed'[j] # {}
        /\ mode'.copies = mode.copies
        /\ UNCHANGED <<request, runs, stored, rejected, reported, lost>>
    BY <1>1, ModeSaveEffect
  <1>3. db'[j].currentDateFrom \in Cursors(j) /\ StoodAt(j, db'[j].currentDateFrom)
    BY <1>1, <1>2, CursorsThere DEF TaskInv
  <1>4. TellsNothingNew
    BY <1>2 DEF TellsNothingNew
  <1>5. Results' = Results
    BY <1>1, <1>4, SameResults
  <1>6. ASSUME NEW k \in Jobs PROVE KeepsJob(k)
    <2>1. CASE k = j
      BY <1>1, <1>2, <1>3, <2>1 DEF KeepsJob, Undisturbed
    <2>2. CASE k # j
      BY <1>1, <1>2, <2>2, CursorsThere DEF KeepsJob, Undisturbed
    <2> QED BY <2>1, <2>2
  <1>7. \A v \in Workers : KeepsRun(v)
    BY <1>2, OtherRunKept
  <1>8. TaskInv'
    BY <1>5, <1>6, <1>7, TaskKept
  <1>9. Task!GoBack(j)
    BY <1>1, <1>2, <1>3, <1>5, TaskGoesBack
  <1> QED BY <1>8, <1>9 DEF TaskStep, Task!Next

(* A task begins at the start of its request: it has no results yet.       *)
LEMMA TaskSchedule ==
  ASSUME TaskInv, FeedInv', LockInv', NEW j \in Jobs, ScheduleJob(j)
  PROVE  TaskInv' /\ TaskStep
  <1>1. TypeOK /\ TypeOK'
    BY DEF TaskInv, LockInv
  <1>2. /\ db[j] = None /\ db'[j] # None
        /\ \A k \in Jobs \ {j} : db'[k] = db[k] /\ request'[k] = request[k]
        /\ \A k \in Jobs : db[k] # None => request'[k] = request[k]
        /\ UNCHANGED <<runs, mode, stored, rejected, reported, lost, disturbed>>
    BY <1>1, ScheduleEffect
  <1>3. TellsNothingNew
    BY <1>2 DEF TellsNothingNew
  <1>4. Results' = Results
    BY <1>1, <1>3, SameResults
  <1>5. \A m \in Results : m.job # j
    BY <1>2, ResultOfScheduled DEF TaskInv, Scheduled
  <1>6. /\ mode.copies[j] = None
        /\ \A w \in Workers : Live(w) => runs[w].job # j
    BY <1>1, <1>2 DEF TypeOK, Scheduled
  <1>7. ASSUME NEW k \in Jobs, NEW d \in Cursors(k)' PROVE StoodAt(k, d)'
    <2>1. CASE k = j
      <3>1. d = db'[j].currentDateFrom
        BY <1>2, <1>6, <1>7, <2>1 DEF Cursors, Live
      <3> QED BY <1>4, <1>5, <2>1, <3>1 DEF StoodAt
    <2>2. CASE k # j
      <3>1. db'[k] = db[k]
        BY <1>2, <2>2
      <3>2. d \in Cursors(k)
        BY <1>2, <1>7, <3>1 DEF Cursors, Scheduled, Live
      <3> QED BY <1>4, <3>1, <3>2 DEF TaskInv, StoodAt
    <2> QED BY <2>1, <2>2
  <1>8. ASSUME NEW w \in Workers, Live(w)' PROVE WindowFits(runs[w])'
    <2>1. Live(w) /\ runs[w].job \in Jobs /\ db[runs[w].job] # None
      BY <1>1, <1>2, <1>8, LiveRun DEF Live, TypeOK, Scheduled
    <2> QED BY <1>2, <2>1 DEF TaskInv, WindowFits
  <1>9. ASSUME NEW k \in Jobs PROVE DeliversForward(k)'
    BY <1>2, <1>4, <1>5 DEF TaskInv, DeliversForward, Scheduled, Undisturbed
  <1>10. TaskInv'
    BY <1>4, <1>7, <1>8, <1>9 DEF TaskInv
  <1>11. Task!Schedule(j)
    BY <1>1, <1>2, <1>4, TaskIsScheduled
  <1> QED BY <1>10, <1>11 DEF TaskStep, Task!Next

(* A window of the task is settled for sensors: their download failed, or  *)
(* their file is stored.                                                   *)
LEMMA TaskFetch ==
  ASSUME TaskInv, FeedInv', LockInv', NEW w \in Workers, Download(w) \/ StoreFile(w)
  PROVE  TaskInv' /\ TaskStep
  <1>1. PICK j : j = runs[w].job
    OBVIOUS
  <1>2. TypeOK /\ TypeOK' /\ Live(w) /\ j \in Jobs /\ db[j] # None
    BY <1>1, LiveRun DEF TaskInv, LockInv, Download, StoreFile, Live, TypeOK, Scheduled
  <1> PICK period : period = runs'[w].period
    OBVIOUS
  <1>3. PICK S \in SUBSET Sensors :
          /\ runs[w].pc # "report"
          /\ runs'[w].pc = "store" /\ runs'[w].job = j
          /\ runs'[w].copy = runs[w].copy
          /\ period.from = runs[w].copy.currentDateFrom
          /\ stored' \union rejected' = (stored \union rejected) \union Files(j, period, S)
          /\ \A v \in Workers \ {w} : runs'[v] = runs[v]
          /\ UNCHANGED <<request, db, mode, reported, lost, disturbed>>
          /\ WindowFits(runs[w])'
    <2>1. CASE Download(w)
      <3>1. WindowFits(runs[w])'
        <4>1. /\ runs'[w].job = j /\ runs'[w].period = PeriodOf(w) /\ request' = request
          BY <1>1, <1>2, <2>1, DownloadEffect
        <4> QED BY <1>1, <1>2, <4>1, PeriodShape DEF WindowFits
      <3>2. PeriodOf(w).from = runs[w].copy.currentDateFrom
        BY <1>2, PeriodShape
      <3>3. PICK S \in SUBSET Sensors :
              rejected' = rejected \union Files(runs[w].job, PeriodOf(w), S)
        BY <1>2, <2>1, DownloadEffect
      <3>4. stored' \union rejected'
              = (stored \union rejected) \union Files(j, PeriodOf(w), S)
        BY <1>1, <1>2, <2>1, <3>3, DownloadEffect
      <3> QED BY <1>1, <1>2, <2>1, <3>1, <3>2, <3>4, DownloadEffect
    <2>2. CASE StoreFile(w)
      <3>1. /\ runs[w].pc = "store" /\ runs'[w].job = runs[w].job
            /\ runs'[w].period = runs[w].period /\ request' = request
        BY <1>2, <2>2, StoreFileEffect
      <3>2. runs[w].period.from = runs[w].copy.currentDateFrom
        BY <3>1 DEF TaskInv, FeedInv, StoresItsWindow
      <3>3. WindowFits(runs[w])'
        BY <1>2, <3>1 DEF TaskInv, WindowFits
      <3>4. PICK S \in SUBSET Sensors :
              stored' = stored \union Files(runs[w].job, runs[w].period, S)
        BY <1>2, <2>2, StoreFileEffect
      <3>5. stored' \union rejected'
              = (stored \union rejected) \union Files(j, runs[w].period, S)
        BY <1>1, <1>2, <2>2, <3>4, StoreFileEffect
      <3> QED BY <1>1, <1>2, <2>2, <3>2, <3>3, <3>5, StoreFileEffect
    <2> QED BY <2>1, <2>2
  <1>4. runs[w].copy.currentDateFrom \in Cursors(j) /\ StoodAt(j, period.from)
    BY <1>1, <1>2, <1>3, CursorsThere DEF TaskInv
  <1>5. Undisturbed(j) => period.from = db[j].currentDateFrom
    <2>1. Undisturbed(j) => HoldsItsLock(w)
      BY <1>1, <1>2 DEF TaskInv, LockInv
    <2> QED BY <1>1, <1>3, <2>1 DEF HoldsItsLock
  <1>6. TellsNothingNew
    BY <1>3 DEF TellsNothingNew
  <1>7. Results' = Results
    BY <1>2, <1>6, SameResults
  <1>8. ASSUME NEW k \in Jobs PROVE KeepsJob(k)
    BY <1>2, <1>3, CursorsThere DEF KeepsJob, Undisturbed
  <1>9. ASSUME NEW v \in Workers PROVE KeepsRun(v)
    <2>1. CASE v = w
      BY <1>2, <1>3, <1>4, <2>1 DEF KeepsRun
    <2>2. CASE v # w
      BY <1>3, <2>2, OtherRunKept
    <2> QED BY <2>1, <2>2
  <1>10. TaskInv'
    BY <1>7, <1>8, <1>9, TaskKept
  <1>11. Task!Settle(j)
    BY <1>2, <1>3, <1>4, <1>5, <1>7, TaskSettles
  <1> QED BY <1>2, <1>10, <1>11 DEF TaskStep, Task!Next

(* The result of a run that saves its progress is on its way: the only new *)
(* one.                                                                    *)
LEMMA OneNewResult ==
  ASSUME TypeOK, TypeOK', NEW w \in Workers, NEW m, m = ResultOf(runs'[w]),
         runs[w].pc = "store", runs'[w].pc = "report", runs'[w].period.canFetch,
         \A v \in Workers \ {w} : runs'[v] = runs[v],
         UNCHANGED <<reported, lost>>
  PROVE  Results' = Results \union {m}
  <1>1. m \in Results'
    BY DEF Results, ResultOf
  <1>2. Results \subseteq Results'
    BY ResultsGrow
  <1>3. ASSUME NEW r \in Results' PROVE r \in Results \/ r = m
    <2>1. CASE \E v \in Workers : /\ runs'[v].pc = "report" /\ runs'[v].period.canFetch
                                 /\ r = ResultOf(runs'[v])
      <3>1. PICK v \in Workers : /\ runs'[v].pc = "report" /\ runs'[v].period.canFetch
                                 /\ r = ResultOf(runs'[v])
        BY <2>1
      <3>2. CASE v = w
        BY <3>1, <3>2
      <3>3. CASE v # w
        <4>1. runs'[v] = runs[v]
          BY <3>3
        <4>2. runs[v].pc = "report" /\ runs[v].period.canFetch /\ r = ResultOf(runs[v])
          BY <3>1, <4>1
        <4> QED BY <4>2 DEF Results
      <3> QED BY <3>2, <3>3
    <2>2. CASE r \in reported' \union lost' /\ HasResult(r)
      BY <2>2 DEF Results
    <2>3. (r \in reported' \union lost' /\ HasResult(r))
            \/ \E v \in Workers : /\ runs'[v].pc = "report" /\ runs'[v].period.canFetch
                                 /\ r = ResultOf(runs'[v])
      BY DEF Results, ResultOf, HasResult
    <2> QED BY <2>1, <2>2, <2>3
  <1> QED BY <1>1, <1>2, <1>3

(* A run saves its progress: its window is delivered, and the task stands  *)
(* at its end, or where it stood if it has a single window.                *)
LEMMA TaskSaveProgress ==
  ASSUME TaskInv, FeedInv', LockInv', NEW w \in Workers, SaveProgress(w)
  PROVE  TaskInv' /\ TaskStep
  <1>1. PICK j : j = runs[w].job
    OBVIOUS
  <1> PICK period : period = runs[w].period
    OBVIOUS
  <1> PICK copy : copy = runs[w].copy
    OBVIOUS
  <1> PICK m : m = ResultOf(runs'[w])
    OBVIOUS
  <1>2. TypeOK /\ TypeOK' /\ Live(w)
    BY DEF TaskInv, LockInv, SaveProgress, Live
  <1>3. /\ j \in Jobs /\ db[j] # None /\ db'[j] # None
        /\ runs[w].pc = "store" /\ runs[w].todo = {}
        /\ period \in Period /\ period.canFetch
        /\ runs'[w].pc = "report" /\ runs'[w].job = j /\ runs'[w].period = period
        /\ runs'[w].copy.currentDateFrom = period.nextFrom
        /\ db'[j].currentDateFrom = period.nextFrom
        /\ \A v \in Workers \ {w} : runs'[v] = runs[v]
        /\ \A k \in Jobs \ {j} : db'[k] = db[k]
        /\ UNCHANGED <<request, mode, stored, rejected, reported, lost, disturbed>>
    <2>1. runs[w].period.canFetch
      BY <1>2, LiveRun DEF SaveProgress, Run
    <2>2. /\ j \in Jobs /\ db[j] # None /\ db'[j] \in Document
          /\ runs[w].pc = "store" /\ runs[w].todo = {} /\ runs[w].period \in Period
          /\ runs'[w].pc = "report" /\ runs'[w].job = j
          /\ runs'[w].period = runs[w].period
          /\ runs'[w].copy.currentDateFrom = runs[w].period.nextFrom
          /\ db'[j].currentDateFrom = runs[w].period.nextFrom
          /\ OthersKept(w, j)
          /\ UNCHANGED <<request, mode, stored, rejected, reported, lost, disturbed>>
      BY <1>1, <1>2, SaveProgressEffect
    <2> QED BY <2>1, <2>2, DocumentAssumption DEF OthersKept
  <1>4. /\ period.from = copy.currentDateFrom
        /\ period.nextFrom \in {period.from, period.to}
        /\ \A s \in Sensors : [job |-> j, from |-> period.from, to |-> period.to,
                               sensor |-> s] \in stored \union rejected
    <2>1. StoresItsWindow(runs[w])
      BY DEF TaskInv, FeedInv
    <2> QED BY <1>1, <1>3, <2>1 DEF StoresItsWindow, Files
  <1>5. m.job = j /\ m.from = period.from /\ m.to = period.to
    BY <1>3 DEF ResultOf
  <1>6. Results' = Results \union {m}
    BY <1>2, <1>3, OneNewResult
  <1>7. /\ request[j].window = None => period.shouldComplete
        /\ request[j].window # None => /\ period.to = period.from + request[j].window
                                       /\ period.nextFrom = period.to
    BY <1>1, <1>2, <1>3 DEF TaskInv, WindowFits
  <1>8. copy.currentDateFrom \in Cursors(j) /\ StoodAt(j, copy.currentDateFrom)
    BY <1>1, <1>2, <1>3, CursorsThere DEF TaskInv
  <1>9. ASSUME Undisturbed(j)
        PROVE  /\ db[j].currentDateFrom = copy.currentDateFrom
               /\ db[j].disabled # TRUE
               /\ period.shouldComplete => db'[j].disabled = TRUE
    <2>1. HoldsItsLock(w) /\ DisablesTheDone(runs[w])
      BY <1>1, <1>2, <1>9 DEF TaskInv, LockInv
    <2>2. copy.disabled = db[j].disabled /\ copy.disabled # TRUE
      BY <1>1, <1>3, <2>1, Zenon DEF HoldsItsLock, DisablesTheDone
    <2>3. /\ runs'[w].copy.disabled = IF period.shouldComplete THEN TRUE ELSE copy.disabled
          /\ copy.disabled = db[j].disabled => db'[j].disabled = runs'[w].copy.disabled
      BY <1>1, <1>2, SaveProgressEffect
    <2>4. period.shouldComplete => db'[j].disabled = TRUE
      BY <2>2, <2>3, Zenon
    <2>5. db[j].currentDateFrom = copy.currentDateFrom
      BY <1>1, <2>1 DEF HoldsItsLock
    <2> QED BY <2>2, <2>4, <2>5, Zenon
  <1>10. \A k \in Jobs : Cursors(k)' \subseteq Cursors(k) \union {period.nextFrom}
    <2> SUFFICES ASSUME NEW k \in Jobs, NEW d \in Cursors(k)', d # period.nextFrom
                 PROVE  d \in Cursors(k)
      OBVIOUS
    <2>1. CASE Scheduled(k)' /\ d = db'[k].currentDateFrom
      BY <1>3, <2>1 DEF Cursors, Scheduled
    <2>2. CASE \E v \in Workers : /\ Live(v)' /\ runs'[v].job = k
                                 /\ d = runs'[v].copy.currentDateFrom
      <3>1. PICK v \in Workers : /\ Live(v)' /\ runs'[v].job = k
                                 /\ d = runs'[v].copy.currentDateFrom
        BY <2>2
      <3>2. v # w /\ runs'[v] = runs[v]
        BY <1>3, <3>1
      <3> QED BY <3>1, <3>2 DEF Cursors, Live
    <2>3. CASE mode'.copies[k] # None /\ d = mode'.copies[k].currentDateFrom
      BY <1>3, <2>3 DEF Cursors
    <2> QED BY <2>1, <2>2, <2>3 DEF Cursors
  <1>11. \A k \in Jobs \ {j} : Cursors(k)' \subseteq Cursors(k)
    <2> SUFFICES ASSUME NEW k \in Jobs \ {j}, NEW d \in Cursors(k)' PROVE d \in Cursors(k)
      OBVIOUS
    <2>1. CASE \E v \in Workers : /\ Live(v)' /\ runs'[v].job = k
                                 /\ d = runs'[v].copy.currentDateFrom
      <3>1. PICK v \in Workers : /\ Live(v)' /\ runs'[v].job = k
                                 /\ d = runs'[v].copy.currentDateFrom
        BY <2>1
      <3>2. v # w /\ runs'[v] = runs[v]
        BY <1>3, <3>1
      <3> QED BY <3>1, <3>2 DEF Cursors, Live
    <2>2. CASE \/ Scheduled(k)' /\ d = db'[k].currentDateFrom
               \/ mode'.copies[k] # None /\ d = mode'.copies[k].currentDateFrom
      BY <1>3, <2>2 DEF Cursors, Scheduled
    <2> QED BY <2>1, <2>2 DEF Cursors
  <1>12. ASSUME NEW k \in Jobs, NEW d \in Cursors(k)' PROVE StoodAt(k, d)'
    <2>1. CASE k # j
      <3>1. StoodAt(k, d) /\ db'[k] = db[k]
        BY <1>3, <1>11, <1>12, <2>1 DEF TaskInv
      <3>2. \A r \in Results' : r.job = k => r \in Results
        BY <1>5, <1>6, <2>1
      <3> QED BY <1>6, <3>1, <3>2 DEF StoodAt
    <2>2. CASE k = j
      <3>1. CASE d = period.nextFrom
        BY <1>4, <1>5, <1>6, <2>2, <3>1 DEF StoodAt
      <3>2. CASE d \in Cursors(j)
        <4>1. StoodAt(j, d)
          BY <1>3, <3>2 DEF TaskInv
        <4>2. CASE \E r \in Results : r.job = j /\ (d = r.from \/ d = r.to)
          BY <1>6, <2>2, <4>2 DEF StoodAt
        <4>3. CASE \A r \in Results : r.job # j
          <5>1. d = period.from
            BY <1>4, <1>8, <4>1, <4>3 DEF StoodAt
          <5> QED BY <1>5, <1>6, <2>2, <5>1 DEF StoodAt
        <4> QED BY <4>1, <4>2, <4>3 DEF StoodAt
      <3> QED BY <1>3, <1>10, <1>12, <2>2, <3>1, <3>2
    <2> QED BY <2>1, <2>2
  <1>13. \A v \in Workers : Live(v)' => WindowFits(runs[v])'
    BY <1>3 DEF TaskInv, WindowFits, Live
  <1>14. ASSUME NEW k \in Jobs PROVE DeliversForward(k)'
    <2>1. CASE k # j
      BY <1>3, <1>5, <1>6, <2>1 DEF TaskInv, DeliversForward, Scheduled, Undisturbed
    <2>2. CASE k = j
      <3> SUFFICES ASSUME Undisturbed(j), db'[j].disabled # TRUE, NEW r \in Results',
                          r.job = j
                   PROVE  request[j].window # None /\ r.to =< period.nextFrom
        BY <1>3, <2>2 DEF DeliversForward, Undisturbed
      <3>1. request[j].window # None /\ period.nextFrom = period.to
        BY <1>7, <1>9
      <3>2. request[j].window \in Nat /\ period.from \in Int
        BY <1>3, <1>2, <3>1, RequestsAssumption DEF TypeOK, Request, Period, Scheduled
      <3>3. CASE r = m
        BY <1>3, <1>5, <3>1, <3>3 DEF Period
      <3>4. CASE r \in Results
        <4>1. r.to =< db[j].currentDateFrom /\ r.to \in Int
          BY <1>3, <1>9, <3>4 DEF TaskInv, DeliversForward, Scheduled
        <4>2. r.to =< period.from
          BY <1>4, <1>9, <4>1
        <4> QED BY <1>7, <3>1, <3>2, <4>1, <4>2
      <3> QED BY <1>6, <3>3, <3>4
    <2> QED BY <2>1, <2>2
  <1>15. TaskInv'
    <2>1. m.to \in Int
      BY <1>3, <1>5 DEF Period
    <2> QED BY <1>6, <1>12, <1>13, <1>14, <2>1 DEF TaskInv
  <1>16. ASSUME Undisturbed(j), [from |-> m.from, to |-> m.to] \in Delivered[j]
         PROVE  m.from = m.to
    <2>1. PICK r \in Results : r.job = j /\ [from |-> m.from, to |-> m.to]
                                            = [from |-> r.from, to |-> r.to]
      BY <1>3, <1>16, DeliveredOf
    <2>2. r.to = m.to
      BY <2>1
    <2>3. request[j].window # None /\ m.to =< db[j].currentDateFrom
      BY <1>3, <1>9, <1>16, <2>1, <2>2 DEF TaskInv, DeliversForward, Scheduled
    <2>4. request[j].window \in Nat /\ period.from \in Int
      BY <1>2, <1>3, <2>3, RequestsAssumption DEF TypeOK, Request, Period, Scheduled
    <2> QED BY <1>4, <1>5, <1>7, <1>9, <1>16, <2>3, <2>4
  <1>17. Task!Deliver(j)
    <2>1. db'[j].currentDateFrom \in {m.from, m.to}
      BY <1>3, <1>4, <1>5
    <2>2. \A s \in Sensors : [job |-> j, from |-> m.from, to |-> m.to, sensor |-> s]
                               \in stored \union rejected
      BY <1>4, <1>5
    <2>3. StoodAt(j, m.from) /\ (Undisturbed(j) => m.from = db[j].currentDateFrom)
      BY <1>4, <1>5, <1>8, <1>9
    <2>4. Undisturbed(j) => \/ m.from = m.to
                            \/ [from |-> m.from, to |-> m.to] \notin Delivered[j]
      BY <1>16
    <2> QED BY <1>2, <1>3, <1>5, <1>6, <2>1, <2>2, <2>3, <2>4, TaskDelivers
  <1> QED BY <1>3, <1>15, <1>17 DEF TaskStep, Task!Next

(* Nothing is scheduled, stored or told at the start.                      *)
LEMMA TaskInit == Init => TaskInv /\ Task!Init
  <1> SUFFICES ASSUME Init PROVE TaskInv /\ Task!Init
    OBVIOUS
  <1>1. FeedInv /\ LockInv
    BY FeedInit, LockInit
  <1>2. Results = {}
    BY DEF Init, Results, NoRun
  <1>3. \A w \in Workers : ~Live(w)
    BY DEF Init, Live, NoRun
  <1>4. \A j \in Jobs : Cursors(j) = {}
    BY <1>3 DEF Init, Cursors, Scheduled, NoMode
  <1>5. TaskInv
    BY <1>1, <1>2, <1>3, <1>4 DEF TaskInv, DeliversForward
  <1>6. Cursor = [j \in Jobs |-> None] /\ Crossed = [j \in Jobs |-> FALSE]
    BY DEF Init, Cursor, Crossed, Scheduled
  <1>7. Settled = [j \in Jobs |-> {}]
    BY DEF Init, Settled
  <1>8. Delivered = [j \in Jobs |-> {}]
    BY <1>2 DEF Delivered
  <1> QED BY <1>5, <1>6, <1>7, <1>8 DEF Task!Init

(* Every step preserves the invariant and is a step of a task or of none.  *)
LEMMA TaskNext == TaskInv /\ [Next]_vars => TaskInv' /\ TaskStep
  <1> SUFFICES ASSUME TaskInv, [Next]_vars PROVE TaskInv' /\ TaskStep
    OBVIOUS
  <1>1. FeedInv' /\ LockInv' /\ TypeOK
    BY FeedNext, LockNext DEF TaskInv, LockInv
  <1>2. ASSUME NEW w \in Workers, NEW j \in Jobs, LockDue(w, j) \/ LockExpired(w, j)
        PROVE  TaskInv' /\ TaskStep
    <2>1. db[j] # None /\ TakeLock(w, j)
      BY <1>2 DEF LockDue, LockExpired
    <2>2. /\ \A k \in Jobs \ {j} : disturbed'[k] = disturbed[k]
          /\ disturbed'[j] = disturbed[j] \/ disturbed'[j] # {}
      BY <1>1, <1>2 DEF LockDue, LockExpired, TypeOK
    <2> QED BY <1>1, <2>1, <2>2, TaskTakeLock
  <1>3. CASE Crash \/ Exit
    <2>1. Kill
      BY <1>3 DEF Crash, Exit
    <2> QED BY <1>1, <2>1, WhatLeavesJobs, TaskLeft
  <1>4. ASSUME LeavesJobs PROVE TaskInv' /\ TaskStep
    BY <1>1, <1>4, TaskLeft
  <1> QED
    BY <1>1, <1>2, <1>3, <1>4, WhatLeavesJobs, TaskLocks, TaskPostpone, TaskModeSave,
       TaskSchedule, TaskFetch, TaskSaveProgress DEF Next

(* The service implements FetchTask: whatever its jobs, locks, copies,     *)
(* failures and crashes do, every task is delivered window by window, each *)
(* once and whole, unless its lock was disturbed.                          *)
THEOREM ImplementsFetchTask == Spec => DeliversWindowByWindow
  <1>1. TaskInv /\ [Next]_vars => TaskInv' /\ [Task!Next]_(Task!vars)
    BY TaskNext DEF TaskStep
  <1>2. Init => TaskInv /\ Task!Init
    BY TaskInit
  <1> QED BY <1>1, <1>2, PTL DEF Spec, DeliversWindowByWindow, Task!Spec
=============================================================================
