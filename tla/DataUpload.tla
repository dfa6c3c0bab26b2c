------------------------------ MODULE DataUpload ------------------------------
(***************************************************************************)
(* Data-upload jobs publish stored files in CKAN: for each file in turn    *)
(* its group is created if need be, then a package, then the file itself   *)
(* as a resource of the package.  Nothing is undone and nothing is looked  *)
(* up but the group, so a run that was cut short leaves its packages       *)
(* behind, and a run that repeats it finds its names taken.                *)
(*                                                                         *)
(* src/core/jobs/handlers/data-upload.job.handler.ts, scheduleDataUploadJob*)
(* in src/core/jobs/jobs.service.ts, runDataUploadJob in                   *)
(* src/core/jobs/runners/jobs.runner.ts and src/core/ckan/ckan.service.ts. *)
(*                                                                         *)
(* CKAN is external: a group or package name can be created once, a second *)
(* request for it is answered with an error; a package takes any number of *)
(* resources.                                                              *)
(***************************************************************************)
EXTENDS Integers, Sequences

CONSTANTS Tasks,        \* upload tasks; one single job each
          Files,        \* files that can be uploaded
          Names,        \* package names
          Groups,       \* group names
          FilesOf,      \* FilesOf[t]: the files of task t, in order
          NameOf,       \* NameOf[f]: the file name as createPackage rewrites it
          GroupOf,      \* GroupOf[f]: the fragment description in lower case
          Incomplete,   \* files without a fragment description
          Workers,      \* runs the service can have in progress at once
          None,
          MaxCrashes,   \* bound: crashes
          MaxFaults,    \* bound: calls that fail
          MaxOverruns,  \* bound: locks that expire under a run
          MaxDeletions  \* bound: stored files that are deleted

ASSUME TasksAssumption == FilesOf \in [Tasks -> Seq(Files)]
ASSUME FilesAssumption == /\ NameOf \in [Files -> Names]
                          /\ GroupOf \in [Files -> Groups]
                          /\ Incomplete \subseteq Files
ASSUME NoneAssumption == None \notin Tasks \union (Tasks \X Files)
ASSUME LimitsAssumption == /\ MaxCrashes \in Nat
                           /\ MaxFaults \in Nat
                           /\ MaxOverruns \in Nat
                           /\ MaxDeletions \in Nat

VARIABLES
  jobs,       \* jobs[t]: "new", or what agenda makes of the task's job
  runs,       \* runs[w]: the run in slot w and the file it has come to
  available,  \* files that are in the object store
  groups,     \* groups of CKAN
  packages,   \* packages[n]: the task and file package n was made for, or None
  resources,  \* resources[n]: the files uploaded to package n, in order
  answers,    \* answers[t]: the task status messages of t: DONE, FAILED
  repeated,   \* tasks whose job was locked again after a run of it began
  budget      \* how much of each bound is left

vars == <<jobs, runs, available, groups, packages, resources, answers, repeated,
          budget>>

ckan == <<groups, packages, resources>>

NoRun == [pc |-> "idle", task |-> None, at |-> 0]

Live(w) == runs[w].pc # "idle"

(* The file a run has come to.                                             *)
Current(run) == FilesOf[run.task][run.at]
Name(w)      == NameOf[Current(runs[w])]
Group(w)     == GroupOf[Current(runs[w])]

Spend(what) ==
  /\ budget[what] > 0
  /\ budget' = [budget EXCEPT ![what] = @ - 1]

Continue(w, pc) == runs' = [runs EXCEPT ![w].pc = pc]

(* Mutant: the run goes on behind its last file.                           *)
AtBehindLast(run, i) ==
  [run EXCEPT !.at = i, !.pc = IF i > Len(FilesOf[run.task]) + 1 THEN "report" ELSE "group"]

(* A run at its next file, or past its last one.                           *)
At(run, i) ==
  [run EXCEPT !.at = i, !.pc = IF i > Len(FilesOf[run.task]) THEN "report" ELSE "group"]

(* Mutant: a file that cannot be uploaded does not keep the others back.   *)
FailTaskGoesOn(w) ==
  /\ answers' = [answers EXCEPT ![runs[w].task] = @ \union {"FAILED"}]
  /\ runs' = [runs EXCEPT ![w] = At(@, @.at + 1)]

(* withTaskStatusHandler reports what the handler throws.                  *)
FailTask(w) ==
  /\ answers' = [answers EXCEPT ![runs[w].task] = @ \union {"FAILED"}]
  /\ Continue(w, "finish")

Init ==
  /\ jobs = [t \in Tasks |-> "new"]
  /\ runs = [w \in Workers |-> NoRun]
  /\ available = Files
  /\ groups = {}
  /\ packages = [n \in Names |-> None]
  /\ resources = [n \in Names |-> <<>>]
  /\ answers = [t \in Tasks |-> {}]
  /\ repeated = {}
  /\ budget = [crashes |-> MaxCrashes, faults |-> MaxFaults,
               overruns |-> MaxOverruns, deletions |-> MaxDeletions]
------------------------------------------------------------------------------
(*                          The job and its runs                           *)

FilesIn(t) == {FilesOf[t][i] : i \in DOMAIN FilesOf[t]}

(* scheduleDataUploadJob refuses a task with an incomplete file; the task  *)
(* is reported as failed.                                                  *)
ScheduleTask(t) ==
  /\ jobs[t] = "new"
  /\ IF FilesIn(t) \intersect Incomplete = {}
     THEN jobs' = [jobs EXCEPT ![t] = "due"] /\ UNCHANGED answers
     ELSE /\ jobs' = [jobs EXCEPT ![t] = "refused"]
          /\ answers' = [answers EXCEPT ![t] = {"FAILED"}]
  /\ UNCHANGED <<ckan, runs, available, repeated, budget>>

Lock(w, t) ==
  /\ ~Live(w)
  /\ jobs[t] = "due"
  /\ jobs' = [jobs EXCEPT ![t] = "locked"]
  /\ runs' = [runs EXCEPT ![w] = At([NoRun EXCEPT !.task = t], 1)]
  /\ UNCHANGED <<ckan, available, answers, repeated, budget>>

(* The lock of a killed run expires, or that of a run that outlasts it.    *)
LockExpires(t) ==
  /\ jobs[t] = "locked"
  /\ IF \E w \in Workers : Live(w) /\ runs[w].task = t
     THEN Spend("overruns") ELSE UNCHANGED budget
  /\ jobs' = [jobs EXCEPT ![t] = "due"]
  /\ repeated' = repeated \union {t}
  /\ UNCHANGED <<ckan, runs, available, answers>>

(* runDataUploadJob after the handler.                                     *)
Report(w) ==
  /\ runs[w].pc = "report"
  /\ answers' = [answers EXCEPT ![runs[w].task] = @ \union {"DONE"}]
  /\ Continue(w, "finish")
  /\ UNCHANGED <<ckan, jobs, available, repeated, budget>>

(* Agenda saves the job; a single job that failed is not tried again.      *)
Finish(w) ==
  /\ runs[w].pc = "finish"
  /\ jobs' = [jobs EXCEPT ![runs[w].task] = "done"]
  /\ runs' = [runs EXCEPT ![w] = NoRun]
  /\ UNCHANGED <<ckan, available, answers, repeated, budget>>

Crash ==
  /\ Spend("crashes")
  /\ runs' = [w \in Workers |-> NoRun]
  /\ UNCHANGED <<ckan, jobs, available, answers, repeated>>

(* A deletion message removes a file from the object store.                *)
DeleteStored(f) ==
  /\ f \in available
  /\ Spend("deletions")
  /\ available' = available \ {f}
  /\ UNCHANGED <<ckan, jobs, runs, answers, repeated>>
------------------------------------------------------------------------------
(*                       One file after the other                          *)

(* createGroupIfNeeded looks the group up ...                              *)
FindGroup(w) ==
  /\ runs[w].pc = "group"
  /\ Continue(w, IF Group(w) \in groups THEN "package" ELSE "create")
  /\ UNCHANGED <<ckan, jobs, available, answers, repeated, budget>>

(* CKAN cannot show the group and says so: that is taken for "not found".  *)
GroupUnread(w) ==
  /\ runs[w].pc = "group"
  /\ Spend("faults")
  /\ Continue(w, "create")
  /\ UNCHANGED <<ckan, jobs, available, answers, repeated>>

(* ... and creates it when it was not found.                               *)
CreateGroup(w) ==
  /\ runs[w].pc = "create"
  /\ Group(w) \notin groups
  /\ groups' = groups \union {Group(w)}
  /\ Continue(w, "package")
  /\ UNCHANGED <<jobs, available, packages, resources, answers, repeated, budget>>

(* Another run created it in the meantime: CKAN answers with an error.     *)
GroupTaken(w) ==
  /\ runs[w].pc = "create"
  /\ Group(w) \in groups
  /\ FailTask(w)
  /\ UNCHANGED <<ckan, jobs, available, repeated, budget>>

Packaged(w) == [packages EXCEPT ![Name(w)] = <<runs[w].task, Current(runs[w])>>]

CreatePackage(w) ==
  /\ runs[w].pc = "package"
  /\ packages[Name(w)] = None
  /\ packages' = Packaged(w)
  /\ Continue(w, "stream")
  /\ UNCHANGED <<jobs, available, groups, resources, answers, repeated, budget>>

(* Mutant: a package that exists is taken for the one just made.           *)
PackageReused(w) ==
  /\ runs[w].pc = "package"
  /\ packages[Name(w)] # None
  /\ Continue(w, "stream")
  /\ UNCHANGED <<ckan, jobs, available, answers, repeated, budget>>

(* The name is taken: by an earlier run of the task, by another task, or   *)
(* by a file whose name createPackage rewrites to the same one.            *)
PackageTaken(w) ==
  /\ runs[w].pc = "package"
  /\ packages[Name(w)] # None
  /\ FailTask(w)
  /\ UNCHANGED <<ckan, jobs, available, repeated, budget>>

(* Mutant: a file that is gone is left out, not an error.                  *)
OpenStreamOrSkip(w) ==
  /\ runs[w].pc = "stream"
  /\ IF Current(runs[w]) \in available
     THEN Continue(w, "resource")
     ELSE runs' = [runs EXCEPT ![w] = At(@, @.at + 1)]
  /\ UNCHANGED <<ckan, jobs, available, answers, repeated, budget>>

(* streamFromBucket finds the file, or it was deleted or moved.            *)
OpenStream(w) ==
  /\ runs[w].pc = "stream"
  /\ IF Current(runs[w]) \in available
     THEN Continue(w, "resource") /\ UNCHANGED answers
     ELSE FailTask(w)
  /\ UNCHANGED <<ckan, jobs, available, repeated, budget>>

Uploaded(w) == [resources EXCEPT ![Name(w)] = Append(@, Current(runs[w]))]

CreateResource(w) ==
  /\ runs[w].pc = "resource"
  /\ resources' = Uploaded(w)
  /\ runs' = [runs EXCEPT ![w] = At(@, @.at + 1)]
  /\ UNCHANGED <<jobs, available, groups, packages, answers, repeated, budget>>

(* Mutant: a request that fails ends the run without a report.             *)
CallFailsUnreported(w) ==
  /\ runs[w].pc \in {"group", "create", "package", "stream", "resource"}
  /\ Spend("faults")
  /\ Continue(w, "finish")
  /\ UNCHANGED <<ckan, jobs, available, answers, repeated>>

(* A request fails, before or after CKAN acted on it.                      *)
CallFails(w) ==
  /\ runs[w].pc \in {"group", "create", "package", "stream", "resource"}
  /\ Spend("faults")
  /\ FailTask(w)
  /\ \/ UNCHANGED ckan
     \/ /\ runs[w].pc = "create"
        /\ groups' = groups \union {Group(w)}
        /\ UNCHANGED <<packages, resources>>
     \/ /\ runs[w].pc = "package" /\ packages[Name(w)] = None
        /\ packages' = Packaged(w)
        /\ UNCHANGED <<groups, resources>>
     \/ /\ runs[w].pc = "resource"
        /\ resources' = Uploaded(w)
        /\ UNCHANGED <<groups, packages>>
  /\ UNCHANGED <<jobs, available, repeated>>
------------------------------------------------------------------------------
RunStep(w) == \/ FindGroup(w) \/ CreateGroup(w) \/ GroupTaken(w)
              \/ CreatePackage(w) \/ PackageTaken(w) \/ OpenStream(w)
              \/ CreateResource(w) \/ Report(w) \/ Finish(w)

Next ==
  \/ \E t \in Tasks : ScheduleTask(t)
  \/ \E w \in Workers, t \in Tasks : Lock(w, t)
  \/ \E t \in Tasks : LockExpires(t)
  \/ \E w \in Workers : FindGroup(w)
  \/ \E w \in Workers : GroupUnread(w)
  \/ \E w \in Workers : CreateGroup(w)
  \/ \E w \in Workers : GroupTaken(w)
  \/ \E w \in Workers : CreatePackage(w)
  \/ \E w \in Workers : PackageTaken(w)
  \/ \E w \in Workers : OpenStream(w)
  \/ \E w \in Workers : CreateResource(w)
  \/ \E w \in Workers : CallFails(w)
  \/ \E w \in Workers : Report(w)
  \/ \E w \in Workers : Finish(w)
  \/ \E f \in Files : DeleteStored(f)
  \/ Crash

Spec == Init /\ [][Next]_vars

(* Node runs what is ready, agenda polls for due jobs and expired locks.   *)
Fairness ==
  /\ \A w \in Workers : WF_vars(RunStep(w))
  /\ \A t \in Tasks : /\ WF_vars(\E w \in Workers : Lock(w, t))
                      /\ WF_vars(LockExpires(t))

FairSpec == Spec /\ Fairness
------------------------------------------------------------------------------
(*                             Properties                                  *)

(* The types of the state, and that a run works on a file of a task that   *)
(* was accepted.                                                           *)
TypeOK ==
  /\ jobs \in [Tasks -> {"new", "refused", "due", "locked", "done"}]
  /\ runs \in [Workers -> [pc : {"idle", "group", "create", "package", "stream",
                                 "resource", "report", "finish"},
                           task : Tasks \union {None}, at : Nat]]
  /\ available \subseteq Files
  /\ groups \subseteq Groups
  /\ packages \in [Names -> (Tasks \X Files) \union {None}]
  /\ resources \in [Names -> Seq(Files)]
  /\ answers \in [Tasks -> SUBSET {"DONE", "FAILED"}]
  /\ repeated \subseteq Tasks
  /\ budget \in [crashes : Nat, faults : Nat, overruns : Nat, deletions : Nat]
  /\ \A w \in Workers :
       /\ Live(w) => jobs[runs[w].task] \notin {"new", "refused"}
       /\ runs[w].pc \notin {"idle", "report", "finish"}
            => runs[w].at \in DOMAIN FilesOf[runs[w].task]

(* A task that is reported as done has every file of it in CKAN, in the    *)
(* package of its name and once, whatever was repeated or crossed it.      *)
DoneIsUploaded ==
  \A t \in Tasks : "DONE" \in answers[t] =>
    \A f \in FilesIn(t) : resources[NameOf[f]] = <<f>>

(* A package never gets a second resource or one of another file: a run    *)
(* that repeats another, or overtakes it, stops at the package's name.     *)
OneResourcePerPackage ==
  \A n \in Names : resources[n] # <<>> =>
    packages[n] # None /\ resources[n] = <<packages[n][2]>>

(* A package that was left without its file belongs to a task that will    *)
(* still be run or was reported as failed: never only to one that is done. *)
HalfPackageIsReported ==
  \A n \in Names : packages[n] # None /\ resources[n] = <<>> =>
    LET t == packages[n][1]
    IN  jobs[t] = "done" => "FAILED" \in answers[t]

(* Only a task whose job was run again can be reported both as done and as *)
(* failed: the repeated run stops at the packages of the first.            *)
OneAnswerUnlessRepeated ==
  \A t \in Tasks : answers[t] = {"DONE", "FAILED"} => t \in repeated

(* Every upload task that was received is answered, through crashes,       *)
(* failing calls and repeated runs.                                        *)
EveryUploadAnswered ==
  \A t \in Tasks : jobs[t] # "new" ~> answers[t] # {}

(* createGroupIfNeeded says "Creates a group into CKAN with the given name *)
(* if it doesn't exist" and returns 'CREATION_NOT_NEEDED' otherwise: as    *)
(* long as CKAN answers, no run fails because its group exists.            *)
GroupIsEnsured ==
  [][\A w \in Workers : runs[w].pc = "create" /\ runs'[w].pc = "finish"
       => budget' # budget]_vars
=============================================================================
