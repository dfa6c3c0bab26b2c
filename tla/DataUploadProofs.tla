--------------------------- MODULE DataUploadProofs ---------------------------
(***************************************************************************)
(* Proofs about DataUpload, for any tasks, files, names, workers and       *)
(* bounds: what CKAN holds when a task is reported as done or as failed,   *)
(* through repeated and overtaking runs, failed calls and crashes.         *)
(***************************************************************************)
EXTENDS DataUpload, TLAPS

PCs == {"idle", "group", "create", "package", "stream", "resource", "report", "finish"}

(* What the invariants need of the types: a run in progress is one of a    *)
(* task that was accepted and, before its report, works on a file of it.   *)
Typed ==
  /\ jobs \in [Tasks -> {"new", "refused", "due", "locked", "done"}]
  /\ runs \in [Workers -> [pc : PCs, task : Tasks \union {None}, at : Nat]]
  /\ packages \in [Names -> (Tasks \X Files) \union {None}]
  /\ resources \in [Names -> Seq(Files)]
  /\ answers \in [Tasks -> SUBSET {"DONE", "FAILED"}]
  /\ \A w \in Workers :
       /\ Live(w) => /\ runs[w].task \in Tasks
                     /\ jobs[runs[w].task] \notin {"new", "refused"}
       /\ runs[w].pc \notin {"idle", "report", "finish"}
            => runs[w].at \in DOMAIN FilesOf[runs[w].task]

(* The rest of the types.                                                  *)
Bounded ==
  /\ available \subseteq Files
  /\ groups \subseteq Groups
  /\ repeated \subseteq Tasks
  /\ budget \in [crashes : Nat, faults : Nat, overruns : Nat, deletions : Nat]

(* The files of a task.                                                    *)
LEMMA FileFacts ==
  ASSUME NEW t \in Tasks
  PROVE  /\ FilesOf[t] \in Seq(Files) /\ Len(FilesOf[t]) \in Nat
         /\ DOMAIN FilesOf[t] = 1 .. Len(FilesOf[t])
         /\ \A i \in DOMAIN FilesOf[t] : /\ FilesOf[t][i] \in Files
                                         /\ NameOf[FilesOf[t][i]] \in Names
                                         /\ GroupOf[FilesOf[t][i]] \in Groups
  <1>1. FilesOf[t] \in Seq(Files)
    BY TasksAssumption
  <1>2. /\ Len(FilesOf[t]) \in Nat /\ DOMAIN FilesOf[t] = 1 .. Len(FilesOf[t])
        /\ \A i \in DOMAIN FilesOf[t] : FilesOf[t][i] \in Files
    BY <1>1
  <1> QED BY <1>1, <1>2, FilesAssumption

(* A run at a file, and the file's package.                                *)
LEMMA RunFacts ==
  ASSUME Typed, NEW w \in Workers, runs[w].pc \notin {"idle", "report", "finish"}
  PROVE  /\ runs[w].task \in Tasks /\ runs[w].at \in DOMAIN FilesOf[runs[w].task]
         /\ runs[w].at \in Nat
         /\ Current(runs[w]) \in Files /\ Name(w) \in Names /\ Group(w) \in Groups
         /\ Current(runs[w]) \in FilesIn(runs[w].task)
         /\ NameOf[Current(runs[w])] = Name(w)
  <1>1. /\ runs[w].task \in Tasks /\ runs[w].at \in DOMAIN FilesOf[runs[w].task]
        /\ runs[w].at \in Nat
    BY DEF Typed, Live
  <1> QED BY <1>1, FileFacts DEF Current, Name, Group, FilesIn

(* A run goes on, or comes to another file.                                *)
LEMMA ContinueEffect ==
  ASSUME Typed, NEW w \in Workers, NEW pc \in PCs, Continue(w, pc)
  PROVE  /\ runs'[w] \in [pc : PCs, task : Tasks \union {None}, at : Nat]
         /\ runs'[w].pc = pc /\ runs'[w].task = runs[w].task /\ runs'[w].at = runs[w].at
         /\ \A v \in Workers \ {w} : runs'[v] = runs[v]
         /\ DOMAIN runs' = Workers /\ runs' = [v \in Workers |-> runs'[v]]
  BY DEF Typed, Continue

LEMMA AtEffect ==
  ASSUME NEW t \in Tasks, NEW run \in [pc : PCs, task : Tasks \union {None}, at : Nat],
         run.task = t, NEW i \in Nat \ {0}, NEW next, next = At(run, i)
  PROVE  /\ next \in [pc : PCs, task : Tasks \union {None}, at : Nat]
         /\ next.task = t /\ next.at = i
         /\ \/ next.pc = "group" /\ i \in DOMAIN FilesOf[t]
            \/ next.pc = "report" /\ i > Len(FilesOf[t])
  <1>1. /\ next \in [pc : PCs, task : Tasks \union {None}, at : Nat]
        /\ next.task = t /\ next.at = i
        /\ next.pc = IF i > Len(FilesOf[t]) THEN "report" ELSE "group"
    BY DEF At, PCs
  <1> QED BY <1>1, FileFacts

(* Types hold at first.                                                    *)
LEMMA TypeInit == Init => Typed /\ Bounded
  BY LimitsAssumption DEF Init, Typed, Bounded, NoRun, Live, PCs

(* What is sent and stored by the run that goes on keeps the types.        *)
LEMMA TypedKept ==
  ASSUME Typed,
         NEW w \in Workers, \A v \in Workers \ {w} : runs'[v] = runs[v],
         runs' = [v \in Workers |-> runs'[v]],
         runs'[w] \in [pc : PCs, task : Tasks \union {None}, at : Nat],
         runs'[w].pc # "idle" => /\ runs'[w].task \in Tasks
                                 /\ jobs'[runs'[w].task] \notin {"new", "refused"},
         runs'[w].pc \notin {"idle", "report", "finish"}
           => runs'[w].at \in DOMAIN FilesOf[runs'[w].task],
         jobs' \in [Tasks -> {"new", "refused", "due", "locked", "done"}],
         \A t \in Tasks : jobs[t] \notin {"new", "refused"} => jobs'[t] \notin {"new", "refused"},
         packages' \in [Names -> (Tasks \X Files) \union {None}],
         resources' \in [Names -> Seq(Files)],
         answers' \in [Tasks -> SUBSET {"DONE", "FAILED"}]
  PROVE  Typed'
  <1>1. runs' \in [Workers -> [pc : PCs, task : Tasks \union {None}, at : Nat]]
    BY DEF Typed
  <1>2. ASSUME NEW v \in Workers
        PROVE  /\ runs'[v].pc # "idle" => /\ runs'[v].task \in Tasks
                                         /\ jobs'[runs'[v].task] \notin {"new", "refused"}
               /\ runs'[v].pc \notin {"idle", "report", "finish"}
                    => runs'[v].at \in DOMAIN FilesOf[runs'[v].task]
    BY DEF Typed, Live
  <1> QED BY <1>1, <1>2 DEF Typed, Live

(* A request of a run, or its report: what it can do to CKAN, the answers  *)
(* and itself.                                                             *)
RunGoesOn(w) == \/ FindGroup(w) \/ GroupUnread(w) \/ CreateGroup(w) \/ GroupTaken(w)
                \/ CreatePackage(w) \/ PackageTaken(w) \/ OpenStream(w) \/ CreateResource(w) \/ CallFails(w)
                \/ Report(w)

LEMMA GoesOnEffect ==
  ASSUME Typed, NEW w \in Workers, RunGoesOn(w)
  PROVE  /\ Live(w) /\ runs[w].task \in Tasks /\ runs[w].pc # "finish"
         /\ \A v \in Workers \ {w} : runs'[v] = runs[v]
         /\ runs' = [v \in Workers |-> runs'[v]]
         /\ runs'[w] \in [pc : PCs, task : Tasks \union {None}, at : Nat]
         /\ runs'[w].task = runs[w].task /\ runs'[w].pc # "idle"
         /\ runs'[w].pc \notin {"report", "finish"}
              => runs'[w].at \in DOMAIN FilesOf[runs[w].task]
         /\ UNCHANGED <<jobs, available, repeated>>
         /\ \/ runs'[w].pc # "finish" /\ UNCHANGED answers
            \/ /\ runs'[w].pc = "finish"
               /\ \E answer \in {"DONE", "FAILED"} :
                    /\ answers' = [answers EXCEPT ![runs[w].task] = @ \union {answer}]
                    /\ answer = "DONE" => runs[w].pc = "report"
  <1>1. Live(w) /\ runs[w].task \in Tasks /\ runs[w].pc # "finish"
    BY DEF RunGoesOn, FindGroup, GroupUnread, CreateGroup, GroupTaken, CreatePackage,
       PackageTaken, OpenStream, CreateResource, CallFails, Report, Typed, Live
  <1>2. CASE \/ FindGroup(w) \/ GroupUnread(w) \/ CreateGroup(w) \/ CreatePackage(w)
             \/ OpenStream(w) /\ Current(runs[w]) \in available
    <2>1. PICK pc \in {"create", "package", "stream", "resource"} : Continue(w, pc)
      BY <1>2 DEF FindGroup, GroupUnread, CreateGroup, CreatePackage, OpenStream
    <2>2. runs[w].at \in DOMAIN FilesOf[runs[w].task]
      BY <1>2, RunFacts DEF FindGroup, GroupUnread, CreateGroup, CreatePackage, OpenStream
    <2>3. UNCHANGED <<jobs, available, repeated, answers>>
      BY <1>2 DEF FindGroup, GroupUnread, CreateGroup, CreatePackage, OpenStream
    <2> QED BY <1>1, <2>1, <2>2, <2>3, ContinueEffect DEF PCs
  <1>3. CASE \/ GroupTaken(w) \/ PackageTaken(w) \/ CallFails(w) \/ Report(w)
             \/ OpenStream(w) /\ Current(runs[w]) \notin available
    <2>1. Continue(w, "finish") /\ UNCHANGED <<jobs, available, repeated>>
      BY <1>3 DEF GroupTaken, PackageTaken, CallFails, Report, OpenStream, FailTask
    <2>2. \E answer \in {"DONE", "FAILED"} :
            /\ answers' = [answers EXCEPT ![runs[w].task] = @ \union {answer}]
            /\ answer = "DONE" => runs[w].pc = "report"
      BY <1>3 DEF GroupTaken, PackageTaken, CallFails, Report, OpenStream, FailTask
    <2> QED BY <1>1, <2>1, <2>2, ContinueEffect DEF PCs
  <1>4. CASE CreateResource(w)
    <2>1. /\ runs' = [runs EXCEPT ![w] = At(@, @.at + 1)]
          /\ UNCHANGED <<jobs, available, answers, repeated>>
          /\ runs[w].at \in Nat /\ runs \in [Workers -> [pc : PCs, task : Tasks \union {None}, at : Nat]]
      BY <1>4, RunFacts DEF CreateResource, Typed
    <2>2. /\ runs'[w] = At(runs[w], runs[w].at + 1)
          /\ \A v \in Workers \ {w} : runs'[v] = runs[v]
          /\ runs' = [v \in Workers |-> runs'[v]]
      BY <2>1
    <2>3. /\ runs'[w] \in [pc : PCs, task : Tasks \union {None}, at : Nat]
          /\ runs'[w].task = runs[w].task
          /\ \/ runs'[w].pc = "group" /\ runs'[w].at \in DOMAIN FilesOf[runs[w].task]
             \/ runs'[w].pc = "report"
      <3>1. PICK next, i : next = runs'[w] /\ i = runs[w].at + 1
        OBVIOUS
      <3>2. i \in Nat \ {0} /\ next = At(runs[w], i)
        BY <2>1, <2>2, <3>1
      <3> QED BY <1>1, <2>1, <3>1, <3>2, AtEffect
    <2> QED BY <1>1, <2>1, <2>2, <2>3
  <1> QED BY <1>2, <1>3, <1>4 DEF RunGoesOn

(* What CKAN has after a step of a run: it is of the same type, and only a *)
(* package or a resource is new.                                           *)
LEMMA CkanEffect ==
  ASSUME Typed, NEW w \in Workers, RunGoesOn(w)
  PROVE  /\ packages' \in [Names -> (Tasks \X Files) \union {None}]
         /\ resources' \in [Names -> Seq(Files)]
         /\ \/ UNCHANGED <<packages, resources>>
            \/ /\ runs[w].pc = "package" /\ packages[Name(w)] = None
               /\ packages' = Packaged(w) /\ UNCHANGED resources
            \/ /\ runs[w].pc = "resource"
               /\ resources' = Uploaded(w) /\ UNCHANGED packages
  <1>1. \/ UNCHANGED <<packages, resources>>
        \/ /\ runs[w].pc = "package" /\ packages[Name(w)] = None
           /\ packages' = Packaged(w) /\ UNCHANGED resources
        \/ /\ runs[w].pc = "resource"
           /\ resources' = Uploaded(w) /\ UNCHANGED packages
    BY DEF RunGoesOn, FindGroup, GroupUnread, CreateGroup, GroupTaken, CreatePackage,
       PackageTaken, OpenStream, CreateResource, CallFails, Report, ckan
  <1>2. ASSUME runs[w].pc \in {"package", "resource"}
        PROVE  /\ Packaged(w) \in [Names -> (Tasks \X Files) \union {None}]
               /\ Uploaded(w) \in [Names -> Seq(Files)]
    <2>1. runs[w].task \in Tasks /\ Current(runs[w]) \in Files /\ Name(w) \in Names
      BY <1>2, RunFacts
    <2>2. Append(resources[Name(w)], Current(runs[w])) \in Seq(Files)
      <3>1. PICK s : s = resources[Name(w)]
        OBVIOUS
      <3>2. s \in Seq(Files)
        BY <2>1, <3>1 DEF Typed
      <3> QED BY <2>1, <3>1, <3>2
    <2> QED BY <2>1, <2>2 DEF Packaged, Uploaded, Typed
  <1> QED BY <1>1, <1>2 DEF Typed

(* Types are preserved.                                                    *)
LEMMA TypeNext == Typed /\ [Next]_vars => Typed'
  <1> SUFFICES ASSUME Typed, [Next]_vars PROVE Typed'
    OBVIOUS
  <1>1. ASSUME NEW t \in Tasks, ScheduleTask(t) PROVE Typed'
    <2>1. /\ jobs[t] = "new" /\ UNCHANGED <<ckan, runs>>
          /\ \E job \in {"due", "refused"} : jobs' = [jobs EXCEPT ![t] = job]
          /\ answers' \in [Tasks -> SUBSET {"DONE", "FAILED"}]
      <3>1. jobs[t] = "new" /\ UNCHANGED <<ckan, runs>>
        BY <1>1 DEF ScheduleTask
      <3>2. \E job \in {"due", "refused"} : jobs' = [jobs EXCEPT ![t] = job]
        BY <1>1 DEF ScheduleTask
      <3>3. answers' \in [Tasks -> SUBSET {"DONE", "FAILED"}]
        BY <1>1 DEF ScheduleTask, Typed
      <3> QED BY <3>1, <3>2, <3>3
    <2> QED BY <2>1 DEF ckan, Typed, Live
  <1>2. ASSUME NEW w \in Workers, NEW t \in Tasks, Lock(w, t) PROVE Typed'
    <2>1. /\ ~Live(w) /\ jobs[t] = "due" /\ jobs' = [jobs EXCEPT ![t] = "locked"]
          /\ runs' = [runs EXCEPT ![w] = At([NoRun EXCEPT !.task = t], 1)]
          /\ UNCHANGED <<ckan, answers>>
      BY <1>2 DEF Lock
    <2>2. PICK run, next : run = [NoRun EXCEPT !.task = t] /\ next = At(run, 1)
      OBVIOUS
    <2>3. run \in [pc : PCs, task : Tasks \union {None}, at : Nat] /\ run.task = t
      BY <2>2 DEF NoRun, PCs
    <2>4. /\ next \in [pc : PCs, task : Tasks \union {None}, at : Nat]
          /\ next.task = t
          /\ next.pc = "report" \/ (next.pc = "group" /\ next.at \in DOMAIN FilesOf[t])
      BY <2>2, <2>3, AtEffect
    <2>5. /\ runs'[w] = next /\ \A v \in Workers \ {w} : runs'[v] = runs[v]
          /\ runs' = [v \in Workers |-> runs'[v]]
      BY <2>1, <2>2 DEF Typed
    <2>6. /\ jobs' \in [Tasks -> {"new", "refused", "due", "locked", "done"}]
          /\ jobs'[t] = "locked" /\ \A u \in Tasks \ {t} : jobs'[u] = jobs[u]
      BY <2>1 DEF Typed
    <2>7. /\ packages' \in [Names -> (Tasks \X Files) \union {None}]
          /\ resources' \in [Names -> Seq(Files)]
          /\ answers' \in [Tasks -> SUBSET {"DONE", "FAILED"}]
      BY <2>1 DEF ckan, Typed
    <2>8. \A u \in Tasks : jobs[u] \notin {"new", "refused"} => jobs'[u] \notin {"new", "refused"}
      BY <2>6
    <2> QED BY <2>4, <2>5, <2>6, <2>7, <2>8, TypedKept
  <1>3. ASSUME NEW t \in Tasks, LockExpires(t) PROVE Typed'
    BY <1>3 DEF LockExpires, Typed, ckan, Live
  <1>4. ASSUME NEW w \in Workers, RunGoesOn(w) PROVE Typed'
    <2>1. /\ Live(w) /\ runs[w].task \in Tasks
          /\ \A v \in Workers \ {w} : runs'[v] = runs[v]
          /\ runs' = [v \in Workers |-> runs'[v]]
          /\ runs'[w] \in [pc : PCs, task : Tasks \union {None}, at : Nat]
          /\ runs'[w].task = runs[w].task /\ runs'[w].pc # "idle"
          /\ runs'[w].pc \notin {"report", "finish"}
               => runs'[w].at \in DOMAIN FilesOf[runs[w].task]
          /\ UNCHANGED jobs
          /\ \/ UNCHANGED answers
             \/ \E answer \in {"DONE", "FAILED"} :
                  answers' = [answers EXCEPT ![runs[w].task] = @ \union {answer}]
      BY <1>4, GoesOnEffect
    <2>2. answers' \in [Tasks -> SUBSET {"DONE", "FAILED"}]
      <3>1. answers \in [Tasks -> SUBSET {"DONE", "FAILED"}]
        BY DEF Typed
      <3>2. ASSUME NEW answer \in {"DONE", "FAILED"}
            PROVE  [answers EXCEPT ![runs[w].task] = @ \union {answer}]
                     \in [Tasks -> SUBSET {"DONE", "FAILED"}]
        BY <3>1
      <3> QED BY ONLY <2>1, <3>1, <3>2
    <2>3. /\ jobs[runs[w].task] \notin {"new", "refused"}
          /\ jobs \in [Tasks -> {"new", "refused", "due", "locked", "done"}]
      BY <2>1 DEF Typed
    <2>4. /\ packages' \in [Names -> (Tasks \X Files) \union {None}]
          /\ resources' \in [Names -> Seq(Files)]
      BY <1>4, CkanEffect
    <2> QED BY <2>1, <2>2, <2>3, <2>4, TypedKept
  <1>5. ASSUME NEW w \in Workers, Finish(w) PROVE Typed'
    <2>1. /\ runs[w].task \in Tasks /\ jobs' = [jobs EXCEPT ![runs[w].task] = "done"]
          /\ runs' = [runs EXCEPT ![w] = NoRun] /\ UNCHANGED <<ckan, answers>>
      BY <1>5 DEF Finish, Typed, Live
    <2> QED BY <2>1 DEF Typed, Live, NoRun, ckan, PCs
  <1>6. CASE Crash
    BY <1>6 DEF Crash, Typed, Live, NoRun, ckan, PCs
  <1>7. ASSUME NEW f \in Files, DeleteStored(f) PROVE Typed'
    BY <1>7 DEF DeleteStored, Typed, Live, ckan
  <1>8. CASE UNCHANGED vars
    BY <1>8 DEF vars, Typed, Live
  <1> QED BY <1>1, <1>2, <1>3, <1>4, <1>5, <1>6, <1>7, <1>8 DEF Next, RunGoesOn

(* So is the rest of them.                                                 *)
LEMMA BoundedNext == Typed /\ Bounded /\ [Next]_vars => Bounded'
  <1> SUFFICES ASSUME Typed, Bounded, [Next]_vars PROVE Bounded'
    OBVIOUS
  <1>1. ASSUME NEW what \in {"crashes", "faults", "overruns", "deletions"}, Spend(what)
        PROVE  budget' \in [crashes : Nat, faults : Nat, overruns : Nat, deletions : Nat]
    BY <1>1 DEF Spend, Bounded
  <1>2. ASSUME NEW t \in Tasks, ScheduleTask(t) \/ LockExpires(t) PROVE Bounded'
    BY <1>1, <1>2 DEF ScheduleTask, LockExpires, Bounded, ckan
  <1>3. ASSUME NEW w \in Workers, CreateGroup(w) \/ CallFails(w) \/ GroupUnread(w)
        PROVE  Bounded'
    <2>1. Group(w) \in Groups
      BY <1>3, RunFacts DEF CreateGroup, CallFails, GroupUnread, FailTask
    <2> QED BY <1>1, <1>3, <2>1 DEF CreateGroup, CallFails, GroupUnread, FailTask, Bounded, ckan
  <1>4. ASSUME NEW w \in Workers,
               \/ FindGroup(w) \/ GroupTaken(w) \/ CreatePackage(w) \/ PackageTaken(w)
               \/ OpenStream(w) \/ CreateResource(w) \/ Report(w) \/ Finish(w)
        PROVE  Bounded'
    BY <1>4 DEF FindGroup, GroupTaken, CreatePackage, PackageTaken, OpenStream, CreateResource,
       Report, Finish, Bounded, ckan
  <1>5. CASE Crash
    BY <1>1, <1>5 DEF Crash, Bounded, ckan
  <1>6. ASSUME NEW f \in Files, DeleteStored(f) PROVE Bounded'
    BY <1>1, <1>6 DEF DeleteStored, Bounded, ckan
  <1>7. ASSUME NEW w \in Workers, NEW t \in Tasks, Lock(w, t) PROVE Bounded'
    BY <1>7 DEF Lock, Bounded, ckan
  <1>8. CASE UNCHANGED vars
    BY <1>8 DEF vars, Bounded
  <1> QED BY <1>2, <1>3, <1>4, <1>5, <1>6, <1>7, <1>8 DEF Next

(* Every reachable state is well typed.                                    *)
THEOREM TypeCorrect == Spec => []TypeOK
  <1>1. Typed /\ Bounded => TypeOK
    BY DEF Typed, Bounded, TypeOK, PCs, Live
  <1> QED BY <1>1, TypeInit, TypeNext, BoundedNext, PTL DEF Spec
------------------------------------------------------------------------------
(* A run between the making of a package and the upload of its file.       *)
Uploading(w) == runs[w].pc \in {"stream", "resource"}

(* A package is of a file of its task and of its name, and holds at most   *)
(* that file.  The run that made it, and no other, is about to upload it.  *)
PackagesInv ==
  /\ \A n \in Names : packages[n] # None => /\ packages[n][2] \in FilesIn(packages[n][1])
                                            /\ NameOf[packages[n][2]] = n
  /\ OneResourcePerPackage
  /\ \A w \in Workers : Uploading(w) =>
       /\ packages[Name(w)] = <<runs[w].task, Current(runs[w])>>
       /\ resources[Name(w)] = <<>>
  /\ \A v, w \in Workers : Uploading(v) /\ Uploading(w) /\ Name(v) = Name(w) => v = w

(* A file that is in CKAN, in its package and once.                        *)
Complete(f) == resources[NameOf[f]] = <<f>>

(* The files behind which a run has come are in CKAN, and those of a task  *)
(* that was reported as done; a run ends, and a job is done, only with an  *)
(* answer.                                                                 *)
AnswersInv ==
  /\ DoneIsUploaded
  /\ \A w \in Workers : Live(w) /\ runs[w].pc # "finish" =>
       \A i \in DOMAIN FilesOf[runs[w].task] :
         i < runs[w].at \/ runs[w].pc = "report" => Complete(FilesOf[runs[w].task][i])
  /\ \A w \in Workers : runs[w].pc = "finish" => answers[runs[w].task] # {}
  /\ \A t \in Tasks : jobs[t] = "done" => answers[t] # {}

(* As long as its job is not locked a second time, a task has one run at   *)
(* most, no answer before the run's end and one after it.                  *)
OnceInv ==
  \A t \in Tasks \ repeated :
    /\ answers[t] # {"DONE", "FAILED"}
    /\ jobs[t] \in {"new", "due"} => answers[t] = {}
    /\ \A w \in Workers : Live(w) /\ runs[w].task = t =>
         /\ jobs[t] = "locked"
         /\ runs[w].pc # "finish" => answers[t] = {}
         /\ \A v \in Workers : Live(v) /\ runs[v].task = t => v = w

(* Where a run comes to: it goes to its next file only with the upload of  *)
(* the one before, and uploads a file only to a package it has made.       *)
LEMMA PlaceEffect ==
  ASSUME Typed, NEW w \in Workers, RunGoesOn(w)
  PROVE  /\ \/ runs'[w].at = runs[w].at /\ runs'[w].pc # "report"
            \/ /\ runs[w].pc = "resource" /\ runs'[w].at = runs[w].at + 1
               /\ resources' = Uploaded(w) /\ UNCHANGED packages
               /\ runs'[w].pc \in {"group", "report"}
               /\ runs'[w].pc = "report" => runs'[w].at > Len(FilesOf[runs[w].task])
         /\ Uploading(w)' =>
              /\ runs'[w].at = runs[w].at /\ UNCHANGED resources
              /\ \/ /\ runs[w].pc = "package" /\ packages[Name(w)] = None
                    /\ packages' = Packaged(w)
                 \/ Uploading(w) /\ UNCHANGED packages
         /\ packages' # packages => Uploading(w)' \/ runs'[w].pc = "finish"
         /\ resources' # resources => ~Uploading(w)'
  <1>1. CASE CreateResource(w)
    <2>1. /\ runs' = [runs EXCEPT ![w] = At(@, @.at + 1)] /\ runs[w].pc = "resource"
          /\ runs[w].at \in Nat /\ runs[w].task \in Tasks
          /\ runs \in [Workers -> [pc : PCs, task : Tasks \union {None}, at : Nat]]
          /\ resources' = Uploaded(w) /\ UNCHANGED packages
      BY <1>1, RunFacts DEF CreateResource, Typed
    <2>2. runs'[w] = At(runs[w], runs[w].at + 1)
      BY <2>1
    <2>3. /\ runs'[w].at = runs[w].at + 1
          /\ \/ runs'[w].pc = "group"
             \/ runs'[w].pc = "report" /\ runs'[w].at > Len(FilesOf[runs[w].task])
      <3>1. PICK next, i : next = runs'[w] /\ i = runs[w].at + 1
        OBVIOUS
      <3>2. i \in Nat \ {0} /\ next = At(runs[w], i)
        BY <2>1, <2>2, <3>1
      <3> QED BY <2>1, <3>1, <3>2, AtEffect
    <2> QED BY <2>1, <2>3 DEF Uploading
  <1>2. CASE \/ FindGroup(w) \/ GroupUnread(w) \/ CreateGroup(w) \/ CreatePackage(w)
             \/ OpenStream(w) /\ Current(runs[w]) \in available
    <2>1. PICK pc \in {"create", "package", "stream", "resource"} :
            /\ Continue(w, pc) /\ UNCHANGED resources
            /\ \/ pc \in {"create", "package"} /\ UNCHANGED packages
               \/ /\ pc = "stream" /\ runs[w].pc = "package" /\ packages[Name(w)] = None
                  /\ packages' = Packaged(w)
               \/ pc = "resource" /\ runs[w].pc = "stream" /\ UNCHANGED packages
      BY <1>2 DEF FindGroup, GroupUnread, CreateGroup, CreatePackage, OpenStream, ckan
    <2>2. runs'[w].pc = pc /\ runs'[w].at = runs[w].at
      BY <2>1, ContinueEffect DEF PCs
    <2> QED BY <2>1, <2>2 DEF Uploading
  <1>3. CASE \/ GroupTaken(w) \/ PackageTaken(w) \/ CallFails(w) \/ Report(w)
             \/ OpenStream(w) /\ Current(runs[w]) \notin available
    <2>1. Continue(w, "finish")
      BY <1>3 DEF GroupTaken, PackageTaken, CallFails, Report, OpenStream, FailTask
    <2>2. runs'[w].pc = "finish" /\ runs'[w].at = runs[w].at
      BY <2>1, ContinueEffect DEF PCs
    <2> QED BY <2>2 DEF Uploading
  <1>4. \/ CreateResource(w)
        \/ \/ FindGroup(w) \/ GroupUnread(w) \/ CreateGroup(w) \/ CreatePackage(w)
           \/ OpenStream(w) /\ Current(runs[w]) \in available
        \/ \/ GroupTaken(w) \/ PackageTaken(w) \/ CallFails(w) \/ Report(w)
           \/ OpenStream(w) /\ Current(runs[w]) \notin available
    BY DEF RunGoesOn
  <1> QED BY <1>1, <1>2, <1>3, <1>4, Zenon

(* No package is new, no file uploaded, and no other run about to upload.  *)
LEMMA PackagesKept ==
  ASSUME Typed, PackagesInv, UNCHANGED <<packages, resources>>,
         \A w \in Workers : Uploading(w)' =>
           Uploading(w) /\ runs'[w].task = runs[w].task /\ runs'[w].at = runs[w].at
  PROVE  PackagesInv'
  <1>1. \A w \in Workers : Uploading(w)' =>
          Uploading(w) /\ Name(w)' = Name(w) /\ Current(runs'[w]) = Current(runs[w])
    BY DEF Name, Current
  <1> QED BY <1>1 DEF PackagesInv, OneResourcePerPackage, Complete

(* A package that is made is new, and empty.                               *)
LEMMA PackagesMade ==
  ASSUME Typed, PackagesInv, NEW w \in Workers, RunGoesOn(w),
         runs[w].pc = "package", packages[Name(w)] = None, packages' = Packaged(w),
         UNCHANGED resources
  PROVE  PackagesInv'
  <1>1. PICK n, t, f : n = Name(w) /\ t = runs[w].task /\ f = Current(runs[w])
    OBVIOUS
  <1>2. n \in Names /\ t \in Tasks /\ f \in FilesIn(t) /\ f \in Files /\ NameOf[f] = n
    BY <1>1, RunFacts
  <1>3. packages'[n] = <<t, f>> /\ \A m \in Names \ {n} : packages'[m] = packages[m]
    BY <1>1, <1>2 DEF Packaged, Typed
  <1>4. resources[n] = <<>>
    BY <1>1, <1>2 DEF PackagesInv, OneResourcePerPackage
  <1>5. \A v \in Workers \ {w} : runs'[v] = runs[v]
    BY GoesOnEffect
  <1>6. \A v \in Workers \ {w} : Uploading(v)' => Uploading(v) /\ Name(v)' = Name(v)
                                   /\ Name(v) \in Names /\ Name(v) # n
                                   /\ Current(runs'[v]) = Current(runs[v])
    <2> SUFFICES ASSUME NEW v \in Workers \ {w}, Uploading(v)'
                 PROVE  Uploading(v) /\ Name(v)' = Name(v) /\ Name(v) \in Names /\ Name(v) # n
                          /\ Current(runs'[v]) = Current(runs[v])
      OBVIOUS
    <2>1. Uploading(v) /\ Name(v)' = Name(v) /\ Current(runs'[v]) = Current(runs[v])
      BY <1>5 DEF Uploading, Name, Current
    <2>2. packages[Name(v)] = <<runs[v].task, Current(runs[v])>> /\ runs[v].task \in Tasks
          /\ Current(runs[v]) \in Files /\ Name(v) \in Names
      BY <2>1, RunFacts DEF PackagesInv, Uploading
    <2>3. packages[n] = None /\ <<runs[v].task, Current(runs[v])>> # None
      BY <1>1, <2>2, NoneAssumption
    <2> QED BY <2>1, <2>2, <2>3
  <1>7. Uploading(w)' => /\ Name(w)' = n /\ Current(runs'[w]) = f /\ runs'[w].task = t
    BY <1>1, PlaceEffect, GoesOnEffect DEF Name, Current
  <1>8. \A v \in Workers : Uploading(v)' =>
          /\ packages'[Name(v)'] = <<runs'[v].task, Current(runs'[v])>>
          /\ resources'[Name(v)'] = <<>>
    BY <1>3, <1>4, <1>5, <1>6, <1>7 DEF PackagesInv
  <1>9. \A v, u \in Workers : Uploading(v)' /\ Uploading(u)' /\ Name(v)' = Name(u)' => v = u
    BY <1>6, <1>7 DEF PackagesInv
  <1>10. \A m \in Names : packages'[m] # None => /\ packages'[m][2] \in FilesIn(packages'[m][1])
                                                /\ NameOf[packages'[m][2]] = m
    BY <1>2, <1>3 DEF PackagesInv
  <1>11. OneResourcePerPackage'
    BY <1>3, <1>4 DEF PackagesInv, OneResourcePerPackage
  <1> QED BY <1>8, <1>9, <1>10, <1>11 DEF PackagesInv

(* A file is uploaded to the empty package that was made for it.           *)
LEMMA PackagesFilled ==
  ASSUME Typed, PackagesInv, NEW w \in Workers, RunGoesOn(w),
         runs[w].pc = "resource", resources' = Uploaded(w), UNCHANGED packages
  PROVE  /\ PackagesInv'
         /\ resources[Name(w)] = <<>> /\ resources'[Name(w)] = <<Current(runs[w])>>
         /\ \A n \in Names \ {Name(w)} : resources'[n] = resources[n]
  <1>1. PICK n, t, f : n = Name(w) /\ t = runs[w].task /\ f = Current(runs[w])
    OBVIOUS
  <1>2. n \in Names /\ t \in Tasks /\ f \in FilesIn(t) /\ f \in Files /\ NameOf[f] = n
    BY <1>1, RunFacts
  <1>3. packages[n] = <<t, f>> /\ resources[n] = <<>>
    BY <1>1 DEF PackagesInv, Uploading
  <1>4. resources'[n] = Append(resources[n], f) /\ \A m \in Names \ {n} : resources'[m] = resources[m]
    BY <1>1, <1>2 DEF Uploaded, Typed
  <1>5. resources'[n] = <<f>>
    BY <1>3, <1>4
  <1>6. \A v \in Workers \ {w} : runs'[v] = runs[v]
    BY GoesOnEffect
  <1>7. ~Uploading(w)'
    <2>1. Append(resources[n], f) # resources[n]
      BY <1>3, <1>4, <1>5
    <2> QED BY <1>4, <2>1, PlaceEffect
  <1>8. \A v \in Workers : Uploading(v)' =>
          /\ v # w /\ Uploading(v) /\ Name(v)' = Name(v) /\ Current(runs'[v]) = Current(runs[v])
          /\ Name(v) \in Names /\ runs'[v] = runs[v]
    BY <1>6, <1>7, RunFacts DEF Uploading, Name, Current
  <1>9. \A v \in Workers : Uploading(v)' => Name(v) # n
    BY <1>1, <1>8 DEF PackagesInv, Uploading
  <1>10. \A v \in Workers : Uploading(v)' =>
          /\ packages'[Name(v)'] = <<runs'[v].task, Current(runs'[v])>>
          /\ resources'[Name(v)'] = <<>>
    BY <1>4, <1>8, <1>9 DEF PackagesInv
  <1>11. \A v, u \in Workers : Uploading(v)' /\ Uploading(u)' /\ Name(v)' = Name(u)' => v = u
    BY <1>8 DEF PackagesInv
  <1>12. OneResourcePerPackage'
    <2>1. \A m \in Names : resources'[m] # <<>> =>
            packages[m] # None /\ resources'[m] = <<packages[m][2]>>
      <3>1. packages[n] # None /\ packages[n][2] = f
        BY <1>2, <1>3, NoneAssumption
      <3>2. \A m \in Names \ {n} : resources'[m] # <<>> =>
              packages[m] # None /\ resources'[m] = <<packages[m][2]>>
        BY <1>4 DEF PackagesInv, OneResourcePerPackage
      <3> QED BY <1>5, <3>1, <3>2
    <2> QED BY <2>1 DEF OneResourcePerPackage
  <1>13. PackagesInv'
    BY <1>10, <1>11, <1>12 DEF PackagesInv
  <1> QED BY <1>1, <1>3, <1>4, <1>5, <1>13

(* Packages and resources are in order after every step.                   *)
LEMMA PackagesNext ==
  ASSUME Typed, PackagesInv, [Next]_vars
  PROVE  PackagesInv'
  <1>1. ASSUME NEW w \in Workers, RunGoesOn(w) PROVE PackagesInv'
    <2>1. CASE UNCHANGED <<packages, resources>>
      <3>1. Uploading(w)' => Uploading(w) /\ runs'[w].at = runs[w].at
        <4>1. runs[w].pc = "package" => Packaged(w) # packages \/ packages[Name(w)] # None
          <5>1. ASSUME runs[w].pc = "package", packages[Name(w)] = None, Packaged(w) = packages
                PROVE  FALSE
            <6>1. /\ Name(w) \in Names /\ runs[w].task \in Tasks /\ Current(runs[w]) \in Files
              BY <5>1, RunFacts
            <6>2. Packaged(w)[Name(w)] = <<runs[w].task, Current(runs[w])>>
              BY <6>1 DEF Packaged, Typed
            <6> QED BY <5>1, <6>1, <6>2, NoneAssumption
          <5> QED BY <5>1
        <4> QED BY <1>1, <2>1, <4>1, PlaceEffect
      <3>2. \A v \in Workers : Uploading(v)' =>
              Uploading(v) /\ runs'[v].task = runs[v].task /\ runs'[v].at = runs[v].at
        BY <1>1, <3>1, GoesOnEffect DEF Uploading
      <3> QED BY <2>1, <3>2, PackagesKept
    <2>2. CASE ~UNCHANGED <<packages, resources>>
      BY <1>1, <2>2, CkanEffect, PackagesMade, PackagesFilled
    <2> QED BY <2>1, <2>2
  <1>2. ASSUME NEW w \in Workers, NEW t \in Tasks, Lock(w, t) PROVE PackagesInv'
    <2>1. /\ runs' = [runs EXCEPT ![w] = At([NoRun EXCEPT !.task = t], 1)]
          /\ UNCHANGED <<packages, resources>>
      BY <1>2 DEF Lock, ckan
    <2>2. PICK run, next : run = [NoRun EXCEPT !.task = t] /\ next = At(run, 1)
      OBVIOUS
    <2>3. next.pc \in {"group", "report"}
      BY <2>2 DEF At, NoRun
    <2>4. runs'[w] = next /\ \A v \in Workers \ {w} : runs'[v] = runs[v]
      BY <2>1, <2>2 DEF Typed
    <2> QED BY <2>1, <2>3, <2>4, PackagesKept DEF Uploading
  <1>3. ASSUME NEW w \in Workers, Finish(w) PROVE PackagesInv'
    <2>1. runs' = [runs EXCEPT ![w] = NoRun] /\ UNCHANGED <<packages, resources>>
      BY <1>3 DEF Finish, ckan
    <2>2. ~Uploading(w)' /\ \A v \in Workers \ {w} : runs'[v] = runs[v]
      BY <2>1 DEF Uploading, NoRun, Typed
    <2> QED BY <2>1, <2>2, PackagesKept DEF Uploading
  <1>4. CASE Crash
    <2>1. \A w \in Workers : ~Uploading(w)'
      BY <1>4 DEF Crash, Uploading, NoRun
    <2> QED BY <1>4, <2>1, PackagesKept DEF Crash, ckan
  <1>5. CASE \/ \E t \in Tasks : ScheduleTask(t) \/ LockExpires(t)
             \/ \E f \in Files : DeleteStored(f)
             \/ UNCHANGED vars
    <2>1. UNCHANGED <<packages, resources, runs>>
      BY <1>5 DEF ScheduleTask, LockExpires, DeleteStored, vars, ckan
    <2> QED BY <2>1, PackagesKept DEF Uploading
  <1> QED BY <1>1, <1>2, <1>3, <1>4, <1>5 DEF Next, RunGoesOn

(* A package never gets a second resource, nor one of another file: a run  *)
(* that repeats another, or overtakes it, stops at the package's name.     *)
THEOREM OneResource == Spec => []OneResourcePerPackage
  <1>1. Init => PackagesInv
    BY DEF Init, PackagesInv, OneResourcePerPackage, Uploading, NoRun
  <1>2. PackagesInv => OneResourcePerPackage
    BY DEF PackagesInv
  <1> QED BY <1>1, <1>2, TypeInit, TypeNext, PackagesNext, PTL DEF Spec

(* A file that is in CKAN stays there, once.                               *)
LEMMA CompleteKept ==
  ASSUME Typed, PackagesInv, NEW w \in Workers, RunGoesOn(w), NEW f \in Files, Complete(f)
  PROVE  Complete(f)'
  <1>1. NameOf[f] \in Names
    BY FilesAssumption
  <1>2. CASE runs[w].pc = "resource" /\ resources' = Uploaded(w) /\ UNCHANGED packages
    <2>1. /\ resources[Name(w)] = <<>>
          /\ \A n \in Names \ {Name(w)} : resources'[n] = resources[n]
      BY <1>2, PackagesFilled
    <2>2. <<f>> # <<>>
      OBVIOUS
    <2> QED BY <1>1, <2>1, <2>2 DEF Complete
  <1>3. CASE UNCHANGED resources
    BY <1>3 DEF Complete
  <1> QED BY <1>2, <1>3, CkanEffect

(* Behind a run that goes on is one more file at most: the one it has just *)
(* uploaded.                                                               *)
LEMMA BehindRun ==
  ASSUME Typed, PackagesInv, AnswersInv, NEW w \in Workers, RunGoesOn(w),
         runs'[w].pc # "finish", NEW t, t = runs[w].task, NEW i \in DOMAIN FilesOf[t],
         i < runs'[w].at \/ runs'[w].pc = "report", NEW f, f = FilesOf[t][i]
  PROVE  Complete(f)'
  <1>1. t \in Tasks /\ Live(w) /\ runs[w].pc # "finish" /\ f \in Files /\ i \in Nat
        /\ runs[w].at \in Nat
    BY GoesOnEffect, FileFacts DEF Typed
  <1>2. i < runs[w].at => Complete(f)
    BY <1>1 DEF AnswersInv
  <1>3. CASE runs'[w].at = runs[w].at /\ runs'[w].pc # "report"
    BY <1>1, <1>2, <1>3, CompleteKept
  <1>4. CASE /\ runs[w].pc = "resource" /\ runs'[w].at = runs[w].at + 1
             /\ resources' = Uploaded(w) /\ UNCHANGED packages
             /\ runs'[w].pc = "report" => runs'[w].at > Len(FilesOf[runs[w].task])
    <2>1. i =< runs[w].at
      BY <1>1, <1>4, FileFacts
    <2>2. CASE i < runs[w].at
      BY <1>1, <1>2, <2>2, CompleteKept
    <2>3. CASE i = runs[w].at
      <3>1. resources'[Name(w)] = <<Current(runs[w])>>
        BY <1>4, PackagesFilled
      <3>2. f = Current(runs[w]) /\ NameOf[f] = Name(w)
        BY <2>3 DEF Current, Name
      <3> QED BY <3>1, <3>2 DEF Complete
    <2> QED BY <1>1, <2>1, <2>2, <2>3
  <1> QED BY <1>3, <1>4, PlaceEffect

(* Answers are in order after every step.                                  *)
LEMMA AnswersNext ==
  ASSUME Typed, PackagesInv, AnswersInv, [Next]_vars
  PROVE  AnswersInv'
  <1>1. ASSUME NEW w \in Workers, RunGoesOn(w) PROVE AnswersInv'
    <2>1. PICK t : t = runs[w].task
      OBVIOUS
    <2>2. /\ t \in Tasks /\ Live(w) /\ UNCHANGED jobs /\ runs'[w].task = t
          /\ \A v \in Workers \ {w} : runs'[v] = runs[v]
          /\ \/ runs'[w].pc # "finish" /\ UNCHANGED answers
             \/ \E answer \in {"DONE", "FAILED"} :
                  /\ answers' = [answers EXCEPT ![t] = @ \union {answer}]
                  /\ answer = "DONE" => runs[w].pc = "report"
      BY <1>1, <2>1, GoesOnEffect
    <2>3. PICK new : /\ answers'[t] = answers[t] \union new
                     /\ \A u \in Tasks \ {t} : answers'[u] = answers[u]
                     /\ "DONE" \in new => runs[w].pc = "report"
                     /\ runs'[w].pc = "finish" => new # {}
      <3>1. answers \in [Tasks -> SUBSET {"DONE", "FAILED"}]
        BY DEF Typed
      <3>2. CASE runs'[w].pc # "finish" /\ UNCHANGED answers
        <4>1. answers'[t] = answers[t] \union {} /\ "DONE" \notin {}
          BY <3>2
        <4> QED BY <3>2, <4>1
      <3>3. ASSUME NEW answer \in {"DONE", "FAILED"},
                   answers' = [answers EXCEPT ![t] = @ \union {answer}],
                   answer = "DONE" => runs[w].pc = "report"
            PROVE  /\ answers'[t] = answers[t] \union {answer}
                   /\ \A u \in Tasks \ {t} : answers'[u] = answers[u]
                   /\ "DONE" \in {answer} => runs[w].pc = "report"
                   /\ {answer} # {}
        BY <2>2, <3>1, <3>3
      <3> QED BY <2>2, <3>2, <3>3
    <2>4. /\ \A u \in Tasks : answers[u] \subseteq answers'[u]
          /\ \A u \in Tasks : "DONE" \in answers'[u] =>
               "DONE" \in answers[u] \/ (u = t /\ runs[w].pc = "report")
          /\ runs'[w].pc = "finish" => answers'[t] # {}
      BY <2>3
    <2>5. \A u \in Tasks, f \in Files : f \in FilesIn(u) => (Complete(f) => Complete(f)')
      BY <1>1, CompleteKept
    <2>6. \A u \in Tasks : FilesIn(u) \subseteq Files
      BY FileFacts DEF FilesIn
    <2>7. DoneIsUploaded'
      <3>1. ASSUME NEW u \in Tasks, "DONE" \in answers'[u], NEW f \in FilesIn(u)
            PROVE  Complete(f)
        <4>1. CASE "DONE" \in answers[u]
          BY <4>1 DEF AnswersInv, DoneIsUploaded, Complete
        <4>2. CASE u = t /\ runs[w].pc = "report"
          <5>1. PICK i \in DOMAIN FilesOf[t] : f = FilesOf[t][i]
            BY <4>2 DEF FilesIn
          <5> QED BY <2>1, <2>2, <4>2, <5>1 DEF AnswersInv
        <4> QED BY <2>4, <3>1, <4>1, <4>2
      <3>2. \A u \in Tasks : "DONE" \in answers'[u] => \A f \in FilesIn(u) : Complete(f)'
        BY <2>5, <2>6, <3>1
      <3> QED BY <3>2 DEF DoneIsUploaded, Complete
    <2>8. ASSUME NEW v \in Workers, Live(v)', runs'[v].pc # "finish",
                 NEW i \in DOMAIN FilesOf[runs'[v].task],
                 i < runs'[v].at \/ runs'[v].pc = "report",
                 NEW f, f = FilesOf[runs'[v].task][i]
          PROVE  resources'[NameOf[f]] = <<f>>
      <3>1. CASE v = w
        <4>1. Complete(f)'
          BY <1>1, <2>1, <2>2, <2>8, <3>1, BehindRun
        <4> QED BY <4>1 DEF Complete
      <3>2. CASE v # w
        <4>1. runs'[v] = runs[v] /\ Live(v)
          BY <2>2, <2>8, <3>2 DEF Live
        <4>2. f \in Files
          BY <2>8, <4>1, FileFacts DEF Typed
        <4>3. Complete(f)
          BY <2>8, <4>1 DEF AnswersInv
        <4>4. Complete(f)'
          BY <1>1, <4>2, <4>3, CompleteKept
        <4> QED BY <4>4 DEF Complete
      <3> QED BY <3>1, <3>2
    <2>9. \A v \in Workers : runs'[v].pc = "finish" => answers'[runs'[v].task] # {}
      <3> SUFFICES ASSUME NEW v \in Workers, runs'[v].pc = "finish"
                   PROVE  answers'[runs'[v].task] # {}
        OBVIOUS
      <3>1. CASE v = w
        BY <2>2, <2>4, <3>1
      <3>2. CASE v # w
        <4>1. runs'[v] = runs[v] /\ runs[v].task \in Tasks /\ answers[runs[v].task] # {}
          BY <2>2, <3>2 DEF AnswersInv, Typed, Live
        <4> QED BY <2>4, <4>1
      <3> QED BY <3>1, <3>2
    <2>10. \A u \in Tasks : jobs'[u] = "done" => answers'[u] # {}
      BY <2>2, <2>4 DEF AnswersInv
    <2> QED BY <2>7, <2>8, <2>9, <2>10 DEF AnswersInv, Complete
  <1>2. ASSUME UNCHANGED resources,
               \A t \in Tasks : answers'[t] = answers[t] \/ answers'[t] = {"FAILED"},
               \A t \in Tasks : jobs'[t] = "done" => answers'[t] # {},
               \A w \in Workers : \/ runs'[w] = runs[w]
                                  \/ runs'[w].pc = "idle"
                                  \/ /\ runs'[w].pc # "finish"
                                     /\ \A i \in DOMAIN FilesOf[runs'[w].task] :
                                          ~(i < runs'[w].at) /\ runs'[w].pc # "report"
        PROVE  AnswersInv'
    <2>1. \A f : Complete(f)' <=> Complete(f)
      BY <1>2 DEF Complete
    <2>2. DoneIsUploaded'
      BY <1>2 DEF AnswersInv, DoneIsUploaded
    <2>3. \A w \in Workers : runs'[w].pc = "finish" =>
            runs'[w] = runs[w] /\ runs[w].task \in Tasks /\ answers[runs[w].task] # {}
      BY <1>2 DEF AnswersInv, Typed, Live
    <2>4. \A w \in Workers : runs'[w].pc = "finish" => answers'[runs'[w].task] # {}
      BY <1>2, <2>3
    <2>5. \A w \in Workers : Live(w)' /\ runs'[w].pc # "finish" =>
            \A i \in DOMAIN FilesOf[runs'[w].task] :
              i < runs'[w].at \/ runs'[w].pc = "report" => Complete(FilesOf[runs'[w].task][i])
      BY <1>2 DEF AnswersInv, Live
    <2> QED BY <1>2, <2>1, <2>2, <2>4, <2>5 DEF AnswersInv, Complete
  <1>3. ASSUME NEW w \in Workers, NEW t \in Tasks, Lock(w, t) PROVE AnswersInv'
    <2>1. /\ runs' = [runs EXCEPT ![w] = At([NoRun EXCEPT !.task = t], 1)]
          /\ jobs' = [jobs EXCEPT ![t] = "locked"] /\ UNCHANGED <<resources, answers>>
      BY <1>3 DEF Lock, ckan
    <2>2. PICK run, next : run = [NoRun EXCEPT !.task = t] /\ next = At(run, 1)
      OBVIOUS
    <2>3. run \in [pc : PCs, task : Tasks \union {None}, at : Nat] /\ run.task = t
      BY <2>2 DEF NoRun, PCs
    <2>4. /\ next.task = t /\ next.at = 1
          /\ next.pc = "group" \/ (next.pc = "report" /\ 1 > Len(FilesOf[t]))
      BY <2>2, <2>3, AtEffect
    <2>5. \A i \in DOMAIN FilesOf[t] : ~(i < 1) /\ next.pc # "report"
      BY <2>4, FileFacts
    <2>6. runs'[w] = next /\ \A v \in Workers \ {w} : runs'[v] = runs[v]
      BY <2>1, <2>2 DEF Typed
    <2>7. \A u \in Tasks : jobs'[u] = "done" => answers'[u] # {}
      BY <2>1 DEF AnswersInv, Typed
    <2> QED BY <1>2, <2>1, <2>4, <2>5, <2>6, <2>7
  <1>4. ASSUME NEW w \in Workers, Finish(w) PROVE AnswersInv'
    <2>1. /\ runs[w].pc = "finish" /\ runs' = [runs EXCEPT ![w] = NoRun]
          /\ jobs' = [jobs EXCEPT ![runs[w].task] = "done"] /\ UNCHANGED <<resources, answers>>
      BY <1>4 DEF Finish, ckan
    <2>2. \A t \in Tasks : jobs'[t] = "done" => answers'[t] # {}
      BY <2>1 DEF AnswersInv, Typed
    <2>3. runs'[w].pc = "idle" /\ \A v \in Workers \ {w} : runs'[v] = runs[v]
      BY <2>1 DEF Typed, NoRun
    <2> QED BY <1>2, <2>1, <2>2, <2>3
  <1>5. CASE Crash
    <2>1. UNCHANGED <<resources, answers, jobs>> /\ \A w \in Workers : runs'[w].pc = "idle"
      BY <1>5 DEF Crash, ckan, NoRun
    <2>2. \A t \in Tasks : jobs'[t] = "done" => answers'[t] # {}
      BY <2>1 DEF AnswersInv
    <2> QED BY <1>2, <2>1, <2>2
  <1>6. ASSUME NEW t \in Tasks, ScheduleTask(t) \/ LockExpires(t) PROVE AnswersInv'
    <2>1. /\ UNCHANGED <<resources, runs>>
          /\ \E job \in {"due", "refused"} : jobs' = [jobs EXCEPT ![t] = job]
          /\ UNCHANGED answers \/ answers' = [answers EXCEPT ![t] = {"FAILED"}]
      BY <1>6 DEF ScheduleTask, LockExpires, ckan
    <2>2. \A u \in Tasks : answers'[u] = answers[u] \/ answers'[u] = {"FAILED"}
      BY <2>1 DEF Typed
    <2>3. \A u \in Tasks : jobs'[u] = "done" => answers'[u] # {}
      BY <2>1, <2>2 DEF AnswersInv, Typed
    <2> QED BY <1>2, <2>1, <2>2, <2>3
  <1>7. CASE (\E f \in Files : DeleteStored(f)) \/ UNCHANGED vars
    <2>1. UNCHANGED <<resources, answers, jobs, runs>>
      BY <1>7 DEF DeleteStored, vars, ckan
    <2> QED BY <1>2, <2>1 DEF AnswersInv
  <1> QED BY <1>1, <1>3, <1>4, <1>5, <1>6, <1>7 DEF Next, RunGoesOn

LEMMA AnswersInit == Init => PackagesInv /\ AnswersInv
  BY DEF Init, PackagesInv, OneResourcePerPackage, Uploading, AnswersInv, DoneIsUploaded,
         Live, NoRun

(* A task that is reported as done has every file of it in CKAN, in the    *)
(* package of its name and once.                                           *)
THEOREM DoneUploaded == Spec => []DoneIsUploaded
  <1>1. AnswersInv => DoneIsUploaded
    BY DEF AnswersInv
  <1> QED BY <1>1, AnswersInit, TypeInit, TypeNext, PackagesNext, AnswersNext, PTL DEF Spec

(* A package that was left without its file is of a task that will still   *)
(* be run or was reported as failed.                                       *)
THEOREM HalfPackageReported == Spec => []HalfPackageIsReported
  <1>1. Typed /\ PackagesInv /\ AnswersInv => HalfPackageIsReported
    <2> SUFFICES ASSUME Typed, PackagesInv, AnswersInv, NEW n \in Names,
                        packages[n] # None, resources[n] = <<>>,
                        jobs[packages[n][1]] = "done"
                 PROVE  "FAILED" \in answers[packages[n][1]]
      BY DEF HalfPackageIsReported
    <2>1. PICK t \in Tasks, f \in Files : packages[n] = <<t, f>>
      BY DEF Typed
    <2>2. f \in FilesIn(t) /\ NameOf[f] = n
      <3>1. packages[n][1] = t /\ packages[n][2] = f
        BY <2>1
      <3> QED BY <3>1 DEF PackagesInv
    <2>3. "DONE" \notin answers[t]
      <3>1. <<f>> # <<>>
        OBVIOUS
      <3> QED BY <2>2, <3>1 DEF AnswersInv, DoneIsUploaded
    <2>4. answers[t] # {} /\ answers[t] \subseteq {"DONE", "FAILED"}
      BY <2>1 DEF AnswersInv, Typed
    <2> QED BY <2>1, <2>3, <2>4
  <1> QED BY <1>1, AnswersInit, TypeInit, TypeNext, PackagesNext, AnswersNext, PTL DEF Spec
------------------------------------------------------------------------------
(* A task whose job is not locked again is in order after every step.      *)
LEMMA OnceNext ==
  ASSUME Typed, OnceInv, [Next]_vars
  PROVE  OnceInv'
  <1>1. ASSUME NEW w \in Workers, RunGoesOn(w) PROVE OnceInv'
    <2>1. PICK t : t = runs[w].task
      OBVIOUS
    <2>2. /\ t \in Tasks /\ Live(w) /\ runs[w].pc # "finish" /\ UNCHANGED <<jobs, repeated>>
          /\ runs'[w].task = t
          /\ \A v \in Workers \ {w} : runs'[v] = runs[v]
          /\ \/ runs'[w].pc # "finish" /\ UNCHANGED answers
             \/ /\ runs'[w].pc = "finish"
                /\ \E answer \in {"DONE", "FAILED"} :
                     answers' = [answers EXCEPT ![t] = @ \union {answer}]
      BY <1>1, <2>1, GoesOnEffect
    <2>3. ASSUME NEW u \in Tasks \ repeated
          PROVE  /\ answers'[u] # {"DONE", "FAILED"}
                 /\ jobs'[u] \in {"new", "due"} => answers'[u] = {}
                 /\ \A v \in Workers : Live(v)' /\ runs'[v].task = u =>
                      /\ jobs'[u] = "locked"
                      /\ runs'[v].pc # "finish" => answers'[u] = {}
                      /\ \A x \in Workers : Live(x)' /\ runs'[x].task = u => x = v
      <3>1. /\ answers[u] # {"DONE", "FAILED"}
            /\ jobs[u] \in {"new", "due"} => answers[u] = {}
            /\ \A v \in Workers : Live(v) /\ runs[v].task = u =>
                 /\ jobs[u] = "locked"
                 /\ runs[v].pc # "finish" => answers[u] = {}
                 /\ \A x \in Workers : Live(x) /\ runs[x].task = u => x = v
        BY DEF OnceInv
      <3>2. \A v \in Workers : Live(v)' /\ runs'[v].task = u => Live(v) /\ runs[v].task = u
        BY <2>1, <2>2 DEF Live
      <3>3. CASE u # t
        <4>1. answers'[u] = answers[u]
          BY <2>2, <3>3 DEF Typed
        <4>2. \A v \in Workers : Live(v)' /\ runs'[v].task = u => runs'[v] = runs[v]
          BY <2>1, <2>2, <3>2, <3>3
        <4> QED BY <2>2, <3>1, <3>2, <4>1, <4>2
      <3>4. CASE u = t
        <4>1. jobs[u] = "locked" /\ answers[u] = {}
              /\ \A v \in Workers : Live(v) /\ runs[v].task = u => v = w
          BY <2>1, <2>2, <3>1, <3>4
        <4>2. /\ answers'[u] # {"DONE", "FAILED"}
              /\ runs'[w].pc # "finish" => answers'[u] = {}
          <5>1. answers \in [Tasks -> SUBSET {"DONE", "FAILED"}]
            BY DEF Typed
          <5> QED BY <2>2, <3>4, <4>1, <5>1
        <4> QED BY <2>2, <3>2, <4>1, <4>2
      <3> QED BY <3>3, <3>4
    <2> QED BY <2>2, <2>3 DEF OnceInv
  <1>2. ASSUME NEW w \in Workers, NEW t \in Tasks, Lock(w, t) PROVE OnceInv'
    <2>1. /\ jobs[t] = "due" /\ jobs' = [jobs EXCEPT ![t] = "locked"]
          /\ runs' = [runs EXCEPT ![w] = At([NoRun EXCEPT !.task = t], 1)]
          /\ UNCHANGED <<answers, repeated>> /\ ~Live(w)
      BY <1>2 DEF Lock
    <2>2. PICK run, next : run = [NoRun EXCEPT !.task = t] /\ next = At(run, 1)
      OBVIOUS
    <2>3. run \in [pc : PCs, task : Tasks \union {None}, at : Nat] /\ run.task = t
      BY <2>2 DEF NoRun, PCs
    <2>4. next.task = t /\ next.pc # "finish"
      BY <2>2, <2>3, AtEffect
    <2>5. runs'[w] = next /\ \A v \in Workers \ {w} : runs'[v] = runs[v]
      BY <2>1, <2>2 DEF Typed
    <2>6. jobs'[t] = "locked" /\ \A u \in Tasks \ {t} : jobs'[u] = jobs[u]
      BY <2>1 DEF Typed
    <2>7. t \notin repeated => answers[t] = {} /\ \A v \in Workers : Live(v) => runs[v].task # t
      BY <2>1 DEF OnceInv
    <2> QED BY <2>1, <2>4, <2>5, <2>6, <2>7 DEF OnceInv, Live
  <1>3. ASSUME NEW w \in Workers, Finish(w) PROVE OnceInv'
    <2>1. /\ Live(w) /\ runs[w].task \in Tasks
          /\ runs' = [runs EXCEPT ![w] = NoRun]
          /\ jobs' = [jobs EXCEPT ![runs[w].task] = "done"] /\ UNCHANGED <<repeated, answers>>
      BY <1>3 DEF Finish, Typed, Live
    <2>2. ~Live(w)' /\ \A v \in Workers \ {w} : runs'[v] = runs[v]
      BY <2>1 DEF Typed, NoRun, Live
    <2>3. jobs'[runs[w].task] = "done" /\ \A u \in Tasks \ {runs[w].task} : jobs'[u] = jobs[u]
      BY <2>1 DEF Typed
    <2> QED BY <2>1, <2>2, <2>3 DEF OnceInv, Live
  <1>4. CASE Crash
    <2>1. UNCHANGED <<answers, jobs, repeated>> /\ \A w \in Workers : ~Live(w)'
      BY <1>4 DEF Crash, ckan, NoRun, Live
    <2> QED BY <2>1 DEF OnceInv
  <1>5. ASSUME NEW t \in Tasks, LockExpires(t) PROVE OnceInv'
    <2>1. /\ jobs' = [jobs EXCEPT ![t] = "due"] /\ repeated' = repeated \union {t}
          /\ UNCHANGED <<runs, answers>>
      BY <1>5 DEF LockExpires
    <2>2. \A u \in Tasks \ {t} : jobs'[u] = jobs[u]
      BY <2>1 DEF Typed
    <2> QED BY <2>1, <2>2 DEF OnceInv, Live
  <1>6. ASSUME NEW t \in Tasks, ScheduleTask(t) PROVE OnceInv'
    <2>1. /\ jobs[t] = "new" /\ UNCHANGED <<runs, repeated>>
          /\ \/ jobs' = [jobs EXCEPT ![t] = "due"] /\ UNCHANGED answers
             \/ /\ jobs' = [jobs EXCEPT ![t] = "refused"]
                /\ answers' = [answers EXCEPT ![t] = {"FAILED"}]
      BY <1>6 DEF ScheduleTask
    <2>2. /\ \A u \in Tasks \ {t} : jobs'[u] = jobs[u] /\ answers'[u] = answers[u]
          /\ \/ jobs'[t] = "due" /\ answers'[t] = answers[t]
             \/ jobs'[t] = "refused" /\ answers'[t] = {"FAILED"}
      BY <2>1 DEF Typed
    <2>3. \A w \in Workers : Live(w) => runs[w].task # t
      BY <2>1 DEF Typed
    <2> QED BY <2>1, <2>2, <2>3 DEF OnceInv, Live
  <1>7. CASE (\E f \in Files : DeleteStored(f)) \/ UNCHANGED vars
    BY <1>7 DEF DeleteStored, vars, OnceInv, Live
  <1> QED BY <1>1, <1>2, <1>3, <1>4, <1>5, <1>6, <1>7 DEF Next, RunGoesOn

(* Only a task whose job was locked again can be reported both as done and *)
(* as failed.                                                              *)
THEOREM OneAnswer == Spec => []OneAnswerUnlessRepeated
  <1>1. Init => OnceInv
    <2> SUFFICES ASSUME Init PROVE OnceInv
      OBVIOUS
    <2>1. \A w \in Workers : ~Live(w)
      BY DEF Init, Live, NoRun
    <2>2. \A t \in Tasks : answers[t] = {}
      BY DEF Init
    <2> QED BY <2>1, <2>2 DEF OnceInv
  <1>2. OnceInv => OneAnswerUnlessRepeated
    BY DEF OnceInv, OneAnswerUnlessRepeated
  <1> QED BY <1>1, <1>2, TypeInit, TypeNext, OnceNext, PTL DEF Spec
=============================================================================
