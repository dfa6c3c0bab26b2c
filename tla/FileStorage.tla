----------------------------- MODULE FileStorage -----------------------------
(***************************************************************************)
(* The object store and everything that writes to it: data-fetch jobs save *)
(* new files in the private bucket, visibility jobs move a file from one   *)
(* bucket to the other, deletion messages remove files where the server    *)
(* believes them to be.  DataFetchJobs keeps only whether a file is        *)
(* stored; this module follows each file to its bucket and path.           *)
(*                                                                         *)
(* src/core/file-storage, src/core/jobs/handlers/                          *)
(* visibilitystate-change-job.handler.ts, runVisibilityStateChangeJob in   *)
(* src/core/jobs/runners/jobs.runner.ts and the file messages in           *)
(* src/core/messages.                                                      *)
(*                                                                         *)
(* A path stands for the folder of one day and a name in it.  Every call   *)
(* of the store is an action of its own, since other actors run between    *)
(* two calls.                                                              *)
(***************************************************************************)
EXTENDS Integers, FiniteSets

CONSTANTS Files,        \* files that data-fetch jobs produce
          Names,        \* names that task messages ask for
          NameOf,       \* NameOf[f]: the name asked for f
          Jobs,         \* bound: visibility jobs that can be scheduled
          Movers,       \* visibility jobs that can run at once
          States,       \* what visibility messages can give as the new state
          None,
          MaxSaves,     \* files that can be on their way to the store at once
          MaxMessages,  \* bound: visibility and deletion messages sent
          MaxCrashes,   \* bound: crashes
          MaxFaults,    \* bound: calls that fail
          MaxOverruns   \* bound: locks that expire under a run

ASSUME NamesAssumption == NameOf \in [Files -> Names]
ASSUME FilesAssumption == IsFiniteSet(Files)
ASSUME LimitsAssumption == /\ MaxSaves \in Nat
                           /\ MaxMessages \in Nat
                           /\ MaxCrashes \in Nat
                           /\ MaxFaults \in Nat
                           /\ MaxOverruns \in Nat

Buckets == {"private", "public"}

(* getFileName: a random UUID before the name, so nobody else's.           *)
Generated(f) == <<f, NameOf[f]>>

Paths == Names \union {Generated(f) : f \in Files}

Location == [bucket : Buckets, path : Paths]

(* None stands for nothing: it is nothing that a field may hold.           *)
ASSUME NoneAssumption == /\ None \notin Files \union Location
                         /\ None \notin States \union {"PRIVATE", "PUBLIC"}

(* A visibility job: the file it is for, where that file was said to be,   *)
(* the state asked for, and what agenda makes of the job.                  *)
VisibilityJob == [file : Files, from : Location, newState : States,
                  status : {"due", "locked", "done"}]

ASSUME NoJobAssumption == None \notin VisibilityJob

VARIABLES
  objects,    \* objects[b][p]: the file at path p of bucket b, or None
  saves,      \* saves[f]: how far saveFileToBucket has come with f
  known,      \* known[f]: where the server was told that f is, or None
  message,    \* the file message being handled
  jobs,       \* jobs[j]: a visibility job, None before it is scheduled
  moves,      \* moves[w]: the run of a visibility job in slot w
  answers,    \* file.result.visibility.state messages sent
  asked,      \* files for which PUBLIC was ever asked
  deleted,    \* files the server asked to be deleted
  disturbed,  \* disturbed[f]: what crossed the handling of f
  budget      \* how much of each bound is left

vars == <<objects, saves, known, message, jobs, moves, answers, asked, deleted,
          disturbed, budget>>

(* What the actions of a save, of the file messages and of a move leave    *)
(* alone.                                                                  *)
besideSaves    == <<message, jobs, moves, answers, asked, deleted>>
besideMessages == <<saves, known, moves, answers>>
besideMoves    == <<saves, message, asked, deleted>>

NoMove    == [pc |-> "idle", job |-> None]
NoMessage == [pc |-> "idle", files |-> {}, locations |-> {}, newState |-> None,
              todo |-> {}]

Live(w) == moves[w].pc # "idle"
JobOf(w) == jobs[moves[w].job]
At(location) == objects[location.bucket][location.path]
Saving(f) == saves[f].pc \in {"stat", "put", "stored"}

(* objects with one path changed.                                          *)
With(location, file) ==
  [objects EXCEPT ![location.bucket][location.path] = file]

Spend(what) ==
  /\ budget[what] > 0
  /\ budget' = [budget EXCEPT ![what] = @ - 1]

(* Marks files with what crossed their handling.                           *)
Disturb(files, how) ==
  disturbed' = [f \in Files |-> IF f \in files THEN disturbed[f] \union how
                                ELSE disturbed[f]]

(* The files at some locations, but for those that are meant.              *)
FilesAt(locations) == {At(l) : l \in locations} \ {None}
Strangers(locations, meant) == FilesAt(locations) \ meant

Init ==
  /\ objects = [b \in Buckets |-> [p \in Paths |-> None]]
  /\ saves = [f \in Files |-> [pc |-> "new", path |-> NameOf[f]]]
  /\ known = [f \in Files |-> None]
  /\ message = NoMessage
  /\ jobs = [j \in Jobs |-> None]
  /\ moves = [w \in Movers |-> NoMove]
  /\ answers = {}
  /\ asked = {}
  /\ deleted = {}
  /\ disturbed = [f \in Files |-> {}]
  /\ budget = [messages |-> MaxMessages, crashes |-> MaxCrashes,
               faults |-> MaxFaults, overruns |-> MaxOverruns]
------------------------------------------------------------------------------
(*                     saveFileToBucket, by a data-fetch run               *)

SaveBegin(f) ==
  /\ saves[f].pc = "new"
  /\ Cardinality({g \in Files : Saving(g)}) < MaxSaves
  /\ saves' = [saves EXCEPT ![f].pc = "stat"]
  /\ UNCHANGED <<besideSaves, objects, known, disturbed, budget>>

(* Mutant: the name is looked up in the public bucket.                     *)
SaveStatPublic(f) ==
  /\ saves[f].pc = "stat"
  /\ saves' = IF objects["public"][saves[f].path] = None
              THEN [saves EXCEPT ![f].pc = "put"]
              ELSE [saves EXCEPT ![f].path = Generated(f)]
  /\ UNCHANGED <<besideSaves, objects, known, disturbed, budget>>

(* isObjectExisting, in the private bucket only: a path that is taken is   *)
(* replaced by a generated one, which is looked up in turn.                *)
SaveStat(f) ==
  /\ saves[f].pc = "stat"
  /\ saves' = IF objects["private"][saves[f].path] = None
              THEN [saves EXCEPT ![f].pc = "put"]
              ELSE [saves EXCEPT ![f].path = Generated(f)]
  /\ UNCHANGED <<besideSaves, objects, known, disturbed, budget>>

(* isObjectExisting takes any error for "not there".                       *)
SaveStatFails(f) ==
  /\ saves[f].pc = "stat"
  /\ Spend("faults")
  /\ saves' = [saves EXCEPT ![f].pc = "put"]
  /\ UNCHANGED <<besideSaves, objects, known, disturbed>>

SavedAt(f) == [bucket |-> "private", path |-> saves[f].path]

Placed(f) ==
  /\ objects' = With(SavedAt(f), f)
  /\ Disturb(Strangers({SavedAt(f)}, {f}), {"clash"})

(* fPutObject replaces what is at the path.                                *)
Put(f) ==
  /\ saves[f].pc = "put"
  /\ Placed(f)
  /\ saves' = [saves EXCEPT ![f].pc = "stored"]
  /\ UNCHANGED <<besideSaves, known, budget>>

(* A put that fails may have put the file all the same.                    *)
PutFails(f) ==
  /\ saves[f].pc = "put"
  /\ Spend("faults")
  /\ Placed(f) \/ UNCHANGED <<objects, disturbed>>
  /\ saves' = [saves EXCEPT ![f].pc = "failed"]
  /\ UNCHANGED <<besideSaves, known>>

(* The result of the data-fetch run tells the server where the file is.    *)
ReportFile(f) ==
  /\ saves[f].pc = "stored"
  /\ saves' = [saves EXCEPT ![f].pc = "told"]
  /\ known' = [known EXCEPT ![f] = SavedAt(f)]
  /\ UNCHANGED <<besideSaves, objects, disturbed, budget>>
------------------------------------------------------------------------------
(*               The queue of file messages, one at a time                 *)

(* Requests about a file that are not done with.                           *)
Pending(f) == \/ f \in message.files
              \/ \E j \in Jobs : jobs[j] # None /\ jobs[j].file = f
                                 /\ jobs[j].status # "done"

(* The server asks for what it knows of, where it was told that it is.     *)
Askable == {f \in Files : known[f] # None /\ f \notin deleted}

AskVisibility(f, state) ==
  /\ message.pc = "idle"
  /\ f \in Askable
  /\ Spend("messages")
  /\ message' = [NoMessage EXCEPT !.pc = "queued", !.files = {f},
                   !.locations = {known[f]}, !.newState = state]
  /\ asked' = IF state = "PUBLIC" THEN asked \union {f} ELSE asked
  /\ Disturb(IF Pending(f) THEN {f} ELSE {}, {"hasty"})
  /\ UNCHANGED <<besideMessages, objects, jobs, deleted>>

(* handleFileDeletionMessage groups the files of the message by bucket.    *)
AskDeletion(files) ==
  LET locations == {known[f] : f \in files}
  IN  /\ message.pc = "idle"
      /\ files # {} /\ files \subseteq Askable
      /\ Spend("messages")
      /\ message' = [NoMessage EXCEPT !.pc = "queued", !.files = files,
                       !.locations = locations,
                       !.todo = {l.bucket : l \in locations}]
      /\ deleted' = deleted \union files
      /\ Disturb({f \in files : Pending(f)}, {"hasty"})
      /\ UNCHANGED <<besideMessages, objects, jobs, asked>>

(* handleFileVisibilityStateMessage schedules a single job that is due.    *)
ScheduleMove(j) ==
  /\ message.pc = "queued" /\ message.newState # None
  /\ jobs[j] = None
  /\ \E f \in message.files, l \in message.locations :
       jobs' = [jobs EXCEPT ![j] = [file |-> f, from |-> l,
                                    newState |-> message.newState, status |-> "due"]]
  /\ message' = [message EXCEPT !.pc = "handled"]
  /\ UNCHANGED <<besideMessages, objects, asked, deleted, disturbed, budget>>

LocationsIn(b) == {l \in message.locations : l.bucket = b}

(* removeObjects for one bucket of a deletion message; a path may hold a   *)
(* file that the message does not mean.                                    *)
Removed(b, locations) ==
  /\ message.pc = "queued" /\ message.newState = None
  /\ b \in message.todo
  /\ objects' = [objects EXCEPT ![b] = [p \in Paths |->
                   IF [bucket |-> b, path |-> p] \in locations THEN None ELSE @[p]]]
  /\ Disturb(Strangers(locations, message.files), {"clash"})
  /\ UNCHANGED <<besideMessages, jobs, asked, deleted>>

(* Mutant: only the first bucket of the message is dealt with.             *)
RemoveFromFirst(b) ==
  /\ Removed(b, LocationsIn(b))
  /\ message' = [message EXCEPT !.todo = {}, !.pc = "handled"]
  /\ UNCHANGED budget

RemoveFrom(b) ==
  /\ Removed(b, LocationsIn(b))
  /\ message' = [message EXCEPT !.todo = @ \ {b},
                   !.pc = IF message.todo = {b} THEN "handled" ELSE @]
  /\ UNCHANGED budget

(* The call fails after it removed some of the objects, or all.            *)
RemoveFails(b) ==
  /\ Spend("faults")
  /\ \E some \in SUBSET LocationsIn(b) : some # {} /\ Removed(b, some)
  /\ message' = [message EXCEPT !.pc = "stalled"]

(* The handler throws: errorHandler only logs, the message is neither      *)
(* acknowledged nor rejected, and the queue stands until a restart.        *)
HandlerFails ==
  /\ message.pc = "queued"
  /\ Spend("faults")
  /\ message' = [message EXCEPT !.pc = "stalled"]
  /\ UNCHANGED <<besideMessages, objects, jobs, asked, deleted, disturbed>>

Acknowledge ==
  /\ message.pc = "handled"
  /\ message' = NoMessage
  /\ UNCHANGED <<besideMessages, objects, jobs, asked, deleted, disturbed, budget>>
------------------------------------------------------------------------------
(*                 A visibility job: moveObject and its answer             *)

(* Mutant: the two states are exchanged.                                   *)
NewBucketSwapped(state) == IF state = "PUBLIC" THEN "private" ELSE "public"

NewBucket(state) == IF state = "PUBLIC" THEN "public" ELSE "private"

(* Mutant: a file is moved to its name and not to its path.                *)
DestinationNamed(job) == [bucket |-> NewBucket(job.newState), path |-> NameOf[job.file]]

Destination(job) == [bucket |-> NewBucket(job.newState), path |-> job.from.path]

(* Agenda locks a due job and starts its run.                              *)
Lock(w, j) ==
  LET others == {v \in Movers : Live(v) /\ JobOf(v).file = jobs[j].file}
  IN  /\ ~Live(w)
      /\ jobs[j] # None /\ jobs[j].status = "due"
      /\ jobs' = [jobs EXCEPT ![j].status = "locked"]
      /\ moves' = [moves EXCEPT ![w] = [pc |-> "stat", job |-> j]]
      /\ Disturb(IF others = {} THEN {} ELSE {jobs[j].file}, {"overlap"})
      /\ UNCHANGED <<besideMoves, objects, known, answers, budget>>

(* The lock of a job expires: of one whose run was killed, or under a run  *)
(* that takes longer than the lock lifetime.                               *)
LockExpires(j) ==
  /\ jobs[j] # None /\ jobs[j].status = "locked"
  /\ IF \E w \in Movers : Live(w) /\ moves[w].job = j
     THEN Spend("overruns") ELSE UNCHANGED budget
  /\ jobs' = [jobs EXCEPT ![j].status = "due"]
  /\ UNCHANGED <<besideMoves, objects, known, moves, answers, disturbed>>

Continue(w, pc) == moves' = [moves EXCEPT ![w].pc = pc]

(* getVisibilityStateNewBucket throws for a state it does not know; the    *)
(* object must be present where the message said.                          *)
MoveStat(w) ==
  /\ moves[w].pc = "stat"
  /\ Continue(w, IF /\ JobOf(w).newState \in {"PRIVATE", "PUBLIC"}
                    /\ At(JobOf(w).from) # None
                 THEN "copy" ELSE "refused")
  /\ UNCHANGED <<besideMoves, objects, known, jobs, answers, disturbed, budget>>

Copied(w) == With(Destination(JobOf(w)), At(JobOf(w).from))

(* copyObject into the bucket of the new state, over what is there.        *)
MoveCopy(w) ==
  LET job == JobOf(w)
      hit == Strangers({job.from, Destination(job)}, {job.file})
  IN  /\ moves[w].pc = "copy"
      /\ job.from # Destination(job)
      /\ At(job.from) # None
      /\ objects' = Copied(w)
      /\ Continue(w, "remove")
      /\ Disturb(IF hit = {} THEN {} ELSE hit \union {job.file}, {"clash"})
      /\ UNCHANGED <<besideMoves, known, jobs, answers, budget>>

(* The store refuses to copy what is no longer there, or an object onto    *)
(* itself.                                                                 *)
MoveRefused(w) ==
  /\ moves[w].pc = "copy"
  /\ JobOf(w).from = Destination(JobOf(w)) \/ At(JobOf(w).from) = None
  /\ Continue(w, "refused")
  /\ UNCHANGED <<besideMoves, objects, known, jobs, answers, disturbed, budget>>

(* removeFilesFromBucket at the old place.                                 *)
MoveRemove(w) ==
  /\ moves[w].pc = "remove"
  /\ objects' = With(JobOf(w).from, None)
  /\ Continue(w, "moved")
  /\ Disturb(Strangers({JobOf(w).from}, {JobOf(w).file}), {"clash"})
  /\ UNCHANGED <<besideMoves, known, jobs, answers, budget>>

(* What a call of a move does to the objects, and the places it touches.   *)
Effect(w) == IF moves[w].pc = "copy" THEN Copied(w) ELSE With(JobOf(w).from, None)
Reached(w) == {JobOf(w).from} \union
              (IF moves[w].pc = "copy" THEN {Destination(JobOf(w))} ELSE {})

(* A call of the store fails without effect: a failed stat is taken for    *)
(* "not there".                                                            *)
FailsBefore(w) ==
  /\ UNCHANGED objects
  /\ Disturb(IF moves[w].pc = "stat" THEN {} ELSE {JobOf(w).file}, {"interrupted"})

(* A call of the store fails after it took effect.                         *)
FailsAfter(w) ==
  LET job == JobOf(w)
      hit == Strangers(Reached(w), {job.file})
  IN  /\ moves[w].pc \in {"copy", "remove"}
      /\ moves[w].pc = "copy" => At(job.from) # None
      /\ objects' = Effect(w)
      /\ Disturb(hit \union {job.file},
                 {"interrupted"} \union (IF hit = {} THEN {} ELSE {"clash"}))

(* Mutant: the copy is not awaited, so its failure does not stop the move. *)
MoveFailsIgnored(w) ==
  /\ moves[w].pc \in {"stat", "copy", "remove"}
  /\ Spend("faults")
  /\ FailsBefore(w) \/ FailsAfter(w)
  /\ Continue(w, IF moves[w].pc = "copy" THEN "remove" ELSE "refused")
  /\ UNCHANGED <<besideMoves, known, jobs, answers>>

MoveFails(w) ==
  /\ moves[w].pc \in {"stat", "copy", "remove"}
  /\ Spend("faults")
  /\ FailsBefore(w) \/ FailsAfter(w)
  /\ Continue(w, "refused")
  /\ UNCHANGED <<besideMoves, known, jobs, answers>>

(* Mutant: a move that failed is not answered.                             *)
AnswerSuccess(w) ==
  LET job == JobOf(w)
  IN  /\ moves[w].pc \in {"moved", "refused"}
      /\ IF moves[w].pc = "moved"
         THEN /\ answers' = answers \union {[job |-> moves[w].job, moved |-> TRUE]}
              /\ known' = [known EXCEPT ![job.file] = Destination(job)]
         ELSE UNCHANGED <<answers, known>>
      /\ Continue(w, "finish")
      /\ UNCHANGED <<besideMoves, objects, jobs, disturbed, budget>>

(* Mutant: the answer gives the bucket the file was moved from.            *)
AnswerOldBucket(w) ==
  LET job == JobOf(w)
      moved == moves[w].pc = "moved"
  IN  /\ moves[w].pc \in {"moved", "refused"}
      /\ answers' = answers \union {[job |-> moves[w].job, moved |-> moved]}
      /\ known' = IF moved THEN [known EXCEPT ![job.file] = job.from] ELSE known
      /\ Continue(w, "finish")
      /\ UNCHANGED <<besideMoves, objects, jobs, disturbed, budget>>

(* Mutant: the answer of a move that failed gives no place for the file.   *)
AnswerNoPlace(w) ==
  LET job == JobOf(w)
      moved == moves[w].pc = "moved"
  IN  /\ moves[w].pc \in {"moved", "refused"}
      /\ answers' = answers \union {[job |-> moves[w].job, moved |-> moved]}
      /\ known' = [known EXCEPT ![job.file] = IF moved THEN Destination(job) ELSE None]
      /\ Continue(w, "finish")
      /\ UNCHANGED <<besideMoves, objects, jobs, disturbed, budget>>

(* runVisibilityStateChangeJob answers either way; a success tells the     *)
(* server where the file is now.                                           *)
Answer(w) ==
  LET job == JobOf(w)
      moved == moves[w].pc = "moved"
  IN  /\ moves[w].pc \in {"moved", "refused"}
      /\ answers' = answers \union {[job |-> moves[w].job, moved |-> moved]}
      /\ known' = IF moved THEN [known EXCEPT ![job.file] = Destination(job)]
                  ELSE known
      /\ Continue(w, "finish")
      /\ UNCHANGED <<besideMoves, objects, jobs, disturbed, budget>>

(* Agenda saves the job as done; its error was swallowed, nothing retries. *)
Finish(w) ==
  /\ moves[w].pc = "finish"
  /\ jobs' = [jobs EXCEPT ![moves[w].job].status = "done"]
  /\ moves' = [moves EXCEPT ![w] = NoMove]
  /\ UNCHANGED <<besideMoves, objects, known, answers, disturbed, budget>>
------------------------------------------------------------------------------
(* The process dies: saves and moves stop where they are, locks stay, and  *)
(* the message that was not acknowledged is delivered again.               *)
Crash ==
  /\ Spend("crashes")
  /\ saves' = [f \in Files |-> IF Saving(f) THEN [saves[f] EXCEPT !.pc = "failed"]
                               ELSE saves[f]]
  /\ Disturb({JobOf(w).file : w \in {v \in Movers : Live(v)}}, {"interrupted"})
  /\ moves' = [w \in Movers |-> NoMove]
  /\ message' = IF message.pc = "idle" THEN message
                ELSE [message EXCEPT !.pc = "queued",
                        !.todo = IF message.newState = None
                                 THEN {l.bucket : l \in message.locations} ELSE {}]
  /\ UNCHANGED <<objects, known, jobs, answers, asked, deleted>>

SaveStep(f) == SaveStat(f) \/ Put(f) \/ ReportFile(f)

MoveStep(w) == \/ MoveStat(w) \/ MoveCopy(w) \/ MoveRefused(w) \/ MoveRemove(w)
               \/ Answer(w) \/ Finish(w)

MessageStep == \/ \E j \in Jobs : ScheduleMove(j)
               \/ \E b \in Buckets : RemoveFrom(b)
               \/ Acknowledge

Next ==
  \/ \E f \in Files : SaveBegin(f)
  \/ \E f \in Files : SaveStat(f)
  \/ \E f \in Files : SaveStatFails(f)
  \/ \E f \in Files : Put(f)
  \/ \E f \in Files : PutFails(f)
  \/ \E f \in Files : ReportFile(f)
  \/ \E f \in Files, state \in States : AskVisibility(f, state)
  \/ \E files \in SUBSET Files : AskDeletion(files)
  \/ \E j \in Jobs : ScheduleMove(j)
  \/ \E b \in Buckets : RemoveFrom(b)
  \/ \E b \in Buckets : RemoveFails(b)
  \/ HandlerFails
  \/ Acknowledge
  \/ \E w \in Movers, j \in Jobs : Lock(w, j)
  \/ \E j \in Jobs : LockExpires(j)
  \/ \E w \in Movers : MoveStat(w)
  \/ \E w \in Movers : MoveCopy(w)
  \/ \E w \in Movers : MoveRefused(w)
  \/ \E w \in Movers : MoveRemove(w)
  \/ \E w \in Movers : MoveFails(w)
  \/ \E w \in Movers : Answer(w)
  \/ \E w \in Movers : Finish(w)
  \/ Crash

Spec == Init /\ [][Next]_vars

(* Node runs what is ready and agenda polls for due jobs and expired       *)
(* locks.  A message that stalled its queue waits for a restart that       *)
(* nothing promises.                                                       *)
Fairness ==
  /\ WF_vars(MessageStep)
  /\ \A f \in Files : WF_vars(SaveStep(f))
  /\ \A w \in Movers : WF_vars(MoveStep(w))
  /\ \A j \in Jobs : /\ WF_vars(\E w \in Movers : Lock(w, j))
                     /\ WF_vars(LockExpires(j))

FairSpec == Spec /\ Fairness
------------------------------------------------------------------------------
(*                             Properties                                  *)

(* The types of the state, and that requests are made only for files the   *)
(* server was told of.                                                     *)
TypeOK ==
  /\ objects \in [Buckets -> [Paths -> Files \union {None}]]
  /\ saves \in [Files -> [pc : {"new", "stat", "put", "stored", "told", "failed"},
                          path : Paths]]
  /\ known \in [Files -> Location \union {None}]
  /\ message \in [pc : {"idle", "queued", "handled", "stalled"},
                  files : SUBSET Files, locations : SUBSET Location,
                  newState : States \union {None}, todo : SUBSET Buckets]
  /\ jobs \in [Jobs -> VisibilityJob \union {None}]
  /\ moves \in [Movers -> [pc : {"idle", "stat", "copy", "remove", "moved",
                                 "refused", "finish"},
                           job : Jobs \union {None}]]
  /\ answers \subseteq [job : Jobs, moved : BOOLEAN]
  /\ asked \subseteq Files
  /\ deleted \subseteq {f \in Files : known[f] # None}
  /\ disturbed \in [Files -> SUBSET {"overlap", "hasty", "interrupted", "clash"}]
  /\ budget \in [messages : Nat, crashes : Nat, faults : Nat, overruns : Nat]
  /\ \A w \in Movers : Live(w) => moves[w].job \in Jobs /\ JobOf(w) # None
  /\ \A j \in Jobs : jobs[j] # None => known[jobs[j].file] # None

Places(f) == {l \in Location : At(l) = f}

Stored(f) == saves[f].pc \in {"stored", "told"}

(* A file that was stored is in some bucket until the server asks for its  *)
(* deletion: moveObject removes the object only after it was copied, so    *)
(* neither a crash between its calls nor a call that fails loses it.  Two  *)
(* runs that move one file at once can lose it, and so can another file    *)
(* that comes to have its path.                                            *)
NoFileLost ==
  \A f \in Files :
    Stored(f) /\ f \notin deleted /\ disturbed[f] \intersect {"overlap", "clash"} = {}
      => Places(f) # {}

(* Between moves a file is where the server was last told that it is, and  *)
(* nowhere else, unless a crash or a failed call cut a move of it short.   *)
LocationIsKnown ==
  \A f \in Files :
    /\ known[f] # None /\ f \notin deleted
    /\ disturbed[f] \intersect {"overlap", "clash", "interrupted"} = {}
    /\ \A w \in Movers : Live(w) /\ JobOf(w).file = f
                           => moves[w].pc \notin {"remove", "moved"}
    => Places(f) = {known[f]}

(* Nobody can read a file in the public bucket for which the server never  *)
(* asked that it be made public, unless the job of another file came upon  *)
(* it at a path that both had.                                             *)
ExposedOnlyOnRequest ==
  \A f \in Files, p \in Paths :
    objects["public"][p] = f /\ "clash" \notin disturbed[f] => f \in asked

(* A file whose deletion was handled is gone from both buckets for good,   *)
(* unless its deletion was asked for while a move of it was not finished   *)
(* or a move of it was cut short.                                          *)
DeletedIsGone ==
  \A f \in deleted :
    disturbed[f] = {} /\ f \notin message.files => Places(f) = {}

(* A file whose handling was crossed; a request that came too early only   *)
(* harms its deletion.                                                     *)
Crossed == {f \in Files : \/ disturbed[f] \intersect {"overlap", "clash", "interrupted"} # {}
                          \/ f \in deleted /\ disturbed[f] # {}}

Custody == INSTANCE FileCustody WITH
  Locations <- Location,
  places    <- [f \in Files |-> Places(f)],
  told      <- known,
  crossed   <- Crossed

(* The store implements FileCustody: its calls, jobs and messages come to  *)
(* no more for a file than being put once, copied before it is removed,    *)
(* told of, and deleted for good.                                          *)
IsCustody == Custody!Spec

(* Every visibility job that was scheduled is answered, moved or not:      *)
(* runVisibilityStateChangeJob answers for a handler that throws, and a    *)
(* run that was killed is repeated when its lock expires.                  *)
EveryMoveAnswered ==
  \A j \in Jobs : jobs[j] # None ~> \E a \in answers : a.job = j

(* saveFileToBucket says "In case file with the same name already exists,  *)
(* generates a new filename": a file is put only where there is none.  The *)
(* look-up and the put are two calls, so this holds as long as one save is *)
(* on its way at a time, no look-up failed and nothing is moved back to    *)
(* the private bucket.                                                     *)
SaveTakesFreePath ==
  [][\A f \in Files : saves[f].pc = "put" /\ saves'[f].pc = "stored"
                        /\ budget.faults = MaxFaults
       => objects["private"][saves[f].path] = None]_vars
=============================================================================
