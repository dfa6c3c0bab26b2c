----------------------------- MODULE ObjectSync -----------------------------
(***************************************************************************)
(* Object-sync jobs report the managed objects of a tenant page by page.   *)
(* Every page is a message of its own that is sent before the next page is *)
(* read, so a run that fails or is killed has told the server part of the  *)
(* objects.  For each object its measurement fragments are looked up, for  *)
(* a group every child is read and looked up.                              *)
(*                                                                         *)
(* src/core/jobs/handlers/object-sync.job.handler.ts, scheduleObjectSyncJob*)
(* in src/core/jobs/jobs.service.ts and runObjectSyncJob in                *)
(* src/core/jobs/runners/jobs.runner.ts, over PagedDownload, whose page    *)
(* handler this is.  The download has no file writer.                      *)
(***************************************************************************)
EXTENDS PagedDownload

CONSTANTS Groups,      \* items that isGroup holds of
          ChildrenOf,  \* ChildrenOf[g]: childAssets of group g
          Fragments,   \* names of measurement fragments
          FragmentsOf, \* FragmentsOf[o]: c8y_SupportedMeasurements of item o
          MaxMishaps   \* bound: calls beside the paging that fail

ASSUME GroupsAssumption == Groups \subseteq Items
ASSUME ChildrenAssumption == ChildrenOf \in [Groups -> SUBSET ToSet(Listing)]
ASSUME FragmentsAssumption == /\ FragmentsOf \in [Items -> SUBSET Fragments]
                              /\ \A o \in Items : IsFiniteSet(FragmentsOf[o])
                              /\ None \notin Fragments
ASSUME MishapsAssumption == MaxMishaps \in Nat

VARIABLES
  job,          \* "new", "due", "running", "answered", "locked" or "ended"
  attempt,      \* runs begun
  todo,         \* the items of the page not yet mapped, with children to read
  members,      \* what the group at the head of todo has got so far
  objects,      \* the entries of the message for the page
  objectAmount, \* entries reported by this run
  unseen,       \* items whose look-up of fragments failed in this run
  reports,      \* the messages with objects, in order
  answers,      \* the messages that ended a run
  mishaps       \* calls that may still fail

run == <<todo, members, objects, objectAmount, unseen>>

syncVars == <<job, attempt, run, reports, answers, mishaps>>

allVars == <<vars, syncVars>>

Mishap == mishaps > 0 /\ mishaps' = mishaps - 1

SyncInit ==
  /\ Init
  /\ job = "new"
  /\ attempt = 0
  /\ todo = <<>>
  /\ members = {}
  /\ objects = {}
  /\ objectAmount = 0
  /\ unseen = {}
  /\ reports = <<>>
  /\ answers = {}
  /\ mishaps = MaxMishaps
------------------------------------------------------------------------------
(*                       The job and its runs                              *)

ScheduleTask ==
  /\ job = "new"
  /\ job' = "due"
  /\ UNCHANGED <<vars, attempt, run, reports, answers, mishaps>>

(* Agenda locks the job; the run finds the user's credentials ...          *)
Start ==
  /\ job = "due"
  /\ job' = "running"
  /\ attempt' = attempt + 1
  /\ UNCHANGED <<vars, run, reports, answers, mishaps>>

Tell(status) ==
  answers' = answers \union
    {[status |-> status, attempt |-> attempt', objectAmount |-> objectAmount]}

(* ... or it does not, and the handler throws.                             *)
StartFails ==
  /\ job = "due"
  /\ Mishap
  /\ job' = "answered"
  /\ attempt' = attempt + 1
  /\ Tell("FAILED")
  /\ UNCHANGED <<vars, run, reports>>

(* Mutant: a run that failed says nothing.                                 *)
AnswerDone ==
  /\ job = "running"
  /\ pc \in {"done", "failed"}
  /\ job' = "answered"
  /\ UNCHANGED attempt
  /\ IF pc = "done" THEN Tell("DONE") ELSE UNCHANGED answers
  /\ UNCHANGED <<vars, run, reports, mishaps>>

(* runObjectSyncJob sends the amount, withTaskStatusHandler what was       *)
(* thrown.                                                                 *)
Answer ==
  /\ job = "running"
  /\ pc \in {"done", "failed"}
  /\ job' = "answered"
  /\ UNCHANGED attempt
  /\ Tell(IF pc = "done" THEN "DONE" ELSE "FAILED")
  /\ UNCHANGED <<vars, run, reports, mishaps>>

(* Agenda saves the job.                                                   *)
Finish ==
  /\ job = "answered"
  /\ job' = "ended"
  /\ UNCHANGED <<vars, attempt, run, reports, answers, mishaps>>

(* The process is killed: what was collected is lost, what was sent stays. *)
Crash ==
  /\ job \in {"running", "answered"}
  /\ Kill
  /\ job' = "locked"
  /\ todo' = <<>>
  /\ members' = {}
  /\ objects' = {}
  /\ objectAmount' = 0
  /\ unseen' = {}
  /\ UNCHANGED <<attempt, reports, answers, mishaps>>

LockExpires ==
  /\ job = "locked"
  /\ job' = "due"
  /\ UNCHANGED <<vars, attempt, run, reports, answers, mishaps>>
------------------------------------------------------------------------------
(*                       handlePageResult                                  *)

(* The references to its children come with the group.                     *)
Item(o) == [object   |-> o,
            children |-> IF o \in Groups THEN ChildrenOf[o] \ gone ELSE {}]

ReadPage ==
  /\ job = "running"
  /\ FetchPage
  /\ todo' = [i \in DOMAIN page'.data |-> Item(page'.data[i])]
  /\ UNCHANGED <<job, attempt, members, objects, objectAmount, unseen, reports,
                 answers, mishaps>>

ReadFails ==
  /\ job = "running"
  /\ UndefinedPage \/ FetchFails
  /\ UNCHANGED syncVars

(* fetchManagedObjectMeasurementFragments: a look-up that fails, or one of *)
(* an object that is gone, has no fragments and nothing else notices.      *)
LookUp(o, found) ==
  \/ /\ found = IF o \in gone THEN {} ELSE FragmentsOf[o]
     /\ UNCHANGED <<unseen, mishaps>>
  \/ /\ found = {}
     /\ Mishap
     /\ unseen' = unseen \union {o}

Sensor(o, fragment) == [object |-> o, fragment |-> fragment, members |-> {}]
Group(o, content)   == [object |-> o, fragment |-> None, members |-> content]

(* An object that is no group: a sensor for each of its fragments.         *)
MapSensors ==
  /\ pc = "handle" /\ todo # <<>>
  /\ LET o == Head(todo).object
     IN  /\ o \notin Groups
         /\ \E found \in {{}, FragmentsOf[o]} :
              /\ LookUp(o, found)
              /\ objects' = objects \union {Sensor(o, f) : f \in found}
  /\ todo' = Tail(todo)
  /\ UNCHANGED <<vars, job, attempt, members, objectAmount, reports, answers>>

(* A child of the group: its details, its fragments, and an entry without  *)
(* content if it is a group itself.                                        *)
MapChild ==
  /\ pc = "handle" /\ todo # <<>>
  /\ \E c \in Head(todo).children :
       /\ c \notin gone
       /\ \E found \in {{}, FragmentsOf[c]} :
            /\ LookUp(c, found)
            /\ members' = members \union {<<c, f>> : f \in found}
                            \union (IF c \in Groups THEN {<<c, None>>} ELSE {})
       /\ todo' = [todo EXCEPT ![1].children = @ \ {c}]
  /\ UNCHANGED <<vars, job, attempt, objects, objectAmount, reports, answers>>

(* Mutant: a child that cannot be read is left out.                        *)
ChildSkipped ==
  /\ pc = "handle" /\ todo # <<>>
  /\ \E c \in Head(todo).children :
       /\ IF c \in gone THEN UNCHANGED mishaps ELSE Mishap
       /\ todo' = [todo EXCEPT ![1].children = @ \ {c}]
  /\ UNCHANGED <<vars, job, attempt, members, objects, objectAmount, unseen, reports,
                 answers>>

(* The details of a child cannot be read - a failing call, or the child is *)
(* gone: the whole run fails.                                              *)
ChildFails ==
  /\ pc = "handle" /\ todo # <<>>
  /\ \E c \in Head(todo).children : IF c \in gone THEN UNCHANGED mishaps ELSE Mishap
  /\ HandleFails
  /\ UNCHANGED <<job, attempt, run, reports, answers>>

MapGroup ==
  /\ pc = "handle" /\ todo # <<>>
  /\ LET item == Head(todo)
     IN  /\ item.object \in Groups /\ item.children = {}
         /\ objects' = objects \union {Group(item.object, members)}
  /\ members' = {}
  /\ todo' = Tail(todo)
  /\ UNCHANGED <<vars, job, attempt, objectAmount, unseen, reports, answers, mishaps>>

Reported == IF objects = {} THEN reports
            ELSE Append(reports, [attempt |-> attempt, objects |-> objects])

(* Mutant: the amount is that of the items of the page.                    *)
SendPageItems ==
  /\ todo = <<>>
  /\ HandlePage
  /\ reports' = Reported
  /\ objectAmount' = objectAmount + Len(page.data)
  /\ objects' = {}
  /\ UNCHANGED <<job, attempt, todo, members, unseen, answers, mishaps>>

(* A page with entries is reported, and its entries are counted.           *)
SendPage ==
  /\ todo = <<>>
  /\ HandlePage
  /\ reports' = Reported
  /\ objectAmount' = objectAmount + Cardinality(objects)
  /\ objects' = {}
  /\ UNCHANGED <<job, attempt, todo, members, unseen, answers, mishaps>>

EndLoop ==
  /\ job = "running"
  /\ Close
  /\ UNCHANGED syncVars
------------------------------------------------------------------------------
ListingChanges ==
  /\ ItemAdded \/ ItemRemoved
  /\ job = "running"
  /\ UNCHANGED syncVars

RunStep == \/ Start \/ ReadPage \/ MapSensors \/ MapChild \/ MapGroup
           \/ ChildFails \/ SendPage \/ EndLoop \/ Answer \/ Finish

SyncNext ==
  \/ ScheduleTask
  \/ Start
  \/ StartFails
  \/ ReadPage
  \/ ReadFails
  \/ MapSensors
  \/ MapChild
  \/ ChildFails
  \/ MapGroup
  \/ SendPage
  \/ EndLoop
  \/ Answer
  \/ Finish
  \/ Crash
  \/ LockExpires
  \/ ListingChanges

SyncSpec == SyncInit /\ [][SyncNext]_allVars

(* Node runs what is ready and agenda polls for due jobs and expired locks.*)
SyncFairSpec == SyncSpec /\ WF_allVars(RunStep) /\ WF_allVars(LockExpires)
------------------------------------------------------------------------------
(*                             Properties                                  *)

Contents == SUBSET (Items \X (Fragments \union {None}))

Entry == [object : Items, fragment : Fragments \union {None}, members : Contents]

(* The types of the state, and that a run counts and collects from nothing *)
(* and holds entries only of the page it is at.                            *)
SyncTypeOK ==
  /\ TypeOK
  /\ job \in {"new", "due", "running", "answered", "locked", "ended"}
  /\ attempt \in Nat
  /\ todo \in Seq([object : Items, children : SUBSET Items])
  /\ members \in Contents
  /\ objects \subseteq Entry
  /\ objectAmount \in Nat
  /\ unseen \subseteq Items
  /\ reports \in Seq([attempt : 1..attempt, objects : SUBSET Entry])
  /\ \A a \in answers : a.status \in {"DONE", "FAILED"} /\ a.attempt \in 1..attempt
  /\ mishaps \in Nat
  /\ page = None /\ ~truncated => objectAmount = 0 /\ objects = {}

ReportsOf(n) == {i \in DOMAIN reports : reports[i].attempt = n}
Entries(n)   == UNION {reports[i].objects : i \in ReportsOf(n)}

(* The amount that DONE gives is the number of entries in the messages of  *)
(* that run, whatever earlier runs have sent before they were killed.      *)
AmountIsReported ==
  \A a \in answers : a.status = "DONE" =>
    a.objectAmount = MapThenSumSet(LAMBDA i : Cardinality(reports[i].objects),
                                   ReportsOf(a.attempt))

(* An object as it was reported by the run: a device with the fragments it *)
(* supports, a group with its children and theirs.                         *)
WhollyReported(o) ==
  IF o \in Groups
  THEN \E e \in Entries(attempt) :
         /\ e.object = o /\ e.fragment = None
         /\ \A c \in ChildrenOf[o] \ gone :
              /\ c \in Groups => <<c, None>> \in e.members
              /\ c \notin unseen => {<<c, f>> : f \in FragmentsOf[c]} \subseteq e.members
  ELSE o \notin unseen => {Sensor(o, f) : f \in FragmentsOf[o]} \subseteq Entries(attempt)

(* When a run is done, it reported every object that was listed when it    *)
(* began and is not gone, a device with all its fragments and a group with *)
(* all of its children, but for at most as many as were removed meanwhile. *)
(* Left out are look-ups of fragments that failed, and runs for which a    *)
(* page came back undefined.                                               *)
SyncIsComplete ==
  pc = "done" /\ ~truncated /\ pageCounter < MaxPages
    => Cardinality({o \in first \ gone : ~WhollyReported(o)}) =< shifted.removed

(* Every scheduled sync is answered: the listing cannot grow for ever, and *)
(* a run that was killed is repeated when its lock expires.                *)
EverySyncAnswered == job = "due" ~> answers # {}
=============================================================================
