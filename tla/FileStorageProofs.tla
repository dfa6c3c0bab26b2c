-------------------------- MODULE FileStorageProofs --------------------------
(***************************************************************************)
(* Proofs about FileStorage, for any files, names, jobs and bounds: where  *)
(* a stored file can be and who can read it, through saves, moves and      *)
(* deletions that interleave call by call, fail, crash and meet at a path. *)
(***************************************************************************)
EXTENDS FileStorage, FiniteSetTheorems, TLAPS

Marks == {"overlap", "hasty", "interrupted", "clash"}
MovePCs == {"idle", "stat", "copy", "remove", "moved", "refused", "finish"}

(* What a message and a job ask for, and of which files.                   *)
RequestsInv ==
  /\ \A f \in message.files : known[f] # None
  /\ message.pc = "idle" => message.files = {}
  /\ message.newState = None => message.files \subseteq deleted
  /\ message.newState # None => message.files \intersect deleted = {}
  /\ message.newState = "PUBLIC" => message.files \subseteq asked
  /\ message.newState = None /\ message.pc = "handled" => message.todo = {}
  /\ \A j \in Jobs : jobs[j] # None /\ jobs[j].newState = "PUBLIC"
                       => jobs[j].file \in asked

LEMMA StateFacts ==
  /\ None \notin Files /\ None \notin States /\ None \notin Location
  /\ None \notin VisibilityJob /\ None \notin {"PRIVATE", "PUBLIC"}
  BY NoneAssumption, NoJobAssumption

LEMMA TypeInit == Init => TypeOK /\ RequestsInv
  <1> SUFFICES ASSUME Init PROVE TypeOK /\ RequestsInv
    OBVIOUS
  <1>1. \A f \in Files : NameOf[f] \in Paths
    BY NamesAssumption DEF Paths
  <1>2. /\ objects \in [Buckets -> [Paths -> Files \union {None}]]
        /\ saves \in [Files -> [pc : {"new", "stat", "put", "stored", "told", "failed"},
                                path : Paths]]
        /\ known \in [Files -> Location \union {None}]
        /\ jobs \in [Jobs -> VisibilityJob \union {None}]
    BY <1>1 DEF Init
  <1>3. /\ message \in [pc : {"idle", "queued", "handled", "stalled"},
                  files : SUBSET Files, locations : SUBSET Location,
                  newState : States \union {None}, todo : SUBSET Buckets]
        /\ message.pc = "idle" /\ message.files = {}
    BY DEF Init, NoMessage
  <1>4. /\ moves \in [Movers -> [pc : MovePCs, job : Jobs \union {None}]]
        /\ \A w \in Movers : ~Live(w)
    BY DEF Init, NoMove, Live, MovePCs
  <1>5. /\ disturbed \in [Files -> SUBSET Marks]
        /\ budget \in [messages : Nat, crashes : Nat, faults : Nat, overruns : Nat]
        /\ answers = {} /\ asked = {} /\ deleted = {}
    BY LimitsAssumption DEF Init
  <1>6. \A j \in Jobs : jobs[j] = None
    BY DEF Init
  <1>7. TypeOK
    BY <1>2, <1>3, <1>4, <1>5, <1>6 DEF TypeOK, Marks, MovePCs
  <1>8. RequestsInv
    BY <1>3, <1>5, <1>6, StateFacts DEF RequestsInv
  <1> QED BY <1>7, <1>8

(* A mark is kept.                                                         *)
LEMMA DisturbType ==
  ASSUME TypeOK, NEW files, NEW how \in SUBSET Marks, Disturb(files, how)
  PROVE  /\ disturbed' \in [Files -> SUBSET Marks]
         /\ \A f \in Files : disturbed[f] \subseteq disturbed'[f]
         /\ \A f \in files \intersect Files : how \subseteq disturbed'[f]
         /\ \A f \in Files \ files : disturbed'[f] = disturbed[f]
  BY DEF TypeOK, Disturb, Marks

LEMMA SpendType ==
  ASSUME TypeOK, NEW what \in {"messages", "crashes", "faults", "overruns"}, Spend(what)
  PROVE  budget' \in [messages : Nat, crashes : Nat, faults : Nat, overruns : Nat]
  BY DEF TypeOK, Spend


SaveSteps(f) == \/ SaveBegin(f) \/ SaveStat(f) \/ SaveStatFails(f) \/ Put(f)
                \/ PutFails(f) \/ ReportFile(f)

RemoveSteps(b) == RemoveFrom(b) \/ RemoveFails(b)

MoveSteps(w) == \/ MoveStat(w) \/ MoveCopy(w) \/ MoveRefused(w) \/ MoveRemove(w)
                \/ MoveFails(w) \/ Answer(w) \/ Finish(w)

(* The objects and their places.                                           *)
LEMMA ObjectTypes ==
  ASSUME TypeOK
  PROVE  /\ \A l \in Location : /\ l.bucket \in Buckets /\ l.path \in Paths
                                /\ At(l) \in Files \union {None}
         /\ \A l \in Location, f \in Files \union {None} :
              With(l, f) \in [Buckets -> [Paths -> Files \union {None}]]
         /\ \A f \in Files : SavedAt(f) \in Location
  BY DEF TypeOK, Location, At, With, SavedAt, Buckets

(* A run in progress, and where it moves its file to.                      *)
LEMMA RunTypes ==
  ASSUME TypeOK, NEW w \in Movers, Live(w)
  PROVE  /\ moves[w].job \in Jobs /\ JobOf(w) \in VisibilityJob
         /\ JobOf(w) = jobs[moves[w].job]
         /\ JobOf(w).file \in Files /\ JobOf(w).from \in Location
         /\ JobOf(w).newState \in States
         /\ Destination(JobOf(w)) \in Location
         /\ known[JobOf(w).file] # None
  <1>1. moves[w].job \in Jobs /\ JobOf(w) \in VisibilityJob
    BY DEF TypeOK, JobOf
  <1>2. JobOf(w).file \in Files /\ JobOf(w).from \in Location /\ JobOf(w).newState \in States
    BY <1>1 DEF VisibilityJob
  <1>3. Destination(JobOf(w)) \in Location
    BY <1>2 DEF Destination, NewBucket, Location, Buckets
  <1>4. JobOf(w).from \in Location /\ known[JobOf(w).file] # None
    BY <1>1, <1>2, StateFacts DEF TypeOK, JobOf
  <1> QED BY <1>1, <1>2, <1>3, <1>4 DEF JobOf

(* A job of which only the status changes.                                 *)
LEMMA StatusEffect ==
  ASSUME TypeOK, NEW j \in Jobs, jobs[j] \in VisibilityJob,
         NEW status \in {"due", "locked", "done"}, jobs' = [jobs EXCEPT ![j].status = status]
  PROVE  /\ jobs' \in [Jobs -> VisibilityJob \union {None}]
         /\ jobs'[j] # None /\ jobs[j] # None
         /\ jobs'[j].file = jobs[j].file /\ jobs'[j].from = jobs[j].from
         /\ jobs'[j].newState = jobs[j].newState /\ jobs'[j].status = status
         /\ \A i \in Jobs \ {j} : jobs'[i] = jobs[i]
  <1>1. [jobs[j] EXCEPT !.status = status] \in VisibilityJob
    BY DEF VisibilityJob
  <1>2. jobs'[j] = [jobs[j] EXCEPT !.status = status]
    BY DEF TypeOK
  <1>3. /\ jobs'[j].file = jobs[j].file /\ jobs'[j].from = jobs[j].from
        /\ jobs'[j].newState = jobs[j].newState /\ jobs'[j].status = status
    BY <1>2 DEF VisibilityJob
  <1> QED BY <1>1, <1>2, <1>3, StateFacts DEF TypeOK

LEMMA SaveTypes ==
  ASSUME TypeOK, NEW f \in Files, SaveSteps(f)
  PROVE  /\ objects' \in [Buckets -> [Paths -> Files \union {None}]]
         /\ saves' \in [Files -> [pc : {"new", "stat", "put", "stored", "told", "failed"},
                                  path : Paths]]
         /\ known' \in [Files -> Location \union {None}]
         /\ \A g \in Files : known[g] # None => known'[g] # None
         /\ disturbed' \in [Files -> SUBSET Marks]
         /\ budget' \in [messages : Nat, crashes : Nat, faults : Nat, overruns : Nat]
         /\ UNCHANGED besideSaves
  <1>1. UNCHANGED besideSaves
    BY DEF SaveSteps, SaveBegin, SaveStat, SaveStatFails, Put, PutFails, ReportFile
  <1>2. saves' \in [Files -> [pc : {"new", "stat", "put", "stored", "told", "failed"},
                             path : Paths]]
    <2>1. CASE SaveStat(f)
      <3>1. Generated(f) \in Paths
        BY DEF Paths
      <3> QED BY <2>1, <3>1 DEF SaveStat, TypeOK
    <2>2. CASE \/ SaveBegin(f) \/ SaveStatFails(f) \/ Put(f) \/ PutFails(f) \/ ReportFile(f)
      <3>1. PICK pc \in {"stat", "put", "stored", "told", "failed"} :
              saves' = [saves EXCEPT ![f].pc = pc]
        BY <2>2 DEF SaveBegin, SaveStatFails, Put, PutFails, ReportFile
      <3> QED BY <3>1 DEF TypeOK
    <2> QED BY <2>1, <2>2 DEF SaveSteps
  <1>3. /\ objects' \in [Buckets -> [Paths -> Files \union {None}]]
        /\ disturbed' \in [Files -> SUBSET Marks]
    <2>1. CASE Placed(f)
      BY <2>1, ObjectTypes, DisturbType DEF Placed, Marks
    <2>2. CASE UNCHANGED <<objects, disturbed>>
      BY <2>2 DEF TypeOK, Marks
    <2> QED
      BY <2>1, <2>2 DEF SaveSteps, SaveBegin, SaveStat, SaveStatFails, Put, PutFails, ReportFile
  <1>4. /\ known' \in [Files -> Location \union {None}]
        /\ \A g \in Files : known[g] # None => known'[g] # None
    <2>1. CASE UNCHANGED known
      BY <2>1 DEF TypeOK
    <2>2. CASE ReportFile(f)
      BY <2>2, ObjectTypes, StateFacts DEF ReportFile, TypeOK
    <2> QED
      BY <2>1, <2>2 DEF SaveSteps, SaveBegin, SaveStat, SaveStatFails, Put, PutFails
  <1>5. budget' \in [messages : Nat, crashes : Nat, faults : Nat, overruns : Nat]
    BY SpendType
       DEF SaveSteps, SaveBegin, SaveStat, SaveStatFails, Put, PutFails, ReportFile, TypeOK
  <1> QED BY <1>1, <1>2, <1>3, <1>4, <1>5

LEMMA MoveTypes ==
  ASSUME TypeOK, NEW w \in Movers, MoveSteps(w)
  PROVE  /\ Live(w)
         /\ objects' \in [Buckets -> [Paths -> Files \union {None}]]
         /\ known' \in [Files -> Location \union {None}]
         /\ \A g \in Files : known[g] # None => known'[g] # None
         /\ jobs' \in [Jobs -> VisibilityJob \union {None}]
         /\ \A j \in Jobs : jobs[j] # None
              => /\ jobs'[j] # None /\ jobs'[j].file = jobs[j].file
                 /\ jobs'[j].from = jobs[j].from /\ jobs'[j].newState = jobs[j].newState
         /\ \A j \in Jobs : jobs[j] = None => jobs'[j] = None
         /\ moves' \in [Movers -> [pc : MovePCs, job : Jobs \union {None}]]
         /\ moves'[w].pc # "idle" => moves'[w].job = moves[w].job
         /\ \A v \in Movers \ {w} : moves'[v] = moves[v]
         /\ answers' \subseteq [job : Jobs, moved : BOOLEAN]
         /\ disturbed' \in [Files -> SUBSET Marks]
         /\ budget' \in [messages : Nat, crashes : Nat, faults : Nat, overruns : Nat]
         /\ UNCHANGED besideMoves
  <1>1. Live(w) /\ UNCHANGED besideMoves
    BY DEF MoveSteps, MoveStat, MoveCopy, MoveRefused, MoveRemove, MoveFails, Answer, Finish, Live
  <1>2. /\ moves' \in [Movers -> [pc : MovePCs, job : Jobs \union {None}]]
        /\ moves'[w].pc # "idle" => moves'[w].job = moves[w].job
        /\ \A v \in Movers \ {w} : moves'[v] = moves[v]
    <2>1. CASE Finish(w)
      BY <2>1 DEF Finish, TypeOK, NoMove, MovePCs
    <2>2. CASE ~Finish(w)
      <3>1. PICK pc \in MovePCs : Continue(w, pc)
        BY <2>2 DEF MoveSteps, MoveStat, MoveCopy, MoveRefused, MoveRemove, MoveFails, Answer,
           MovePCs
      <3> QED BY <3>1 DEF Continue, TypeOK, MovePCs
    <2> QED BY <2>1, <2>2
  <1>3. objects' \in [Buckets -> [Paths -> Files \union {None}]]
    BY <1>1, RunTypes, ObjectTypes
       DEF MoveSteps, MoveStat, MoveCopy, MoveRefused, MoveRemove, MoveFails, Answer, Finish,
           TypeOK, FailsBefore, FailsAfter, Effect, Copied
  <1>4. disturbed' \in [Files -> SUBSET Marks]
    <2>1. CASE UNCHANGED disturbed
      BY <2>1 DEF TypeOK, Marks
    <2>2. CASE MoveCopy(w) \/ MoveRemove(w)
      <3>1. PICK files : Disturb(files, {"clash"})
        BY <2>2 DEF MoveCopy, MoveRemove
      <3> QED BY <3>1, DisturbType DEF Marks
    <2>3. CASE FailsBefore(w)
      BY <2>3, DisturbType DEF FailsBefore, Marks
    <2>4. CASE FailsAfter(w)
      <3>1. PICK files, how : how \in SUBSET Marks /\ Disturb(files, how)
        <4>1. \A b \in BOOLEAN :
                {"interrupted"} \union (IF b THEN {} ELSE {"clash"}) \in SUBSET Marks
          BY DEF Marks
        <4> QED BY <2>4, <4>1 DEF FailsAfter
      <3> QED BY <3>1, DisturbType
    <2> QED
      BY <2>1, <2>2, <2>3, <2>4 DEF MoveSteps, MoveStat, MoveRefused, MoveFails, Answer, Finish
  <1>5. /\ known' \in [Files -> Location \union {None}]
        /\ \A g \in Files : known[g] # None => known'[g] # None
    <2>1. CASE UNCHANGED known
      BY <2>1 DEF TypeOK
    <2>2. CASE Answer(w)
      BY <1>1, <2>2, RunTypes, StateFacts DEF Answer, TypeOK
    <2> QED
      BY <2>1, <2>2
         DEF MoveSteps, MoveStat, MoveCopy, MoveRefused, MoveRemove, MoveFails, Finish
  <1>6. /\ jobs' \in [Jobs -> VisibilityJob \union {None}]
        /\ \A j \in Jobs : jobs[j] # None
             => /\ jobs'[j] # None /\ jobs'[j].file = jobs[j].file
                /\ jobs'[j].from = jobs[j].from /\ jobs'[j].newState = jobs[j].newState
        /\ \A j \in Jobs : jobs[j] = None => jobs'[j] = None
    <2>1. CASE UNCHANGED jobs
      BY <2>1 DEF TypeOK
    <2>2. CASE Finish(w)
      <3>1. PICK j \in Jobs : j = moves[w].job
        BY <1>1, RunTypes
      <3>2. jobs[j] \in VisibilityJob /\ jobs' = [jobs EXCEPT ![j].status = "done"]
        BY <2>2, <1>1, <3>1, RunTypes DEF Finish
      <3> QED BY <3>2, StatusEffect
    <2> QED BY <2>1, <2>2
      DEF MoveSteps, MoveStat, MoveCopy, MoveRefused, MoveRemove, MoveFails, Answer, Finish
  <1>7. answers' \subseteq [job : Jobs, moved : BOOLEAN]
    <2>1. CASE UNCHANGED answers
      BY <2>1 DEF TypeOK
    <2>2. CASE Answer(w)
      <3>1. [job |-> moves[w].job, moved |-> (moves[w].pc = "moved")]
              \in [job : Jobs, moved : BOOLEAN]
        BY <1>1, RunTypes
      <3> QED BY <2>2, <3>1 DEF Answer, TypeOK
    <2> QED
      BY <2>1, <2>2
         DEF MoveSteps, MoveStat, MoveCopy, MoveRefused, MoveRemove, MoveFails, Finish
  <1>8. budget' \in [messages : Nat, crashes : Nat, faults : Nat, overruns : Nat]
    BY SpendType
       DEF MoveSteps, MoveStat, MoveCopy, MoveRefused, MoveRemove, MoveFails, Answer, Finish,
           TypeOK
  <1> QED BY <1>1, <1>2, <1>3, <1>4, <1>5, <1>6, <1>7, <1>8


Message == [pc : {"idle", "queued", "handled", "stalled"},
            files : SUBSET Files, locations : SUBSET Location,
            newState : States \union {None}, todo : SUBSET Buckets]

(* A request for a file: what its message says.                            *)
LEMMA AskVisibilityEffect ==
  ASSUME TypeOK, RequestsInv, NEW f \in Files, NEW state \in States, AskVisibility(f, state)
  PROVE  /\ message' \in Message /\ message'.pc = "queued"
         /\ message'.files = {f} /\ message'.newState = state /\ message'.locations = {known[f]}
         /\ state # None /\ known[f] # None /\ f \notin deleted
         /\ UNCHANGED <<objects, saves, known, jobs, moves, answers, deleted>>
         /\ disturbed' \in [Files -> SUBSET Marks]
         /\ asked \subseteq asked' /\ (state = "PUBLIC" => f \in asked') /\ asked' \subseteq Files
         /\ budget' \in [messages : Nat, crashes : Nat, faults : Nat, overruns : Nat]
  <1>1. f \in Askable /\ known[f] # None /\ f \notin deleted /\ known[f] \in Location
    BY DEF AskVisibility, Askable, TypeOK
  <1>2. /\ message' \in Message /\ message'.pc = "queued"
        /\ message'.files = {f} /\ message'.newState = state /\ message'.locations = {known[f]}
    BY <1>1 DEF AskVisibility, NoMessage, Message
  <1>3. disturbed' \in [Files -> SUBSET Marks]
    BY DisturbType DEF AskVisibility, Marks
  <1>4. budget' \in [messages : Nat, crashes : Nat, faults : Nat, overruns : Nat]
    BY SpendType DEF AskVisibility
  <1>5. asked \subseteq asked' /\ (state = "PUBLIC" => f \in asked') /\ asked' \subseteq Files
    BY DEF AskVisibility, TypeOK
  <1>6. UNCHANGED <<objects, saves, known, jobs, moves, answers, deleted>>
    BY DEF AskVisibility, besideMessages
  <1> QED BY <1>1, <1>2, <1>3, <1>4, <1>5, <1>6, StateFacts

LEMMA AskDeletionEffect ==
  ASSUME TypeOK, RequestsInv, NEW files \in SUBSET Files, AskDeletion(files)
  PROVE  /\ message' \in Message /\ message'.pc = "queued"
         /\ message'.files = files /\ message'.newState = None
         /\ message'.locations = {known[f] : f \in files}
         /\ message'.todo = {l.bucket : l \in {known[f] : f \in files}}
         /\ \A f \in files : known[f] \in Location /\ f \notin deleted
         /\ deleted' = deleted \union files
         /\ \A f \in files : disturbed'[f] = {}
              => \A j \in Jobs : jobs[j] # None /\ jobs[j].file = f => jobs[j].status = "done"
         /\ UNCHANGED <<objects, saves, known, jobs, moves, answers, asked>>
         /\ disturbed' \in [Files -> SUBSET Marks]
         /\ \A f \in Files : disturbed[f] \subseteq disturbed'[f]
         /\ budget' \in [messages : Nat, crashes : Nat, faults : Nat, overruns : Nat]
  <1>1. \A f \in files : known[f] \in Location /\ f \notin deleted /\ known[f] # None
    BY DEF AskDeletion, Askable, TypeOK
  <1>2. {l.bucket : l \in {known[f] : f \in files}} \subseteq Buckets
    BY <1>1 DEF Location
  <1>3. /\ message' \in Message /\ message'.pc = "queued"
        /\ message'.files = files /\ message'.newState = None
        /\ message'.locations = {known[f] : f \in files}
        /\ message'.todo = {l.bucket : l \in {known[f] : f \in files}}
    BY <1>1, <1>2 DEF AskDeletion, NoMessage, Message
  <1>4. /\ disturbed' \in [Files -> SUBSET Marks]
        /\ \A f \in Files : disturbed[f] \subseteq disturbed'[f]
    BY DisturbType DEF AskDeletion, Marks
  <1>5. ASSUME NEW f \in files, disturbed'[f] = {}, NEW j \in Jobs, jobs[j] # None,
               jobs[j].file = f
        PROVE  jobs[j].status = "done"
    <2>1. Disturb({g \in files : Pending(g)}, {"hasty"})
      BY DEF AskDeletion
    <2>2. ~Pending(f)
      BY <2>1, <1>5 DEF Disturb
    <2> QED BY <2>2, <1>5 DEF Pending
  <1>6. budget' \in [messages : Nat, crashes : Nat, faults : Nat, overruns : Nat]
    BY SpendType DEF AskDeletion
  <1>7. /\ UNCHANGED <<objects, saves, known, jobs, moves, answers, asked>>
        /\ deleted' = deleted \union files
    BY DEF AskDeletion, besideMessages
  <1> QED BY <1>1, <1>3, <1>4, <1>5, <1>6, <1>7

LEMMA ScheduleMoveEffect ==
  ASSUME TypeOK, RequestsInv, NEW j \in Jobs, ScheduleMove(j)
  PROVE  \E job \in VisibilityJob :
           /\ jobs[j] = None /\ jobs' = [jobs EXCEPT ![j] = job] /\ job # None
           /\ job.file \in message.files /\ job.from \in message.locations
           /\ job.newState = message.newState /\ job.status = "due"
           /\ message.newState # None /\ message' = [message EXCEPT !.pc = "handled"]
           /\ message.pc = "queued"
           /\ UNCHANGED <<objects, saves, known, moves, answers, asked, deleted, disturbed, budget>>
  <1>1. PICK f \in message.files, l \in message.locations :
          jobs' = [jobs EXCEPT ![j] = [file |-> f, from |-> l,
                                       newState |-> message.newState, status |-> "due"]]
    BY DEF ScheduleMove
  <1>2. /\ jobs[j] = None /\ message.newState # None /\ message.pc = "queued"
        /\ message' = [message EXCEPT !.pc = "handled"]
        /\ UNCHANGED <<objects, saves, known, moves, answers, asked, deleted, disturbed, budget>>
    BY DEF ScheduleMove, besideMessages
  <1>3. [file |-> f, from |-> l, newState |-> message.newState, status |-> "due"]
          \in VisibilityJob
    BY <1>2 DEF TypeOK, VisibilityJob
  <1> QED BY <1>1, <1>2, <1>3, StateFacts

LEMMA RemoveEffect ==
  ASSUME TypeOK, RequestsInv, NEW b \in Buckets, RemoveSteps(b)
  PROVE  /\ message.pc = "queued" /\ message.newState = None
         /\ \E pc \in {"queued", "handled", "stalled"}, todo \in SUBSET Buckets :
              /\ message' = [message EXCEPT !.todo = todo, !.pc = pc]
              /\ pc = "handled" => todo = {}
         /\ objects' \in [Buckets -> [Paths -> Files \union {None}]]
         /\ disturbed' \in [Files -> SUBSET Marks]
         /\ budget' \in [messages : Nat, crashes : Nat, faults : Nat, overruns : Nat]
         /\ UNCHANGED <<saves, known, jobs, moves, answers, asked, deleted>>
  <1>1. PICK locations \in SUBSET LocationsIn(b) : Removed(b, locations)
    BY DEF RemoveSteps, RemoveFrom, RemoveFails
  <1>2. disturbed' \in [Files -> SUBSET Marks]
    BY <1>1, DisturbType DEF Removed, Marks
  <1>3. objects' \in [Buckets -> [Paths -> Files \union {None}]]
    BY <1>1 DEF Removed, TypeOK
  <1>4. /\ message.pc = "queued" /\ message.newState = None
        /\ message.todo \in SUBSET Buckets
        /\ UNCHANGED <<saves, known, jobs, moves, answers, asked, deleted>>
    BY <1>1 DEF Removed, besideMessages, TypeOK
  <1>5. CASE RemoveFrom(b)
    <2>1. message' = [message EXCEPT !.todo = message.todo \ {b},
                        !.pc = IF message.todo = {b} THEN "handled" ELSE message.pc]
          /\ UNCHANGED budget
      BY <1>5 DEF RemoveFrom
    <2>2. budget' \in [messages : Nat, crashes : Nat, faults : Nat, overruns : Nat]
      BY <2>1 DEF TypeOK
    <2>3. message.todo \ {b} \in SUBSET Buckets
      BY <1>4
    <2>4. CASE message.todo = {b}
      <3>1. message.todo \ {b} = {}
        BY <2>4
      <3> QED BY <1>2, <1>3, <1>4, <2>1, <2>2, <2>3, <2>4, <3>1
    <2>5. CASE message.todo # {b}
      <3>1. message' = [message EXCEPT !.todo = message.todo \ {b}, !.pc = "queued"]
        BY <1>4, <2>1, <2>5
      <3>2. \E pc \in {"queued", "handled", "stalled"}, todo \in SUBSET Buckets :
              /\ message' = [message EXCEPT !.todo = todo, !.pc = pc]
              /\ pc = "handled" => todo = {}
        <4> WITNESS "queued" \in {"queued", "handled", "stalled"},
                    message.todo \ {b} \in SUBSET Buckets
        <4> QED BY <3>1
      <3> QED BY <1>2, <1>3, <1>4, <2>2, <3>2
    <2> QED BY <2>4, <2>5
  <1>6. CASE RemoveFails(b)
    <2>1. message' = [message EXCEPT !.todo = message.todo, !.pc = "stalled"]
      BY <1>6 DEF RemoveFails, TypeOK
    <2>2. budget' \in [messages : Nat, crashes : Nat, faults : Nat, overruns : Nat]
      BY <1>6, SpendType DEF RemoveFails, TypeOK
    <2> QED BY <1>2, <1>3, <1>4, <2>1, <2>2
  <1> QED BY <1>5, <1>6 DEF RemoveSteps

LEMMA LockEffect ==
  ASSUME TypeOK, NEW w \in Movers, NEW j \in Jobs, Lock(w, j)
  PROVE  /\ ~Live(w) /\ jobs[j] \in VisibilityJob /\ jobs[j].status = "due"
         /\ jobs' = [jobs EXCEPT ![j].status = "locked"]
         /\ moves'[w] = [pc |-> "stat", job |-> j]
         /\ \A v \in Movers \ {w} : moves'[v] = moves[v]
         /\ moves' \in [Movers -> [pc : MovePCs, job : Jobs \union {None}]]
         /\ disturbed' \in [Files -> SUBSET Marks]
         /\ \A f \in Files : disturbed[f] \subseteq disturbed'[f]
         /\ \A v \in Movers : Live(v) /\ JobOf(v).file = jobs[j].file
              => "overlap" \in disturbed'[jobs[j].file]
         /\ UNCHANGED <<objects, saves, known, message, answers, asked, deleted, budget>>
  <1>1. jobs[j] \in VisibilityJob /\ jobs[j].file \in Files
    BY DEF Lock, TypeOK, VisibilityJob
  <1>2. /\ disturbed' \in [Files -> SUBSET Marks]
        /\ \A f \in Files : disturbed[f] \subseteq disturbed'[f]
    BY DisturbType DEF Lock, Marks
  <1>3. ASSUME NEW v \in Movers, Live(v), JobOf(v).file = jobs[j].file
        PROVE  "overlap" \in disturbed'[jobs[j].file]
    BY <1>1, <1>3 DEF Lock, Disturb
  <1>4. /\ ~Live(w) /\ jobs[j].status = "due" /\ jobs' = [jobs EXCEPT ![j].status = "locked"]
        /\ moves' = [moves EXCEPT ![w] = [pc |-> "stat", job |-> j]]
        /\ UNCHANGED <<objects, saves, known, message, answers, asked, deleted, budget>>
    BY DEF Lock, besideMoves
  <1>5. /\ moves'[w] = [pc |-> "stat", job |-> j]
        /\ \A v \in Movers \ {w} : moves'[v] = moves[v]
        /\ moves' \in [Movers -> [pc : MovePCs, job : Jobs \union {None}]]
    BY <1>4 DEF TypeOK, MovePCs
  <1> QED BY <1>1, <1>2, <1>3, <1>4, <1>5

LEMMA CrashEffect ==
  ASSUME TypeOK, RequestsInv, Crash
  PROVE  /\ saves' \in [Files -> [pc : {"new", "stat", "put", "stored", "told", "failed"},
                                  path : Paths]]
         /\ \A f \in Files : \/ saves'[f] = saves[f] /\ ~Saving(f)
                             \/ saves'[f].pc = "failed" /\ saves[f].pc # "told"
         /\ disturbed' \in [Files -> SUBSET Marks]
         /\ \A f \in Files : disturbed[f] \subseteq disturbed'[f]
         /\ \A w \in Movers : Live(w) => "interrupted" \in disturbed'[JobOf(w).file]
         /\ moves' \in [Movers -> [pc : MovePCs, job : Jobs \union {None}]]
         /\ \A w \in Movers : ~Live(w)'
         /\ message' \in Message
         /\ message'.files = message.files /\ message'.locations = message.locations
         /\ message'.newState = message.newState
         /\ \/ message'.pc = "idle" /\ message.pc = "idle"
            \/ /\ message'.pc = "queued"
               /\ message.newState = None
                    => message'.todo = {l.bucket : l \in message.locations}
         /\ budget' \in [messages : Nat, crashes : Nat, faults : Nat, overruns : Nat]
         /\ UNCHANGED <<objects, known, jobs, answers, asked, deleted>>
  <1>1. /\ saves' \in [Files -> [pc : {"new", "stat", "put", "stored", "told", "failed"},
                                 path : Paths]]
        /\ \A f \in Files : \/ saves'[f] = saves[f] /\ ~Saving(f)
                            \/ saves'[f].pc = "failed" /\ saves[f].pc # "told"
    BY DEF Crash, TypeOK, Saving
  <1>2. /\ disturbed' \in [Files -> SUBSET Marks]
        /\ \A f \in Files : disturbed[f] \subseteq disturbed'[f]
    BY DisturbType DEF Crash, Marks
  <1>3. ASSUME NEW w \in Movers, Live(w) PROVE "interrupted" \in disturbed'[JobOf(w).file]
    <2>1. Disturb({JobOf(v).file : v \in {u \in Movers : Live(u)}}, {"interrupted"})
      BY DEF Crash
    <2> QED BY <2>1, <1>3, RunTypes DEF Disturb
  <1>4. /\ moves' \in [Movers -> [pc : MovePCs, job : Jobs \union {None}]]
        /\ \A w \in Movers : ~Live(w)'
    BY DEF Crash, NoMove, MovePCs, Live
  <1>5. /\ message' \in Message
        /\ message'.files = message.files /\ message'.locations = message.locations
        /\ message'.newState = message.newState
        /\ \/ message'.pc = "idle" /\ message.pc = "idle"
           \/ /\ message'.pc = "queued"
              /\ message.newState = None
                   => message'.todo = {l.bucket : l \in message.locations}
    <2>1. message \in Message
      BY DEF TypeOK, Message
    <2>2. {l.bucket : l \in message.locations} \in SUBSET Buckets
      BY <2>1 DEF Message, Location
    <2>3. CASE message.pc = "idle"
      BY <2>1, <2>3 DEF Crash
    <2>4. CASE message.pc # "idle"
      <3>1. PICK todo \in SUBSET Buckets :
              /\ message' = [message EXCEPT !.pc = "queued", !.todo = todo]
              /\ message.newState = None => todo = {l.bucket : l \in message.locations}
        <4>1. CASE message.newState = None
          BY <2>2, <2>4, <4>1 DEF Crash
        <4>2. CASE message.newState # None
          <5>1. message' = [message EXCEPT !.pc = "queued", !.todo = {}]
            BY <2>4, <4>2, Zenon DEF Crash
          <5> QED BY <4>2, <5>1, {} \in SUBSET Buckets, Zenon
        <4> QED BY <4>1, <4>2
      <3> QED BY <2>1, <3>1 DEF Message
    <2> QED BY <2>3, <2>4
  <1>6. budget' \in [messages : Nat, crashes : Nat, faults : Nat, overruns : Nat]
    BY SpendType DEF Crash
  <1>7. UNCHANGED <<objects, known, jobs, answers, asked, deleted>>
    BY DEF Crash
  <1> QED BY <1>1, <1>2, <1>3, <1>4, <1>5, <1>6, <1>7

(* The types and the requests hold after every step.                       *)
LEMMA TypeNext == TypeOK /\ RequestsInv /\ [Next]_vars => (TypeOK /\ RequestsInv)'
  <1> SUFFICES ASSUME TypeOK, RequestsInv, [Next]_vars PROVE (TypeOK /\ RequestsInv)'
    OBVIOUS
  <1>1. ASSUME NEW f \in Files, SaveSteps(f) PROVE (TypeOK /\ RequestsInv)'
    <2>1. TypeOK'
      BY <1>1, SaveTypes DEF TypeOK, besideSaves, Marks, Live, JobOf, VisibilityJob
    <2>2. RequestsInv'
      BY <1>1, SaveTypes DEF RequestsInv, TypeOK, besideSaves
    <2> QED BY <2>1, <2>2
  <1>2. ASSUME NEW w \in Movers, MoveSteps(w) PROVE (TypeOK /\ RequestsInv)'
    <2>1. UNCHANGED <<saves, message, asked, deleted>>
      BY <1>2, MoveTypes DEF besideMoves
    <2>2. ASSUME NEW v \in Movers, Live(v)' PROVE moves'[v].job \in Jobs /\ JobOf(v)' # None
      <3>1. Live(v) /\ moves'[v].job = moves[v].job
        BY <1>2, <2>2, MoveTypes DEF Live
      <3> QED BY <1>2, <3>1, MoveTypes, RunTypes DEF TypeOK, JobOf
    <2>3. \A j \in Jobs : jobs'[j] # None => known'[jobs'[j].file] # None
      BY <1>2, MoveTypes DEF TypeOK, VisibilityJob
    <2>4. TypeOK'
      BY <1>2, <2>1, <2>2, <2>3, MoveTypes DEF TypeOK, Marks, MovePCs
    <2>5. RequestsInv'
      BY <1>2, <2>1, MoveTypes DEF RequestsInv, TypeOK
    <2> QED BY <2>4, <2>5
  <1>3. ASSUME NEW f \in Files, NEW state \in States, AskVisibility(f, state)
        PROVE  (TypeOK /\ RequestsInv)'
    <2>1. TypeOK'
      BY <1>3, AskVisibilityEffect DEF TypeOK, Message, Marks, Live, JobOf
    <2>2. RequestsInv'
      BY <1>3, AskVisibilityEffect DEF RequestsInv, TypeOK
    <2> QED BY <2>1, <2>2
  <1>4. ASSUME NEW files \in SUBSET Files, AskDeletion(files) PROVE (TypeOK /\ RequestsInv)'
    <2>1. \A f \in files : known[f] # None
      BY <1>4, AskDeletionEffect, StateFacts
    <2>2. TypeOK'
      BY <1>4, <2>1, AskDeletionEffect DEF TypeOK, Message, Marks, Live, JobOf
    <2>3. RequestsInv'
      <3>1. /\ message'.pc = "queued" /\ message'.files = files /\ message'.newState = None
            /\ files \subseteq deleted' /\ UNCHANGED <<known, jobs, asked>>
        BY <1>4, AskDeletionEffect
      <3>2. \A f \in message'.files : known'[f] # None
        BY <2>1, <3>1
      <3>3. \A j \in Jobs : jobs'[j] # None /\ jobs'[j].newState = "PUBLIC"
                               => jobs'[j].file \in asked'
        BY <3>1 DEF RequestsInv
      <3> QED BY <3>1, <3>2, <3>3, StateFacts DEF RequestsInv
    <2> QED BY <2>2, <2>3
  <1>5. ASSUME NEW j \in Jobs, ScheduleMove(j) PROVE (TypeOK /\ RequestsInv)'
    <2>1. PICK job \in VisibilityJob :
            /\ jobs[j] = None /\ jobs' = [jobs EXCEPT ![j] = job] /\ job # None
            /\ job.file \in message.files /\ job.newState = message.newState
            /\ message.newState # None /\ message' = [message EXCEPT !.pc = "handled"]
            /\ UNCHANGED <<objects, saves, known, moves, answers, asked, deleted, disturbed,
                           budget>>
      BY <1>5, ScheduleMoveEffect
    <2>2. /\ jobs' \in [Jobs -> VisibilityJob \union {None}]
          /\ jobs'[j] = job /\ \A i \in Jobs \ {j} : jobs'[i] = jobs[i]
      BY <2>1 DEF TypeOK
    <2>3. /\ message' \in Message /\ message'.pc = "handled" /\ message'.files = message.files
          /\ message'.newState = message.newState
      BY <2>1 DEF TypeOK, Message
    <2>4. TypeOK'
      BY <2>1, <2>2, <2>3 DEF TypeOK, RequestsInv, Message, Live, JobOf
    <2>5. RequestsInv'
      BY <2>1, <2>2, <2>3 DEF TypeOK, RequestsInv
    <2> QED BY <2>4, <2>5
  <1>6. ASSUME NEW b \in Buckets, RemoveSteps(b) PROVE (TypeOK /\ RequestsInv)'
    <2>1. /\ message' \in Message /\ message'.files = message.files
          /\ message'.newState = message.newState /\ message'.pc # "idle"
          /\ message'.pc = "handled" => message'.todo = {}
      <3>1. message \in Message
        BY DEF TypeOK, Message
      <3>2. PICK pc \in {"queued", "handled", "stalled"}, todo \in SUBSET Buckets :
              /\ message' = [message EXCEPT !.todo = todo, !.pc = pc]
              /\ pc = "handled" => todo = {}
        BY <1>6, RemoveEffect
      <3> QED BY <3>1, <3>2 DEF Message
    <2>2. TypeOK'
      BY <1>6, <2>1, RemoveEffect DEF TypeOK, Message, Marks, Live, JobOf
    <2>3. RequestsInv'
      BY <1>6, <2>1, RemoveEffect DEF RequestsInv, TypeOK
    <2> QED BY <2>2, <2>3
  <1>7. CASE HandlerFails \/ Acknowledge
    <2>1. /\ message' \in Message
          /\ \/ message' = NoMessage
             \/ /\ message'.files = message.files /\ message'.newState = message.newState
                /\ message'.pc = "stalled"
          /\ UNCHANGED <<objects, saves, known, jobs, moves, answers, asked, deleted, disturbed>>
      BY <1>7 DEF HandlerFails, Acknowledge, TypeOK, Message, NoMessage, besideMessages
    <2>2. budget' \in [messages : Nat, crashes : Nat, faults : Nat, overruns : Nat]
      BY <1>7, SpendType DEF HandlerFails, Acknowledge, TypeOK
    <2>3. TypeOK'
      BY <2>1, <2>2 DEF TypeOK, Message, Live, JobOf
    <2>4. RequestsInv'
      BY <2>1, StateFacts DEF RequestsInv, TypeOK, NoMessage
    <2> QED BY <2>3, <2>4
  <1>8. ASSUME NEW w \in Movers, NEW j \in Jobs, Lock(w, j) PROVE (TypeOK /\ RequestsInv)'
    <2>1. /\ jobs' \in [Jobs -> VisibilityJob \union {None}]
          /\ jobs'[j] # None /\ jobs[j] # None
          /\ jobs'[j].file = jobs[j].file /\ jobs'[j].newState = jobs[j].newState
          /\ \A i \in Jobs \ {j} : jobs'[i] = jobs[i]
      BY <1>8, LockEffect, StatusEffect
    <2>2. TypeOK'
      <3>1. /\ moves'[w] = [pc |-> "stat", job |-> j]
            /\ \A v \in Movers \ {w} : moves'[v] = moves[v]
            /\ moves' \in [Movers -> [pc : MovePCs, job : Jobs \union {None}]]
            /\ disturbed' \in [Files -> SUBSET Marks]
            /\ UNCHANGED <<objects, saves, known, message, answers, asked, deleted, budget>>
        BY <1>8, LockEffect
      <3>2. ASSUME NEW v \in Movers, Live(v)' PROVE moves'[v].job \in Jobs /\ JobOf(v)' # None
        BY <2>1, <3>1, <3>2 DEF TypeOK, Live, JobOf
      <3>3. \A i \in Jobs : jobs'[i] # None => known'[jobs'[i].file] # None
        BY <2>1, <3>1 DEF TypeOK
      <3> QED BY <2>1, <3>1, <3>2, <3>3 DEF TypeOK, Marks, MovePCs
    <2>3. RequestsInv'
      BY <1>8, <2>1, LockEffect DEF RequestsInv
    <2> QED BY <2>2, <2>3
  <1>9. ASSUME NEW j \in Jobs, LockExpires(j) PROVE (TypeOK /\ RequestsInv)'
    <2>1. /\ jobs[j] \in VisibilityJob /\ jobs' = [jobs EXCEPT ![j].status = "due"]
          /\ UNCHANGED <<objects, saves, known, message, moves, answers, asked, deleted, disturbed>>
      BY <1>9 DEF LockExpires, TypeOK, besideMoves
    <2>2. /\ jobs' \in [Jobs -> VisibilityJob \union {None}]
          /\ jobs'[j] # None /\ jobs[j] # None
          /\ jobs'[j].file = jobs[j].file /\ jobs'[j].newState = jobs[j].newState
          /\ \A i \in Jobs \ {j} : jobs'[i] = jobs[i]
      BY <2>1, StatusEffect
    <2>3. budget' \in [messages : Nat, crashes : Nat, faults : Nat, overruns : Nat]
      BY <1>9, SpendType DEF LockExpires, TypeOK
    <2>4. TypeOK'
      BY <2>1, <2>2, <2>3 DEF TypeOK, Live, JobOf
    <2>5. RequestsInv'
      BY <2>1, <2>2 DEF RequestsInv
    <2> QED BY <2>4, <2>5
  <1>10. CASE Crash
    <2>1. TypeOK'
      BY <1>10, CrashEffect DEF TypeOK, Message, Marks, MovePCs
    <2>2. RequestsInv'
      BY <1>10, CrashEffect DEF RequestsInv
    <2> QED BY <2>1, <2>2
  <1>11. CASE UNCHANGED vars
    BY <1>11 DEF vars, TypeOK, RequestsInv, Live, JobOf
  <1> QED
    BY <1>1, <1>2, <1>3, <1>4, <1>5, <1>6, <1>7, <1>8, <1>9, <1>10, <1>11
       DEF Next, SaveSteps, RemoveSteps, MoveSteps

(* Every reachable state is well typed, and requests are made only for     *)
(* files that the server was told of.                                      *)
THEOREM TypeCorrect == Spec => []TypeOK
  BY TypeInit, TypeNext, PTL DEF Spec
------------------------------------------------------------------------------
(*                 Where the files are after a step                        *)

LEMMA WithEffect ==
  ASSUME TypeOK, NEW l \in Location, NEW g \in Files \union {None}, objects' = With(l, g)
  PROVE  \A k \in Location : At(k)' = IF k = l THEN g ELSE At(k)
  <1>1. ASSUME NEW k \in Location, k.bucket = l.bucket, k.path = l.path PROVE k = l
    BY <1>1 DEF Location
  <1>2. l.bucket \in Buckets /\ l.path \in Paths
    BY DEF Location
  <1>3. ASSUME NEW b \in Buckets, NEW p \in Paths
        PROVE  objects'[b][p] = IF b = l.bucket /\ p = l.path THEN g ELSE objects[b][p]
    BY <1>2 DEF TypeOK, With
  <1>4. \A k \in Location : k.bucket \in Buckets /\ k.path \in Paths
    BY DEF Location
  <1> QED BY <1>1, <1>3, <1>4 DEF At

(* A file that is put: it is there, and the file it replaced is marked.    *)
LEMMA PlacedEffect ==
  ASSUME TypeOK, NEW f \in Files, Placed(f)
  PROVE  /\ \A g \in Files : disturbed[g] \subseteq disturbed'[g]
         /\ \A g \in Files : "clash" \notin disturbed'[g]
              => Places(g)' = IF g = f THEN Places(g) \union {SavedAt(f)} ELSE Places(g)
  <1>1. SavedAt(f) \in Location /\ f # None
    BY ObjectTypes, StateFacts
  <1>2. PICK l \in Location : l = SavedAt(f)
    BY <1>1
  <1>3. \A k \in Location : At(k)' = IF k = l THEN f ELSE At(k)
    BY <1>2, WithEffect DEF Placed
  <1>4. PICK hit : hit = Strangers({l}, {f}) /\ Disturb(hit, {"clash"})
    BY <1>2 DEF Placed
  <1>5. /\ \A g \in Files : disturbed[g] \subseteq disturbed'[g]
        /\ \A g \in hit \intersect Files : "clash" \in disturbed'[g]
    BY <1>4, DisturbType DEF Marks
  <1>6. \A g \in Files : At(l) = g /\ g # f => g \in hit
    BY <1>4, StateFacts DEF Strangers, FilesAt
  <1>7. ASSUME NEW g \in Files, "clash" \notin disturbed'[g]
        PROVE  Places(g)' = IF g = f THEN Places(g) \union {l} ELSE Places(g)
    BY <1>3, <1>5, <1>6, <1>7 DEF Places
  <1> QED BY <1>2, <1>5, <1>7

(* A copy that took effect: the file of the job is at both places.         *)
LEMMA CopiedEffect ==
  ASSUME TypeOK, NEW w \in Movers, Live(w), objects' = Copied(w), At(JobOf(w).from) # None,
         \A g \in Files : disturbed[g] \subseteq disturbed'[g],
         \A g \in Files \intersect Strangers({JobOf(w).from, Destination(JobOf(w))},
                                             {JobOf(w).file}) :
           "clash" \in disturbed'[g] /\ "clash" \in disturbed'[JobOf(w).file]
  PROVE  \A g \in Files : "clash" \notin disturbed'[g]
           => /\ Places(g)' = IF g = JobOf(w).file
                              THEN Places(g) \union {Destination(JobOf(w))} ELSE Places(g)
              /\ g = JobOf(w).file => JobOf(w).from \in Places(g)
  <1>1. PICK f \in Files, l \in Location, k \in Location :
          f = JobOf(w).file /\ l = JobOf(w).from /\ k = Destination(JobOf(w))
    BY RunTypes
  <1>2. PICK s \in Files : s = At(l)
    BY <1>1, ObjectTypes
  <1>3. \A m \in Location : At(m)' = IF m = k THEN s ELSE At(m)
    BY <1>1, <1>2, WithEffect DEF Copied
  <1>4. \A g \in Files : (At(l) = g \/ At(k) = g) /\ g # f
          => "clash" \in disturbed'[g] /\ "clash" \in disturbed'[f]
    BY <1>1, StateFacts DEF Strangers, FilesAt
  <1>5. ASSUME NEW g \in Files, "clash" \notin disturbed'[g]
        PROVE  /\ Places(g)' = IF g = f THEN Places(g) \union {k} ELSE Places(g)
               /\ g = f => l \in Places(g)
    BY <1>2, <1>3, <1>4, <1>5 DEF Places
  <1> QED BY <1>1, <1>5

(* A removal that took effect.                                             *)
LEMMA MovedEffect ==
  ASSUME TypeOK, NEW w \in Movers, Live(w), objects' = With(JobOf(w).from, None),
         \A g \in Files : disturbed[g] \subseteq disturbed'[g],
         \A g \in Files \intersect Strangers({JobOf(w).from}, {JobOf(w).file}) :
           "clash" \in disturbed'[g]
  PROVE  \A g \in Files : "clash" \notin disturbed'[g]
           => Places(g)' = IF g = JobOf(w).file THEN Places(g) \ {JobOf(w).from}
                           ELSE Places(g)
  <1>1. PICK f \in Files, l \in Location : f = JobOf(w).file /\ l = JobOf(w).from
    BY RunTypes
  <1>2. \A m \in Location : At(m)' = IF m = l THEN None ELSE At(m)
    BY <1>1, WithEffect
  <1>3. \A g \in Files : At(l) = g /\ g # f => "clash" \in disturbed'[g]
    BY <1>1, StateFacts DEF Strangers, FilesAt
  <1>4. ASSUME NEW g \in Files, "clash" \notin disturbed'[g]
        PROVE  Places(g)' = IF g = f THEN Places(g) \ {l} ELSE Places(g)
    BY <1>2, <1>3, <1>4, StateFacts DEF Places
  <1> QED BY <1>1, <1>4

(* A deletion message takes its files out of one bucket, or some of them   *)
(* when the call fails: it is still to look there then.                    *)
LEMMA DeletedEffect ==
  ASSUME TypeOK, NEW b \in Buckets, RemoveSteps(b)
  PROVE  /\ \A g \in Files : disturbed[g] \subseteq disturbed'[g]
         /\ \E locations \in SUBSET LocationsIn(b) :
              /\ locations = LocationsIn(b) \/ message'.todo = message.todo
              /\ \A g \in Files : "clash" \notin disturbed'[g]
                   => Places(g)' = IF g \in message.files THEN Places(g) \ locations
                                   ELSE Places(g)
  <1>1. PICK removed \in SUBSET LocationsIn(b) :
          /\ Removed(b, removed)
          /\ removed = LocationsIn(b) \/ message'.todo = message.todo
    <2>1. CASE RemoveFrom(b)
      BY <2>1 DEF RemoveFrom
    <2>2. CASE RemoveFails(b)
      BY <2>2 DEF RemoveFails, TypeOK
    <2> QED BY <2>1, <2>2 DEF RemoveSteps
  <1>2. removed \subseteq Location
    BY DEF TypeOK, LocationsIn
  <1>3. /\ objects' = [objects EXCEPT ![b] = [p \in Paths |->
                         IF [bucket |-> b, path |-> p] \in removed THEN None ELSE @[p]]]
        /\ Disturb(Strangers(removed, message.files), {"clash"})
    BY <1>1 DEF Removed
  <1>4. \A c \in Buckets, p \in Paths :
          objects'[c][p] = IF c = b /\ [bucket |-> b, path |-> p] \in removed THEN None
                           ELSE objects[c][p]
    BY <1>3 DEF TypeOK
  <1>5. \A l \in Location : /\ l.bucket \in Buckets /\ l.path \in Paths
                            /\ l = [bucket |-> l.bucket, path |-> l.path]
    BY DEF Location
  <1>6. ASSUME NEW l \in Location PROVE At(l)' = IF l \in removed THEN None ELSE At(l)
    <2>1. l \in removed => l.bucket = b
      BY DEF LocationsIn
    <2>2. CASE l.bucket = b
      <3>1. l = [bucket |-> b, path |-> l.path]
        BY <1>5, <2>2
      <3> QED BY <1>4, <1>5, <2>2, <3>1 DEF At
    <2>3. CASE l.bucket # b
      BY <1>4, <1>5, <2>1, <2>3 DEF At
    <2> QED BY <2>2, <2>3
  <1>7. /\ \A g \in Files : disturbed[g] \subseteq disturbed'[g]
        /\ \A g \in Files \intersect Strangers(removed, message.files) :
             "clash" \in disturbed'[g]
    BY <1>3, DisturbType DEF Marks
  <1>8. \A l \in removed, g \in Files :
          At(l) = g /\ g \notin message.files => "clash" \in disturbed'[g]
    BY <1>7, StateFacts DEF Strangers, FilesAt
  <1>9. ASSUME NEW g \in Files, "clash" \notin disturbed'[g]
        PROVE  Places(g)' = IF g \in message.files THEN Places(g) \ removed ELSE Places(g)
    BY <1>2, <1>6, <1>8, <1>9, StateFacts DEF Places
  <1> QED BY <1>1, <1>7, <1>9

(* A step of a save.                                                       *)
LEMMA SaveEffect ==
  ASSUME TypeOK, NEW f \in Files, SaveSteps(f)
  PROVE  /\ \A g \in Files : disturbed[g] \subseteq disturbed'[g]
         /\ \A g \in Files \ {f} : saves'[g] = saves[g] /\ known'[g] = known[g]
         /\ \A g \in Files \ {f} : "clash" \notin disturbed'[g] => Places(g)' = Places(g)
         /\ saves[f].pc # "told"
         /\ \/ /\ saves[f].pc \in {"new", "stat"} /\ saves'[f].pc \in {"stat", "put"}
               /\ UNCHANGED <<objects, known>>
            \/ /\ saves[f].pc = "put" /\ saves'[f].pc = "stored" /\ UNCHANGED known
               /\ SavedAt(f)' = SavedAt(f)
               /\ "clash" \notin disturbed'[f]
                    => Places(f)' = Places(f) \union {SavedAt(f)}
            \/ /\ saves[f].pc = "put" /\ saves'[f].pc = "failed" /\ UNCHANGED known
               /\ "clash" \notin disturbed'[f]
                    => Places(f)' \subseteq Places(f) \union {SavedAt(f)}
            \/ /\ saves[f].pc = "stored" /\ saves'[f].pc = "told" /\ UNCHANGED objects
               /\ known'[f] = SavedAt(f)
  <1>1. ASSUME UNCHANGED objects PROVE \A g \in Files : Places(g)' = Places(g)
    BY <1>1 DEF Places, At
  <1>2. CASE SaveBegin(f) \/ SaveStat(f) \/ SaveStatFails(f)
    <2>1. /\ UNCHANGED <<objects, known, disturbed>>
          /\ saves[f].pc \in {"new", "stat"}
          /\ saves'[f].pc \in {"stat", "put"} /\ \A g \in Files \ {f} : saves'[g] = saves[g]
      BY <1>2 DEF SaveBegin, SaveStat, SaveStatFails, TypeOK
    <2> QED BY <1>1, <2>1
  <1>3. CASE Put(f)
    <2>1. /\ Placed(f) /\ UNCHANGED known /\ saves[f].pc = "put"
          /\ saves' = [saves EXCEPT ![f].pc = "stored"]
      BY <1>3 DEF Put
    <2>2. /\ saves'[f].pc = "stored" /\ saves'[f].path = saves[f].path
          /\ \A g \in Files \ {f} : saves'[g] = saves[g]
      BY <2>1 DEF TypeOK
    <2> QED BY <2>1, <2>2, PlacedEffect DEF SavedAt
  <1>4. CASE PutFails(f)
    <2>1. /\ Placed(f) \/ UNCHANGED <<objects, disturbed>>
          /\ UNCHANGED known /\ saves[f].pc = "put"
          /\ saves' = [saves EXCEPT ![f].pc = "failed"]
      BY <1>4 DEF PutFails
    <2>2. saves'[f].pc = "failed" /\ \A g \in Files \ {f} : saves'[g] = saves[g]
      BY <2>1 DEF TypeOK
    <2>3. /\ \A g \in Files : disturbed[g] \subseteq disturbed'[g]
          /\ \A g \in Files \ {f} : "clash" \notin disturbed'[g] => Places(g)' = Places(g)
          /\ "clash" \notin disturbed'[f] => Places(f)' \subseteq Places(f) \union {SavedAt(f)}
      BY <1>1, <2>1, PlacedEffect
    <2> QED BY <2>1, <2>2, <2>3
  <1>5. CASE ReportFile(f)
    <2>1. /\ saves[f].pc = "stored" /\ UNCHANGED <<objects, disturbed>>
          /\ saves' = [saves EXCEPT ![f].pc = "told"]
          /\ known' = [known EXCEPT ![f] = SavedAt(f)]
      BY <1>5 DEF ReportFile
    <2>2. /\ saves'[f].pc = "told" /\ known'[f] = SavedAt(f)
          /\ \A g \in Files \ {f} : saves'[g] = saves[g] /\ known'[g] = known[g]
      BY <2>1 DEF TypeOK
    <2> QED BY <1>1, <2>1, <2>2
  <1> QED BY <1>2, <1>3, <1>4, <1>5 DEF SaveSteps

(* A step of a move.                                                       *)
LEMMA MoveEffect ==
  ASSUME TypeOK, NEW w \in Movers, MoveSteps(w)
  PROVE  /\ \A g \in Files : disturbed[g] \subseteq disturbed'[g]
         /\ \A g \in Files : "clash" \notin disturbed'[g]
              => \/ Places(g)' = Places(g)
                 \/ /\ g = JobOf(w).file /\ moves[w].pc = "copy" /\ JobOf(w).from \in Places(g)
                    /\ Places(g)' = Places(g) \union {Destination(JobOf(w))}
                    /\ \/ moves'[w].pc = "remove" /\ JobOf(w).from # Destination(JobOf(w))
                       \/ moves'[w].pc = "refused" /\ "interrupted" \in disturbed'[g]
                 \/ /\ g = JobOf(w).file /\ moves[w].pc = "remove"
                    /\ Places(g)' = Places(g) \ {JobOf(w).from}
                    /\ \/ moves'[w].pc = "moved"
                       \/ moves'[w].pc = "refused" /\ "interrupted" \in disturbed'[g]
         /\ moves'[w].pc = "remove" =>
              /\ moves[w].pc = "copy" /\ JobOf(w).from # Destination(JobOf(w))
              /\ "clash" \notin disturbed'[JobOf(w).file]
                   => /\ JobOf(w).from \in Places(JobOf(w).file)
                      /\ \A g \in Files : g = JobOf(w).file
                           => Places(g)' = Places(g) \union {Destination(JobOf(w))}
         /\ moves'[w].pc = "moved" =>
              /\ moves[w].pc = "remove"
              /\ "clash" \notin disturbed'[JobOf(w).file]
                   => \A g \in Files : g = JobOf(w).file
                        => Places(g)' = Places(g) \ {JobOf(w).from}
         /\ moves'[w].pc \notin {"remove", "moved"} /\ moves[w].pc = "remove"
              => "interrupted" \in disturbed'[JobOf(w).file]
         /\ known' = IF moves[w].pc = "moved"
                     THEN [known EXCEPT ![JobOf(w).file] = Destination(JobOf(w))] ELSE known
         /\ moves[w].pc = "moved" => moves'[w].pc = "finish"
  <1>1. Live(w)
    BY MoveTypes
  <1>2. PICK f \in Files, l \in Location, k \in Location :
          f = JobOf(w).file /\ l = JobOf(w).from /\ k = Destination(JobOf(w))
    BY <1>1, RunTypes
  <1>3. ASSUME NEW pc, Continue(w, pc) PROVE moves'[w].pc = pc
    BY <1>3 DEF Continue, TypeOK
  <1>4. ASSUME UNCHANGED objects PROVE \A g \in Files : Places(g)' = Places(g)
    BY <1>4 DEF Places, At
  <1>5. CASE MoveStat(w) \/ MoveRefused(w) \/ Answer(w) \/ Finish(w)
    <2>1. /\ UNCHANGED <<objects, disturbed>> /\ moves[w].pc # "remove"
          /\ known' = IF moves[w].pc = "moved"
                      THEN [known EXCEPT ![JobOf(w).file] = Destination(JobOf(w))] ELSE known
      BY <1>5 DEF MoveStat, MoveRefused, Answer, Finish, besideMoves
    <2>2. /\ moves'[w].pc \notin {"remove", "moved"}
          /\ moves[w].pc = "moved" => moves'[w].pc = "finish"
      <3>1. CASE Finish(w)
        BY <3>1 DEF Finish, TypeOK, NoMove
      <3>2. CASE MoveStat(w) \/ MoveRefused(w) \/ Answer(w)
        BY <3>2, <1>3 DEF MoveStat, MoveRefused, Answer
      <3> QED BY <1>5, <3>1, <3>2
    <2> QED BY <1>4, <2>1, <2>2
  <1>6. CASE MoveCopy(w)
    <2>1. PICK hit :
            /\ hit = Strangers({l, k}, {f})
            /\ Disturb(IF hit = {} THEN {} ELSE hit \union {f}, {"clash"})
      BY <1>2, <1>6 DEF MoveCopy
    <2>2. PICK marked : /\ Disturb(marked, {"clash"})
                        /\ marked = IF hit = {} THEN {} ELSE hit \union {f}
      BY <2>1
    <2>3. /\ moves[w].pc = "copy" /\ l # k /\ At(l) # None /\ objects' = Copied(w)
          /\ moves'[w].pc = "remove" /\ UNCHANGED known
      BY <1>2, <1>3, <1>6 DEF MoveCopy, besideMoves
    <2>4. /\ \A g \in Files : disturbed[g] \subseteq disturbed'[g]
          /\ \A g \in Files \intersect hit :
               "clash" \in disturbed'[g] /\ "clash" \in disturbed'[f]
      BY <2>2, DisturbType DEF Marks
    <2>5. \A g \in Files : "clash" \notin disturbed'[g]
            => /\ Places(g)' = IF g = f THEN Places(g) \union {k} ELSE Places(g)
               /\ g = f => l \in Places(g)
      BY <1>1, <1>2, <2>1, <2>3, <2>4, CopiedEffect
    <2> QED BY <1>2, <2>3, <2>4, <2>5
  <1>7. CASE MoveRemove(w)
    <2>1. /\ moves[w].pc = "remove" /\ objects' = With(l, None)
          /\ moves'[w].pc = "moved" /\ UNCHANGED known
          /\ Disturb(Strangers({l}, {f}), {"clash"})
      BY <1>2, <1>3, <1>7 DEF MoveRemove, besideMoves
    <2>2. /\ \A g \in Files : disturbed[g] \subseteq disturbed'[g]
          /\ \A g \in Files \intersect Strangers({l}, {f}) : "clash" \in disturbed'[g]
      BY <2>1, DisturbType DEF Marks
    <2>3. \A g \in Files : "clash" \notin disturbed'[g]
            => Places(g)' = IF g = f THEN Places(g) \ {l} ELSE Places(g)
      BY <1>1, <1>2, <2>1, <2>2, MovedEffect
    <2> QED BY <1>2, <2>1, <2>2, <2>3
  <1>8. CASE MoveFails(w)
    <2>1. /\ moves'[w].pc = "refused" /\ moves[w].pc \in {"stat", "copy", "remove"}
          /\ UNCHANGED known
      BY <1>3, <1>8 DEF MoveFails, besideMoves
    <2>2. CASE FailsBefore(w)
      <3>1. /\ UNCHANGED objects
            /\ Disturb(IF moves[w].pc = "stat" THEN {} ELSE {f}, {"interrupted"})
        BY <1>2, <2>2 DEF FailsBefore
      <3>2. /\ \A g \in Files : disturbed[g] \subseteq disturbed'[g]
            /\ moves[w].pc # "stat" => "interrupted" \in disturbed'[f]
        BY <3>1, DisturbType DEF Marks
      <3> QED BY <1>2, <1>4, <2>1, <3>1, <3>2
    <2>3. CASE FailsAfter(w)
      <3>1. PICK hit, how :
              /\ hit = Strangers(Reached(w), {f}) /\ Disturb(hit \union {f}, how)
              /\ how \in SUBSET Marks /\ "interrupted" \in how
              /\ hit # {} => "clash" \in how
        BY <1>2, <2>3 DEF FailsAfter, Marks
      <3>2. /\ \A g \in Files : disturbed[g] \subseteq disturbed'[g]
            /\ "interrupted" \in disturbed'[f]
            /\ \A g \in Files \intersect hit :
                 "clash" \in disturbed'[g] /\ "clash" \in disturbed'[f]
        <4>1. PICK marked : marked = hit \union {f} /\ Disturb(marked, how)
          BY <3>1
        <4>2. /\ \A g \in Files : disturbed[g] \subseteq disturbed'[g]
              /\ \A g \in marked \intersect Files : how \subseteq disturbed'[g]
          BY <3>1, <4>1, DisturbType
        <4> QED BY <3>1, <4>1, <4>2
      <3>3. CASE moves[w].pc = "copy"
        <4>1. hit = Strangers({l, k}, {f}) /\ objects' = Copied(w) /\ At(l) # None
          <5>1. Reached(w) = {l, k}
            BY <1>2, <3>3 DEF Reached
          <5> QED BY <1>2, <2>3, <3>1, <3>3, <5>1 DEF FailsAfter, Effect
        <4>2. \A g \in Files : "clash" \notin disturbed'[g]
                => /\ Places(g)' = IF g = f THEN Places(g) \union {k} ELSE Places(g)
                   /\ g = f => l \in Places(g)
          BY <1>1, <1>2, <3>2, <4>1, CopiedEffect
        <4> QED BY <1>2, <2>1, <3>2, <3>3, <4>2
      <3>4. CASE moves[w].pc = "remove"
        <4>1. hit = Strangers({l}, {f}) /\ objects' = With(l, None)
          <5>1. Reached(w) = {l}
            BY <1>2, <3>4 DEF Reached
          <5> QED BY <1>2, <2>3, <3>1, <3>4, <5>1 DEF FailsAfter, Effect
        <4>2. \A g \in Files : "clash" \notin disturbed'[g]
                => Places(g)' = IF g = f THEN Places(g) \ {l} ELSE Places(g)
          BY <1>1, <1>2, <3>2, <4>1, MovedEffect
        <4> QED BY <1>2, <2>1, <3>2, <3>4, <4>2
      <3> QED BY <2>3, <3>3, <3>4 DEF FailsAfter
    <2> QED BY <1>8, <2>2, <2>3 DEF MoveFails
  <1> QED BY <1>5, <1>6, <1>7, <1>8 DEF MoveSteps


(* The steps that leave the objects alone and tell the server nothing.     *)
QuietSteps == \/ \E f \in Files, state \in States : AskVisibility(f, state)
              \/ \E files \in SUBSET Files : AskDeletion(files)
              \/ \E j \in Jobs : ScheduleMove(j)
              \/ HandlerFails \/ Acknowledge
              \/ \E w \in Movers, j \in Jobs : Lock(w, j)
              \/ \E j \in Jobs : LockExpires(j)
              \/ Crash
              \/ UNCHANGED vars

LEMMA QuietEffect ==
  ASSUME TypeOK, RequestsInv, QuietSteps
  PROVE  /\ UNCHANGED <<objects, known>>
         /\ \A g \in Files : Places(g)' = Places(g)
         /\ \A g \in Files : disturbed[g] \subseteq disturbed'[g]
         /\ \A g \in Files : \/ saves'[g] = saves[g]
                             \/ saves'[g].pc = "failed" /\ saves[g].pc # "told"
         /\ asked \subseteq asked' /\ deleted \subseteq deleted'
         /\ \A j \in Jobs : jobs[j] # None
              => /\ jobs'[j] # None /\ jobs'[j].file = jobs[j].file
                 /\ jobs'[j].from = jobs[j].from /\ jobs'[j].newState = jobs[j].newState
         /\ \A w \in Movers : \/ moves'[w] = moves[w]
                              \/ ~Live(w)'
                              \/ ~Live(w) /\ moves'[w].pc = "stat"
         /\ \A w \in Movers : Live(w) /\ moves'[w] # moves[w]
              => "interrupted" \in disturbed'[JobOf(w).file]
  <1>1. UNCHANGED objects => \A g \in Files : Places(g)' = Places(g)
    BY DEF Places, At
  <1>2. ASSUME NEW f \in Files, NEW state \in States, AskVisibility(f, state)
        PROVE  /\ UNCHANGED <<objects, saves, known, jobs, moves, deleted>>
               /\ \A g \in Files : disturbed[g] \subseteq disturbed'[g]
               /\ asked \subseteq asked'
    <2>1. \A g \in Files : disturbed[g] \subseteq disturbed'[g]
      BY <1>2, DisturbType DEF AskVisibility, Marks
    <2> QED BY <1>2, <2>1, AskVisibilityEffect
  <1>3. ASSUME NEW files \in SUBSET Files, AskDeletion(files)
        PROVE  /\ UNCHANGED <<objects, saves, known, jobs, moves, asked>>
               /\ \A g \in Files : disturbed[g] \subseteq disturbed'[g]
               /\ deleted \subseteq deleted'
    BY <1>3, AskDeletionEffect
  <1>4. ASSUME NEW j \in Jobs, ScheduleMove(j)
        PROVE  /\ UNCHANGED <<objects, saves, known, moves, asked, deleted, disturbed>>
               /\ \A i \in Jobs : jobs[i] # None => jobs'[i] = jobs[i]
    <2>1. PICK job : /\ jobs[j] = None /\ jobs' = [jobs EXCEPT ![j] = job]
                     /\ UNCHANGED <<objects, saves, known, moves, asked, deleted, disturbed>>
      BY <1>4, ScheduleMoveEffect
    <2> QED BY <2>1 DEF TypeOK
  <1>5. ASSUME HandlerFails \/ Acknowledge \/ UNCHANGED vars
        PROVE  UNCHANGED <<objects, saves, known, jobs, moves, asked, deleted, disturbed>>
    BY <1>5 DEF HandlerFails, Acknowledge, vars, besideMessages
  <1>6. ASSUME NEW w \in Movers, NEW j \in Jobs, Lock(w, j)
        PROVE  /\ UNCHANGED <<objects, saves, known, asked, deleted>>
               /\ \A g \in Files : disturbed[g] \subseteq disturbed'[g]
               /\ \A i \in Jobs : jobs[i] # None
                    => /\ jobs'[i] # None /\ jobs'[i].file = jobs[i].file
                       /\ jobs'[i].from = jobs[i].from /\ jobs'[i].newState = jobs[i].newState
               /\ \A v \in Movers : \/ moves'[v] = moves[v]
                                    \/ ~Live(v) /\ moves'[v].pc = "stat"
    <2>1. /\ UNCHANGED <<objects, saves, known, asked, deleted>>
          /\ \A g \in Files : disturbed[g] \subseteq disturbed'[g]
          /\ jobs[j] \in VisibilityJob /\ jobs' = [jobs EXCEPT ![j].status = "locked"]
          /\ ~Live(w) /\ moves'[w] = [pc |-> "stat", job |-> j]
          /\ \A v \in Movers \ {w} : moves'[v] = moves[v]
      BY <1>6, LockEffect
    <2>2. \A i \in Jobs : jobs[i] # None
            => /\ jobs'[i] # None /\ jobs'[i].file = jobs[i].file
               /\ jobs'[i].from = jobs[i].from /\ jobs'[i].newState = jobs[i].newState
      BY <2>1, StatusEffect
    <2>3. \A v \in Movers : \/ moves'[v] = moves[v]
                            \/ ~Live(v) /\ moves'[v].pc = "stat"
      BY <2>1
    <2> QED BY <2>1, <2>2, <2>3
  <1>7. ASSUME NEW j \in Jobs, LockExpires(j)
        PROVE  /\ UNCHANGED <<objects, saves, known, moves, asked, deleted, disturbed>>
               /\ \A i \in Jobs : jobs[i] # None
                    => /\ jobs'[i] # None /\ jobs'[i].file = jobs[i].file
                       /\ jobs'[i].from = jobs[i].from /\ jobs'[i].newState = jobs[i].newState
    <2>1. /\ jobs[j] \in VisibilityJob /\ jobs' = [jobs EXCEPT ![j].status = "due"]
          /\ UNCHANGED <<objects, saves, known, moves, asked, deleted, disturbed>>
      BY <1>7 DEF LockExpires, TypeOK, besideMoves
    <2> QED BY <2>1, StatusEffect
  <1>8. ASSUME Crash
        PROVE  /\ UNCHANGED <<objects, known, jobs, asked, deleted>>
               /\ \A g \in Files : disturbed[g] \subseteq disturbed'[g]
               /\ \A g \in Files : \/ saves'[g] = saves[g]
                                   \/ saves'[g].pc = "failed" /\ saves[g].pc # "told"
               /\ \A w \in Movers : ~Live(w)'
               /\ \A w \in Movers : Live(w) => "interrupted" \in disturbed'[JobOf(w).file]
    BY <1>8, CrashEffect
  <1>9. UNCHANGED <<objects, known>>
    BY <1>2, <1>3, <1>4, <1>5, <1>6, <1>7, <1>8 DEF QuietSteps
  <1>10. /\ \A g \in Files : disturbed[g] \subseteq disturbed'[g]
         /\ asked \subseteq asked' /\ deleted \subseteq deleted'
         /\ \A g \in Files : \/ saves'[g] = saves[g]
                             \/ saves'[g].pc = "failed" /\ saves[g].pc # "told"
    BY <1>2, <1>3, <1>4, <1>5, <1>6, <1>7, <1>8 DEF QuietSteps
  <1>11. \A j \in Jobs : jobs[j] # None
           => /\ jobs'[j] # None /\ jobs'[j].file = jobs[j].file
              /\ jobs'[j].from = jobs[j].from /\ jobs'[j].newState = jobs[j].newState
    BY <1>2, <1>3, <1>4, <1>5, <1>6, <1>7, <1>8 DEF QuietSteps
  <1>12. /\ \A w \in Movers : \/ moves'[w] = moves[w]
                              \/ ~Live(w)'
                              \/ ~Live(w) /\ moves'[w].pc = "stat"
         /\ \A w \in Movers : Live(w) /\ moves'[w] # moves[w]
              => "interrupted" \in disturbed'[JobOf(w).file]
    <2>1. CASE Crash
      BY <2>1, <1>8
    <2>2. CASE ~Crash
      <3>1. \A w \in Movers : \/ moves'[w] = moves[w]
                              \/ ~Live(w) /\ moves'[w].pc = "stat"
        BY <2>2, <1>2, <1>3, <1>4, <1>5, <1>6, <1>7 DEF QuietSteps
      <3> QED BY <3>1
    <2> QED BY <2>1, <2>2
  <1> QED BY <1>1, <1>9, <1>10, <1>11, <1>12

(* The four kinds of steps.                                                *)
LEMMA Steps ==
  [Next]_vars => \/ \E f \in Files : SaveSteps(f)
                 \/ \E w \in Movers : MoveSteps(w)
                 \/ \E b \in Buckets : RemoveSteps(b)
                 \/ QuietSteps
  BY DEF Next, SaveSteps, RemoveSteps, MoveSteps, QuietSteps

(* A file that is public, or will be, was asked to be.                     *)
ExposedInv ==
  \A f \in Files : "clash" \notin disturbed[f]
    => \A l \in Places(f) : l.bucket = "public" => f \in asked

LEMMA ExposedNext ==
  TypeOK /\ RequestsInv /\ ExposedInv /\ [Next]_vars => ExposedInv'
  <1> SUFFICES ASSUME TypeOK, RequestsInv, ExposedInv, [Next]_vars,
                      NEW f \in Files, "clash" \notin disturbed'[f], NEW l \in Places(f)',
                      l.bucket = "public"
               PROVE  f \in asked'
    BY DEF ExposedInv
  <1>1. ASSUME NEW g \in Files, SaveSteps(g) PROVE f \in asked'
    <2>1. asked' = asked /\ "clash" \notin disturbed[f]
      BY <1>1, SaveTypes, SaveEffect DEF besideSaves
    <2>2. Places(f)' \subseteq Places(f) \union {SavedAt(g)}
      <3>1. UNCHANGED objects => Places(f)' = Places(f)
        BY DEF Places, At
      <3> QED BY <1>1, <3>1, SaveEffect
    <2>3. SavedAt(g).bucket # "public"
      BY DEF SavedAt
    <2> QED BY <2>1, <2>2, <2>3 DEF ExposedInv
  <1>2. ASSUME NEW w \in Movers, MoveSteps(w) PROVE f \in asked'
    <2>1. asked' = asked /\ "clash" \notin disturbed[f] /\ Live(w)
      BY <1>2, MoveTypes, MoveEffect DEF besideMoves
    <2>2. \/ l \in Places(f)
          \/ f = JobOf(w).file /\ l = Destination(JobOf(w))
      BY <1>2, MoveEffect
    <2>3. CASE f = JobOf(w).file /\ l = Destination(JobOf(w))
      <3>1. JobOf(w).newState = "PUBLIC"
        BY <2>3 DEF Destination, NewBucket
      <3> QED BY <2>1, <2>3, <3>1, RunTypes DEF RequestsInv, TypeOK
    <2> QED BY <2>1, <2>2, <2>3 DEF ExposedInv
  <1>3. ASSUME NEW b \in Buckets, RemoveSteps(b) PROVE f \in asked'
    BY <1>3, RemoveEffect, DeletedEffect DEF ExposedInv
  <1>4. CASE QuietSteps
    BY <1>4, QuietEffect DEF ExposedInv
  <1> QED BY <1>1, <1>2, <1>3, <1>4, Steps

(* No file can be read in the public bucket unless the server asked for    *)
(* it, or another file met it at a path.                                   *)
THEOREM Exposed == Spec => []ExposedOnlyOnRequest
  <1>1. Init => ExposedInv
    BY StateFacts DEF Init, ExposedInv, Places, At, Location
  <1>2. ExposedInv => ExposedOnlyOnRequest
    <2> SUFFICES ASSUME ExposedInv, NEW f \in Files, NEW p \in Paths,
                        objects["public"][p] = f, "clash" \notin disturbed[f]
                 PROVE  f \in asked
      BY DEF ExposedOnlyOnRequest
    <2>1. PICK l \in Location : l = [bucket |-> "public", path |-> p]
      BY DEF Location, Buckets
    <2>2. l.bucket = "public" /\ l \in Places(f)
      BY <2>1 DEF Places, At
    <2> QED BY <2>2 DEF ExposedInv
  <1> QED BY <1>1, <1>2, TypeInit, TypeNext, ExposedNext, PTL DEF Spec
------------------------------------------------------------------------------
(*                 Runs that move one file at once                         *)

(* Two runs for one file overlap, and only an overlap can finish the job   *)
(* of a run that goes on.                                                  *)
RunsInv ==
  /\ \A v, w \in Movers : Live(v) /\ Live(w) /\ v # w /\ JobOf(v).file = JobOf(w).file
       => "overlap" \in disturbed[JobOf(v).file]
  /\ \A w \in Movers : Live(w) /\ JobOf(w).status = "done"
       => "overlap" \in disturbed[JobOf(w).file]

(* When the runs in progress are some of those before, of the same files.  *)
LEMMA RunsKept ==
  ASSUME TypeOK, RunsInv, \A g \in Files : disturbed[g] \subseteq disturbed'[g],
         \A w \in Movers : Live(w)' => /\ Live(w) /\ JobOf(w)'.file = JobOf(w).file
                                       /\ \/ JobOf(w)'.status # "done"
                                          \/ JobOf(w).status = "done"
  PROVE  RunsInv'
  <1>1. \A w \in Movers : Live(w) => JobOf(w).file \in Files
    BY RunTypes
  <1>2. ASSUME NEW v \in Movers, NEW w \in Movers, Live(v)', Live(w)', v # w,
               JobOf(v)'.file = JobOf(w)'.file
        PROVE  "overlap" \in disturbed'[JobOf(v)'.file]
    BY <1>1, <1>2 DEF RunsInv
  <1>3. ASSUME NEW w \in Movers, Live(w)', JobOf(w)'.status = "done"
        PROVE  "overlap" \in disturbed'[JobOf(w)'.file]
    BY <1>1, <1>3 DEF RunsInv
  <1> QED BY <1>2, <1>3 DEF RunsInv

LEMMA RunsNext == TypeOK /\ RequestsInv /\ RunsInv /\ [Next]_vars => RunsInv'
  <1> SUFFICES ASSUME TypeOK, RequestsInv, RunsInv, [Next]_vars PROVE RunsInv'
    OBVIOUS
  <1>1. ASSUME NEW f \in Files, SaveSteps(f) PROVE RunsInv'
    <2>1. UNCHANGED <<jobs, moves>> /\ \A g \in Files : disturbed[g] \subseteq disturbed'[g]
      BY <1>1, SaveTypes, SaveEffect DEF besideSaves
    <2> QED BY <2>1, RunsKept DEF Live, JobOf
  <1>2. ASSUME NEW w \in Movers, MoveSteps(w) PROVE RunsInv'
    <2>1. /\ \A v \in Movers : Live(v)' => Live(v) /\ moves'[v].job = moves[v].job
          /\ \A g \in Files : disturbed[g] \subseteq disturbed'[g]
      BY <1>2, MoveTypes, MoveEffect DEF Live
    <2>2. CASE UNCHANGED jobs
      BY <2>1, <2>2, RunsKept DEF JobOf
    <2>3. CASE Finish(w)
      <3>1. PICK j \in Jobs : j = moves[w].job /\ Live(w)
        BY <1>2, MoveTypes, RunTypes
      <3>2. /\ jobs[j] \in VisibilityJob /\ jobs' = [jobs EXCEPT ![j].status = "done"]
            /\ UNCHANGED disturbed
        BY <2>3, <3>1, RunTypes DEF Finish
      <3>3. /\ jobs'[j].file = jobs[j].file
            /\ \A i \in Jobs \ {j} : jobs'[i] = jobs[i]
        BY <3>2, StatusEffect
      <3>4. ~Live(w)'
        BY <2>3 DEF Finish, NoMove, TypeOK, Live
      <3>5. \A v \in Movers : Live(v)' => JobOf(v)'.file = JobOf(v).file
        BY <2>1, <3>3, RunTypes DEF JobOf
      <3>6. ASSUME NEW v \in Movers, Live(v)', JobOf(v)'.status = "done"
            PROVE  "overlap" \in disturbed[JobOf(v).file]
        <4>1. CASE moves[v].job = j
          BY <2>1, <3>1, <3>4, <3>6, <4>1 DEF RunsInv, JobOf
        <4>2. CASE moves[v].job # j
          BY <2>1, <3>3, <3>6, <4>2, RunTypes DEF RunsInv, JobOf
        <4> QED BY <4>1, <4>2
      <3> QED BY <2>1, <3>2, <3>5, <3>6 DEF RunsInv
    <2> QED BY <1>2, <2>2, <2>3
      DEF MoveSteps, MoveStat, MoveCopy, MoveRefused, MoveRemove, MoveFails, Answer
  <1>3. ASSUME NEW b \in Buckets, RemoveSteps(b) PROVE RunsInv'
    BY <1>3, RunsKept, RemoveEffect, DeletedEffect DEF Live, JobOf
  <1>4. CASE QuietSteps
    <2>1. \A g \in Files : disturbed[g] \subseteq disturbed'[g]
      BY <1>4, QuietEffect
    <2>2. ASSUME NEW w \in Movers, NEW j \in Jobs, Lock(w, j) PROVE RunsInv'
      <3>1. /\ ~Live(w) /\ moves'[w] = [pc |-> "stat", job |-> j]
            /\ \A v \in Movers \ {w} : moves'[v] = moves[v]
            /\ jobs[j] \in VisibilityJob /\ jobs' = [jobs EXCEPT ![j].status = "locked"]
        BY <2>2, LockEffect
      <3>2. \A v \in Movers : Live(v) /\ JobOf(v).file = jobs[j].file
              => "overlap" \in disturbed'[jobs[j].file]
        BY <2>2, LockEffect
      <3>3. /\ jobs'[j].file = jobs[j].file /\ jobs'[j].status = "locked"
            /\ \A i \in Jobs \ {j} : jobs'[i] = jobs[i]
        BY <3>1, StatusEffect
      <3>4. ASSUME NEW v \in Movers \ {w}, Live(v)'
            PROVE  /\ Live(v) /\ JobOf(v)'.file = JobOf(v).file
                   /\ JobOf(v)'.status = "done" => JobOf(v).status = "done"
                   /\ JobOf(v).file \in Files
        BY <3>1, <3>3, <3>4, RunTypes DEF Live, JobOf
      <3>5. JobOf(w)' = jobs'[j]
        BY <3>1 DEF JobOf
      <3>6. ASSUME NEW u \in Movers, NEW v \in Movers, Live(u)', Live(v)', u # v,
                   JobOf(u)'.file = JobOf(v)'.file
            PROVE  "overlap" \in disturbed'[JobOf(u)'.file]
        BY <2>1, <3>2, <3>3, <3>4, <3>5, <3>6 DEF RunsInv
      <3>7. ASSUME NEW v \in Movers, Live(v)', JobOf(v)'.status = "done"
            PROVE  "overlap" \in disturbed'[JobOf(v)'.file]
        <4>1. v \in Movers \ {w}
          BY <3>3, <3>5, <3>7
        <4>2. /\ Live(v) /\ JobOf(v)'.file = JobOf(v).file /\ JobOf(v).status = "done"
              /\ JobOf(v).file \in Files
          BY <3>4, <3>7, <4>1
        <4> QED BY <2>1, <4>2 DEF RunsInv
      <3> QED BY <3>6, <3>7 DEF RunsInv
    <2>3. ASSUME NEW j \in Jobs, LockExpires(j) PROVE RunsInv'
      <3>1. /\ jobs[j] \in VisibilityJob /\ jobs' = [jobs EXCEPT ![j].status = "due"]
            /\ UNCHANGED moves
        BY <2>3 DEF LockExpires, TypeOK, besideMoves
      <3>2. /\ jobs'[j].file = jobs[j].file /\ jobs'[j].status = "due"
            /\ \A i \in Jobs \ {j} : jobs'[i] = jobs[i]
        BY <3>1, StatusEffect
      <3>3. \A v \in Movers : Live(v)' => Live(v)
        BY <3>1 DEF Live
      <3>4. \A v \in Movers : Live(v)' => /\ JobOf(v)'.file = JobOf(v).file
                                          /\ \/ JobOf(v)'.status # "done"
                                             \/ JobOf(v).status = "done"
        BY <3>1, <3>2, <3>3, RunTypes DEF JobOf
      <3> QED BY <2>1, <3>3, <3>4, RunsKept
    <2>4. ASSUME NEW j \in Jobs, ScheduleMove(j) PROVE RunsInv'
      <3>1. PICK job : jobs[j] = None /\ jobs' = [jobs EXCEPT ![j] = job] /\ UNCHANGED moves
        BY <2>4, ScheduleMoveEffect
      <3>2. \A v \in Movers : Live(v) => moves[v].job \in Jobs \ {j}
        BY <3>1 DEF TypeOK, JobOf
      <3>3. \A v \in Movers : Live(v) => JobOf(v)' = JobOf(v)
        BY <3>1, <3>2 DEF TypeOK, JobOf
      <3> QED BY <2>1, <3>1, <3>3, RunsKept DEF Live
    <2>5. CASE Crash
      <3>1. \A w \in Movers : ~Live(w)'
        BY <2>5, CrashEffect
      <3> QED BY <3>1 DEF RunsInv
    <2>6. ASSUME UNCHANGED <<jobs, moves>> PROVE RunsInv'
      BY <2>1, <2>6, RunsKept DEF Live, JobOf
    <2> QED BY <1>4, <2>2, <2>3, <2>4, <2>5, <2>6
      DEF QuietSteps, AskVisibility, AskDeletion, HandlerFails, Acknowledge, vars, besideMessages
  <1> QED BY <1>1, <1>2, <1>3, <1>4, Steps

LEMMA RunsInit == Init => RunsInv
  BY DEF Init, RunsInv, Live, NoMove
------------------------------------------------------------------------------
(*                       Where a file can be                               *)

(* A run that goes on is of the same job, for the same move.               *)
LEMMA JobKept ==
  ASSUME TypeOK, RequestsInv, [Next]_vars, NEW w \in Movers, Live(w),
         moves'[w].job = moves[w].job
  PROVE  /\ JobOf(w)'.file = JobOf(w).file /\ JobOf(w)'.from = JobOf(w).from
         /\ Destination(JobOf(w))' = Destination(JobOf(w))
  <1>1. PICK j \in Jobs : j = moves[w].job /\ jobs[j] # None
    BY RunTypes DEF TypeOK, JobOf
  <1>2. /\ jobs'[j].file = jobs[j].file /\ jobs'[j].from = jobs[j].from
        /\ jobs'[j].newState = jobs[j].newState
    <2>1. CASE UNCHANGED jobs
      BY <2>1
    <2>2. ASSUME NEW v \in Movers, MoveSteps(v)
          PROVE  /\ jobs'[j].file = jobs[j].file /\ jobs'[j].from = jobs[j].from
                 /\ jobs'[j].newState = jobs[j].newState
      BY <1>1, <2>2, MoveTypes
    <2>3. CASE QuietSteps
      BY <1>1, <2>3, QuietEffect
    <2>4. ASSUME NEW f \in Files, SaveSteps(f) PROVE UNCHANGED jobs
      BY <2>4, SaveTypes DEF besideSaves
    <2>5. ASSUME NEW b \in Buckets, RemoveSteps(b) PROVE UNCHANGED jobs
      BY <2>5, RemoveEffect
    <2> QED BY <2>1, <2>2, <2>3, <2>4, <2>5, Steps
  <1> QED BY <1>1, <1>2 DEF JobOf, Destination

(* A file has no place before it was put, one until the server is told of  *)
(* it, and is known once its result was sent.                              *)
SavesInv ==
  \A f \in Files :
    /\ known[f] # None <=> saves[f].pc = "told"
    /\ saves[f].pc \in {"new", "stat", "put"} /\ "clash" \notin disturbed[f]
         => Places(f) = {}
    /\ saves[f].pc = "stored" /\ "clash" \notin disturbed[f]
         => Places(f) = {SavedAt(f)}

LEMMA SavesInit == Init => SavesInv
  BY StateFacts DEF Init, SavesInv, Places, At, Location

LEMMA SavesNext == TypeOK /\ RequestsInv /\ SavesInv /\ [Next]_vars => SavesInv'
  <1> SUFFICES ASSUME TypeOK, RequestsInv, SavesInv, [Next]_vars, NEW f \in Files
               PROVE  /\ known'[f] # None <=> saves'[f].pc = "told"
                      /\ saves'[f].pc \in {"new", "stat", "put"} /\ "clash" \notin disturbed'[f]
                           => Places(f)' = {}
                      /\ saves'[f].pc = "stored" /\ "clash" \notin disturbed'[f]
                           => Places(f)' = {SavedAt(f)'}
    BY DEF SavesInv
  <1> DEFINE Goal == /\ known'[f] # None <=> saves'[f].pc = "told"
                     /\ saves'[f].pc \in {"new", "stat", "put"} /\ "clash" \notin disturbed'[f]
                          => Places(f)' = {}
                     /\ saves'[f].pc = "stored" /\ "clash" \notin disturbed'[f]
                          => Places(f)' = {SavedAt(f)'}
  <1>1. /\ UNCHANGED objects => Places(f)' = Places(f)
        /\ saves'[f] = saves[f] => SavedAt(f)' = SavedAt(f)
    BY DEF Places, At, SavedAt
  <1>2. ASSUME NEW g \in Files, SaveSteps(g) PROVE Goal
    <2>1. disturbed[f] \subseteq disturbed'[f]
      BY <1>2, SaveEffect
    <2>2. CASE g # f
      BY <1>1, <1>2, <2>1, <2>2, SaveEffect DEF SavesInv
    <2>3. CASE g = f
      <3>1. SavedAt(f) # None
        BY ObjectTypes, StateFacts
      <3>2. CASE saves[f].pc = "put" /\ saves'[f].pc = "stored"
        <4>1. /\ UNCHANGED known /\ SavedAt(f)' = SavedAt(f)
              /\ "clash" \notin disturbed'[f] => Places(f)' = Places(f) \union {SavedAt(f)}
          BY <1>2, <2>3, <3>2, SaveEffect
        <4> QED BY <2>1, <3>2, <4>1 DEF SavesInv
      <3>3. CASE ~(saves[f].pc = "put" /\ saves'[f].pc = "stored")
        BY <1>1, <1>2, <2>1, <2>3, <3>1, <3>3, SaveEffect DEF SavesInv
      <3> QED BY <3>2, <3>3
    <2> QED BY <2>2, <2>3
  <1>3. ASSUME NEW w \in Movers, MoveSteps(w) PROVE Goal
    <2>1. Live(w) /\ UNCHANGED saves /\ disturbed[f] \subseteq disturbed'[f]
      BY <1>3, MoveTypes, MoveEffect DEF besideMoves
    <2>2. known'[f] # None <=> known[f] # None
      <3>1. known[JobOf(w).file] # None /\ Destination(JobOf(w)) # None
        BY <2>1, RunTypes, StateFacts
      <3> QED BY <1>3, <3>1, MoveEffect DEF TypeOK
    <2>3. f = JobOf(w).file => saves[f].pc = "told"
      BY <2>1, RunTypes DEF SavesInv
    <2>4. saves[f].pc # "told" /\ "clash" \notin disturbed'[f] => Places(f)' = Places(f)
      BY <1>3, <2>1, <2>3, MoveEffect
    <2> QED BY <1>1, <2>1, <2>2, <2>4 DEF SavesInv
  <1>4. ASSUME NEW b \in Buckets, RemoveSteps(b) PROVE Goal
    <2>1. UNCHANGED <<saves, known>> /\ disturbed[f] \subseteq disturbed'[f]
      BY <1>4, RemoveEffect, DeletedEffect
    <2>2. saves[f].pc # "told" /\ "clash" \notin disturbed'[f] => Places(f)' = Places(f)
      BY <1>4, DeletedEffect DEF RequestsInv, SavesInv
    <2> QED BY <1>1, <2>1, <2>2 DEF SavesInv
  <1>5. CASE QuietSteps
    <2>1. /\ UNCHANGED known /\ Places(f)' = Places(f) /\ disturbed[f] \subseteq disturbed'[f]
          /\ \/ saves'[f] = saves[f]
             \/ saves'[f].pc = "failed" /\ saves[f].pc # "told"
      BY <1>5, QuietEffect
    <2> QED BY <1>1, <2>1 DEF SavesInv
  <1> QED BY <1>2, <1>3, <1>4, <1>5, Steps

(* A file that was put keeps a place, since a move that has yet to remove  *)
(* it has copied it elsewhere.                                             *)
KeptInv ==
  \A f \in Files :
    f \notin deleted /\ disturbed[f] \intersect {"overlap", "clash"} = {}
      => /\ Stored(f) => Places(f) # {}
         /\ \A w \in Movers : moves[w].pc = "remove" /\ JobOf(w).file = f
              => /\ Destination(JobOf(w)) \in Places(f)
                 /\ JobOf(w).from # Destination(JobOf(w))

LEMMA KeptNext ==
  TypeOK /\ RequestsInv /\ RunsInv /\ SavesInv /\ KeptInv /\ [Next]_vars => KeptInv'
  <1> SUFFICES ASSUME TypeOK, RequestsInv, RunsInv, SavesInv, KeptInv, [Next]_vars,
                      NEW f \in Files, f \notin deleted',
                      disturbed'[f] \intersect {"overlap", "clash"} = {}
               PROVE  /\ Stored(f)' => Places(f)' # {}
                      /\ \A w \in Movers : moves'[w].pc = "remove" /\ JobOf(w)'.file = f
                           => /\ Destination(JobOf(w))' \in Places(f)'
                              /\ JobOf(w)'.from # Destination(JobOf(w))'
    BY DEF KeptInv
  <1> DEFINE Kept == Stored(f)' => Places(f)' # {}
             CopyKept(w) == moves'[w].pc = "remove" /\ JobOf(w)'.file = f
                           => /\ Destination(JobOf(w))' \in Places(f)'
                              /\ JobOf(w)'.from # Destination(JobOf(w))'
  <1>1. ASSUME NEW w \in Movers, moves'[w] = moves[w], moves[w].pc = "remove",
               JobOf(w)'.file = f, f \notin deleted,
               disturbed[f] \intersect {"overlap", "clash"} = {}
        PROVE  /\ JobOf(w).file = f
               /\ Destination(JobOf(w))' \in Places(f)
               /\ JobOf(w)'.from # Destination(JobOf(w))'
    BY <1>1, JobKept DEF KeptInv, Live
  <1>2. ASSUME NEW g \in Files, SaveSteps(g) PROVE Kept /\ \A w \in Movers : CopyKept(w)
    <2>1. /\ UNCHANGED <<deleted, moves, jobs>> /\ disturbed[f] \subseteq disturbed'[f]
          /\ f \notin deleted /\ disturbed[f] \intersect {"overlap", "clash"} = {}
      BY <1>2, SaveTypes, SaveEffect DEF besideSaves
    <2>2. CASE g # f
      <3>1. saves'[f] = saves[f] /\ Places(f)' = Places(f)
        BY <1>2, <2>2, SaveEffect
      <3> QED BY <1>1, <2>1, <3>1 DEF KeptInv, Stored
    <2>3. CASE g = f
      <3>1. \A w \in Movers : moves[w].pc = "remove" => JobOf(w).file # f
        BY <1>2, <2>3, SaveEffect, RunTypes DEF SavesInv, Live
      <3>2. Kept
        <4>1. UNCHANGED objects => Places(f)' = Places(f)
          BY DEF Places, At
        <4> QED BY <1>2, <2>1, <2>3, <4>1, SaveEffect DEF KeptInv, Stored
      <3> QED BY <2>1, <3>1, <3>2 DEF JobOf
    <2> QED BY <2>2, <2>3
  <1>3. ASSUME NEW v \in Movers, MoveSteps(v) PROVE Kept /\ \A w \in Movers : CopyKept(w)
    <2>1. /\ UNCHANGED <<deleted, saves>> /\ disturbed[f] \subseteq disturbed'[f] /\ Live(v)
          /\ f \notin deleted /\ disturbed[f] \intersect {"overlap", "clash"} = {}
          /\ "clash" \notin disturbed'[f]
      BY <1>3, MoveTypes, MoveEffect DEF besideMoves
    <2>2. \/ Places(f) \subseteq Places(f)'
          \/ /\ f = JobOf(v).file /\ moves[v].pc = "remove"
             /\ Places(f)' = Places(f) \ {JobOf(v).from}
      BY <1>3, <2>1, MoveEffect
    <2>3. Kept
      BY <2>1, <2>2 DEF KeptInv, Stored
    <2>4. ASSUME NEW w \in Movers \ {v}, moves'[w].pc = "remove", JobOf(w)'.file = f
          PROVE  /\ Destination(JobOf(w))' \in Places(f)'
                 /\ JobOf(w)'.from # Destination(JobOf(w))'
      <3>1. moves'[w] = moves[w]
        BY <1>3, MoveTypes
      <3>2. /\ JobOf(w).file = f /\ Destination(JobOf(w))' \in Places(f)
            /\ JobOf(w)'.from # Destination(JobOf(w))'
        BY <1>1, <2>1, <2>4, <3>1
      <3>3. JobOf(v).file # f
        BY <2>1, <2>4, <3>1, <3>2 DEF RunsInv, Live
      <3> QED BY <2>2, <3>2, <3>3
    <2>5. ASSUME moves'[v].pc = "remove", JobOf(v)'.file = f
          PROVE  /\ Destination(JobOf(v))' \in Places(f)'
                 /\ JobOf(v)'.from # Destination(JobOf(v))'
      <3>1. moves'[v].job = moves[v].job
        BY <1>3, <2>5, MoveTypes
      <3>2. /\ JobOf(v)'.file = JobOf(v).file /\ JobOf(v)'.from = JobOf(v).from
            /\ Destination(JobOf(v))' = Destination(JobOf(v))
        BY <2>1, <3>1, JobKept
      <3> QED BY <1>3, <2>1, <2>5, <3>2, MoveEffect
    <2> QED BY <2>3, <2>4, <2>5
  <1>4. ASSUME NEW b \in Buckets, RemoveSteps(b) PROVE Kept /\ \A w \in Movers : CopyKept(w)
    <2>1. /\ UNCHANGED <<deleted, saves, moves>> /\ disturbed[f] \subseteq disturbed'[f]
          /\ f \notin deleted /\ disturbed[f] \intersect {"overlap", "clash"} = {}
          /\ f \notin message.files
      BY <1>4, RemoveEffect, DeletedEffect DEF RequestsInv
    <2>2. Places(f)' = Places(f)
      BY <1>4, <2>1, DeletedEffect
    <2> QED BY <1>1, <2>1, <2>2 DEF KeptInv, Stored
  <1>5. CASE QuietSteps
    <2>1. /\ Places(f)' = Places(f) /\ disturbed[f] \subseteq disturbed'[f]
          /\ f \notin deleted /\ disturbed[f] \intersect {"overlap", "clash"} = {}
          /\ Stored(f)' => Stored(f)
      BY <1>5, QuietEffect DEF Stored
    <2>2. \A w \in Movers : moves'[w].pc = "remove" => moves'[w] = moves[w]
      BY <1>5, QuietEffect DEF Live
    <2> QED BY <1>1, <2>1, <2>2 DEF KeptInv
  <1> QED BY <1>2, <1>3, <1>4, <1>5, Steps

(* A file that was put is in a bucket until its deletion is asked for,     *)
(* unless two moves of it overlapped or another file met it at a path.     *)
THEOREM FilesKept == Spec => []NoFileLost
  <1>1. Init => KeptInv
    BY DEF Init, KeptInv, Stored, NoMove
  <1>2. KeptInv => NoFileLost
    BY DEF KeptInv, NoFileLost
  <1> QED BY <1>1, <1>2, TypeInit, TypeNext, RunsInit, RunsNext, SavesInit, SavesNext,
             KeptNext, PTL DEF Spec
------------------------------------------------------------------------------
(*               Where the server was told that a file is                  *)

(* A file that nothing crossed, as the server knows it.                    *)
Clean(f) == /\ known[f] # None /\ f \notin deleted
            /\ disturbed[f] \intersect {"overlap", "clash", "interrupted"} = {}

RunOf(w, f) == Live(w) /\ JobOf(w).file = f

(* The copy and the removal of a move are the one time when a file is      *)
(* elsewhere than where the server was told.                               *)
LocatedInv ==
  \A f \in Files : Clean(f)
    => /\ \A w \in Movers : RunOf(w, f)
            => /\ moves[w].pc = "remove"
                    => Places(f) = {JobOf(w).from, Destination(JobOf(w))}
               /\ moves[w].pc = "moved" => Places(f) = {Destination(JobOf(w))}
       /\ (\A w \in Movers : RunOf(w, f) => moves[w].pc \notin {"remove", "moved"})
            => Places(f) = {known[f]}

(* When the runs of a file go on as they were, and it stays where it is.   *)
LEMMA LocatedKept ==
  ASSUME TypeOK, RequestsInv, LocatedInv, [Next]_vars, NEW f \in Files, Clean(f),
         Places(f)' = Places(f), known'[f] = known[f],
         \A w \in Movers : RunOf(w, f) => moves'[w] = moves[w],
         \A w \in Movers : RunOf(w, f)'
           => (Live(w) /\ moves'[w] = moves[w]) \/ moves'[w].pc = "stat"
  PROVE  /\ \A w \in Movers : RunOf(w, f)'
              => /\ moves'[w].pc = "remove"
                      => Places(f)' = {JobOf(w)'.from, Destination(JobOf(w))'}
                 /\ moves'[w].pc = "moved" => Places(f)' = {Destination(JobOf(w))'}
         /\ (\A w \in Movers : RunOf(w, f)' => moves'[w].pc \notin {"remove", "moved"})
              => Places(f)' = {known'[f]}
  <1>1. ASSUME NEW w \in Movers, RunOf(w, f)', moves'[w].pc # "stat"
        PROVE  /\ RunOf(w, f) /\ moves'[w] = moves[w]
               /\ JobOf(w)'.from = JobOf(w).from
               /\ Destination(JobOf(w))' = Destination(JobOf(w))
    BY <1>1, JobKept DEF RunOf, Live
  <1>2. ASSUME NEW w \in Movers, RunOf(w, f) PROVE RunOf(w, f)' /\ moves'[w] = moves[w]
    BY <1>2, JobKept DEF RunOf, Live
  <1> QED BY <1>1, <1>2 DEF LocatedInv

LEMMA LocatedMove ==
  ASSUME TypeOK, RequestsInv, RunsInv, KeptInv, LocatedInv, [Next]_vars,
         NEW v \in Movers, MoveSteps(v),
         NEW f \in Files, Clean(f), JobOf(v).file = f,
         disturbed'[f] \intersect {"overlap", "clash", "interrupted"} = {}
  PROVE  /\ \A w \in Movers : RunOf(w, f)'
              => /\ moves'[w].pc = "remove"
                      => Places(f)' = {JobOf(w)'.from, Destination(JobOf(w))'}
                 /\ moves'[w].pc = "moved" => Places(f)' = {Destination(JobOf(w))'}
         /\ (\A w \in Movers : RunOf(w, f)' => moves'[w].pc \notin {"remove", "moved"})
              => Places(f)' = {known'[f]}
  <1>1. Live(v) /\ \A w \in Movers \ {v} : moves'[w] = moves[w]
    BY MoveTypes
  <1>2. /\ \A w \in Movers : RunOf(w, f) => w = v
        /\ \A w \in Movers : RunOf(w, f)' => w = v
    <2>1. \A w \in Movers : RunOf(w, f) => w = v
      BY <1>1 DEF RunsInv, RunOf, Clean
    <2>2. ASSUME NEW w \in Movers \ {v}, RunOf(w, f)' PROVE RunOf(w, f)
      BY <1>1, <2>2, JobKept DEF RunOf, Live
    <2> QED BY <2>1, <2>2
  <1>3. RunOf(v, f)'
          => /\ JobOf(v)'.from = JobOf(v).from
             /\ Destination(JobOf(v))' = Destination(JobOf(v))
    BY <1>1, MoveTypes, JobKept DEF RunOf, Live
  <1>4. moves'[v].pc \in {"remove", "moved"} => RunOf(v, f)'
    BY <1>1, MoveTypes, JobKept DEF RunOf, Live
  <1>5. /\ moves[v].pc = "remove"
             => /\ Places(f) = {JobOf(v).from, Destination(JobOf(v))}
                /\ JobOf(v).from # Destination(JobOf(v))
        /\ moves[v].pc = "moved" => Places(f) = {Destination(JobOf(v))}
        /\ moves[v].pc \notin {"remove", "moved"} => Places(f) = {known[f]}
    BY <1>1, <1>2 DEF LocatedInv, KeptInv, RunOf, Clean
  <1>6. CASE moves'[v].pc = "remove"
    <2>1. /\ moves[v].pc = "copy" /\ JobOf(v).from \in Places(f)
          /\ Places(f)' = Places(f) \union {Destination(JobOf(v))}
      BY <1>6, MoveEffect
    <2>2. Places(f)' = {JobOf(v).from, Destination(JobOf(v))}
      BY <1>5, <2>1
    <2> QED BY <1>2, <1>3, <1>4, <1>6, <2>2
  <1>7. CASE moves'[v].pc = "moved"
    <2>1. moves[v].pc = "remove" /\ Places(f)' = Places(f) \ {JobOf(v).from}
      BY <1>7, MoveEffect
    <2>2. Places(f)' = {Destination(JobOf(v))}
      BY <1>5, <2>1
    <2> QED BY <1>2, <1>3, <1>4, <1>7, <2>2
  <1>8. CASE moves'[v].pc \notin {"remove", "moved"}
    <2>1. Places(f)' = Places(f) /\ moves[v].pc # "remove"
      BY <1>8, MoveEffect
    <2>2. known'[f] = IF moves[v].pc = "moved" THEN Destination(JobOf(v)) ELSE known[f]
      BY MoveEffect DEF TypeOK
    <2>3. Places(f)' = {known'[f]}
      BY <1>5, <2>1, <2>2
    <2> QED BY <1>2, <1>8, <2>3
  <1> QED BY <1>6, <1>7, <1>8

LEMMA LocatedNext ==
  TypeOK /\ RequestsInv /\ RunsInv /\ SavesInv /\ KeptInv /\ LocatedInv /\ [Next]_vars
    => LocatedInv'
  <1> SUFFICES ASSUME TypeOK, RequestsInv, RunsInv, SavesInv, KeptInv, LocatedInv, [Next]_vars,
                      NEW f \in Files, Clean(f)'
               PROVE  /\ \A w \in Movers : RunOf(w, f)'
                           => /\ moves'[w].pc = "remove"
                                   => Places(f)' = {JobOf(w)'.from, Destination(JobOf(w))'}
                              /\ moves'[w].pc = "moved"
                                   => Places(f)' = {Destination(JobOf(w))'}
                      /\ (\A w \in Movers : RunOf(w, f)'
                            => moves'[w].pc \notin {"remove", "moved"})
                           => Places(f)' = {known'[f]}
    BY DEF LocatedInv
  <1> DEFINE Goal == /\ \A w \in Movers : RunOf(w, f)'
                          => /\ moves'[w].pc = "remove"
                                  => Places(f)' = {JobOf(w)'.from, Destination(JobOf(w))'}
                             /\ moves'[w].pc = "moved" => Places(f)' = {Destination(JobOf(w))'}
                     /\ (\A w \in Movers : RunOf(w, f)'
                           => moves'[w].pc \notin {"remove", "moved"})
                          => Places(f)' = {known'[f]}
  <1>1. /\ f \notin deleted' /\ "clash" \notin disturbed'[f]
        /\ disturbed'[f] \intersect {"overlap", "clash", "interrupted"} = {}
    BY DEF Clean
  <1>2. ASSUME NEW g \in Files, SaveSteps(g) PROVE Goal
    <2>1. UNCHANGED <<deleted, moves, jobs>> /\ disturbed[f] \subseteq disturbed'[f]
      BY <1>2, SaveTypes, SaveEffect DEF besideSaves
    <2>2. CASE g # f
      <3>1. known'[f] = known[f] /\ Places(f)' = Places(f)
        BY <1>1, <1>2, <2>2, SaveEffect
      <3>2. Clean(f)
        BY <1>1, <2>1, <3>1 DEF Clean
      <3>3. \A w \in Movers : RunOf(w, f)' \/ RunOf(w, f) => Live(w) /\ moves'[w] = moves[w]
        BY <2>1 DEF RunOf, Live
      <3> QED BY <3>1, <3>2, <3>3, LocatedKept
    <2>3. CASE g = f
      <3>1. saves[f].pc # "told" /\ known[f] = None /\ known'[f] # None
        BY <1>2, <2>3, SaveEffect DEF SavesInv, Clean
      <3>2. /\ saves[f].pc = "stored" /\ UNCHANGED objects /\ known'[f] = SavedAt(f)
        BY <1>2, <2>3, <3>1, SaveEffect
      <3>3. Places(f)' = {known'[f]}
        BY <1>1, <2>1, <3>2 DEF SavesInv, Places, At
      <3>4. \A w \in Movers : ~RunOf(w, f)'
        BY <2>1, <3>1, RunTypes DEF RunOf, Live, JobOf
      <3> QED BY <3>3, <3>4
    <2> QED BY <2>2, <2>3
  <1>3. ASSUME NEW v \in Movers, MoveSteps(v) PROVE Goal
    <2>1. /\ UNCHANGED deleted /\ disturbed[f] \subseteq disturbed'[f] /\ Live(v)
          /\ \A w \in Movers \ {v} : moves'[w] = moves[w]
          /\ moves'[v].pc # "idle" => moves'[v].job = moves[v].job
      BY <1>3, MoveTypes, MoveEffect DEF besideMoves
    <2>2. known[f] # None
      BY <1>3, <2>1, MoveEffect, RunTypes DEF TypeOK, Clean
    <2>3. Clean(f)
      BY <1>1, <2>1, <2>2 DEF Clean
    <2>4. CASE JobOf(v).file = f
      BY <1>1, <1>3, <2>3, <2>4, LocatedMove
    <2>5. CASE JobOf(v).file # f
      <3>1. Places(f)' = Places(f)
        BY <1>1, <1>3, <2>5, MoveEffect
      <3>2. known'[f] = known[f]
        BY <1>3, <2>5, MoveEffect DEF TypeOK
      <3>3. ~RunOf(v, f) /\ ~RunOf(v, f)'
        BY <2>1, <2>5, JobKept DEF RunOf, Live
      <3>4. \A w \in Movers : RunOf(w, f)' \/ RunOf(w, f) => Live(w) /\ moves'[w] = moves[w]
        BY <2>1, <3>3 DEF RunOf, Live
      <3> QED BY <2>3, <3>1, <3>2, <3>4, LocatedKept
    <2> QED BY <2>4, <2>5
  <1>4. ASSUME NEW b \in Buckets, RemoveSteps(b) PROVE Goal
    <2>1. UNCHANGED <<known, deleted, moves, jobs>> /\ disturbed[f] \subseteq disturbed'[f]
      BY <1>4, RemoveEffect, DeletedEffect
    <2>2. Places(f)' = Places(f)
      BY <1>1, <1>4, <2>1, RemoveEffect, DeletedEffect DEF RequestsInv
    <2>3. Clean(f)
      BY <1>1, <2>1 DEF Clean
    <2>4. \A w \in Movers : RunOf(w, f)' \/ RunOf(w, f) => Live(w) /\ moves'[w] = moves[w]
      BY <2>1 DEF RunOf, Live
    <2> QED BY <2>1, <2>2, <2>3, <2>4, LocatedKept
  <1>5. CASE QuietSteps
    <2>1. /\ UNCHANGED known /\ Places(f)' = Places(f) /\ disturbed[f] \subseteq disturbed'[f]
          /\ deleted \subseteq deleted'
      BY <1>5, QuietEffect
    <2>2. Clean(f)
      BY <1>1, <2>1 DEF Clean
    <2>3. \A w \in Movers : RunOf(w, f) => moves'[w] = moves[w]
      BY <1>1, <1>5, QuietEffect DEF RunOf
    <2>4. \A w \in Movers : RunOf(w, f)'
            => (Live(w) /\ moves'[w] = moves[w]) \/ moves'[w].pc = "stat"
      BY <1>5, QuietEffect DEF RunOf, Live
    <2> QED BY <2>1, <2>2, <2>3, <2>4, LocatedKept
  <1> QED BY <1>2, <1>3, <1>4, <1>5, Steps

(* Between moves a file is where the server was told, and nowhere else,    *)
(* unless a crash or a failed call cut a move of it short, two moves of it *)
(* overlapped or another file met it at a path.                            *)
THEOREM Located == Spec => []LocationIsKnown
  <1>1. Init => KeptInv /\ LocatedInv
    BY DEF Init, KeptInv, LocatedInv, Clean, Stored, NoMove
  <1>2. LocatedInv => LocationIsKnown
    BY DEF LocatedInv, LocationIsKnown, Clean, RunOf
  <1> QED BY <1>1, <1>2, TypeInit, TypeNext, RunsInit, RunsNext, SavesInit, SavesNext,
             KeptNext, LocatedNext, PTL DEF Spec
------------------------------------------------------------------------------
(*                     Files that were deleted                             *)

(* A deleted file that nothing crossed: its moves are over, and what is    *)
(* left of it is where the deletion message has yet to look.               *)
DeletedInv ==
  \A f \in deleted : disturbed[f] = {}
    => /\ \A j \in Jobs : jobs[j] # None /\ jobs[j].file = f => jobs[j].status = "done"
       /\ Places(f) \subseteq {known[f]}
       /\ f \in message.files => known[f] \in message.locations
       /\ \/ f \in message.files /\ known[f].bucket \in message.todo
          \/ Places(f) = {}

(* Nothing moves a file of which every job is done.                        *)
LEMMA NoRun ==
  ASSUME TypeOK, RunsInv, NEW f \in Files, disturbed[f] = {},
         \A j \in Jobs : jobs[j] # None /\ jobs[j].file = f => jobs[j].status = "done"
  PROVE  \A w \in Movers : ~RunOf(w, f)
  BY RunTypes DEF RunsInv, RunOf, TypeOK

(* A job of a file, unless it is a new one, keeps its file.                *)
LEMMA DoneJobs ==
  ASSUME TypeOK, RequestsInv, RunsInv, [Next]_vars, NEW f \in deleted, disturbed[f] = {},
         \A j \in Jobs : jobs[j] # None /\ jobs[j].file = f => jobs[j].status = "done"
  PROVE  \A j \in Jobs : jobs'[j] # None /\ jobs'[j].file = f => jobs'[j].status = "done"
  <1> DEFINE Goal == \A j \in Jobs : jobs'[j] # None /\ jobs'[j].file = f
                                       => jobs'[j].status = "done"
  <1>1. UNCHANGED jobs => Goal
    OBVIOUS
  <1>2. ASSUME NEW w \in Movers, Finish(w) PROVE Goal
    <2>1. PICK j \in Jobs : j = moves[w].job /\ Live(w)
      BY <1>2, RunTypes DEF Finish, Live
    <2>2. jobs[j] \in VisibilityJob /\ jobs' = [jobs EXCEPT ![j].status = "done"]
      BY <1>2, <2>1, RunTypes DEF Finish
    <2>3. jobs'[j].status = "done" /\ \A i \in Jobs \ {j} : jobs'[i] = jobs[i]
      BY <2>2, StatusEffect
    <2> QED BY <2>3
  <1>3. ASSUME NEW w \in Movers, NEW j \in Jobs, Lock(w, j) PROVE Goal
    <2>1. /\ jobs[j] \in VisibilityJob /\ jobs' = [jobs EXCEPT ![j].status = "locked"]
          /\ jobs[j].status = "due"
      BY <1>3, LockEffect
    <2>2. /\ jobs'[j].file = jobs[j].file /\ jobs[j] # None
          /\ \A i \in Jobs \ {j} : jobs'[i] = jobs[i]
      BY <2>1, StatusEffect
    <2> QED BY <2>1, <2>2
  <1>4. ASSUME NEW j \in Jobs, ScheduleMove(j) PROVE Goal
    <2>1. PICK job \in VisibilityJob :
            /\ jobs' = [jobs EXCEPT ![j] = job] /\ job.file \in message.files
            /\ message.newState # None
      BY <1>4, ScheduleMoveEffect
    <2>2. job.file # f
      BY <2>1 DEF RequestsInv
    <2> QED BY <2>1, <2>2 DEF TypeOK
  <1>5. ASSUME NEW j \in Jobs, LockExpires(j) PROVE Goal
    <2>1. /\ jobs[j] \in VisibilityJob /\ jobs' = [jobs EXCEPT ![j].status = "due"]
          /\ jobs[j].status = "locked"
      BY <1>5 DEF LockExpires, TypeOK
    <2>2. /\ jobs'[j].file = jobs[j].file /\ jobs[j] # None
          /\ \A i \in Jobs \ {j} : jobs'[i] = jobs[i]
      BY <2>1, StatusEffect
    <2> QED BY <2>1, <2>2
  <1>6. \/ UNCHANGED jobs
        \/ \E w \in Movers : Finish(w)
        \/ \E w \in Movers, j \in Jobs : Lock(w, j)
        \/ \E j \in Jobs : ScheduleMove(j) \/ LockExpires(j)
    <2>1. \A g \in Files : SaveSteps(g) => UNCHANGED jobs
      BY SaveTypes DEF besideSaves
    <2>2. \A w \in Movers : MoveSteps(w) => UNCHANGED jobs \/ Finish(w)
      BY DEF MoveSteps, MoveStat, MoveCopy, MoveRefused, MoveRemove, MoveFails, Answer
    <2>3. \A b \in Buckets : RemoveSteps(b) => UNCHANGED jobs
      BY RemoveEffect
    <2>4. QuietSteps => \/ UNCHANGED jobs
                        \/ \E w \in Movers, j \in Jobs : Lock(w, j)
                        \/ \E j \in Jobs : ScheduleMove(j) \/ LockExpires(j)
      BY DEF QuietSteps, AskVisibility, AskDeletion, HandlerFails, Acknowledge, Crash, vars
    <2> QED BY <2>1, <2>2, <2>3, <2>4, Steps
  <1> QED BY <1>1, <1>2, <1>3, <1>4, <1>5, <1>6

LEMMA DeletedNext ==
  TypeOK /\ RequestsInv /\ RunsInv /\ SavesInv /\ LocatedInv /\ DeletedInv /\ [Next]_vars
    => DeletedInv'
  <1> DEFINE Left(f) == /\ Places(f) \subseteq {known[f]}
                        /\ f \in message.files => known[f] \in message.locations
                        /\ \/ f \in message.files /\ known[f].bucket \in message.todo
                           \/ Places(f) = {}
  <1> SUFFICES ASSUME TypeOK, RequestsInv, RunsInv, SavesInv, LocatedInv, DeletedInv,
                      [Next]_vars, NEW f \in deleted', disturbed'[f] = {}
               PROVE  /\ \A j \in Jobs : jobs'[j] # None /\ jobs'[j].file = f
                                           => jobs'[j].status = "done"
                      /\ Left(f)'
    BY DEF DeletedInv
  <1>1. UNCHANGED objects => \A g \in Files : Places(g)' = Places(g)
    BY DEF Places, At
  <1>2. deleted \subseteq Files /\ \A g \in deleted : known[g] # None
    BY DEF TypeOK
  <1>3. ASSUME NEW files \in SUBSET Files, AskDeletion(files), f \in files
        PROVE  /\ \A j \in Jobs : jobs'[j] # None /\ jobs'[j].file = f
                                    => jobs'[j].status = "done"
               /\ Left(f)'
    <2>1. /\ message'.files = files /\ message'.locations = {known[g] : g \in files}
          /\ message'.todo = {l.bucket : l \in {known[g] : g \in files}}
          /\ known[f] \in Location /\ f \notin deleted /\ UNCHANGED <<objects, known, jobs>>
          /\ disturbed[f] \subseteq disturbed'[f]
      BY <1>3, AskDeletionEffect
    <2>2. \A j \in Jobs : jobs[j] # None /\ jobs[j].file = f => jobs[j].status = "done"
      BY <1>3, AskDeletionEffect
    <2>3. disturbed[f] = {} /\ Clean(f)
      BY <2>1, StateFacts DEF Clean
    <2>4. Places(f) = {known[f]}
      BY <1>3, <2>2, <2>3, NoRun DEF LocatedInv
    <2>5. Places(f)' = {known'[f]} /\ known'[f] = known[f]
      BY <1>1, <1>3, <2>1, <2>4
    <2>6. known[f] \in message'.locations /\ known[f].bucket \in message'.todo
      BY <1>3, <2>1
    <2>7. Left(f)'
      BY <1>3, <2>1, <2>5, <2>6
    <2> QED BY <2>1, <2>2, <2>7
  <1>4. CASE ~(\E files \in SUBSET Files : AskDeletion(files) /\ f \in files)
    <2>1. f \in deleted /\ disturbed[f] \subseteq disturbed'[f]
      <3>1. \A files \in SUBSET Files : AskDeletion(files) => deleted' = deleted \union files
        BY AskDeletionEffect
      <3>2. \/ UNCHANGED deleted
            \/ \E files \in SUBSET Files : AskDeletion(files)
        <4>1. \A g \in Files : SaveSteps(g) => UNCHANGED deleted
          BY SaveTypes DEF besideSaves
        <4>2. \A w \in Movers : MoveSteps(w) => UNCHANGED deleted
          BY MoveTypes DEF besideMoves
        <4>3. \A b \in Buckets : RemoveSteps(b) => UNCHANGED deleted
          BY RemoveEffect
        <4>4. QuietSteps => \/ UNCHANGED deleted
                            \/ \E files \in SUBSET Files : AskDeletion(files)
          BY DEF QuietSteps, AskVisibility, ScheduleMove, HandlerFails, Acknowledge, Lock,
                 LockExpires, Crash, vars, besideMoves
        <4> QED BY <4>1, <4>2, <4>3, <4>4, Steps
      <3>3. f \in deleted
        BY <1>4, <3>1, <3>2
      <3> QED BY <1>2, <3>3, Steps, SaveEffect, MoveEffect, DeletedEffect, QuietEffect
    <2>2. disturbed[f] = {} /\ f \in Files /\ known[f] # None
      BY <1>2, <2>1
    <2>3. /\ \A j \in Jobs : jobs[j] # None /\ jobs[j].file = f => jobs[j].status = "done"
          /\ Left(f)
      BY <2>1, <2>2 DEF DeletedInv
    <2>4. \A j \in Jobs : jobs'[j] # None /\ jobs'[j].file = f => jobs'[j].status = "done"
      BY <2>1, <2>2, <2>3, DoneJobs
    <2> SUFFICES Left(f)'
      BY <2>4
    <2>5. f \in message.files => message.newState = None
      BY <2>1 DEF RequestsInv
    <2>6. ASSUME NEW g \in Files, SaveSteps(g) PROVE Left(f)'
      <3>1. g # f
        BY <2>2, <2>6, SaveEffect DEF SavesInv
      <3>2. Places(f)' = Places(f) /\ known'[f] = known[f] /\ UNCHANGED message
        BY <2>2, <2>6, <3>1, SaveEffect, SaveTypes DEF besideSaves
      <3> QED BY <2>3, <3>2
    <2>7. ASSUME NEW w \in Movers, MoveSteps(w) PROVE Left(f)'
      <3>1. Live(w) /\ JobOf(w).file # f
        BY <2>2, <2>3, <2>7, MoveTypes, NoRun DEF RunOf
      <3>2. Places(f)' = Places(f) /\ UNCHANGED message
        BY <2>2, <2>7, <3>1, MoveEffect, MoveTypes DEF besideMoves
      <3>3. known'[f] = known[f]
        BY <2>2, <2>7, <3>1, MoveEffect DEF TypeOK
      <3> QED BY <2>3, <3>2, <3>3
    <2>8. ASSUME NEW b \in Buckets, RemoveSteps(b) PROVE Left(f)'
      <3>1. message'.files = message.files /\ message'.locations = message.locations
            /\ UNCHANGED known
        BY <2>8, RemoveEffect DEF TypeOK
      <3>2. PICK locations \in SUBSET LocationsIn(b) :
              /\ locations = LocationsIn(b) \/ message'.todo = message.todo
              /\ Places(f)' = IF f \in message.files THEN Places(f) \ locations ELSE Places(f)
        BY <2>2, <2>8, DeletedEffect
      <3>3. Places(f)' \subseteq Places(f)
        BY <3>2
      <3>4. CASE message'.todo = message.todo
        BY <2>3, <3>1, <3>3, <3>4
      <3>5. CASE RemoveFrom(b) /\ locations = LocationsIn(b)
        <4>1. message'.todo = message.todo \ {b}
          BY <3>5 DEF RemoveFrom, TypeOK
        <4>2. f \in message.files /\ known[f].bucket = b => Places(f)' = {}
          BY <2>3, <3>2, <3>5 DEF LocationsIn
        <4> QED BY <2>3, <3>1, <3>3, <4>1, <4>2
      <3>6. RemoveFails(b) => message'.todo = message.todo
        BY DEF RemoveFails, TypeOK
      <3> QED BY <2>8, <3>2, <3>4, <3>5, <3>6 DEF RemoveSteps
    <2>9. CASE QuietSteps
      <3>1. Places(f)' = Places(f) /\ UNCHANGED known
        BY <2>2, <2>9, QuietEffect
      <3>2. ASSUME message'.files = message.files, message'.locations = message.locations,
                   message.todo \subseteq message'.todo
            PROVE  Left(f)'
        BY <2>3, <3>1, <3>2
      <3>3. ASSUME f \notin message'.files, f \notin message.files \/ message.todo = {}
            PROVE  Left(f)'
        BY <2>3, <3>1, <3>3
      <3>4. ASSUME NEW g \in Files, NEW state \in States, AskVisibility(g, state)
            PROVE  Left(f)'
        <4>1. message.pc = "idle" /\ message.files = {}
          BY <3>4 DEF AskVisibility, RequestsInv
        <4>2. message'.files = {g} /\ g \notin deleted
          BY <3>4, AskVisibilityEffect
        <4> QED BY <2>1, <3>3, <4>1, <4>2
      <3>5. ASSUME NEW files \in SUBSET Files, AskDeletion(files) PROVE Left(f)'
        <4>1. message.pc = "idle" /\ message.files = {}
          BY <3>5 DEF AskDeletion, RequestsInv
        <4>2. message'.files = files
          BY <3>5, AskDeletionEffect
        <4> QED BY <1>4, <3>3, <3>5, <4>1, <4>2
      <3>6. ASSUME NEW j \in Jobs, ScheduleMove(j) PROVE Left(f)'
        <4>1. message' = [message EXCEPT !.pc = "handled"]
          BY <3>6 DEF ScheduleMove
        <4> QED BY <3>2, <4>1 DEF TypeOK
      <3>7. CASE HandlerFails
        <4>1. message' = [message EXCEPT !.pc = "stalled"]
          BY <3>7 DEF HandlerFails
        <4> QED BY <3>2, <4>1 DEF TypeOK
      <3>8. CASE Acknowledge
        <4>1. message.pc = "handled" /\ message'.files = {}
          BY <3>8 DEF Acknowledge, NoMessage
        <4> QED BY <2>5, <3>3, <4>1 DEF RequestsInv
      <3>9. CASE Crash
        <4>1. /\ message'.files = message.files /\ message'.locations = message.locations
              /\ \/ message'.pc = "idle" /\ message.pc = "idle"
                 \/ /\ message'.pc = "queued"
                    /\ message.newState = None
                         => message'.todo = {l.bucket : l \in message.locations}
          BY <3>9, CrashEffect
        <4>2. CASE f \in message.files
          <5>1. message'.todo = {l.bucket : l \in message.locations}
            BY <2>5, <4>1, <4>2 DEF RequestsInv
          <5>2. known[f] \in message.locations /\ known[f].bucket \in message'.todo
            BY <2>3, <4>2, <5>1
          <5> QED BY <2>3, <3>1, <4>1, <4>2, <5>2
        <4>3. CASE f \notin message.files
          BY <3>3, <4>1, <4>3
        <4> QED BY <4>2, <4>3
      <3>10. ASSUME UNCHANGED message PROVE Left(f)'
        BY <3>2, <3>10
      <3> QED
        BY <2>9, <3>4, <3>5, <3>6, <3>7, <3>8, <3>9, <3>10
           DEF QuietSteps, Lock, LockExpires, besideMoves, vars
    <2> QED BY <2>6, <2>7, <2>8, <2>9, Steps
  <1> QED BY <1>3, <1>4

(* A file whose deletion was handled is in no bucket, unless its deletion  *)
(* was asked for while a request for it was not finished or a move of it   *)
(* was disturbed.                                                          *)
THEOREM Deleted == Spec => []DeletedIsGone
  <1>1. Init => KeptInv /\ LocatedInv /\ DeletedInv
    BY DEF Init, KeptInv, LocatedInv, DeletedInv, Clean, Stored, NoMove
  <1>2. DeletedInv => DeletedIsGone
    BY DEF DeletedInv, DeletedIsGone
  <1> QED BY <1>1, <1>2, TypeInit, TypeNext, RunsInit, RunsNext, SavesInit, SavesNext,
             KeptNext, LocatedNext, DeletedNext, PTL DEF Spec
------------------------------------------------------------------------------
(*                     What is promised for every file                     *)

(* The place where a clean file was copied from is the one that the server *)
(* knows.                                                                  *)
HeldInv ==
  \A f \in Files, w \in Movers :
    Clean(f) /\ RunOf(w, f) /\ moves[w].pc = "remove" => JobOf(w).from = known[f]

(* What the invariants say together.                                       *)
StoreInv == /\ TypeOK /\ RequestsInv /\ RunsInv /\ SavesInv /\ KeptInv
            /\ LocatedInv /\ DeletedInv /\ HeldInv

LEMMA CleanBefore ==
  ASSUME StoreInv, [Next]_vars, NEW f \in Files, known[f] # None, Clean(f)'
  PROVE  Clean(f) /\ "clash" \notin disturbed'[f]
  <1>1. disturbed[f] \subseteq disturbed'[f] /\ deleted \subseteq deleted'
    <2>1. \A g \in Files : SaveSteps(g) => deleted' = deleted
      BY SaveTypes DEF besideSaves, StoreInv
    <2>2. \A w \in Movers : MoveSteps(w) => deleted' = deleted
      BY MoveTypes DEF besideMoves, StoreInv
    <2>3. \A b \in Buckets : RemoveSteps(b) => deleted' = deleted
      BY RemoveEffect DEF StoreInv
    <2> QED BY <2>1, <2>2, <2>3, Steps, SaveEffect, MoveEffect, DeletedEffect, QuietEffect
            DEF StoreInv
  <1> QED BY <1>1 DEF Clean

LEMMA HeldNext ==
  ASSUME StoreInv, [Next]_vars PROVE HeldInv'
  <1> SUFFICES ASSUME NEW f \in Files, NEW w \in Movers, Clean(f)', RunOf(w, f)',
                      moves'[w].pc = "remove"
               PROVE  JobOf(w)'.from = known'[f]
    BY DEF HeldInv
  <1> USE DEF StoreInv
  <1>1. ASSUME moves'[w] = moves[w]
        PROVE  /\ RunOf(w, f) /\ known[f] # None /\ Clean(f)
               /\ JobOf(w)'.from = JobOf(w).from
               /\ JobOf(w)'.from = known[f]
    <2>1. Live(w) /\ moves'[w].job = moves[w].job
      BY <1>1 DEF Live
    <2>2. RunOf(w, f) /\ JobOf(w)'.from = JobOf(w).from
      BY <2>1, JobKept DEF RunOf
    <2>3. known[f] # None
      BY <2>2, RunTypes DEF RunOf
    <2>4. Clean(f)
      BY <2>3, CleanBefore
    <2> QED BY <1>1, <2>2, <2>3, <2>4 DEF HeldInv
  <1>2. ASSUME NEW g \in Files, SaveSteps(g) PROVE JobOf(w)'.from = known'[f]
    <2>1. moves' = moves
      BY <1>2, SaveTypes DEF besideSaves
    <2>2. g # f
      BY <1>1, <1>2, <2>1, SaveEffect DEF SavesInv
    <2>3. known'[f] = known[f]
      BY <1>2, <2>2, SaveEffect
    <2> QED BY <1>1, <2>1, <2>3
  <1>3. ASSUME NEW v \in Movers, MoveSteps(v) PROVE JobOf(w)'.from = known'[f]
    <2>1. Live(v) /\ \A u \in Movers \ {v} : moves'[u] = moves[u]
      BY <1>3, MoveTypes
    <2>2. CASE v = w
      <3>1. moves'[w].job = moves[w].job
        BY <1>3, <2>2, MoveTypes
      <3>2. RunOf(w, f) /\ JobOf(w)'.from = JobOf(w).from
        BY <2>1, <2>2, <3>1, JobKept DEF RunOf
      <3>3. known[f] # None
        BY <3>2, RunTypes DEF RunOf
      <3>4. Clean(f) /\ "clash" \notin disturbed'[f]
        BY <3>3, CleanBefore
      <3>5. moves[w].pc = "copy" /\ JobOf(w).from \in Places(f)
        BY <1>3, <2>2, <3>2, <3>4, MoveEffect DEF RunOf
      <3>6. \A u \in Movers : RunOf(u, f) => u = w
        BY <3>2, <3>4 DEF RunsInv, RunOf, Clean
      <3>7. Places(f) = {known[f]}
        BY <3>4, <3>5, <3>6 DEF LocatedInv
      <3>8. known' = known
        BY <1>3, <2>2, <3>5, MoveEffect
      <3> QED BY <3>2, <3>5, <3>7, <3>8
    <2>3. CASE v # w
      <3>1. moves'[w] = moves[w]
        BY <2>1, <2>3
      <3>2. JobOf(v).file # f
        BY <1>1, <2>1, <2>3, <3>1 DEF RunsInv, RunOf, Clean
      <3>3. known'[f] = known[f]
        BY <1>3, <3>2, MoveEffect DEF TypeOK
      <3> QED BY <1>1, <3>1, <3>3
    <2> QED BY <2>2, <2>3
  <1>4. ASSUME NEW b \in Buckets, RemoveSteps(b) PROVE JobOf(w)'.from = known'[f]
    <2>1. UNCHANGED <<moves, known>>
      BY <1>4, RemoveEffect
    <2> QED BY <1>1, <2>1
  <1>5. CASE QuietSteps
    <2>1. moves'[w] = moves[w] /\ UNCHANGED known
      BY <1>5, QuietEffect DEF RunOf
    <2> QED BY <1>1, <2>1
  <1> QED BY <1>2, <1>3, <1>4, <1>5, Steps

(* What the server is told and where the file is, as FileCustody has it.   *)
LEMMA CustodyOf ==
  /\ \A f \in Files : [g \in Files |-> Places(g)][f] = Places(f)
  /\ \A f \in Files : [g \in Files |-> Places(g)]'[f] = Places(f)'
  OBVIOUS

(* What a step does for a file of which the deletion is not asked.         *)
LEMMA FileHandled ==
  ASSUME StoreInv, [Next]_vars, NEW f \in Files, f \notin deleted',
         disturbed'[f] \intersect {"overlap", "clash", "interrupted"} = {}
  PROVE  \/ Custody!Rest(f) \/ Custody!Put(f) \/ Custody!Tell(f)
         \/ Custody!Copy(f) \/ Custody!GiveUp(f)
  <1> USE DEF StoreInv
  <1> DEFINE Goal == \/ Custody!Rest(f) \/ Custody!Put(f) \/ Custody!Tell(f)
                     \/ Custody!Copy(f) \/ Custody!GiveUp(f)
  <1>1. "clash" \notin disturbed'[f]
    OBVIOUS
  <1>2. f \notin deleted
    <2>1. \A g \in Files : SaveSteps(g) => deleted' = deleted
      BY SaveTypes DEF besideSaves
    <2>2. \A w \in Movers : MoveSteps(w) => deleted' = deleted
      BY MoveTypes DEF besideMoves
    <2>3. \A b \in Buckets : RemoveSteps(b) => deleted' = deleted
      BY RemoveEffect
    <2> QED BY <2>1, <2>2, <2>3, Steps, QuietEffect
  <1>3. ASSUME Places(f)' = Places(f), known'[f] = known[f] PROVE Goal
    <2>1. Custody!Rest(f)
      BY <1>3, CustodyOf DEF Custody!Rest
    <2> QED BY <2>1
  <1>4. ASSUME Places(f) = {known'[f]}, Places(f)' = Places(f) PROVE Goal
    <2>1. Custody!Tell(f)
      BY <1>2, <1>4, CustodyOf DEF Custody!Tell
    <2> QED BY <2>1
  <1>5. ASSUME NEW g \in Files, SaveSteps(g) PROVE Goal
    <2>1. disturbed[f] \subseteq disturbed'[f]
      BY <1>5, SaveEffect
    <2>2. CASE g # f
      BY <1>1, <1>3, <1>5, <2>2, SaveEffect
    <2>3. CASE g = f
      <3>1. saves[f].pc # "told" /\ known[f] = None
        BY <1>5, <2>3, SaveEffect DEF SavesInv
      <3>2. PICK l \in Location : l = SavedAt(f) /\ l.bucket = "private"
        BY ObjectTypes DEF SavedAt
      <3>3. ASSUME Places(f) = {}, Places(f)' = {l}, known' = known PROVE Goal
        <4>1. Custody!Put(f)
          BY <3>1, <3>2, <3>3, CustodyOf DEF Custody!Put
        <4> QED BY <4>1
      <3>4. CASE UNCHANGED <<objects, known>>
        BY <1>3, <3>4 DEF Places, At
      <3>5. CASE saves[f].pc = "put" /\ UNCHANGED known
        <4>1. Places(f) = {}
          BY <1>1, <2>1, <3>5 DEF SavesInv
        <4>2. Places(f)' \subseteq Places(f) \union {l}
          BY <1>1, <1>5, <2>3, <3>2, <3>5, SaveEffect
        <4>3. Places(f)' = {} \/ Places(f)' = {l}
          BY <4>1, <4>2
        <4> QED BY <1>3, <3>3, <3>5, <4>1, <4>3
      <3>6. CASE saves[f].pc = "stored" /\ UNCHANGED objects /\ known'[f] = SavedAt(f)
        <4>1. Places(f) = {known'[f]}
          BY <1>1, <2>1, <3>6 DEF SavesInv
        <4>2. Places(f)' = Places(f)
          BY <3>6 DEF Places, At
        <4> QED BY <1>4, <4>1, <4>2
      <3> QED BY <1>5, <2>3, <3>4, <3>5, <3>6, SaveEffect
    <2> QED BY <2>2, <2>3
  <1>6. ASSUME NEW v \in Movers, MoveSteps(v) PROVE Goal
    <2>1. Live(v)
      BY <1>6, MoveTypes
    <2>2. known' = IF moves[v].pc = "moved"
                   THEN [known EXCEPT ![JobOf(v).file] = Destination(JobOf(v))] ELSE known
      BY <1>6, MoveEffect
    <2>3. CASE JobOf(v).file # f
      <3>1. Places(f)' = Places(f)
        BY <1>1, <1>6, <2>3, MoveEffect
      <3>2. known'[f] = known[f]
        BY <2>2, <2>3 DEF TypeOK
      <3> QED BY <1>3, <3>1, <3>2
    <2>4. CASE JobOf(v).file = f
      <3>1. known[f] # None /\ RunOf(v, f)
        BY <2>1, <2>4, RunTypes DEF RunOf
      <3>2. Clean(f)
        <4>1. disturbed[f] \subseteq disturbed'[f]
          BY <1>6, MoveEffect
        <4> QED BY <1>2, <3>1, <4>1 DEF Clean
      <3>3. PICK from \in Location, to \in Location :
              from = JobOf(v).from /\ to = Destination(JobOf(v))
        BY <2>1, RunTypes
      <3>4. \A u \in Movers : RunOf(u, f) => u = v
        BY <3>1, <3>2 DEF RunsInv, RunOf, Clean
      <3>5. /\ moves[v].pc \notin {"remove", "moved"} => Places(f) = {known[f]}
            /\ moves[v].pc = "remove" => Places(f) = {from, to} /\ from = known[f] /\ from # to
            /\ moves[v].pc = "moved" => Places(f) = {to}
        <4>1. moves[v].pc \notin {"remove", "moved"} => Places(f) = {known[f]}
          BY <3>2, <3>4 DEF LocatedInv
        <4>2. moves[v].pc = "remove" => Places(f) = {from, to}
          BY <3>1, <3>2, <3>3 DEF LocatedInv
        <4>3. moves[v].pc = "moved" => Places(f) = {to}
          BY <3>1, <3>2, <3>3 DEF LocatedInv
        <4>4. moves[v].pc = "remove" => from = known[f]
          BY <3>1, <3>2, <3>3 DEF HeldInv
        <4>5. moves[v].pc = "remove" => from # to
          BY <2>4, <3>2, <3>3 DEF KeptInv, Clean
        <4> QED BY <4>1, <4>2, <4>3, <4>4, <4>5
      <3>6. CASE moves'[v].pc = "remove"
        <4>1. moves[v].pc = "copy" /\ from \in Places(f) /\ Places(f)' = Places(f) \union {to}
          BY <1>1, <1>6, <2>4, <3>3, <3>6, MoveEffect
        <4>2. Places(f) = {known[f]} /\ from = known[f] /\ known' = known
          BY <2>2, <3>5, <4>1
        <4>3. to.path = from.path /\ (to.bucket = "public" => f \in asked)
          <5>1. PICK j \in Jobs : j = moves[v].job /\ jobs[j] # None /\ JobOf(v) = jobs[j]
            BY <2>1, RunTypes, StateFacts
          <5>2. JobOf(v).newState = "PUBLIC" => f \in asked
            BY <2>4, <5>1 DEF RequestsInv
          <5> QED BY <3>3, <5>2 DEF Destination, NewBucket
        <4>4. Places(f)' = {known[f], to}
          BY <4>1, <4>2
        <4>5. Custody!Copy(f)
          BY <1>2, <4>2, <4>3, <4>4, CustodyOf DEF Custody!Copy
        <4> QED BY <4>5
      <3>7. CASE moves'[v].pc = "moved"
        <4>1. moves[v].pc = "remove" /\ Places(f)' = Places(f) \ {from}
          BY <1>1, <1>6, <2>4, <3>3, <3>7, MoveEffect
        <4>2. Places(f) = {known[f], to} /\ Places(f)' = {to} /\ known[f] # to /\ known' = known
          BY <2>2, <3>5, <4>1
        <4>3. known[f] \in Places(f) /\ Places(f)' = Places(f) \ {known[f]} /\ Places(f)' # {}
          BY <4>2
        <4>4. Custody!GiveUp(f)
          BY <1>2, <4>2, <4>3, CustodyOf DEF Custody!GiveUp
        <4> QED BY <4>4
      <3>8. CASE moves'[v].pc \notin {"remove", "moved"}
        <4>1. Places(f)' = Places(f) /\ moves[v].pc # "remove"
          BY <1>1, <1>6, <2>4, <3>8, MoveEffect
        <4>2. CASE moves[v].pc = "moved"
          <5>1. known'[f] = to
            BY <2>2, <2>4, <3>3, <4>2 DEF TypeOK
          <5> QED BY <1>4, <3>5, <4>1, <4>2, <5>1
        <4>3. CASE moves[v].pc # "moved"
          BY <1>3, <2>2, <4>1, <4>3
        <4> QED BY <4>2, <4>3
      <3> QED BY <3>6, <3>7, <3>8
    <2> QED BY <2>3, <2>4
  <1>7. ASSUME NEW b \in Buckets, RemoveSteps(b) PROVE Goal
    <2>1. UNCHANGED known /\ f \notin message.files
      BY <1>2, <1>7, RemoveEffect DEF RequestsInv
    <2>2. Places(f)' = Places(f)
      BY <1>1, <1>7, <2>1, DeletedEffect
    <2> QED BY <1>3, <2>1, <2>2
  <1>8. CASE QuietSteps
    BY <1>3, <1>8, QuietEffect
  <1> QED BY <1>5, <1>6, <1>7, <1>8, Steps

(* What a step does for a file of which the deletion was asked.            *)
LEMMA DeletedHandled ==
  ASSUME StoreInv, [Next]_vars, NEW f \in deleted, disturbed'[f] = {}
  PROVE  Custody!Rest(f) \/ Custody!Delete(f)
  <1> USE DEF StoreInv
  <1>1. f \in Files /\ known[f] # None /\ disturbed[f] \subseteq disturbed'[f]
    <2>1. f \in Files /\ known[f] # None
      BY DEF TypeOK
    <2> QED BY <2>1, Steps, SaveEffect, MoveEffect, DeletedEffect, QuietEffect
  <1>2. /\ Places(f) \subseteq {known[f]}
        /\ \A j \in Jobs : jobs[j] # None /\ jobs[j].file = f => jobs[j].status = "done"
    BY <1>1 DEF DeletedInv
  <1>3. known'[f] = known[f] /\ Places(f)' \subseteq Places(f)
    <2>1. ASSUME NEW g \in Files, SaveSteps(g)
          PROVE  known'[f] = known[f] /\ Places(f)' \subseteq Places(f)
      BY <1>1, <2>1, SaveEffect DEF SavesInv
    <2>2. ASSUME NEW v \in Movers, MoveSteps(v)
          PROVE  known'[f] = known[f] /\ Places(f)' \subseteq Places(f)
      <3>1. Live(v) /\ JobOf(v).file # f
        BY <1>1, <1>2, <2>2, MoveTypes, NoRun DEF RunOf
      <3>2. Places(f)' = Places(f)
        BY <1>1, <2>2, <3>1, MoveEffect
      <3>3. known'[f] = known[f]
        BY <1>1, <2>2, <3>1, MoveEffect DEF TypeOK
      <3> QED BY <3>2, <3>3
    <2>3. ASSUME NEW b \in Buckets, RemoveSteps(b)
          PROVE  known'[f] = known[f] /\ Places(f)' \subseteq Places(f)
      <3>1. UNCHANGED known
        BY <2>3, RemoveEffect
      <3>2. Places(f)' \subseteq Places(f)
        BY <1>1, <2>3, DeletedEffect
      <3> QED BY <3>1, <3>2
    <2>4. CASE QuietSteps
      BY <1>1, <2>4, QuietEffect
    <2> QED BY <2>1, <2>2, <2>3, <2>4, Steps
  <1>4. CASE Places(f)' = {}
    <2>1. Custody!Delete(f)
      BY <1>1, <1>3, <1>4, CustodyOf DEF Custody!Delete
    <2> QED BY <2>1
  <1>5. CASE Places(f)' = Places(f)
    <2>1. Custody!Rest(f)
      BY <1>1, <1>3, <1>5, CustodyOf DEF Custody!Rest
    <2> QED BY <2>1
  <1>6. Places(f)' = {} \/ Places(f)' = Places(f)
    BY <1>2, <1>3
  <1> QED BY <1>4, <1>5, <1>6

(* A file of which the deletion is being asked is where the server knows.  *)
LEMMA AskHandled ==
  ASSUME StoreInv, [Next]_vars, NEW f \in deleted', f \notin deleted, disturbed'[f] = {}
  PROVE  f \in Files /\ Custody!AskDeletion(f)
  <1> USE DEF StoreInv
  <1>1. PICK files \in SUBSET Files : AskDeletion(files) /\ f \in files
    <2>1. \A g \in Files : SaveSteps(g) => UNCHANGED deleted
      BY SaveTypes DEF besideSaves
    <2>2. \A w \in Movers : MoveSteps(w) => UNCHANGED deleted
      BY MoveTypes DEF besideMoves
    <2>3. \A b \in Buckets : RemoveSteps(b) => UNCHANGED deleted
      BY RemoveEffect
    <2>4. QuietSteps => \/ UNCHANGED deleted
                        \/ \E files \in SUBSET Files : AskDeletion(files)
      BY DEF QuietSteps, AskVisibility, ScheduleMove, HandlerFails, Acknowledge, Lock,
             LockExpires, Crash, vars, besideMoves
    <2>5. PICK files \in SUBSET Files : AskDeletion(files)
      BY <2>1, <2>2, <2>3, <2>4, Steps
    <2>6. deleted' = deleted \union files
      BY <2>5, AskDeletionEffect
    <2> QED BY <2>5, <2>6
  <1>2. /\ known[f] \in Location /\ UNCHANGED <<objects, known, jobs>>
        /\ disturbed[f] \subseteq disturbed'[f]
        /\ \A j \in Jobs : jobs[j] # None /\ jobs[j].file = f => jobs[j].status = "done"
    BY <1>1, AskDeletionEffect
  <1>3. disturbed[f] = {} /\ Clean(f)
    BY <1>2, StateFacts DEF Clean
  <1>4. Places(f) = {known[f]}
    BY <1>1, <1>2, <1>3, NoRun DEF LocatedInv
  <1>5. Places(f)' = Places(f)
    BY <1>2 DEF Places, At
  <1> QED BY <1>1, <1>2, <1>4, <1>5, CustodyOf DEF Custody!AskDeletion, Custody!Rest

LEMMA CustodyInit ==
  ASSUME Init PROVE StoreInv /\ Custody!Init
  <1>1. KeptInv /\ LocatedInv /\ DeletedInv /\ HeldInv
    BY DEF Init, KeptInv, LocatedInv, DeletedInv, HeldInv, Clean, Stored, NoMove
  <1>2. \A f \in Files : Places(f) = {}
    BY StateFacts DEF Init, Places, At, Location
  <1>3. known = [f \in Files |-> None] /\ asked = {} /\ deleted = {}
    BY DEF Init
  <1>4. Crossed = {}
    BY DEF Init, Crossed
  <1>5. [f \in Files |-> Places(f)] = [f \in Files |-> {}]
    BY <1>2
  <1>6. Custody!Init
    BY <1>3, <1>4, <1>5 DEF Custody!Init
  <1> QED BY <1>1, <1>6, TypeInit, RunsInit, SavesInit DEF StoreInv

LEMMA CustodyNext ==
  ASSUME StoreInv, [Next]_vars PROVE StoreInv' /\ Custody!Next
  <1>1. StoreInv'
    BY TypeNext, RunsNext, SavesNext, KeptNext, LocatedNext, DeletedNext, HeldNext DEF StoreInv
  <1>2. asked \subseteq asked' /\ deleted \subseteq deleted'
    <2>1. \A g \in Files : SaveSteps(g) => UNCHANGED <<asked, deleted>>
      BY SaveTypes DEF besideSaves, StoreInv
    <2>2. \A w \in Movers : MoveSteps(w) => UNCHANGED <<asked, deleted>>
      BY MoveTypes DEF besideMoves, StoreInv
    <2>3. \A b \in Buckets : RemoveSteps(b) => UNCHANGED <<asked, deleted>>
      BY RemoveEffect DEF StoreInv
    <2> QED BY <2>1, <2>2, <2>3, Steps, QuietEffect DEF StoreInv
  <1>3. Crossed \subseteq Crossed'
    <2>1. \A f \in Files : disturbed[f] \subseteq disturbed'[f]
      BY Steps, SaveEffect, MoveEffect, DeletedEffect, QuietEffect DEF StoreInv
    <2> QED BY <1>2, <2>1 DEF Crossed
  <1>4. ASSUME NEW f \in Files \ Crossed' PROVE Custody!Handle(f)
    <2>1. /\ disturbed'[f] \intersect {"overlap", "clash", "interrupted"} = {}
          /\ f \in deleted' => disturbed'[f] = {}
      BY <1>4 DEF Crossed
    <2>2. CASE f \notin deleted'
      BY <2>1, <2>2, FileHandled DEF Custody!Handle
    <2>3. CASE f \in deleted
      BY <1>2, <2>1, <2>3, DeletedHandled DEF Custody!Handle
    <2>4. CASE f \in deleted' /\ f \notin deleted
      BY <2>1, <2>4, AskHandled DEF Custody!Handle
    <2> QED BY <2>2, <2>3, <2>4
  <1> QED BY <1>1, <1>2, <1>3, <1>4 DEF Custody!Next

(* The calls, jobs and messages of the store come to no more for a file    *)
(* than being put once, copied to where it was asked to be before it is    *)
(* given up where it was, told of, and deleted for good (FileStorageService*)
(* and the visibility job), unless its handling was crossed.               *)
THEOREM StoreIsCustody == Spec => IsCustody
  <1>1. StoreInv /\ [Next]_vars => StoreInv' /\ [Custody!Next]_(Custody!vars)
    BY CustodyNext
  <1> QED BY <1>1, CustodyInit, PTL DEF Spec, IsCustody, Custody!Spec
=============================================================================
