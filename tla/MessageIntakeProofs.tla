------------------------- MODULE MessageIntakeProofs -------------------------
(***************************************************************************)
(* Proofs about MessageIntake, for any users, tasks, messages and bounds:  *)
(* the stored users follow the user messages, a task has one outcome and a *)
(* confirmed mode holds, through crashes, failed calls, messages given     *)
(* again and queues that stand.                                            *)
(***************************************************************************)
EXTENDS MessageIntake, FiniteSetTheorems, SequenceTheorems, WellFoundedInduction,
        TLAPS

Steps == {"ready", "found", "saved", "handled", "stalled"}

(* The queues: a consumer is past its first step only with a message in    *)
(* hand, and only that of the modes has more than one step.                *)
QueuesTyped ==
  /\ log \in [Queues -> Seq(UNION {Messages[q] : q \in Queues})]
  /\ acked \in [Queues -> Nat]
  /\ consumer \in [Queues -> Steps]
  /\ \A q \in Queues : /\ log[q] \in Seq(Messages[q])
                       /\ acked[q] =< Len(log[q])
                       /\ consumer[q] # "ready" => acked[q] < Len(log[q])
  /\ \A q \in Queues \ {"mode"} : consumer[q] \notin {"found", "saved"}

(* What the service stores and answers.                                    *)
DataTyped ==
  /\ found \subseteq DOMAIN documents
  /\ consumer["mode"] \notin {"found", "saved"} => found = {}
  /\ users \in [Users -> Credentials \union {None, Absent}]
  /\ documents \in Seq(Document)
  /\ runs \in [Workers -> Run \union {None}]
  /\ \A w \in Workers : runs[w] # None => runs[w].document \in DOMAIN documents
  /\ completed \subseteq DOMAIN documents
  /\ failed \subseteq Tasks
  /\ confirmed \in [Tasks -> {"ENABLED", "DISABLED", None}]

Typed == QueuesTyped /\ DataTyped

(* The queues and their messages.                                          *)
LEMMA QueueFacts ==
  ASSUME Typed, NEW q \in Queues
  PROVE  /\ log[q] \in Seq(Messages[q]) /\ Len(log[q]) \in Nat
         /\ DOMAIN log[q] = 1 .. Len(log[q])
         /\ acked[q] \in Nat /\ acked[q] =< Len(log[q])
         /\ \A n \in 1 .. Len(log[q]) : log[q][n] \in Messages[q]
         /\ acked[q] < Len(log[q]) => InHand(q) \in Messages[q]
  <1>1. log[q] \in Seq(Messages[q])
    BY DEF Typed, QueuesTyped
  <1>2. /\ Len(log[q]) \in Nat /\ DOMAIN log[q] = 1 .. Len(log[q])
        /\ \A n \in 1 .. Len(log[q]) : log[q][n] \in Messages[q]
    BY <1>1
  <1>3. acked[q] \in Nat /\ acked[q] =< Len(log[q])
    BY DEF Typed, QueuesTyped
  <1>4. ASSUME acked[q] < Len(log[q]) PROVE InHand(q) \in Messages[q]
    <2>1. acked[q] + 1 \in 1 .. Len(log[q])
      BY <1>2, <1>3, <1>4
    <2> QED BY <1>2, <2>1 DEF InHand
  <1> QED BY <1>1, <1>2, <1>3, <1>4

(* A sequence with one more element.                                       *)
LEMMA Appended ==
  ASSUME NEW S, NEW s \in Seq(S), NEW m \in S, NEW t, t = Append(s, m)
  PROVE  /\ t \in Seq(S) /\ Len(t) = Len(s) + 1
         /\ \A n \in 1 .. Len(s) : t[n] = s[n]
         /\ t[Len(s) + 1] = m
  OBVIOUS

(* A message that is sent goes to the end of its queue.                    *)
LEMMA PublishEffect ==
  ASSUME Typed, NEW q \in Queues, Publish(q)
  PROVE  \E m \in Messages[q] :
           /\ log'[q] \in Seq(Messages[q]) /\ Len(log'[q]) = Len(log[q]) + 1
           /\ \A n \in 1 .. Len(log[q]) : log'[q][n] = log[q][n]
           /\ log'[q][Len(log[q]) + 1] = m
           /\ q = "task" => \A n \in 1 .. Len(log[q]) : m.task # log[q][n].task \/ m.task = None
           /\ log' = [log EXCEPT ![q] = log'[q]]
           /\ \A p \in Queues \ {q} : log'[p] = log[p]
           /\ UNCHANGED <<acked, consumer, found, users, tasks, budget>>
  <1>1. PICK m \in Messages[q] :
          /\ q = "task" => \A n \in DOMAIN log[q] : m.task \notin {log[q][n].task} \ {None}
          /\ log' = [log EXCEPT ![q] = Append(@, m)]
    BY DEF Publish
  <1>2. log \in [Queues -> Seq(UNION {Messages[p] : p \in Queues})]
    BY DEF Typed, QueuesTyped
  <1>3. log'[q] = Append(log[q], m) /\ \A p \in Queues \ {q} : log'[p] = log[p]
    BY <1>1, <1>2
  <1>4. /\ log'[q] \in Seq(Messages[q]) /\ Len(log'[q]) = Len(log[q]) + 1
        /\ \A n \in 1 .. Len(log[q]) : log'[q][n] = log[q][n]
        /\ log'[q][Len(log[q]) + 1] = m
    <2>1. PICK S, s, t : S = Messages[q] /\ s = log[q] /\ t = log'[q]
      OBVIOUS
    <2>2. s \in Seq(S) /\ m \in S /\ t = Append(s, m)
      BY <1>3, <2>1, QueueFacts
    <2>3. /\ t \in Seq(S) /\ Len(t) = Len(s) + 1
          /\ \A n \in 1 .. Len(s) : t[n] = s[n]
          /\ t[Len(s) + 1] = m
      BY ONLY <2>2, Appended
    <2> QED BY <2>1, <2>3
  <1> QED BY <1>1, <1>3, <1>4, QueueFacts DEF Publish

(* The first state is typed.                                               *)
LEMMA TypeInit == Init => Typed
  BY AbsenceAssumption DEF Init, Typed, QueuesTyped, DataTyped, Queues, Steps

(* A consumer goes on with the message in hand.                            *)
LEMMA QueueGoes ==
  ASSUME Typed, NEW q \in Queues, NEW step \in Steps \ {"ready"}, Goes(q, step),
         acked[q] < Len(log[q]), q # "mode" => step \notin {"found", "saved"},
         UNCHANGED <<log, acked>>
  PROVE  QueuesTyped' /\ consumer'[q] = step /\ \A p \in Queues \ {q} : consumer'[p] = consumer[p]
  BY DEF Typed, QueuesTyped, Goes

(* A sequence of the same length whose elements are of the same type.      *)
LEMMA SameLength ==
  ASSUME NEW S, NEW s \in Seq(S), NEW t,
         t = [i \in DOMAIN s |-> t[i]], \A i \in DOMAIN s : t[i] \in S
  PROVE  t \in Seq(S) /\ DOMAIN t = DOMAIN s
  <1>1. Len(s) \in Nat /\ DOMAIN s = 1 .. Len(s)
    OBVIOUS
  <1>2. t \in [1 .. Len(s) -> S]
    BY <1>1
  <1> QED BY <1>1, <1>2, SeqDef

(* The message in hand of a queue that has one.                            *)
LEMMA HandFacts ==
  ASSUME Typed
  PROVE  /\ acked["user"] < Len(log["user"]) => InHand("user") \in UserMessages
         /\ acked["task"] < Len(log["task"]) => InHand("task") \in TaskMessages
         /\ acked["mode"] < Len(log["mode"]) => InHand("mode") \in ModeMessages
  BY QueueFacts, MessagesAssumption DEF Queues

(* A task that is scheduled has one more document.                         *)
LEMMA ScheduledDocument ==
  ASSUME Typed, ScheduleTask
  PROVE  \E i : /\ documents' \in Seq(Document)
                /\ DOMAIN documents' = DOMAIN documents \union {i}
                /\ \A j \in DOMAIN documents : j # i /\ documents'[j] = documents[j]
                /\ documents'[i].task = InHand("task").task
  <1>1. PICK d : d = [task |-> InHand("task").task, disabled |-> Absent,
                      type |-> InHand("task").type]
    OBVIOUS
  <1>2. documents' = Append(documents, d) /\ d.task = InHand("task").task
    BY <1>1 DEF ScheduleTask
  <1>3. InHand("task") \in TaskMessages /\ InHand("task").type \in Types
    BY HandFacts DEF ScheduleTask, At, Schedulable, Types
  <1>4. documents \in Seq(Document) /\ d \in Document
    BY <1>1, <1>3 DEF Typed, DataTyped, TaskMessages, Document
  <1>5. /\ documents' \in Seq(Document)
        /\ DOMAIN documents' = DOMAIN documents \union {Len(documents) + 1}
        /\ \A j \in DOMAIN documents : j # Len(documents) + 1 /\ documents'[j] = documents[j]
        /\ documents'[Len(documents) + 1] = d
    BY <1>2, <1>4
  <1> QED BY <1>2, <1>5

(* The documents that a mode message saves: as many as before, of the same *)
(* tasks, and those it found have its mode unless their save failed.       *)
LEMMA SavedDocuments ==
  ASSUME Typed, SaveModes
  PROVE  /\ documents' \in Seq(Document) /\ DOMAIN documents' = DOMAIN documents
         /\ \A i \in DOMAIN documents :
              /\ documents'[i].task = documents[i].task
              /\ i \notin found => documents'[i] = documents[i]
              /\ i \in found => \/ documents'[i].disabled = InHand("mode").disabled
                               \/ documents[i].task \in unsaved'
         /\ unsaved \subseteq unsaved'
  <1>1. PICK lost \in SUBSET found :
           /\ documents' = [i \in DOMAIN documents |->
                              IF i \in found \ lost
                              THEN [documents[i] EXCEPT !.disabled = InHand("mode").disabled]
                              ELSE documents[i]]
           /\ unsaved' = unsaved \union {documents[i].task : i \in lost}
    BY DEF SaveModes
  <1>2. InHand("mode").disabled \in BOOLEAN
    BY HandFacts DEF SaveModes, At, ModeMessages
  <1>3. documents \in Seq(Document) /\ \A i \in DOMAIN documents : documents[i] \in Document
    BY DEF Typed, DataTyped
  <1>4. ASSUME NEW i \in DOMAIN documents
        PROVE  /\ documents'[i] \in Document
               /\ documents'[i].task = documents[i].task
               /\ i \notin found \ lost => documents'[i] = documents[i]
               /\ i \in found \ lost => documents'[i].disabled = InHand("mode").disabled
    BY <1>1, <1>2, <1>3 DEF Document
  <1>5. documents' = [i \in DOMAIN documents |-> documents'[i]]
    BY <1>1
  <1>6. documents' \in Seq(Document) /\ DOMAIN documents' = DOMAIN documents
    BY <1>3, <1>4, <1>5, SameLength
  <1> QED BY <1>1, <1>4, <1>6

(* The documents after a run wrote a flag into one of them.                *)
LEMMA FlaggedDocuments ==
  ASSUME Typed, NEW i \in DOMAIN documents, NEW flag \in BOOLEAN \union {Absent},
         documents' = WithFlag(i, flag)
  PROVE  /\ documents' \in Seq(Document) /\ DOMAIN documents' = DOMAIN documents
         /\ \A j \in DOMAIN documents :
              /\ documents'[j].task = documents[j].task
              /\ j # i \/ flag = Absent => documents'[j].disabled = documents[j].disabled
         /\ flag # Absent => documents'[i].disabled = flag
  <1>1. documents \in Seq(Document) /\ \A j \in DOMAIN documents : documents[j] \in Document
    BY DEF Typed, DataTyped
  <1>2. ASSUME NEW j \in DOMAIN documents
        PROVE  /\ documents'[j] \in Document
               /\ documents'[j].task = documents[j].task
               /\ j # i \/ flag = Absent => documents'[j].disabled = documents[j].disabled
               /\ j = i /\ flag # Absent => documents'[j].disabled = flag
    BY <1>1 DEF WithFlag, Document
  <1>3. documents' = [j \in DOMAIN documents |-> documents'[j]]
    BY DEF WithFlag
  <1>4. documents' \in Seq(Document) /\ DOMAIN documents' = DOMAIN documents
    BY <1>1, <1>2, <1>3, SameLength
  <1> QED BY <1>2, <1>4

(* A run begins on a document that is not disabled, or it ends.  It leaves *)
(* the tasks of the documents and all other state alone, and the flags of  *)
(* all documents but its own.                                              *)
RunStep == \E w \in Workers : Lock(w) \/ SaveRun(w) \/ CompleteJob(w) \/ FailRun(w)

LEMMA RunEffect ==
  ASSUME Typed, RunStep
  PROVE  /\ UNCHANGED <<log, acked, consumer, found, users, failed, confirmed, repeated,
                       unsaved, stale>>
         /\ documents' \in Seq(Document) /\ DOMAIN documents' = DOMAIN documents
         /\ \A i \in DOMAIN documents : documents'[i].task = documents[i].task
         /\ completed \subseteq completed' /\ completed' \subseteq DOMAIN documents
         /\ runs' \in [Workers -> Run \union {None}]
         /\ \A w \in Workers : runs'[w] # None => runs'[w].document \in DOMAIN documents
         /\ \A w \in Workers :
              \/ runs'[w] \in {runs[w], None}
              \/ documents[runs'[w].document].disabled # TRUE
         /\ \A i \in DOMAIN documents :
              \/ documents'[i].disabled = documents[i].disabled
              \/ documents'[i].disabled = TRUE /\ i \in completed'
              \/ /\ documents'[i].disabled = FALSE
                 /\ \E w \in Workers : /\ runs[w] # None /\ runs[w].document = i
                                       /\ runs[w].disabled = FALSE
  <1>1. PICK w \in Workers : Lock(w) \/ SaveRun(w) \/ CompleteJob(w) \/ FailRun(w)
    BY DEF RunStep
  <1>2. /\ documents \in Seq(Document) /\ completed \subseteq DOMAIN documents
        /\ runs \in [Workers -> Run \union {None}]
        /\ \A v \in Workers : runs[v] # None => runs[v].document \in DOMAIN documents
    BY DEF Typed, DataTyped
  <1>3. \A i \in DOMAIN documents : documents[i] \in Document /\ i \in Nat
    BY <1>2
  <1>4. CASE Lock(w)
    <2>1. PICK i \in DOMAIN documents :
            /\ documents[i].disabled # TRUE
            /\ runs' = [runs EXCEPT ![w] = [document |-> i, disabled |-> documents[i].disabled]]
      BY <1>4 DEF Lock
    <2>2. [document |-> i, disabled |-> documents[i].disabled] \in Run
      BY <1>3, <2>1 DEF Run, Document
    <2> QED BY <1>2, <1>4, <2>1, <2>2 DEF Lock
  <1>5. CASE SaveRun(w)
    <2>1. PICK r : r = runs[w]
      OBVIOUS
    <2>2. /\ r \in Run /\ r.document \in DOMAIN documents
          /\ documents' = WithFlag(r.document, r.disabled)
          /\ runs' = [runs EXCEPT ![w] = None]
      BY <1>2, <1>5, <2>1 DEF SaveRun
    <2>3. r.disabled \in {FALSE, Absent}
      BY <2>2 DEF Run
    <2>4. /\ documents' \in Seq(Document) /\ DOMAIN documents' = DOMAIN documents
          /\ \A j \in DOMAIN documents :
               /\ documents'[j].task = documents[j].task
               /\ j # r.document \/ r.disabled = Absent
                    => documents'[j].disabled = documents[j].disabled
          /\ r.disabled # Absent => documents'[r.document].disabled = r.disabled
      BY <2>2, <2>3, FlaggedDocuments
    <2> QED BY <1>2, <1>5, <2>1, <2>2, <2>3, <2>4 DEF SaveRun
  <1>6. CASE CompleteJob(w)
    <2>1. PICK r : r = runs[w]
      OBVIOUS
    <2>2. /\ r.document \in DOMAIN documents
          /\ documents' = WithFlag(r.document, TRUE)
          /\ completed' = completed \union {r.document}
          /\ runs' = [runs EXCEPT ![w] = None]
      BY <1>2, <1>6, <2>1 DEF CompleteJob
    <2>3. /\ documents' \in Seq(Document) /\ DOMAIN documents' = DOMAIN documents
          /\ \A j \in DOMAIN documents :
               /\ documents'[j].task = documents[j].task
               /\ j # r.document => documents'[j].disabled = documents[j].disabled
          /\ documents'[r.document].disabled = TRUE
      BY <2>2, FlaggedDocuments, AbsenceAssumption
    <2> QED BY <1>2, <1>6, <2>2, <2>3 DEF CompleteJob
  <1>7. CASE FailRun(w)
    BY <1>2, <1>7 DEF FailRun
  <1> QED BY <1>1, <1>4, <1>5, <1>6, <1>7

(* Types are preserved by every step.                                      *)
LEMMA TypeNext == Typed /\ [Next]_vars => Typed'
  <1> SUFFICES ASSUME Typed, [Next]_vars PROVE Typed'
    OBVIOUS
  <1>1. ASSUME NEW q \in Queues, Publish(q) PROVE Typed'
    <2>1. PICK m \in Messages[q] :
           /\ log'[q] \in Seq(Messages[q]) /\ Len(log'[q]) = Len(log[q]) + 1
           /\ log' = [log EXCEPT ![q] = log'[q]]
           /\ \A p \in Queues \ {q} : log'[p] = log[p]
           /\ UNCHANGED <<acked, consumer, found, users, tasks, budget>>
      BY <1>1, PublishEffect
    <2>2. log'[q] \in Seq(UNION {Messages[p] : p \in Queues})
      BY <2>1, SeqMonotonic
    <2>3. log' \in [Queues -> Seq(UNION {Messages[p] : p \in Queues})]
      BY <2>1, <2>2 DEF Typed, QueuesTyped
    <2>4. ASSUME NEW p \in Queues
          PROVE  /\ acked'[p] =< Len(log'[p]) /\ log'[p] \in Seq(Messages[p])
                 /\ consumer'[p] # "ready" => acked'[p] < Len(log'[p])
      <3>1. Len(log'[p]) >= Len(log[p]) /\ log'[p] \in Seq(Messages[p])
        BY <2>1, QueueFacts
      <3> QED BY <2>1, <3>1, QueueFacts DEF Typed, QueuesTyped
    <2>5. QueuesTyped'
      BY <2>1, <2>3, <2>4 DEF Typed, QueuesTyped
    <2> QED BY <2>1, <2>5 DEF Typed, DataTyped, tasks, jobs
  <1>2. ASSUME NEW q \in Queues, Acknowledge(q) PROVE Typed'
    <2>1. /\ acked[q] < Len(log[q]) /\ consumer[q] = "handled"
          /\ acked' = [acked EXCEPT ![q] = @ + 1]
          /\ consumer' = [consumer EXCEPT ![q] = "ready"]
          /\ UNCHANGED <<log, found, users, tasks, budget>>
      BY <1>2 DEF Acknowledge, At, Goes
    <2>2. Len(log[q]) \in Nat
      BY QueueFacts
    <2>3. QueuesTyped'
      BY <2>1, <2>2 DEF Typed, QueuesTyped, Steps
    <2>4. DataTyped'
      BY <2>1 DEF Typed, DataTyped, QueuesTyped, tasks, jobs
    <2> QED BY <2>3, <2>4 DEF Typed
  <1>3. CASE Crash
    BY <1>3 DEF Crash, Typed, QueuesTyped, DataTyped, Steps, Queues
  <1>4. CASE HandleUserMessage \/ UserMessageThrows
    <2>1. PICK step \in {"handled", "stalled"} :
            acked["user"] < Len(log["user"]) /\ Goes("user", step)
      BY <1>4 DEF HandleUserMessage, UserMessageThrows, At
    <2>2. QueuesTyped' /\ consumer'["mode"] = consumer["mode"]
      BY <1>4, <2>1, QueueGoes DEF HandleUserMessage, UserMessageThrows, Queues, Steps
    <2>3. users' \in [Users -> Credentials \union {None, Absent}]
      <3>1. InHand("user") \in UserMessages
        BY <2>1, HandFacts
      <3> QED BY <1>4, <3>1 DEF HandleUserMessage, UserMessageThrows, DeleteUser, UpsertUser,
                               UserMessages, Typed, DataTyped
    <2>4. UNCHANGED <<found, tasks>>
      BY <1>4 DEF HandleUserMessage, UserMessageThrows
    <2> QED BY <2>2, <2>3, <2>4 DEF Typed, DataTyped, tasks, jobs
  <1>5. CASE ScheduleTask \/ FailTask \/ TaskMessageThrows
    <2>1. PICK step \in {"handled", "stalled"} :
            /\ acked["task"] < Len(log["task"]) /\ Goes("task", step)
            /\ UNCHANGED <<log, acked, found, users, confirmed, runs, completed>>
      BY <1>5 DEF ScheduleTask, FailTask, TaskMessageThrows, At, tasks, jobs
    <2>2. QueuesTyped' /\ consumer'["mode"] = consumer["mode"]
      BY <2>1, QueueGoes DEF Queues, Steps
    <2>3. InHand("task") \in TaskMessages
      BY <2>1, HandFacts
    <2>4. CASE ScheduleTask
      <3>1. /\ documents' \in Seq(Document)
            /\ DOMAIN documents \subseteq DOMAIN documents'
        BY <2>4, ScheduledDocument
      <3>2. UNCHANGED failed
        BY <2>4 DEF ScheduleTask
      <3> QED BY <2>1, <2>2, <3>1, <3>2 DEF Typed, DataTyped
    <2>5. CASE FailTask
      <3>1. failed' \subseteq Tasks /\ UNCHANGED documents
        BY <2>3, <2>5 DEF FailTask, TaskMessages, Typed, DataTyped, jobs
      <3> QED BY <2>1, <2>2, <3>1 DEF Typed, DataTyped
    <2>6. CASE TaskMessageThrows
      BY <2>1, <2>2, <2>6 DEF TaskMessageThrows, Typed, DataTyped, tasks, jobs
    <2> QED BY <1>5, <2>4, <2>5, <2>6
  <1>6. CASE SetDisabledStatus \/ ModeMessageThrows
    <2>1. PICK step \in {"found", "stalled"} :
            /\ acked["mode"] < Len(log["mode"]) /\ consumer["mode"] = "ready"
            /\ Goes("mode", step)
      BY <1>6 DEF SetDisabledStatus, ModeMessageThrows, At
    <2>2. QueuesTyped' /\ consumer'["mode"] = step
      BY <1>6, <2>1, QueueGoes DEF SetDisabledStatus, ModeMessageThrows, Queues, Steps
    <2>3. found' \subseteq DOMAIN documents /\ (step = "stalled" => found' = {})
      BY <1>6, <2>1, <2>2 DEF SetDisabledStatus, ModeMessageThrows, Goes, Typed, DataTyped
    <2> QED BY <1>6, <2>2, <2>3
            DEF SetDisabledStatus, ModeMessageThrows, Typed, DataTyped, tasks, jobs
  <1>7. CASE SaveModes
    <2>1. /\ acked["mode"] < Len(log["mode"]) /\ Goes("mode", "saved")
          /\ UNCHANGED <<log, acked, found, users, failed, confirmed, runs>>
          /\ completed' \subseteq completed
      BY <1>7 DEF SaveModes, At
    <2>2. QueuesTyped' /\ consumer'["mode"] = "saved"
      BY <2>1, QueueGoes DEF Queues, Steps
    <2>3. documents' \in Seq(Document) /\ DOMAIN documents' = DOMAIN documents
      BY <1>7, SavedDocuments
    <2> QED BY <2>1, <2>2, <2>3 DEF Typed, DataTyped
  <1>8. CASE SendTaskModeMessage
    <2>1. /\ acked["mode"] < Len(log["mode"]) /\ Goes("mode", "handled")
          /\ found' = {}
          /\ UNCHANGED <<log, acked, users, documents, runs, completed, failed>>
      BY <1>8 DEF SendTaskModeMessage, At, jobs
    <2>2. QueuesTyped' /\ consumer'["mode"] = "handled"
      BY <2>1, QueueGoes DEF Queues, Steps
    <2>3. confirmed' \in [Tasks -> {"ENABLED", "DISABLED", None}]
      BY <1>8 DEF SendTaskModeMessage, Typed, DataTyped
    <2> QED BY <2>1, <2>2, <2>3 DEF Typed, DataTyped
  <1>9. CASE RunStep
    BY <1>9, RunEffect DEF Typed, QueuesTyped, DataTyped
  <1>10. CASE UNCHANGED vars
    BY <1>10 DEF vars, tasks, jobs, Typed, QueuesTyped, DataTyped
  <1> QED BY <1>1, <1>2, <1>3, <1>4, <1>5, <1>6, <1>7, <1>8, <1>9, <1>10
          DEF Next, Consume, RunStep

(* Every reachable state is well typed, for any messages and bounds.       *)
THEOREM TypeCorrect == Spec => []TypeOK
  <1>1. Typed => TypeOK
    BY DEF Typed, QueuesTyped, DataTyped, TypeOK, Steps
  <1> QED BY <1>1, TypeInit, TypeNext, PTL DEF Spec
------------------------------------------------------------------------------
(* The messages about a user among the first n, those since the last one   *)
(* that deleted it, those of them that give credentials, and the last.     *)
About(u, n) == {k \in 1 .. n : log["user"][k].user = u}
Alive(u, n) == {k \in About(u, n) : \A j \in About(u, n) : log["user"][j].deleted => j < k}
Given(u, n) == {k \in Alive(u, n) : log["user"][k].credentials # None}
Latest(S)   == CHOOSE k \in S : \A j \in S : j =< k

(* What Said is, by these names.                                           *)
LEMMA SaidIs ==
  ASSUME NEW u, NEW n
  PROVE  Said(u, n) = CASE Alive(u, n) = {} -> Absent
                        [] Alive(u, n) # {} /\ Given(u, n) = {} -> None
                        [] OTHER -> log["user"][Latest(Given(u, n))].credentials
  BY DEF Said, Alive, Given, About, Latest

(* A nonempty set of positions has a last one.                             *)
LEMMA LatestIsIn ==
  ASSUME NEW n \in Nat, NEW S \in SUBSET (1 .. n), S # {}
  PROVE  Latest(S) \in S
  <1> DEFINE T == {m \in Nat : \E k \in S : m = n - k}
  <1>1. T \subseteq Nat /\ T # {}
    <2>1. PICK k \in S : TRUE
      OBVIOUS
    <2>2. n - k \in T
      BY <2>1
    <2> QED BY <2>2
  <1>2. PICK m \in T : \A y \in T : ~(<<y, m>> \in OpToRel(<, Nat))
    <2> HIDE DEF T
    <2> QED BY <1>1, WFMin, NatLessThanWellFounded
  <1>3. ASSUME NEW y \in T PROVE m =< y
    <2>1. m \in Nat /\ y \in Nat
      OBVIOUS
    <2> HIDE DEF T
    <2>2. <<y, m>>[1] = y /\ <<y, m>>[2] = m
      OBVIOUS
    <2>3. y < m => <<y, m>> \in OpToRel(<, Nat)
      BY <2>1, <2>2 DEF OpToRel
    <2>4. ~(<<y, m>> \in OpToRel(<, Nat))
      BY ONLY <1>2, y \in T, Zenon
    <2>5. ~(y < m)
      BY <2>3, <2>4, Zenon
    <2> QED BY ONLY <2>1, <2>5
  <1>4. PICK k \in S : m = n - k
    OBVIOUS
  <1>5. \A j \in S : j =< k
    <2> SUFFICES ASSUME NEW j \in S PROVE j =< k
      OBVIOUS
    <2>1. n - j \in T
      OBVIOUS
    <2> QED BY <1>3, <1>4, <2>1
  <1> QED BY <1>5 DEF Latest

(* The last of a set that ends with its last position.                     *)
LEMMA LatestIs ==
  ASSUME NEW n \in Nat, NEW S \in SUBSET (1 .. n), n \in S
  PROVE  Latest(S) = n
  <1>1. \A j \in S : j =< n
    OBVIOUS
  <1>2. \A k \in S : (\A j \in S : j =< k) => k = n
    OBVIOUS
  <1> QED BY <1>1, <1>2 DEF Latest

(* What is said by the first n messages does not change as more are sent.  *)
LEMMA SaidKept ==
  ASSUME NEW u, NEW n \in Nat, \A k \in 1 .. n : log'["user"][k] = log["user"][k]
  PROVE  Said(u, n)' = Said(u, n)
  <1>1. About(u, n)' = About(u, n)
    BY DEF About
  <1>2. Alive(u, n)' = Alive(u, n)
    BY <1>1 DEF Alive, About
  <1>3. Given(u, n)' = Given(u, n)
    BY <1>2 DEF Given, Alive, About
  <1>4. Given(u, n) # {} => Latest(Given(u, n)) \in 1 .. n
    BY LatestIsIn DEF Given, Alive, About
  <1>5. Said(u, n)' = CASE Alive(u, n)' = {} -> Absent
                        [] Alive(u, n)' # {} /\ Given(u, n)' = {} -> None
                        [] OTHER -> log'["user"][Latest(Given(u, n)')].credentials
    BY DEF Said, Alive, Given, About, Latest
  <1> QED BY <1>2, <1>3, <1>4, <1>5, SaidIs

(* One more message adds to what is said as it changes the stored user.    *)
LEMMA SaidNext ==
  ASSUME NEW u, NEW n \in Nat, \A k \in 1 .. n : log["user"][k] \in UserMessages,
         NEW m, m = log["user"][n + 1]
  PROVE  Said(u, n + 1) =
           IF m.user # u THEN Said(u, n)
           ELSE IF m.deleted THEN Absent
           ELSE CASE m.credentials # None -> m.credentials
                  [] m.credentials = None /\ Said(u, n) = Absent -> None
                  [] OTHER -> Said(u, n)
  <1> DEFINE N == n + 1
  <1>1. About(u, N) = IF m.user = u THEN About(u, n) \union {N} ELSE About(u, n)
    BY DEF About
  <1>2. About(u, n) \subseteq 1 .. n /\ Alive(u, n) \subseteq About(u, n)
        /\ Given(u, n) \subseteq Alive(u, n)
    BY DEF About, Alive, Given
  <1>3. CASE m.user # u
    <2>1. Alive(u, N) = Alive(u, n)
      BY <1>1, <1>3 DEF Alive
    <2>2. Given(u, N) = Given(u, n)
      BY <2>1 DEF Given
    <2>3. Said(u, N) = Said(u, n)
      BY <2>1, <2>2, SaidIs
    <2> QED BY <1>3, <2>3
  <1>4. CASE m.user = u /\ m.deleted
    <2>1. \A k \in About(u, N) : ~(N < k)
      BY <1>1, <1>2
    <2>2. Alive(u, N) = {}
      BY <1>1, <1>4, <2>1 DEF Alive
    <2>3. Said(u, N) = Absent
      BY <2>2, SaidIs
    <2> QED BY <1>4, <2>3
  <1>5. CASE m.user = u /\ ~m.deleted
    <2>1. Alive(u, N) = Alive(u, n) \union {N}
      <3>1. \A j \in About(u, n) : j < N
        BY <1>2
      <3> QED BY <1>1, <1>5, <3>1 DEF Alive
    <2>2. Given(u, N) = IF m.credentials # None THEN Given(u, n) \union {N} ELSE Given(u, n)
      BY <2>1 DEF Given
    <2>3. CASE m.credentials # None
      <3>1. N \in Nat /\ Given(u, N) \subseteq 1 .. N /\ N \in Given(u, N)
        BY <1>2, <2>2, <2>3
      <3>2. Latest(Given(u, N)) = N
        BY <3>1, LatestIs
      <3>3. Said(u, N) = m.credentials
        BY <2>1, <3>1, <3>2, SaidIs
      <3> QED BY <1>5, <2>3, <3>3
    <2>4. CASE m.credentials = None /\ Given(u, n) = {}
      <3>1. Said(u, N) = None
        BY <2>1, <2>2, <2>4, SaidIs
      <3>2. Said(u, n) = Absent \/ Said(u, n) = None
        BY <2>4, SaidIs
      <3> QED BY <1>5, <2>4, <3>1, <3>2
    <2>5. CASE m.credentials = None /\ Given(u, n) # {}
      <3>1. Given(u, N) = Given(u, n)
        BY <2>2, <2>5
      <3>2. /\ Said(u, N) = log["user"][Latest(Given(u, n))].credentials
            /\ Said(u, n) = log["user"][Latest(Given(u, n))].credentials
        BY <1>2, <2>1, <2>5, <3>1, SaidIs
      <3>3. Latest(Given(u, n)) \in Given(u, n)
        BY <1>2, <2>5, LatestIsIn
      <3>4. Said(u, n) # None /\ Said(u, n) \in Credentials \union {None}
        BY <1>2, <3>2, <3>3 DEF Given, UserMessages
      <3> QED BY <1>5, <2>5, <3>2, <3>4, AbsenceAssumption
    <2> QED BY <2>3, <2>4, <2>5
  <1> QED BY <1>3, <1>4, <1>5

(* Of no message nothing is said.                                          *)
LEMMA SaidNothing == \A u : Said(u, 0) = Absent
  <1> TAKE u
  <1>1. Alive(u, 0) = {}
    BY DEF Alive, About
  <1> QED BY <1>1, SaidIs

(* The stored users are what the acknowledged messages say, or those and   *)
(* the one in hand; the latter whenever that is handled.                   *)
UsersInv ==
  \/ consumer["user"] # "handled" /\ users = [u \in Users |-> Said(u, acked["user"])]
  \/ /\ acked["user"] < Len(log["user"])
     /\ users = [u \in Users |-> Said(u, acked["user"] + 1)]

(* Handling the message in hand, for the first time or again, stores what  *)
(* the messages up to it say.                                              *)
LEMMA HandledIsSaid ==
  ASSUME Typed, UsersInv, HandleUserMessage
  PROVE  users' = [u \in Users |-> Said(u, acked["user"] + 1)]
  <1> DEFINE n == acked["user"]
             m == InHand("user")
  <1>1. /\ n \in Nat /\ n < Len(log["user"]) /\ Len(log["user"]) \in Nat
        /\ \A k \in 1 .. n : log["user"][k] \in UserMessages
        /\ m = log["user"][n + 1] /\ m \in UserMessages /\ m.user # None
    <2>1. "user" \in Queues /\ n < Len(log["user"]) /\ m.user # None
      BY DEF HandleUserMessage, At, Queues
    <2>2. \A k \in 1 .. Len(log["user"]) : log["user"][k] \in UserMessages
      BY <2>1, QueueFacts, MessagesAssumption
    <2> QED BY <2>1, <2>2, QueueFacts, HandFacts DEF InHand
  <1>2. /\ m.user \in Users /\ users \in [Users -> Credentials \union {None, Absent}]
        /\ m.credentials \in Credentials \union {None}
    BY <1>1 DEF UserMessages, Typed, DataTyped
  <1>3. users' = IF m.deleted THEN [users EXCEPT ![m.user] = Absent]
                 ELSE UpsertUser(m.user, m.credentials)
    BY DEF HandleUserMessage, DeleteUser
  <1>4. ASSUME NEW u \in Users PROVE users'[u] = Said(u, n + 1)
    <2>1. users[u] = Said(u, n) \/ users[u] = Said(u, n + 1)
      BY DEF UsersInv
    <2> DEFINE Next1 == IF m.user # u THEN Said(u, n)
                        ELSE IF m.deleted THEN Absent
                        ELSE CASE m.credentials # None -> m.credentials
                               [] m.credentials = None /\ Said(u, n) = Absent -> None
                               [] OTHER -> Said(u, n)
    <2>2. Said(u, n + 1) = Next1
      BY <1>1, SaidNext
    <2>3. CASE m.user # u
      <3>1. users'[u] = users[u]
        BY <1>2, <1>3, <2>3 DEF UpsertUser
      <3> QED BY <2>1, <2>2, <2>3, <3>1
    <2>4. CASE m.user = u /\ m.deleted
      BY <1>2, <1>3, <2>2, <2>4
    <2>5. CASE m.user = u /\ ~m.deleted
      <3>1. users'[u] = CASE m.credentials # None -> m.credentials
                          [] m.credentials = None /\ users[u] = Absent -> None
                          [] OTHER -> users[u]
        BY <1>2, <1>3, <2>5 DEF UpsertUser
      <3>2. Said(u, n + 1) = CASE m.credentials # None -> m.credentials
                               [] m.credentials = None /\ Said(u, n) = Absent -> None
                               [] OTHER -> Said(u, n)
        BY <2>2, <2>5
      <3> HIDE DEF Next1, n, m
      <3> QED BY <2>1, <3>1, <3>2, AbsenceAssumption
    <2> QED BY <2>3, <2>4, <2>5
  <1>5. users' = [u \in Users |-> users'[u]]
    BY <1>2, <1>3 DEF UpsertUser
  <1> QED BY <1>4, <1>5

(* The users follow the messages through every step.                       *)
LEMMA UsersNext ==
  ASSUME Typed, Typed', UsersInv, [Next]_vars
  PROVE  UsersInv'
  <1> DEFINE n == acked["user"]
  <1>1. "user" \in Queues /\ n \in Nat /\ Len(log["user"]) \in Nat /\ n =< Len(log["user"])
    BY QueueFacts DEF Queues
  <1>2. ASSUME log'["user"] = log["user"], UNCHANGED <<acked, users>>,
               consumer'["user"] \in {consumer["user"], "ready", "stalled"}
        PROVE  UsersInv'
    <2>1. \A u : Said(u, n)' = Said(u, n) /\ Said(u, n + 1)' = Said(u, n + 1)
      BY <1>1, <1>2, SaidKept
    <2> QED BY <1>2, <2>1 DEF UsersInv
  <1>3. ASSUME NEW q \in Queues, Publish(q) PROVE UsersInv'
    <2>1. CASE q # "user"
      BY <1>1, <1>2, <1>3, <2>1, PublishEffect
    <2>2. CASE q = "user"
      <3>1. /\ \A k \in 1 .. Len(log["user"]) : log'["user"][k] = log["user"][k]
            /\ Len(log'["user"]) = Len(log["user"]) + 1
            /\ UNCHANGED <<acked, consumer, users>>
        BY <1>3, <2>2, PublishEffect
      <3>2. \A u : Said(u, n)' = Said(u, n)
        BY <1>1, <3>1, SaidKept
      <3>3. n < Len(log["user"]) => \A u : Said(u, n + 1)' = Said(u, n + 1)
        BY <1>1, <3>1, SaidKept
      <3> QED BY <1>1, <3>1, <3>2, <3>3 DEF UsersInv
    <2> QED BY <2>1, <2>2
  <1>4. ASSUME NEW q \in Queues, Acknowledge(q) PROVE UsersInv'
    <2>1. /\ consumer[q] = "handled" /\ acked' = [acked EXCEPT ![q] = @ + 1]
          /\ consumer' = [consumer EXCEPT ![q] = "ready"]
          /\ UNCHANGED <<log, users>>
          /\ acked \in [Queues -> Nat] /\ consumer \in [Queues -> Steps]
      BY <1>4 DEF Acknowledge, At, Goes, Typed, QueuesTyped
    <2>2. CASE q # "user"
      <3>1. acked'["user"] = acked["user"] /\ consumer'["user"] = consumer["user"]
        BY <1>1, <2>1, <2>2
      <3>2. \A u, k : Said(u, k)' = Said(u, k)
        BY <2>1 DEF Said
      <3> QED BY <2>1, <3>1, <3>2 DEF UsersInv
    <2>3. CASE q = "user"
      <3>1. acked'["user"] = acked["user"] + 1 /\ consumer'["user"] = "ready"
        BY <1>1, <2>1, <2>3
      <3>2. \A u, k : Said(u, k)' = Said(u, k)
        BY <2>1 DEF Said
      <3> QED BY <2>1, <2>3, <3>1, <3>2 DEF UsersInv
    <2> QED BY <2>2, <2>3
  <1>5. CASE Crash
    BY <1>1, <1>2, <1>5 DEF Crash
  <1>6. CASE HandleUserMessage
    <2>1. users' = [u \in Users |-> Said(u, n + 1)]
      BY <1>6, HandledIsSaid
    <2>2. UNCHANGED <<log, acked>> /\ n < Len(log["user"])
      BY <1>6 DEF HandleUserMessage, At
    <2>3. \A u : Said(u, n + 1)' = Said(u, n + 1)
      BY <2>2 DEF Said
    <2> QED BY <2>1, <2>2, <2>3 DEF UsersInv
  <1>7. CASE UserMessageThrows
    <2>1. UNCHANGED <<log, acked, users>> /\ consumer'["user"] = "stalled"
      BY <1>1, <1>7 DEF UserMessageThrows, Goes, Typed, QueuesTyped
    <2> QED BY <1>2, <2>1
  <1>8. CASE \/ ScheduleTask \/ FailTask \/ TaskMessageThrows \/ SetDisabledStatus
             \/ ModeMessageThrows \/ SaveModes \/ SendTaskModeMessage
    <2>1. UNCHANGED <<log, acked, users>> /\ consumer'["user"] = consumer["user"]
      BY <1>8, <1>1 DEF ScheduleTask, FailTask, TaskMessageThrows, SetDisabledStatus,
         ModeMessageThrows, SaveModes, SendTaskModeMessage, Goes, Typed, QueuesTyped
    <2> QED BY <1>2, <2>1
  <1>9. CASE RunStep
    BY <1>2, <1>9, RunEffect
  <1>10. CASE UNCHANGED vars
    BY <1>2, <1>10 DEF vars
  <1> QED BY <1>3, <1>4, <1>5, <1>6, <1>7, <1>8, <1>9, <1>10 DEF Next, Consume, RunStep

(* The stored users are at all times what the acknowledged messages say,   *)
(* or those and the one in hand: no crash, failed call, message given      *)
(* again or queue that stands loses or reorders a message about a user.    *)
THEOREM UsersFollow == Spec => []UsersFollowMessages
  <1>1. Init => UsersInv
    BY SaidNothing DEF Init, UsersInv, Queues
  <1>2. Typed /\ UsersInv => UsersFollowMessages
    <2> SUFFICES ASSUME Typed, UsersInv PROVE UsersFollowMessages
      OBVIOUS
    <2>1. "user" \in Queues
      BY DEF Queues
    <2>2. acked["user"] \in Nat /\ Len(log["user"]) \in Nat /\ acked["user"] =< Len(log["user"])
      BY <2>1, QueueFacts
    <2> QED BY <2>2 DEF UsersInv, UsersFollowMessages
  <1> QED BY <1>1, <1>2, TypeInit, TypeNext, UsersNext, PTL DEF Spec
------------------------------------------------------------------------------
(* A task message with both keys; the task messages handled so far.        *)
Keyed(m) == m.task # None /\ m.type # None
Handled  == 1 .. IF consumer["task"] = "handled" THEN acked["task"] + 1 ELSE acked["task"]

(* A task without an outcome, with one, and with no second one.            *)
Untouched(t) == DocumentsOf(t) = {} /\ t \notin failed
Answered(t)  == DocumentsOf(t) # {} \/ t \in failed
Single(t)    == /\ \A i, j \in DocumentsOf(t) : i = j
                /\ t \in failed => DocumentsOf(t) = {}

(* The queue of tasks has one message about a task; a task has no outcome  *)
(* before its message is handled, has one from then on, and a second one   *)
(* only if the message was given again.                                    *)
OutcomesInv ==
  /\ \A n, k \in DOMAIN log["task"] :
       log["task"][n].task = log["task"][k].task => log["task"][n].task = None \/ n = k
  /\ \A t \in Tasks \ repeated :
       /\ Single(t)
       /\ (\A n \in Handled : log["task"][n].task # t) => Untouched(t)
  /\ \A n \in Handled : Keyed(log["task"][n]) => Answered(log["task"][n].task)


(* The task messages by their number, and how many are handled.            *)
LEMMA TaskQueue ==
  ASSUME Typed
  PROVE  /\ DOMAIN log["task"] = 1 .. Len(log["task"]) /\ Len(log["task"]) \in Nat
         /\ acked["task"] \in Nat /\ acked["task"] =< Len(log["task"])
         /\ consumer["task"] = "handled" => acked["task"] < Len(log["task"])
         /\ Handled \subseteq DOMAIN log["task"]
         /\ \A n \in DOMAIN log["task"] : log["task"][n] \in TaskMessages
         /\ \A n \in DOMAIN log["task"] : Keyed(log["task"][n]) => log["task"][n].task \in Tasks
  <1>1. "task" \in Queues
    BY DEF Queues
  <1>2. /\ DOMAIN log["task"] = 1 .. Len(log["task"]) /\ Len(log["task"]) \in Nat
        /\ acked["task"] \in Nat /\ acked["task"] =< Len(log["task"])
        /\ \A n \in DOMAIN log["task"] : log["task"][n] \in TaskMessages
    BY <1>1, QueueFacts, MessagesAssumption
  <1>3. consumer["task"] = "handled" => acked["task"] < Len(log["task"])
    BY <1>1 DEF Typed, QueuesTyped
  <1> QED BY <1>2, <1>3 DEF Handled, Keyed, TaskMessages

(* A step that leaves the queue of tasks and the tasks' outcomes alone.    *)
LEMMA OutcomesKept ==
  ASSUME Typed, OutcomesInv, log'["task"] = log["task"], acked'["task"] = acked["task"],
         consumer'["task"] = consumer["task"], UNCHANGED failed,
         \A t : DocumentsOf(t)' = DocumentsOf(t), repeated \subseteq repeated'
  PROVE  OutcomesInv'
  BY DEF OutcomesInv, Handled, Untouched, Answered, Single

(* Another message is sent.                                                *)
LEMMA OutcomesPublish ==
  ASSUME Typed, OutcomesInv, NEW q \in Queues, Publish(q)
  PROVE  OutcomesInv'
  <1>1. UNCHANGED <<acked, consumer, documents, failed, repeated>>
    BY PublishEffect DEF tasks, jobs
  <1>2. \A t : DocumentsOf(t)' = DocumentsOf(t)
    BY <1>1 DEF DocumentsOf
  <1>3. CASE q # "task"
    <2>1. log'["task"] = log["task"]
      BY <1>3, PublishEffect DEF Queues
    <2> QED BY <1>1, <1>2, <2>1, OutcomesKept
  <1>4. CASE q = "task"
    <2>1. PICK m \in Messages["task"] :
            /\ log'["task"] \in Seq(Messages["task"])
            /\ Len(log'["task"]) = Len(log["task"]) + 1
            /\ \A n \in 1 .. Len(log["task"]) : log'["task"][n] = log["task"][n]
            /\ log'["task"][Len(log["task"]) + 1] = m
            /\ \A n \in 1 .. Len(log["task"]) : m.task # log["task"][n].task \/ m.task = None
      BY <1>4, PublishEffect
    <2>2. DOMAIN log'["task"] = DOMAIN log["task"] \union {Len(log["task"]) + 1}
      BY <2>1, TaskQueue
    <2>3. \A n, k \in DOMAIN log'["task"] :
            log'["task"][n].task = log'["task"][k].task
              => log'["task"][n].task = None \/ n = k
      BY <2>1, <2>2, TaskQueue DEF OutcomesInv
    <2>4. Handled' = Handled /\ \A n \in Handled : log'["task"][n] = log["task"][n]
      BY <1>1, <2>1, TaskQueue DEF Handled
    <2> QED BY <1>1, <1>2, <2>3, <2>4 DEF OutcomesInv, Untouched, Answered, Single
  <1> QED BY <1>3, <1>4

(* The message in hand is handled: its task gets a document, or FAILED if  *)
(* it has both keys.                                                       *)
LEMMA OutcomesHandle ==
  ASSUME Typed, OutcomesInv, ScheduleTask \/ FailTask
  PROVE  OutcomesInv'
  <1>1. PICK n, m : n = acked["task"] + 1 /\ m = log["task"][n]
    OBVIOUS
  <1>2. /\ acked["task"] < Len(log["task"]) /\ consumer["task"] = "ready"
        /\ consumer' = [consumer EXCEPT !["task"] = "handled"]
        /\ UNCHANGED <<log, acked, repeated>>
    BY DEF ScheduleTask, FailTask, At, Goes
  <1>3. /\ n \in DOMAIN log["task"] /\ n \notin Handled /\ m \in TaskMessages
        /\ consumer'["task"] = "handled"
    BY <1>1, <1>2, TaskQueue DEF Handled, Typed, QueuesTyped, Queues
  <1>4. Handled' = Handled \union {n}
    BY <1>1, <1>2, <1>3, TaskQueue DEF Handled
  <1>5. /\ \A t : t # m.task => DocumentsOf(t)' = DocumentsOf(t)
        /\ \A t : t # m.task => (t \in failed' <=> t \in failed)
        /\ \/ m.task \in failed' /\ m.task \in Tasks /\ DocumentsOf(m.task)' = DocumentsOf(m.task)
           \/ ~Keyed(m) /\ DocumentsOf(m.task)' = DocumentsOf(m.task) /\ UNCHANGED failed
           \/ /\ UNCHANGED failed
              /\ \E i : DocumentsOf(m.task)' = DocumentsOf(m.task) \union {i}
    <2>1. CASE ScheduleTask
      <3>1. PICK i : /\ DOMAIN documents' = DOMAIN documents \union {i}
                     /\ \A j \in DOMAIN documents : j # i /\ documents'[j] = documents[j]
                     /\ documents'[i].task = m.task
        BY <1>1, <2>1, ScheduledDocument DEF InHand
      <3>2. \A t : DocumentsOf(t)' = IF t = m.task THEN DocumentsOf(t) \union {i}
                                     ELSE DocumentsOf(t)
        BY <3>1 DEF DocumentsOf
      <3>3. UNCHANGED failed
        BY <2>1 DEF ScheduleTask
      <3> QED BY <3>2, <3>3
    <2>2. CASE FailTask
      <3>1. /\ failed' = IF m.task # None /\ m.type # None THEN failed \union {m.task} ELSE failed
            /\ UNCHANGED documents
        BY <1>1, <2>2 DEF FailTask, InHand, jobs
      <3>2. \A t : DocumentsOf(t)' = DocumentsOf(t)
        BY <3>1 DEF DocumentsOf
      <3>3. Keyed(m) => m.task \in Tasks
        BY <1>3 DEF Keyed, TaskMessages
      <3> QED BY <3>1, <3>2, <3>3 DEF Keyed
    <2> QED BY <2>1, <2>2
  <1>6. ASSUME NEW k \in Handled', Keyed(log["task"][k]), NEW t, t = log["task"][k].task
        PROVE  Answered(t)'
    <2>1. CASE t = m.task
      <3>1. k = n
        BY <1>1, <1>3, <1>4, <1>6, <2>1, TaskQueue DEF Keyed, OutcomesInv
      <3>2. Keyed(m)
        BY <1>1, <1>6, <3>1
      <3> QED BY <1>5, <2>1, <3>2 DEF Answered
    <2>2. CASE t # m.task
      <3>1. Answered(t)
        BY <1>1, <1>4, <1>6, <2>2 DEF OutcomesInv
      <3> QED BY <1>5, <2>2, <3>1 DEF Answered
    <2> QED BY <2>1, <2>2
  <1>7. ASSUME NEW t \in Tasks \ repeated
        PROVE  /\ Single(t)'
               /\ (\A k \in Handled' : log["task"][k].task # t) => Untouched(t)'
    <2>1. Single(t) /\ ((\A k \in Handled : log["task"][k].task # t) => Untouched(t))
      BY DEF OutcomesInv
    <2>2. CASE t # m.task
      BY <1>4, <1>5, <2>1, <2>2 DEF Single, Untouched
    <2>3. CASE t = m.task
      <3>1. \A k \in Handled : log["task"][k].task # t
        BY <1>1, <1>3, <2>3, TaskQueue, AbsenceAssumption DEF OutcomesInv
      <3>2. DocumentsOf(t) = {} /\ t \notin failed
        BY <2>1, <3>1 DEF Untouched
      <3>3. Single(t)'
        BY <1>5, <2>3, <3>2 DEF Single
      <3> QED BY <1>1, <1>4, <2>3, <3>3
    <2> QED BY <2>2, <2>3
  <1>8. (\A k \in Handled : Keyed(log["task"][k]) => Answered(log["task"][k].task))'
    BY <1>2, <1>6 DEF Answered, Keyed
  <1> QED BY <1>2, <1>3, <1>7, <1>8 DEF OutcomesInv

(* The process ends: a message that was handled is to be given again.      *)
LEMMA OutcomesCrash ==
  ASSUME Typed, OutcomesInv, Crash
  PROVE  OutcomesInv'
  <1>1. /\ consumer'["task"] = "ready"
        /\ UNCHANGED <<log, acked, documents, failed>>
        /\ repeated' = IF acked["task"] < Len(log["task"]) /\ consumer["task"] = "handled"
                       THEN repeated \union {log["task"][acked["task"] + 1].task} ELSE repeated
    BY DEF Crash, At, InHand, Queues
  <1>2. \A t : DocumentsOf(t)' = DocumentsOf(t)
    BY <1>1 DEF DocumentsOf
  <1>3. Handled' \subseteq Handled
        /\ \A n \in Handled : n \in Handled' \/ log["task"][n].task \in repeated'
    BY <1>1, TaskQueue DEF Handled
  <1>4. \A t \in Tasks \ repeated' :
          /\ t \in Tasks \ repeated
          /\ (\A n \in Handled' : log["task"][n].task # t)
               => \A n \in Handled : log["task"][n].task # t
    BY <1>1, <1>3
  <1> QED BY <1>1, <1>2, <1>3, <1>4 DEF OutcomesInv, Untouched, Answered, Single

(* The outcomes are in order after every step.                             *)
LEMMA OutcomesNext ==
  ASSUME Typed, OutcomesInv, [Next]_vars
  PROVE  OutcomesInv'
  <1>1. ASSUME NEW q \in Queues, Acknowledge(q) PROVE OutcomesInv'
    <2>1. /\ consumer[q] = "handled" /\ acked' = [acked EXCEPT ![q] = @ + 1]
          /\ consumer' = [consumer EXCEPT ![q] = "ready"]
          /\ UNCHANGED <<log, documents, failed, repeated>>
          /\ acked \in [Queues -> Nat] /\ consumer \in [Queues -> Steps]
      BY <1>1 DEF Acknowledge, At, Goes, Typed, QueuesTyped, tasks, jobs
    <2>2. \A t : DocumentsOf(t)' = DocumentsOf(t)
      BY <2>1 DEF DocumentsOf
    <2>3. CASE q # "task"
      <3>1. acked'["task"] = acked["task"] /\ consumer'["task"] = consumer["task"]
        BY <2>1, <2>3 DEF Queues
      <3> QED BY <2>1, <2>2, <3>1, OutcomesKept
    <2>4. CASE q = "task"
      <3>1. Handled' = Handled /\ consumer'["task"] = "ready"
        BY <2>1, <2>4 DEF Handled, Queues
      <3> QED BY <2>1, <2>2, <3>1 DEF OutcomesInv, Untouched, Answered, Single
    <2> QED BY <2>3, <2>4
  <1>2. CASE \/ HandleUserMessage \/ UserMessageThrows \/ SetDisabledStatus
             \/ ModeMessageThrows \/ SendTaskModeMessage
    <2>1. UNCHANGED <<log, acked, documents, failed, repeated>>
          /\ consumer'["task"] = consumer["task"]
      BY <1>2 DEF HandleUserMessage, UserMessageThrows, SetDisabledStatus, ModeMessageThrows,
         SendTaskModeMessage, Goes, Typed, QueuesTyped, Queues, tasks, jobs
    <2>2. \A t : DocumentsOf(t)' = DocumentsOf(t)
      BY <2>1 DEF DocumentsOf
    <2> QED BY <2>1, <2>2, OutcomesKept
  <1>3. CASE SaveModes
    <2>1. UNCHANGED <<log, acked, failed, repeated>> /\ consumer'["task"] = consumer["task"]
      BY <1>3 DEF SaveModes, Goes, Typed, QueuesTyped, Queues
    <2>2. \A t : DocumentsOf(t)' = DocumentsOf(t)
      BY <1>3, SavedDocuments DEF DocumentsOf
    <2> QED BY <2>1, <2>2, OutcomesKept
  <1>4. CASE TaskMessageThrows
    <2>1. /\ consumer["task"] = "ready" /\ consumer'["task"] = "stalled"
          /\ UNCHANGED <<log, acked, documents, failed, repeated>>
      BY <1>4 DEF TaskMessageThrows, At, Goes, Typed, QueuesTyped, Queues, tasks, jobs
    <2>2. \A t : DocumentsOf(t)' = DocumentsOf(t)
      BY <2>1 DEF DocumentsOf
    <2>3. Handled' = Handled
      BY <2>1 DEF Handled
    <2> QED BY <2>1, <2>2, <2>3 DEF OutcomesInv, Untouched, Answered, Single
  <1>5. CASE RunStep
    <2>1. /\ UNCHANGED <<log, acked, consumer, failed, repeated>>
          /\ DOMAIN documents' = DOMAIN documents
          /\ \A i \in DOMAIN documents : documents'[i].task = documents[i].task
      BY <1>5, RunEffect
    <2>2. \A t : DocumentsOf(t)' = DocumentsOf(t)
      BY <2>1 DEF DocumentsOf
    <2> QED BY <2>1, <2>2, OutcomesKept
  <1>6. CASE UNCHANGED vars
    <2>1. UNCHANGED <<log, acked, consumer, documents, failed, repeated>>
      BY <1>6 DEF vars, tasks, jobs
    <2>2. \A t : DocumentsOf(t)' = DocumentsOf(t)
      BY <2>1 DEF DocumentsOf
    <2> QED BY <2>1, <2>2, OutcomesKept
  <1> QED BY <1>1, <1>2, <1>3, <1>4, <1>5, <1>6, OutcomesPublish, OutcomesHandle, OutcomesCrash
          DEF Next, Consume, RunStep

(* How many documents a task has.                                          *)
LEMMA DocumentsCounted ==
  ASSUME Typed, NEW t
  PROVE  /\ IsFiniteSet(DocumentsOf(t)) /\ Cardinality(DocumentsOf(t)) \in Nat
         /\ DocumentsOf(t) # {} => Cardinality(DocumentsOf(t)) >= 1
         /\ (\A i, j \in DocumentsOf(t) : i = j) => Cardinality(DocumentsOf(t)) =< 1
  <1>1. DOMAIN documents = 1 .. Len(documents) /\ Len(documents) \in Nat
    <2>1. documents \in Seq(Document)
      BY DEF Typed, DataTyped
    <2> QED BY <2>1
  <1>2. IsFiniteSet(DocumentsOf(t))
    <2>1. IsFiniteSet(1 .. Len(documents))
      BY <1>1, FS_Interval
    <2> QED BY <1>1, <2>1, FS_Subset DEF DocumentsOf
  <1>3. Cardinality(DocumentsOf(t)) \in Nat
    BY <1>2, FS_CardinalityType
  <1>4. DocumentsOf(t) # {} => Cardinality(DocumentsOf(t)) # 0
    BY <1>2, FS_EmptySet
  <1>5. ASSUME \A i, j \in DocumentsOf(t) : i = j PROVE Cardinality(DocumentsOf(t)) =< 1
    <2>1. CASE DocumentsOf(t) = {}
      BY <2>1, FS_EmptySet
    <2>2. CASE DocumentsOf(t) # {}
      <3>1. PICK i : DocumentsOf(t) = {i}
        BY <1>5, <2>2
      <3> QED BY <1>2, <3>1, FS_Singleton
    <2> QED BY <2>1, <2>2
  <1> QED BY <1>2, <1>3, <1>4, <1>5

(* A task has one outcome once its message is acknowledged, and never two  *)
(* unless the message was given again after it was handled: for any        *)
(* messages, in any order, through any number of crashes and failed calls. *)
THEOREM OneOutcome == Spec => []OneOutcomePerTask
  <1>1. Init => OutcomesInv
    BY DEF Init, OutcomesInv, Queues, Handled, Untouched, Single, DocumentsOf
  <1>2. Typed /\ OutcomesInv => OneOutcomePerTask
    <2> SUFFICES ASSUME Typed, OutcomesInv, NEW n \in DOMAIN log["task"],
                        Keyed(log["task"][n])
                 PROVE  LET t == log["task"][n].task
                            outcomes == Cardinality(DocumentsOf(t)) + Cardinality({t} \cap failed)
                        IN  /\ n =< acked["task"] => outcomes >= 1
                            /\ t \notin repeated => outcomes =< 1
      BY DEF OneOutcomePerTask, Keyed
    <2>1. PICK t \in Tasks : t = log["task"][n].task
      BY TaskQueue
    <2>2. PICK c : c = Cardinality(DocumentsOf(t))
      OBVIOUS
    <2>3. /\ c \in Nat
          /\ DocumentsOf(t) # {} => c >= 1
          /\ DocumentsOf(t) = {} => c = 0
          /\ (\A i, j \in DocumentsOf(t) : i = j) => c =< 1
      BY <2>2, DocumentsCounted, FS_EmptySet
    <2>4. Cardinality({t} \cap failed) = IF t \in failed THEN 1 ELSE 0
      <3>1. {t} \cap failed = IF t \in failed THEN {t} ELSE {}
        OBVIOUS
      <3> QED BY <3>1, FS_EmptySet, FS_Singleton
    <2>5. n =< acked["task"] => n \in Handled
      BY TaskQueue DEF Handled
    <2>6. n =< acked["task"] => DocumentsOf(t) # {} \/ t \in failed
      BY <2>1, <2>5 DEF OutcomesInv, Answered
    <2>7. t \notin repeated => /\ \A i, j \in DocumentsOf(t) : i = j
                               /\ t \in failed => DocumentsOf(t) = {}
      BY DEF OutcomesInv, Single
    <2> QED BY <2>1, <2>2, <2>3, <2>4, <2>6, <2>7
  <1> QED BY <1>1, <1>2, TypeInit, TypeNext, OutcomesNext, PTL DEF Spec

(* A document is in the mode that off says and no run can take it back: if *)
(* it is disabled no run holds a flag for it, and if it is enabled only a  *)
(* run that completed it has disabled it.                                  *)
InMode(i, off) ==
  IF off THEN /\ documents[i].disabled = TRUE
              /\ \A w \in Workers : runs[w] # None /\ runs[w].document = i
                                     => runs[w].disabled = Absent
  ELSE documents[i].disabled = FALSE \/ i \in completed

(* The documents of a task have the mode last confirmed; the mode message  *)
(* in hand may still change the mode of t.                                 *)
Agree(t)   == t \in stale \/ \A i \in DocumentsOf(t) : InMode(i, confirmed[t] = "DISABLED")
Pending(t) == /\ acked["mode"] < Len(log["mode"]) /\ consumer["mode"] # "handled"
              /\ t \in InHand("mode").tasks

(* Between its reading and its answer a mode message holds documents of    *)
(* its tasks, among them those of every task confirmed before, and once    *)
(* saved they have its mode; a task that no message in hand may change has *)
(* the mode last confirmed.                                                *)
ModeInv ==
  /\ \A i \in found : documents[i].task \in InHand("mode").tasks
  /\ consumer["mode"] = "saved" =>
       \A i \in found : \/ InMode(i, InHand("mode").disabled)
                        \/ documents[i].task \in unsaved \union stale
  /\ \A t \in Tasks \ (repeated \union unsaved) :
       confirmed[t] # None =>
         /\ DocumentsOf(t) # {}
         /\ consumer["mode"] \in {"found", "saved"} /\ t \in InHand("mode").tasks
              => t \in Confirmed
         /\ Pending(t) \/ Agree(t)

(* The queue of modes and its message in hand.                             *)
LEMMA ModeQueue ==
  ASSUME Typed
  PROVE  /\ Len(log["mode"]) \in Nat /\ acked["mode"] \in Nat
         /\ acked["mode"] =< Len(log["mode"])
         /\ consumer["mode"] \in Steps
         /\ consumer["mode"] # "ready" => acked["mode"] < Len(log["mode"])
         /\ consumer["mode"] \notin {"found", "saved"} => found = {}
         /\ acked["mode"] < Len(log["mode"]) => InHand("mode") \in ModeMessages
  <1>1. "mode" \in Queues
    BY DEF Queues
  <1> QED BY <1>1, QueueFacts, HandFacts DEF Typed, QueuesTyped, DataTyped

(* A run takes no document out of its mode.                                *)
LEMMA RunKeepsMode ==
  ASSUME Typed, RunStep, NEW i \in DOMAIN documents, NEW off \in BOOLEAN, InMode(i, off)
  PROVE  InMode(i, off)'
  <1>1. /\ completed \subseteq completed'
        /\ \A w \in Workers :
              \/ runs'[w] \in {runs[w], None}
              \/ documents[runs'[w].document].disabled # TRUE
        /\ \/ documents'[i].disabled = documents[i].disabled
           \/ documents'[i].disabled = TRUE /\ i \in completed'
           \/ /\ documents'[i].disabled = FALSE
              /\ \E w \in Workers : /\ runs[w] # None /\ runs[w].document = i
                                    /\ runs[w].disabled = FALSE
    BY RunEffect
  <1>2. Absent # FALSE
    BY AbsenceAssumption
  <1> QED BY <1>1, <1>2 DEF InMode

(* A step that leaves the modes, their queue and the documents alone.      *)
LEMMA ModesKept ==
  ASSUME Typed, ModeInv, UNCHANGED <<acked["mode"], consumer["mode"], found>>,
         UNCHANGED <<jobs, confirmed, unsaved>>, repeated \subseteq repeated',
         acked["mode"] < Len(log["mode"]) =>
           acked["mode"] < Len(log'["mode"]) /\ InHand("mode")' = InHand("mode")
  PROVE  ModeInv'
  <1>1. ASSUME NEW t \in Tasks \ (repeated' \union unsaved'), confirmed[t] # None
        PROVE  /\ DocumentsOf(t)' # {}
               /\ consumer["mode"] \in {"found", "saved"} /\ t \in InHand("mode")'.tasks
                    => t \in Confirmed'
               /\ (Pending(t) \/ Agree(t))'
    <2>1. /\ DocumentsOf(t) # {} /\ (Pending(t) \/ Agree(t))
          /\ consumer["mode"] \in {"found", "saved"} /\ t \in InHand("mode").tasks
               => t \in Confirmed
      BY <1>1 DEF ModeInv
    <2>2. DocumentsOf(t)' = DocumentsOf(t) /\ Confirmed' = Confirmed
      BY DEF DocumentsOf, Confirmed, jobs
    <2>3. Pending(t) => Pending(t)'
      BY DEF Pending
    <2>4. Agree(t) => Agree(t)'
      BY <2>2 DEF Agree, InMode, jobs
    <2>5. consumer["mode"] \in {"found", "saved"} => acked["mode"] < Len(log["mode"])
      BY ModeQueue
    <2> QED BY <2>1, <2>2, <2>3, <2>4, <2>5
  <1>2. \A i \in found' : documents'[i].task \in InHand("mode")'.tasks
    BY ModeQueue DEF ModeInv, jobs
  <1>3. consumer["mode"] = "saved" =>
          \A i \in found' : \/ InMode(i, InHand("mode").disabled)'
                            \/ documents'[i].task \in unsaved' \union stale'
    BY ModeQueue DEF ModeInv, InMode, jobs
  <1> QED BY <1>1, <1>2, <1>3 DEF ModeInv

(* A task is scheduled while a mode is set: it has no document yet, and so *)
(* no mode that was confirmed, unless its message was given again.         *)
LEMMA ModesSchedule ==
  ASSUME Typed, OutcomesInv, ModeInv, ScheduleTask
  PROVE  ModeInv'
  <1>1. PICK i : /\ DOMAIN documents' = DOMAIN documents \union {i}
                 /\ \A j \in DOMAIN documents : j # i /\ documents'[j] = documents[j]
                 /\ documents'[i].task = InHand("task").task
    BY ScheduledDocument
  <1>2. /\ acked["task"] < Len(log["task"]) /\ consumer["task"] = "ready"
        /\ UNCHANGED <<log, acked, found, confirmed, repeated, unsaved, runs, stale, completed>>
        /\ consumer'["mode"] = consumer["mode"]
    BY DEF ScheduleTask, At, Goes, Typed, QueuesTyped, Queues
  <1>3. found \subseteq DOMAIN documents /\ InHand("mode")' = InHand("mode")
    BY <1>2 DEF Typed, DataTyped, InHand
  <1>4. ASSUME NEW t \in Tasks \ (repeated \union unsaved), confirmed[t] # None
        PROVE  /\ DocumentsOf(t)' # {}
               /\ consumer["mode"] \in {"found", "saved"} /\ t \in InHand("mode").tasks
                    => t \in Confirmed'
               /\ (Pending(t) \/ Agree(t))'
    <2>1. /\ DocumentsOf(t) # {} /\ (Pending(t) \/ Agree(t))
          /\ consumer["mode"] \in {"found", "saved"} /\ t \in InHand("mode").tasks
               => t \in Confirmed
      BY <1>4 DEF ModeInv
    <2>2. t # InHand("task").task
      <3>1. SUFFICES ASSUME t = log["task"][acked["task"] + 1].task PROVE FALSE
        BY DEF InHand
      <3>2. acked["task"] + 1 \in DOMAIN log["task"] /\ acked["task"] + 1 \notin Handled
        BY <1>2, TaskQueue DEF Handled
      <3>3. \A n \in Handled : log["task"][n].task # t
        BY <3>1, <3>2, TaskQueue, AbsenceAssumption DEF OutcomesInv
      <3>4. DocumentsOf(t) = {}
        BY <3>3 DEF OutcomesInv, Untouched
      <3> QED BY <2>1, <3>4
    <2>3. /\ DocumentsOf(t)' = DocumentsOf(t)
          /\ \A j \in DocumentsOf(t) : documents'[j] = documents[j]
      BY <1>1, <2>2 DEF DocumentsOf
    <2>4. Confirmed' = Confirmed
      BY <1>1, <1>2, <1>3 DEF Confirmed
    <2>5. Pending(t) => Pending(t)'
      BY <1>2, <1>3 DEF Pending
    <2>6. Agree(t) => Agree(t)'
      BY <1>2, <2>3 DEF Agree, InMode
    <2> QED BY <2>1, <2>3, <2>4, <2>5, <2>6
  <1>5. \A j \in found : documents'[j] = documents[j]
    BY <1>1, <1>3
  <1>6. \A j \in found, off \in BOOLEAN : InMode(j, off) => InMode(j, off)'
    BY <1>2, <1>5 DEF InMode
  <1>7. consumer["mode"] = "saved" => InHand("mode").disabled \in BOOLEAN
    BY ModeQueue DEF ModeMessages
  <1> QED BY <1>2, <1>3, <1>4, <1>5, <1>6, <1>7 DEF ModeInv

(* The mode message reads the documents of its tasks, saves them, and      *)
(* confirms the tasks of those it found.                                   *)
LEMMA ModesHandled ==
  ASSUME Typed, OutcomesInv, ModeInv, SetDisabledStatus \/ SaveModes \/ SendTaskModeMessage
  PROVE  ModeInv'
  <1>1. /\ acked["mode"] < Len(log["mode"]) /\ UNCHANGED <<log, acked, repeated>>
        /\ InHand("mode")' = InHand("mode")
    BY DEF SetDisabledStatus, SaveModes, SendTaskModeMessage, At, InHand, tasks
  <1>2. CASE SetDisabledStatus
    <2>1. /\ found' = {i \in DOMAIN documents : documents[i].task \in InHand("mode").tasks}
          /\ consumer["mode"] = "ready" /\ consumer'["mode"] = "found"
          /\ UNCHANGED <<jobs, confirmed, unsaved>>
      BY <1>2 DEF SetDisabledStatus, At, Goes, Typed, QueuesTyped, Queues, tasks
    <2>2. ASSUME NEW t \in Tasks \ (repeated \union unsaved), confirmed[t] # None
          PROVE  /\ DocumentsOf(t)' # {}
                 /\ t \in InHand("mode").tasks => t \in Confirmed'
                 /\ (Pending(t) \/ Agree(t))'
      <3>1. DocumentsOf(t) # {} /\ (Pending(t) \/ Agree(t)) /\ DocumentsOf(t)' = DocumentsOf(t)
        BY <2>1, <2>2 DEF ModeInv, DocumentsOf, jobs
      <3>2. Pending(t) => Pending(t)'
        BY <1>1, <2>1 DEF Pending
      <3>3. Agree(t) => Agree(t)'
        BY <2>1, <3>1 DEF Agree, InMode, jobs
      <3>4. t \in InHand("mode").tasks => t \in Confirmed'
        BY <2>1, <3>1 DEF Confirmed, DocumentsOf, jobs
      <3> QED BY <3>1, <3>2, <3>3, <3>4
    <2> QED BY <1>1, <2>1, <2>2 DEF ModeInv, jobs
  <1>3. CASE SaveModes
    <2>1. /\ consumer["mode"] = "found" /\ consumer'["mode"] = "saved"
          /\ UNCHANGED <<found, confirmed>> /\ found \subseteq DOMAIN documents
      BY <1>3 DEF SaveModes, At, Goes, Typed, QueuesTyped, DataTyped, Queues
    <2>2. /\ DOMAIN documents' = DOMAIN documents /\ unsaved \subseteq unsaved'
          /\ \A i \in DOMAIN documents :
               /\ documents'[i].task = documents[i].task
               /\ i \notin found => documents'[i] = documents[i]
               /\ i \in found => \/ documents'[i].disabled = InHand("mode").disabled
                                \/ documents[i].task \in unsaved'
      BY <1>3, SavedDocuments
    <2>3. Confirmed' = Confirmed
      BY <2>1, <2>2 DEF Confirmed
    <2>7. /\ stale' = (stale \ Confirmed) \union
                       {documents[i].task : i \in found \cap HeldAgainst(InHand("mode").disabled)}
          /\ completed' = completed \ found /\ UNCHANGED runs
      BY <1>3 DEF SaveModes, Confirmed
    <2>4. ASSUME NEW t \in Tasks \ (repeated \union unsaved'), confirmed[t] # None
          PROVE  /\ DocumentsOf(t)' # {}
                 /\ t \in InHand("mode").tasks => t \in Confirmed
                 /\ (Pending(t) \/ Agree(t))'
      <3>1. /\ DocumentsOf(t) # {} /\ (Pending(t) \/ Agree(t))
            /\ DocumentsOf(t)' = DocumentsOf(t)
            /\ t \in InHand("mode").tasks => t \in Confirmed
        BY <2>1, <2>2, <2>4 DEF ModeInv, DocumentsOf
      <3>2. CASE t \in InHand("mode").tasks
        BY <1>1, <2>1, <3>1, <3>2 DEF Pending
      <3>3. CASE t \notin InHand("mode").tasks
        <4>1. \A i \in DocumentsOf(t) : i \notin found /\ documents'[i] = documents[i]
          BY <2>2, <3>3 DEF ModeInv, DocumentsOf
        <4>2. Agree(t) /\ t \notin Confirmed
          <5>1. Agree(t)
            BY <2>2, <2>4, <3>3 DEF ModeInv, Pending
          <5> QED BY <3>3, <5>1 DEF Confirmed, ModeInv
        <4>3. t \in stale => t \in stale'
          BY <2>7, <4>2
        <4>4. Agree(t)'
          BY <2>1, <2>7, <3>1, <4>1, <4>2, <4>3 DEF Agree, InMode
        <4> QED BY <3>1, <4>4
      <3> QED BY <3>2, <3>3
    <2>5. \A i \in found' : documents'[i].task \in InHand("mode")'.tasks
      BY <1>1, <2>1, <2>2 DEF ModeInv
    <2>6. ASSUME NEW i \in found', documents'[i].task \notin unsaved' \union stale'
          PROVE  InMode(i, InHand("mode").disabled)'
      <3>1. i \in found /\ documents'[i].disabled = InHand("mode").disabled /\ i \notin completed'
        BY <2>1, <2>2, <2>6, <2>7
      <3>2. i \notin HeldAgainst(InHand("mode").disabled)
        BY <2>1, <2>2, <2>6, <2>7, <3>1
      <3>3. InHand("mode").disabled \in BOOLEAN
        BY <1>1, ModeQueue DEF ModeMessages
      <3>4. \A w \in Workers : runs[w] # None /\ runs[w].document = i
                                => runs[w].disabled \in {Absent, InHand("mode").disabled}
        BY <3>2 DEF HeldAgainst
      <3>5. \A w \in Workers : runs[w] # None => runs[w].disabled \in {FALSE, Absent}
        BY DEF Typed, DataTyped, Run
      <3> QED BY <1>1, <2>7, <3>1, <3>3, <3>4, <3>5 DEF InMode
    <2> QED BY <1>1, <2>1, <2>3, <2>4, <2>5, <2>6 DEF ModeInv
  <1>4. CASE SendTaskModeMessage
    <2>1. /\ consumer["mode"] = "saved" /\ consumer'["mode"] = "handled"
          /\ found' = {} /\ UNCHANGED <<jobs, unsaved>>
          /\ confirmed' = [t \in Tasks |-> IF t \in Confirmed
                                           THEN IF InHand("mode").disabled THEN "DISABLED"
                                                ELSE "ENABLED"
                                           ELSE confirmed[t]]
      BY <1>4 DEF SendTaskModeMessage, At, Goes, Typed, QueuesTyped, Queues
    <2>2. ASSUME NEW t \in Tasks \ (repeated \union unsaved), confirmed'[t] # None
          PROVE  DocumentsOf(t)' # {} /\ Agree(t)'
      <3>1. DocumentsOf(t)' = DocumentsOf(t)
        BY <2>1 DEF DocumentsOf, jobs
      <3>2. CASE t \in Confirmed
        <4>1. PICK i \in found : documents[i].task = t
          BY <3>2 DEF Confirmed
        <4>2. i \in DocumentsOf(t) /\ (InMode(i, InHand("mode").disabled) \/ t \in stale)
          BY <2>1, <2>2, <4>1 DEF ModeInv, DocumentsOf, Typed, DataTyped
        <4>3. \A j \in DocumentsOf(t) : j = i
          BY <2>2, <4>2 DEF OutcomesInv, Single
        <4>4. InHand("mode").disabled \in BOOLEAN
          BY <1>1, ModeQueue DEF ModeMessages
        <4>5. confirmed'[t] = "DISABLED" <=> InHand("mode").disabled
          BY <2>1, <3>2, <4>4
        <4>6. t \notin stale =>
                \A j \in DocumentsOf(t)' : InMode(j, confirmed[t] = "DISABLED")'
          BY <2>1, <3>1, <4>2, <4>3, <4>4, <4>5 DEF InMode, jobs
        <4> QED BY <2>1, <3>1, <4>2, <4>6 DEF Agree, jobs
      <3>3. CASE t \notin Confirmed
        <4>1. confirmed'[t] = confirmed[t]
          BY <2>1, <3>3
        <4>2. DocumentsOf(t) # {} /\ Agree(t)
          BY <2>1, <2>2, <3>3, <4>1 DEF ModeInv, Pending
        <4> QED BY <2>1, <3>1, <4>1, <4>2 DEF Agree, InMode, jobs
      <3> QED BY <3>2, <3>3
    <2> QED BY <1>1, <2>1, <2>2 DEF ModeInv
  <1> QED BY <1>2, <1>3, <1>4

(* A run begins, saves or ends: no confirmed mode is lost by it.           *)
LEMMA ModesRun ==
  ASSUME Typed, ModeInv, RunStep
  PROVE  ModeInv'
  <1>1. /\ UNCHANGED <<log, acked, consumer, found, confirmed, repeated, unsaved, stale>>
        /\ DOMAIN documents' = DOMAIN documents
        /\ \A i \in DOMAIN documents : documents'[i].task = documents[i].task
        /\ found \subseteq DOMAIN documents
    BY RunEffect DEF Typed, DataTyped
  <1>2. InHand("mode")' = InHand("mode") /\ Confirmed' = Confirmed
    BY <1>1 DEF InHand, Confirmed
  <1>3. ASSUME NEW t
        PROVE  /\ DocumentsOf(t)' = DocumentsOf(t)
               /\ Pending(t)' <=> Pending(t)
               /\ Agree(t) => Agree(t)'
    <2>1. DocumentsOf(t)' = DocumentsOf(t) /\ DocumentsOf(t) \subseteq DOMAIN documents
      BY <1>1 DEF DocumentsOf
    <2>2. Pending(t)' <=> Pending(t)
      BY <1>1, <1>2 DEF Pending
    <2>3. (confirmed[t] = "DISABLED") \in BOOLEAN
      OBVIOUS
    <2>4. \A i \in DocumentsOf(t) :
            InMode(i, confirmed[t] = "DISABLED") => InMode(i, confirmed[t] = "DISABLED")'
      BY <1>1, <2>1, <2>3, RunKeepsMode
    <2>5. Agree(t) => Agree(t)'
      BY <1>1, <2>1, <2>4 DEF Agree
    <2> QED BY <2>1, <2>2, <2>5
  <1>4. ASSUME consumer["mode"] = "saved", NEW i \in found,
               documents[i].task \notin unsaved \union stale
        PROVE  InMode(i, InHand("mode").disabled)'
    <2>1. InHand("mode").disabled \in BOOLEAN /\ InMode(i, InHand("mode").disabled)
      BY <1>4, ModeQueue DEF ModeInv, ModeMessages
    <2>2. PICK off \in BOOLEAN : off = InHand("mode").disabled
      BY <2>1
    <2>3. InMode(i, off) /\ i \in DOMAIN documents
      BY <1>1, <2>1, <2>2
    <2>4. InMode(i, off)'
      BY <2>3, RunKeepsMode
    <2> QED BY <1>2, <2>2, <2>4 DEF InMode
  <1> QED BY <1>1, <1>2, <1>3, <1>4 DEF ModeInv

(* The confirmed modes hold after every step.                              *)
LEMMA ModesNext ==
  ASSUME Typed, OutcomesInv, ModeInv, [Next]_vars
  PROVE  ModeInv'
  <1>1. ASSUME NEW q \in Queues, Publish(q) PROVE ModeInv'
    <2>1. UNCHANGED <<acked, consumer, found, jobs, confirmed, repeated, unsaved>>
      BY <1>1, PublishEffect DEF tasks
    <2>2. CASE q # "mode" \/ acked["mode"] < Len(log["mode"])
      <3>1. /\ log'["mode"] = log["mode"]
            \/ /\ Len(log'["mode"]) = Len(log["mode"]) + 1
               /\ \A n \in 1 .. Len(log["mode"]) : log'["mode"][n] = log["mode"][n]
        BY <1>1, <2>2, PublishEffect DEF Queues
      <3>2. acked["mode"] < Len(log["mode"]) =>
              acked["mode"] < Len(log'["mode"]) /\ InHand("mode")' = InHand("mode")
        BY <2>1, <3>1, ModeQueue DEF InHand
      <3> QED BY <2>1, <3>2, ModesKept
    <2>3. CASE q = "mode" /\ ~(acked["mode"] < Len(log["mode"]))
      <3>1. consumer["mode"] = "ready" /\ found = {}
        BY <2>3, ModeQueue
      <3>2. \A t : DocumentsOf(t)' = DocumentsOf(t) /\ (Agree(t) => Agree(t)')
        BY <2>1 DEF DocumentsOf, Agree, InMode, jobs
      <3>3. \A t : ~Pending(t)
        BY <2>3 DEF Pending
      <3> QED BY <2>1, <3>1, <3>2, <3>3 DEF ModeInv
    <2> QED BY <2>2, <2>3
  <1>2. ASSUME NEW q \in Queues, Acknowledge(q) PROVE ModeInv'
    <2>1. /\ consumer[q] = "handled" /\ acked' = [acked EXCEPT ![q] = @ + 1]
          /\ consumer' = [consumer EXCEPT ![q] = "ready"]
          /\ UNCHANGED <<log, found, jobs, confirmed, repeated, unsaved>>
          /\ acked \in [Queues -> Nat] /\ consumer \in [Queues -> Steps]
      BY <1>2 DEF Acknowledge, At, Goes, Typed, QueuesTyped, tasks
    <2>2. CASE q # "mode"
      <3>1. UNCHANGED <<acked["mode"], consumer["mode"]>> /\ InHand("mode")' = InHand("mode")
        BY <2>1, <2>2 DEF Queues, InHand
      <3> QED BY <2>1, <3>1, ModesKept
    <2>3. CASE q = "mode"
      <3>1. consumer["mode"] = "handled" /\ consumer'["mode"] = "ready" /\ found = {}
        BY <2>1, <2>3, ModeQueue DEF Queues
      <3>2. \A t : DocumentsOf(t)' = DocumentsOf(t) /\ (Agree(t) => Agree(t)')
        BY <2>1 DEF DocumentsOf, Agree, InMode, jobs
      <3>3. \A t : ~Pending(t)
        BY <3>1 DEF Pending
      <3> QED BY <2>1, <3>1, <3>2, <3>3 DEF ModeInv
    <2> QED BY <2>2, <2>3
  <1>3. CASE Crash
    <2>1. /\ consumer'["mode"] = "ready" /\ found' = {} /\ repeated \subseteq repeated'
          /\ UNCHANGED <<log, acked, documents, confirmed, unsaved, stale, completed>>
          /\ runs' = [w \in Workers |-> None]
      BY <1>3 DEF Crash, Queues
    <2>2. \A t : DocumentsOf(t)' = DocumentsOf(t) /\ (Agree(t) => Agree(t)')
      BY <2>1 DEF DocumentsOf, Agree, InMode
    <2>3. \A t : Pending(t) => Pending(t)'
      BY <2>1 DEF Pending, InHand
    <2> QED BY <2>1, <2>2, <2>3 DEF ModeInv
  <1>4. CASE HandleUserMessage \/ UserMessageThrows \/ FailTask \/ TaskMessageThrows
    <2>1. UNCHANGED <<log, acked, consumer["mode"], found, jobs, confirmed, repeated, unsaved>>
      BY <1>4 DEF HandleUserMessage, UserMessageThrows, FailTask, TaskMessageThrows, Goes, Typed,
         QueuesTyped, Queues, tasks
    <2> QED BY <2>1, ModesKept DEF InHand
  <1>5. CASE ModeMessageThrows
    <2>1. /\ consumer["mode"] = "ready" /\ consumer'["mode"] = "stalled" /\ found = {}
          /\ UNCHANGED <<log, acked, found, jobs, confirmed, repeated, unsaved>>
      BY <1>5, ModeQueue DEF ModeMessageThrows, At, Goes, Typed, QueuesTyped, Queues, tasks
    <2>2. \A t : DocumentsOf(t)' = DocumentsOf(t) /\ (Agree(t) => Agree(t)')
      BY <2>1 DEF DocumentsOf, Agree, InMode, jobs
    <2>3. \A t : Pending(t) => Pending(t)'
      BY <2>1 DEF Pending, InHand
    <2> QED BY <2>1, <2>2, <2>3 DEF ModeInv
  <1>6. CASE RunStep
    BY <1>6, ModesRun
  <1>7. CASE UNCHANGED vars
    BY <1>7, ModesKept DEF vars, tasks, jobs, InHand
  <1> QED BY <1>1, <1>2, <1>3, <1>4, <1>5, <1>6, <1>7, ModesSchedule, ModesHandled
          DEF Next, Consume, RunStep

(* While no mode message is in hand, the documents of a task have the mode *)
(* that was last confirmed for it, whatever was scheduled and whatever ran *)
(* while the mode was set and since, unless a run held another flag when   *)
(* it was set: for any number of tasks, messages, runs and crashes.        *)
THEOREM ModeHolds == Spec => []ConfirmedModeHolds
  <1>1. Init => OutcomesInv /\ ModeInv
    BY DEF Init, OutcomesInv, ModeInv, Queues, Handled, Untouched, Single, DocumentsOf
  <1>2. Typed /\ ModeInv => ConfirmedModeHolds
    BY ModeQueue DEF ModeInv, Pending, Agree, InMode, ConfirmedModeHolds
  <1> QED BY <1>1, <1>2, TypeInit, TypeNext, OutcomesNext, ModesNext, PTL DEF Spec
=============================================================================
