----------------------------- MODULE JobDocument -----------------------------
(***************************************************************************)
(* The part of an agenda job document that decides when the job runs, and  *)
(* what agenda's operations do to it.  Agenda (@hokify/agenda) is not part *)
(* of the repository; it is modelled as src/core/jobs uses it:             *)
(*                                                                         *)
(*  - to run a job agenda locks its document: it sets lockedAt with a      *)
(*    conditional update, and the run works on the document that update    *)
(*    returned;                                                            *)
(*  - job.save() writes every field the in-memory copy has, and only a     *)
(*    field the copy does not have keeps its stored value.  A document     *)
(*    that was never enabled or disabled has no disabled field, one that   *)
(*    was never locked has no lockedAt field;                              *)
(*  - saveJobState, called before and after the handler, writes lockedAt   *)
(*    and nextRunAt only.                                                  *)
(***************************************************************************)
EXTENDS FetchPeriod

CONSTANTS Absent,        \* a field the document does not have
          LockLifetime   \* defaultLockLifetime

ASSUME AbsentAssumption == Absent \notin Int /\ Absent # None
                             /\ Absent \notin BOOLEAN
ASSUME LockLifetimeAssumption == LockLifetime \in Nat \ {0}

(* disabled, lockedAt and nextRunAt are agenda's; the two dates are the    *)
(* fields of the payload that a run moves.                                 *)
Document == [disabled        : BOOLEAN \union {Absent},
             lockedAt        : Int \union {None, Absent},
             nextRunAt       : Maybe(Int),
             currentDateFrom : Int,
             currentDateTo   : Maybe(Int)]

ASSUME DocumentAssumption == None \notin Document

Unlocked(doc) == doc.lockedAt = None \/ doc.lockedAt = Absent

LockExpiredAt(doc, time) ==
  ~Unlocked(doc) /\ doc.lockedAt + LockLifetime =< time

IsDue(doc, time) ==
  Unlocked(doc) /\ doc.nextRunAt # None /\ doc.nextRunAt =< time

Save(doc, copy) ==
  [copy EXCEPT
     !.disabled = IF copy.disabled = Absent THEN doc.disabled ELSE copy.disabled,
     !.lockedAt = IF copy.lockedAt = Absent THEN doc.lockedAt ELSE copy.lockedAt]

SaveRunState(doc, copy) ==
  [doc EXCEPT !.lockedAt = copy.lockedAt, !.nextRunAt = copy.nextRunAt]
=============================================================================
