------------------------------ MODULE FetchTask ------------------------------
(***************************************************************************)
(* What the service promises about its data-fetch tasks, whatever jobs,    *)
(* locks, copies of documents, failures and crashes it takes: a task is    *)
(* delivered window by window from its start on.  A window is delivered    *)
(* once it is settled for every sensor (its file is stored or its download *)
(* failed), and the task stands at the end of what was delivered.  Only a  *)
(* task whose handling was crossed may go back and deliver a window twice. *)
(***************************************************************************)
CONSTANTS None, Tasks, Sensors

VARIABLES
  cursor,     \* cursor[t]: where task t stands, None before it is scheduled
  settled,    \* settled[t]: windows of single sensors that need no more work
  delivered,  \* delivered[t]: windows whose result is sent or on its way
  crossed     \* crossed[t]: a lock expired under a run, or a mode message came

vars == <<cursor, settled, delivered, crossed>>

Init == /\ cursor = [t \in Tasks |-> None]
        /\ settled = [t \in Tasks |-> {}]
        /\ delivered = [t \in Tasks |-> {}]
        /\ crossed = [t \in Tasks |-> FALSE]

(* Where a window of a task may begin: where the task stands, or stood if  *)
(* its handling was crossed.                                               *)
Positions(t) == {cursor[t]} \union {w.from : w \in delivered[t]}
                            \union {w.to : w \in delivered[t]}

Begins(t, w) == w.from = cursor[t] \/ (crossed[t] /\ w.from \in Positions(t))

Schedule(t) == /\ cursor[t] = None
               /\ cursor'[t] # None
               /\ cursor' = [cursor EXCEPT ![t] = cursor'[t]]
               /\ UNCHANGED <<settled, delivered, crossed>>

Settle(t) == /\ cursor[t] # None
             /\ settled[t] \subseteq settled'[t]
             /\ \A f \in settled'[t] \ settled[t] : Begins(t, f)
             /\ settled' = [settled EXCEPT ![t] = settled'[t]]
             /\ UNCHANGED <<cursor, delivered, crossed>>

(* A window is delivered once, unless it is empty: a task whose windows    *)
(* have no length never moves on and delivers the same instant again.      *)
Deliver(t) ==
  \E w \in delivered'[t] :
    /\ Begins(t, w)
    /\ crossed[t] \/ w.from = w.to \/ w \notin delivered[t]
    /\ \A s \in Sensors : [from |-> w.from, to |-> w.to, sensor |-> s] \in settled[t]
    /\ delivered' = [delivered EXCEPT ![t] = @ \union {w}]
    /\ \E c \in {w.from, w.to} : cursor' = [cursor EXCEPT ![t] = c]
    /\ UNCHANGED <<settled, crossed>>

GoBack(t) == /\ cursor[t] # None
             /\ crossed' = [crossed EXCEPT ![t] = TRUE]
             /\ \E c \in Positions(t) : cursor' = [cursor EXCEPT ![t] = c]
             /\ UNCHANGED <<settled, delivered>>

Next == \E t \in Tasks : Schedule(t) \/ Settle(t) \/ Deliver(t) \/ GoBack(t)

Spec == Init /\ [][Next]_vars
=============================================================================
