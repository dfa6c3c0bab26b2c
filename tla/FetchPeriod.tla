----------------------------- MODULE FetchPeriod -----------------------------
(***************************************************************************)
(* Which period of measurements a data-fetch job downloads when it runs.   *)
(* Pure functions of the job's payload and of the wall clock, translated   *)
(* from src/core/jobs/handlers/data-fetch.job.handler.ts.                  *)
(*                                                                         *)
(* Instants and durations are integers of one unit.  None stands for a     *)
(* field that is absent (undefined or null in the code).                   *)
(***************************************************************************)
EXTENDS Integers

CONSTANT None

ASSUME NoneAssumption == None \notin Int

Maybe(S) == S \union {None}

(* A fetch is possible once its start is past and its end is past too,     *)
(* except that the last window of a job need not have ended.  A job whose  *)
(* window has not ended is told to run again when it has.                  *)
FetchPossibility(dateFrom, dateTo, willComplete, now) ==
  LET available == dateTo = None \/ willComplete \/ dateTo =< now
  IN  [canFetch  |-> dateFrom < now /\ available,
       nextRunAt |-> IF available THEN None ELSE dateTo]

(* A payload that getFetchPeriodData throws on.                            *)
HasNoPeriod(p) ==
  \/ p.currentDateFrom = None
  \/ p.window = None /\ p.currentDateTo = None

(* The window that starts at the job's current start and is as long as its *)
(* window duration; the job completes when the window reaches the end of   *)
(* the requested range.                                                    *)
WindowPeriod(p, now) ==
  LET to           == p.currentDateFrom + p.window
      willComplete == p.dateTo # None /\ to >= p.dateTo
      possible     == FetchPossibility(p.currentDateFrom, to, willComplete, now)
  IN  [canFetch |-> possible.canFetch, nextRunAt |-> possible.nextRunAt,
       from |-> p.currentDateFrom, to |-> to,
       nextFrom |-> to, nextTo |-> to + p.window,
       shouldComplete |-> willComplete]

(* Without a window duration the whole requested range is one period, the  *)
(* end of the range is not looked at, and the job always completes.        *)
WholePeriod(p, now) ==
  [canFetch |-> FetchPossibility(p.currentDateFrom, None, TRUE, now).canFetch,
   nextRunAt |-> None,
   from |-> p.currentDateFrom, to |-> p.currentDateTo,
   nextFrom |-> p.currentDateFrom, nextTo |-> p.currentDateTo,
   shouldComplete |-> TRUE]

(* Mutant: the next cycle starts where the next cycle ends.                *)
FetchPeriodSkipping(p, now) ==
  IF p.window # None
  THEN [WindowPeriod(p, now) EXCEPT !.nextFrom = @ + p.window]
  ELSE WholePeriod(p, now)

FetchPeriodData(p, now) ==
  IF p.window # None THEN WindowPeriod(p, now) ELSE WholePeriod(p, now)
=============================================================================
