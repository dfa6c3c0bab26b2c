--------------------------- MODULE MCDataFetchJobs ---------------------------
(***************************************************************************)
(* Instances of DataFetchJobs for TLC: the requests that the runs send.    *)
(***************************************************************************)
EXTENDS DataFetchJobs, TLC

(* A repeating task of two windows that is started a window early.         *)
TwoWindows == [dateFrom |-> 0, dateTo |-> 2, firstRunAt |-> None,
               interval |-> 1, window |-> 1]

(* A repeating task without an end whose windows are longer than its       *)
(* interval, so that runs come before their window is over.                *)
Endless == [dateFrom |-> 0, dateTo |-> None, firstRunAt |-> None,
            interval |-> 1, window |-> 2]

(* Single tasks: of the past, of the future, and without an end.           *)
Past   == [dateFrom |-> -1, dateTo |-> 0, firstRunAt |-> None,
           interval |-> None, window |-> None]
Future == [dateFrom |-> 2, dateTo |-> 3, firstRunAt |-> None,
           interval |-> None, window |-> None]
NoEnd  == [dateFrom |-> -1, dateTo |-> None, firstRunAt |-> None,
           interval |-> None, window |-> None]

(* A repeating task that asks for its first run later.                     *)
Later == [TwoWindows EXCEPT !.firstRunAt = 1]

(* A repeating task of two windows, one of which is over.                  *)
Begun == [TwoWindows EXCEPT !.dateFrom = -1, !.dateTo = 1]

(* A repeating task whose windows have no length.                          *)
Still == [TwoWindows EXCEPT !.window = 0]

(* Tasks that are refused: without a start, and repeating without a window.*)
NoStart  == [Past EXCEPT !.dateFrom = None]
NoWindow == [TwoWindows EXCEPT !.window = None]

WindowRequests  == {TwoWindows, Endless, Still, Later, Past, NoEnd, NoStart, NoWindow}
ModeRequests    == {Begun, Past, NoEnd}
DisabledRequests == {TwoWindows, Endless}
FutureRequests == {TwoWindows, Future}

SlotSymmetry == Permutations(Workers) \union Permutations(Sensors)
=============================================================================
