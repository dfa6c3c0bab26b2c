------------------------------- MODULE CsvFiles -------------------------------
(***************************************************************************)
(* The local files of data-fetch runs: CSVWriter writes the rows of a      *)
(* download to a data file, copies them behind a header to the final file, *)
(* and the run stores the final files one by one and deletes them.  A      *)
(* fileName that the task gives is the name in every run, so runs that     *)
(* overlap, or sensors of one task, may share their files.                 *)
(*                                                                         *)
(* src/core/cumulocity/filewriter/csv-writer.ts and                        *)
(* src/core/jobs/handlers/data-fetch.job.handler.ts.                       *)
(*                                                                         *)
(* The file system is external: a path leads to an inode, and a stream     *)
(* keeps the inode it opened and its own position in it, whatever happens  *)
(* to the path.  Contents are sequences of lines, not of bytes.            *)
(***************************************************************************)
EXTENDS Integers, Sequences, FiniteSets

CONSTANTS Runs, Sensors,
          Columns,        \* the column names
          Items,          \* Items[d]: the measurements of a download; each is the
                          \* sequence of its columns as extractRowData meets
                          \* them, or Broken if one of its values is null
          Names,          \* the names a task may give to a sensor's file
          None, Broken,
          MaxCrashes,     \* bound: crashes
          MaxFaults       \* bound: calls to a server or a store that fail

(* A download is one sensor in one run.                                    *)
Downloads == DOMAIN Items

ASSUME BoundsAssumption == MaxCrashes \in Nat /\ MaxFaults \in Nat
ASSUME ItemsAssumption == /\ Downloads \subseteq Runs \X Sensors
                          /\ Items \in [Downloads -> Seq(Seq(Columns) \union {Broken})]

VARIABLES
  fileName,  \* fileName[s]: the name the task gives, None for a random one
  run,       \* run[r]: what run r is doing
  writer,    \* writer[d]: the CSVWriter of download d
  path,      \* path[p]: the inode at a path, None if there is no file
  inode,     \* inode[i]: the lines in an inode
  stored,    \* objects put in the store: the download and the lines
  clashed,   \* downloads that had files while another of the same name had
  faulted,   \* runs in which a call failed
  budget     \* how much of each bound is left

vars == <<fileName, run, writer, path, inode, stored, clashed, faulted, budget>>

RunOf(d) == d[1]
Of(r)    == {d \in Downloads : RunOf(d) = r}

(* Without a fileName the name is a random one.                            *)
NameOf(d) == IF fileName[d[2]] = None THEN d ELSE fileName[d[2]]

(* The data file ("nocolumns_" and the name) and the final file.  An inode *)
(* is named by the download that made it.                                  *)
Paths      == {"data", "final"} \X (Names \union Downloads)
Inodes     == {"data", "final"} \X Downloads
DataOf(d)  == <<"data", NameOf(d)>>
FinalOf(d) == <<"final", NameOf(d)>>

(* The header is row 0: its cells are columns, those of a row the items    *)
(* that the values are from.                                               *)
Line(d, row, cells) == [of |-> d, row |-> row, cells |-> cells]

Lines == [of : Downloads, row : Nat, cells : Seq(Columns \union Nat \union {None})]

ASSUME NoneAssumption == None \notin Inodes \union Lines

NewWriter == [pc |-> "new", stream |-> None, to |-> None, written |-> 0,
              columns |-> <<>>, data |-> [c \in Columns |-> None]]

Init ==
  /\ fileName \in [Sensors -> Names \union {None}]
  /\ run = [r \in Runs |-> "new"]
  /\ writer = [d \in Downloads |-> NewWriter]
  /\ path = [p \in Paths |-> None]
  /\ inode = [i \in Inodes |-> <<>>]
  /\ stored = {}
  /\ clashed = {}
  /\ faulted = {}
  /\ budget = [crashes |-> MaxCrashes, faults |-> MaxFaults]

Spend(what) == budget[what] > 0 /\ budget' = [budget EXCEPT ![what] = @ - 1]

InProgress(r) == run[r] \in {"fetching", "storing"}

(* A download that is writing its files or has yet to store and delete them*)
Busy(d) == InProgress(RunOf(d)) /\ writer[d].pc \notin {"rejected", "deleted"}

To(d, pc) == writer' = [writer EXCEPT ![d].pc = pc]

(* The inode at p after it was opened with flags "w+": emptied if there is *)
(* one, else made.                                                         *)
Opened(p, made) == IF path[p] = None THEN made ELSE path[p]

(* Lines written at a position, whatever is there and behind them.         *)
WrittenAt(old, at, lines) ==
  [i \in 1 .. (IF Len(old) > at + Len(lines) THEN Len(old) ELSE at + Len(lines)) |->
     CASE i \in at + 1 .. at + Len(lines) -> lines[i - at]
       [] i \notin at + 1 .. at + Len(lines) /\ i =< Len(old) -> old[i]
       [] OTHER -> None]
------------------------------------------------------------------------------
(*                           Writing rows                                  *)

(* All writers of a run are made at once.                                  *)
Begin(r) ==
  LET others(d) == {e \in Downloads \ {d} : /\ Busy(e) \/ RunOf(e) = r
                                            /\ NameOf(e) = NameOf(d)}
      clashing == {d \in Of(r) : others(d) # {}}
  IN  /\ run[r] = "new"
      /\ run' = [run EXCEPT ![r] = "fetching"]
      /\ clashed' = clashed \union clashing \union UNION {others(d) : d \in clashing}
      /\ UNCHANGED <<fileName, writer, path, inode, stored, faulted, budget>>

(* Mutant: the data file is not emptied.                                   *)
OpenKeeping(d) ==
  LET i == Opened(DataOf(d), <<"data", d>>)
  IN  /\ run[RunOf(d)] = "fetching" /\ writer[d].pc = "new"
      /\ path' = [path EXCEPT ![DataOf(d)] = i]
      /\ writer' = [writer EXCEPT ![d].pc = "writing", ![d].stream = i]
      /\ UNCHANGED <<fileName, run, inode, stored, clashed, faulted, budget>>

(* The constructor opens the data file.                                    *)
Open(d) ==
  LET i == Opened(DataOf(d), <<"data", d>>)
  IN  /\ run[RunOf(d)] = "fetching" /\ writer[d].pc = "new"
      /\ path' = [path EXCEPT ![DataOf(d)] = i]
      /\ inode' = [inode EXCEPT ![i] = <<>>]
      /\ writer' = [writer EXCEPT ![d].pc = "writing", ![d].stream = i]
      /\ UNCHANGED <<fileName, run, stored, clashed, faulted, budget>>

Has(columns, c) == \E i \in DOMAIN columns : columns[i] = c

(* Mutant: a column that is new goes before the others.                    *)
AddedInFront(columns, item) ==
  LET added[n \in 0 .. Len(item)] ==
        IF n = 0 THEN columns
        ELSE IF Has(added[n - 1], item[n]) THEN added[n - 1]
        ELSE <<item[n]>> \o added[n - 1]
  IN  added[Len(item)]

(* The columns of an item are added to a Set: those that are new go behind *)
(* the others.                                                             *)
Added(columns, item) ==
  LET added[n \in 0 .. Len(item)] ==
        IF n = 0 THEN columns
        ELSE IF Has(added[n - 1], item[n]) THEN added[n - 1]
        ELSE Append(added[n - 1], item[n])
  IN  added[Len(item)]

(* A column has the value of item k, or keeps that of an earlier item if   *)
(* item k has none.                                                        *)
ExtractRowData(w, item, k) ==
  [w EXCEPT !.columns = Added(@, item),
            !.data = [c \in Columns |-> IF Has(item, c) THEN k ELSE @[c]]]

(* A row: for each column so far, the item that its value is from.         *)
BuildRow(w) == [i \in DOMAIN w.columns |-> w.data[w.columns[i]]]

(* One measurement: its row goes to the data file.                         *)
WriteRow(d) ==
  LET k == writer[d].written + 1
      w == ExtractRowData(writer[d], Items[d][k], k)
  IN  /\ writer[d].pc = "writing"
      /\ k =< Len(Items[d]) /\ Items[d][k] # Broken
      /\ inode' = [inode EXCEPT ![w.stream] =
                     WrittenAt(@, k - 1, <<Line(d, k, BuildRow(w))>>)]
      /\ writer' = [writer EXCEPT ![d] = [w EXCEPT !.written = k]]
      /\ UNCHANGED <<fileName, run, path, stored, clashed, faulted, budget>>

(* Object.keys throws on a null: the download is rejected and the writer   *)
(* never closed.                                                           *)
RowFails(d) ==
  LET k == writer[d].written + 1
  IN  /\ writer[d].pc = "writing"
      /\ k =< Len(Items[d]) /\ Items[d][k] = Broken
      /\ To(d, "rejected")
      /\ UNCHANGED <<fileName, run, path, inode, stored, clashed, faulted, budget>>

(* A page cannot be fetched.                                               *)
FetchFails(d) ==
  /\ writer[d].pc = "writing"
  /\ Spend("faults")
  /\ To(d, "rejected")
  /\ faulted' = faulted \union {RunOf(d)}
  /\ UNCHANGED <<fileName, run, path, inode, stored, clashed>>
------------------------------------------------------------------------------
(*                        close(), and the run                             *)

(* Mutant: it is not noticed that the data file is gone.                   *)
BeginBlindCopy(d) ==
  LET i == Opened(FinalOf(d), <<"final", d>>)
  IN  /\ writer[d].pc = "writing" /\ writer[d].written = Len(Items[d])
      /\ path' = [path EXCEPT ![FinalOf(d)] = i]
      /\ inode' = [inode EXCEPT ![i] = <<Line(d, 0, writer[d].columns)>>]
      /\ writer' = [writer EXCEPT ![d].pc = "copying", ![d].stream = path[DataOf(d)], ![d].to = i]
      /\ UNCHANGED <<fileName, run, stored, clashed, faulted, budget>>

(* The data file is opened again to be read and the final file to be       *)
(* written, with the header.                                               *)
BeginCopy(d) ==
  LET i == Opened(FinalOf(d), <<"final", d>>)
  IN  /\ writer[d].pc = "writing" /\ writer[d].written = Len(Items[d])
      /\ path' = [path EXCEPT ![FinalOf(d)] = i]
      /\ inode' = [inode EXCEPT ![i] = <<Line(d, 0, writer[d].columns)>>]
      /\ writer' = [writer EXCEPT ![d].pc = IF path[DataOf(d)] = None
                                            THEN "rejected" ELSE "copying",
                                  ![d].stream = path[DataOf(d)], ![d].to = i]
      /\ UNCHANGED <<fileName, run, stored, clashed, faulted, budget>>

(* pipeline() puts the rows behind the header.                             *)
Copy(d) ==
  /\ writer[d].pc = "copying"
  /\ inode' = [inode EXCEPT ![writer[d].to] = WrittenAt(@, 1, inode[writer[d].stream])]
  /\ To(d, "copied")
  /\ UNCHANGED <<fileName, run, path, stored, clashed, faulted, budget>>

(* Mutant: the data file is left where it is.                              *)
UnlinkNothing(d) ==
  /\ writer[d].pc = "copied"
  /\ To(d, "fulfilled")
  /\ UNCHANGED <<fileName, run, path, inode, stored, clashed, faulted, budget>>

(* unlink() of the data file, which throws if another writer did it first. *)
Unlink(d) ==
  /\ writer[d].pc = "copied"
  /\ path' = [path EXCEPT ![DataOf(d)] = None]
  /\ To(d, IF path[DataOf(d)] = None THEN "rejected" ELSE "fulfilled")
  /\ UNCHANGED <<fileName, run, inode, stored, clashed, faulted, budget>>

With(r, pc) == {d \in Of(r) : writer[d].pc = pc}

(* awaitAllPromises: the run goes on once every download is settled.       *)
AllSettled(r) ==
  /\ run[r] = "fetching"
  /\ With(r, "fulfilled") \union With(r, "rejected") = Of(r)
  /\ run' = [run EXCEPT ![r] = "storing"]
  /\ UNCHANGED <<fileName, writer, path, inode, stored, clashed, faulted, budget>>

(* fPutObject reads the final file.                                        *)
Store(d) ==
  LET r == RunOf(d)
  IN  /\ run[r] = "storing" /\ writer[d].pc = "fulfilled" /\ With(r, "stored") = {}
      /\ path[FinalOf(d)] # None
      /\ stored' = stored \union {[download |-> d, lines |-> inode[path[FinalOf(d)]]]}
      /\ To(d, "stored")
      /\ UNCHANGED <<fileName, run, path, inode, clashed, faulted, budget>>

(* Mutant: all local files of the run are deleted.                         *)
DeleteAllFiles(d) ==
  /\ run[RunOf(d)] = "storing" /\ writer[d].pc = "stored"
  /\ path' = [p \in Paths |-> IF \E e \in Of(RunOf(d)) : p = FinalOf(e) THEN None ELSE path[p]]
  /\ To(d, "deleted")
  /\ UNCHANGED <<fileName, run, inode, stored, clashed, faulted, budget>>

(* The local file is deleted, before the next one is stored.               *)
DeleteLocalFile(d) ==
  /\ run[RunOf(d)] = "storing" /\ writer[d].pc = "stored"
  /\ path[FinalOf(d)] # None
  /\ path' = [path EXCEPT ![FinalOf(d)] = None]
  /\ To(d, "deleted")
  /\ UNCHANGED <<fileName, run, inode, stored, clashed, faulted, budget>>

(* The local file is not there to be stored or deleted, or the store       *)
(* fails: the run throws, and the files behind this one stay.              *)
RunFails(d) ==
  LET r == RunOf(d)
  IN  /\ run[r] = "storing"
      /\ writer[d].pc \in {"fulfilled", "stored"} /\ With(r, "stored") \subseteq {d}
      /\ \/ path[FinalOf(d)] = None /\ UNCHANGED <<faulted, budget>>
         \/ /\ path[FinalOf(d)] # None /\ writer[d].pc = "fulfilled"
            /\ Spend("faults")
            /\ faulted' = faulted \union {r}
      /\ run' = [run EXCEPT ![r] = "failed"]
      /\ UNCHANGED <<fileName, writer, path, inode, stored, clashed>>

End(r) ==
  /\ run[r] = "storing"
  /\ With(r, "fulfilled") \union With(r, "stored") = {}
  /\ run' = [run EXCEPT ![r] = "done"]
  /\ UNCHANGED <<fileName, writer, path, inode, stored, clashed, faulted, budget>>

(* The process ends; the files stay.                                       *)
Crash ==
  /\ Spend("crashes")
  /\ run' = [r \in Runs |-> IF InProgress(r) THEN "killed" ELSE run[r]]
  /\ UNCHANGED <<fileName, writer, path, inode, stored, clashed, faulted>>

(* What a download does by itself, as long as its run is in progress.      *)
Step(d) ==
  /\ run[RunOf(d)] = "fetching"
  /\ \/ WriteRow(d) \/ RowFails(d) \/ FetchFails(d)
     \/ BeginCopy(d) \/ Copy(d) \/ Unlink(d)

Next ==
  \/ \E r \in Runs : Begin(r) \/ AllSettled(r) \/ End(r)
  \/ \E d \in Downloads : Open(d) \/ Step(d) \/ Store(d) \/ DeleteLocalFile(d) \/ RunFails(d)
  \/ Crash

Spec == Init /\ [][Next]_vars

------------------------------------------------------------------------------
(*                             Properties                                  *)

Writer == [pc : {"new", "writing", "copying", "copied", "fulfilled", "rejected",
                 "stored", "deleted"},
           stream : Inodes \union {None}, to : Inodes \union {None}, written : Nat,
           columns : Seq(Columns), data : [Columns -> Nat \union {None}]]

(* The types of the state, and that the stream of a writer is open while   *)
(* it is used.                                                             *)
TypeOK ==
  /\ fileName \in [Sensors -> Names \union {None}]
  /\ run \in [Runs -> {"new", "fetching", "storing", "done", "failed", "killed"}]
  /\ writer \in [Downloads -> Writer]
  /\ path \in [Paths -> Inodes \union {None}]
  /\ inode \in [Inodes -> Seq(Lines \union {None})]
  /\ stored \subseteq [download : Downloads, lines : Seq(Lines \union {None})]
  /\ clashed \subseteq Downloads /\ faulted \subseteq Runs
  /\ budget \in [crashes : Nat, faults : Nat]
  /\ \A d \in Downloads :
       /\ writer[d].pc \in {"writing", "copying"} => writer[d].stream \in Inodes
       /\ writer[d].pc \in {"copying", "copied"} => writer[d].to \in Inodes

(* What is put in the store for a download is its header and each of its   *)
(* rows in order, whatever files earlier runs, failures and crashes left   *)
(* behind; only another writer of the same name at the same time spoils it.*)
StoredIsOwnFile ==
  \A o \in stored : o.download \notin clashed =>
    /\ Len(o.lines) = 1 + Len(Items[o.download])
    /\ \A i \in DOMAIN o.lines : o.lines[i] # None /\ o.lines[i].of = o.download
                                 /\ o.lines[i].row = i - 1

(* The cells of every row stand under their columns, although columns are  *)
(* found as rows are written: a cell has the value of the last measurement *)
(* so far that has the column (a column that a measurement lacks repeats   *)
(* an earlier one), and no value of the row's own measurement is missing.  *)
CellsUnderColumns ==
  \A o \in stored : o.download \notin clashed =>
    \A k \in 1 .. Len(o.lines) - 1 :
      LET columns == o.lines[1].cells
          cells   == o.lines[k + 1].cells
          item(n) == Items[o.download][n]
      IN  /\ \A c \in Columns : Has(item(k), c) => \E j \in DOMAIN cells : columns[j] = c
          /\ \A j \in DOMAIN cells :
               /\ Has(item(cells[j]), columns[j]) /\ cells[j] =< k
               /\ \A n \in cells[j] + 1 .. k : ~Has(item(n), columns[j])

(* A download is rejected, and a run fails, only for a measurement with a  *)
(* null, a call that failed, or a writer of the same name at the same time.*)
FailureHasCause ==
  /\ \A d \in Downloads : writer[d].pc = "rejected" =>
       \/ \E k \in DOMAIN Items[d] : Items[d][k] = Broken
       \/ RunOf(d) \in faulted
       \/ d \in clashed
  /\ \A r \in Runs : run[r] = "failed" =>
       r \in faulted \/ \E d \in clashed : RunOf(d) = r

(* When no run is in progress, a file is left in the local folder only by  *)
(* a download that was rejected or a run that failed or was killed.        *)
LeftoverHasCause ==
  (\A r \in Runs : ~InProgress(r)) =>
    \A p \in Paths : path[p] # None =>
      \E d \in Downloads :
        /\ p \in {DataOf(d), FinalOf(d)}
        /\ \/ writer[d].pc = "rejected"
           \/ run[RunOf(d)] \in {"failed", "killed"}
=============================================================================
