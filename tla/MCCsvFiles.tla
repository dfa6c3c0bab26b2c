------------------------------ MODULE MCCsvFiles ------------------------------
(***************************************************************************)
(* An instance of CsvFiles for TLC: columns that come late and that are    *)
(* missing later, a short download after a long one, one with a null.      *)
(***************************************************************************)
EXTENDS CsvFiles

CONSTANTS r1, r2, s1, s2, a, b

Measurements ==
  LET items(d) == CASE d = <<r1, s1>> -> << <<a>>, <<b>> >>
                    [] d = <<r1, s2>> -> << <<b>> >>
                    [] d = <<r2, s1>> -> << <<b, a>> >>
                    [] d = <<r2, s2>> -> << Broken >>
  IN  [d \in Runs \X Sensors |-> items(d)]
=============================================================================
