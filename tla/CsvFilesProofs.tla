---------------------------- MODULE CsvFilesProofs ----------------------------
(***************************************************************************)
(* Proofs about CsvFiles: what is stored is the download's own file, with  *)
(* every cell under its column, failures have a cause, and so has a file   *)
(* that is left behind.                                                    *)
(*                                                                         *)
(* The argument.  A download is alone if it is at work and no other        *)
(* download at work has its name; a step of another one then touches other *)
(* paths and other inodes (LinksInv: a path leads to an inode made for its *)
(* name).  So its files hold what its own steps put there (FilesInv),      *)
(* whatever earlier downloads of that name left in them, because they are  *)
(* emptied when they are opened.                                           *)
(***************************************************************************)
EXTENDS CsvFiles, SequenceTheorems, WellFoundedInduction, TLAPS

------------------------------------------------------------------------------
(*                      The columns that are found                         *)

(* c behind the columns, unless it is one of them.                         *)
Including(columns, c) == IF Has(columns, c) THEN columns ELSE Append(columns, c)

(* f[n]: the columns after the first n of an item's m.                     *)
Adds(f, columns, item, m) ==
  f = [n \in 0 .. m |-> IF n = 0 THEN columns
                        ELSE IF Has(f[n - 1], item[n]) THEN f[n - 1]
                        ELSE Append(f[n - 1], item[n])]

(* Added, by the function that it is defined by.                           *)
LEMMA AddedIs ==
  ASSUME NEW columns, NEW item
  PROVE  Added(columns, item) = (CHOOSE f : Adds(f, columns, item, Len(item)))[Len(item)]
  BY DEF Added, Adds

(* That function by its start and its steps.                               *)
LEMMA AddsIs ==
  ASSUME NEW columns, NEW item, NEW m \in Nat, NEW f
  PROVE  Adds(f, columns, item, m) <=>
           /\ f = [n \in 0 .. m |-> f[n]]
           /\ f[0] = columns
           /\ \A n \in 1 .. m : f[n] = Including(f[n - 1], item[n])
  <1> DEFINE g == [n \in 0 .. m |-> IF n = 0 THEN columns
                        ELSE IF Has(f[n - 1], item[n]) THEN f[n - 1]
                        ELSE Append(f[n - 1], item[n])]
  <1>1. 0 \in 0 .. m /\ \A n \in 1 .. m : n \in 0 .. m /\ n # 0
    OBVIOUS
  <1>2. g[0] = columns /\ \A n \in 1 .. m : g[n] = Including(f[n - 1], item[n])
    BY <1>1 DEF Including
  <1>3. ASSUME f = g
        PROVE  /\ f = [n \in 0 .. m |-> f[n]]
               /\ f[0] = columns
               /\ \A n \in 1 .. m : f[n] = Including(f[n - 1], item[n])
    <2>1. g = [n \in 0 .. m |-> g[n]]
      OBVIOUS
    <2> HIDE DEF g
    <2> QED BY <1>2, <1>3, <2>1
  <1>4. ASSUME f = [n \in 0 .. m |-> f[n]], f[0] = columns,
               \A n \in 1 .. m : f[n] = Including(f[n - 1], item[n])
        PROVE  f = g
    <2>1. \A n \in 0 .. m : f[n] = g[n]
      <3> TAKE n \in 0 .. m
      <3>1. n = 0 \/ n \in 1 .. m
        OBVIOUS
      <3> HIDE DEF g
      <3> QED BY <1>2, <1>4, <3>1
    <2>2. g = [n \in 0 .. m |-> g[n]]
      OBVIOUS
    <2> HIDE DEF g
    <2> QED BY <1>4, <2>1, <2>2
  <1> QED BY <1>3, <1>4 DEF Adds

(* Its start and its steps alone.                                          *)
Follows(f, columns, item, m) ==
  f[0] = columns /\ \A n \in 1 .. m : f[n] = Including(f[n - 1], item[n])

LEMMA AddsSteps ==
  ASSUME NEW columns, NEW item, NEW m \in Nat, NEW f, Adds(f, columns, item, m)
  PROVE  Follows(f, columns, item, m)
  BY AddsIs DEF Follows

(* The least number with a property, as a fact about sets.                 *)
LEMMA LeastIn ==
  ASSUME NEW S \in SUBSET Nat, S # {}
  PROVE  \E m \in S : \A k \in S : m =< k
  <1>1. PICK m \in S : \A y \in S : ~(<<y, m>> \in OpToRel(<, Nat))
    BY WFMin, NatLessThanWellFounded
  <1>2. ASSUME NEW y \in S PROVE m =< y
    <2>1. m \in Nat /\ y \in Nat
      OBVIOUS
    <2>2. <<y, m>>[1] = y /\ <<y, m>>[2] = m
      OBVIOUS
    <2>3. y < m => <<y, m>> \in OpToRel(<, Nat)
      BY <2>1, <2>2 DEF OpToRel
    <2>4. ~(<<y, m>> \in OpToRel(<, Nat))
      BY ONLY <1>1, y \in S, Zenon
    <2>5. ~(y < m)
      BY <2>3, <2>4, Zenon
    <2> QED BY ONLY <2>1, <2>5
  <1> QED BY <1>2

(* The function that Added is defined by exists.                           *)
LEMMA AddsExists ==
  ASSUME NEW columns, NEW item, NEW l \in Nat
  PROVE  \E f : Adds(f, columns, item, l)
  <1> DEFINE Bad == {n \in Nat : ~ \E f : Adds(f, columns, item, n)}
  <1>1. SUFFICES ASSUME Bad # {} PROVE FALSE
    OBVIOUS
  <1>2. PICK m \in Bad : \A k \in Bad : m =< k
    <2> HIDE DEF Bad
    <2>1. Bad \in SUBSET Nat
      BY DEF Bad
    <2> QED BY <1>1, <2>1, LeastIn
  <1>3. m # 0
    <2> SUFFICES ASSUME m = 0 PROVE FALSE
      OBVIOUS
    <2>1. PICK f : f = [n \in 0 .. 0 |-> columns]
      OBVIOUS
    <2>2. f = [n \in 0 .. 0 |-> f[n]] /\ f[0] = columns /\ \A n \in 1 .. 0 : FALSE
      BY <2>1
    <2>3. Adds(f, columns, item, 0)
      BY <2>2, AddsIs
    <2> QED BY <2>3
  <1>4. m - 1 \in Nat /\ m - 1 \notin Bad
    <2>1. m \in Nat /\ m - 1 \in Nat /\ ~(m =< m - 1)
      BY <1>3
    <2> HIDE DEF Bad
    <2> QED BY <1>2, <2>1
  <1>5. PICK f : Adds(f, columns, item, m - 1)
    BY <1>4
  <1>6. /\ f[0] = columns
        /\ \A n \in 1 .. m - 1 : f[n] = Including(f[n - 1], item[n])
    <2>1. PICK k \in Nat : k = m - 1
      BY <1>4
    <2>2. Adds(f, columns, item, k)
      BY <1>5, <2>1
    <2>3. Follows(f, columns, item, k)
      BY <2>2, AddsSteps
    <2> HIDE DEF Bad
    <2> QED BY <2>1, <2>3 DEF Follows
  <1>7. PICK g : g = [n \in 0 .. m |-> IF n < m THEN f[n] ELSE Including(f[m - 1], item[m])]
    OBVIOUS
  <1>8. /\ g = [n \in 0 .. m |-> g[n]]
        /\ g[m] = Including(f[m - 1], item[m])
        /\ \A n \in 0 .. m - 1 : g[n] = f[n]
    BY <1>7
  <1>9. g[0] = columns
    BY <1>3, <1>6, <1>8
  <1>10. \A n \in 1 .. m : g[n] = Including(g[n - 1], item[n])
    <2> TAKE n \in 1 .. m
    <2>1. CASE n = m
      <3>1. m - 1 \in 0 .. m - 1
        BY <1>4
      <3> QED BY <1>8, <2>1, <3>1
    <2>2. CASE n # m
      <3>1. n \in 1 .. m - 1 /\ n \in 0 .. m - 1 /\ n - 1 \in 0 .. m - 1
        BY <2>2
      <3> QED BY <1>6, <1>8, <3>1
    <2> QED BY <2>1, <2>2
  <1>11. Adds(g, columns, item, m)
    <2>1. m \in Nat
      OBVIOUS
    <2> HIDE DEF Bad
    <2> QED BY <1>8, <1>9, <1>10, <2>1, AddsIs
  <1> QED BY <1>11

(* s: the columns, with those of the first n of an item's that were not    *)
(* there behind them.                                                      *)
Joins(s, columns, item, n) ==
  /\ s \in Seq(Columns)
  /\ Len(columns) =< Len(s)
  /\ \A i \in 1 .. Len(columns) : s[i] = columns[i]
  /\ \A c \in Columns :
       Has(s, c) <=> Has(columns, c) \/ \E i \in 1 .. n : item[i] = c

(* One more column of the item.                                            *)
LEMMA WithJoins ==
  ASSUME NEW columns \in Seq(Columns), NEW s, NEW item, NEW n \in Nat,
         NEW c \in Columns, c = item[n + 1], Joins(s, columns, item, n)
  PROVE  Joins(Including(s, c), columns, item, n + 1)
  <1> DEFINE t == Including(s, c)
  <1>1. s \in Seq(Columns) /\ Len(s) \in Nat /\ Len(columns) \in Nat
    BY DEF Joins
  <1>2. t \in Seq(Columns)
        /\ (Has(s, c) => t = s)
        /\ (~Has(s, c) => t = Append(s, c) /\ Len(t) = Len(s) + 1 /\ t[Len(s) + 1] = c
                          /\ \A i \in 1 .. Len(s) : t[i] = s[i])
    BY <1>1 DEF Including
  <1>3. Len(s) =< Len(t) /\ \A i \in 1 .. Len(s) : t[i] = s[i]
    <2> HIDE DEF t
    <2> QED BY <1>1, <1>2
  <1>4. \A x \in Columns : Has(t, x) <=> Has(s, x) \/ x = c
    <2> TAKE x \in Columns
    <2> HIDE DEF t
    <2>1. DOMAIN s = 1 .. Len(s) /\ DOMAIN t = 1 .. Len(t)
      BY <1>1, <1>2
    <2>2. CASE Has(s, c)
      BY <1>2, <2>2
    <2>3. CASE ~Has(s, c)
      <3>1. Len(t) = Len(s) + 1 /\ t[Len(s) + 1] = c /\ \A i \in 1 .. Len(s) : t[i] = s[i]
        BY <1>2, <2>3
      <3>2. \A i \in 1 .. Len(t) : i \in 1 .. Len(s) \/ i = Len(s) + 1
        BY <1>1, <3>1
      <3>3. Len(s) + 1 \in 1 .. Len(t) /\ \A i \in 1 .. Len(s) : i \in 1 .. Len(t)
        BY <1>1, <3>1
      <3> QED BY <2>1, <3>1, <3>2, <3>3 DEF Has
    <2> QED BY <2>2, <2>3
  <1>5. \A x : (\E i \in 1 .. n + 1 : item[i] = x) <=> (\E i \in 1 .. n : item[i] = x) \/ x = c
    <2>1. \A i : i \in 1 .. n + 1 <=> i \in 1 .. n \/ i = n + 1
      OBVIOUS
    <2> QED BY <2>1
  <1>6. Len(columns) =< Len(t) /\ \A i \in 1 .. Len(columns) : t[i] = columns[i]
    <2> HIDE DEF t
    <2>1. Len(t) \in Nat
      BY <1>2
    <2>2. Len(columns) =< Len(s) /\ \A i \in 1 .. Len(columns) : s[i] = columns[i]
      BY DEF Joins
    <2> QED BY <1>1, <1>3, <2>1, <2>2
  <1>7. \A x \in Columns : Has(s, x) <=> Has(columns, x) \/ \E i \in 1 .. n : item[i] = x
    BY DEF Joins
  <1>8. \A x \in Columns : Has(t, x) <=> Has(columns, x) \/ \E i \in 1 .. n + 1 : item[i] = x
    <2> HIDE DEF t
    <2> QED BY <1>4, <1>5, <1>7
  <1> HIDE DEF t
  <1>9. Joins(t, columns, item, n + 1)
    BY <1>2, <1>6, <1>8 DEF Joins
  <1> QED BY <1>9 DEF t

(* What Added returns: the columns, and behind them those of the item that *)
(* they lack.                                                              *)
LEMMA AddedJoins ==
  ASSUME NEW columns \in Seq(Columns), NEW item \in Seq(Columns)
  PROVE  Joins(Added(columns, item), columns, item, Len(item))
  <1> DEFINE f == CHOOSE g : Adds(g, columns, item, Len(item))
  <1>1. Len(item) \in Nat /\ \A n \in 1 .. Len(item) : item[n] \in Columns
    OBVIOUS
  <1>2. Adds(f, columns, item, Len(item))
    BY <1>1, AddsExists
  <1>3. f[0] = columns /\ \A n \in 1 .. Len(item) : f[n] = Including(f[n - 1], item[n])
    <2> HIDE DEF f
    <2> QED BY <1>1, <1>2, AddsIs
  <1> DEFINE Bad == {n \in Nat : n =< Len(item) /\ ~Joins(f[n], columns, item, n)}
  <1>4. SUFFICES ASSUME Bad # {} PROVE FALSE
    <2>1. Len(item) \notin Bad
      BY <1>4
    <2>2. Joins(f[Len(item)], columns, item, Len(item))
      <3> HIDE DEF f
      <3> QED BY <1>1, <2>1
    <2> QED BY <2>2, AddedIs
  <1>5. PICK m \in Bad : \A k \in Bad : m =< k
    <2>1. Bad \in SUBSET Nat
      OBVIOUS
    <2> HIDE DEF Bad
    <2> QED BY <1>4, <2>1, LeastIn
  <1> HIDE DEF f
  <1>6. m \in Nat /\ m =< Len(item) /\ ~Joins(f[m], columns, item, m)
    OBVIOUS
  <1>7. m # 0
    <2>1. Joins(columns, columns, item, 0)
      <3>1. \A i \in 1 .. 0 : FALSE
        OBVIOUS
      <3> QED BY <3>1 DEF Joins
    <2> QED BY <1>3, <1>6, <2>1
  <1>8. m - 1 \in Nat /\ ~(m =< m - 1) /\ m - 1 =< Len(item) /\ m - 1 + 1 = m
        /\ m \in 1 .. Len(item)
    BY <1>1, <1>6, <1>7
  <1>9. Joins(f[m - 1], columns, item, m - 1)
    <2>1. m - 1 \notin Bad
      <3> HIDE DEF Bad
      <3> QED BY <1>5, <1>8
    <2> QED BY <1>8, <2>1
  <1>10. Joins(Including(f[m - 1], item[m]), columns, item, m - 1 + 1)
    <2>1. PICK c \in Columns : c = item[m]
      BY <1>1, <1>8
    <2> HIDE DEF Bad
    <2> QED BY <1>8, <1>9, <2>1, WithJoins
  <1> QED BY <1>3, <1>6, <1>8, <1>10

------------------------------------------------------------------------------
(*                      Names, lines and the bounds                        *)

(* The parts of a download.                                                *)
LEMMA DownloadIs ==
  ASSUME NEW d \in Downloads
  PROVE  RunOf(d) \in Runs /\ d[2] \in Sensors /\ Items[d] \in Seq(Seq(Columns) \union {Broken})
  BY ItemsAssumption DEF RunOf

(* The paths and the inodes of a download.                                 *)
LEMMA PathsOf ==
  ASSUME TypeOK, NEW d \in Downloads
  PROVE  /\ NameOf(d) \in Names \union Downloads
         /\ DataOf(d) \in Paths /\ FinalOf(d) \in Paths
         /\ DataOf(d) = <<"data", NameOf(d)>> /\ FinalOf(d) = <<"final", NameOf(d)>>
         /\ <<"data", d>> \in Inodes /\ <<"final", d>> \in Inodes
  <1>1. NameOf(d) \in Names \union Downloads
    BY DownloadIs DEF TypeOK, NameOf
  <1> QED BY <1>1 DEF Paths, DataOf, FinalOf, Inodes

(* Their kinds and their names.                                            *)
LEMMA PathParts ==
  ASSUME TypeOK, NEW d \in Downloads
  PROVE  /\ DataOf(d) \in Paths /\ DataOf(d)[1] = "data" /\ DataOf(d)[2] = NameOf(d)
         /\ FinalOf(d) \in Paths /\ FinalOf(d)[1] = "final" /\ FinalOf(d)[2] = NameOf(d)
  <1>1. DataOf(d) \in Paths /\ FinalOf(d) \in Paths
    BY PathsOf
  <1> QED BY <1>1 DEF DataOf, FinalOf

(* What is opened is the inode at the path, or one that is made.           *)
LEMMA OpenedIs ==
  ASSUME TypeOK, NEW p \in Paths, NEW made \in Inodes
  PROVE  /\ Opened(p, made) \in Inodes
         /\ path[p] = None => Opened(p, made) = made
         /\ path[p] # None => Opened(p, made) = path[p]
  BY DEF TypeOK, Opened

(* None is no inode and no line.                                           *)
LEMMA NoneIs ==
  /\ None \notin Inodes /\ None \notin Lines
  /\ \A i \in Inodes : i # None
  /\ \A l \in Lines : l # None
  BY NoneAssumption

(* A file to which lines are written is one of lines, or of gaps.          *)
LEMMA WrittenAtTyped ==
  ASSUME NEW old \in Seq(Lines \union {None}), NEW at \in Nat,
         NEW lines \in Seq(Lines \union {None})
  PROVE  WrittenAt(old, at, lines) \in Seq(Lines \union {None})
  <1> DEFINE S == Lines \union {None}
  <1>1. PICK n : n = IF Len(old) > at + Len(lines) THEN Len(old) ELSE at + Len(lines)
    OBVIOUS
  <1>2. n \in Nat
    BY <1>1
  <1>3. \A i \in 1 .. n : /\ i \in at + 1 .. at + Len(lines) => lines[i - at] \in S
                          /\ i =< Len(old) => old[i] \in S
    <2> TAKE i \in 1 .. n
    <2>1. ASSUME i \in at + 1 .. at + Len(lines) PROVE lines[i - at] \in S
      <3>1. i - at \in 1 .. Len(lines)
        BY <2>1
      <3> QED BY <3>1, ElementOfSeq
    <2> QED BY <2>1, ElementOfSeq
  <1> DEFINE E(i) == CASE i \in at + 1 .. at + Len(lines) -> lines[i - at]
                       [] i \notin at + 1 .. at + Len(lines) /\ i =< Len(old) -> old[i]
                       [] OTHER -> None
  <1>4. \A i \in 1 .. n : E(i) \in S
    <2> TAKE i \in 1 .. n
    <2>1. CASE i \in at + 1 .. at + Len(lines)
      BY <1>3, <2>1
    <2>2. CASE i \notin at + 1 .. at + Len(lines) /\ i =< Len(old)
      BY <1>3, <2>2
    <2>3. CASE i \notin at + 1 .. at + Len(lines) /\ ~(i =< Len(old))
      BY <2>3
    <2> QED BY <2>1, <2>2, <2>3
  <1>5. WrittenAt(old, at, lines) = [i \in 1 .. n |-> E(i)]
    BY <1>1 DEF WrittenAt
  <1> HIDE DEF E
  <1>6. [i \in 1 .. n |-> E(i)] \in [1 .. n -> S]
    BY <1>4
  <1> QED BY <1>2, <1>5, <1>6, SeqDef

(* new: lines behind those of a file.                                      *)
IsBehind(new, old, lines) ==
  /\ Len(new) = Len(old) + Len(lines)
  /\ \A i \in 1 .. Len(old) : new[i] = old[i]
  /\ \A i \in 1 .. Len(lines) : new[Len(old) + i] = lines[i]

(* What is written at the end of a file goes behind it.                    *)
LEMMA WrittenBehind ==
  ASSUME NEW old \in Seq(Lines \union {None}), NEW at \in Nat, at = Len(old),
         NEW lines \in Seq(Lines \union {None})
  PROVE  IsBehind(WrittenAt(old, at, lines), old, lines)
  <1>1. PICK n \in Nat : n = at + Len(lines)
    OBVIOUS
  <1>2. n = IF Len(old) > at + Len(lines) THEN Len(old) ELSE at + Len(lines)
    BY <1>1
  <1> DEFINE E(i) == CASE i \in at + 1 .. at + Len(lines) -> lines[i - at]
                       [] i \notin at + 1 .. at + Len(lines) /\ i =< Len(old) -> old[i]
                       [] OTHER -> None
  <1>3. WrittenAt(old, at, lines) = [i \in 1 .. n |-> E(i)]
    BY <1>2 DEF WrittenAt
  <1>4. \A i \in 1 .. Len(old) : i \in 1 .. n /\ E(i) = old[i]
    <2> TAKE i \in 1 .. Len(old)
    <2>1. i \in 1 .. n /\ i \notin at + 1 .. at + Len(lines) /\ i =< Len(old)
      BY <1>1
    <2> QED BY <2>1
  <1>5. \A i \in 1 .. Len(lines) : Len(old) + i \in 1 .. n /\ E(Len(old) + i) = lines[i]
    <2> TAKE i \in 1 .. Len(lines)
    <2>1. /\ at + i \in 1 .. n /\ at + i \in at + 1 .. at + Len(lines)
          /\ at + i - at = i
      BY <1>1
    <2>2. E(at + i) = lines[at + i - at]
      BY ONLY <2>1
    <2> HIDE DEF E
    <2> QED BY <2>1, <2>2
  <1> HIDE DEF E
  <1>6. PICK new : new = WrittenAt(old, at, lines)
    OBVIOUS
  <1>7. Len(new) = n /\ \A i \in 1 .. n : new[i] = E(i)
    BY ONLY <1>3, <1>6, n \in Nat
  <1>8. \A i \in 1 .. Len(old) : new[i] = old[i]
    BY ONLY <1>4, <1>7
  <1>9. \A i \in 1 .. Len(lines) : new[Len(old) + i] = lines[i]
    BY ONLY <1>5, <1>7
  <1>10. IsBehind(new, old, lines)
    BY <1>1, <1>7, <1>8, <1>9 DEF IsBehind
  <1> QED BY <1>6, <1>10

(* Every action that can fail takes from a bound.                          *)
LEMMA SpendTyped ==
  ASSUME TypeOK, NEW what \in {"crashes", "faults"}, Spend(what)
  PROVE  budget' \in [crashes : Nat, faults : Nat]
  <1>1. /\ budget \in [crashes : Nat, faults : Nat] /\ budget[what] > 0
        /\ budget' = [budget EXCEPT ![what] = budget[what] - 1]
    BY DEF TypeOK, Spend
  <1>2. CASE what = "crashes"
    BY ONLY <1>1, <1>2
  <1>3. CASE what = "faults"
    BY ONLY <1>1, <1>3
  <1> QED BY <1>2, <1>3

(* v: a writer w that has extracted the data of a row.                     *)
Extracted(v, w, d, k) ==
  /\ v \in Writer
  /\ v.pc = w.pc /\ v.stream = w.stream /\ v.to = w.to /\ v.written = w.written
  /\ BuildRow(v) \in Seq(Columns \union Nat \union {None})
  /\ Line(d, k, BuildRow(v)) \in Lines

LEMMA RowTyped ==
  ASSUME NEW w \in Writer, NEW item \in Seq(Columns), NEW k \in Nat, NEW d \in Downloads,
         NEW v, v = ExtractRowData(w, item, k)
  PROVE  Extracted(v, w, d, k)
  <1>1. w.columns \in Seq(Columns) /\ w.data \in [Columns -> Nat \union {None}]
    BY DEF Writer
  <1>2. Added(w.columns, item) \in Seq(Columns)
    BY <1>1, AddedJoins DEF Joins
  <1>3. [c \in Columns |-> IF Has(item, c) THEN k ELSE w.data[c]] \in [Columns -> Nat \union {None}]
    BY <1>1
  <1>4. /\ v.pc = w.pc /\ v.stream = w.stream /\ v.to = w.to /\ v.written = w.written
        /\ v.columns = Added(w.columns, item)
        /\ v.data = [c \in Columns |-> IF Has(item, c) THEN k ELSE w.data[c]]
    BY DEF ExtractRowData, Writer
  <1>5. v \in Writer
    BY <1>2, <1>3 DEF ExtractRowData, Writer
  <1>6. BuildRow(v) \in Seq(Columns \union Nat \union {None})
    <2>1. PICK columns \in Seq(Columns) : columns = v.columns
      BY <1>2, <1>4
    <2>2. v.data \in [Columns -> Nat \union {None}]
      BY <1>3, <1>4
    <2>3. DOMAIN columns = 1 .. Len(columns) /\ Len(columns) \in Nat
          /\ \A i \in 1 .. Len(columns) : columns[i] \in Columns
      OBVIOUS
    <2>4. BuildRow(v) = [i \in 1 .. Len(columns) |-> v.data[columns[i]]]
      BY <2>1, <2>3 DEF BuildRow
    <2>5. BuildRow(v) \in [1 .. Len(columns) -> Columns \union Nat \union {None}]
      BY <2>2, <2>3, <2>4
    <2> QED BY <2>3, <2>5, SeqDef
  <1>7. Line(d, k, BuildRow(v)) \in Lines
    BY <1>6 DEF Line, Lines
  <1> QED BY <1>4, <1>5, <1>6, <1>7 DEF Extracted

------------------------------------------------------------------------------
(*                              Types                                      *)

WriterPcs == {"new", "writing", "copying", "copied", "fulfilled", "rejected",
              "stored", "deleted"}

(* The writers of the other downloads stay as they are.                    *)
OthersStay(d) == \A e \in Downloads : e # d => writer'[e] = writer[e]

(* The fields of a writer.                                                 *)
LEMMA WriterFields ==
  ASSUME TypeOK, NEW d \in Downloads
  PROVE  /\ writer[d] \in Writer
         /\ writer[d].pc \in WriterPcs
         /\ writer[d].stream \in Inodes \union {None} /\ writer[d].to \in Inodes \union {None}
         /\ writer[d].written \in Nat
         /\ writer[d].columns \in Seq(Columns)
         /\ writer[d].data \in [Columns -> Nat \union {None}]
  <1>1. writer[d] \in Writer
    BY DEF TypeOK
  <1> QED BY <1>1 DEF Writer, WriterPcs

(* A step that replaces the writer of one download.                        *)
LEMMA WriterReplaced ==
  ASSUME TypeOK, NEW d \in Downloads, NEW w \in Writer, writer' = [writer EXCEPT ![d] = w]
  PROVE  /\ writer' \in [Downloads -> Writer]
         /\ writer'[d] = w /\ OthersStay(d)
  BY DEF TypeOK, OthersStay

(* A step that changes where a writer is, and nothing else of it.          *)
LEMMA ToTyped ==
  ASSUME TypeOK, NEW d \in Downloads, NEW pc \in WriterPcs, To(d, pc)
  PROVE  /\ writer' \in [Downloads -> Writer]
         /\ OthersStay(d)
         /\ writer'[d].pc = pc
         /\ writer'[d].stream = writer[d].stream /\ writer'[d].to = writer[d].to
         /\ writer'[d].written = writer[d].written
         /\ writer'[d].columns = writer[d].columns /\ writer'[d].data = writer[d].data
  <1>1. PICK w : w = [writer[d] EXCEPT !.pc = pc]
    OBVIOUS
  <1>2. writer[d] \in Writer
    BY WriterFields
  <1>3. /\ w \in Writer /\ w.pc = pc /\ w.stream = writer[d].stream /\ w.to = writer[d].to
        /\ w.written = writer[d].written /\ w.columns = writer[d].columns
        /\ w.data = writer[d].data
    BY <1>1, <1>2 DEF Writer, WriterPcs
  <1>4. writer' = [writer EXCEPT ![d] = w]
    BY <1>1 DEF To
  <1> QED BY <1>3, <1>4, WriterReplaced

(* What each of the other steps does to the writer and to the files.       *)
LEMMA OpenTyped ==
  ASSUME TypeOK, NEW d \in Downloads, Open(d)
  PROVE  \E i \in Inodes :
           /\ i = Opened(DataOf(d), <<"data", d>>)
           /\ path' = [path EXCEPT ![DataOf(d)] = i]
           /\ inode' = [inode EXCEPT ![i] = <<>>]
           /\ writer' \in [Downloads -> Writer] /\ OthersStay(d)
           /\ writer'[d].pc = "writing" /\ writer'[d].stream = i
           /\ writer'[d].to = writer[d].to
           /\ writer'[d].written = writer[d].written
           /\ writer'[d].columns = writer[d].columns /\ writer'[d].data = writer[d].data
  <1>1. PICK i \in Inodes : i = Opened(DataOf(d), <<"data", d>>)
    BY PathsOf, OpenedIs
  <1>2. PICK w : w = [writer[d] EXCEPT !.pc = "writing", !.stream = i]
    OBVIOUS
  <1>3. writer[d] \in Writer
    BY WriterFields
  <1>4. /\ w \in Writer /\ w.pc = "writing" /\ w.stream = i /\ w.to = writer[d].to
        /\ w.written = writer[d].written /\ w.columns = writer[d].columns
        /\ w.data = writer[d].data
    BY <1>2, <1>3 DEF Writer
  <1>5. writer' = [writer EXCEPT ![d] = w]
    BY <1>1, <1>2 DEF Open, TypeOK
  <1>6. writer' \in [Downloads -> Writer] /\ writer'[d] = w /\ OthersStay(d)
    BY <1>4, <1>5, WriterReplaced
  <1>7. path' = [path EXCEPT ![DataOf(d)] = i] /\ inode' = [inode EXCEPT ![i] = <<>>]
    BY <1>1 DEF Open
  <1> QED BY <1>1, <1>4, <1>6, <1>7

LEMMA WriteRowTyped ==
  ASSUME TypeOK, NEW d \in Downloads, WriteRow(d)
  PROVE  \E k \in Nat, v \in Writer, cells \in Seq(Columns \union Nat \union {None}) :
           /\ k = writer[d].written + 1 /\ k =< Len(Items[d]) /\ Items[d][k] \in Seq(Columns)
           /\ v = ExtractRowData(writer[d], Items[d][k], k) /\ cells = BuildRow(v)
           /\ Line(d, k, cells) \in Lines
           /\ inode' = [inode EXCEPT ![writer[d].stream] =
                          WrittenAt(inode[writer[d].stream], k - 1, <<Line(d, k, cells)>>)]
           /\ writer' \in [Downloads -> Writer] /\ OthersStay(d)
           /\ writer'[d].pc = writer[d].pc
           /\ writer'[d].stream = writer[d].stream /\ writer'[d].to = writer[d].to
           /\ writer'[d].written = k
           /\ writer'[d].columns = v.columns /\ writer'[d].data = v.data
  <1>1. PICK k \in Nat : k = writer[d].written + 1
    BY WriterFields
  <1>2. /\ writer[d].pc = "writing" /\ k =< Len(Items[d]) /\ Items[d][k] # Broken
    BY <1>1 DEF WriteRow
  <1>3. k \in 1 .. Len(Items[d])
    <2>1. writer[d].written \in Nat
      BY WriterFields
    <2> QED BY <1>1, <1>2, <2>1
  <1>4. Items[d][k] \in Seq(Columns)
    BY <1>2, <1>3, DownloadIs
  <1>5. PICK v : v = ExtractRowData(writer[d], Items[d][k], k)
    OBVIOUS
  <1>6. writer[d] \in Writer
    BY WriterFields
  <1>7. /\ v \in Writer
        /\ v.pc = writer[d].pc /\ v.stream = writer[d].stream /\ v.to = writer[d].to
        /\ BuildRow(v) \in Seq(Columns \union Nat \union {None})
        /\ Line(d, k, BuildRow(v)) \in Lines
    <2>1. PICK w \in Writer : w = writer[d]
      BY <1>6
    <2>2. PICK item \in Seq(Columns) : item = Items[d][k]
      BY <1>4
    <2>3. v = ExtractRowData(w, item, k)
      BY <1>5, <2>1, <2>2
    <2>4. Extracted(v, w, d, k)
      BY <2>3, RowTyped
    <2> QED BY <2>1, <2>4 DEF Extracted
  <1>8. PICK cells \in Seq(Columns \union Nat \union {None}) : cells = BuildRow(v)
    BY <1>7
  <1>9. PICK x : x = [v EXCEPT !.written = k]
    OBVIOUS
  <1>10. /\ x \in Writer /\ x.pc = writer[d].pc /\ x.stream = writer[d].stream
         /\ x.to = writer[d].to /\ x.written = k /\ x.columns = v.columns /\ x.data = v.data
    BY <1>7, <1>9 DEF Writer
  <1>11. /\ writer' = [writer EXCEPT ![d] = x]
         /\ inode' = [inode EXCEPT ![v.stream] =
                        WrittenAt(inode[v.stream], k - 1, <<Line(d, k, BuildRow(v))>>)]
    BY <1>1, <1>5, <1>9 DEF WriteRow
  <1>12. writer' \in [Downloads -> Writer] /\ writer'[d] = x /\ OthersStay(d)
    BY <1>10, <1>11, WriterReplaced
  <1> QED BY <1>1, <1>2, <1>4, <1>5, <1>7, <1>8, <1>10, <1>11, <1>12

LEMMA BeginCopyTyped ==
  ASSUME TypeOK, NEW d \in Downloads, BeginCopy(d)
  PROVE  \E i \in Inodes, pc \in {"rejected", "copying"} :
           /\ i = Opened(FinalOf(d), <<"final", d>>)
           /\ pc = IF path[DataOf(d)] = None THEN "rejected" ELSE "copying"
           /\ Line(d, 0, writer[d].columns) \in Lines
           /\ path' = [path EXCEPT ![FinalOf(d)] = i]
           /\ inode' = [inode EXCEPT ![i] = <<Line(d, 0, writer[d].columns)>>]
           /\ writer' \in [Downloads -> Writer] /\ OthersStay(d)
           /\ writer'[d].pc = pc
           /\ writer'[d].stream = path[DataOf(d)] /\ writer'[d].to = i
           /\ writer'[d].written = writer[d].written
           /\ writer'[d].columns = writer[d].columns /\ writer'[d].data = writer[d].data
  <1>1. PICK i \in Inodes : i = Opened(FinalOf(d), <<"final", d>>)
    BY PathsOf, OpenedIs
  <1>2. PICK pc \in {"rejected", "copying"} :
          pc = IF path[DataOf(d)] = None THEN "rejected" ELSE "copying"
    OBVIOUS
  <1>3. PICK w : w = [writer[d] EXCEPT !.pc = pc, !.stream = path[DataOf(d)], !.to = i]
    OBVIOUS
  <1>4. writer[d] \in Writer /\ path[DataOf(d)] \in Inodes \union {None}
    BY WriterFields, PathsOf DEF TypeOK
  <1>5. /\ w \in Writer /\ w.pc = pc /\ w.stream = path[DataOf(d)] /\ w.to = i
        /\ w.written = writer[d].written /\ w.columns = writer[d].columns
        /\ w.data = writer[d].data
    BY <1>2, <1>3, <1>4 DEF Writer
  <1>6. writer' = [writer EXCEPT ![d] = w]
    BY <1>1, <1>2, <1>3 DEF BeginCopy, TypeOK
  <1>7. writer' \in [Downloads -> Writer] /\ writer'[d] = w /\ OthersStay(d)
    BY <1>5, <1>6, WriterReplaced
  <1>8. /\ path' = [path EXCEPT ![FinalOf(d)] = i]
        /\ inode' = [inode EXCEPT ![i] = <<Line(d, 0, writer[d].columns)>>]
    BY <1>1 DEF BeginCopy
  <1>9. Line(d, 0, writer[d].columns) \in Lines
    <2>1. writer[d].columns \in Seq(Columns \union Nat \union {None})
      BY WriterFields, SeqMonotonic
    <2> QED BY <2>1 DEF Line, Lines
  <1> QED BY <1>1, <1>2, <1>5, <1>7, <1>8, <1>9

(* A writer whose stream is open for as long as it is used.                *)
StreamOpen(w) ==
  /\ w.pc \in {"writing", "copying"} => w.stream \in Inodes
  /\ w.pc \in {"copying", "copied"} => w.to \in Inodes

(* A step of one writer leaves the types to the rest of the state.         *)
LEMMA TypesByWriter ==
  ASSUME TypeOK, NEW d \in Downloads, OthersStay(d),
         writer' \in [Downloads -> Writer], StreamOpen(writer'[d]),
         UNCHANGED <<fileName, run, clashed>>,
         path' \in [Paths -> Inodes \union {None}],
         inode' \in [Inodes -> Seq(Lines \union {None})],
         stored' \subseteq [download : Downloads, lines : Seq(Lines \union {None})],
         faulted' \subseteq Runs, budget' \in [crashes : Nat, faults : Nat]
  PROVE  TypeOK'
  <1>1. \A e \in Downloads : StreamOpen(writer'[e])
    <2> TAKE e \in Downloads
    <2>1. StreamOpen(writer[e])
      BY DEF TypeOK, StreamOpen
    <2>2. CASE e = d
      BY <2>2
    <2>3. CASE e # d
      BY <2>1, <2>3 DEF OthersStay
    <2> QED BY <2>2, <2>3
  <1>2. \A e \in Downloads :
          /\ writer'[e].pc \in {"writing", "copying"} => writer'[e].stream \in Inodes
          /\ writer'[e].pc \in {"copying", "copied"} => writer'[e].to \in Inodes
    BY <1>1 DEF StreamOpen
  <1> QED BY <1>2 DEF TypeOK

(* The types hold at the start, and each step keeps them.                  *)
LEMMA InitTyped ==
  ASSUME Init
  PROVE  TypeOK
  <1>1. NewWriter \in Writer
    BY DEF NewWriter, Writer
  <1> QED BY <1>1, BoundsAssumption DEF Init, TypeOK, NewWriter

LEMMA StepTyped ==
  ASSUME TypeOK, NEW d \in Downloads, Step(d)
  PROVE  TypeOK'
  <1>1. CASE WriteRow(d)
    <2>1. PICK k \in Nat, v \in Writer, cells \in Seq(Columns \union Nat \union {None}) :
           /\ Line(d, k, cells) \in Lines /\ k - 1 \in Nat
           /\ inode' = [inode EXCEPT ![writer[d].stream] =
                          WrittenAt(inode[writer[d].stream], k - 1, <<Line(d, k, cells)>>)]
           /\ writer' \in [Downloads -> Writer] /\ OthersStay(d)
           /\ writer'[d].pc = writer[d].pc
           /\ writer'[d].stream = writer[d].stream /\ writer'[d].to = writer[d].to
      BY <1>1, WriteRowTyped, WriterFields
    <2>2. writer[d].stream \in Inodes /\ StreamOpen(writer[d])
      BY <1>1 DEF WriteRow, TypeOK, StreamOpen
    <2>3. PICK lines : lines = <<Line(d, k, cells)>>
      OBVIOUS
    <2>4. lines \in Seq(Lines \union {None})
      BY <2>1, <2>3
    <2>5. WrittenAt(inode[writer[d].stream], k - 1, lines) \in Seq(Lines \union {None})
      <3>1. PICK old \in Seq(Lines \union {None}) : old = inode[writer[d].stream]
        BY <2>2 DEF TypeOK
      <3>2. PICK at \in Nat : at = k - 1
        BY <2>1
      <3> QED BY <2>4, <3>1, <3>2, WrittenAtTyped
    <2>6. inode' \in [Inodes -> Seq(Lines \union {None})]
      BY <2>1, <2>2, <2>3, <2>5 DEF TypeOK
    <2>7. StreamOpen(writer'[d])
      BY <2>1, <2>2 DEF StreamOpen
    <2>8. UNCHANGED <<fileName, run, clashed, path, stored, faulted, budget>>
      BY <1>1 DEF WriteRow
    <2> QED BY <2>1, <2>6, <2>7, <2>8, TypesByWriter DEF TypeOK
  <1>2. CASE RowFails(d)
    <2>1. UNCHANGED <<fileName, run, clashed, path, inode, stored, faulted, budget>>
      BY <1>2 DEF RowFails
    <2>2. /\ writer' \in [Downloads -> Writer] /\ OthersStay(d)
          /\ writer'[d].pc = "rejected"
      BY <1>2, ToTyped DEF RowFails, WriterPcs
    <2> QED BY <2>1, <2>2, TypesByWriter DEF TypeOK, StreamOpen
  <1>3. CASE FetchFails(d)
    <2>1. UNCHANGED <<fileName, run, clashed, path, inode, stored>>
      BY <1>3 DEF FetchFails
    <2>2. /\ writer' \in [Downloads -> Writer] /\ OthersStay(d)
          /\ writer'[d].pc = "rejected"
      BY <1>3, ToTyped DEF FetchFails, WriterPcs
    <2>3. budget' \in [crashes : Nat, faults : Nat]
      BY <1>3, SpendTyped DEF FetchFails
    <2>4. faulted' \subseteq Runs
      BY <1>3, DownloadIs DEF FetchFails, TypeOK
    <2> QED BY <2>1, <2>2, <2>3, <2>4, TypesByWriter DEF TypeOK, StreamOpen
  <1>4. CASE BeginCopy(d)
    <2>1. PICK i \in Inodes, pc \in {"rejected", "copying"} :
           /\ pc = IF path[DataOf(d)] = None THEN "rejected" ELSE "copying"
           /\ Line(d, 0, writer[d].columns) \in Lines
           /\ path' = [path EXCEPT ![FinalOf(d)] = i]
           /\ inode' = [inode EXCEPT ![i] = <<Line(d, 0, writer[d].columns)>>]
           /\ writer' \in [Downloads -> Writer] /\ OthersStay(d)
           /\ writer'[d].pc = pc
           /\ writer'[d].stream = path[DataOf(d)] /\ writer'[d].to = i
      BY <1>4, BeginCopyTyped
    <2>2. <<Line(d, 0, writer[d].columns)>> \in Seq(Lines \union {None})
      <3>1. PICK l \in Lines : l = Line(d, 0, writer[d].columns)
        BY <2>1
      <3>2. <<l>> \in Seq(Lines \union {None})
        OBVIOUS
      <3> QED BY <3>1, <3>2
    <2>3. inode' \in [Inodes -> Seq(Lines \union {None})]
      BY <2>1, <2>2 DEF TypeOK
    <2>4. path' \in [Paths -> Inodes \union {None}]
      BY <2>1, PathsOf DEF TypeOK
    <2>5. path[DataOf(d)] \in Inodes \union {None}
      BY PathsOf DEF TypeOK
    <2>6. StreamOpen(writer'[d])
      BY <2>1, <2>5 DEF StreamOpen
    <2>7. UNCHANGED <<fileName, run, clashed, stored, faulted, budget>>
      BY <1>4 DEF BeginCopy
    <2> QED BY <2>1, <2>3, <2>4, <2>6, <2>7, TypesByWriter DEF TypeOK
  <1>5. CASE Copy(d)
    <2>1. UNCHANGED <<fileName, run, clashed, path, stored, faulted, budget>>
      BY <1>5 DEF Copy
    <2>2. writer[d].to \in Inodes /\ writer[d].stream \in Inodes
      BY <1>5 DEF Copy, TypeOK
    <2>3. /\ writer' \in [Downloads -> Writer] /\ OthersStay(d)
          /\ writer'[d].pc = "copied" /\ writer'[d].to = writer[d].to
      BY <1>5, ToTyped DEF Copy, WriterPcs
    <2>4. WrittenAt(inode[writer[d].to], 1, inode[writer[d].stream]) \in Seq(Lines \union {None})
      <3>1. inode[writer[d].to] \in Seq(Lines \union {None})
            /\ inode[writer[d].stream] \in Seq(Lines \union {None})
        BY <2>2 DEF TypeOK
      <3> QED BY <3>1, WrittenAtTyped
    <2>5. inode' \in [Inodes -> Seq(Lines \union {None})]
      BY <1>5, <2>2, <2>4 DEF Copy, TypeOK
    <2>6. StreamOpen(writer'[d])
      BY <2>2, <2>3 DEF StreamOpen
    <2> QED BY <2>1, <2>3, <2>5, <2>6, TypesByWriter DEF TypeOK
  <1>6. CASE Unlink(d)
    <2>1. UNCHANGED <<fileName, run, clashed, inode, stored, faulted, budget>>
      BY <1>6 DEF Unlink
    <2>2. PICK pc \in {"rejected", "fulfilled"} : To(d, pc)
      BY <1>6 DEF Unlink
    <2>3. /\ writer' \in [Downloads -> Writer] /\ OthersStay(d)
          /\ writer'[d].pc = pc
      BY <2>2, ToTyped DEF WriterPcs
    <2>4. path' \in [Paths -> Inodes \union {None}]
      BY <1>6, PathsOf DEF Unlink, TypeOK
    <2>5. StreamOpen(writer'[d])
      BY <2>3 DEF StreamOpen
    <2> QED BY <2>1, <2>3, <2>4, <2>5, TypesByWriter DEF TypeOK
  <1> QED BY <1>1, <1>2, <1>3, <1>4, <1>5, <1>6 DEF Step

LEMMA NextTyped ==
  ASSUME TypeOK, Next
  PROVE  TypeOK'
  <1>1. ASSUME NEW r \in Runs, Begin(r) PROVE TypeOK'
    <2>1. clashed' \subseteq Downloads
      BY <1>1 DEF Begin, TypeOK, Of
    <2>2. run' \in [Runs -> {"new", "fetching", "storing", "done", "failed", "killed"}]
      BY <1>1 DEF Begin, TypeOK
    <2>3. UNCHANGED <<fileName, writer, path, inode, stored, faulted, budget>>
      BY <1>1 DEF Begin
    <2> QED BY <2>1, <2>2, <2>3 DEF TypeOK
  <1>2. ASSUME NEW r \in Runs, AllSettled(r) \/ End(r) PROVE TypeOK'
    <2>1. run' \in [Runs -> {"new", "fetching", "storing", "done", "failed", "killed"}]
      BY <1>2 DEF AllSettled, End, TypeOK
    <2>2. UNCHANGED <<fileName, writer, path, inode, stored, clashed, faulted, budget>>
      BY <1>2 DEF AllSettled, End
    <2> QED BY <2>1, <2>2 DEF TypeOK
  <1>3. ASSUME NEW d \in Downloads, Open(d) PROVE TypeOK'
    <2>1. PICK i \in Inodes :
           /\ path' = [path EXCEPT ![DataOf(d)] = i]
           /\ inode' = [inode EXCEPT ![i] = <<>>]
           /\ writer' \in [Downloads -> Writer] /\ OthersStay(d)
           /\ writer'[d].pc = "writing" /\ writer'[d].stream = i
      BY <1>3, OpenTyped
    <2>2. inode' \in [Inodes -> Seq(Lines \union {None})]
      BY <2>1 DEF TypeOK
    <2>3. path' \in [Paths -> Inodes \union {None}]
      BY <2>1, PathsOf DEF TypeOK
    <2>4. StreamOpen(writer'[d])
      BY <2>1 DEF StreamOpen
    <2>5. UNCHANGED <<fileName, run, stored, clashed, faulted, budget>>
      BY <1>3 DEF Open
    <2> QED BY <2>1, <2>2, <2>3, <2>4, <2>5, TypesByWriter DEF TypeOK
  <1>4. ASSUME NEW d \in Downloads, Step(d) PROVE TypeOK'
    BY <1>4, StepTyped
  <1>5. ASSUME NEW d \in Downloads, Store(d) PROVE TypeOK'
    <2>1. UNCHANGED <<fileName, run, path, inode, clashed, faulted, budget>>
      BY <1>5 DEF Store
    <2>2. /\ writer' \in [Downloads -> Writer] /\ OthersStay(d)
          /\ writer'[d].pc = "stored"
      BY <1>5, ToTyped DEF Store, WriterPcs
    <2>3. path[FinalOf(d)] \in Inodes
      BY <1>5, PathsOf DEF Store, TypeOK
    <2>4. stored' \subseteq [download : Downloads, lines : Seq(Lines \union {None})]
      BY <1>5, <2>3 DEF Store, TypeOK
    <2>5. StreamOpen(writer'[d])
      BY <2>2 DEF StreamOpen
    <2> QED BY <2>1, <2>2, <2>4, <2>5, TypesByWriter DEF TypeOK
  <1>6. ASSUME NEW d \in Downloads, DeleteLocalFile(d) PROVE TypeOK'
    <2>1. UNCHANGED <<fileName, run, inode, stored, clashed, faulted, budget>>
      BY <1>6 DEF DeleteLocalFile
    <2>2. /\ writer' \in [Downloads -> Writer] /\ OthersStay(d)
          /\ writer'[d].pc = "deleted"
      BY <1>6, ToTyped DEF DeleteLocalFile, WriterPcs
    <2>3. path' \in [Paths -> Inodes \union {None}]
      BY <1>6, PathsOf DEF DeleteLocalFile, TypeOK
    <2>4. StreamOpen(writer'[d])
      BY <2>2 DEF StreamOpen
    <2> QED BY <2>1, <2>2, <2>3, <2>4, TypesByWriter DEF TypeOK
  <1>7. ASSUME NEW d \in Downloads, RunFails(d) PROVE TypeOK'
    <2>1. UNCHANGED <<fileName, writer, path, inode, stored, clashed>>
      BY <1>7 DEF RunFails
    <2>2. run' \in [Runs -> {"new", "fetching", "storing", "done", "failed", "killed"}]
      BY <1>7 DEF RunFails, TypeOK
    <2>3. /\ faulted' \subseteq Runs /\ budget' \in [crashes : Nat, faults : Nat]
      <3>1. CASE UNCHANGED <<faulted, budget>>
        BY <3>1 DEF TypeOK
      <3>2. CASE Spend("faults") /\ faulted' = faulted \union {RunOf(d)}
        BY <3>2, SpendTyped, DownloadIs DEF TypeOK
      <3> QED BY <1>7, <3>1, <3>2 DEF RunFails
    <2> QED BY <2>1, <2>2, <2>3 DEF TypeOK
  <1>8. CASE Crash
    <2>1. UNCHANGED <<fileName, writer, path, inode, stored, clashed, faulted>>
      BY <1>8 DEF Crash
    <2>2. run' \in [Runs -> {"new", "fetching", "storing", "done", "failed", "killed"}]
      BY <1>8 DEF Crash, TypeOK
    <2>3. budget' \in [crashes : Nat, faults : Nat]
      BY <1>8, SpendTyped DEF Crash
    <2> QED BY <2>1, <2>2, <2>3 DEF TypeOK
  <1> QED BY <1>1, <1>2, <1>3, <1>4, <1>5, <1>6, <1>7, <1>8 DEF Next

LEMMA TypeStable ==
  ASSUME TypeOK, UNCHANGED vars
  PROVE  TypeOK'
  BY DEF TypeOK, vars

(* The state has its types, and the stream of a writer is open while it is *)
(* used: whatever the columns, the measurements and the names are.         *)
THEOREM FilesTyped == Spec => []TypeOK
  <1>1. Init => TypeOK
    BY InitTyped
  <1>2. TypeOK /\ [Next]_vars => TypeOK'
    BY NextTyped, TypeStable
  <1> QED BY <1>1, <1>2, PTL DEF Spec

------------------------------------------------------------------------------
(*                   Who shares a name with whom                           *)

(* A download whose files no other download has had a name in common with. *)
Alone(d) == Busy(d) /\ d \notin clashed

(* A run that has not begun has not opened a file, and one that stores has *)
(* only downloads that are settled.                                        *)
PcInv ==
  \A d \in Downloads :
    /\ run[RunOf(d)] = "new" => writer[d].pc = "new"
    /\ writer[d].pc = "new" => writer[d].written = 0
    /\ run[RunOf(d)] = "storing" =>
         writer[d].pc \in {"fulfilled", "rejected", "stored", "deleted"}
    /\ run[RunOf(d)] = "done" => writer[d].pc \in {"rejected", "deleted"}

(* No other download that is at work has the name of one that is alone.    *)
AloneInv ==
  \A d, e \in Downloads : Alone(d) /\ Busy(e) /\ d # e => NameOf(d) # NameOf(e)

(* What a download does to its own files.                                  *)
Acts(d) == Open(d) \/ Step(d) \/ Store(d) \/ DeleteLocalFile(d)

(* What is common to these actions.                                        *)
Acted(d) ==
  /\ fileName' = fileName /\ run' = run /\ clashed' = clashed /\ faulted \subseteq faulted'
  /\ Busy(d) /\ OthersStay(d)
  /\ writer'[d].pc # "new"
  /\ run[RunOf(d)] = "storing" => writer'[d].pc \in {"stored", "deleted"}

(* Each of the actions has it.                                             *)
LEMMA ActsActed ==
  ASSUME TypeOK, NEW d \in Downloads, Acts(d)
  PROVE  Acted(d)
  <1>1. CASE Open(d)
    <2>1. OthersStay(d) /\ writer'[d].pc = "writing"
      BY <1>1, OpenTyped
    <2>2. UNCHANGED <<fileName, run, clashed, faulted>> /\ run[RunOf(d)] = "fetching"
          /\ writer[d].pc = "new"
      BY <1>1 DEF Open
    <2> QED BY <2>1, <2>2 DEF Acted, Busy, InProgress
  <1>2. ASSUME Step(d), NEW pc \in WriterPcs, pc # "new", To(d, pc),
               writer[d].pc \in {"writing", "copying", "copied"},
               UNCHANGED <<fileName, run, clashed>>, faulted \subseteq faulted'
        PROVE  Acted(d)
    <2>1. OthersStay(d) /\ writer'[d].pc = pc
      BY <1>2, ToTyped
    <2>2. run[RunOf(d)] = "fetching"
      BY <1>2 DEF Step
    <2> QED BY <1>2, <2>1, <2>2 DEF Acted, Busy, InProgress
  <1>3. CASE Step(d) /\ WriteRow(d)
    <2>1. OthersStay(d) /\ writer'[d].pc = writer[d].pc
      BY <1>3, WriteRowTyped
    <2>2. UNCHANGED <<fileName, run, clashed, faulted>> /\ run[RunOf(d)] = "fetching"
          /\ writer[d].pc = "writing"
      BY <1>3 DEF Step, WriteRow
    <2> QED BY <2>1, <2>2 DEF Acted, Busy, InProgress
  <1>4. CASE Step(d) /\ BeginCopy(d)
    <2>1. OthersStay(d) /\ writer'[d].pc \in {"rejected", "copying"}
      BY <1>4, BeginCopyTyped
    <2>2. UNCHANGED <<fileName, run, clashed, faulted>> /\ run[RunOf(d)] = "fetching"
          /\ writer[d].pc = "writing"
      BY <1>4 DEF Step, BeginCopy
    <2> QED BY <2>1, <2>2 DEF Acted, Busy, InProgress
  <1>5. CASE Step(d) /\ (RowFails(d) \/ FetchFails(d) \/ Copy(d) \/ Unlink(d))
    <2>1. /\ UNCHANGED <<fileName, run, clashed>> /\ faulted \subseteq faulted'
          /\ writer[d].pc \in {"writing", "copying", "copied"}
      BY <1>5 DEF RowFails, FetchFails, Copy, Unlink
    <2>2. PICK pc \in {"rejected", "copied", "fulfilled"} : To(d, pc)
      BY <1>5 DEF RowFails, FetchFails, Copy, Unlink
    <2> QED BY <1>2, <1>5, <2>1, <2>2 DEF WriterPcs
  <1>6. CASE Store(d)
    <2>1. OthersStay(d) /\ writer'[d].pc = "stored"
      BY <1>6, ToTyped DEF Store, WriterPcs
    <2>2. UNCHANGED <<fileName, run, clashed, faulted>> /\ run[RunOf(d)] = "storing"
          /\ writer[d].pc = "fulfilled"
      BY <1>6 DEF Store
    <2> QED BY <2>1, <2>2 DEF Acted, Busy, InProgress
  <1>7. CASE DeleteLocalFile(d)
    <2>1. OthersStay(d) /\ writer'[d].pc = "deleted"
      BY <1>7, ToTyped DEF DeleteLocalFile, WriterPcs
    <2>2. UNCHANGED <<fileName, run, clashed, faulted>> /\ run[RunOf(d)] = "storing"
          /\ writer[d].pc = "stored"
      BY <1>7 DEF DeleteLocalFile
    <2> QED BY <2>1, <2>2 DEF Acted, Busy, InProgress
  <1> QED BY <1>1, <1>3, <1>4, <1>5, <1>6, <1>7 DEF Acts, Step

(* The other actions but Begin and Crash: a run goes on, ends or fails.    *)
RunActs == \/ \E r \in Runs : AllSettled(r) \/ End(r)
           \/ \E d \in Downloads : RunFails(d)
           \/ Crash

(* Every step begins a run, is one of a download, or one of a run.         *)
LEMMA NextActs ==
  ASSUME Next
  PROVE  \/ \E r \in Runs : Begin(r)
         \/ \E d \in Downloads : Acts(d)
         \/ RunActs
  BY DEF Next, Acts, RunActs

(* A step of a run leaves the files alone, and puts no run to work.        *)
LEMMA RunActed ==
  ASSUME TypeOK, RunActs
  PROVE  /\ UNCHANGED <<fileName, writer, path, inode, stored, clashed>>
         /\ faulted \subseteq faulted'
         /\ \A r \in Runs : run'[r] \in {"fetching", "storing"} => run[r] \in {"fetching", "storing"}
         /\ \A r \in Runs : run'[r] = "new" => run[r] = "new"
  <1>1. /\ UNCHANGED <<fileName, writer, path, inode, stored, clashed>>
        /\ faulted \subseteq faulted'
    BY DEF RunActs, AllSettled, End, RunFails, Crash
  <1>2. ASSUME NEW s \in Runs, AllSettled(s) \/ End(s), NEW r \in Runs
        PROVE  /\ run'[r] \in {"fetching", "storing"} => run[r] \in {"fetching", "storing"}
               /\ run'[r] = "new" => run[r] = "new"
    BY <1>2 DEF AllSettled, End, TypeOK
  <1>3. ASSUME NEW d \in Downloads, RunFails(d), NEW r \in Runs
        PROVE  /\ run'[r] \in {"fetching", "storing"} => run[r] \in {"fetching", "storing"}
               /\ run'[r] = "new" => run[r] = "new"
    BY <1>3 DEF RunFails, TypeOK
  <1>4. ASSUME Crash, NEW r \in Runs
        PROVE  /\ run'[r] \in {"fetching", "storing"} => run[r] \in {"fetching", "storing"}
               /\ run'[r] = "new" => run[r] = "new"
    BY <1>4 DEF Crash, TypeOK, InProgress
  <1> QED BY <1>1, <1>2, <1>3, <1>4 DEF RunActs

(* Only Begin puts a download to work.                                     *)
LEMMA BusyShrinks ==
  ASSUME TypeOK, NEW d \in Downloads,
         RunActs \/ \E e \in Downloads : Acts(e)
  PROVE  /\ NameOf(d)' = NameOf(d) /\ clashed' = clashed
         /\ Busy(d)' => Busy(d)
         /\ Alone(d)' => Alone(d)
  <1>1. CASE RunActs
    <2>1. NameOf(d)' = NameOf(d) /\ clashed' = clashed
      BY <1>1, RunActed DEF NameOf
    <2>2. Busy(d)' => Busy(d)
      BY <1>1, RunActed, DownloadIs DEF Busy, InProgress
    <2> QED BY <2>1, <2>2 DEF Alone
  <1>2. ASSUME NEW e \in Downloads, Acts(e)
        PROVE  NameOf(d)' = NameOf(d) /\ clashed' = clashed /\ (Busy(d)' => Busy(d))
    <2>1. Acted(e)
      BY <1>2, ActsActed
    <2>2. Busy(d)' => Busy(d)
      BY <2>1 DEF Acted, OthersStay, Busy, InProgress
    <2> QED BY <2>1, <2>2 DEF Acted, NameOf
  <1> QED BY <1>1, <1>2 DEF Alone

(* A run that begins is noted as clashing with those that it shares a name *)
(* with, so who is alone has no namesake at work.                          *)
LEMMA AloneStep ==
  ASSUME TypeOK, AloneInv, Next
  PROVE  AloneInv'
  <1>1. ASSUME NEW r \in Runs, Begin(r), NEW d \in Downloads, NEW e \in Downloads,
               Alone(d)', Busy(e)', d # e
        PROVE  NameOf(d)' # NameOf(e)'
    <2>1. NameOf(d)' = NameOf(d) /\ NameOf(e)' = NameOf(e)
      BY <1>1 DEF Begin, NameOf
    <2>2. SUFFICES ASSUME NameOf(d) = NameOf(e) PROVE FALSE
      BY <2>1
    <2>3. \A x \in Downloads : Busy(x)' => Busy(x) \/ RunOf(x) = r
      BY <1>1, DownloadIs DEF Begin, TypeOK, Busy, InProgress
    <2>4. Busy(d) \/ RunOf(d) = r
      BY <1>1, <2>3 DEF Alone
    <2>5. Busy(e) \/ RunOf(e) = r
      BY <1>1, <2>3
    <2> DEFINE others(x) == {y \in Downloads \ {x} : /\ Busy(y) \/ RunOf(y) = r
                                                     /\ NameOf(y) = NameOf(x)}
               clashing == {x \in Of(r) : others(x) # {}}
    <2>6. clashed' = clashed \union clashing \union UNION {others(x) : x \in clashing}
      BY <1>1 DEF Begin
    <2>7. e \in others(d) /\ d \in others(e)
      BY <1>1, <2>2, <2>4, <2>5
    <2>8. d \notin clashed'
      BY <1>1 DEF Alone
    <2>9. CASE RunOf(d) = r
      <3>1. d \in clashing
        BY <2>7, <2>9 DEF Of
      <3> HIDE DEF clashing, others
      <3> QED BY <2>6, <2>8, <3>1
    <2>10. CASE RunOf(e) = r
      <3>1. e \in clashing
        BY <2>7, <2>10 DEF Of
      <3> HIDE DEF clashing, others
      <3> QED BY <2>6, <2>7, <2>8, <3>1
    <2>11. CASE Busy(d) /\ Busy(e)
      <3>1. Alone(d)
        BY <2>6, <2>8, <2>11 DEF Alone
      <3> QED BY <1>1, <2>2, <2>11, <3>1 DEF AloneInv
    <2> QED BY <2>4, <2>5, <2>9, <2>10, <2>11
  <1>2. ASSUME RunActs \/ \E x \in Downloads : Acts(x),
               NEW d \in Downloads, NEW e \in Downloads, Alone(d)', Busy(e)', d # e
        PROVE  NameOf(d)' # NameOf(e)'
    BY <1>2, BusyShrinks DEF AloneInv
  <1> QED BY <1>1, <1>2, NextActs DEF AloneInv

(* Each step keeps what a run allows its downloads.                        *)
LEMMA PcStep ==
  ASSUME TypeOK, PcInv, Next
  PROVE  PcInv'
  <1>1. ASSUME NEW r \in Runs, Begin(r) PROVE PcInv'
    BY <1>1, DownloadIs DEF Begin, PcInv, TypeOK
  <1>2. ASSUME NEW r \in Runs, AllSettled(r) PROVE PcInv'
    <2>1. \A d \in Downloads : RunOf(d) = r => writer[d].pc \in {"fulfilled", "rejected"}
      BY <1>2 DEF AllSettled, With, Of
    <2> QED BY <1>2, <2>1, DownloadIs DEF AllSettled, PcInv, TypeOK
  <1>3. ASSUME NEW r \in Runs, End(r) PROVE PcInv'
    <2>1. \A d \in Downloads : RunOf(d) = r => writer[d].pc \notin {"fulfilled", "stored"}
      BY <1>3 DEF End, With, Of
    <2> QED BY <1>3, <2>1, DownloadIs DEF End, PcInv, TypeOK
  <1>4. ASSUME NEW d \in Downloads, RunFails(d) PROVE PcInv'
    BY <1>4, DownloadIs DEF RunFails, PcInv, TypeOK
  <1>5. CASE Crash
    BY <1>5, DownloadIs DEF Crash, PcInv, TypeOK, InProgress
  <1>6. ASSUME NEW d \in Downloads, Acts(d) PROVE PcInv'
    <2>1. Acted(d)
      BY <1>6, ActsActed
    <2>2. run[RunOf(d)] \in {"fetching", "storing"}
      BY <2>1 DEF Acted, Busy, InProgress
    <2> SUFFICES ASSUME NEW e \in Downloads
                 PROVE  /\ run[RunOf(e)] = "new" => writer'[e].pc = "new"
                        /\ writer'[e].pc = "new" => writer'[e].written = 0
                        /\ run[RunOf(e)] = "storing" =>
                             writer'[e].pc \in {"fulfilled", "rejected", "stored", "deleted"}
                        /\ run[RunOf(e)] = "done" => writer'[e].pc \in {"rejected", "deleted"}
      BY <2>1 DEF PcInv, Acted
    <2>3. CASE e # d
      BY <2>1, <2>3 DEF PcInv, Acted, OthersStay
    <2>4. CASE e = d
      BY <2>1, <2>2, <2>4 DEF Acted
    <2> QED BY <2>3, <2>4
  <1> QED BY <1>1, <1>2, <1>3, <1>4, <1>5, <1>6, NextActs DEF RunActs

------------------------------------------------------------------------------
(*                     What the paths lead to                              *)

(* i: an inode made for a path of this kind with the name n.               *)
IsFor(i, kind, n) == i \in Inodes /\ i[1] = kind /\ NameOf(i[2]) = n

(* A path leads to an inode made for its kind and name, and a stream       *)
(* writes to one made for the name of its download.                        *)
LinksInv ==
  /\ \A p \in Paths : path[p] # None => IsFor(path[p], p[1], p[2])
  /\ \A d \in Downloads :
       /\ writer[d].pc \in {"writing", "copying"} =>
            IsFor(writer[d].stream, "data", NameOf(d))
       /\ writer[d].pc \in {"copying", "copied"} =>
            IsFor(writer[d].to, "final", NameOf(d))

(* What a download does leaves what has other names as it is.              *)
ApartKept(d) ==
  /\ \A p \in Paths : p[2] # NameOf(d) => path'[p] = path[p]
  /\ \A i \in Inodes : NameOf(i[2]) # NameOf(d) => inode'[i] = inode[i]

(* What is opened was made for the name.                                   *)
LEMMA OpenedFor ==
  ASSUME TypeOK, LinksInv, NEW d \in Downloads
  PROVE  /\ IsFor(Opened(DataOf(d), <<"data", d>>), "data", NameOf(d))
         /\ IsFor(Opened(FinalOf(d), <<"final", d>>), "final", NameOf(d))
  <1>1. /\ DataOf(d) \in Paths /\ DataOf(d)[1] = "data" /\ DataOf(d)[2] = NameOf(d)
        /\ FinalOf(d) \in Paths /\ FinalOf(d)[1] = "final" /\ FinalOf(d)[2] = NameOf(d)
    BY PathParts
  <1>2. /\ IsFor(<<"data", d>>, "data", NameOf(d))
        /\ IsFor(<<"final", d>>, "final", NameOf(d))
    BY PathsOf DEF IsFor
  <1>3. ASSUME path[DataOf(d)] # None
        PROVE  IsFor(path[DataOf(d)], "data", NameOf(d))
    BY <1>1, <1>3 DEF LinksInv
  <1>4. ASSUME path[FinalOf(d)] # None
        PROVE  IsFor(path[FinalOf(d)], "final", NameOf(d))
    BY <1>1, <1>4 DEF LinksInv
  <1> QED BY <1>2, <1>3, <1>4 DEF Opened

(* Each action touches only paths and inodes of the name of its download.  *)
LEMMA ActsApart ==
  ASSUME TypeOK, LinksInv, NEW d \in Downloads, Acts(d)
  PROVE  ApartKept(d)
  <1>1. /\ DataOf(d) \in Paths /\ DataOf(d)[2] = NameOf(d)
        /\ FinalOf(d) \in Paths /\ FinalOf(d)[2] = NameOf(d)
    BY PathParts
  <1>2. /\ NameOf(Opened(DataOf(d), <<"data", d>>)[2]) = NameOf(d)
        /\ NameOf(Opened(FinalOf(d), <<"final", d>>)[2]) = NameOf(d)
    BY OpenedFor DEF IsFor
  <1>3. CASE Open(d)
    <2>1. PICK i \in Inodes :
             /\ i = Opened(DataOf(d), <<"data", d>>)
             /\ path' = [path EXCEPT ![DataOf(d)] = i]
             /\ inode' = [inode EXCEPT ![i] = <<>>]
      BY <1>3, OpenTyped
    <2>2. \A p \in Paths : p[2] # NameOf(d) => path'[p] = path[p]
      BY <1>1, <2>1 DEF TypeOK
    <2>3. \A j \in Inodes : NameOf(j[2]) # NameOf(d) => inode'[j] = inode[j]
      BY <1>2, <2>1 DEF TypeOK
    <2> QED BY <2>2, <2>3 DEF ApartKept
  <1>4. CASE WriteRow(d)
    <2>1. NameOf(writer[d].stream[2]) = NameOf(d)
      BY <1>4 DEF WriteRow, LinksInv, IsFor
    <2>2. PICK new : inode' = [inode EXCEPT ![writer[d].stream] = new]
      BY <1>4, WriteRowTyped
    <2>3. \A j \in Inodes : NameOf(j[2]) # NameOf(d) => inode'[j] = inode[j]
      BY <2>1, <2>2 DEF TypeOK
    <2>4. path' = path
      BY <1>4 DEF WriteRow
    <2> QED BY <2>3, <2>4 DEF ApartKept
  <1>5. CASE RowFails(d) \/ FetchFails(d) \/ Store(d)
    <2>1. path' = path /\ inode' = inode
      BY <1>5 DEF RowFails, FetchFails, Store
    <2> QED BY <2>1 DEF ApartKept
  <1>6. CASE BeginCopy(d)
    <2>1. PICK i \in Inodes :
             /\ i = Opened(FinalOf(d), <<"final", d>>)
             /\ path' = [path EXCEPT ![FinalOf(d)] = i]
             /\ inode' = [inode EXCEPT ![i] = <<Line(d, 0, writer[d].columns)>>]
      BY <1>6, BeginCopyTyped
    <2>2. \A p \in Paths : p[2] # NameOf(d) => path'[p] = path[p]
      BY <1>1, <2>1 DEF TypeOK
    <2>3. \A j \in Inodes : NameOf(j[2]) # NameOf(d) => inode'[j] = inode[j]
      BY <1>2, <2>1 DEF TypeOK
    <2> QED BY <2>2, <2>3 DEF ApartKept
  <1>7. CASE Copy(d)
    <2>1. NameOf(writer[d].to[2]) = NameOf(d)
      BY <1>7 DEF Copy, LinksInv, IsFor
    <2>2. PICK new : inode' = [inode EXCEPT ![writer[d].to] = new]
      BY <1>7 DEF Copy
    <2>3. \A j \in Inodes : NameOf(j[2]) # NameOf(d) => inode'[j] = inode[j]
      BY <2>1, <2>2 DEF TypeOK
    <2>4. path' = path
      BY <1>7 DEF Copy
    <2> QED BY <2>3, <2>4 DEF ApartKept
  <1>8. CASE Unlink(d) \/ DeleteLocalFile(d)
    <2>1. inode' = inode
      BY <1>8 DEF Unlink, DeleteLocalFile
    <2>2. \A p \in Paths : p[2] # NameOf(d) => path'[p] = path[p]
      BY <1>1, <1>8 DEF Unlink, DeleteLocalFile, TypeOK
    <2> QED BY <2>1, <2>2 DEF ApartKept
  <1> QED BY <1>3, <1>4, <1>5, <1>6, <1>7, <1>8 DEF Acts, Step

(* The streams of one writer.                                              *)
StreamsFor(w, n) ==
  /\ w.pc \in {"writing", "copying"} => IsFor(w.stream, "data", n)
  /\ w.pc \in {"copying", "copied"} => IsFor(w.to, "final", n)

(* A step keeps the links if it makes none to an inode of another name.    *)
LEMMA LinksByWriter ==
  ASSUME LinksInv, NEW d \in Downloads, OthersStay(d), fileName' = fileName,
         \A p \in Paths : path'[p] # path[p] /\ path'[p] # None => IsFor(path'[p], p[1], p[2]),
         StreamsFor(writer'[d], NameOf(d))
  PROVE  LinksInv'
  <1>1. \A x : NameOf(x)' = NameOf(x)
    BY DEF NameOf
  <1>2. \A p \in Paths : path'[p] # None => IsFor(path'[p], p[1], p[2])
    BY DEF LinksInv
  <1>3. \A i, kind, n : IsFor(i, kind, n)' <=> IsFor(i, kind, n)
    BY <1>1 DEF IsFor
  <1>4. \A e \in Downloads : StreamsFor(writer'[e], NameOf(e))
    <2> TAKE e \in Downloads
    <2>1. StreamsFor(writer[e], NameOf(e))
      BY DEF LinksInv, StreamsFor
    <2> QED BY <2>1 DEF OthersStay
  <1>5. \A p \in Paths : path'[p] # None => IsFor(path[p], p[1], p[2])'
    <2> TAKE p \in Paths
    <2> SUFFICES ASSUME path'[p] # None PROVE IsFor(path[p], p[1], p[2])'
      OBVIOUS
    <2>1. IsFor(path'[p], p[1], p[2])
      BY <1>2
    <2> QED BY <1>1, <2>1 DEF IsFor
  <1>6. \A e \in Downloads :
       /\ writer'[e].pc \in {"writing", "copying"} => IsFor(writer[e].stream, "data", NameOf(e))'
       /\ writer'[e].pc \in {"copying", "copied"} => IsFor(writer[e].to, "final", NameOf(e))'
    BY <1>1, <1>4 DEF StreamsFor, IsFor
  <1> QED BY <1>5, <1>6 DEF LinksInv

(* Each step keeps what the paths and the streams lead to.                 *)
LEMMA LinksStep ==
  ASSUME TypeOK, LinksInv, Next
  PROVE  LinksInv'
  <1>1. CASE \E r \in Runs : Begin(r)
    <2>1. UNCHANGED <<fileName, writer, path>>
      BY <1>1 DEF Begin
    <2> QED BY <2>1 DEF LinksInv, IsFor, NameOf
  <1>2. CASE RunActs
    <2>1. UNCHANGED <<fileName, writer, path>>
      BY <1>2, RunActed
    <2> QED BY <2>1 DEF LinksInv, IsFor, NameOf
  <1>3. ASSUME NEW d \in Downloads, Acts(d) PROVE LinksInv'
    <2>1. OthersStay(d) /\ fileName' = fileName
      BY <1>3, ActsActed DEF Acted
    <2>2. /\ DataOf(d) \in Paths /\ DataOf(d)[1] = "data" /\ DataOf(d)[2] = NameOf(d)
          /\ FinalOf(d) \in Paths /\ FinalOf(d)[1] = "final" /\ FinalOf(d)[2] = NameOf(d)
      BY PathParts
    <2>3. StreamsFor(writer[d], NameOf(d))
      BY DEF LinksInv, StreamsFor
    <2>4. CASE Open(d)
      <3>1. PICK i \in Inodes :
               /\ i = Opened(DataOf(d), <<"data", d>>)
               /\ path' = [path EXCEPT ![DataOf(d)] = i]
               /\ writer'[d].pc = "writing" /\ writer'[d].stream = i
        BY <2>4, OpenTyped
      <3>2. IsFor(i, "data", NameOf(d))
        BY <3>1, OpenedFor
      <3>3. \A p \in Paths : path'[p] # path[p] => p = DataOf(d) /\ path'[p] = i
        BY <2>2, <3>1 DEF TypeOK
      <3>4. StreamsFor(writer'[d], NameOf(d))
        BY <3>1, <3>2 DEF StreamsFor
      <3> QED BY <2>1, <2>2, <3>2, <3>3, <3>4, LinksByWriter
    <2>5. CASE WriteRow(d)
      <3>1. /\ writer'[d].pc = writer[d].pc
            /\ writer'[d].stream = writer[d].stream /\ writer'[d].to = writer[d].to
        BY <2>5, WriteRowTyped
      <3>2. path' = path
        BY <2>5 DEF WriteRow
      <3>3. StreamsFor(writer'[d], NameOf(d))
        BY <2>3, <3>1 DEF StreamsFor
      <3> QED BY <2>1, <3>2, <3>3, LinksByWriter
    <2>6. CASE RowFails(d) \/ FetchFails(d) \/ Store(d)
      <3>1. path' = path
        BY <2>6 DEF RowFails, FetchFails, Store
      <3>2. writer'[d].pc \in {"rejected", "stored"}
        BY <2>6, ToTyped DEF RowFails, FetchFails, Store, WriterPcs
      <3>3. StreamsFor(writer'[d], NameOf(d))
        BY <3>2 DEF StreamsFor
      <3> QED BY <2>1, <3>1, <3>3, LinksByWriter
    <2>7. CASE BeginCopy(d)
      <3>1. PICK i \in Inodes, pc \in {"rejected", "copying"} :
               /\ i = Opened(FinalOf(d), <<"final", d>>)
               /\ pc = IF path[DataOf(d)] = None THEN "rejected" ELSE "copying"
               /\ path' = [path EXCEPT ![FinalOf(d)] = i]
               /\ writer'[d].pc = pc
               /\ writer'[d].stream = path[DataOf(d)] /\ writer'[d].to = i
        BY <2>7, BeginCopyTyped
      <3>2. IsFor(i, "final", NameOf(d))
        BY <3>1, OpenedFor
      <3>3. \A p \in Paths : path'[p] # path[p] => p = FinalOf(d) /\ path'[p] = i
        BY <2>2, <3>1 DEF TypeOK
      <3>4. path[DataOf(d)] # None => IsFor(path[DataOf(d)], "data", NameOf(d))
        BY <2>2 DEF LinksInv
      <3>5. StreamsFor(writer'[d], NameOf(d))
        BY <3>1, <3>2, <3>4 DEF StreamsFor
      <3> QED BY <2>1, <2>2, <3>2, <3>3, <3>5, LinksByWriter
    <2>8. CASE Copy(d)
      <3>1. path' = path
        BY <2>8 DEF Copy
      <3>2. writer'[d].pc = "copied" /\ writer'[d].to = writer[d].to /\ writer[d].pc = "copying"
        BY <2>8, ToTyped DEF Copy, WriterPcs
      <3>3. StreamsFor(writer'[d], NameOf(d))
        BY <2>3, <3>2 DEF StreamsFor
      <3> QED BY <2>1, <3>1, <3>3, LinksByWriter
    <2>9. CASE Unlink(d) \/ DeleteLocalFile(d)
      <3>1. \A p \in Paths : path'[p] # path[p] => path'[p] = None
        BY <2>2, <2>9 DEF Unlink, DeleteLocalFile, TypeOK
      <3>2. PICK pc \in {"rejected", "fulfilled", "deleted"} : To(d, pc)
        BY <2>9 DEF Unlink, DeleteLocalFile
      <3>3. writer'[d].pc = pc
        BY <3>2, ToTyped DEF WriterPcs
      <3>4. StreamsFor(writer'[d], NameOf(d))
        BY <3>3 DEF StreamsFor
      <3> QED BY <2>1, <3>1, <3>4, LinksByWriter
    <2> QED BY <1>3, <2>4, <2>5, <2>6, <2>7, <2>8, <2>9 DEF Acts, Step
  <1> QED BY <1>1, <1>2, <1>3, NextActs

------------------------------------------------------------------------------
(*                  The cells of a row and their columns                   *)

(* Every column so far has a value, of the last of the first n items that  *)
(* has the column.                                                         *)
DataFits(columns, data, d, n) ==
  \A c \in Columns : Has(columns, c) =>
    /\ data[c] \in 1 .. n /\ Has(Items[d][data[c]], c)
    /\ \A m \in data[c] + 1 .. n : ~Has(Items[d][m], c)

(* The cells of row k stand under their columns.                           *)
CellsFit(cells, columns, d, k) ==
  /\ Len(cells) =< Len(columns)
  /\ \A c \in Columns : Has(Items[d][k], c) => \E j \in 1 .. Len(cells) : columns[j] = c
  /\ \A j \in 1 .. Len(cells) :
       /\ cells[j] \in 1 .. k /\ Has(Items[d][cells[j]], columns[j])
       /\ \A m \in cells[j] + 1 .. k : ~Has(Items[d][m], columns[j])

(* The row in hand has the last value so far under each of its columns.    *)
DataInv ==
  \A d \in Downloads :
    /\ writer[d].written =< Len(Items[d])
    /\ DataFits(writer[d].columns, writer[d].data, d, writer[d].written)

TakesValues(new, data, item, k) ==
  \A c \in Columns : new[c] = IF Has(item, c) THEN k ELSE data[c]

(* Row k gives the columns of item k its values.                           *)
LEMMA DataNext ==
  ASSUME NEW d \in Downloads, NEW n \in Nat, NEW k \in Nat, k = n + 1,
         NEW columns, NEW data, DataFits(columns, data, d, n),
         NEW item \in Seq(Columns), item = Items[d][k],
         NEW s, Joins(s, columns, item, Len(item)),
         NEW new, TakesValues(new, data, item, k)
  PROVE  DataFits(s, new, d, k)
  <1> SUFFICES ASSUME NEW c \in Columns, Has(s, c)
               PROVE  /\ new[c] \in 1 .. k /\ Has(Items[d][new[c]], c)
                      /\ \A m \in new[c] + 1 .. k : ~Has(Items[d][m], c)
    BY DEF DataFits
  <1>1. Has(columns, c) \/ Has(item, c)
    <2>1. DOMAIN item = 1 .. Len(item)
      OBVIOUS
    <2> QED BY <2>1 DEF Joins, Has
  <1>2. CASE Has(item, c)
    <2>1. new[c] = k /\ k \in 1 .. k
      BY <1>2 DEF TakesValues
    <2>2. \A m \in k + 1 .. k : FALSE
      OBVIOUS
    <2> QED BY <1>2, <2>1, <2>2
  <1>3. CASE ~Has(item, c)
    <2>1. new[c] = data[c] /\ Has(columns, c)
      BY <1>1, <1>3 DEF TakesValues
    <2>2. /\ data[c] \in 1 .. n /\ Has(Items[d][data[c]], c)
          /\ \A m \in data[c] + 1 .. n : ~Has(Items[d][m], c)
      BY <2>1 DEF DataFits
    <2>3. data[c] \in 1 .. k /\ \A m \in data[c] + 1 .. k : m \in data[c] + 1 .. n \/ m = k
      BY <2>2
    <2> QED BY <1>3, <2>1, <2>2, <2>3
  <1> QED BY <1>2, <1>3

(* The row that is built then fits.                                        *)
LEMMA RowFits ==
  ASSUME NEW d \in Downloads, NEW k \in Nat,
         NEW v \in Writer, DataFits(v.columns, v.data, d, k),
         \A c \in Columns : Has(Items[d][k], c) => Has(v.columns, c)
  PROVE  CellsFit(BuildRow(v), v.columns, d, k)
  <1>1. PICK s \in Seq(Columns) : s = v.columns
    BY DEF Writer
  <1>2. DOMAIN s = 1 .. Len(s) /\ Len(s) \in Nat /\ \A i \in 1 .. Len(s) : s[i] \in Columns
    OBVIOUS
  <1>3. PICK cells : cells = BuildRow(v)
    OBVIOUS
  <1>4. cells = [i \in 1 .. Len(s) |-> v.data[s[i]]]
    BY <1>1, <1>2, <1>3 DEF BuildRow
  <1>5. Len(cells) = Len(s) /\ \A i \in 1 .. Len(s) : cells[i] = v.data[s[i]]
    BY <1>2, <1>4
  <1>6. \A c \in Columns : Has(Items[d][k], c) => \E j \in 1 .. Len(cells) : s[j] = c
    BY <1>1, <1>2, <1>5 DEF Has
  <1>7. ASSUME NEW j \in 1 .. Len(cells)
        PROVE  /\ cells[j] \in 1 .. k /\ Has(Items[d][cells[j]], s[j])
               /\ \A m \in cells[j] + 1 .. k : ~Has(Items[d][m], s[j])
    <2>1. PICK c \in Columns : c = s[j]
      BY <1>2, <1>5
    <2>2. Has(v.columns, c)
      BY <1>1, <1>2, <1>5, <2>1 DEF Has
    <2>3. /\ v.data[c] \in 1 .. k /\ Has(Items[d][v.data[c]], c)
          /\ \A m \in v.data[c] + 1 .. k : ~Has(Items[d][m], c)
      BY <2>2 DEF DataFits
    <2> QED BY <1>5, <2>1, <2>3
  <1>8. Len(cells) =< Len(s)
    BY <1>2, <1>5
  <1>9. CellsFit(cells, s, d, k)
    BY <1>6, <1>7, <1>8 DEF CellsFit
  <1> QED BY <1>1, <1>3, <1>9

(* Rows that fit still do when columns are added behind the others.        *)
LEMMA FitsKept ==
  ASSUME NEW columns \in Seq(Columns), NEW s, NEW item, NEW n, Joins(s, columns, item, n),
         NEW d, NEW k, NEW cells \in Seq(Columns \union Nat \union {None}),
         CellsFit(cells, columns, d, k)
  PROVE  CellsFit(cells, s, d, k)
  <1>1. /\ Len(columns) \in Nat /\ Len(s) \in Nat /\ Len(cells) \in Nat
        /\ Len(columns) =< Len(s) /\ Len(cells) =< Len(columns)
        /\ \A i \in 1 .. Len(columns) : s[i] = columns[i]
    BY DEF Joins, CellsFit
  <1>2. Len(cells) =< Len(s) /\ \A j \in 1 .. Len(cells) : j \in 1 .. Len(columns)
    BY <1>1
  <1>3. \A j \in 1 .. Len(cells) : s[j] = columns[j]
    BY <1>1, <1>2
  <1> QED BY <1>2, <1>3 DEF CellsFit

(* What a row that is written adds.                                        *)
LEMMA WriteRowFits ==
  ASSUME TypeOK, DataInv, NEW d \in Downloads, WriteRow(d)
  PROVE  \E k \in Nat, cells \in Seq(Columns \union Nat \union {None}),
            item \in Seq(Columns), s \in Seq(Columns) :
           /\ k = writer[d].written + 1 /\ k =< Len(Items[d])
           /\ s = writer'[d].columns
           /\ Joins(s, writer[d].columns, item, Len(item))
           /\ DataFits(s, writer'[d].data, d, k)
           /\ CellsFit(cells, s, d, k)
           /\ Line(d, k, cells) \in Lines
           /\ inode' = [inode EXCEPT ![writer[d].stream] =
                          WrittenAt(inode[writer[d].stream], k - 1, <<Line(d, k, cells)>>)]
  <1>1. PICK k \in Nat, v \in Writer, cells \in Seq(Columns \union Nat \union {None}) :
           /\ k = writer[d].written + 1 /\ k =< Len(Items[d]) /\ Items[d][k] \in Seq(Columns)
           /\ v = ExtractRowData(writer[d], Items[d][k], k) /\ cells = BuildRow(v)
           /\ Line(d, k, cells) \in Lines
           /\ inode' = [inode EXCEPT ![writer[d].stream] =
                          WrittenAt(inode[writer[d].stream], k - 1, <<Line(d, k, cells)>>)]
           /\ writer'[d].columns = v.columns /\ writer'[d].data = v.data
    BY WriteRowTyped
  <1>2. PICK item \in Seq(Columns) : item = Items[d][k]
    BY <1>1
  <1>3. PICK s \in Seq(Columns) : s = v.columns
    BY DEF Writer
  <1>4. /\ v.columns = Added(writer[d].columns, item)
        /\ v.data = [c \in Columns |-> IF Has(item, c) THEN k ELSE writer[d].data[c]]
    <2>1. writer[d] \in Writer
      BY WriterFields
    <2>2. v = ExtractRowData(writer[d], item, k)
      BY <1>1, <1>2
    <2> QED BY <2>1, <2>2 DEF ExtractRowData, Writer
  <1>5. PICK columns \in Seq(Columns) : columns = writer[d].columns
    BY WriterFields
  <1>6. Joins(s, columns, item, Len(item))
    BY <1>3, <1>4, <1>5, AddedJoins
  <1>7. PICK n \in Nat : n = writer[d].written
    BY WriterFields
  <1>8. DataFits(s, v.data, d, k)
    <2>1. PICK data : data = writer[d].data
      OBVIOUS
    <2>2. DataFits(columns, data, d, n)
      BY <1>5, <1>7, <2>1 DEF DataInv
    <2>3. PICK new : new = v.data
      OBVIOUS
    <2>4. k = n + 1 /\ TakesValues(new, data, item, k)
      BY <1>1, <1>4, <1>7, <2>1, <2>3 DEF TakesValues
    <2>5. DataFits(s, new, d, k)
      BY <1>2, <1>6, <2>2, <2>4, DataNext
    <2> QED BY <2>3, <2>5
  <1>9. CellsFit(cells, s, d, k)
    <2>1. \A c \in Columns : Has(item, c) => Has(s, c)
      <3>1. DOMAIN item = 1 .. Len(item)
        OBVIOUS
      <3> QED BY <1>6, <3>1 DEF Joins, Has
    <2>2. CellsFit(BuildRow(v), v.columns, d, k)
      BY <1>2, <1>3, <1>8, <2>1, RowFits
    <2> QED BY <1>1, <1>3, <2>2
  <1> QED BY <1>1, <1>3, <1>5, <1>6, <1>8, <1>9

(* Each step keeps that the data fit the columns.                          *)
LEMMA DataStep ==
  ASSUME TypeOK, DataInv, Next
  PROVE  DataInv'
  <1>1. CASE RunActs \/ \E r \in Runs : Begin(r)
    <2>1. writer' = writer
      BY <1>1, RunActed DEF Begin
    <2> QED BY <2>1 DEF DataInv
  <1>2. ASSUME NEW d \in Downloads, Acts(d) PROVE DataInv'
    <2> SUFFICES ASSUME NEW n \in Nat, NEW columns, NEW data,
                        n = writer'[d].written, columns = writer'[d].columns,
                        data = writer'[d].data
                 PROVE  n =< Len(Items[d]) /\ DataFits(columns, data, d, n)
      <3>1. writer' \in [Downloads -> Writer]
        BY <1>2, NextTyped DEF Next, Acts, TypeOK
      <3>2. writer'[d].written \in Nat
        BY <3>1 DEF Writer
      <3>3. \A e \in Downloads : e # d => writer'[e] = writer[e]
        BY <1>2, ActsActed DEF Acted, OthersStay
      <3>4. ASSUME NEW e \in Downloads
            PROVE  /\ writer'[e].written =< Len(Items[e])
                   /\ DataFits(writer'[e].columns, writer'[e].data, e, writer'[e].written)
        <4>1. CASE e = d
          BY <3>2, <4>1
        <4>2. CASE e # d
          BY <3>3, <4>2 DEF DataInv
        <4> QED BY <4>1, <4>2
      <3> QED BY <3>4 DEF DataInv, DataFits
    <2>1. CASE WriteRow(d)
      <3>1. writer'[d].written = writer[d].written + 1
        BY <2>1, WriteRowTyped
      <3>2. \E k \in Nat : /\ k = writer[d].written + 1 /\ k =< Len(Items[d])
                           /\ DataFits(writer'[d].columns, writer'[d].data, d, k)
        BY <2>1, WriteRowFits
      <3> QED BY <3>1, <3>2
    <2>2. CASE Open(d)
      <3>1. /\ writer'[d].written = writer[d].written
            /\ writer'[d].columns = writer[d].columns /\ writer'[d].data = writer[d].data
        BY <2>2, OpenTyped
      <3> QED BY <3>1 DEF DataInv
    <2>3. CASE BeginCopy(d)
      <3>1. /\ writer'[d].written = writer[d].written
            /\ writer'[d].columns = writer[d].columns /\ writer'[d].data = writer[d].data
        BY <2>3, BeginCopyTyped
      <3> QED BY <3>1 DEF DataInv
    <2>4. CASE RowFails(d) \/ FetchFails(d) \/ Copy(d) \/ Unlink(d) \/ Store(d) \/ DeleteLocalFile(d)
      <3>1. PICK pc \in WriterPcs : To(d, pc)
        BY <2>4 DEF RowFails, FetchFails, Copy, Unlink, Store, DeleteLocalFile, WriterPcs
      <3>2. /\ writer'[d].written = writer[d].written
            /\ writer'[d].columns = writer[d].columns /\ writer'[d].data = writer[d].data
        BY <3>1, ToTyped
      <3> QED BY <3>2 DEF DataInv
    <2> QED BY <1>2, <2>1, <2>2, <2>3, <2>4 DEF Acts, Step
  <1> QED BY <1>1, <1>2, NextActs

------------------------------------------------------------------------------
(*                The files of a download that is alone                    *)

IsRow(l, d, k, columns) ==
  /\ l \in Lines /\ l.of = d /\ l.row = k
  /\ CellsFit(l.cells, columns, d, k)

(* lines: the first n rows of d, and its header with all its rows.         *)
IsRows(lines, d, n, columns) ==
  Len(lines) = n /\ \A k \in 1 .. n : IsRow(lines[k], d, k, columns)

(* The whole file of d: its header and then a row for each measurement.    *)
IsWhole(lines, d) ==
  /\ Len(lines) = 1 + Len(Items[d])
  /\ lines[1] \in Lines /\ lines[1].of = d /\ lines[1].row = 0
  /\ \A k \in 1 .. Len(Items[d]) : IsRow(lines[k + 1], d, k, lines[1].cells)

(* The files of writer w of d, where its paths lead to data and final.     *)
FilesFit(d, w, data, final, in) ==
  /\ w.pc \in {"writing", "copying"} => data = w.stream
  /\ w.pc = "copied" => data # None
  /\ w.pc \in {"copying", "copied"} => final = w.to
  /\ w.pc \in {"fulfilled", "stored"} => final # None
  /\ w.pc = "writing" => IsRows(in[w.stream], d, w.written, w.columns)
  /\ w.pc = "copying" => /\ IsRows(in[w.stream], d, Len(Items[d]), w.columns)
                         /\ Line(d, 0, w.columns) \in Lines
                         /\ in[w.to] = <<Line(d, 0, w.columns)>>
  /\ w.pc \in {"copied", "fulfilled", "stored"} => IsWhole(in[final], d)

(* The files of a download that is alone hold what it has put there.       *)
FilesInv ==
  \A d \in Downloads : Alone(d) =>
    FilesFit(d, writer[d], path[DataOf(d)], path[FinalOf(d)], inode)

(* The next row goes behind the rows that are there.                       *)
LEMMA RowsGrow ==
  ASSUME NEW d \in Downloads, NEW n \in Nat, NEW k, k = n + 1,
         NEW columns \in Seq(Columns), NEW s, NEW item, NEW m, Joins(s, columns, item, m),
         NEW old \in Seq(Lines \union {None}), IsRows(old, d, n, columns),
         NEW cells, CellsFit(cells, s, d, k),
         NEW l \in Lines, l = Line(d, k, cells),
         NEW new, NEW lines, lines = <<l>>, IsBehind(new, old, lines)
  PROVE  IsRows(new, d, k, s)
  <1>1. Len(old) = n /\ Len(lines) = 1 /\ lines[1] = l /\ 1 \in 1 .. Len(lines)
    BY DEF IsRows
  <1>2. Len(new) = k /\ new[k] = l /\ \A i \in 1 .. n : new[i] = old[i]
    BY <1>1 DEF IsBehind
  <1>3. \A i \in 1 .. k : i = k \/ i \in 1 .. n
    OBVIOUS
  <1>4. IsRow(l, d, k, s)
    BY DEF IsRow, Line
  <1>5. ASSUME NEW i \in 1 .. n PROVE IsRow(old[i], d, i, s)
    <2>1. PICK x : x = old[i]
      OBVIOUS
    <2>2. x \in Lines /\ x.of = d /\ x.row = i /\ CellsFit(x.cells, columns, d, i)
      BY <2>1 DEF IsRows, IsRow
    <2>3. PICK c \in Seq(Columns \union Nat \union {None}) : c = x.cells
      BY <2>2 DEF Lines
    <2>4. CellsFit(c, s, d, i)
      BY <2>2, <2>3, FitsKept
    <2> QED BY <2>1, <2>2, <2>3, <2>4 DEF IsRow
  <1> QED BY <1>2, <1>3, <1>4, <1>5 DEF IsRows

(* The header with all rows behind it is the whole file.                   *)
LEMMA CopyIsWhole ==
  ASSUME NEW d \in Downloads, NEW columns,
         NEW rows, IsRows(rows, d, Len(Items[d]), columns),
         NEW h \in Lines, h = Line(d, 0, columns),
         NEW old, old = <<h>>, NEW new, IsBehind(new, old, rows)
  PROVE  IsWhole(new, d)
  <1>1. Len(Items[d]) \in Nat
    BY DownloadIs
  <1>2. PICK n \in Nat : n = Len(Items[d])
    BY <1>1
  <1>3. Len(rows) = n /\ \A k \in 1 .. n : IsRow(rows[k], d, k, columns)
    BY <1>2 DEF IsRows
  <1>4. Len(old) = 1 /\ old[1] = h
    OBVIOUS
  <1>5. Len(new) = 1 + n /\ new[1] = h /\ \A k \in 1 .. n : new[1 + k] = rows[k]
    BY <1>3, <1>4 DEF IsBehind
  <1>6. \A k \in 1 .. n : new[k + 1] = rows[k]
    <2>1. \A k \in 1 .. n : k + 1 = 1 + k
      OBVIOUS
    <2> QED BY <1>5, <2>1
  <1>7. h.of = d /\ h.row = 0 /\ h.cells = columns
    BY DEF Line
  <1> QED BY <1>2, <1>3, <1>5, <1>6, <1>7 DEF IsWhole

(* What others do does not reach the files of a download that is alone.    *)
LEMMA FilesApart ==
  ASSUME TypeOK, LinksInv, AloneInv, NEW d \in Downloads, ApartKept(d), Acted(d),
         NEW e \in Downloads, e # d, Alone(e),
         FilesFit(e, writer[e], path[DataOf(e)], path[FinalOf(e)], inode)
  PROVE  FilesFit(e, writer'[e], path'[DataOf(e)], path'[FinalOf(e)], inode')
  <1>1. NameOf(e) # NameOf(d)
    BY DEF Acted, AloneInv
  <1>2. path'[DataOf(e)] = path[DataOf(e)] /\ path'[FinalOf(e)] = path[FinalOf(e)]
    BY <1>1, PathParts DEF ApartKept
  <1>3. writer'[e] = writer[e]
    BY DEF Acted, OthersStay
  <1>4. PICK w : w = writer[e]
    OBVIOUS
  <1>5. ASSUME NEW i, NEW kind, IsFor(i, kind, NameOf(e)) PROVE inode'[i] = inode[i]
    BY <1>1, <1>5 DEF IsFor, ApartKept
  <1>6. /\ w.pc \in {"writing", "copying"} => inode'[w.stream] = inode[w.stream]
        /\ w.pc \in {"copying", "copied"} => inode'[w.to] = inode[w.to]
    BY <1>4, <1>5 DEF LinksInv
  <1>7. path[FinalOf(e)] # None => inode'[path[FinalOf(e)]] = inode[path[FinalOf(e)]]
    BY <1>5, PathParts DEF LinksInv
  <1>8. PICK final : final = path[FinalOf(e)]
    OBVIOUS
  <1>9. w.pc \in {"copied", "fulfilled", "stored"} => inode'[final] = inode[final]
    BY <1>4, <1>6, <1>7, <1>8 DEF FilesFit
  <1>10. FilesFit(e, w, path[DataOf(e)], final, inode)
    BY <1>4, <1>8
  <1>11. FilesFit(e, w, path[DataOf(e)], final, inode')
    BY <1>6, <1>9, <1>10 DEF FilesFit
  <1> QED BY <1>2, <1>3, <1>4, <1>8, <1>11

(* Each step of a download that is alone, and stays at work, keeps its     *)
(* files.                                                                  *)
LEMMA OwnOpen ==
  ASSUME TypeOK, PcInv, NEW d \in Downloads, Open(d)
  PROVE  FilesFit(d, writer'[d], path'[DataOf(d)], path'[FinalOf(d)], inode')
  <1>1. PICK i \in Inodes :
           /\ path' = [path EXCEPT ![DataOf(d)] = i]
           /\ inode' = [inode EXCEPT ![i] = <<>>]
           /\ writer'[d].pc = "writing" /\ writer'[d].stream = i
           /\ writer'[d].written = writer[d].written
    BY OpenTyped
  <1>2. writer'[d].written = 0
    BY <1>1 DEF Open, PcInv
  <1>3. path'[DataOf(d)] = i /\ inode'[i] = <<>>
    BY <1>1, PathParts DEF TypeOK
  <1>4. \A columns : IsRows(<<>>, d, 0, columns)
    BY DEF IsRows
  <1> QED BY <1>1, <1>2, <1>3, <1>4 DEF FilesFit

LEMMA OwnWriteRow ==
  ASSUME TypeOK, DataInv, NEW d \in Downloads, WriteRow(d),
         FilesFit(d, writer[d], path[DataOf(d)], path[FinalOf(d)], inode)
  PROVE  FilesFit(d, writer'[d], path'[DataOf(d)], path'[FinalOf(d)], inode')
  <1>1. PICK k \in Nat, cells \in Seq(Columns \union Nat \union {None}),
             item \in Seq(Columns), s \in Seq(Columns) :
           /\ k = writer[d].written + 1 /\ s = writer'[d].columns
           /\ Joins(s, writer[d].columns, item, Len(item))
           /\ CellsFit(cells, s, d, k)
           /\ Line(d, k, cells) \in Lines
           /\ inode' = [inode EXCEPT ![writer[d].stream] =
                          WrittenAt(inode[writer[d].stream], k - 1, <<Line(d, k, cells)>>)]
    BY WriteRowFits
  <1>2. /\ writer[d].pc = "writing" /\ writer'[d].pc = "writing"
        /\ writer'[d].stream = writer[d].stream /\ writer'[d].written = writer[d].written + 1
        /\ path' = path
    BY WriteRowTyped DEF WriteRow
  <1>3. PICK i \in Inodes : i = writer[d].stream
    BY <1>2 DEF TypeOK
  <1>4. PICK old \in Seq(Lines \union {None}) : old = inode[i]
    BY DEF TypeOK
  <1>5. PICK columns \in Seq(Columns) : columns = writer[d].columns
    BY WriterFields
  <1>6. PICK n \in Nat : n = writer[d].written
    BY WriterFields
  <1>7. IsRows(old, d, n, columns)
    BY <1>2, <1>3, <1>4, <1>5, <1>6 DEF FilesFit
  <1>8. PICK l \in Lines : l = Line(d, k, cells)
    BY <1>1
  <1>9. PICK lines : lines = <<l>>
    OBVIOUS
  <1>10. PICK at \in Nat : at = k - 1 /\ at = n /\ at = Len(old)
    BY <1>1, <1>6, <1>7 DEF IsRows
  <1>11. PICK new : new = WrittenAt(old, at, lines)
    OBVIOUS
  <1>12. inode'[i] = new
    BY <1>1, <1>3, <1>4, <1>8, <1>9, <1>10, <1>11 DEF TypeOK
  <1>13. lines \in Seq(Lines \union {None})
    BY <1>9
  <1>14. IsBehind(new, old, lines)
    BY <1>10, <1>11, <1>13, WrittenBehind
  <1>15. IsRows(new, d, k, s)
    <2>1. k = n + 1
      BY <1>1, <1>6
    <2>2. Joins(s, columns, item, Len(item))
      BY <1>1, <1>5
    <2>3. CellsFit(cells, s, d, k)
      BY <1>1
    <2> QED BY <1>7, <1>8, <1>9, <1>14, <2>1, <2>2, <2>3, RowsGrow
  <1>16. path[DataOf(d)] = i
    BY <1>2, <1>3 DEF FilesFit
  <1> QED BY <1>1, <1>2, <1>3, <1>12, <1>15, <1>16 DEF FilesFit

LEMMA OwnBeginCopy ==
  ASSUME TypeOK, LinksInv, NEW d \in Downloads, BeginCopy(d),
         FilesFit(d, writer[d], path[DataOf(d)], path[FinalOf(d)], inode)
  PROVE  /\ writer'[d].pc = "copying"
         /\ FilesFit(d, writer'[d], path'[DataOf(d)], path'[FinalOf(d)], inode')
  <1>1. PICK i \in Inodes, pc \in {"rejected", "copying"} :
           /\ i = Opened(FinalOf(d), <<"final", d>>)
           /\ pc = IF path[DataOf(d)] = None THEN "rejected" ELSE "copying"
           /\ Line(d, 0, writer[d].columns) \in Lines
           /\ path' = [path EXCEPT ![FinalOf(d)] = i]
           /\ inode' = [inode EXCEPT ![i] = <<Line(d, 0, writer[d].columns)>>]
           /\ writer'[d].pc = pc
           /\ writer'[d].stream = path[DataOf(d)] /\ writer'[d].to = i
           /\ writer'[d].columns = writer[d].columns
    BY BeginCopyTyped
  <1>2. writer[d].pc = "writing" /\ writer[d].written = Len(Items[d])
    BY DEF BeginCopy
  <1>3. PICK j \in Inodes : j = writer[d].stream /\ j = path[DataOf(d)] /\ j[1] = "data"
    BY <1>2 DEF FilesFit, LinksInv, IsFor
  <1>4. pc = "copying"
    BY <1>1, <1>3, NoneIs
  <1>5. i[1] = "final"
    BY <1>1, OpenedFor DEF IsFor
  <1>6. i # j
    BY <1>3, <1>5
  <1>7. inode'[j] = inode[j] /\ inode'[i] = <<Line(d, 0, writer[d].columns)>>
    BY <1>1, <1>6 DEF TypeOK
  <1>8. path'[DataOf(d)] = path[DataOf(d)] /\ path'[FinalOf(d)] = i
    <2>1. DataOf(d) # FinalOf(d)
      BY PathParts
    <2> QED BY <1>1, <2>1, PathParts DEF TypeOK
  <1>9. IsRows(inode[j], d, Len(Items[d]), writer[d].columns)
    BY <1>2, <1>3 DEF FilesFit
  <1>10. PICK w : w = writer'[d]
    OBVIOUS
  <1>11. /\ w.pc = "copying" /\ w.stream = j /\ w.to = i /\ w.columns = writer[d].columns
    BY <1>1, <1>3, <1>4, <1>10
  <1>12. FilesFit(d, w, j, i, inode')
    BY <1>1, <1>7, <1>9, <1>11 DEF FilesFit
  <1> QED BY <1>3, <1>8, <1>10, <1>11, <1>12

LEMMA OwnCopy ==
  ASSUME TypeOK, LinksInv, NEW d \in Downloads, Copy(d),
         FilesFit(d, writer[d], path[DataOf(d)], path[FinalOf(d)], inode)
  PROVE  FilesFit(d, writer'[d], path'[DataOf(d)], path'[FinalOf(d)], inode')
  <1>1. /\ writer[d].pc = "copying" /\ path' = path
        /\ inode' = [inode EXCEPT ![writer[d].to] =
                       WrittenAt(inode[writer[d].to], 1, inode[writer[d].stream])]
    BY DEF Copy
  <1>2. /\ writer'[d].pc = "copied" /\ writer'[d].to = writer[d].to
    BY ToTyped DEF Copy, WriterPcs
  <1>3. PICK i \in Inodes : i = writer[d].to
    BY <1>1 DEF TypeOK
  <1>4. PICK j \in Inodes : j = writer[d].stream
    BY <1>1 DEF TypeOK
  <1>5. path[DataOf(d)] = j /\ path[FinalOf(d)] = i /\ j # None
    BY <1>1, <1>3, <1>4, NoneIs DEF FilesFit
  <1>6. PICK old \in Seq(Lines \union {None}) : old = inode[i]
    BY DEF TypeOK
  <1>7. PICK rows \in Seq(Lines \union {None}) : rows = inode[j]
    BY DEF TypeOK
  <1>8. PICK new : new = WrittenAt(old, 1, rows)
    OBVIOUS
  <1>9. inode'[i] = new
    BY <1>1, <1>3, <1>4, <1>6, <1>7, <1>8 DEF TypeOK
  <1>10. PICK columns : columns = writer[d].columns
    OBVIOUS
  <1>11. PICK h \in Lines : h = Line(d, 0, columns)
    BY <1>1, <1>10 DEF FilesFit
  <1>12. old = <<h>> /\ IsRows(rows, d, Len(Items[d]), columns)
    BY <1>1, <1>3, <1>4, <1>6, <1>7, <1>10, <1>11 DEF FilesFit
  <1>13. 1 = Len(old)
    BY <1>12
  <1>14. IsBehind(new, old, rows)
    BY <1>8, <1>13, WrittenBehind
  <1>15. IsWhole(new, d)
    BY <1>11, <1>12, <1>14, CopyIsWhole
  <1>16. PICK w : w = writer'[d]
    OBVIOUS
  <1>17. FilesFit(d, w, j, i, inode')
    BY <1>2, <1>3, <1>5, <1>9, <1>15, <1>16 DEF FilesFit
  <1> QED BY <1>1, <1>5, <1>16, <1>17

LEMMA OwnUnlink ==
  ASSUME TypeOK, NEW d \in Downloads, Unlink(d),
         FilesFit(d, writer[d], path[DataOf(d)], path[FinalOf(d)], inode)
  PROVE  /\ writer'[d].pc = "fulfilled"
         /\ FilesFit(d, writer'[d], path'[DataOf(d)], path'[FinalOf(d)], inode')
  <1>1. writer[d].pc = "copied" /\ path[DataOf(d)] # None /\ inode' = inode
        /\ writer[d].to = path[FinalOf(d)] /\ IsWhole(inode[path[FinalOf(d)]], d)
    BY DEF Unlink, FilesFit
  <1>2. To(d, "fulfilled")
    BY <1>1 DEF Unlink
  <1>3. writer'[d].pc = "fulfilled"
    BY <1>2, ToTyped DEF WriterPcs
  <1>4. path'[FinalOf(d)] = path[FinalOf(d)]
    <2>1. DataOf(d) # FinalOf(d)
      BY PathParts
    <2> QED BY <2>1, PathParts DEF Unlink, TypeOK
  <1>5. path[FinalOf(d)] # None
    <2>1. writer[d].to \in Inodes
      BY <1>1 DEF TypeOK
    <2> QED BY <1>1, <2>1, NoneIs
  <1>6. PICK final : final = path[FinalOf(d)]
    OBVIOUS
  <1>7. FilesFit(d, writer'[d], path'[DataOf(d)], final, inode')
    BY <1>1, <1>3, <1>5, <1>6 DEF FilesFit
  <1> QED BY <1>3, <1>4, <1>6, <1>7

LEMMA OwnStore ==
  ASSUME TypeOK, NEW d \in Downloads, Store(d),
         FilesFit(d, writer[d], path[DataOf(d)], path[FinalOf(d)], inode)
  PROVE  FilesFit(d, writer'[d], path'[DataOf(d)], path'[FinalOf(d)], inode')
  <1>1. writer[d].pc = "fulfilled" /\ path' = path /\ inode' = inode
    BY DEF Store
  <1>2. writer'[d].pc = "stored"
    BY ToTyped DEF Store, WriterPcs
  <1> QED BY <1>1, <1>2 DEF FilesFit

(* Each step keeps the files of those that are alone.                      *)
LEMMA FilesStep ==
  ASSUME TypeOK, PcInv, AloneInv, LinksInv, DataInv, FilesInv, Next
  PROVE  FilesInv'
  <1>1. ASSUME NEW r \in Runs, Begin(r) PROVE FilesInv'
    <2>1. UNCHANGED <<fileName, writer, path, inode>> /\ clashed \subseteq clashed'
          /\ run' = [run EXCEPT ![r] = "fetching"] /\ run[r] = "new"
      BY <1>1 DEF Begin
    <2> SUFFICES ASSUME NEW d \in Downloads, Alone(d)'
                 PROVE  FilesFit(d, writer[d], path[DataOf(d)], path[FinalOf(d)], inode)
      BY <2>1 DEF FilesInv, DataOf, FinalOf, NameOf
    <2>2. CASE RunOf(d) = r
      BY <2>1, <2>2 DEF PcInv, FilesFit
    <2>3. CASE RunOf(d) # r
      <3>1. Alone(d)
        BY <2>1, <2>3, DownloadIs DEF Alone, Busy, InProgress, TypeOK
      <3> QED BY <3>1 DEF FilesInv
    <2> QED BY <2>2, <2>3
  <1>2. CASE RunActs
    <2>1. UNCHANGED <<fileName, writer, path, inode>>
      BY <1>2, RunActed
    <2>2. \A d \in Downloads : Alone(d)' => Alone(d)
      BY <1>2, BusyShrinks
    <2> QED BY <2>1, <2>2 DEF FilesInv, DataOf, FinalOf, NameOf
  <1>3. ASSUME NEW d \in Downloads, Acts(d) PROVE FilesInv'
    <2>1. Acted(d) /\ ApartKept(d)
      BY <1>3, ActsActed, ActsApart
    <2>2. \A e \in Downloads : DataOf(e)' = DataOf(e) /\ FinalOf(e)' = FinalOf(e)
      BY <2>1 DEF Acted, DataOf, FinalOf, NameOf
    <2> SUFFICES ASSUME NEW e \in Downloads, Alone(e)'
                 PROVE  FilesFit(e, writer'[e], path'[DataOf(e)], path'[FinalOf(e)], inode')
      BY <2>2 DEF FilesInv
    <2>3. Alone(e) /\ FilesFit(e, writer[e], path[DataOf(e)], path[FinalOf(e)], inode)
      BY <1>3, BusyShrinks DEF FilesInv
    <2>4. CASE e # d
      BY <2>1, <2>3, <2>4, FilesApart
    <2>5. CASE e = d
      <3>1. writer'[d].pc \notin {"rejected", "deleted"}
        BY <2>5 DEF Alone, Busy
      <3>2. ~ (RowFails(d) \/ FetchFails(d) \/ DeleteLocalFile(d))
        BY <3>1, ToTyped DEF RowFails, FetchFails, DeleteLocalFile, WriterPcs
      <3>3. FilesFit(d, writer[d], path[DataOf(d)], path[FinalOf(d)], inode)
        BY <2>3, <2>5
      <3>4. FilesFit(d, writer'[d], path'[DataOf(d)], path'[FinalOf(d)], inode')
        BY <1>3, <3>2, <3>3, OwnOpen, OwnWriteRow, OwnBeginCopy, OwnCopy, OwnUnlink, OwnStore
           DEF Acts, Step
      <3> QED BY <2>5, <3>4
    <2> QED BY <2>4, <2>5
  <1> QED BY <1>1, <1>2, <1>3, NextActs

------------------------------------------------------------------------------
(*                        What is stored                                   *)

(* What was stored for a download that stayed alone is its whole file.     *)
StoredInv ==
  \A o \in stored : o.download \notin clashed => IsWhole(o.lines, o.download)

(* Only Store adds to what is stored, and it stores the whole file.        *)
LEMMA StoredStep ==
  ASSUME TypeOK, FilesInv, StoredInv, Next
  PROVE  StoredInv'
  <1>1. clashed \subseteq clashed'
    BY NextActs, ActsActed, RunActed DEF Begin, Acted
  <1>2. ASSUME NEW d \in Downloads, Store(d)
        PROVE  StoredInv'
    <2>1. PICK o : o = [download |-> d, lines |-> inode[path[FinalOf(d)]]]
      OBVIOUS
    <2>2. stored' = stored \union {o}
      BY <1>2, <2>1 DEF Store
    <2>3. ASSUME d \notin clashed PROVE IsWhole(o.lines, o.download)
      <3>1. run[RunOf(d)] = "storing" /\ writer[d].pc = "fulfilled"
        BY <1>2 DEF Store
      <3>2. Alone(d)
        BY <2>3, <3>1 DEF Alone, Busy, InProgress
      <3>3. IsWhole(inode[path[FinalOf(d)]], d)
        BY <3>1, <3>2 DEF FilesInv, FilesFit
      <3>4. o.download = d /\ o.lines = inode[path[FinalOf(d)]]
        BY <2>1
      <3> QED BY <3>3, <3>4
    <2>4. o.download = d
      BY <2>1
    <2> QED BY <1>1, <2>2, <2>3, <2>4 DEF StoredInv
  <1>3. ASSUME \A d \in Downloads : ~Store(d)
        PROVE  StoredInv'
    <2>1. stored' = stored
      BY <1>3, RunActed DEF Next, Begin, AllSettled, End, Open, Step, WriteRow, RowFails,
         FetchFails, BeginCopy, Copy, Unlink, DeleteLocalFile, RunFails, Crash
    <2> QED BY <1>1, <2>1 DEF StoredInv
  <1> QED BY <1>2, <1>3

(* What is stored and not spoilt has the two properties.                   *)
LEMMA StoredFits ==
  ASSUME TypeOK, StoredInv
  PROVE  StoredIsOwnFile /\ CellsUnderColumns
  <1> SUFFICES ASSUME NEW o \in stored, o.download \notin clashed
               PROVE  /\ /\ Len(o.lines) = 1 + Len(Items[o.download])
                         /\ \A i \in DOMAIN o.lines :
                              /\ o.lines[i] # None /\ o.lines[i].of = o.download
                              /\ o.lines[i].row = i - 1
                      /\ \A k \in 1 .. Len(o.lines) - 1 :
                           LET columns == o.lines[1].cells
                               cells   == o.lines[k + 1].cells
                               item(n) == Items[o.download][n]
                           IN  /\ \A c \in Columns : Has(item(k), c) =>
                                    \E j \in DOMAIN cells : columns[j] = c
                               /\ \A j \in DOMAIN cells :
                                    /\ Has(item(cells[j]), columns[j]) /\ cells[j] =< k
                                    /\ \A n \in cells[j] + 1 .. k : ~Has(item(n), columns[j])
    BY DEF StoredIsOwnFile, CellsUnderColumns
  <1>1. PICK d \in Downloads : d = o.download
    BY DEF TypeOK
  <1>2. PICK lines \in Seq(Lines \union {None}) : lines = o.lines
    BY DEF TypeOK
  <1>3. PICK m \in Nat : m = Len(Items[d])
    BY DownloadIs
  <1>4. IsWhole(lines, d)
    BY <1>1, <1>2 DEF StoredInv
  <1>5. /\ Len(lines) = 1 + m /\ DOMAIN lines = 1 .. 1 + m
        /\ \A k \in 1 .. m : IsRow(lines[k + 1], d, k, lines[1].cells)
        /\ lines[1] \in Lines /\ lines[1].of = d /\ lines[1].row = 0
    BY <1>3, <1>4 DEF IsWhole
  <1>6. ASSUME NEW i \in 1 .. 1 + m
        PROVE  lines[i] # None /\ lines[i].of = d /\ lines[i].row = i - 1
    <2>1. CASE i = 1
      <3>1. PICK h \in Lines : h = lines[1] /\ h.of = d /\ h.row = 0
        BY <1>5
      <3>2. lines[i] = h /\ i - 1 = 0 /\ h # None
        BY <2>1, <3>1, NoneIs
      <3> QED BY <3>1, <3>2
    <2>2. CASE i # 1
      <3>1. PICK k \in 1 .. m : i = k + 1 /\ k = i - 1
        <4>1. i - 1 \in 1 .. m /\ i = (i - 1) + 1
          BY <2>2
        <4> QED BY <4>1
      <3>2. IsRow(lines[i], d, k, lines[1].cells)
        BY <1>5, <3>1
      <3> QED BY <3>1, <3>2, NoneIs DEF IsRow
    <2> QED BY <2>1, <2>2
  <1>7. ASSUME NEW k \in 1 .. m, NEW columns, NEW cells,
               columns = lines[1].cells, cells = lines[k + 1].cells
        PROVE  /\ \A c \in Columns : Has(Items[d][k], c) =>
                    \E j \in DOMAIN cells : columns[j] = c
               /\ \A j \in DOMAIN cells :
                    /\ Has(Items[d][cells[j]], columns[j]) /\ cells[j] =< k
                    /\ \A n \in cells[j] + 1 .. k : ~Has(Items[d][n], columns[j])
    <2>1. PICK l \in Lines : l = lines[k + 1] /\ CellsFit(l.cells, columns, d, k)
      BY <1>5, <1>7 DEF IsRow
    <2>2. cells \in Seq(Columns \union Nat \union {None})
      BY <1>7, <2>1 DEF Lines
    <2>3. DOMAIN cells = 1 .. Len(cells)
      BY <2>2
    <2>4. CellsFit(cells, columns, d, k)
      BY <1>7, <2>1
    <2> QED BY <2>3, <2>4 DEF CellsFit
  <1>8. Len(lines) - 1 = m
    BY <1>5
  <1>9. /\ Len(o.lines) = 1 + Len(Items[o.download])
        /\ \A i \in DOMAIN o.lines :
             /\ o.lines[i] # None /\ o.lines[i].of = o.download
             /\ o.lines[i].row = i - 1
    BY <1>1, <1>2, <1>3, <1>5, <1>6
  <1>10. ASSUME NEW k \in 1 .. Len(o.lines) - 1
         PROVE  LET columns == o.lines[1].cells
                    cells   == o.lines[k + 1].cells
                    item(n) == Items[o.download][n]
                IN  /\ \A c \in Columns : Has(item(k), c) =>
                         \E j \in DOMAIN cells : columns[j] = c
                    /\ \A j \in DOMAIN cells :
                         /\ Has(item(cells[j]), columns[j]) /\ cells[j] =< k
                         /\ \A n \in cells[j] + 1 .. k : ~Has(item(n), columns[j])
    <2>1. k \in 1 .. m
      BY <1>2, <1>8
    <2>2. PICK columns : columns = lines[1].cells
      OBVIOUS
    <2>3. PICK cells : cells = lines[k + 1].cells
      OBVIOUS
    <2>4. /\ \A c \in Columns : Has(Items[d][k], c) =>
               \E j \in DOMAIN cells : columns[j] = c
          /\ \A j \in DOMAIN cells :
               /\ Has(Items[d][cells[j]], columns[j]) /\ cells[j] =< k
               /\ \A n \in cells[j] + 1 .. k : ~Has(Items[d][n], columns[j])
      BY <1>7, <2>1, <2>2, <2>3
    <2>5. columns = o.lines[1].cells /\ cells = o.lines[k + 1].cells
      BY <1>2, <2>2, <2>3
    <2> QED BY <1>1, <2>4, <2>5
  <1> QED BY <1>9, <1>10

------------------------------------------------------------------------------
(*                     Failures and what is left                           *)

(* A download that is rejected, or a run that fails, by a step of d.       *)
LEMMA RejectedHasCause ==
  ASSUME TypeOK, PcInv, LinksInv, FilesInv, NEW d \in Downloads, Acts(d),
         writer'[d].pc = "rejected"
  PROVE  \/ \E k \in DOMAIN Items[d] : Items[d][k] = Broken
         \/ RunOf(d) \in faulted'
         \/ d \in clashed'
  <1> SUFFICES ASSUME d \notin clashed'
               PROVE  \/ \E k \in DOMAIN Items[d] : Items[d][k] = Broken
                      \/ RunOf(d) \in faulted'
    OBVIOUS
  <1>1. Alone(d)
    BY ActsActed DEF Acted, Alone
  <1>2. FilesFit(d, writer[d], path[DataOf(d)], path[FinalOf(d)], inode)
    BY <1>1 DEF FilesInv
  <1>3. CASE Open(d)
    BY <1>3, OpenTyped
  <1>4. CASE WriteRow(d)
    <2>1. writer'[d].pc = writer[d].pc
      BY <1>4, WriteRowTyped
    <2> QED BY <1>4, <2>1 DEF WriteRow
  <1>5. CASE RowFails(d)
    <2>1. PICK k \in Nat : k = writer[d].written + 1
      BY WriterFields
    <2>2. k =< Len(Items[d]) /\ Items[d][k] = Broken
      BY <1>5, <2>1 DEF RowFails
    <2>3. k \in DOMAIN Items[d]
      <3>1. k >= 1
        BY <2>1, WriterFields
      <3> QED BY <2>2, <3>1, DownloadIs
    <2> QED BY <2>2, <2>3
  <1>6. CASE FetchFails(d)
    BY <1>6 DEF FetchFails
  <1>7. CASE BeginCopy(d)
    BY <1>2, <1>7, OwnBeginCopy
  <1>8. CASE Copy(d)
    BY <1>8, ToTyped DEF Copy, WriterPcs
  <1>9. CASE Unlink(d)
    BY <1>2, <1>9, OwnUnlink
  <1>10. CASE Store(d)
    BY <1>10, ToTyped DEF Store, WriterPcs
  <1>11. CASE DeleteLocalFile(d)
    BY <1>11, ToTyped DEF DeleteLocalFile, WriterPcs
  <1> QED BY <1>3, <1>4, <1>5, <1>6, <1>7, <1>8, <1>9, <1>10, <1>11 DEF Acts, Step

(* Each step keeps that a failure has its cause.                           *)
LEMMA FailureStep ==
  ASSUME TypeOK, PcInv, LinksInv, FilesInv, FailureHasCause, Next
  PROVE  FailureHasCause'
  <1>1. clashed \subseteq clashed' /\ faulted \subseteq faulted'
    BY NextActs, ActsActed, RunActed DEF Begin, Acted
  <1>2. ASSUME NEW e \in Downloads, writer'[e].pc = "rejected"
        PROVE  \/ \E k \in DOMAIN Items[e] : Items[e][k] = Broken
               \/ RunOf(e) \in faulted'
               \/ e \in clashed'
    <2>1. CASE writer[e].pc = "rejected"
      BY <1>1, <2>1 DEF FailureHasCause
    <2>2. CASE writer[e].pc # "rejected"
      <3>1. PICK d \in Downloads : Acts(d)
        <4>1. writer' # writer
          BY <1>2, <2>2
        <4> QED BY <4>1, NextActs, RunActed DEF Begin
      <3>2. e = d
        BY <1>2, <2>2, <3>1, ActsActed DEF Acted, OthersStay
      <3> QED BY <1>2, <3>1, <3>2, RejectedHasCause
    <2> QED BY <2>1, <2>2
  <1>3. ASSUME NEW r \in Runs, run'[r] = "failed"
        PROVE  r \in faulted' \/ \E d \in clashed' : RunOf(d) = r
    <2>1. CASE run[r] = "failed"
      BY <1>1, <2>1 DEF FailureHasCause
    <2>2. CASE run[r] # "failed"
      <3>1. PICK d \in Downloads : RunFails(d) /\ RunOf(d) = r
        <4>1. \A d \in Downloads : ~Acts(d)
          BY <1>3, <2>2, ActsActed DEF Acted
        <4>2. ~ \E s \in Runs : Begin(s) \/ AllSettled(s) \/ End(s)
          BY <1>3, <2>2 DEF Begin, AllSettled, End, TypeOK
        <4>3. ~Crash
          BY <1>3, <2>2 DEF Crash, TypeOK
        <4>4. PICK d \in Downloads : RunFails(d)
          BY <4>1, <4>2, <4>3, NextActs DEF RunActs
        <4>5. RunOf(d) = r
          BY <1>3, <2>2, <4>4 DEF RunFails, TypeOK
        <4> QED BY <4>4, <4>5
      <3>2. CASE path[FinalOf(d)] = None
        <4>1. run[RunOf(d)] = "storing" /\ writer[d].pc \in {"fulfilled", "stored"}
          BY <3>1 DEF RunFails
        <4>2. d \in clashed
          BY <3>2, <4>1 DEF FilesInv, FilesFit, Alone, Busy, InProgress
        <4> QED BY <1>1, <3>1, <4>2
      <3>3. CASE path[FinalOf(d)] # None
        BY <3>1, <3>3 DEF RunFails
      <3> QED BY <3>2, <3>3
    <2> QED BY <2>1, <2>2
  <1> QED BY <1>2, <1>3 DEF FailureHasCause

(* A download that accounts for a file: it has yet to delete it, or does   *)
(* not because it was rejected or its run ended early.                     *)
Owns(d, p) ==
  \/ /\ p = DataOf(d) /\ InProgress(RunOf(d))
     /\ writer[d].pc \in {"writing", "copying", "copied"}
  \/ /\ p = FinalOf(d) /\ InProgress(RunOf(d))
     /\ writer[d].pc \in {"copying", "copied", "fulfilled", "stored"}
  \/ /\ p \in {DataOf(d), FinalOf(d)}
     /\ writer[d].pc = "rejected" \/ run[RunOf(d)] \in {"failed", "killed"}

(* Every file in the local folder has a download that accounts for it.     *)
OwnedInv == \A p \in Paths : path[p] # None => \E d \in Downloads : Owns(d, p)

(* A run that begins, goes on or ends early leaves no file unaccounted for.*)
LEMMA OwnedByRun ==
  ASSUME TypeOK, PcInv, NEW p, NEW e \in Downloads, Owns(e, p),
         RunActs \/ \E r \in Runs : Begin(r)
  PROVE  Owns(e, p)'
  <1>1. UNCHANGED <<fileName, writer>>
    BY RunActed DEF Begin
  <1>2. DataOf(e)' = DataOf(e) /\ FinalOf(e)' = FinalOf(e)
    BY <1>1 DEF DataOf, FinalOf, NameOf
  <1>3. ASSUME NEW r \in Runs, Begin(r) \/ AllSettled(r) PROVE Owns(e, p)'
    <2>1. /\ InProgress(RunOf(e)) => InProgress(RunOf(e))'
          /\ run[RunOf(e)] \in {"failed", "killed"} => run'[RunOf(e)] \in {"failed", "killed"}
      BY <1>3, DownloadIs DEF Begin, AllSettled, TypeOK, InProgress
    <2> QED BY <1>1, <1>2, <2>1 DEF Owns
  <1>4. ASSUME NEW r \in Runs, End(r) PROVE Owns(e, p)'
    <2>1. CASE RunOf(e) = r
      <3>1. writer[e].pc \notin {"fulfilled", "stored"} /\ run[r] = "storing"
        BY <1>4, <2>1 DEF End, With, Of
      <3>2. writer[e].pc = "rejected"
        BY <2>1, <3>1 DEF Owns, PcInv
      <3>3. p \in {DataOf(e), FinalOf(e)}
        BY DEF Owns
      <3> QED BY <1>1, <1>2, <3>2, <3>3 DEF Owns
    <2>2. CASE RunOf(e) # r
      <3>1. run'[RunOf(e)] = run[RunOf(e)]
        BY <1>4, <2>2, DownloadIs DEF End, TypeOK
      <3> QED BY <1>1, <1>2, <3>1 DEF Owns, InProgress
    <2> QED BY <2>1, <2>2
  <1>5. ASSUME NEW d \in Downloads, RunFails(d) PROVE Owns(e, p)'
    <2>1. run'[RunOf(e)] = run[RunOf(e)] \/ run'[RunOf(e)] = "failed"
      BY <1>5, DownloadIs DEF RunFails, TypeOK
    <2>2. p \in {DataOf(e), FinalOf(e)}
      BY DEF Owns
    <2> QED BY <1>1, <1>2, <2>1, <2>2 DEF Owns, InProgress
  <1>6. CASE Crash
    <2>1. run'[RunOf(e)] = run[RunOf(e)] \/ run'[RunOf(e)] = "killed"
      BY <1>6, DownloadIs DEF Crash, TypeOK
    <2>2. p \in {DataOf(e), FinalOf(e)}
      BY DEF Owns
    <2> QED BY <1>1, <1>2, <2>1, <2>2 DEF Owns, InProgress
  <1> QED BY <1>3, <1>4, <1>5, <1>6 DEF RunActs

(* A file that a download has, it has after its step, or has deleted.      *)
LEMMA OwnedByOwn ==
  ASSUME TypeOK, NEW p \in Paths, NEW d \in Downloads, Acts(d),
         path'[p] # None, path[p] # None => Owns(d, p)
  PROVE  Owns(d, p)'
  <1>1. Acted(d)
    BY ActsActed
  <1>2. DataOf(d)' = DataOf(d) /\ FinalOf(d)' = FinalOf(d) /\ run' = run
        /\ run[RunOf(d)] \in {"fetching", "storing"} /\ InProgress(RunOf(d))'
        /\ writer[d].pc # "rejected"
    BY <1>1 DEF Acted, DataOf, FinalOf, NameOf, Busy, InProgress
  <1>3. path[p] # None =>
          \/ p = DataOf(d) /\ writer[d].pc \in {"writing", "copying", "copied"}
          \/ p = FinalOf(d) /\ writer[d].pc \in {"copying", "copied", "fulfilled", "stored"}
    BY <1>2 DEF Owns
  <1>4. DataOf(d) \in Paths /\ FinalOf(d) \in Paths
    BY PathsOf
  <1> SUFFICES \/ p = DataOf(d) /\ writer'[d].pc \in {"writing", "copying", "copied"}
               \/ p = FinalOf(d) /\ writer'[d].pc \in {"copying", "copied", "fulfilled", "stored"}
               \/ p \in {DataOf(d), FinalOf(d)} /\ writer'[d].pc = "rejected"
    BY <1>2 DEF Owns
  <1>5. CASE Open(d)
    <2>1. PICK i : path' = [path EXCEPT ![DataOf(d)] = i] /\ writer'[d].pc = "writing"
      BY <1>5, OpenTyped
    <2>2. writer[d].pc = "new"
      BY <1>5 DEF Open
    <2>3. p = DataOf(d)
      BY <1>3, <1>4, <2>1, <2>2 DEF TypeOK
    <2> QED BY <2>1, <2>3
  <1>6. CASE WriteRow(d)
    <2>1. writer'[d].pc = writer[d].pc
      BY <1>6, WriteRowTyped
    <2> QED BY <1>3, <1>6, <2>1 DEF WriteRow
  <1>7. CASE RowFails(d) \/ FetchFails(d)
    <2>1. writer'[d].pc = "rejected" /\ path' = path
      BY <1>7, ToTyped DEF RowFails, FetchFails, WriterPcs
    <2> QED BY <1>3, <2>1
  <1>8. CASE BeginCopy(d)
    <2>1. PICK i : /\ path' = [path EXCEPT ![FinalOf(d)] = i]
                   /\ writer'[d].pc \in {"rejected", "copying"}
      BY <1>8, BeginCopyTyped
    <2>2. writer[d].pc = "writing"
      BY <1>8 DEF BeginCopy
    <2>3. p \in {DataOf(d), FinalOf(d)}
      BY <1>3, <1>4, <2>1, <2>2 DEF TypeOK
    <2> QED BY <2>1, <2>3
  <1>9. CASE Copy(d)
    <2>1. writer'[d].pc = "copied" /\ path' = path /\ writer[d].pc = "copying"
      BY <1>9, ToTyped DEF Copy, WriterPcs
    <2> QED BY <1>3, <2>1
  <1>10. CASE Unlink(d)
    <2>1. PICK pc \in {"rejected", "fulfilled"} : To(d, pc)
      BY <1>10 DEF Unlink
    <2>2. writer'[d].pc \in {"rejected", "fulfilled"}
      BY <2>1, ToTyped DEF WriterPcs
    <2>3. writer[d].pc = "copied" /\ path' = [path EXCEPT ![DataOf(d)] = None]
      BY <1>10 DEF Unlink
    <2>4. p # DataOf(d) /\ path[p] # None
      BY <1>4, <2>3 DEF TypeOK
    <2> QED BY <1>3, <2>2, <2>3, <2>4
  <1>11. CASE Store(d)
    <2>1. writer'[d].pc = "stored" /\ path' = path /\ writer[d].pc = "fulfilled"
      BY <1>11, ToTyped DEF Store, WriterPcs
    <2> QED BY <1>3, <2>1
  <1>12. CASE DeleteLocalFile(d)
    <2>1. writer[d].pc = "stored" /\ path' = [path EXCEPT ![FinalOf(d)] = None]
      BY <1>12 DEF DeleteLocalFile
    <2>2. p # FinalOf(d) /\ path[p] # None
      BY <1>4, <2>1 DEF TypeOK
    <2> QED BY <1>3, <2>1, <2>2
  <1> QED BY <1>5, <1>6, <1>7, <1>8, <1>9, <1>10, <1>11, <1>12 DEF Acts, Step

(* Each step keeps that a file has a download that accounts for it.        *)
LEMMA OwnedStep ==
  ASSUME TypeOK, PcInv, LinksInv, OwnedInv, Next
  PROVE  OwnedInv'
  <1> SUFFICES ASSUME NEW p \in Paths, path'[p] # None
               PROVE  \E e \in Downloads : Owns(e, p)'
    BY DEF OwnedInv
  <1>1. CASE RunActs \/ \E r \in Runs : Begin(r)
    <2>1. path[p] # None
      BY <1>1, RunActed DEF Begin
    <2>2. PICK e \in Downloads : Owns(e, p)
      BY <2>1 DEF OwnedInv
    <2> QED BY <1>1, <2>2, OwnedByRun
  <1>2. ASSUME NEW d \in Downloads, Acts(d)
        PROVE  \E e \in Downloads : Owns(e, p)'
    <2>1. CASE path[p] # None => Owns(d, p)
      BY <1>2, <2>1, OwnedByOwn
    <2>2. CASE path[p] # None /\ ~Owns(d, p)
      <3>1. PICK e \in Downloads : Owns(e, p)
        BY <2>2 DEF OwnedInv
      <3>2. e # d
        BY <2>2, <3>1
      <3>3. Acted(d)
        BY <1>2, ActsActed
      <3>4. Owns(e, p)'
        BY <3>1, <3>2, <3>3 DEF Acted, OthersStay, Owns, DataOf, FinalOf, NameOf, InProgress
      <3> QED BY <3>4
    <2> QED BY <2>1, <2>2
  <1> QED BY <1>1, <1>2, NextActs

(* When no run is in progress, the owners are those that left their files. *)
LEMMA OwnedIsLeft ==
  ASSUME OwnedInv
  PROVE  LeftoverHasCause
  <1> SUFFICES ASSUME \A r \in Runs : ~InProgress(r), NEW p \in Paths, path[p] # None
               PROVE  \E d \in Downloads :
                        /\ p \in {DataOf(d), FinalOf(d)}
                        /\ \/ writer[d].pc = "rejected"
                           \/ run[RunOf(d)] \in {"failed", "killed"}
    BY DEF LeftoverHasCause
  <1>1. PICK d \in Downloads : Owns(d, p)
    BY DEF OwnedInv
  <1> QED BY <1>1, DownloadIs DEF Owns

------------------------------------------------------------------------------
(*                        The theorems                                     *)

Inv == /\ TypeOK /\ PcInv /\ AloneInv /\ LinksInv /\ DataInv /\ FilesInv
       /\ StoredInv /\ FailureHasCause /\ OwnedInv

(* All of it holds at the start, and each step keeps it.                   *)
LEMMA InitInv ==
  ASSUME Init
  PROVE  Inv
  <1>1. TypeOK
    BY InitTyped
  <1>2. \A d \in Downloads : /\ writer[d] = NewWriter /\ writer[d].pc = "new"
                             /\ writer[d].written = 0 /\ writer[d].columns = <<>>
                             /\ run[RunOf(d)] = "new"
    BY DownloadIs DEF Init, NewWriter
  <1>3. PcInv
    BY <1>2 DEF PcInv
  <1>4. \A d \in Downloads : ~Busy(d)
    BY <1>2 DEF Busy, InProgress
  <1>5. AloneInv /\ FilesInv
    BY <1>4 DEF AloneInv, FilesInv, Alone
  <1>6. \A p \in Paths : path[p] = None
    BY DEF Init
  <1>7. LinksInv /\ OwnedInv
    BY <1>2, <1>6 DEF LinksInv, OwnedInv
  <1>8. DataInv
    <2>1. \A c : ~Has(<<>>, c)
      BY DEF Has
    <2>2. \A data, d : DataFits(<<>>, data, d, 0)
      BY <2>1 DEF DataFits
    <2>3. \A d \in Downloads : 0 =< Len(Items[d])
      <3> TAKE d \in Downloads
      <3>1. Len(Items[d]) \in Nat
        BY DownloadIs
      <3> QED BY <3>1
    <2> QED BY <1>2, <2>2, <2>3 DEF DataInv
  <1>9. StoredInv
    BY DEF Init, StoredInv
  <1>10. FailureHasCause
    BY <1>2 DEF Init, FailureHasCause
  <1> QED BY <1>1, <1>3, <1>5, <1>7, <1>8, <1>9, <1>10 DEF Inv

LEMMA InvStep ==
  ASSUME Inv, [Next]_vars
  PROVE  Inv'
  <1>1. CASE Next
    BY <1>1, NextTyped, PcStep, AloneStep, LinksStep, DataStep, FilesStep, StoredStep,
       FailureStep, OwnedStep DEF Inv
  <1>2. CASE UNCHANGED vars
    <2>1. \A d \in Downloads : DataOf(d)' = DataOf(d) /\ FinalOf(d)' = FinalOf(d)
      BY <1>2 DEF vars, DataOf, FinalOf, NameOf
    <2>2. PcInv' /\ AloneInv' /\ LinksInv'
      BY <1>2 DEF Inv, vars, PcInv, AloneInv, Alone, Busy, InProgress, NameOf, LinksInv, IsFor
    <2>3. DataInv' /\ FilesInv' /\ StoredInv'
      BY <1>2, <2>1 DEF Inv, vars, DataInv, FilesInv, StoredInv, Alone, Busy, InProgress
    <2>4. FailureHasCause' /\ OwnedInv'
      BY <1>2, <2>1 DEF Inv, vars, FailureHasCause, OwnedInv, Owns, InProgress
    <2> QED BY <1>2, <2>2, <2>3, <2>4, TypeStable DEF Inv
  <1> QED BY <1>1, <1>2

(* The inductive invariant: the types, who is alone, what the paths lead   *)
(* to, and what the files of those that are alone hold.                    *)
THEOREM FilesKept == Spec => []Inv
  <1>1. Init => Inv
    BY InitInv
  <1>2. Inv /\ [Next]_vars => Inv'
    BY InvStep
  <1> QED BY <1>1, <1>2, PTL DEF Spec

(* What is stored for a download is its header and its rows in order, in   *)
(* whatever order the runs open, copy, unlink, store and delete their      *)
(* files, unless another writer of the same name was at work with it.      *)
THEOREM StoredOwn == Spec => []StoredIsOwnFile
  <1>1. Inv => StoredIsOwnFile
    BY StoredFits DEF Inv
  <1> QED BY <1>1, FilesKept, PTL

(* The cells of every row that is stored stand under their columns, for    *)
(* any sequence of measurements and any columns.                           *)
THEOREM StoredCells == Spec => []CellsUnderColumns
  <1>1. Inv => CellsUnderColumns
    BY StoredFits DEF Inv
  <1> QED BY <1>1, FilesKept, PTL

(* A download is rejected, and a run fails, only for a cause.              *)
THEOREM Failures == Spec => []FailureHasCause
  <1>1. Inv => FailureHasCause
    BY DEF Inv
  <1> QED BY <1>1, FilesKept, PTL

(* A file that is left in the local folder has a download to blame.        *)
THEOREM Leftovers == Spec => []LeftoverHasCause
  <1>1. Inv => LeftoverHasCause
    BY OwnedIsLeft DEF Inv
  <1> QED BY <1>1, FilesKept, PTL
=============================================================================
