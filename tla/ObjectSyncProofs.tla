--------------------------- MODULE ObjectSyncProofs ---------------------------
(***************************************************************************)
(* Proofs about PagedDownload and ObjectSync, for any listing, page size   *)
(* and bounds: what a download that completes, and a sync that is done,    *)
(* say about a listing that changes while it is read.                      *)
(***************************************************************************)
EXTENDS ObjectSync, SequenceTheorems, FiniteSetTheorems, WellFoundedInduction, TLAPS

------------------------------------------------------------------------------
(*                     Sequences, place by place                           *)

IsCut(t, s, m, n) ==
  /\ t = SubSeq(s, m + 1, m + n)
  /\ Len(t) = n
  /\ \A k \in 1..n : t[k] = s[m + k]

IsConcat(u, s, t) ==
  /\ u = s \o t
  /\ Len(u) = Len(s) + Len(t)
  /\ \A k \in 1..Len(s) : u[k] = s[k]
  /\ \A k \in 1..Len(t) : u[Len(s) + k] = t[k]

IsInserted(t, s, m, x) ==
  /\ t = InsertAt(s, m + 1, x)
  /\ Len(t) = Len(s) + 1
  /\ \A k \in 1..m : t[k] = s[k]
  /\ t[m + 1] = x
  /\ \A k \in m + 1..Len(s) : t[k + 1] = s[k]

IsRemoved(t, s, m) ==
  /\ t = RemoveAt(s, m + 1)
  /\ Len(t) + 1 = Len(s)
  /\ \A k \in 1..m : t[k] = s[k]
  /\ \A k \in m + 1..Len(t) : t[k] = s[k + 1]

IsSplit(u, v, s, m, k) ==
  /\ u = SubSeq(s, 1, m)
  /\ Len(u) = m
  /\ \A j \in 1..m : u[j] = s[j]
  /\ v = SubSeq(s, m + k + 1, Len(s))
  /\ m + k + Len(v) = Len(s)
  /\ \A j \in 1..Len(v) : v[j] = s[m + k + j]

(* The places of a part of a sequence.                                     *)
LEMMA SubSeqFacts ==
  ASSUME NEW S, NEW s \in Seq(S), NEW m \in Nat, NEW n \in Nat, m + n =< Len(s)
  PROVE  \E t \in Seq(S) : IsCut(t, s, m, n)
  <1>1. Len(s) \in Nat /\ \A k \in 1..Len(s) : s[k] \in S
    BY LenProperties, ElementOfSeq
  <1>2. \A k \in m + 1..m + n : s[k] \in S
    BY <1>1
  <1>3. m + 1 \in Int /\ m + n \in Int
    OBVIOUS
  <1>4. /\ SubSeq(s, m + 1, m + n) \in Seq(S)
        /\ Len(SubSeq(s, m + 1, m + n)) =
             IF m + 1 <= m + n THEN m + n - (m + 1) + 1 ELSE 0
        /\ \A k \in 1..m + n - (m + 1) + 1 :
             SubSeq(s, m + 1, m + n)[k] = s[m + 1 + k - 1]
    BY ONLY <1>2, <1>3, SubSeqProperties
  <1>5. PICK t \in Seq(S) : t = SubSeq(s, m + 1, m + n)
    BY <1>4
  <1>6. Len(t) = n
    BY ONLY <1>4, <1>5, m \in Nat, n \in Nat
  <1>7. ASSUME NEW k \in 1..n PROVE t[k] = s[m + k]
    <2>1. m + n - (m + 1) + 1 = n /\ m + 1 + k - 1 = m + k
      OBVIOUS
    <2>2. t[k] = s[m + 1 + k - 1]
      BY ONLY <1>4, <1>5, <2>1, k \in 1..n
    <2> QED BY ONLY <2>1, <2>2
  <1> QED BY <1>5, <1>6, <1>7 DEF IsCut

(* The places of two sequences in a row.                                   *)
LEMMA ConcatFacts ==
  ASSUME NEW S, NEW s \in Seq(S), NEW t \in Seq(S)
  PROVE  \E u \in Seq(S) : IsConcat(u, s, t)
  <1>1. /\ s \o t \in Seq(S)
        /\ Len(s \o t) = Len(s) + Len(t)
        /\ \A i \in 1 .. Len(s) + Len(t) : (s \o t)[i] =
             IF i <= Len(s) THEN s[i] ELSE t[i - Len(s)]
    BY ConcatProperties
  <1>2. PICK u \in Seq(S) : u = s \o t
    BY <1>1
  <1>3. PICK p \in Nat, q \in Nat : p = Len(s) /\ q = Len(t)
    BY LenProperties
  <1>4. \A i \in 1..p + q : u[i] = IF i <= p THEN s[i] ELSE t[i - p]
    BY <1>1, <1>2, <1>3
  <1>5. \A k \in 1..p : u[k] = s[k]
    BY ONLY <1>4, p \in Nat, q \in Nat
  <1>6. ASSUME NEW k \in 1..q PROVE u[p + k] = t[k]
    <2>1. p + k \in 1..p + q /\ ~(p + k <= p) /\ p + k - p = k
      OBVIOUS
    <2> QED BY ONLY <1>4, <2>1
  <1> QED BY <1>1, <1>2, <1>3, <1>5, <1>6 DEF IsConcat

(* The head and the tail of a sequence, by their lengths.                  *)
LEMMA SplitFacts ==
  ASSUME NEW S, NEW s \in Seq(S), NEW m \in Nat, NEW k \in Nat, m + k =< Len(s)
  PROVE  \E u, v \in Seq(S) : IsSplit(u, v, s, m, k)
  <1>1. PICK l \in Nat : l = Len(s) /\ m + k =< l
    BY LenProperties
  <1>2. PICK n \in Nat : l = m + k + n
    <2>1. l - (m + k) \in Nat /\ l = m + k + (l - (m + k))
      BY <1>1
    <2> QED BY <2>1
  <1>3. PICK u \in Seq(S) : IsCut(u, s, 0, m)
    <2>1. 0 \in Nat /\ 0 + m =< Len(s)
      BY <1>1
    <2> QED BY <2>1, SubSeqFacts
  <1>4. u = SubSeq(s, 1, m) /\ Len(u) = m /\ \A j \in 1..m : u[j] = s[j]
    <2>1. 0 + 1 = 1 /\ 0 + m = m /\ \A j \in 1..m : 0 + j = j
      OBVIOUS
    <2>2. u = SubSeq(s, 0 + 1, 0 + m) /\ Len(u) = m /\ \A j \in 1..m : u[j] = s[0 + j]
      BY <1>3 DEF IsCut
    <2> QED BY <2>1, <2>2
  <1>5. PICK v \in Seq(S) : IsCut(v, s, m + k, n)
    <2>1. m + k \in Nat /\ m + k + n =< Len(s)
      BY <1>1, <1>2
    <2> QED BY <2>1, SubSeqFacts
  <1>6. /\ v = SubSeq(s, m + k + 1, l) /\ Len(v) = n
        /\ \A j \in 1..n : v[j] = s[m + k + j]
    BY <1>2, <1>5 DEF IsCut
  <1>7. v = SubSeq(s, m + k + 1, Len(s)) /\ m + k + Len(v) = Len(s)
    BY <1>1, <1>2, <1>6
  <1> QED BY <1>4, <1>6, <1>7 DEF IsSplit

(* An item that comes in leaves the others in their order.                 *)
LEMMA InsertFacts ==
  ASSUME NEW S, NEW s \in Seq(S), NEW m \in Nat, m =< Len(s), NEW x \in S
  PROVE  \E t \in Seq(S) : IsInserted(t, s, m, x)
  <1>1. PICK u, v \in Seq(S) : IsSplit(u, v, s, m, 0)
    <2>1. 0 \in Nat /\ m + 0 =< Len(s)
      BY LenProperties
    <2> QED BY <2>1, SplitFacts
  <1>2. u = SubSeq(s, 1, m) /\ Len(u) = m /\ \A j \in 1..m : u[j] = s[j]
    BY <1>1 DEF IsSplit
  <1>3. PICK n \in Nat : n = Len(v)
    BY LenProperties
  <1>4. /\ Len(s) = m + n
        /\ v = SubSeq(s, m + 1, Len(s))
        /\ \A j \in 1..n : v[j] = s[m + j]
    <2>1. m + 0 = m
      OBVIOUS
    <2>2. /\ m + 0 + n = Len(s)
          /\ v = SubSeq(s, m + 0 + 1, Len(s))
          /\ \A j \in 1..n : v[j] = s[m + 0 + j]
      BY ONLY <1>1, <1>3 DEF IsSplit
    <2> QED BY ONLY <2>1, <2>2
  <1>5. PICK w \in Seq(S) : w = <<x>> /\ Len(w) = 1 /\ w[1] = x
    <2>1. <<x>> \in Seq(S) /\ Len(<<x>>) = 1 /\ <<x>>[1] = x
      OBVIOUS
    <2> QED BY <2>1
  <1>6. PICK uw \in Seq(S) : IsConcat(uw, u, w)
    BY ConcatFacts
  <1>7. /\ uw = u \o w /\ Len(uw) = m + 1
        /\ \A k \in 1..m : uw[k] = s[k]
        /\ uw[m + 1] = x
    BY <1>2, <1>5, <1>6 DEF IsConcat
  <1>8. PICK t \in Seq(S) : IsConcat(t, uw, v)
    BY ConcatFacts
  <1>9. /\ t = uw \o v /\ Len(t) = m + 1 + n
        /\ \A k \in 1..m + 1 : t[k] = uw[k]
        /\ \A k \in 1..n : t[m + 1 + k] = v[k]
    BY <1>3, <1>7, <1>8 DEF IsConcat
  <1>10. InsertAt(s, m + 1, x) = t
    <2>1. m + 1 - 1 = m
      OBVIOUS
    <2>2. PICK i : i = m + 1
      OBVIOUS
    <2>3. InsertAt(s, i, x) = SubSeq(s, 1, i - 1) \o <<x>> \o SubSeq(s, i, Len(s))
      BY DEF InsertAt
    <2>4. i - 1 = m
      BY <2>1, <2>2
    <2>5. SubSeq(s, 1, i - 1) = u /\ <<x>> = w /\ SubSeq(s, i, Len(s)) = v
      BY ONLY <1>2, <1>4, <1>5, <2>2, <2>4
    <2>6. InsertAt(s, i, x) = u \o w \o v
      BY ONLY <2>3, <2>5
    <2>7. InsertAt(s, m + 1, x) = u \o w \o v
      BY ONLY <2>2, <2>6
    <2> QED BY ONLY <1>7, <1>9, <2>7, Zenon
  <1>11. ASSUME NEW k \in m + 1..Len(s) PROVE t[k + 1] = s[k]
    <2>1. PICK j \in 1..n : k = m + j /\ k + 1 = m + 1 + j
      <3>1. k - m \in 1..n /\ k = m + (k - m) /\ k + 1 = m + 1 + (k - m)
        BY <1>4
      <3> QED BY <3>1
    <2> QED BY ONLY <1>4, <1>9, <2>1
  <1>12. (\A k \in 1..m : t[k] = s[k]) /\ t[m + 1] = x
    <2>1. (\A k \in 1..m : k \in 1..m + 1) /\ m + 1 \in 1..m + 1
      OBVIOUS
    <2> QED BY ONLY <1>7, <1>9, <2>1
  <1>13. Len(t) = Len(s) + 1
    BY <1>4, <1>9
  <1> QED BY <1>10, <1>11, <1>12, <1>13 DEF IsInserted

(* What stands behind an item that is removed moves one place forward.     *)
LEMMA RemoveFacts ==
  ASSUME NEW S, NEW s \in Seq(S), NEW m \in Nat, m + 1 =< Len(s)
  PROVE  \E t \in Seq(S) : IsRemoved(t, s, m)
  <1>1. PICK u, v \in Seq(S) : IsSplit(u, v, s, m, 1)
    BY 1 \in Nat, SplitFacts
  <1>2. PICK n \in Nat : n = Len(v)
    BY LenProperties
  <1>3. /\ u = SubSeq(s, 1, m) /\ Len(u) = m
        /\ \A j \in 1..m : u[j] = s[j]
        /\ v = SubSeq(s, m + 1 + 1, Len(s))
        /\ m + 1 + n = Len(s)
        /\ \A j \in 1..n : v[j] = s[m + 1 + j]
    BY ONLY <1>1, <1>2 DEF IsSplit
  <1>4. PICK t \in Seq(S) : IsConcat(t, u, v)
    BY ConcatFacts
  <1>5. /\ t = u \o v /\ Len(t) = m + n
        /\ \A k \in 1..m : t[k] = u[k]
        /\ \A k \in 1..n : t[m + k] = v[k]
    BY <1>2, <1>3, <1>4 DEF IsConcat
  <1>6. RemoveAt(s, m + 1) = t
    <2>1. m + 1 - 1 = m
      OBVIOUS
    <2>2. PICK i : i = m + 1
      OBVIOUS
    <2>3. RemoveAt(s, i) = SubSeq(s, 1, i - 1) \o SubSeq(s, i + 1, Len(s))
      BY DEF RemoveAt
    <2>4. i - 1 = m
      BY <2>1, <2>2
    <2>5. SubSeq(s, 1, i - 1) = u /\ SubSeq(s, i + 1, Len(s)) = v
      BY ONLY <1>3, <2>2, <2>4
    <2>6. RemoveAt(s, i) = t
      BY ONLY <1>5, <2>3, <2>5
    <2> QED BY ONLY <2>2, <2>6
  <1>7. ASSUME NEW k \in m + 1..Len(t) PROVE t[k] = s[k + 1]
    <2>1. PICK j \in 1..n : k = m + j /\ k + 1 = m + 1 + j
      <3>1. k - m \in 1..n /\ k = m + (k - m) /\ k + 1 = m + 1 + (k - m)
        BY <1>5
      <3> QED BY <3>1
    <2> QED BY ONLY <1>3, <1>5, <2>1
  <1>8. \A k \in 1..m : t[k] = s[k]
    BY ONLY <1>3, <1>5
  <1>9. Len(t) + 1 = Len(s)
    <2>1. Len(t) = m + n
      BY <1>5
    <2>2. Len(s) = m + 1 + n
      BY <1>3
    <2>3. m + n + 1 = m + 1 + n
      OBVIOUS
    <2> QED BY ONLY <2>1, <2>2, <2>3
  <1> QED BY <1>6, <1>7, <1>8, <1>9 DEF IsRemoved

(* The items of a sequence, and of two in a row.                           *)
LEMMA ToSetFacts ==
  ASSUME NEW S, NEW s \in Seq(S)
  PROVE  /\ DOMAIN s = 1..Len(s) /\ Len(s) \in Nat
         /\ \A i \in DOMAIN s : s[i] \in S
         /\ \A x : x \in ToSet(s) <=> \E i \in DOMAIN s : s[i] = x
         /\ ToSet(s) \subseteq S
  <1>1. DOMAIN s = 1..Len(s) /\ Len(s) \in Nat /\ \A i \in DOMAIN s : s[i] \in S
    BY LenProperties, ElementOfSeq
  <1>2. \A x : x \in ToSet(s) <=> \E i \in DOMAIN s : s[i] = x
    BY DEF ToSet
  <1> QED BY <1>1, <1>2

NoTwice(s) == \A i, j \in DOMAIN s : s[i] = s[j] => i = j

LEMMA ConcatItems ==
  ASSUME NEW S, NEW s \in Seq(S), NEW t \in Seq(S)
  PROVE  /\ s \o t \in Seq(S)
         /\ ToSet(s \o t) = ToSet(s) \union ToSet(t)
         /\ Len(s \o t) = Len(s) + Len(t)
  <1>1. PICK u \in Seq(S) : IsConcat(u, s, t)
    BY ConcatFacts
  <1>2. PICK p \in Nat, q \in Nat : p = Len(s) /\ q = Len(t)
    BY LenProperties
  <1>3. /\ u = s \o t
        /\ \A k \in 1..p : u[k] = s[k]
        /\ \A k \in 1..q : u[p + k] = t[k]
    BY <1>1, <1>2 DEF IsConcat
  <1>4. DOMAIN s = 1..p /\ DOMAIN t = 1..q /\ DOMAIN u = 1..p + q
    BY <1>1, <1>2, LenProperties DEF IsConcat
  <1>5. ASSUME NEW i \in DOMAIN u
        PROVE  \/ i \in DOMAIN s /\ u[i] = s[i]
               \/ i - p \in DOMAIN t /\ u[i] = t[i - p] /\ i \in Int
    <2>1. CASE i =< p
      <3>1. i \in 1..p
        BY <1>4, <2>1
      <3> QED BY <1>3, <1>4, <3>1
    <2>2. CASE ~(i =< p)
      <3>1. i - p \in 1..q /\ p + (i - p) = i /\ i \in Int
        BY <1>4, <2>2
      <3> QED BY <1>3, <1>4, <3>1
    <2> QED BY <2>1, <2>2
  <1>6. ASSUME NEW x PROVE x \in ToSet(u) <=> x \in ToSet(s) \union ToSet(t)
    <2>1. ASSUME x \in ToSet(u) PROVE x \in ToSet(s) \union ToSet(t)
      BY <1>5, <2>1, ToSetFacts
    <2>2. ASSUME x \in ToSet(s) PROVE x \in ToSet(u)
      <3>1. PICK i \in 1..p : s[i] = x
        BY <1>4, <2>2, ToSetFacts
      <3>2. i \in DOMAIN u /\ u[i] = x
        BY <1>3, <1>4, <3>1
      <3> QED BY <3>2, ToSetFacts
    <2>3. ASSUME x \in ToSet(t) PROVE x \in ToSet(u)
      <3>1. PICK i \in 1..q : t[i] = x
        BY <1>4, <2>3, ToSetFacts
      <3>2. p + i \in DOMAIN u
        BY <1>4
      <3>3. u[p + i] = x
        BY <1>3, <3>1
      <3> QED BY <3>2, <3>3, ToSetFacts
    <2> QED BY <2>1, <2>2, <2>3
  <1>7. Len(u) = Len(s) + Len(t)
    BY <1>1 DEF IsConcat
  <1> QED BY <1>3, <1>6, <1>7, Zenon
------------------------------------------------------------------------------
(*                     The listing and its pages                           *)

(* The pages that are needed for a number of items are enough.             *)
LEMMA PagesEnough ==
  ASSUME NEW n \in Nat, NEW k \in Nat, (k + PageSize - 1) \div PageSize =< n
  PROVE  k =< n * PageSize
  <1>1. PICK q \in Int : q = (k + PageSize - 1) \div PageSize
    BY SizeAssumption
  <1>2. k + PageSize - 1 < (q + 1) * PageSize
    BY <1>1, SizeAssumption
  <1>3. (q + 1) * PageSize = q * PageSize + PageSize
    BY <1>1, SizeAssumption
  <1>4. q * PageSize =< n * PageSize
    BY <1>1, SizeAssumption
  <1> QED BY <1>1, <1>2, <1>3, <1>4, SizeAssumption

(* p is a page of what is listed behind a place.                           *)
IsPageBehind(p, start) ==
  /\ p \in Page
  /\ \A k \in DOMAIN p.data : k =< PageSize /\ start + k \in DOMAIN listing
                              /\ p.data[k] = listing[start + k]
  /\ \A k \in 1..PageSize : start + k \in DOMAIN listing => k \in DOMAIN p.data
  /\ p.totalPages =< p.number => Len(listing) =< start + PageSize

(* The items of a page are those listed at its places.                     *)
LEMMA PageFacts ==
  ASSUME listing \in Seq(Items), NEW n \in Nat, NEW start \in Nat,
         start = n * PageSize
  PROVE  /\ IsPageBehind(PageAt(n + 1), start)
         /\ PageAt(n + 1).number = n + 1
         /\ (n + 1) * PageSize = start + PageSize
  <1>1. PICK l \in Nat : l = Len(listing) /\ DOMAIN listing = 1..l
    BY LenProperties
  <1>2. PICK size \in Nat \ {0} : size = PageSize
    BY SizeAssumption
  <1>3. (n + 1) * size = start + size
    BY <1>2
  <1>4. PICK total \in Nat : /\ total = (l + size - 1) \div size
                             /\ total =< n + 1 => l =< start + size
    <2>1. (l + size - 1) \div size \in Nat
      OBVIOUS
    <2>2. (l + size - 1) \div size =< n + 1 => l =< (n + 1) * size
      BY <1>2, PagesEnough
    <2> QED BY <1>3, <2>1, <2>2
  <1>5. PICK m \in Nat : /\ m = IF start + size < l THEN size
                                ELSE IF start < l THEN l - start ELSE 0
                         /\ m =< size
                         /\ m > 0 => start + m =< l
                         /\ \A k \in 1..size : start + k =< l => k =< m
    <2>1. CASE start + size < l
      BY <2>1
    <2>2. CASE ~(start + size < l) /\ start < l
      <3>1. l - start \in Nat
        BY <2>2
      <3> QED BY <2>2, <3>1
    <2>3. CASE ~(start < l)
      BY <2>3
    <2> QED BY <2>1, <2>2, <2>3
  <1>6. PICK end \in Nat : end = IF start + size < l THEN start + size ELSE l
    OBVIOUS
  <1>7. PICK data \in Seq(Items) : data = SubSeq(listing, start + 1, end)
                                   /\ Len(data) = m
                                   /\ \A k \in 1..m : data[k] = listing[start + k]
    <2>1. CASE m > 0
      <3>1. end = start + m
        BY <1>5, <1>6, <2>1
      <3>2. start + m =< Len(listing)
        BY <1>1, <1>5, <2>1
      <3>3. PICK t \in Seq(Items) : IsCut(t, listing, start, m)
        BY <3>2, SubSeqFacts
      <3>4. t = SubSeq(listing, start + 1, end)
        BY ONLY <3>1, <3>3 DEF IsCut
      <3>5. Len(t) = m /\ \A k \in 1..m : t[k] = listing[start + k]
        BY ONLY <3>3 DEF IsCut
      <3> QED BY <3>4, <3>5, Zenon
    <2>2. CASE m = 0
      <3>1. end \in Int /\ start + 1 \in Int /\ end < start + 1
        BY <1>5, <1>6, <2>2
      <3>2. SubSeq(listing, start + 1, end) = <<>>
        BY ONLY <3>1, SubSeqEmpty
      <3>3. <<>> \in Seq(Items) /\ Len(<<>>) = 0
        OBVIOUS
      <3>4. \A k \in 1..m : FALSE
        BY <2>2
      <3> QED BY ONLY <2>2, <3>2, <3>3, <3>4, Zenon
    <2>3. m > 0 \/ m = 0
      OBVIOUS
    <2> QED BY ONLY <2>1, <2>2, <2>3, Zenon
  <1>8. PageAt(n + 1) = [number |-> n + 1, totalPages |-> total, data |-> data]
    <2>1. (n + 1) * size - size + 1 = start + 1
      BY <1>3
    <2> QED BY <1>1, <1>2, <1>3, <1>4, <1>6, <1>7, <2>1 DEF PageAt
  <1>9. PICK p \in Page : p = PageAt(n + 1) /\ p.number = n + 1 /\ p.totalPages = total
                          /\ p.data = data
    BY <1>8 DEF Page
  <1>10. DOMAIN data = 1..m
    BY <1>7, LenProperties
  <1>11. \A k \in DOMAIN data : k =< PageSize /\ start + k \in DOMAIN listing
                                 /\ data[k] = listing[start + k]
    <2>1. \A k \in 1..m : start + k \in 1..l /\ k =< size
      BY <1>5
    <2> QED BY <1>1, <1>2, <1>7, <1>10, <2>1
  <1>12. \A k \in 1..PageSize : start + k \in DOMAIN listing => k \in DOMAIN data
    <2>1. \A k \in 1..size : start + k \in 1..l => k \in 1..m
      BY <1>5
    <2> QED BY <1>1, <1>2, <1>10, <2>1
  <1>13. IsPageBehind(p, start)
    BY <1>1, <1>2, <1>4, <1>9, <1>11, <1>12 DEF IsPageBehind
  <1> QED BY <1>2, <1>3, <1>9, <1>13

(* What the server lists, it lists once, and nothing that was removed.     *)
Listed == NoTwice(listing) /\ ToSet(listing) \intersect gone = {}

(* What comes in pushes others back, what goes lets others come forward.   *)
OneMore(t, s, x) ==
  /\ Len(t) = Len(s) + 1
  /\ ToSet(t) = ToSet(s) \union {x}
  /\ \A k \in DOMAIN s : \E j \in DOMAIN t : j >= k /\ t[j] = s[k]
  /\ NoTwice(s) /\ x \notin ToSet(s) => NoTwice(t)

OneLess(t, s, i) ==
  /\ Len(t) + 1 = Len(s)
  /\ \A r \in Nat : \E y : \A k \in DOMAIN s : k > r =>
       s[k] = y \/ \E j \in DOMAIN t : j > r /\ t[j] = s[k]
  /\ \A j \in DOMAIN t : \E k \in DOMAIN s : k >= j /\ k # i /\ s[k] = t[j]
  /\ NoTwice(s) => NoTwice(t)

LEMMA InsertKeeps ==
  ASSUME NEW S, NEW s \in Seq(S), NEW i \in 1..Len(s) + 1, NEW x \in S
  PROVE  \E t \in Seq(S) : t = InsertAt(s, i, x) /\ OneMore(t, s, x)
  <1>1. PICK m \in Nat : i = m + 1 /\ m =< Len(s)
    <2>1. i - 1 \in Nat /\ i = i - 1 + 1 /\ i - 1 =< Len(s)
      BY LenProperties
    <2> QED BY <2>1
  <1>2. PICK t \in Seq(S) : IsInserted(t, s, m, x)
    BY <1>1, InsertFacts
  <1>3. PICK l \in Nat : l = Len(s) /\ DOMAIN s = 1..l /\ DOMAIN t = 1..l + 1
    BY <1>2, LenProperties DEF IsInserted
  <1>4. /\ t = InsertAt(s, i, x)
        /\ \A k \in 1..m : t[k] = s[k]
        /\ t[m + 1] = x
        /\ \A k \in m + 1..l : t[k + 1] = s[k]
    BY <1>1, <1>2, <1>3 DEF IsInserted
  <1>5. m =< l
    BY <1>1, <1>3
  <1>6. ASSUME NEW k \in DOMAIN s
        PROVE  \E j \in DOMAIN t : j >= k /\ t[j] = s[k]
    <2>1. CASE k =< m
      <3>1. k \in 1..m /\ k \in DOMAIN t /\ k >= k
        BY <1>3, <2>1
      <3> QED BY <1>4, <3>1
    <2>2. CASE ~(k =< m)
      <3>1. k \in m + 1..l /\ k + 1 \in DOMAIN t /\ k + 1 >= k
        BY <1>3, <2>2
      <3> QED BY <1>4, <3>1
    <2> QED BY <2>1, <2>2
  <1>7. ASSUME NEW j \in DOMAIN t
        PROVE  \/ j = m + 1 /\ t[j] = x
               \/ j \in 1..m /\ j \in DOMAIN s /\ t[j] = s[j]
               \/ j \in m + 2..l + 1 /\ j - 1 \in DOMAIN s /\ t[j] = s[j - 1]
    <2>1. CASE j = m + 1
      BY <1>4, <2>1
    <2>2. CASE j \in 1..m
      <3>1. j \in DOMAIN s
        BY <1>3, <1>5, <2>2
      <3> QED BY <1>4, <2>2, <3>1
    <2>3. CASE ~(j =< m + 1)
      <3>1. j \in m + 2..l + 1 /\ j - 1 \in m + 1..l /\ j - 1 \in 1..l /\ j - 1 + 1 = j
        BY <1>3, <2>3
      <3> QED BY <1>3, <1>4, <3>1
    <2> QED BY <1>3, <2>1, <2>2, <2>3
  <1>8. ASSUME NEW y PROVE y \in ToSet(t) <=> y \in ToSet(s) \union {x}
    <2>1. ASSUME y \in ToSet(t) PROVE y \in ToSet(s) \union {x}
      <3>1. PICK j \in DOMAIN t : t[j] = y
        BY <2>1, ToSetFacts
      <3> QED BY <1>7, <3>1, ToSetFacts
    <2>2. ASSUME y \in ToSet(s) PROVE y \in ToSet(t)
      BY <1>6, <2>2, ToSetFacts
    <2>3. x \in ToSet(t)
      <3>1. m + 1 \in DOMAIN t
        BY <1>3, <1>5
      <3> QED BY <1>4, <3>1, ToSetFacts
    <2> QED BY <2>1, <2>2, <2>3
  <1>9. ASSUME NoTwice(s), x \notin ToSet(s) PROVE NoTwice(t)
    <2> SUFFICES ASSUME NEW j \in DOMAIN t, NEW k \in DOMAIN t, t[j] = t[k]
                 PROVE  j = k
      BY DEF NoTwice
    <2>1. \A n \in DOMAIN s : s[n] # x
      BY <1>9, ToSetFacts
    <2>2. CASE j = m + 1 /\ t[j] = x
      BY <1>7, <2>1, <2>2
    <2>3. CASE k = m + 1 /\ t[k] = x
      BY <1>7, <2>1, <2>3
    <2>4. CASE j \in DOMAIN s /\ t[j] = s[j] /\ k \in DOMAIN s /\ t[k] = s[k]
      BY <1>9, <2>4 DEF NoTwice
    <2>5. CASE /\ j - 1 \in DOMAIN s /\ t[j] = s[j - 1]
               /\ k - 1 \in DOMAIN s /\ t[k] = s[k - 1]
      <3>1. j - 1 = k - 1
        BY <1>9, <2>5 DEF NoTwice
      <3> QED BY <1>3, <3>1
    <2>6. CASE /\ j \in 1..m /\ j \in DOMAIN s /\ t[j] = s[j]
               /\ k \in m + 2..l + 1 /\ k - 1 \in DOMAIN s /\ t[k] = s[k - 1]
      <3>1. j = k - 1
        BY <1>9, <2>6 DEF NoTwice
      <3> QED BY <2>6, <3>1
    <2>7. CASE /\ k \in 1..m /\ k \in DOMAIN s /\ t[k] = s[k]
               /\ j \in m + 2..l + 1 /\ j - 1 \in DOMAIN s /\ t[j] = s[j - 1]
      <3>1. k = j - 1
        BY <1>9, <2>7 DEF NoTwice
      <3> QED BY <2>7, <3>1
    <2> QED BY <1>7, <2>2, <2>3, <2>4, <2>5, <2>6, <2>7
  <1>10. Len(t) = Len(s) + 1
    BY <1>2 DEF IsInserted
  <1>11. OneMore(t, s, x)
    BY ONLY <1>6, <1>8, <1>9, <1>10, Zenon DEF OneMore
  <1> QED BY <1>4, <1>11

(* The places of what is left when an item goes.                           *)
LEMMA RemoveKeeps ==
  ASSUME NEW S, NEW s \in Seq(S), NEW i \in DOMAIN s
  PROVE  \E t \in Seq(S) : t = RemoveAt(s, i) /\ OneLess(t, s, i)
  <1>1. PICK l \in Nat : l = Len(s) /\ DOMAIN s = 1..l
    BY LenProperties
  <1>2. PICK m \in Nat : i = m + 1 /\ m + 1 =< Len(s)
    <2>1. i - 1 \in Nat /\ i = i - 1 + 1 /\ i - 1 + 1 =< Len(s)
      BY <1>1
    <2> QED BY <2>1
  <1>3. PICK t \in Seq(S) : IsRemoved(t, s, m)
    BY <1>2, RemoveFacts
  <1>4. PICK n \in Nat : n + 1 = l /\ DOMAIN t = 1..n /\ Len(t) = n
    BY <1>1, <1>3, LenProperties DEF IsRemoved
  <1>5. /\ t = RemoveAt(s, i)
        /\ \A k \in 1..m : t[k] = s[k]
        /\ \A k \in m + 1..n : t[k] = s[k + 1]
    BY <1>2, <1>3, <1>4 DEF IsRemoved
  <1>6. ASSUME NEW j \in DOMAIN t
        PROVE  \/ j \in 1..m /\ j \in DOMAIN s /\ t[j] = s[j]
               \/ j \in m + 1..n /\ j + 1 \in DOMAIN s /\ t[j] = s[j + 1]
    <2>1. CASE j =< m
      <3>1. j \in 1..m /\ j \in DOMAIN s
        BY <1>1, <1>4, <2>1
      <3> QED BY <1>5, <3>1
    <2>2. CASE ~(j =< m)
      <3>1. j \in m + 1..n /\ j + 1 \in DOMAIN s
        BY <1>1, <1>4, <2>2
      <3> QED BY <1>5, <3>1
    <2> QED BY <2>1, <2>2
  <1>7. ASSUME NEW j \in DOMAIN t
        PROVE  \E k \in DOMAIN s : k >= j /\ k # i /\ s[k] = t[j]
    <2>1. CASE j \in 1..m /\ j \in DOMAIN s /\ t[j] = s[j]
      <3>1. j >= j /\ j # i
        BY <1>2, <2>1
      <3> QED BY <2>1, <3>1
    <2>2. CASE j \in m + 1..n /\ j + 1 \in DOMAIN s /\ t[j] = s[j + 1]
      <3>1. j + 1 >= j /\ j + 1 # i
        BY <1>2, <2>2
      <3> QED BY <2>2, <3>1
    <2> QED BY <1>6, <2>1, <2>2
  <1>8. ASSUME NoTwice(s) PROVE NoTwice(t)
    <2> SUFFICES ASSUME NEW j \in DOMAIN t, NEW k \in DOMAIN t, t[j] = t[k]
                 PROVE  j = k
      BY DEF NoTwice
    <2>1. CASE j \in DOMAIN s /\ t[j] = s[j] /\ k \in DOMAIN s /\ t[k] = s[k]
      BY <1>8, <2>1 DEF NoTwice
    <2>2. CASE /\ j + 1 \in DOMAIN s /\ t[j] = s[j + 1]
               /\ k + 1 \in DOMAIN s /\ t[k] = s[k + 1]
      <3>1. j + 1 = k + 1
        BY <1>8, <2>2 DEF NoTwice
      <3> QED BY <1>4, <3>1
    <2>3. CASE /\ j \in 1..m /\ j \in DOMAIN s /\ t[j] = s[j]
               /\ k \in m + 1..n /\ k + 1 \in DOMAIN s /\ t[k] = s[k + 1]
      <3>1. j = k + 1
        BY <1>8, <2>3 DEF NoTwice
      <3> QED BY <2>3, <3>1
    <2>4. CASE /\ k \in 1..m /\ k \in DOMAIN s /\ t[k] = s[k]
               /\ j \in m + 1..n /\ j + 1 \in DOMAIN s /\ t[j] = s[j + 1]
      <3>1. k = j + 1
        BY <1>8, <2>4 DEF NoTwice
      <3> QED BY <2>4, <3>1
    <2> QED BY <1>6, <2>1, <2>2, <2>3, <2>4
  <1>9. ASSUME NEW r \in Nat
        PROVE  \E y : \A k \in DOMAIN s : k > r =>
                 s[k] = y \/ \E j \in DOMAIN t : j > r /\ t[j] = s[k]
    <2>1. ASSUME NEW k \in DOMAIN s, k > r, k < i
          PROVE  \E j \in DOMAIN t : j > r /\ t[j] = s[k]
      <3>1. k \in 1..m /\ k \in DOMAIN t
        BY <1>1, <1>2, <1>4, <2>1
      <3> QED BY <1>5, <2>1, <3>1
    <2>2. ASSUME NEW k \in DOMAIN s, k > i, k - 1 > r
          PROVE  \E j \in DOMAIN t : j > r /\ t[j] = s[k]
      <3>1. k - 1 \in m + 1..n /\ k - 1 \in DOMAIN t /\ k - 1 + 1 = k
        BY <1>1, <1>2, <1>4, <2>2
      <3> QED BY <1>5, <2>2, <3>1
    <2>3. CASE i > r
      <3>1. \A k \in DOMAIN s : k > r => k = i \/ k < i \/ (k > i /\ k - 1 > r)
        BY <1>1, <2>3
      <3> WITNESS s[i]
      <3> QED BY <2>1, <2>2, <3>1
    <2>4. CASE ~(i > r)
      <3>1. \A k \in DOMAIN s : k > r => k = r + 1 \/ (k > i /\ k - 1 > r)
        BY <1>1, <2>4
      <3> WITNESS s[r + 1]
      <3> QED BY <2>2, <3>1
    <2> QED BY <2>3, <2>4
  <1>10. Len(t) + 1 = Len(s)
    BY <1>3 DEF IsRemoved
  <1>11. OneLess(t, s, i)
    BY ONLY <1>7, <1>8, <1>9, <1>10, Zenon DEF OneLess
  <1> QED BY <1>5, <1>11

(* What ItemAdded and ItemRemoved do to the listing.                       *)
LEMMA AddedEffect ==
  ASSUME TypeOK, ItemAdded
  PROVE  /\ listing' \in Seq(Items)
         /\ Len(listing') = Len(listing) + 1
         /\ \E x \in Items \ (ToSet(listing) \union gone) :
              ToSet(listing') = ToSet(listing) \union {x}
         /\ \A k \in DOMAIN listing : \E j \in DOMAIN listing' :
              j >= k /\ listing'[j] = listing[k]
         /\ NoTwice(listing) => NoTwice(listing')
  <1>1. PICK x \in Items \ (ToSet(listing) \union gone), i \in 1..Len(listing) + 1 :
          listing' = InsertAt(listing, i, x)
    BY DEF ItemAdded
  <1>2. listing \in Seq(Items) /\ x \in Items /\ x \notin ToSet(listing)
    BY DEF TypeOK
  <1>3. PICK new \in Seq(Items) : new = InsertAt(listing, i, x) /\ OneMore(new, listing, x)
    BY <1>2, InsertKeeps
  <1>4. /\ new = listing'
        /\ Len(new) = Len(listing) + 1
        /\ ToSet(new) = ToSet(listing) \union {x}
        /\ \A k \in DOMAIN listing : \E j \in DOMAIN new : j >= k /\ new[j] = listing[k]
        /\ NoTwice(listing) => NoTwice(new)
    BY <1>1, <1>2, <1>3 DEF OneMore
  <1> QED BY <1>4

LEMMA RemovedEffect ==
  ASSUME TypeOK, Listed, ItemRemoved
  PROVE  /\ listing' \in Seq(Items)
         /\ Len(listing') + 1 = Len(listing)
         /\ gone' \subseteq Items
         /\ \A r \in Nat : \E y : \A k \in DOMAIN listing : k > r =>
              listing[k] = y \/ \E j \in DOMAIN listing' : j > r /\ listing'[j] = listing[k]
         /\ \A j \in DOMAIN listing' : \E k \in DOMAIN listing :
              k >= j /\ listing[k] = listing'[j] /\ listing[k] \notin gone'
         /\ NoTwice(listing')
  <1>1. PICK i \in DOMAIN listing : /\ listing' = RemoveAt(listing, i)
                                    /\ gone' = gone \union {listing[i]}
    BY DEF ItemRemoved
  <1>2. listing \in Seq(Items) /\ NoTwice(listing)
    BY DEF TypeOK, Listed
  <1>3. PICK new \in Seq(Items) : new = RemoveAt(listing, i) /\ OneLess(new, listing, i)
    BY <1>2, RemoveKeeps
  <1>4. /\ new = listing'
        /\ Len(new) + 1 = Len(listing)
        /\ \A r \in Nat : \E y : \A k \in DOMAIN listing : k > r =>
             listing[k] = y \/ \E j \in DOMAIN new : j > r /\ new[j] = listing[k]
        /\ \A j \in DOMAIN new : \E k \in DOMAIN listing :
             k >= j /\ k # i /\ listing[k] = new[j]
        /\ NoTwice(new)
    BY <1>1, <1>2, <1>3 DEF OneLess
  <1>5. \A k \in DOMAIN listing : listing[k] \in Items /\ listing[k] \notin gone
    BY <1>2, ToSetFacts DEF Listed
  <1>6. \A k \in DOMAIN listing : k # i => listing[k] # listing[i]
    BY <1>2 DEF NoTwice
  <1>7. gone' \subseteq Items
    BY <1>1, <1>5 DEF TypeOK
  <1>8. ASSUME NEW j \in DOMAIN new
        PROVE  \E k \in DOMAIN listing : k >= j /\ listing[k] = new[j] /\ listing[k] \notin gone'
    <2>1. PICK k \in DOMAIN listing : k >= j /\ k # i /\ listing[k] = new[j]
      BY <1>4
    <2> QED BY <1>1, <1>5, <1>6, <2>1
  <1> QED BY <1>4, <1>7, <1>8
------------------------------------------------------------------------------
(*                     The types of the download                           *)

Budgets == [added : Nat, removed : Nat, faults : Nat, kills : Nat]

LEMMA SpendTyped ==
  ASSUME budget \in Budgets, NEW what \in {"added", "removed", "faults", "kills"},
         Spend(what)
  PROVE  budget' \in Budgets
  BY DEF Spend, Budgets

(* The places behind the pages read so far.                                *)
Read == IF page = None THEN 0 ELSE page.number * PageSize

(* The page that FetchPage gets.                                           *)
LEMMA FetchEffect ==
  ASSUME TypeOK, FetchPage
  PROVE  /\ page' \in Page /\ page' # None
         /\ IsPageBehind(page', Read)
         /\ Read' = Read + PageSize
         /\ Read \in Nat
  <1>1. PICK n \in Nat : NextNumber = n + 1 /\ Read = n * PageSize /\ Read \in Nat
    <2>1. CASE page = None
      <3>1. 0 \in Nat /\ 0 + 1 = 1 /\ 0 * PageSize = 0
        BY SizeAssumption
      <3>2. NextNumber = 0 + 1 /\ Read = 0 * PageSize /\ Read \in Nat
        BY <2>1, <3>1 DEF NextNumber, Read
      <3> QED BY <3>2, 0 \in Nat, Zenon
    <2>2. CASE page # None
      <3>1. page.number \in Nat /\ NextNumber = page.number + 1 /\ Read = page.number * PageSize
        BY <2>2 DEF NextNumber, Read, TypeOK, Page
      <3>2. page.number * PageSize \in Nat
        BY <3>1, SizeAssumption
      <3> QED BY <3>1, <3>2
    <2> QED BY <2>1, <2>2
  <1>2. PICK p : p = PageAt(n + 1) /\ page' = p
    BY <1>1 DEF FetchPage
  <1>3. IsPageBehind(p, Read) /\ p.number = n + 1 /\ (n + 1) * PageSize = Read + PageSize
    <2>1. listing \in Seq(Items)
      BY DEF TypeOK
    <2> QED BY <1>1, <1>2, <2>1, PageFacts
  <1>4. p \in Page /\ p # None
    BY <1>3, NoneAssumption DEF IsPageBehind
  <1>5. Read' = Read + PageSize
    BY <1>2, <1>3, <1>4 DEF Read
  <1> QED BY <1>1, <1>2, <1>3, <1>4, <1>5

(* The first page is looked for with none before it.                       *)
LEMMA InitTyped ==
  ASSUME Init PROVE TypeOK /\ Listed
  <1>1. TypeOK
    <2>1. listing \in Seq(Items)
      BY ListingAssumption DEF Init
    <2>2. handled \in Seq(Items)
      BY DEF Init
    <2>3. budget \in Budgets
      BY BoundsAssumption DEF Init, Budgets
    <2> QED BY <2>1, <2>2, <2>3 DEF Init, TypeOK, Budgets, NoShift
  <1>2. Listed
    BY ListingAssumption DEF Init, Listed, NoTwice
  <1> QED BY <1>1, <1>2

LEMMA NextTyped ==
  ASSUME TypeOK, Listed, [Next]_vars PROVE TypeOK' /\ Listed'
  <1> USE DEF Budgets
  <1>1. CASE ItemAdded
    <2>1. /\ listing' \in Seq(Items)
          /\ NoTwice(listing')
          /\ ToSet(listing') \intersect gone = {}
      BY <1>1, AddedEffect DEF Listed
    <2>2. budget' \in Budgets
      BY <1>1, SpendTyped DEF ItemAdded, TypeOK
    <2>3. shifted' \in [added : Nat, removed : Nat]
      BY <1>1 DEF ItemAdded, TypeOK
    <2>4. UNCHANGED <<gone, pc, page, pageCounter, handled, first, truncated>>
      BY <1>1 DEF ItemAdded
    <2> QED BY <2>1, <2>2, <2>3, <2>4 DEF TypeOK, Listed
  <1>2. CASE ItemRemoved
    <2>1. PICK new \in Seq(Items) : /\ new = listing'
                                    /\ NoTwice(new)
                                    /\ \A j \in DOMAIN new : new[j] \notin gone'
      BY <1>2, RemovedEffect
    <2>2. NoTwice(listing') /\ ToSet(listing') \intersect gone' = {}
      BY <2>1, ToSetFacts
    <2>3. budget' \in Budgets
      BY <1>2, SpendTyped DEF ItemRemoved, TypeOK
    <2>4. gone' \subseteq Items
      BY <1>2, RemovedEffect
    <2>5. shifted' \in [added : Nat, removed : Nat]
      BY <1>2 DEF ItemRemoved, TypeOK
    <2>6. UNCHANGED <<pc, page, pageCounter, handled, first, truncated>>
      BY <1>2 DEF ItemRemoved
    <2> QED BY <2>1, <2>2, <2>3, <2>4, <2>5, <2>6 DEF TypeOK, Listed
  <1>3. CASE FetchPage
    <2>1. page' \in Page /\ page' # None
      BY <1>3, FetchEffect
    <2>2. first' \subseteq Items /\ shifted' \in [added : Nat, removed : Nat]
      BY <1>3, ToSetFacts DEF FetchPage, TypeOK, NoShift
    <2> QED BY <1>3, <2>1, <2>2 DEF FetchPage, TypeOK, Listed
  <1>4. CASE UndefinedPage
    <2>1. budget' \in Budgets
      BY <1>4, SpendTyped DEF UndefinedPage, TypeOK
    <2> QED BY <1>4, <2>1 DEF UndefinedPage, server, TypeOK, Listed
  <1>5. CASE FetchFails
    <2>1. budget' \in Budgets
      BY <1>5, SpendTyped DEF FetchFails, TypeOK
    <2> QED BY <1>5, <2>1 DEF FetchFails, server, TypeOK, Listed
  <1>6. CASE HandlePage
    <2>1. page.data \in Seq(Items)
      BY <1>6 DEF HandlePage, TypeOK, Page
    <2>2. handled' \in Seq(Items)
      BY <1>6, <2>1, ConcatItems DEF HandlePage, TypeOK
    <2> QED BY <1>6, <2>2 DEF HandlePage, server, TypeOK, Listed
  <1>7. CASE HandleFails
    BY <1>7 DEF HandleFails, server, TypeOK, Listed
  <1>8. CASE Close \/ CloseFails
    BY <1>8 DEF Close, CloseFails, server, TypeOK, Listed
  <1>9. CASE Kill
    <2>1. budget' \in Budgets
      BY <1>9, SpendTyped DEF Kill, TypeOK
    <2>2. handled' \in Seq(Items)
      BY <1>9 DEF Kill
    <2> QED BY <1>9, <2>1, <2>2 DEF Kill, TypeOK, Listed, NoShift
  <1>10. CASE UNCHANGED vars
    BY <1>10 DEF vars, TypeOK, Listed
  <1> QED BY <1>1, <1>2, <1>3, <1>4, <1>5, <1>6, <1>7, <1>8, <1>9, <1>10 DEF Next

(* The state of a download has its types, and its listing no item twice    *)
(* (fetchData of DownloadService).                                         *)
THEOREM DownloadTyped == Spec => [](TypeOK /\ Listed)
  BY InitTyped, NextTyped, PTL DEF Spec
------------------------------------------------------------------------------
(*                     What is missed, and what comes again                *)

(* What was handed on or is about to be, and what lies behind the pages    *)
(* read so far.                                                            *)
Seen == ToSet(handled) \union (IF pc = "handle" THEN ToSet(page.data) ELSE {})

Behind == {listing[i] : i \in {j \in DOMAIN listing : j > Read}}

Rest == IF Len(listing) > Read THEN Len(listing) - Read ELSE 0

LEMMA ReadNat ==
  ASSUME TypeOK PROVE Read \in Nat /\ Rest \in Nat /\ Len(listing) \in Nat
  <1>1. Read \in Nat
    BY SizeAssumption DEF TypeOK, Read, Page
  <1> QED BY <1>1, LenProperties DEF TypeOK, Rest

(* The items of a sequence are finitely many, and as many as its places    *)
(* when none comes twice.                                                  *)
LEMMA ToSetFinite ==
  ASSUME NEW S, NEW s \in Seq(S)
  PROVE  /\ IsFiniteSet(ToSet(s))
         /\ Cardinality(ToSet(s)) \in Nat
         /\ NoTwice(s) => Cardinality(ToSet(s)) = Len(s)
  <1>1. PICK l \in Nat : l = Len(s) /\ DOMAIN s = 1..l
    BY LenProperties
  <1>2. IsFiniteSet(1..l) /\ Cardinality(1..l) = l
    <2>1. IsFiniteSet(1..l) /\ Cardinality(1..l) = IF 1 > l THEN 0 ELSE l - 1 + 1
      BY FS_Interval
    <2> QED BY <2>1
  <1>3. PICK g : g = [i \in 1..l |-> s[i]]
    OBVIOUS
  <1>4. g \in Surjection(1..l, ToSet(s))
    BY <1>1, <1>3, ToSetFacts DEF Surjection
  <1>5. NoTwice(s) => g \in Injection(1..l, ToSet(s))
    BY <1>1, <1>3, <1>4 DEF Surjection, Injection, IsInjective, NoTwice
  <1>6. /\ IsFiniteSet(ToSet(s))
        /\ Cardinality(ToSet(s)) = Cardinality(1..l) <=> g \in Injection(1..l, ToSet(s))
    BY <1>2, <1>4, FS_Surjection
  <1> QED BY <1>1, <1>2, <1>5, <1>6, FS_CardinalityType

LEMMA BehindFinite ==
  ASSUME TypeOK
  PROVE  IsFiniteSet(Behind) /\ Cardinality(Behind) \in Nat /\ Cardinality(Behind) =< Rest
  <1>1. PICK l \in Nat, r \in Nat : l = Len(listing) /\ r = Read /\ DOMAIN listing = 1..l
    BY ReadNat, LenProperties DEF TypeOK
  <1>2. {j \in DOMAIN listing : j > Read} = r + 1..l
    BY <1>1
  <1>3. IsFiniteSet(r + 1..l) /\ Cardinality(r + 1..l) = Rest
    <2>1. IsFiniteSet(r + 1..l) /\ Cardinality(r + 1..l) = IF r + 1 > l THEN 0 ELSE l - (r + 1) + 1
      BY FS_Interval
    <2> QED BY <1>1, <2>1 DEF Rest
  <1>4. PICK g : g = [i \in r + 1..l |-> listing[i]]
    OBVIOUS
  <1>5. g \in Surjection(r + 1..l, Behind)
    BY <1>2, <1>4 DEF Surjection, Behind
  <1> QED BY <1>3, <1>5, FS_Surjection, FS_CardinalityType

LEMMA SeenFinite ==
  ASSUME TypeOK PROVE IsFiniteSet(Seen) /\ Cardinality(Seen) \in Nat
  <1>1. IsFiniteSet(ToSet(handled))
    BY ToSetFinite DEF TypeOK
  <1>2. pc = "handle" => IsFiniteSet(ToSet(page.data))
    BY ToSetFinite DEF TypeOK, Page
  <1>3. IsFiniteSet(Seen)
    BY <1>1, <1>2, FS_Union DEF Seen
  <1> QED BY <1>3, FS_CardinalityType

(* Fewer elements, or at most one more.                                    *)
LEMMA AtMost ==
  ASSUME NEW S, IsFiniteSet(S), NEW T
  PROVE  /\ T \subseteq S => IsFiniteSet(T) /\ Cardinality(T) =< Cardinality(S)
         /\ \A y : T \subseteq S \union {y} =>
              IsFiniteSet(T) /\ Cardinality(T) =< Cardinality(S) + 1
  <1>1. T \subseteq S => IsFiniteSet(T) /\ Cardinality(T) =< Cardinality(S)
    BY FS_Subset
  <1>2. ASSUME NEW y, T \subseteq S \union {y}
        PROVE  IsFiniteSet(T) /\ Cardinality(T) =< Cardinality(S) + 1
    <2>1. IsFiniteSet(S \union {y}) /\ Cardinality(S \union {y}) =< Cardinality(S) + 1
      <3>1. /\ IsFiniteSet(S \union {y})
            /\ Cardinality(S \union {y}) = IF y \in S THEN Cardinality(S) ELSE Cardinality(S) + 1
        BY FS_AddElement
      <3>2. Cardinality(S) \in Nat
        BY FS_CardinalityType
      <3> QED BY <3>1, <3>2
    <2>2. IsFiniteSet(T) /\ Cardinality(T) =< Cardinality(S \union {y})
      BY <1>2, <2>1, FS_Subset
    <2> QED BY <2>1, <2>2, FS_CardinalityType
  <1> QED BY <1>1, <1>2

(* An item that comes in leaves all behind the pages read that was there,  *)
(* one that goes takes at most one of them away: itself, or the one that   *)
(* moves to a place that was read.                                         *)
LEMMA BehindAdded ==
  ASSUME TypeOK, ItemAdded
  PROVE  Behind \subseteq Behind' /\ Read' = Read
         /\ Len(listing') = Len(listing) + 1
  <1>1. Read' = Read
    BY DEF ItemAdded, Read
  <1>2. ASSUME NEW i \in DOMAIN listing, i > Read
        PROVE  \E j \in DOMAIN listing' : j > Read /\ listing'[j] = listing[i]
    <2>1. PICK j \in DOMAIN listing' : j >= i /\ listing'[j] = listing[i]
      BY AddedEffect
    <2>2. i \in Int /\ j \in Int /\ Read \in Int
      BY AddedEffect, ReadNat, ToSetFacts DEF TypeOK
    <2>3. j > Read
      BY <1>2, <2>1, <2>2
    <2> QED BY <2>1, <2>3
  <1> QED BY <1>1, <1>2, AddedEffect DEF Behind

LEMMA BehindRemoved ==
  ASSUME TypeOK, Listed, ItemRemoved
  PROVE  /\ \E y : Behind \subseteq Behind' \union {y}
         /\ Read' = Read /\ Len(listing') + 1 = Len(listing)
  <1>1. Read' = Read /\ Read \in Nat
    BY ReadNat DEF ItemRemoved, Read
  <1>2. PICK y : \A k \in DOMAIN listing : k > Read =>
          listing[k] = y \/ \E j \in DOMAIN listing' : j > Read /\ listing'[j] = listing[k]
    BY <1>1, RemovedEffect
  <1>3. Behind \subseteq Behind' \union {y}
    BY <1>1, <1>2 DEF Behind
  <1> QED BY <1>1, <1>3, RemovedEffect

(* The page that is fetched has what was next; the rest lies behind it.    *)
LEMMA BehindFetched ==
  ASSUME TypeOK, FetchPage
  PROVE  /\ page' \in Page /\ page' # None
         /\ Behind \subseteq ToSet(page'.data) \union Behind'
         /\ Len(page'.data) \in Nat /\ Rest = Len(page'.data) + Rest'
         /\ ~HasNextPage' => Behind' = {}
  <1>1. PICK p \in Page, r \in Nat :
          /\ p = page' /\ p # None /\ r = Read /\ Read' = r + PageSize
          /\ IsPageBehind(p, r)
    BY FetchEffect
  <1>2. PICK data \in Seq(Items), d \in Nat : data = p.data /\ d = Len(data) /\ DOMAIN data = 1..d
    BY LenProperties DEF Page
  <1>3. PICK l \in Nat : /\ l = Len(listing) /\ DOMAIN listing = 1..l
                         /\ listing' = listing
    BY LenProperties DEF TypeOK, FetchPage
  <1>4. PICK size \in Nat \ {0} : size = PageSize
    BY SizeAssumption
  <1>5. /\ \A k \in 1..d : k =< size /\ r + k \in 1..l /\ data[k] = listing[r + k]
        /\ \A k \in 1..size : r + k \in 1..l => k \in 1..d
    BY <1>1, <1>2, <1>3, <1>4 DEF IsPageBehind
  <1>6. p.totalPages =< p.number => l =< r + size
    BY <1>1, <1>3, <1>4 DEF IsPageBehind
  <1>7. ASSUME NEW i \in DOMAIN listing, i > r
        PROVE  listing[i] \in ToSet(data) \/ i > r + size
    <2>1. CASE i =< r + size
      <3>1. i - r \in 1..size /\ r + (i - r) = i
        BY <1>3, <1>7, <2>1
      <3>2. i - r \in DOMAIN data /\ data[i - r] = listing[i]
        BY <1>2, <1>3, <1>5, <3>1
      <3> QED BY <3>2, ToSetFacts
    <2> QED BY <2>1, <1>3
  <1>8. Behind \subseteq ToSet(page'.data) \union Behind'
    BY <1>1, <1>2, <1>3, <1>4, <1>7 DEF Behind
  <1>9. Rest = d + Rest'
    <2>1. d = 0 \/ (d =< size /\ r + d =< l)
      <3>1. d \in 1..d \/ d = 0
        OBVIOUS
      <3> QED BY <1>5, <3>1
    <2>2. d < size => l =< r + d
      <3>1. d < size => d + 1 \in 1..size /\ d + 1 \notin 1..d
        OBVIOUS
      <3>2. d < size => r + (d + 1) \notin 1..l
        BY <1>5, <3>1
      <3> QED BY <3>2
    <2>3. Rest = IF l > r THEN l - r ELSE 0
      BY <1>1, <1>3 DEF Rest
    <2>4. Rest' = IF l > r + size THEN l - (r + size) ELSE 0
      BY <1>1, <1>3, <1>4 DEF Rest
    <2> QED BY <2>1, <2>2, <2>3, <2>4
  <1>10. ASSUME ~HasNextPage' PROVE Behind' = {}
    <2>1. p.totalPages =< p.number
      BY <1>1, <1>10 DEF HasNextPage, Page
    <2>2. \A i \in DOMAIN listing : ~(i > r + size)
      BY <1>3, <1>6, <2>1
    <2> QED BY <1>1, <1>3, <1>4, <2>2 DEF Behind
  <1> QED BY <1>1, <1>2, <1>8, <1>9, <1>10

(* A page that is handled was seen, and is seen once it was.               *)
LEMMA SeenHandled ==
  ASSUME TypeOK, HandlePage
  PROVE  /\ Seen' = Seen /\ Behind' = Behind /\ Rest' = Rest
         /\ ToSet(handled') = Seen
         /\ Len(page.data) \in Nat /\ Len(handled) \in Nat
         /\ Len(handled') = Len(handled) + Len(page.data)
         /\ page # None
  <1>1. page.data \in Seq(Items) /\ handled \in Seq(Items) /\ page # None
    BY DEF HandlePage, TypeOK, Page
  <1>2. UNCHANGED <<page, listing>> /\ pc = "handle" /\ pc' = "loop"
        /\ handled' = handled \o page.data
    BY DEF HandlePage, server
  <1>3. ToSet(handled') = ToSet(handled) \union ToSet(page.data)
        /\ Len(handled') = Len(handled) + Len(page.data)
    BY <1>1, <1>2, ConcatItems
  <1> QED BY <1>1, <1>2, <1>3, LenProperties DEF Seen, Behind, Rest, Read
------------------------------------------------------------------------------
(* What was listed at first and was not seen, nor is going to be with the  *)
(* pages to come.                                                          *)
Lost == first \ (Seen \union IF HasNextPage THEN Behind ELSE {})

(* No more is lost than was removed.                                       *)
MissedInv ==
  /\ IsFiniteSet(first)
  /\ page # None /\ pc # "failed" => Cardinality(Lost) =< shifted.removed
  /\ pc = "close" => truncated
  /\ pc = "done" /\ ~truncated /\ pageCounter < MaxPages => page # None /\ ~HasNextPage

LEMMA LostFinite ==
  ASSUME MissedInv PROVE IsFiniteSet(Lost) /\ Cardinality(Lost) \in Nat
  <1>1. IsFiniteSet(Lost)
    BY FS_Subset DEF MissedInv, Lost
  <1> QED BY <1>1, FS_CardinalityType

LEMMA NextMissed ==
  ASSUME TypeOK, Listed, TypeOK', MissedInv, [Next]_vars PROVE MissedInv'
  <1>1. CASE ItemAdded
    <2>1. UNCHANGED <<page, pc, handled, first, truncated, pageCounter, HasNextPage, Seen>>
          /\ shifted'.removed = shifted.removed
      BY <1>1 DEF ItemAdded, HasNextPage, Seen, TypeOK
    <2>2. Lost' \subseteq Lost
      BY <1>1, <2>1, BehindAdded DEF Lost
    <2>3. Cardinality(Lost') =< Cardinality(Lost) /\ Cardinality(Lost') \in Nat
      BY <2>2, LostFinite, AtMost, FS_CardinalityType
    <2>4. shifted.removed \in Nat
      BY DEF TypeOK
    <2> QED BY <2>1, <2>3, <2>4, LostFinite DEF MissedInv
  <1>2. CASE ItemRemoved
    <2>1. UNCHANGED <<page, pc, handled, first, truncated, pageCounter, HasNextPage, Seen>>
          /\ shifted'.removed = shifted.removed + 1
      BY <1>2 DEF ItemRemoved, HasNextPage, Seen, TypeOK
    <2>2. PICK y : Behind \subseteq Behind' \union {y}
      BY <1>2, BehindRemoved
    <2>3. Lost' \subseteq Lost \union {y}
      BY <2>1, <2>2 DEF Lost
    <2>4. Cardinality(Lost') =< Cardinality(Lost) + 1 /\ Cardinality(Lost') \in Nat
      BY <2>3, LostFinite, AtMost, FS_CardinalityType
    <2>5. shifted.removed \in Nat
      BY DEF TypeOK
    <2> QED BY <2>1, <2>4, <2>5, LostFinite DEF MissedInv
  <1>3. CASE FetchPage
    <2>1. /\ UNCHANGED <<listing, handled>> /\ pc = "loop" /\ pc' = "handle"
          /\ page = None => first' = ToSet(listing) /\ shifted' = NoShift
          /\ page # None => UNCHANGED <<first, shifted>>
          /\ HasMore
      BY <1>3 DEF FetchPage
    <2>2. Behind \subseteq Seen' \union Behind' /\ (~HasNextPage' => Behind' = {})
          /\ Seen \subseteq Seen'
      BY <1>3, <2>1, BehindFetched DEF Seen
    <2>3. Seen \union Behind \subseteq Seen' \union IF HasNextPage' THEN Behind' ELSE {}
      BY <2>2
    <2>4. CASE page = None
      <3>1. Read = 0 /\ \A i \in DOMAIN listing : i > 0
        BY <2>4, ToSetFacts DEF Read, TypeOK
      <3>2. first' \subseteq Behind
        BY <2>1, <2>4, <3>1, ToSetFacts DEF Behind, TypeOK
      <3>3. Lost' = {} /\ shifted'.removed = 0
        BY <2>1, <2>3, <2>4, <3>2 DEF Lost, NoShift
      <3>4. IsFiniteSet(first')
        BY <2>1, <2>4, ToSetFinite DEF TypeOK
      <3> QED BY <2>1, <3>3, <3>4, FS_EmptySet DEF MissedInv
    <2>5. CASE page # None
      <3>1. Lost' \subseteq Lost
        BY <2>1, <2>3, <2>5 DEF Lost
      <3>2. Cardinality(Lost') =< Cardinality(Lost) /\ Cardinality(Lost') \in Nat
        BY <3>1, LostFinite, AtMost, FS_CardinalityType
      <3>3. shifted.removed \in Nat
        BY DEF TypeOK
      <3> QED BY <2>1, <2>5, <3>2, <3>3, LostFinite DEF MissedInv
    <2> QED BY <2>4, <2>5
  <1>4. CASE UndefinedPage
    BY <1>4 DEF UndefinedPage, MissedInv
  <1>5. CASE FetchFails \/ HandleFails \/ CloseFails
    BY <1>5 DEF FetchFails, HandleFails, CloseFails, MissedInv
  <1>6. CASE HandlePage
    <2>1. UNCHANGED <<first, shifted, page, HasNextPage>> /\ pc = "handle" /\ pc' = "loop"
      BY <1>6 DEF HandlePage, server, HasNextPage
    <2>2. Lost' = Lost
      BY <1>6, <2>1, SeenHandled DEF Lost
    <2> QED BY <2>1, <2>2 DEF MissedInv
  <1>7. CASE Close
    <2>1. UNCHANGED <<listing, page, handled, first, shifted, truncated, pageCounter,
                      HasNextPage, Behind>> /\ pc' = "done" /\ LoopOver
      BY <1>7 DEF Close, server, HasNextPage, Read, Behind
    <2>2. Lost' = Lost
      BY <2>1 DEF Lost, Seen, LoopOver
    <2>3. ~truncated /\ pageCounter < MaxPages => page # None /\ ~HasNextPage
      BY <2>1 DEF LoopOver, HasMore, MissedInv
    <2> QED BY <2>1, <2>2, <2>3 DEF MissedInv, LoopOver
  <1>8. CASE Kill
    BY <1>8, FS_EmptySet DEF Kill, MissedInv
  <1>9. CASE UNCHANGED vars
    BY <1>9 DEF vars, MissedInv, Lost, Seen, Behind, HasNextPage, Read
  <1> QED BY <1>1, <1>2, <1>3, <1>4, <1>5, <1>6, <1>7, <1>8, <1>9 DEF Next

LEMMA InitMissed ==
  ASSUME Init PROVE MissedInv
  BY FS_EmptySet DEF Init, MissedInv

(* A download that completes misses at most as many of the items that were *)
(* listed when it began as were removed meanwhile (fetchData over a paging *)
(* that goes by position).                                                 *)
THEOREM Missed == Spec => []MissedAreRemovals
  <1>1. MissedInv => MissedAreRemovals
    BY DEF MissedInv, MissedAreRemovals, Lost, Seen
  <1>2. Spec => []MissedInv
    BY InitMissed, NextMissed, DownloadTyped, PTL DEF Spec
  <1> QED BY <1>1, <1>2, PTL
------------------------------------------------------------------------------
(* What was handed on, is about to be and is still to come is no more than *)
(* the different items among it and those that were added.                 *)
RepeatedInv ==
  /\ page = None /\ pc = "loop" => handled = <<>>
  /\ Len(handled) =< Cardinality(ToSet(handled)) + shifted.added
  /\ page # None /\ pc \in {"loop", "handle"} =>
       Len(handled) + (IF pc = "handle" THEN Len(page.data) ELSE 0) + Rest
         =< Cardinality(Seen \union Behind) + shifted.added

(* All of it can be counted.                                               *)
Counts ==
  /\ IsFiniteSet(Seen \union Behind) /\ Cardinality(Seen \union Behind) \in Nat
  /\ Cardinality(Seen) \in Nat /\ Rest \in Nat
  /\ Cardinality(Seen \union Behind) =< Cardinality(Seen) + Rest

LEMMA AllCounts ==
  ASSUME TypeOK PROVE Counts
  <1>1. /\ IsFiniteSet(Seen \union Behind)
        /\ Cardinality(Seen \union Behind) =
             Cardinality(Seen) + Cardinality(Behind) - Cardinality(Seen \intersect Behind)
    BY SeenFinite, BehindFinite, FS_Union
  <1>2. Cardinality(Seen \intersect Behind) \in Nat
    BY SeenFinite, FS_Subset, FS_CardinalityType
  <1>3. Cardinality(Seen \union Behind) \in Nat
    BY <1>1, FS_CardinalityType
  <1> QED BY <1>1, <1>2, <1>3, SeenFinite, BehindFinite, ReadNat DEF Counts

LEMMA NextRepeated ==
  ASSUME TypeOK, Listed, Counts, Counts', RepeatedInv, [Next]_vars PROVE RepeatedInv'
  <1> DEFINE All == Seen \union Behind
             Now == Len(handled) + (IF pc = "handle" THEN Len(page.data) ELSE 0)
  <1>0. /\ Len(handled) \in Nat /\ shifted.added \in Nat
        /\ Cardinality(ToSet(handled)) \in Nat
        /\ pc = "handle" => Len(page.data) \in Nat
        /\ Rest \in Nat /\ Cardinality(All) \in Nat /\ Now \in Nat
    <2>1. Len(handled) \in Nat /\ Cardinality(ToSet(handled)) \in Nat /\ shifted.added \in Nat
      BY LenProperties, ToSetFinite DEF TypeOK
    <2>2. pc = "handle" => Len(page.data) \in Nat
      BY LenProperties DEF TypeOK, Page
    <2>3. Rest \in Nat /\ Cardinality(All) \in Nat
      BY DEF Counts
    <2> QED BY <2>1, <2>2, <2>3
  <1>1. CASE ItemAdded
    <2>1. UNCHANGED <<page, pc, handled, Seen, Now>> /\ shifted'.added = shifted.added + 1
      BY <1>1 DEF ItemAdded, Seen, TypeOK
    <2>2. /\ All \subseteq All' /\ Rest' =< Rest + 1 /\ Rest' \in Nat
      BY <1>1, <2>1, BehindAdded, ReadNat DEF Rest, Counts
    <2>3. Cardinality(All) =< Cardinality(All') /\ Cardinality(All') \in Nat
      <3>1. IsFiniteSet(All') /\ Cardinality(All') \in Nat
        BY DEF Counts
      <3> QED BY <2>2, <3>1, AtMost
    <2>4. page # None /\ pc \in {"loop", "handle"}
            => Now' + Rest' =< Cardinality(All') + shifted'.added
      BY <1>0, <2>1, <2>2, <2>3 DEF RepeatedInv
    <2> QED BY <1>0, <2>1, <2>4 DEF RepeatedInv
  <1>2. CASE ItemRemoved
    <2>1. UNCHANGED <<page, pc, handled, Seen, Now>> /\ shifted'.added = shifted.added
      BY <1>2 DEF ItemRemoved, Seen, TypeOK
    <2>2. PICK y : Behind \subseteq Behind' \union {y}
      BY <1>2, BehindRemoved
    <2>3. IsFiniteSet(All') /\ Cardinality(All') \in Nat
      BY DEF Counts
    <2>4. Cardinality(All) =< Cardinality(All') + 1
      <3>1. All \subseteq All' \union {y}
        BY <2>1, <2>2
      <3> QED BY <2>3, <3>1, AtMost
    <2>5. CASE Rest = 0
      <3>1. Rest' = 0 /\ Cardinality(Behind) = 0
        BY <1>2, <2>5, BehindRemoved, BehindFinite, ReadNat DEF Rest
      <3>2. Behind = {}
        BY <3>1, BehindFinite, FS_EmptySet
      <3>3. All \subseteq All'
        BY <2>1, <3>2
      <3>4. Cardinality(All) =< Cardinality(All')
        BY <2>3, <3>3, AtMost
      <3>5. page # None /\ pc \in {"loop", "handle"}
              => Now' + Rest' =< Cardinality(All') + shifted'.added
        BY <1>0, <2>1, <2>3, <2>5, <3>1, <3>4 DEF RepeatedInv
      <3> QED BY <2>1, <3>5 DEF RepeatedInv
    <2>6. CASE Rest # 0
      <3>1. Rest = Rest' + 1 /\ Rest' \in Nat
        BY <1>2, <2>6, BehindRemoved, ReadNat DEF Rest, Counts
      <3>2. page # None /\ pc \in {"loop", "handle"}
              => Now' + Rest' =< Cardinality(All') + shifted'.added
        BY <1>0, <2>1, <2>3, <2>4, <3>1 DEF RepeatedInv
      <3> QED BY <2>1, <3>2 DEF RepeatedInv
    <2> QED BY <2>5, <2>6
  <1>3. CASE FetchPage
    <2>1. /\ UNCHANGED <<listing, handled>> /\ pc = "loop" /\ pc' = "handle"
          /\ page = None => shifted' = NoShift
          /\ page # None => UNCHANGED shifted
      BY <1>3 DEF FetchPage
    <2>2. /\ Behind \subseteq Seen' \union Behind' /\ Seen \subseteq Seen'
          /\ Len(page'.data) \in Nat /\ Rest = Len(page'.data) + Rest' /\ page' # None
      BY <1>3, <2>1, BehindFetched DEF Seen
    <2>3. IsFiniteSet(All') /\ Cardinality(All') \in Nat /\ Rest' \in Nat
      BY DEF Counts
    <2>4. Cardinality(All) =< Cardinality(All')
      <3>1. All \subseteq All'
        BY <2>2
      <3> QED BY <2>3, <3>1, AtMost
    <2>5. Now = Len(handled) /\ Now' = Len(handled) + Len(page'.data)
      BY <2>1
    <2>6. CASE page = None
      <3>1. handled = <<>> /\ Len(handled) = 0
        BY <2>1, <2>6 DEF RepeatedInv
      <3>2. Read = 0 /\ \A i \in DOMAIN listing : i > 0
        BY <2>6, ToSetFacts DEF Read, TypeOK
      <3>3. Rest = Len(listing)
        BY <3>2, ReadNat DEF Rest
      <3>4. ToSet(listing) \subseteq All
        BY <3>2, ToSetFacts DEF Behind, TypeOK
      <3>5. Cardinality(ToSet(listing)) = Len(listing)
        BY ToSetFinite DEF TypeOK, Listed
      <3>6. Len(listing) =< Cardinality(All)
        BY <3>4, <3>5, AtMost DEF Counts
      <3>7. shifted'.added = 0
        BY <2>1, <2>6 DEF NoShift
      <3>8. Now' + Rest' =< Cardinality(All') + shifted'.added
        BY <1>0, <2>2, <2>3, <2>4, <2>5, <3>1, <3>3, <3>6, <3>7
      <3>9. Len(handled') =< Cardinality(ToSet(handled')) + shifted'.added
        BY <1>0, <2>1, <3>1, <3>7
      <3> QED BY <2>1, <3>8, <3>9 DEF RepeatedInv
    <2>7. CASE page # None
      <3>1. Now' + Rest' =< Cardinality(All') + shifted'.added
        BY <1>0, <2>1, <2>2, <2>3, <2>4, <2>5, <2>7 DEF RepeatedInv
      <3>2. Len(handled') =< Cardinality(ToSet(handled')) + shifted'.added
        BY <2>1, <2>7 DEF RepeatedInv
      <3> QED BY <2>1, <3>1, <3>2 DEF RepeatedInv
    <2> QED BY <2>6, <2>7
  <1>4. CASE UndefinedPage
    <2>1. UNCHANGED <<handled, shifted>> /\ page' = None /\ pc' = "close"
      BY <1>4 DEF UndefinedPage, server
    <2> QED BY <2>1 DEF RepeatedInv
  <1>5. CASE FetchFails \/ HandleFails \/ CloseFails
    <2>1. UNCHANGED <<handled, shifted>> /\ pc' = "failed"
      BY <1>5 DEF FetchFails, HandleFails, CloseFails, server
    <2> QED BY <2>1 DEF RepeatedInv
  <1>6. CASE HandlePage
    <2>1. UNCHANGED shifted /\ pc = "handle" /\ pc' = "loop" /\ page' = page
      BY <1>6 DEF HandlePage, server
    <2>2. /\ All' = All /\ Rest' = Rest /\ ToSet(handled') = Seen
          /\ Len(handled') = Len(handled) + Len(page.data) /\ page # None
      BY <1>6, SeenHandled
    <2>3. Now = Len(handled') /\ Now' = Len(handled')
      BY <2>1, <2>2
    <2>4. Len(handled') + Rest =< Cardinality(All) + shifted.added
      BY <2>1, <2>2, <2>3 DEF RepeatedInv
    <2>5. Len(handled') =< Cardinality(ToSet(handled')) + shifted'.added
      BY <1>0, <2>1, <2>2, <2>4 DEF Counts
    <2> QED BY <2>1, <2>2, <2>3, <2>4, <2>5 DEF RepeatedInv
  <1>7. CASE Close
    <2>1. UNCHANGED <<handled, shifted>> /\ pc' = "done"
      BY <1>7 DEF Close, server
    <2> QED BY <2>1 DEF RepeatedInv
  <1>8. CASE Kill
    <2>1. handled' = <<>> /\ page' = None /\ shifted' = NoShift
      BY <1>8 DEF Kill
    <2>2. ToSet(handled') = {} /\ Len(handled') = 0
      BY <2>1 DEF ToSet
    <2>3. Cardinality({}) = 0
      BY FS_EmptySet
    <2>4. shifted'.added = 0
      BY <2>1 DEF NoShift
    <2>5. Len(handled') =< Cardinality(ToSet(handled')) + shifted'.added
      BY <2>2, <2>3, <2>4
    <2> QED BY <2>1, <2>5 DEF RepeatedInv
  <1>9. CASE UNCHANGED vars
    BY <1>9 DEF vars, RepeatedInv, Seen, Behind, Rest, Read
  <1> QED BY <1>1, <1>2, <1>3, <1>4, <1>5, <1>6, <1>7, <1>8, <1>9 DEF Next

LEMMA InitRepeated ==
  ASSUME Init PROVE RepeatedInv
  <1>1. handled = <<>> /\ page = None /\ shifted = NoShift
    BY DEF Init
  <1>2. ToSet(handled) = {} /\ Len(handled) = 0
    BY <1>1 DEF ToSet
  <1>3. Cardinality({}) = 0
    BY FS_EmptySet
  <1>4. shifted.added = 0
    BY <1>1 DEF NoShift
  <1>5. Len(handled) =< Cardinality(ToSet(handled)) + shifted.added
    BY <1>2, <1>3, <1>4
  <1> QED BY <1>1, <1>5 DEF RepeatedInv

(* Items are handed on again at most as often as items were added          *)
(* (fetchData, whose paging goes by position).                             *)
THEOREM Repeated == Spec => []RepeatsAreAdditions
  <1>1. RepeatedInv /\ TypeOK => RepeatsAreAdditions
    <2> SUFFICES ASSUME RepeatedInv, TypeOK PROVE RepeatsAreAdditions
      OBVIOUS
    <2>1. Len(handled) \in Nat /\ Cardinality(ToSet(handled)) \in Nat /\ shifted.added \in Nat
      BY LenProperties, ToSetFinite DEF TypeOK
    <2> QED BY <2>1 DEF RepeatedInv, RepeatsAreAdditions
  <1>2. Spec => []RepeatedInv
    BY InitRepeated, NextRepeated, AllCounts, DownloadTyped, PTL DEF Spec
  <1> QED BY <1>1, <1>2, DownloadTyped, PTL
------------------------------------------------------------------------------
(*                     The sync is a download                              *)

(* Every step of an object sync is a step of the download or none.         *)
LEMMA SyncStep ==
  ASSUME [SyncNext]_allVars PROVE [Next]_vars
  <1>1. CASE ScheduleTask \/ Start \/ StartFails \/ Answer \/ Finish \/ LockExpires
    BY <1>1 DEF ScheduleTask, Start, StartFails, Answer, Finish, LockExpires
  <1>2. CASE ReadPage
    BY <1>2 DEF ReadPage, Next
  <1>3. CASE ReadFails
    BY <1>3 DEF ReadFails, Next
  <1>4. CASE MapSensors \/ MapChild \/ MapGroup
    BY <1>4 DEF MapSensors, MapChild, MapGroup
  <1>5. CASE ChildFails
    BY <1>5 DEF ChildFails, Next
  <1>6. CASE SendPage
    BY <1>6 DEF SendPage, Next
  <1>7. CASE EndLoop
    BY <1>7 DEF EndLoop, Next
  <1>8. CASE Crash
    BY <1>8 DEF Crash, Next
  <1>9. CASE ListingChanges
    BY <1>9 DEF ListingChanges, Next
  <1>10. CASE UNCHANGED allVars
    BY <1>10 DEF allVars
  <1> QED BY <1>1, <1>2, <1>3, <1>4, <1>5, <1>6, <1>7, <1>8, <1>9, <1>10 DEF SyncNext

LEMMA SyncDownloads == SyncSpec => Spec
  <1>1. SyncInit => Init
    BY DEF SyncInit
  <1> QED BY <1>1, SyncStep, PTL DEF SyncSpec, Spec

(* What holds of every download holds of that of a sync (the page handler  *)
(* of ObjectSyncJobHandler under fetchData of DownloadService).            *)
THEOREM SyncPages == SyncSpec => [](MissedAreRemovals /\ RepeatsAreAdditions)
  BY SyncDownloads, Missed, Repeated, PTL
------------------------------------------------------------------------------
(*                     The types of the sync                               *)

TodoItem == [object : Items, children : SUBSET Items]

(* With the types: there are finitely many entries, pages are handled in a *)
(* run, and a run was begun.                                               *)
SyncTyped ==
  /\ SyncTypeOK
  /\ Listed
  /\ IsFiniteSet(objects)
  /\ job = "running" => attempt > 0
  /\ pc \in {"handle", "close"} => job = "running"

LEMMA TailTyped ==
  ASSUME NEW S, NEW s \in Seq(S), s # <<>>
  PROVE  /\ Head(s) \in S /\ Head(s) = s[1] /\ Tail(s) \in Seq(S)
         /\ DOMAIN s = 1..Len(s) /\ Len(s) \in Nat \ {0}
         /\ Len(Tail(s)) = Len(s) - 1
         /\ \A i \in DOMAIN Tail(s) : i + 1 \in DOMAIN s /\ Tail(s)[i] = s[i + 1]
  <1>1. /\ Head(s) \in S /\ Head(s) = s[1] /\ Tail(s) \in Seq(S)
        /\ Len(Tail(s)) = Len(s) - 1 /\ Len(s) \in Nat \ {0}
        /\ \A i \in 1..Len(Tail(s)) : Tail(s)[i] = s[i + 1]
    BY HeadTailProperties, EmptySeq, LenProperties
  <1>2. DOMAIN s = 1..Len(s) /\ DOMAIN Tail(s) = 1..Len(Tail(s))
    BY <1>1, LenProperties
  <1>3. \A i \in 1..Len(s) - 1 : i + 1 \in 1..Len(s)
    BY <1>1
  <1> QED BY <1>1, <1>2, <1>3

LEMMA SeqWidens ==
  ASSUME NEW S, NEW T, S \subseteq T, NEW s \in Seq(S) PROVE s \in Seq(T)
  BY SeqMonotonic

LEMMA SyncInitTyped ==
  ASSUME SyncInit PROVE SyncTyped
  <1>1. TypeOK /\ Listed
    BY InitTyped DEF SyncInit
  <1>2. todo \in Seq(TodoItem) /\ reports \in Seq([attempt : 1..attempt, objects : SUBSET Entry])
    BY DEF SyncInit
  <1>3. objects = {} /\ IsFiniteSet(objects)
    BY FS_EmptySet DEF SyncInit
  <1>4. members \in Contents /\ pc = "loop"
    BY DEF SyncInit, Contents, Init
  <1> QED BY <1>1, <1>2, <1>3, <1>4, MishapsAssumption
          DEF SyncInit, SyncTyped, SyncTypeOK, TodoItem

(* The children that come with a group were listed at first.               *)
LEMMA ItemTyped ==
  ASSUME NEW o \in Items PROVE Item(o) \in TodoItem
  <1>1. ToSet(Listing) \subseteq Items
    BY ListingAssumption, ToSetFacts
  <1> QED BY <1>1, ChildrenAssumption DEF Item, TodoItem

(* What a look-up finds and leaves.                                        *)
LEMMA LookUpTyped ==
  ASSUME SyncTypeOK, NEW o \in Items, NEW found \in {{}, FragmentsOf[o]}, LookUp(o, found)
  PROVE  /\ found \subseteq Fragments /\ IsFiniteSet(found)
         /\ unseen' \subseteq Items /\ mishaps' \in Nat
         /\ unseen \subseteq unseen'
         /\ o \in gone \/ o \in unseen' \/ found = FragmentsOf[o]
  <1>1. FragmentsOf[o] \subseteq Fragments /\ IsFiniteSet(FragmentsOf[o])
    BY FragmentsAssumption
  <1>2. found \subseteq Fragments /\ IsFiniteSet(found)
    BY <1>1, FS_EmptySet
  <1>3. unseen \subseteq Items /\ mishaps \in Nat
    BY DEF SyncTypeOK
  <1>4. CASE found = (IF o \in gone THEN {} ELSE FragmentsOf[o]) /\ UNCHANGED <<unseen, mishaps>>
    BY <1>2, <1>3, <1>4
  <1>5. CASE Mishap /\ unseen' = unseen \union {o}
    BY <1>2, <1>3, <1>5 DEF Mishap
  <1> QED BY <1>4, <1>5 DEF LookUp

LEMMA SyncNextTyped ==
  ASSUME SyncTyped, [SyncNext]_allVars PROVE SyncTyped'
  <1>1. TypeOK' /\ Listed'
    BY SyncStep, NextTyped DEF SyncTyped, SyncTypeOK
  <1>2. CASE ScheduleTask \/ Finish \/ LockExpires
    BY <1>1, <1>2 DEF ScheduleTask, Finish, LockExpires, vars, run, SyncTyped, SyncTypeOK
  <1>3. CASE Start \/ StartFails
    <2>1. attempt' = attempt + 1 /\ attempt' \in Nat /\ attempt' > 0
          /\ 1..attempt \subseteq 1..attempt' /\ attempt' \in 1..attempt'
      BY <1>3 DEF Start, StartFails, SyncTyped, SyncTypeOK
    <2>2. UNCHANGED <<vars, todo, members, objects, objectAmount, unseen, reports>>
      BY <1>3 DEF Start, StartFails, run
    <2>3. reports' \in Seq([attempt : 1..attempt', objects : SUBSET Entry])
      <3>1. PICK S, T : /\ S = [attempt : 1..attempt, objects : SUBSET Entry]
                        /\ T = [attempt : 1..attempt', objects : SUBSET Entry]
        OBVIOUS
      <3>2. S \subseteq T
        BY <2>1, <3>1
      <3>3. reports \in Seq(S) /\ reports' = reports
        BY <2>2, <3>1 DEF SyncTyped, SyncTypeOK
      <3> QED BY <3>1, <3>2, <3>3, SeqWidens
    <2>4. \A a \in answers' : a.status \in {"DONE", "FAILED"} /\ a.attempt \in 1..attempt'
      BY <1>3, <2>1 DEF Start, StartFails, Tell, SyncTyped, SyncTypeOK
    <2>5. mishaps' \in Nat /\ job' \in {"running", "answered"}
      BY <1>3 DEF Start, StartFails, Mishap, SyncTyped, SyncTypeOK
    <2>6. pc' \notin {"handle", "close"} /\ UNCHANGED <<page, truncated>>
      BY <1>3, <2>2 DEF Start, StartFails, vars, SyncTyped
    <2> QED BY <1>1, <2>1, <2>2, <2>3, <2>4, <2>5, <2>6 DEF SyncTyped, SyncTypeOK
  <1>4. CASE ReadPage
    <2>1. page' \in Page /\ page' # None
      BY <1>4, FetchEffect DEF ReadPage, SyncTyped, SyncTypeOK
    <2>2. PICK data \in Seq(Items) : data = page'.data
      BY <2>1 DEF Page
    <2>3. todo' = [i \in DOMAIN data |-> Item(data[i])]
      BY <1>4, <2>2 DEF ReadPage
    <2>4. todo' \in Seq(TodoItem)
      BY <2>3, ToSetFacts, ItemTyped
    <2> QED BY <1>1, <1>4, <2>1, <2>4 DEF ReadPage, SyncTyped, SyncTypeOK, TodoItem
  <1>5. CASE ReadFails
    <2>1. page' = None /\ ~truncated' => page = None /\ ~truncated
      BY <1>5 DEF ReadFails, UndefinedPage, FetchFails
    <2> QED BY <1>1, <1>5, <2>1 DEF ReadFails, syncVars, run, SyncTyped, SyncTypeOK
  <1>6. CASE EndLoop
    <2>1. UNCHANGED <<page, truncated>>
      BY <1>6 DEF EndLoop, Close
    <2> QED BY <1>1, <1>6, <2>1 DEF EndLoop, syncVars, run, SyncTyped, SyncTypeOK
  <1>7. CASE ListingChanges
    <2>1. UNCHANGED <<page, truncated>>
      BY <1>7 DEF ListingChanges, ItemAdded, ItemRemoved
    <2> QED BY <1>1, <1>7, <2>1 DEF ListingChanges, syncVars, run, SyncTyped, SyncTypeOK
  <1>8. CASE MapSensors
    <2>1. todo \in Seq(TodoItem) /\ todo # <<>>
      BY <1>8 DEF MapSensors, SyncTyped, SyncTypeOK, TodoItem
    <2>2. PICK item \in TodoItem : item = Head(todo)
      BY <2>1, TailTyped
    <2>3. PICK o \in Items : o = Head(todo).object
      BY <2>2 DEF TodoItem
    <2>4. PICK found \in {{}, FragmentsOf[o]} :
            LookUp(o, found) /\ objects' = objects \union {Sensor(o, f) : f \in found}
      BY <1>8, <2>3 DEF MapSensors
    <2>5. /\ found \subseteq Fragments /\ IsFiniteSet(found)
          /\ unseen' \subseteq Items /\ mishaps' \in Nat
      BY <2>4, LookUpTyped DEF SyncTyped
    <2>6. \A f \in found : Sensor(o, f) \in Entry
      BY <2>5 DEF Sensor, Entry, Contents
    <2>7. IsFiniteSet({Sensor(o, f) : f \in found})
      <3>1. PICK T : T = {Sensor(o, f) : f \in found}
        OBVIOUS
      <3>2. PICK g : g = [f \in found |-> Sensor(o, f)]
        OBVIOUS
      <3>3. g \in Surjection(found, T)
        BY <3>1, <3>2 DEF Surjection
      <3> QED BY <2>5, <3>1, <3>3, FS_Surjection
    <2>8. objects' \subseteq Entry /\ IsFiniteSet(objects')
      BY <2>4, <2>6, <2>7, FS_Union DEF SyncTyped, SyncTypeOK
    <2>9. todo' \in Seq(TodoItem) /\ page # None
      BY <1>8, <2>1, TailTyped DEF MapSensors, SyncTyped, SyncTypeOK, TypeOK
    <2> QED BY <1>1, <1>8, <2>5, <2>8, <2>9
            DEF MapSensors, vars, SyncTyped, SyncTypeOK, TodoItem
  <1>9. CASE MapChild
    <2>1. todo \in Seq(TodoItem) /\ todo # <<>>
      BY <1>9 DEF MapChild, SyncTyped, SyncTypeOK, TodoItem
    <2>2. PICK c \in Head(todo).children :
            /\ \E found \in {{}, FragmentsOf[c]} :
                 /\ LookUp(c, found)
                 /\ members' = members \union {<<c, f>> : f \in found}
                                 \union (IF c \in Groups THEN {<<c, None>>} ELSE {})
            /\ todo' = [todo EXCEPT ![1].children = @ \ {c}]
      BY <1>9 DEF MapChild
    <2>3. PICK found \in {{}, FragmentsOf[c]} :
            /\ LookUp(c, found)
            /\ members' = members \union {<<c, f>> : f \in found}
                            \union (IF c \in Groups THEN {<<c, None>>} ELSE {})
      BY <2>2
    <2>4. PICK item \in TodoItem : item = Head(todo)
      BY <2>1, TailTyped
    <2>5. c \in Items
      BY <2>4 DEF TodoItem
    <2>6. found \subseteq Fragments /\ unseen' \subseteq Items /\ mishaps' \in Nat
      BY <2>3, <2>5, LookUpTyped DEF SyncTyped
    <2>7. members' \in Contents
      BY <2>3, <2>5, <2>6 DEF SyncTyped, SyncTypeOK, Contents
    <2>8. todo' \in Seq(TodoItem)
      <3>1. PICK new : new = [todo[1] EXCEPT !.children = @ \ {c}]
        OBVIOUS
      <3>2. 1 \in 1..Len(todo) /\ todo[1] \in TodoItem
        BY <2>1, TailTyped
      <3>3. new \in TodoItem
        BY <3>1, <3>2 DEF TodoItem
      <3>4. todo' = [todo EXCEPT ![1] = new]
        BY <2>2, <3>1
      <3> QED BY <2>1, <3>2, <3>3, <3>4, ExceptSeq
    <2>9. page # None
      BY <1>9 DEF MapChild, SyncTyped, SyncTypeOK, TypeOK
    <2> QED BY <1>1, <1>9, <2>6, <2>7, <2>8, <2>9
            DEF MapChild, vars, SyncTyped, SyncTypeOK, TodoItem
  <1>10. CASE MapGroup
    <2>1. todo \in Seq(TodoItem) /\ todo # <<>>
      BY <1>10 DEF MapGroup, SyncTyped, SyncTypeOK, TodoItem
    <2>2. PICK item \in TodoItem : item = Head(todo)
      BY <2>1, TailTyped
    <2>3. PICK o \in Items : o = Head(todo).object
      BY <2>2 DEF TodoItem
    <2>4. objects' = objects \union {Group(o, members)}
      BY <1>10, <2>3 DEF MapGroup
    <2>5. Group(o, members) \in Entry
      BY DEF Group, Entry, SyncTyped, SyncTypeOK
    <2>6. objects' \subseteq Entry /\ IsFiniteSet(objects')
      BY <2>4, <2>5, FS_AddElement DEF SyncTyped, SyncTypeOK
    <2>7. members' \in Contents
      BY <1>10 DEF MapGroup, Contents
    <2>8. todo' \in Seq(TodoItem) /\ page # None
      BY <1>10, <2>1, TailTyped DEF MapGroup, SyncTyped, SyncTypeOK, TypeOK
    <2> QED BY <1>1, <1>10, <2>6, <2>7, <2>8
            DEF MapGroup, vars, SyncTyped, SyncTypeOK, TodoItem
  <1>11. CASE ChildFails
    <2>1. mishaps' \in Nat
      BY <1>11 DEF ChildFails, Mishap, SyncTyped, SyncTypeOK
    <2>2. UNCHANGED <<page, truncated>>
      BY <1>11 DEF ChildFails, HandleFails
    <2> QED BY <1>1, <1>11, <2>1, <2>2 DEF ChildFails, run, SyncTyped, SyncTypeOK
  <1>12. CASE SendPage
    <2>1. objects' = {} /\ IsFiniteSet(objects')
      BY <1>12, FS_EmptySet DEF SendPage
    <2>2. objectAmount' \in Nat
      BY <1>12, FS_CardinalityType DEF SendPage, SyncTyped, SyncTypeOK
    <2>3. reports' \in Seq([attempt : 1..attempt, objects : SUBSET Entry])
      <3>1. job = "running" /\ attempt' = attempt /\ attempt \in 1..attempt
        BY <1>12 DEF SendPage, HandlePage, SyncTyped, SyncTypeOK
      <3>2. PICK S : S = [attempt : 1..attempt, objects : SUBSET Entry]
        OBVIOUS
      <3>3. PICK report \in S : report = [attempt |-> attempt, objects |-> objects]
        BY <3>1, <3>2 DEF SyncTyped, SyncTypeOK
      <3>4. reports \in Seq(S)
        BY <3>2 DEF SyncTyped, SyncTypeOK
      <3>5. Append(reports, report) \in Seq(S)
        BY <3>4, AppendProperties
      <3>6. reports' \in Seq(S)
        BY <1>12, <3>3, <3>4, <3>5 DEF SendPage, Reported
      <3> QED BY <3>1, <3>2, <3>6
    <2>4. page' # None /\ pc' = "loop"
      BY <1>12 DEF SendPage, HandlePage, SyncTyped, SyncTypeOK, TypeOK
    <2> QED BY <1>1, <1>12, <2>1, <2>2, <2>3, <2>4 DEF SendPage, SyncTyped, SyncTypeOK
  <1>13. CASE Answer
    <2>1. \A a \in answers' : a.status \in {"DONE", "FAILED"} /\ a.attempt \in 1..attempt'
      BY <1>13 DEF Answer, Tell, SyncTyped, SyncTypeOK
    <2> QED BY <1>1, <1>13, <2>1 DEF Answer, vars, run, SyncTyped, SyncTypeOK
  <1>14. CASE Crash
    <2>1. todo' \in Seq(TodoItem) /\ members' \in Contents
      BY <1>14 DEF Crash, Contents
    <2>2. IsFiniteSet(objects')
      BY <1>14, FS_EmptySet DEF Crash
    <2>3. pc' = "loop"
      BY <1>14 DEF Crash, Kill
    <2>4. reports' \in Seq([attempt : 1..attempt', objects : SUBSET Entry])
      BY <1>14 DEF Crash, SyncTyped, SyncTypeOK
    <2> QED BY <1>1, <1>14, <2>1, <2>2, <2>3, <2>4 DEF Crash, SyncTyped, SyncTypeOK, TodoItem
  <1>15. CASE UNCHANGED allVars
    BY <1>1, <1>15 DEF allVars, vars, syncVars, run, SyncTyped, SyncTypeOK
  <1> QED BY <1>2, <1>3, <1>4, <1>5, <1>6, <1>7, <1>8, <1>9, <1>10, <1>11, <1>12, <1>13,
             <1>14, <1>15 DEF SyncNext

(* The state of a sync has its types (ObjectSyncJobHandler).               *)
THEOREM SyncTypeCorrect == SyncSpec => []SyncTypeOK
  <1>1. SyncTyped => SyncTypeOK
    BY DEF SyncTyped
  <1> QED BY <1>1, SyncInitTyped, SyncNextTyped, PTL DEF SyncSpec
------------------------------------------------------------------------------
(*                     A sync that is done is complete                     *)

(* What is told of a child, in a set of names and fragments.               *)
Has(c, content) ==
  /\ c \in Groups => <<c, None>> \in content
  /\ c \notin unseen => {<<c, f>> : f \in FragmentsOf[c]} \subseteq content

(* The entries of this run that were sent or wait to be.                   *)
Told == Entries(attempt) \union objects

(* All of an object was told.                                              *)
Whole(o) ==
  IF o \in Groups
  THEN \E e \in Told : /\ e.object = o /\ e.fragment = None
                       /\ \A c \in ChildrenOf[o] \ gone : Has(c, e.members)
  ELSE o \notin unseen => {Sensor(o, f) : f \in FragmentsOf[o]} \subseteq Told

(* A child that is to be told is still to be read, or told with the head.  *)
ChildrenKnown(i) ==
  todo[i].object \in Groups =>
    \A c \in ChildrenOf[todo[i].object] \ gone :
      c \in todo[i].children \/ (i = 1 /\ Has(c, members))

(* Whatever was handed on and is not gone was told, whatever is on the page*)
(* will be.                                                                *)
ToldInv ==
  /\ \A x \in ToSet(handled) \ gone : Whole(x)
  /\ pc = "handle" =>
       /\ \A x \in ToSet(page.data) \ gone :
            Whole(x) \/ \E i \in DOMAIN todo : todo[i].object = x
       /\ \A i \in DOMAIN todo : ChildrenKnown(i)

(* A run begins with nothing, and with a page done nothing is kept back.   *)
BeginInv ==
  /\ job \in {"new", "due", "locked"} => handled = <<>> /\ pc = "loop"
  /\ pc \in {"loop", "close", "done"} => objects = {}

LEMMA HasKept ==
  ASSUME NEW c, NEW set, NEW larger, set \subseteq larger, Has(c, set),
         unseen \subseteq unseen'
  PROVE  /\ c \in Groups => <<c, None>> \in larger
         /\ c \notin unseen' => {<<c, f>> : f \in FragmentsOf[c]} \subseteq larger
  BY DEF Has

LEMMA WholeKept ==
  ASSUME NEW o, Whole(o), unseen \subseteq unseen', gone \subseteq gone', Told \subseteq Told'
  PROVE  Whole(o)'
  <1>1. CASE o \in Groups
    <2>1. PICK e \in Told : /\ e.object = o /\ e.fragment = None
                            /\ \A c \in ChildrenOf[o] \ gone : Has(c, e.members)
      BY <1>1 DEF Whole
    <2>2. \A c : Has(c, e.members) => Has(c, e.members)'
      BY DEF Has
    <2> QED BY <1>1, <2>1, <2>2 DEF Whole
  <1>2. CASE o \notin Groups
    BY <1>2 DEF Whole, Sensor
  <1> QED BY <1>1, <1>2

LEMMA SyncInitTold ==
  ASSUME SyncInit PROVE ToldInv /\ BeginInv
  <1>1. handled = <<>> /\ pc = "loop" /\ objects = {}
    BY DEF SyncInit, Init
  <1>2. ToSet(handled) = {}
    BY <1>1 DEF ToSet
  <1> QED BY <1>1, <1>2 DEF ToldInv, BeginInv

LEMMA SyncNextBegin ==
  ASSUME SyncTyped, BeginInv, [SyncNext]_allVars PROVE BeginInv'
  <1>1. CASE ScheduleTask \/ Start \/ StartFails \/ Answer \/ Finish \/ LockExpires
    BY <1>1 DEF ScheduleTask, Start, StartFails, Answer, Finish, LockExpires, vars, run, BeginInv
  <1>2. CASE ReadPage
    BY <1>2 DEF ReadPage, FetchPage, BeginInv
  <1>3. CASE ReadFails
    BY <1>3 DEF ReadFails, UndefinedPage, FetchFails, syncVars, run, BeginInv
  <1>4. CASE MapSensors \/ MapChild \/ MapGroup
    BY <1>4 DEF MapSensors, MapChild, MapGroup, vars, BeginInv
  <1>5. CASE ChildFails
    BY <1>5 DEF ChildFails, HandleFails, run, BeginInv
  <1>6. CASE SendPage
    BY <1>6 DEF SendPage, HandlePage, BeginInv, SyncTyped
  <1>7. CASE EndLoop
    BY <1>7 DEF EndLoop, Close, LoopOver, syncVars, run, BeginInv
  <1>8. CASE Crash
    BY <1>8 DEF Crash, Kill, BeginInv
  <1>9. CASE ListingChanges
    BY <1>9 DEF ListingChanges, ItemAdded, ItemRemoved, syncVars, run, BeginInv
  <1>10. CASE UNCHANGED allVars
    BY <1>10 DEF allVars, vars, syncVars, run, BeginInv
  <1> QED BY <1>1, <1>2, <1>3, <1>4, <1>5, <1>6, <1>7, <1>8, <1>9, <1>10 DEF SyncNext

(* When all of the head was told, it leaves the list.                      *)
LEMMA HeadTold ==
  ASSUME SyncTyped, ToldInv, pc = "handle",
         todo # <<>>, todo' = Tail(todo), UNCHANGED vars,
         unseen \subseteq unseen', Told \subseteq Told',
         NEW o, o = Head(todo).object, o \in gone \/ Whole(o)'
  PROVE  ToldInv'
  <1>1. UNCHANGED <<handled, page, pc, gone, shifted>>
    BY DEF vars
  <1>2. PICK rest \in Seq(TodoItem) : rest = Tail(todo) /\ rest = todo'
    BY TailTyped DEF SyncTyped, SyncTypeOK, TodoItem
  <1>3. /\ Head(todo) = todo[1]
        /\ DOMAIN todo = 1..Len(todo) /\ Len(todo) \in Nat \ {0}
        /\ DOMAIN rest = 1..Len(rest) /\ Len(rest) = Len(todo) - 1
        /\ \A i \in DOMAIN rest : i + 1 \in DOMAIN todo /\ rest[i] = todo[i + 1]
    BY <1>2, TailTyped, ToSetFacts DEF SyncTyped, SyncTypeOK, TodoItem
  <1>4. \A x : Whole(x) => Whole(x)'
    BY <1>1, WholeKept
  <1>5. ASSUME NEW x \in ToSet(page.data) \ gone
        PROVE  Whole(x)' \/ \E i \in DOMAIN rest : rest[i].object = x
    <2>1. CASE Whole(x)
      BY <1>4, <2>1
    <2>2. ASSUME NEW i \in DOMAIN todo, todo[i].object = x
          PROVE  Whole(x)' \/ \E k \in DOMAIN rest : rest[k].object = x
      <3>1. CASE i = 1
        <4>1. x = o
          BY <1>3, <2>2, <3>1
        <4> QED BY <4>1
      <3>2. CASE i # 1
        <4>1. i - 1 \in DOMAIN rest /\ i - 1 + 1 = i
          BY <1>3, <3>2
        <4> QED BY <1>3, <2>2, <4>1
      <3> QED BY <3>1, <3>2
    <2> QED BY <2>1, <2>2 DEF ToldInv
  <1>6. ASSUME NEW i \in DOMAIN rest
        PROVE  rest[i].object \in Groups =>
                 \A c \in ChildrenOf[rest[i].object] \ gone : c \in rest[i].children
    <2>1. i + 1 \in DOMAIN todo /\ rest[i] = todo[i + 1] /\ i + 1 # 1
      BY <1>3
    <2> QED BY <2>1 DEF ToldInv, ChildrenKnown
  <1>7. \A i \in DOMAIN todo' : ChildrenKnown(i)'
    BY <1>1, <1>2, <1>6 DEF ChildrenKnown
  <1> QED BY <1>1, <1>2, <1>4, <1>5, <1>7 DEF ToldInv

(* The entries that were told stay told.                                   *)
LEMMA ToldGrows ==
  ASSUME UNCHANGED <<attempt, reports>>, objects \subseteq objects'
  PROVE  Told \subseteq Told'
  BY DEF Told, Entries, ReportsOf

(* A page that is sent is as much told as before.                          *)
LEMMA SentTold ==
  ASSUME SyncTyped, SendPage PROVE Told \subseteq Told'
  <1>1. CASE objects = {}
    <2>1. UNCHANGED <<attempt, reports>>
      BY <1>1 DEF SendPage, Reported
    <2> QED BY <1>1, <2>1 DEF Told, Entries, ReportsOf
  <1>2. CASE objects # {}
    <2>1. PICK S : reports \in Seq(S) /\ [attempt |-> attempt, objects |-> objects] \in S
      <3>1. attempt \in 1..attempt
        BY DEF SendPage, HandlePage, SyncTyped, SyncTypeOK
      <3> QED BY <3>1 DEF SyncTyped, SyncTypeOK
    <2>2. PICK report \in S : report = [attempt |-> attempt, objects |-> objects]
      BY <2>1
    <2>3. reports' = Append(reports, report) /\ attempt' = attempt /\ objects' = {}
      BY <1>2, <2>2 DEF SendPage, Reported
    <2>4. PICK l \in Nat : l = Len(reports) /\ DOMAIN reports = 1..l
      BY <2>1, LenProperties
    <2>5. PICK longer \in Seq(S) :
            /\ longer = reports' /\ DOMAIN longer = 1..l + 1
            /\ \A i \in 1..l : longer[i] = reports[i]
            /\ longer[l + 1] = report
      <3>1. /\ Append(reports, report) \in Seq(S)
            /\ Len(Append(reports, report)) = Len(reports) + 1
            /\ \A i \in 1..Len(reports) : Append(reports, report)[i] = reports[i]
            /\ Append(reports, report)[Len(reports) + 1] = report
        BY <2>1, AppendProperties
      <3> QED BY <2>3, <2>4, <3>1, LenProperties
    <2>6. ASSUME NEW e \in Told PROVE e \in UNION {longer[i].objects : i \in
                                        {k \in DOMAIN longer : longer[k].attempt = attempt}}
      <3>1. CASE e \in objects
        <4>1. l + 1 \in DOMAIN longer /\ longer[l + 1].attempt = attempt
              /\ e \in longer[l + 1].objects
          BY <2>2, <2>5, <3>1
        <4> QED BY <4>1
      <3>2. CASE e \in Entries(attempt)
        <4>1. PICK i \in DOMAIN reports : reports[i].attempt = attempt /\ e \in reports[i].objects
          BY <3>2 DEF Entries, ReportsOf
        <4>2. i \in DOMAIN longer /\ longer[i] = reports[i]
          BY <2>4, <2>5
        <4> QED BY <4>1, <4>2
      <3> QED BY <3>1, <3>2 DEF Told
    <2> QED BY <2>3, <2>5, <2>6 DEF Told, Entries, ReportsOf
  <1> QED BY <1>1, <1>2

(* The item at the head of the list, and those behind it.                  *)
LEMMA HeadItem ==
  ASSUME SyncTyped, todo # <<>>
  PROVE  /\ \E item \in TodoItem : item = Head(todo) /\ item = todo[1]
         /\ 1 \in DOMAIN todo
         /\ \A i \in DOMAIN todo : todo[i] \in TodoItem
  <1>1. PICK s \in Seq(TodoItem) : s = todo /\ s # <<>>
    BY DEF SyncTyped, SyncTypeOK, TodoItem
  <1>2. Head(s) \in TodoItem /\ Head(s) = s[1] /\ DOMAIN s = 1..Len(s) /\ Len(s) \in Nat \ {0}
    BY <1>1, TailTyped
  <1>3. \A i \in DOMAIN s : s[i] \in TodoItem
    BY ToSetFacts
  <1> QED BY <1>1, <1>2, <1>3

LEMMA SyncNextTold ==
  ASSUME SyncTyped, SyncTyped', BeginInv, ToldInv, [SyncNext]_allVars
  PROVE  ToldInv'
  <1>1. CASE ScheduleTask \/ Finish \/ LockExpires \/ Answer \/ UNCHANGED allVars
    <2>1. UNCHANGED <<vars, attempt, run, reports>>
      BY <1>1 DEF ScheduleTask, Finish, LockExpires, Answer, allVars, syncVars
    <2>2. UNCHANGED <<page, pc, handled, shifted, gone, todo, members, unseen, Told>>
      BY <2>1 DEF vars, run, Told, Entries, ReportsOf
    <2> QED BY <2>2 DEF ToldInv, Whole, ChildrenKnown, Has
  <1>2. CASE Start \/ StartFails
    <2>1. handled' = <<>> /\ pc' = "loop"
      BY <1>2 DEF Start, StartFails, vars, BeginInv
    <2>2. ToSet(handled') = {}
      BY <2>1 DEF ToSet
    <2> QED BY <2>1, <2>2 DEF ToldInv
  <1>3. CASE ReadPage
    <2>1. PICK p \in Page, start \in Nat : p = page' /\ IsPageBehind(p, start)
      BY <1>3, FetchEffect DEF ReadPage, SyncTyped, SyncTypeOK
    <2>2. PICK data \in Seq(Items) : data = p.data /\ data = page'.data
      BY <2>1 DEF Page
    <2>3. todo' = [i \in DOMAIN data |-> Item(data[i])]
      BY <1>3, <2>2 DEF ReadPage
    <2>4. /\ UNCHANGED <<handled, gone, unseen, objects, attempt, reports>>
          /\ pc = "loop" /\ pc' = "handle"
      BY <1>3 DEF ReadPage, FetchPage
    <2>5. Told \subseteq Told'
      BY <2>4, ToldGrows
    <2>6. \A x \in ToSet(handled) \ gone : Whole(x)'
      BY <2>4, <2>5, WholeKept DEF ToldInv
    <2>7. \A x \in ToSet(data) : \E i \in DOMAIN todo' : todo'[i].object = x
      BY <2>3, ToSetFacts DEF Item
    <2>8. ASSUME NEW i \in DOMAIN todo' PROVE ChildrenKnown(i)'
      <3>1. /\ i \in DOMAIN data /\ todo'[i].object = data[i]
            /\ data[i] \in Groups => todo'[i].children = ChildrenOf[data[i]] \ gone
        BY <2>3 DEF Item
      <3> QED BY <2>4, <3>1 DEF ChildrenKnown
    <2> QED BY <2>2, <2>4, <2>6, <2>7, <2>8 DEF ToldInv
  <1>4. CASE ReadFails \/ EndLoop \/ ChildFails
    <2>1. pc' # "handle" /\ UNCHANGED <<handled, shifted, gone, unseen, objects, attempt, reports>>
      BY <1>4 DEF ReadFails, EndLoop, ChildFails, UndefinedPage, FetchFails, Close, HandleFails,
                  server, syncVars, run
    <2>2. Told \subseteq Told'
      BY <2>1, ToldGrows
    <2>3. \A x : Whole(x) => Whole(x)'
      BY <2>1, <2>2, WholeKept
    <2> QED BY <2>1, <2>3 DEF ToldInv
  <1>5. CASE ListingChanges
    <2>1. CASE ItemRemoved
      <3>1. UNCHANGED <<pc, page, handled, unseen, objects, attempt, reports, todo, members>>
            /\ gone \subseteq gone'
        BY <1>5, <2>1 DEF ListingChanges, ItemRemoved, syncVars, run
      <3>2. UNCHANGED Told
        BY <3>1 DEF Told, Entries, ReportsOf
      <3>3. \A x : Whole(x) => Whole(x)'
        BY <3>1, <3>2, WholeKept
      <3>4. \A i \in DOMAIN todo : ChildrenKnown(i) => ChildrenKnown(i)'
        BY <3>1 DEF ChildrenKnown, Has
      <3> QED BY <3>1, <3>3, <3>4 DEF ToldInv
    <2>2. CASE ItemAdded
      <3>1. UNCHANGED <<pc, page, handled, gone, unseen, objects, attempt, reports, todo, members>>
        BY <1>5, <2>2 DEF ListingChanges, ItemAdded, syncVars, run
      <3>2. UNCHANGED Told
        BY <3>1 DEF Told, Entries, ReportsOf
      <3> QED BY <3>1, <3>2 DEF ToldInv, Whole, ChildrenKnown, Has
    <2> QED BY <1>5, <2>1, <2>2 DEF ListingChanges
  <1>6. CASE MapSensors
    <2>1. /\ pc = "handle" /\ todo # <<>> /\ todo' = Tail(todo)
          /\ UNCHANGED <<vars, attempt, reports, gone>>
      BY <1>6 DEF MapSensors, vars
    <2>2. PICK item \in TodoItem : item = Head(todo) /\ item = todo[1] /\ 1 \in DOMAIN todo
      BY <2>1, HeadItem
    <2>3. PICK o \in Items : o = Head(todo).object /\ o = todo[1].object
      BY <2>2 DEF TodoItem
    <2>4. PICK found \in {{}, FragmentsOf[o]} :
            LookUp(o, found) /\ objects' = objects \union {Sensor(o, f) : f \in found}
      BY <1>6, <2>3 DEF MapSensors
    <2>5. o \notin Groups
      BY <1>6, <2>3 DEF MapSensors
    <2>6. unseen \subseteq unseen' /\ (o \in gone \/ o \in unseen' \/ found = FragmentsOf[o])
      BY <2>4, LookUpTyped DEF SyncTyped
    <2>7. Told \subseteq Told'
      BY <2>1, <2>4, ToldGrows
    <2>8. o \in gone \/ Whole(o)'
      BY <2>4, <2>5, <2>6 DEF Whole, Told, Sensor
    <2> QED BY <2>1, <2>3, <2>6, <2>7, <2>8, HeadTold
  <1>7. CASE MapGroup
    <2>1. /\ pc = "handle" /\ todo # <<>> /\ todo' = Tail(todo)
          /\ UNCHANGED <<vars, attempt, reports, gone, unseen>>
      BY <1>7 DEF MapGroup, vars
    <2>2. PICK item \in TodoItem : item = Head(todo) /\ item = todo[1] /\ 1 \in DOMAIN todo
      BY <2>1, HeadItem
    <2>3. PICK o \in Items : o = Head(todo).object /\ o = todo[1].object
      BY <2>2 DEF TodoItem
    <2>4. /\ o \in Groups /\ todo[1].children = {}
          /\ objects' = objects \union {Group(o, members)}
      BY <1>7, <2>2, <2>3 DEF MapGroup
    <2>5. \A c \in ChildrenOf[o] \ gone : Has(c, members)
      BY <2>1, <2>2, <2>3, <2>4 DEF ToldInv, ChildrenKnown
    <2>6. PICK e : e = Group(o, members)
      OBVIOUS
    <2>7. e.object = o /\ e.fragment = None /\ e.members = members
      BY <2>6 DEF Group
    <2>8. e \in Told'
      BY <2>4, <2>6 DEF Told
    <2>9. \A c \in ChildrenOf[o] \ gone' : Has(c, e.members)'
      BY <2>1, <2>5, <2>7 DEF Has
    <2>10. Whole(o)'
      BY <2>4, <2>7, <2>8, <2>9 DEF Whole
    <2>11. Told \subseteq Told'
      BY <2>1, <2>4, ToldGrows
    <2> QED BY <2>1, <2>3, <2>10, <2>11, HeadTold
  <1>8. CASE MapChild
    <2>1. /\ pc = "handle" /\ todo # <<>>
          /\ UNCHANGED <<handled, page, pc, shifted, attempt, reports, objects, gone>>
      BY <1>8 DEF MapChild, vars
    <2>2. PICK c \in Head(todo).children :
            /\ c \notin gone
            /\ \E found \in {{}, FragmentsOf[c]} :
                 /\ LookUp(c, found)
                 /\ members' = members \union {<<c, f>> : f \in found}
                                 \union (IF c \in Groups THEN {<<c, None>>} ELSE {})
            /\ todo' = [todo EXCEPT ![1].children = @ \ {c}]
      BY <1>8 DEF MapChild
    <2>3. PICK found \in {{}, FragmentsOf[c]} :
            /\ LookUp(c, found)
            /\ members' = members \union {<<c, f>> : f \in found}
                            \union (IF c \in Groups THEN {<<c, None>>} ELSE {})
      BY <2>2
    <2>4. PICK item \in TodoItem : item = Head(todo) /\ item = todo[1]
      BY <2>1, HeadItem
    <2>5. c \in Items
      BY <2>4 DEF TodoItem
    <2>6. /\ unseen \subseteq unseen' /\ members \subseteq members'
          /\ c \in unseen' \/ found = FragmentsOf[c]
      BY <2>2, <2>3, <2>5, LookUpTyped DEF SyncTyped
    <2>7. Has(c, members)'
      BY <2>3, <2>6 DEF Has
    <2>8. \A d : Has(d, members) => Has(d, members)'
      BY <2>6, HasKept DEF Has
    <2>9. Told \subseteq Told'
      BY <2>1, ToldGrows
    <2>10. \A x : Whole(x) => Whole(x)'
      BY <2>1, <2>6, <2>9, WholeKept
    <2>11. /\ DOMAIN todo' = DOMAIN todo
           /\ \A i \in DOMAIN todo : todo'[i].object = todo[i].object
           /\ \A i \in DOMAIN todo : i # 1 => todo'[i].children = todo[i].children
           /\ 1 \in DOMAIN todo => todo'[1].children = todo[1].children \ {c}
      <3>1. \A i \in DOMAIN todo : todo[i] \in TodoItem
        BY <2>1, HeadItem
      <3> QED BY <2>2, <3>1 DEF TodoItem
    <2>12. ASSUME NEW i \in DOMAIN todo' PROVE ChildrenKnown(i)'
      <3>1. ChildrenKnown(i)
        BY <2>1, <2>11 DEF ToldInv
      <3> QED BY <2>1, <2>7, <2>8, <2>11, <3>1 DEF ChildrenKnown
    <2> QED BY <2>1, <2>10, <2>11, <2>12 DEF ToldInv
  <1>9. CASE SendPage
    <2>1. /\ pc = "handle" /\ pc' = "loop" /\ todo = <<>>
          /\ handled' = handled \o page.data /\ UNCHANGED <<gone, unseen>>
      BY <1>9 DEF SendPage, HandlePage, server
    <2>2. page.data \in Seq(Items) /\ handled \in Seq(Items)
      BY <2>1 DEF SyncTyped, SyncTypeOK, TypeOK, Page
    <2>3. ToSet(handled') = ToSet(handled) \union ToSet(page.data)
      BY <2>1, <2>2, ConcatItems
    <2>4. DOMAIN todo = {}
      BY <2>1
    <2>5. \A x \in ToSet(handled') \ gone : Whole(x)
      BY <2>1, <2>3, <2>4 DEF ToldInv
    <2>6. Told \subseteq Told'
      BY <1>9, SentTold
    <2>7. \A x \in ToSet(handled') \ gone : Whole(x)'
      BY <2>1, <2>5, <2>6, WholeKept
    <2> QED BY <2>1, <2>7 DEF ToldInv
  <1>10. CASE Crash
    <2>1. handled' = <<>> /\ pc' = "loop"
      BY <1>10 DEF Crash, Kill
    <2>2. ToSet(handled') = {}
      BY <2>1 DEF ToSet
    <2> QED BY <2>1, <2>2 DEF ToldInv
  <1> QED BY <1>1, <1>2, <1>3, <1>4, <1>5, <1>6, <1>7, <1>8, <1>9, <1>10 DEF SyncNext

(* A sync that is done has told all there was when it began and is not     *)
(* gone, but for at most as many objects as were removed meanwhile         *)
(* (handlePageResult of ObjectSyncJobHandler, page by page).               *)
THEOREM Complete == SyncSpec => []SyncIsComplete
  <1>1. SyncSpec => [](SyncTyped /\ BeginInv)
    BY SyncInitTyped, SyncNextTyped, SyncInitTold, SyncNextBegin, PTL DEF SyncSpec
  <1>2. SyncSpec => []ToldInv
    BY <1>1, SyncInitTold, SyncNextTold, PTL DEF SyncSpec
  <1>3. MissedAreRemovals /\ BeginInv /\ ToldInv /\ SyncTyped /\ MissedInv => SyncIsComplete
    <2> SUFFICES ASSUME MissedAreRemovals, BeginInv, ToldInv, SyncTyped, MissedInv,
                        pc = "done", ~truncated, pageCounter < MaxPages
                 PROVE  Cardinality({o \in first \ gone : ~WhollyReported(o)}) =< shifted.removed
      BY DEF SyncIsComplete
    <2>1. Told = Entries(attempt)
      BY DEF BeginInv, Told
    <2>2. ASSUME NEW o \in ToSet(handled) \ gone PROVE WhollyReported(o)
      <3>1. Whole(o)
        BY DEF ToldInv
      <3> QED BY <2>1, <3>1 DEF Whole, WhollyReported, Has
    <2>3. {o \in first \ gone : ~WhollyReported(o)} \subseteq first \ ToSet(handled)
      BY <2>2
    <2>4. IsFiniteSet(first \ ToSet(handled))
      BY FS_Subset DEF MissedInv
    <2>5. /\ IsFiniteSet({o \in first \ gone : ~WhollyReported(o)})
          /\ Cardinality({o \in first \ gone : ~WhollyReported(o)})
               =< Cardinality(first \ ToSet(handled))
      BY <2>3, <2>4, AtMost
    <2>6. /\ Cardinality({o \in first \ gone : ~WhollyReported(o)}) \in Nat
          /\ Cardinality(first \ ToSet(handled)) \in Nat
          /\ shifted.removed \in Nat
      BY <2>4, <2>5, FS_CardinalityType DEF SyncTyped, SyncTypeOK, TypeOK
    <2> QED BY <2>5, <2>6 DEF MissedAreRemovals
  <1>4. Spec => []MissedInv
    BY InitMissed, NextMissed, DownloadTyped, PTL DEF Spec
  <1> QED BY <1>1, <1>2, <1>3, <1>4, SyncDownloads, SyncPages, PTL
------------------------------------------------------------------------------
(*                     The amount of a sync                                *)

(* How many entries message i has, and the messages S together.            *)
Size(R, i) == Cardinality(R[i].objects)

Amount(R, S) == MapThenSumSet(LAMBDA i : Cardinality(R[i].objects), S)

Picked(S) == CHOOSE x \in S : TRUE

(* it: the sums over the subsets of S, each by an element and the rest.    *)
Sums(it, R, S) ==
  it = [s \in SUBSET S |-> IF s = {} THEN 0
                           ELSE Size(R, Picked(s)) + it[s \ {Picked(s)}]]

AddsUp(it, R, S) ==
  \A s \in SUBSET S : it[s] = IF s = {} THEN 0 ELSE Size(R, Picked(s)) + it[s \ {Picked(s)}]

(* The sum of the community modules is the recursion over the subsets.     *)
LEMMA AmountIs ==
  ASSUME NEW R, NEW S
  PROVE  Amount(R, S) = (CHOOSE it : Sums(it, R, S))[S]
  BY DEF Amount, MapThenSumSet, MapThenFoldSet, Sums, Size, Picked

LEMMA SumsAddUp ==
  ASSUME NEW it, NEW R, NEW S, Sums(it, R, S)
  PROVE  AddsUp(it, R, S)
  BY Zenon DEF Sums, AddsUp

(* Of some subsets of a finite set one has no other within it.             *)
LEMMA LeastSubset ==
  ASSUME NEW S, IsFiniteSet(S), NEW B \in SUBSET (SUBSET S), B # {}
  PROVE  \E s \in B : \A t \in B : t \subseteq s => t = s
  <1>1. B \subseteq FiniteSubsetsOf(S)
    BY FS_Subset DEF FiniteSubsetsOf
  <1>2. PICK s \in B : \A t \in B : ~(<<t, s>> \in StrictSubsetOrdering(S))
    BY <1>1, WFMin, FS_StrictSubsetOrderingWellFounded
  <1>3. ASSUME NEW t \in B, t \subseteq s PROVE t = s
    BY <1>2, <1>3 DEF StrictSubsetOrdering
  <1> QED BY <1>3

LEMMA PickedIn ==
  ASSUME NEW S, S # {}
  PROVE  Picked(S) \in S
  BY DEF Picked

(* The sums over two sets agree on what is in both.                        *)
LEMMA SumsAgree ==
  ASSUME NEW R, NEW S, NEW T, IsFiniteSet(S), S \subseteq T,
         NEW a, AddsUp(a, R, S), NEW b, AddsUp(b, R, T)
  PROVE  a[S] = b[S]
  <1> DEFINE B == {s \in SUBSET S : a[s] # b[s]}
  <1>1. SUFFICES ASSUME B # {} PROVE FALSE
    OBVIOUS
  <1>2. PICK s \in B : \A t \in B : t \subseteq s => t = s
    <2>1. B \in SUBSET (SUBSET S)
      OBVIOUS
    <2> HIDE DEF B
    <2> QED BY <1>1, <2>1, LeastSubset
  <1>3. s # {}
    BY <1>2, S \subseteq T DEF AddsUp
  <1>4. PICK x : x = Picked(s)
    OBVIOUS
  <1>5. x \in s /\ s \in SUBSET S /\ s \in SUBSET T
    BY <1>3, <1>4, PickedIn
  <1>6. a[s \ {x}] = b[s \ {x}]
    <2>1. s \ {x} \notin B
      BY <1>2, <1>5
    <2> QED BY <2>1, <1>5
  <1>7. a[s] = Size(R, x) + a[s \ {x}]
    BY <1>3, <1>4, <1>5 DEF AddsUp
  <1>8. b[s] = Size(R, x) + b[s \ {x}]
    BY <1>3, <1>4, <1>5 DEF AddsUp
  <1> QED BY <1>2, <1>6, <1>7, <1>8

(* The recursion ends: were there a least subset without sums, those of the*)
(* subsets within it would give it some.                                   *)
LEMMA SumsExist ==
  ASSUME NEW R, NEW S, IsFiniteSet(S)
  PROVE  \E it : Sums(it, R, S)
  <1> DEFINE B == {s \in SUBSET S : ~ \E it : Sums(it, R, s)}
  <1>1. SUFFICES ASSUME B # {} PROVE FALSE
    OBVIOUS
  <1>2. PICK T \in B : \A t \in B : t \subseteq T => t = T
    <2>1. B \in SUBSET (SUBSET S)
      OBVIOUS
    <2> HIDE DEF B
    <2> QED BY <1>1, <2>1, LeastSubset
  <1>3. IsFiniteSet(T) /\ \A t \in SUBSET T : IsFiniteSet(t)
    BY <1>2, FS_Subset
  <1> DEFINE V(s) == Amount(R, s)
  <1>4. ASSUME NEW s \in SUBSET T, s # T
        PROVE  V(s) = IF s = {} THEN 0 ELSE Size(R, Picked(s)) + V(s \ {Picked(s)})
    <2>1. \A t \in SUBSET s : \E it : Sums(it, R, t)
      BY <1>2, <1>4
    <2>2. \A t \in SUBSET s : Sums(CHOOSE it : Sums(it, R, t), R, t)
      BY <2>1
    <2>3. PICK a : a = CHOOSE it : Sums(it, R, s)
      OBVIOUS
    <2>4. AddsUp(a, R, s) /\ V(s) = a[s]
      BY <2>2, <2>3, AmountIs, SumsAddUp
    <2>5. CASE s = {}
      BY <2>4, <2>5 DEF AddsUp
    <2>6. CASE s # {}
      <3>1. PICK t : t = s \ {Picked(s)}
        OBVIOUS
      <3>2. PICK b : b = CHOOSE it : Sums(it, R, t)
        OBVIOUS
      <3>3. AddsUp(b, R, t) /\ V(t) = b[t] /\ t \subseteq s
        BY <2>2, <3>1, <3>2, AmountIs, SumsAddUp
      <3>4. b[t] = a[t]
        BY <1>3, <2>4, <3>3, SumsAgree
      <3>5. a[s] = Size(R, Picked(s)) + a[t]
        BY <2>4, <2>6, <3>1 DEF AddsUp
      <3> QED BY <2>4, <2>6, <3>1, <3>3, <3>4, <3>5
    <2> QED BY <2>5, <2>6
  <1> DEFINE W(s) == IF s = {} THEN 0 ELSE Size(R, Picked(s)) + V(s \ {Picked(s)})
             it == [s \in SUBSET T |-> W(s)]
  <1> HIDE DEF V
  <1>5. ASSUME NEW s \in SUBSET T, s # {} PROVE it[s \ {Picked(s)}] = V(s \ {Picked(s)})
    <2>1. PICK t : t = s \ {Picked(s)}
      OBVIOUS
    <2>2. t \in SUBSET T /\ t # T
      BY <1>5, <2>1, PickedIn
    <2>3. V(t) = W(t)
      BY <1>4, <2>2
    <2> QED BY <2>1, <2>2, <2>3
  <1>6. it = [s \in SUBSET T |-> IF s = {} THEN 0
                                 ELSE Size(R, Picked(s)) + it[s \ {Picked(s)}]]
    BY <1>5
  <1>7. Sums(it, R, T)
    BY <1>6 DEF Sums
  <1> HIDE DEF it
  <1> QED BY <1>2, <1>7

(* An amount is that of an element and that of the others.                 *)
LEMMA AmountSplit ==
  ASSUME NEW R, NEW S, IsFiniteSet(S)
  PROVE  Amount(R, S) = IF S = {} THEN 0
                        ELSE Size(R, Picked(S)) + Amount(R, S \ {Picked(S)})
  <1>1. PICK a : Sums(a, R, S) /\ a = CHOOSE it : Sums(it, R, S)
    BY SumsExist
  <1>2. AddsUp(a, R, S) /\ Amount(R, S) = a[S]
    BY <1>1, AmountIs, SumsAddUp
  <1>3. CASE S = {}
    BY <1>2, <1>3 DEF AddsUp
  <1>4. CASE S # {}
    <2>1. PICK t : t = S \ {Picked(S)}
      OBVIOUS
    <2>2. IsFiniteSet(t) /\ t \subseteq S
      BY <2>1, FS_Subset
    <2>3. PICK b : Sums(b, R, t) /\ b = CHOOSE it : Sums(it, R, t)
      BY <2>2, SumsExist
    <2>4. AddsUp(b, R, t) /\ Amount(R, t) = b[t]
      BY <2>3, AmountIs, SumsAddUp
    <2>5. b[t] = a[t]
      BY <1>2, <2>2, <2>4, SumsAgree
    <2>6. a[S] = Size(R, Picked(S)) + a[t]
      BY <1>2, <1>4, <2>1 DEF AddsUp
    <2> QED BY <1>2, <1>4, <2>1, <2>4, <2>5, <2>6
  <1> QED BY <1>3, <1>4

Sized(R, S) == \A i \in S : Size(R, i) \in Nat

(* An amount is a number.                                                  *)
LEMMA AmountNat ==
  ASSUME NEW R, NEW S, IsFiniteSet(S), Sized(R, S)
  PROVE  Amount(R, S) \in Nat
  <1> DEFINE B == {s \in SUBSET S : Amount(R, s) \notin Nat}
  <1>1. SUFFICES ASSUME B # {} PROVE FALSE
    OBVIOUS
  <1>2. PICK s \in B : \A t \in B : t \subseteq s => t = s
    <2>1. B \in SUBSET (SUBSET S)
      OBVIOUS
    <2> HIDE DEF B
    <2> QED BY <1>1, <2>1, LeastSubset
  <1>3. PICK x : x = Picked(s)
    OBVIOUS
  <1>4. IsFiniteSet(s)
    BY <1>2, FS_Subset
  <1>5. s # {}
    <2>1. Amount(R, {}) = 0
      BY FS_EmptySet, AmountSplit
    <2>2. Amount(R, s) # 0
      BY <1>2
    <2> QED BY ONLY <2>1, <2>2
  <1>6. Amount(R, s) = Size(R, x) + Amount(R, s \ {x})
    BY <1>3, <1>4, <1>5, AmountSplit
  <1>7. x \in s /\ Size(R, x) \in Nat
    BY <1>3, <1>5, PickedIn DEF Sized
  <1>8. Amount(R, s \ {x}) \in Nat
    BY <1>2, <1>7
  <1> QED BY <1>2, <1>6, <1>7, <1>8

(* It does not depend on which element comes first ...                     *)
LEMMA AmountAny ==
  ASSUME NEW R, NEW S, IsFiniteSet(S), Sized(R, S), NEW y \in S
  PROVE  Amount(R, S) = Size(R, y) + Amount(R, S \ {y})
  <1> DEFINE Fits(s) == \A z \in s : Amount(R, s) = Size(R, z) + Amount(R, s \ {z})
             B == {s \in SUBSET S : ~Fits(s)}
  <1>1. SUFFICES ASSUME B # {} PROVE FALSE
    BY DEF Fits
  <1>2. PICK s \in B : \A t \in B : t \subseteq s => t = s
    <2>1. B \in SUBSET (SUBSET S)
      OBVIOUS
    <2> HIDE DEF B
    <2> QED BY <1>1, <2>1, LeastSubset
  <1>3. PICK z \in s : Amount(R, s) # Size(R, z) + Amount(R, s \ {z})
    BY <1>2
  <1>4. PICK x : x = Picked(s)
    OBVIOUS
  <1>5. x \in s /\ IsFiniteSet(s) /\ s \subseteq S /\ IsFiniteSet(s \ {x})
        /\ IsFiniteSet(s \ {z}) /\ IsFiniteSet(s \ {x, z})
    BY <1>2, <1>3, <1>4, FS_Subset, PickedIn
  <1>6. Amount(R, s) = Size(R, x) + Amount(R, s \ {x})
    BY <1>3, <1>4, <1>5, AmountSplit
  <1>7. x # z
    BY <1>3, <1>6
  <1>8. Fits(s \ {x}) /\ Fits(s \ {z})
    BY <1>2, <1>3, <1>5
  <1>9. /\ Amount(R, s \ {x}) = Size(R, z) + Amount(R, (s \ {x}) \ {z})
        /\ Amount(R, s \ {z}) = Size(R, x) + Amount(R, (s \ {z}) \ {x})
    BY <1>3, <1>5, <1>7, <1>8
  <1>10. (s \ {x}) \ {z} = s \ {x, z} /\ (s \ {z}) \ {x} = s \ {x, z}
    OBVIOUS
  <1>11. /\ Size(R, x) \in Nat /\ Size(R, z) \in Nat
         /\ Sized(R, s \ {x, z})
    BY <1>3, <1>5 DEF Sized
  <1>12. Amount(R, s \ {x, z}) \in Nat
    BY <1>5, <1>11, AmountNat
  <1> QED BY <1>3, <1>6, <1>9, <1>10, <1>11, <1>12

(* ... nor on anything but the sizes.                                      *)
LEMMA AmountSame ==
  ASSUME NEW R, NEW Q, NEW S, IsFiniteSet(S), \A i \in S : Size(R, i) = Size(Q, i)
  PROVE  Amount(R, S) = Amount(Q, S)
  <1> DEFINE B == {s \in SUBSET S : Amount(R, s) # Amount(Q, s)}
  <1>1. SUFFICES ASSUME B # {} PROVE FALSE
    OBVIOUS
  <1>2. PICK s \in B : \A t \in B : t \subseteq s => t = s
    <2>1. B \in SUBSET (SUBSET S)
      OBVIOUS
    <2> HIDE DEF B
    <2> QED BY <1>1, <2>1, LeastSubset
  <1>3. PICK x : x = Picked(s)
    OBVIOUS
  <1>4. IsFiniteSet(s)
    BY <1>2, FS_Subset
  <1>5. s # {}
    BY <1>2, <1>4, AmountSplit
  <1>6. /\ Amount(R, s) = Size(R, x) + Amount(R, s \ {x})
        /\ Amount(Q, s) = Size(Q, x) + Amount(Q, s \ {x})
    BY <1>3, <1>4, <1>5, AmountSplit
  <1>7. x \in s /\ Size(R, x) = Size(Q, x)
    BY <1>3, <1>5, PickedIn
  <1>8. Amount(R, s \ {x}) = Amount(Q, s \ {x})
    BY <1>2, <1>7
  <1> QED BY <1>2, <1>6, <1>7, <1>8

(* Which of the messages R are those of run k.                             *)
Of(R, k) == {i \in DOMAIN R : R[i].attempt = k}

(* Q: the messages R and one more.                                         *)
OneSent(R, Q, n, k, content) ==
  /\ n \in Nat
  /\ DOMAIN R = 1..n /\ DOMAIN Q = 1..n + 1
  /\ \A i \in 1..n : Q[i] = R[i] /\ IsFiniteSet(R[i].objects)
  /\ Q[n + 1] = [attempt |-> k, objects |-> content]
  /\ IsFiniteSet(content)

(* The amount of a run grows by the entries of its message, those of the   *)
(* others are what they were.                                              *)
LEMMA AmountSent ==
  ASSUME NEW R, NEW Q, NEW n, NEW k, NEW content, OneSent(R, Q, n, k, content), NEW l
  PROVE  Amount(Q, Of(Q, l)) = IF l = k THEN Amount(R, Of(R, l)) + Cardinality(content)
                               ELSE Amount(R, Of(R, l))
  <1>1. PICK old : old = Of(R, l)
    OBVIOUS
  <1>2. PICK all : all = Of(Q, l)
    OBVIOUS
  <1>3. PICK m : m = n + 1
    OBVIOUS
  <1>4. /\ m \notin old /\ old \subseteq 1..n /\ all \subseteq 1..n + 1
        /\ all = IF l = k THEN old \union {m} ELSE old
    <2>1. \A i : i \in 1..n + 1 <=> i \in 1..n \/ i = m
      BY <1>3 DEF OneSent
    <2>2. m \notin 1..n
      BY <1>3 DEF OneSent
    <2>3. Q[m].attempt = k
      BY <1>3 DEF OneSent
    <2> QED BY <1>1, <1>2, <2>1, <2>2, <2>3 DEF OneSent, Of
  <1>5. IsFiniteSet(old) /\ IsFiniteSet(all)
    <2>1. IsFiniteSet(1..n) /\ IsFiniteSet(1..n + 1)
      BY FS_Interval DEF OneSent
    <2> QED BY <1>4, <2>1, FS_Subset
  <1>6. Size(Q, m) = Cardinality(content) /\ Size(Q, m) \in Nat
    BY <1>3, FS_CardinalityType DEF Size, OneSent
  <1>7. \A i \in old : Size(Q, i) = Size(R, i) /\ Size(Q, i) \in Nat
    BY <1>4, FS_CardinalityType DEF Size, OneSent
  <1>8. Amount(Q, old) = Amount(R, old)
    BY <1>5, <1>7, AmountSame
  <1>9. CASE l # k
    BY <1>1, <1>2, <1>4, <1>8, <1>9
  <1>10. CASE l = k
    <2>1. m \in all /\ all \ {m} = old
      BY <1>4, <1>10
    <2>2. Sized(Q, all)
      BY <1>4, <1>6, <1>7, <1>10 DEF Sized
    <2>3. Amount(Q, all) = Size(Q, m) + Amount(Q, old)
      BY <1>5, <2>1, <2>2, AmountAny
    <2>4. PICK x \in Nat : x = Amount(Q, old)
      BY <1>5, <1>7, AmountNat DEF Sized
    <2>5. PICK y \in Nat : y = Size(Q, m)
      BY <1>6
    <2>6. Amount(Q, all) = x + y
      BY ONLY <2>3, <2>4, <2>5
    <2> QED BY <1>1, <1>2, <1>6, <1>8, <1>10, <2>4, <2>5, <2>6
  <1> QED BY <1>9, <1>10

(* The answers A give the amounts of the messages R.                       *)
Right(A, R) == \A a \in A : a.status = "DONE" => a.objectAmount = Amount(R, Of(R, a.attempt))

(* A run counts from nothing what it sends, the answers of earlier runs    *)
(* stay apart from the messages of this one, and a message is finite.      *)
AmountInv ==
  /\ job \in {"new", "due", "locked"} => objectAmount = 0
  /\ job = "running" => /\ objectAmount = Amount(reports, Of(reports, attempt))
                        /\ \A a \in answers : a.attempt < attempt
  /\ \A i \in DOMAIN reports : IsFiniteSet(reports[i].objects)
  /\ Right(answers, reports)

LEMMA RightReported ==
  ASSUME Right(answers, reports) PROVE AmountIsReported
  BY DEF AmountIsReported, Right, Amount, ReportsOf, Of

LEMMA SyncInitAmount ==
  ASSUME SyncInit PROVE AmountInv
  BY DEF SyncInit, AmountInv, Right

LEMMA SendPageAmount ==
  ASSUME SyncTyped, AmountInv, SendPage PROVE AmountInv'
  <1>1. job = "running" /\ UNCHANGED <<job, attempt, answers>>
    BY DEF SendPage, HandlePage, SyncTyped
  <1>2. objectAmount' = objectAmount + Cardinality(objects) /\ reports' = Reported
    BY DEF SendPage
  <1>3. \A a \in answers : a.attempt < attempt
    BY <1>1 DEF AmountInv
  <1>4. attempt \in Nat /\ objectAmount \in Nat /\ IsFiniteSet(objects)
    BY DEF SyncTyped, SyncTypeOK
  <1>5. objectAmount = Amount(reports, Of(reports, attempt))
    BY <1>1 DEF AmountInv
  <1>6. CASE objects = {}
    <2>1. reports' = reports /\ objectAmount' = objectAmount
      BY <1>2, <1>4, <1>6, FS_EmptySet DEF Reported
    <2> QED BY <1>1, <2>1 DEF AmountInv
  <1>7. CASE objects # {}
    <2>1. PICK n \in Nat : n = Len(reports) /\ DOMAIN reports = 1..n
      BY LenProperties DEF SyncTyped, SyncTypeOK
    <2>2. /\ DOMAIN reports' = 1..n + 1
          /\ \A i \in 1..n : reports'[i] = reports[i]
          /\ reports'[n + 1] = [attempt |-> attempt, objects |-> objects]
      BY <1>2, <1>7, <2>1, AppendProperties DEF Reported, SyncTyped, SyncTypeOK
    <2>3. PICK Q : Q = reports'
      OBVIOUS
    <2>4. OneSent(reports, Q, n, attempt, objects)
      BY <1>4, <2>1, <2>2, <2>3 DEF OneSent, AmountInv
    <2>5. Amount(Q, Of(Q, attempt)) = Amount(reports, Of(reports, attempt)) + Cardinality(objects)
      BY <2>4, AmountSent
    <2>6. \A i \in DOMAIN Q : IsFiniteSet(Q[i].objects)
      <3>1. \A i \in 1..n + 1 : i \in 1..n \/ i = n + 1
        OBVIOUS
      <3> QED BY <2>4, <3>1 DEF OneSent
    <2>7. ASSUME NEW a \in answers, a.status = "DONE"
          PROVE  a.objectAmount = Amount(Q, Of(Q, a.attempt))
      <3>1. PICK l : l = a.attempt
        OBVIOUS
      <3>2. l \in Nat /\ l < attempt
        BY <1>3, <3>1 DEF SyncTyped, SyncTypeOK
      <3>3. l # attempt
        BY <1>4, <3>2
      <3>4. a.objectAmount = Amount(reports, Of(reports, l))
        BY <2>7, <3>1 DEF AmountInv, Right
      <3>5. Amount(Q, Of(Q, l)) = Amount(reports, Of(reports, l))
        BY <2>4, <3>3, AmountSent
      <3> QED BY <3>1, <3>4, <3>5
    <2>8. Right(answers, Q)
      BY <2>7 DEF Right
    <2>9. objectAmount' = Amount(Q, Of(Q, attempt))
      BY <1>2, <1>5, <2>5
    <2> QED BY <1>1, <1>3, <2>3, <2>6, <2>8, <2>9 DEF AmountInv
  <1> QED BY <1>6, <1>7

LEMMA SyncNextAmount ==
  ASSUME SyncTyped, AmountInv, [SyncNext]_allVars PROVE AmountInv'
  <1>1. ASSUME UNCHANGED <<attempt, objectAmount, reports, answers>>,
               job' = "running" => job = "running",
               job' \in {"new", "due", "locked"} => job \in {"new", "due", "locked"}
        PROVE  AmountInv'
    BY <1>1 DEF AmountInv
  <1>2. CASE ScheduleTask \/ Finish \/ LockExpires \/ UNCHANGED allVars
    BY <1>1, <1>2 DEF ScheduleTask, Finish, LockExpires, allVars, syncVars, run
  <1>3. CASE ReadPage \/ ReadFails \/ EndLoop \/ ListingChanges
    BY <1>1, <1>3 DEF ReadPage, ReadFails, EndLoop, ListingChanges, syncVars, run
  <1>4. CASE MapSensors \/ MapChild \/ MapGroup \/ ChildFails
    BY <1>1, <1>4 DEF MapSensors, MapChild, MapGroup, ChildFails, run
  <1>5. CASE Start
    <2>1. /\ job = "due" /\ attempt' = attempt + 1
          /\ UNCHANGED <<objectAmount, reports, answers>>
      BY <1>5 DEF Start, run
    <2>2. attempt \in Nat /\ objectAmount = 0
      BY <2>1 DEF SyncTyped, SyncTypeOK, AmountInv
    <2>3. \A a \in answers : a.attempt < attempt'
      BY <2>1, <2>2 DEF SyncTyped, SyncTypeOK
    <2>4. Of(reports, attempt') = {}
      <3>1. PICK S : S = [attempt : 1..attempt, objects : SUBSET Entry]
        OBVIOUS
      <3>2. reports \in Seq(S)
        BY <3>1 DEF SyncTyped, SyncTypeOK
      <3>3. \A i \in DOMAIN reports : reports[i] \in S
        BY <3>2, ToSetFacts
      <3>4. \A i \in DOMAIN reports : reports[i].attempt \in 1..attempt
        BY <3>1, <3>3
      <3>5. attempt + 1 \notin 1..attempt
        BY <2>2
      <3> QED BY <2>1, <3>4, <3>5 DEF Of
    <2>5. Amount(reports, Of(reports, attempt')) = 0
      BY <2>4, FS_EmptySet, AmountSplit
    <2> QED BY <1>5, <2>1, <2>2, <2>3, <2>5 DEF Start, AmountInv
  <1>6. CASE StartFails
    <2>1. /\ job' = "answered" /\ UNCHANGED reports
          /\ \A a \in answers' : a \in answers \/ a.status = "FAILED"
      BY <1>6 DEF StartFails, Tell
    <2>2. Right(answers', reports)
      BY <2>1 DEF AmountInv, Right
    <2> QED BY <2>1, <2>2 DEF AmountInv
  <1>7. CASE SendPage
    BY <1>7, SendPageAmount
  <1>8. CASE Answer
    <2>1. /\ job = "running" /\ job' = "answered"
          /\ UNCHANGED <<attempt, objectAmount, reports>>
      BY <1>8 DEF Answer, run
    <2>2. \A a \in answers' :
            a \in answers \/ (a.attempt = attempt /\ a.objectAmount = objectAmount)
      BY <1>8, <2>1 DEF Answer, Tell
    <2>3. objectAmount = Amount(reports, Of(reports, attempt))
      BY <2>1 DEF AmountInv
    <2>4. Right(answers', reports)
      BY <2>2, <2>3 DEF AmountInv, Right
    <2> QED BY <2>1, <2>4 DEF AmountInv
  <1>9. CASE Crash
    BY <1>9 DEF Crash, AmountInv
  <1> QED BY <1>2, <1>3, <1>4, <1>5, <1>6, <1>7, <1>8, <1>9 DEF SyncNext

(* The amount that a DONE answer gives is the number of entries in the     *)
(* messages of that run, however many runs were killed before it or are    *)
(* killed after it (handlePageResult and runObjectSyncJob).                *)
THEOREM AmountReported == SyncSpec => []AmountIsReported
  <1>1. AmountInv => AmountIsReported
    BY RightReported DEF AmountInv
  <1>2. SyncSpec => []SyncTyped
    BY SyncInitTyped, SyncNextTyped, PTL DEF SyncSpec
  <1> QED BY <1>1, <1>2, SyncInitAmount, SyncNextAmount, PTL DEF SyncSpec
=============================================================================
