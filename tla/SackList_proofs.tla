--------------------------- MODULE SackList_proofs ---------------------------
(***************************************************************************)
(* Proofs that the SACK list of sacks.c is, for every set of numbers and   *)
(* every sequence of calls, a set of numbers in normal form.               *)
(***************************************************************************)
EXTENDS SackList, TLAPS

-----------------------------------------------------------------------------
(* What each rewriting of the list does.                                   *)

(* The items of a list are ranges of naturals.                             *)
LEMMA ItemType ==
  ASSUME NEW list \in Seq(Range), NEW k \in 1 .. Len(list)
  PROVE  list[k] \in Range /\ list[k].start \in Nat /\ list[k].end \in Nat
<1>1. list[k] \in Range
  OBVIOUS
<1>. QED
  BY <1>1 DEF Range

(* An empty list covers nothing.                                           *)
LEMMA EmptyCovered ==
  Covered(<<>>) = {}
BY DEF Covered

(* Membership in Covered, item by item.                                    *)
LEMMA InCovered ==
  ASSUME NEW list \in Seq(Range), NEW n
  PROVE  n \in Covered(list) <=>
           /\ n \in Nat
           /\ \E k \in 1 .. Len(list) : list[k].start <= n /\ n <= list[k].end
<1>1. DOMAIN list = 1 .. Len(list)
  OBVIOUS
<1>2. \A k \in 1 .. Len(list) : list[k].start \in Nat /\ list[k].end \in Nat
  BY ItemType
<1>3. n \in Covered(list) <=>
        \E k \in 1 .. Len(list) : n \in list[k].start .. list[k].end
  BY <1>1, Zenon DEF Covered
<1>. QED
  BY <1>2, <1>3

(* The normal form, item by item.                                          *)
LEMMA DescendingItems ==
  ASSUME NEW list \in Seq(Range)
  PROVE  Descending(list) <=>
           /\ \A k \in 1 .. Len(list) : list[k].start <= list[k].end
           /\ \A i, j \in 1 .. Len(list) :
                i < j => list[j].end + 1 < list[i].start
<1>1. DOMAIN list = 1 .. Len(list)
  OBVIOUS
<1>. QED
  BY <1>1, Zenon DEF Descending

(* SetStart changes one field of one item.                                 *)
LEMMA SetStartItems ==
  ASSUME NEW list \in Seq(Range), NEW i \in 1 .. Len(list), NEW n \in Nat
  PROVE  /\ SetStart(list, i, n) \in Seq(Range)
         /\ Len(SetStart(list, i, n)) = Len(list)
         /\ \A k \in 1 .. Len(list) :
              /\ SetStart(list, i, n)[k].end = list[k].end
              /\ SetStart(list, i, n)[k].start = IF k = i THEN n ELSE list[k].start
<1>1. list[i] \in Range
  OBVIOUS
<1>2. SetStart(list, i, n) = [list EXCEPT ![i] = [list[i] EXCEPT !.start = n]]
  BY Zenon DEF SetStart
<1>3. [list[i] EXCEPT !.start = n] \in Range
  BY <1>1 DEF Range
<1>4. /\ [list[i] EXCEPT !.start = n].start = n
      /\ [list[i] EXCEPT !.start = n].end = list[i].end
  BY <1>1 DEF Range
<1>. QED
  BY <1>2, <1>3, <1>4

(* SetEnd changes one field of one item.                                   *)
LEMMA SetEndItems ==
  ASSUME NEW list \in Seq(Range), NEW i \in 1 .. Len(list), NEW n \in Nat
  PROVE  /\ SetEnd(list, i, n) \in Seq(Range)
         /\ Len(SetEnd(list, i, n)) = Len(list)
         /\ \A k \in 1 .. Len(list) :
              /\ SetEnd(list, i, n)[k].start = list[k].start
              /\ SetEnd(list, i, n)[k].end = IF k = i THEN n ELSE list[k].end
<1>1. list[i] \in Range
  OBVIOUS
<1>2. SetEnd(list, i, n) = [list EXCEPT ![i] = [list[i] EXCEPT !.end = n]]
  BY Zenon DEF SetEnd
<1>3. [list[i] EXCEPT !.end = n] \in Range
  BY <1>1 DEF Range
<1>4. /\ [list[i] EXCEPT !.end = n].end = n
      /\ [list[i] EXCEPT !.end = n].start = list[i].start
  BY <1>1 DEF Range
<1>. QED
  BY <1>2, <1>3, <1>4

(* Remove shifts the items after the one removed.                          *)
LEMMA RemoveItems ==
  ASSUME NEW S, NEW list \in Seq(S), NEW i \in 1 .. Len(list)
  PROVE  /\ Remove(list, i) \in Seq(S)
         /\ Len(Remove(list, i)) = Len(list) - 1
         /\ \A k \in 1 .. Len(list) - 1 :
              /\ k < i => Remove(list, i)[k] = list[k]
              /\ k >= i => Remove(list, i)[k] = list[k + 1]
BY DEF Remove

(* Insert shifts the items from the position on.                           *)
LEMMA InsertItems ==
  ASSUME NEW list \in Seq(Range), NEW i \in 1 .. Len(list) + 1,
         NEW range \in Range
  PROVE  /\ Insert(list, i, range) \in Seq(Range)
         /\ Len(Insert(list, i, range)) = Len(list) + 1
         /\ Insert(list, i, range)[i] = range
         /\ \A k \in 1 .. Len(list) + 1 :
              /\ k < i => Insert(list, i, range)[k] = list[k]
              /\ k > i => Insert(list, i, range)[k] = list[k - 1]
BY DEF Insert

-----------------------------------------------------------------------------
(* The rewritings keep the normal form, and add or drop exactly the numbers *)
(* they should.                                                             *)

(* An item stretched down, clear of the next one.                           *)
LEMMA StretchDown ==
  ASSUME NEW list \in Seq(Range), Descending(list),
         NEW i \in 1 .. Len(list), NEW n \in Nat,
         n <= list[i].start,
         i < Len(list) => list[i + 1].end + 1 < n
  PROVE  /\ Descending(SetStart(list, i, n))
         /\ Covered(SetStart(list, i, n)) = Covered(list) \cup (n .. list[i].start)
<1> DEFINE new == SetStart(list, i, n)
<1>1. /\ new \in Seq(Range)
      /\ Len(new) = Len(list)
      /\ \A k \in 1 .. Len(list) :
            /\ new[k].end = list[k].end
            /\ new[k].start = IF k = i THEN n ELSE list[k].start
  BY SetStartItems
<1> HIDE DEF new
<1>2. /\ \A k \in 1 .. Len(list) : /\ list[k].start \in Nat
                                     /\ list[k].end \in Nat
                                     /\ list[k].start <= list[k].end
      /\ \A j, k \in 1 .. Len(list) : j < k => list[k].end + 1 < list[j].start
  BY ItemType, DescendingItems
<1>3. \A j \in 1 .. Len(list) : i < j => list[j].end + 1 < n
  <2> SUFFICES ASSUME NEW j \in 1 .. Len(list), i < j
               PROVE  list[j].end + 1 < n
    OBVIOUS
  <2>1. list[i + 1].end + 1 < n
    OBVIOUS
  <2>2. CASE j = i + 1
    BY <2>1, <2>2
  <2>3. CASE j > i + 1
    <3>1. i + 1 \in 1 .. Len(list)
      BY <2>3
    <3>2. list[j].end + 1 < list[i + 1].start
      BY <1>2, <2>3, <3>1
    <3>3. list[i + 1].start <= list[i + 1].end
      BY <1>2, <3>1
    <3>4. /\ list[i + 1].start \in Nat /\ list[i + 1].end \in Nat
          /\ list[j].end \in Nat
      BY <1>2, <3>1
    <3>. QED
      BY <2>1, <3>2, <3>3, <3>4
  <2>. QED
    BY <2>2, <2>3
<1>4. Descending(new)
  <2>1. \A k \in 1 .. Len(new) : new[k].start <= new[k].end
    BY <1>1, <1>2
  <2>2. \A j, k \in 1 .. Len(new) : j < k => new[k].end + 1 < new[j].start
    BY SMTT(30), <1>1, <1>2, <1>3
  <2>. QED
    BY <1>1, <2>1, <2>2, DescendingItems
<1>5. \A x : x \in Covered(new) <=> x \in Covered(list) \cup (n .. list[i].start)
  <2> TAKE x
  <2>1. x \in Covered(new) <=>
          /\ x \in Nat
          /\ \E k \in 1 .. Len(list) : new[k].start <= x /\ x <= new[k].end
    BY <1>1, InCovered
  <2>2. x \in Covered(list) <=>
          /\ x \in Nat
          /\ \E k \in 1 .. Len(list) : list[k].start <= x /\ x <= list[k].end
    BY InCovered
  <2>3. ASSUME x \in Nat, NEW k \in 1 .. Len(list),
               new[k].start <= x, x <= new[k].end
        PROVE  x \in Covered(list) \cup (n .. list[i].start)
    <3>1. CASE k = i
      BY <1>1, <1>2, <2>2, <2>3, <3>1
    <3>2. CASE k # i
      BY <1>1, <1>2, <2>2, <2>3, <3>2
    <3>. QED
      BY <3>1, <3>2
  <2>4. ASSUME x \in Nat, NEW k \in 1 .. Len(list),
               list[k].start <= x, x <= list[k].end
        PROVE  x \in Covered(new)
    BY <1>1, <1>2, <2>1, <2>4
  <2>5. ASSUME x \in n .. list[i].start
        PROVE  x \in Covered(new)
    BY <1>1, <1>2, <2>1, <2>5
  <2>. QED
    BY <2>1, <2>2, <2>3, <2>4, <2>5
<1>. QED
  BY <1>4, <1>5 DEF new

(* An item stretched up, clear of the previous one.                         *)
LEMMA StretchUp ==
  ASSUME NEW list \in Seq(Range), Descending(list),
         NEW i \in 1 .. Len(list), NEW n \in Nat,
         n >= list[i].end,
         i > 1 => n + 1 < list[i - 1].start
  PROVE  /\ Descending(SetEnd(list, i, n))
         /\ Covered(SetEnd(list, i, n)) = Covered(list) \cup (list[i].end .. n)
<1> DEFINE new == SetEnd(list, i, n)
<1>1. /\ new \in Seq(Range)
      /\ Len(new) = Len(list)
      /\ \A k \in 1 .. Len(list) :
            /\ new[k].start = list[k].start
            /\ new[k].end = IF k = i THEN n ELSE list[k].end
  BY SetEndItems
<1> HIDE DEF new
<1>2. /\ \A k \in 1 .. Len(list) : /\ list[k].start \in Nat
                                     /\ list[k].end \in Nat
                                     /\ list[k].start <= list[k].end
      /\ \A j, k \in 1 .. Len(list) : j < k => list[k].end + 1 < list[j].start
  BY ItemType, DescendingItems
<1>3. \A j \in 1 .. Len(list) : j < i => n + 1 < list[j].start
  <2> SUFFICES ASSUME NEW j \in 1 .. Len(list), j < i
               PROVE  n + 1 < list[j].start
    OBVIOUS
  <2>1. n + 1 < list[i - 1].start
    OBVIOUS
  <2>2. CASE j = i - 1
    BY <2>1, <2>2
  <2>3. CASE j < i - 1
    BY SMTT(30), <1>2, <2>1, <2>3
  <2>. QED
    BY <2>2, <2>3
<1>4. Descending(new)
  <2>1. \A k \in 1 .. Len(new) : new[k].start <= new[k].end
    BY <1>1, <1>2
  <2>2. \A j, k \in 1 .. Len(new) : j < k => new[k].end + 1 < new[j].start
    BY <1>1, <1>2, <1>3
  <2>. QED
    BY <1>1, <2>1, <2>2, DescendingItems
<1>5. \A x : x \in Covered(new) <=> x \in Covered(list) \cup (list[i].end .. n)
  <2> TAKE x
  <2>1. x \in Covered(new) <=>
          /\ x \in Nat
          /\ \E k \in 1 .. Len(list) : new[k].start <= x /\ x <= new[k].end
    BY <1>1, InCovered
  <2>2. x \in Covered(list) <=>
          /\ x \in Nat
          /\ \E k \in 1 .. Len(list) : list[k].start <= x /\ x <= list[k].end
    BY InCovered
  <2>3. ASSUME x \in Nat, NEW k \in 1 .. Len(list),
               new[k].start <= x, x <= new[k].end
        PROVE  x \in Covered(list) \cup (list[i].end .. n)
    <3>1. CASE k = i
      BY <1>1, <1>2, <2>2, <2>3, <3>1
    <3>2. CASE k # i
      BY <1>1, <1>2, <2>2, <2>3, <3>2
    <3>. QED
      BY <3>1, <3>2
  <2>4. ASSUME x \in Nat, NEW k \in 1 .. Len(list),
               list[k].start <= x, x <= list[k].end
        PROVE  x \in Covered(new)
    BY <1>1, <1>2, <2>1, <2>4
  <2>5. ASSUME x \in list[i].end .. n
        PROVE  x \in Covered(new)
    <3>1. x \in Nat /\ new[i].start <= x /\ x <= new[i].end
      BY <1>1, <1>2, <2>5
    <3>. QED
      BY <2>1, <3>1
  <2>. QED
    BY <2>1, <2>2, <2>3, <2>4, <2>5
<1>. QED
  BY <1>4, <1>5 DEF new

(* An item removed: nothing else goes with it.                              *)
LEMMA RemoveItem ==
  ASSUME NEW list \in Seq(Range), Descending(list), NEW i \in 1 .. Len(list)
  PROVE  /\ Descending(Remove(list, i))
         /\ Covered(Remove(list, i)) \subseteq Covered(list)
         /\ Covered(list) \subseteq
               Covered(Remove(list, i)) \cup (list[i].start .. list[i].end)
<1> DEFINE new == Remove(list, i)
<1>1. /\ new \in Seq(Range)
      /\ Len(new) = Len(list) - 1
      /\ \A k \in 1 .. Len(list) - 1 :
            /\ k < i => new[k] = list[k]
            /\ k >= i => new[k] = list[k + 1]
  BY RemoveItems
<1> HIDE DEF new
<1>2. /\ \A k \in 1 .. Len(list) : /\ list[k].start \in Nat
                                     /\ list[k].end \in Nat
                                     /\ list[k].start <= list[k].end
      /\ \A j, k \in 1 .. Len(list) : j < k => list[k].end + 1 < list[j].start
  BY ItemType, DescendingItems
<1>4. Descending(new)
  <2>1. \A k \in 1 .. Len(new) : new[k].start <= new[k].end
    BY SMTT(30), <1>1, <1>2
  <2>2. ASSUME NEW j \in 1 .. Len(new), NEW k \in 1 .. Len(new), j < k
        PROVE  new[k].end + 1 < new[j].start
    <3>1. CASE k < i
      <4>1. new[k] = list[k] /\ new[j] = list[j]
        BY <1>1, <2>2, <3>1
      <4>2. k \in 1 .. Len(list) /\ j \in 1 .. Len(list) /\ j < k
        BY <1>1, <2>2, <3>1
      <4>3. list[k].end + 1 < list[j].start
        BY <1>2, <4>2
      <4>. QED
        BY <4>1, <4>3
    <3>2. CASE k >= i /\ j < i
      <4>1. new[k] = list[k + 1] /\ new[j] = list[j]
        BY <1>1, <2>2, <3>2
      <4>2. k + 1 \in 1 .. Len(list) /\ j \in 1 .. Len(list) /\ j < k + 1
        BY <1>1, <2>2, <3>2
      <4>3. list[k + 1].end + 1 < list[j].start
        BY <1>2, <4>2
      <4>. QED
        BY <4>1, <4>3
    <3>3. CASE j >= i
      <4>1. new[k] = list[k + 1] /\ new[j] = list[j + 1]
        BY <1>1, <2>2, <3>3
      <4>2. k + 1 \in 1 .. Len(list) /\ j + 1 \in 1 .. Len(list) /\ j + 1 < k + 1
        BY <1>1, <2>2, <3>3
      <4>3. list[k + 1].end + 1 < list[j + 1].start
        BY <1>2, <4>2
      <4>. QED
        BY <4>1, <4>3
    <3>. QED
      BY <3>1, <3>2, <3>3
  <2>. QED
    BY <1>1, <2>1, <2>2, DescendingItems
<1>5. ASSUME NEW x
      PROVE  /\ x \in Covered(new) => x \in Covered(list)
             /\ x \in Covered(list) =>
                  x \in Covered(new) \cup (list[i].start .. list[i].end)
  <2>1. x \in Covered(new) <=>
          /\ x \in Nat
          /\ \E k \in 1 .. Len(new) : new[k].start <= x /\ x <= new[k].end
    BY <1>1, InCovered
  <2>2. x \in Covered(list) <=>
          /\ x \in Nat
          /\ \E k \in 1 .. Len(list) : list[k].start <= x /\ x <= list[k].end
    BY InCovered
  <2>3. ASSUME x \in Nat, NEW k \in 1 .. Len(new),
               new[k].start <= x, x <= new[k].end
        PROVE  x \in Covered(list)
    <3>1. CASE k < i
      BY <1>1, <2>2, <2>3, <3>1
    <3>2. CASE k >= i
      BY SMTT(30), <1>1, <2>2, <2>3, <3>2
    <3>. QED
      BY <3>1, <3>2
  <2>4. ASSUME x \in Nat, NEW k \in 1 .. Len(list),
               list[k].start <= x, x <= list[k].end
        PROVE  x \in Covered(new) \cup (list[i].start .. list[i].end)
    <3>1. CASE k < i
      BY SMTT(30), <1>1, <2>1, <2>4, <3>1
    <3>2. CASE k = i
      BY <1>2, <2>4, <3>2
    <3>3. CASE k > i
      <4>1. k - 1 \in 1 .. Len(new) /\ new[k - 1] = list[k]
        BY <1>1, <3>3
      <4>. QED
        BY <2>1, <2>4, <4>1
    <3>. QED
      BY <3>1, <3>2, <3>3
  <2>. QED
    BY <2>1, <2>2, <2>3, <2>4
<1>. QED
  BY <1>4, <1>5 DEF new

(* A new item, clear of its neighbours.                                     *)
LEMMA InsertHole ==
  ASSUME NEW list \in Seq(Range), Descending(list),
         NEW i \in 1 .. Len(list) + 1,
         NEW lo \in Nat, NEW hi \in Nat, lo <= hi,
         i > 1 => hi + 1 < list[i - 1].start,
         i <= Len(list) => list[i].end + 1 < lo
  PROVE  LET new == Insert(list, i, [start |-> lo, end |-> hi])
         IN  /\ new \in Seq(Range)
             /\ Descending(new)
             /\ Covered(new) = Covered(list) \cup (lo .. hi)
<1> DEFINE range == [start |-> lo, end |-> hi]
           new == Insert(list, i, range)
<1>0. range \in Range /\ range.start = lo /\ range.end = hi
  BY DEF Range
<1> HIDE DEF range
<1>1. /\ new \in Seq(Range)
      /\ Len(new) = Len(list) + 1
      /\ new[i] = range
      /\ \A k \in 1 .. Len(list) + 1 :
            /\ k < i => new[k] = list[k]
            /\ k > i => new[k] = list[k - 1]
  BY ZenonT(40), <1>0, InsertItems
<1> HIDE DEF new
<1>2. /\ \A k \in 1 .. Len(list) : /\ list[k].start \in Nat
                                     /\ list[k].end \in Nat
                                     /\ list[k].start <= list[k].end
      /\ \A j, k \in 1 .. Len(list) : j < k => list[k].end + 1 < list[j].start
  BY ItemType, DescendingItems
<1>3. /\ \A j \in 1 .. Len(list) : j < i => hi + 1 < list[j].start
      /\ \A j \in 1 .. Len(list) : j >= i => list[j].end + 1 < lo
  <2>1. ASSUME NEW j \in 1 .. Len(list), j < i
        PROVE  hi + 1 < list[j].start
    <3>1. CASE j = i - 1
      BY <2>1, <3>1
    <3>2. CASE j < i - 1
      <4>1. i - 1 \in 1 .. Len(list)
        BY <2>1
      <4>2. list[i - 1].end + 1 < list[j].start
        BY <1>2, <3>2, <4>1
      <4>3. hi + 1 < list[i - 1].start
        BY <4>1
      <4>. QED
        BY SMTT(30), <1>2, <4>1, <4>2, <4>3
    <3>. QED
      BY <2>1, <3>1, <3>2
  <2>2. ASSUME NEW j \in 1 .. Len(list), j >= i
        PROVE  list[j].end + 1 < lo
    <3>1. CASE j = i
      BY <2>2, <3>1
    <3>2. CASE j > i
      <4>1. i \in 1 .. Len(list)
        BY <2>2
      <4>2. list[j].end + 1 < list[i].start
        BY <1>2, <3>2, <4>1
      <4>3. list[i].end + 1 < lo
        BY <4>1
      <4>. QED
        BY SMTT(30), <1>2, <4>1, <4>2, <4>3
    <3>. QED
      BY <2>2, <3>1, <3>2
  <2>. QED
    BY <2>1, <2>2
<1>4. Descending(new)
  <2>1. ASSUME NEW k \in 1 .. Len(new)
        PROVE  new[k].start <= new[k].end
    <3>1. CASE k < i
      BY <1>1, <1>2, <3>1
    <3>2. CASE k = i
      BY <1>0, <1>1, <3>2
    <3>3. CASE k > i
      BY <1>1, <1>2, <3>3
    <3>. QED
      BY <3>1, <3>2, <3>3
  <2>2. ASSUME NEW j \in 1 .. Len(new), NEW k \in 1 .. Len(new), j < k
        PROVE  new[k].end + 1 < new[j].start
    <3>1. CASE k < i
      <4>1. new[k] = list[k] /\ new[j] = list[j]
        BY <1>1, <2>2, <3>1
      <4>2. k \in 1 .. Len(list) /\ j \in 1 .. Len(list) /\ j < k
        BY <1>1, <2>2, <3>1
      <4>3. list[k].end + 1 < list[j].start
        BY <1>2, <4>2
      <4>. QED
        BY <4>1, <4>3
    <3>2. CASE k = i
      BY <1>0, <1>1, <1>3, <2>2, <3>2
    <3>3. CASE k > i /\ j = i
      BY <1>0, <1>1, <1>3, <2>2, <3>3
    <3>4. CASE k > i /\ j < i
      <4>1. new[k] = list[k - 1] /\ new[j] = list[j]
        BY <1>1, <2>2, <3>4
      <4>2. k - 1 \in 1 .. Len(list) /\ j \in 1 .. Len(list) /\ j < k - 1
        BY <1>1, <2>2, <3>4
      <4>3. list[k - 1].end + 1 < list[j].start
        BY <1>2, <4>2
      <4>. QED
        BY <4>1, <4>3
    <3>5. CASE k > i /\ j > i
      <4>1. new[k] = list[k - 1] /\ new[j] = list[j - 1]
        BY <1>1, <2>2, <3>5
      <4>2. k - 1 \in 1 .. Len(list) /\ j - 1 \in 1 .. Len(list) /\ j - 1 < k - 1
        BY <1>1, <2>2, <3>5
      <4>3. list[k - 1].end + 1 < list[j - 1].start
        BY ZenonT(40), <1>2, <4>2
      <4>. QED
        BY <4>1, <4>3
    <3>. QED
      BY <3>1, <3>2, <3>3, <3>4, <3>5
  <2>. QED
    BY <1>1, <2>1, <2>2, DescendingItems
<1>5. ASSUME NEW x
      PROVE  x \in Covered(new) <=> x \in Covered(list) \cup (lo .. hi)
  <2>1. x \in Covered(new) <=>
          /\ x \in Nat
          /\ \E k \in 1 .. Len(new) : new[k].start <= x /\ x <= new[k].end
    BY <1>1, InCovered
  <2>2. x \in Covered(list) <=>
          /\ x \in Nat
          /\ \E k \in 1 .. Len(list) : list[k].start <= x /\ x <= list[k].end
    BY InCovered
  <2>3. ASSUME x \in Nat, NEW k \in 1 .. Len(new),
               new[k].start <= x, x <= new[k].end
        PROVE  x \in Covered(list) \cup (lo .. hi)
    <3>1. CASE k < i
      BY <1>1, <2>2, <2>3, <3>1
    <3>2. CASE k = i
      BY <1>0, <1>1, <2>3, <3>2
    <3>3. CASE k > i
      <4>1. k - 1 \in 1 .. Len(list) /\ new[k] = list[k - 1]
        BY <1>1, <3>3
      <4>. QED
        BY <2>2, <2>3, <4>1
    <3>. QED
      BY <3>1, <3>2, <3>3
  <2>4. ASSUME x \in Nat, NEW k \in 1 .. Len(list),
               list[k].start <= x, x <= list[k].end
        PROVE  x \in Covered(new)
    <3>1. CASE k < i
      BY <1>1, <2>1, <2>4, <3>1
    <3>2. CASE k >= i
      <4>1. k + 1 \in 1 .. Len(new) /\ new[k + 1] = list[k]
        BY <1>1, <3>2
      <4>. QED
        BY <2>1, <2>4, <4>1
    <3>. QED
      BY <3>1, <3>2
  <2>5. ASSUME x \in lo .. hi
        PROVE  x \in Covered(new)
    <3>1. i \in 1 .. Len(new) /\ new[i] = range
      BY <1>1
    <3>. QED
      BY <1>0, <2>1, <2>5, <3>1
  <2>. QED
    BY <2>1, <2>2, <2>3, <2>4, <2>5
<1>. QED
  BY <1>1, <1>4, <1>5 DEF new, range

(* An item merged into the previous one, with the hole between them.        *)
LEMMA MergeItems ==
  ASSUME NEW list \in Seq(Range), Descending(list), NEW i \in 2 .. Len(list)
  PROVE  LET new == Remove(SetStart(list, i - 1, list[i].start), i)
         IN  /\ new \in Seq(Range)
             /\ Len(new) = Len(list) - 1
             /\ new[i - 1].start = list[i].start
             /\ \A k \in i .. Len(new) : new[k] = list[k + 1]
             /\ Descending(new)
             /\ Covered(new) = Covered(list) \cup (list[i].end .. list[i - 1].start)
<1> DEFINE low == SetStart(list, i - 1, list[i].start)
           new == Remove(low, i)
<1>0. i - 1 \in 1 .. Len(list) /\ i \in 1 .. Len(list)
  OBVIOUS
<1>2. /\ \A k \in 1 .. Len(list) : /\ list[k].start \in Nat
                                     /\ list[k].end \in Nat
                                     /\ list[k].start <= list[k].end
      /\ \A j, k \in 1 .. Len(list) : j < k => list[k].end + 1 < list[j].start
  BY ItemType, DescendingItems
<1>3. /\ low \in Seq(Range)
      /\ Len(low) = Len(list)
      /\ \A k \in 1 .. Len(list) :
            /\ low[k].end = list[k].end
            /\ low[k].start = IF k = i - 1 THEN list[i].start ELSE list[k].start
  BY <1>0, <1>2, SetStartItems
<1>6. \A k \in i + 1 .. Len(list) : low[k] = list[k]
  BY DEF SetStart
<1> HIDE DEF low
<1>1. /\ new \in Seq(Range)
      /\ Len(new) = Len(list) - 1
      /\ \A k \in 1 .. Len(list) - 1 :
            /\ k < i => new[k] = low[k]
            /\ k >= i => new[k] = low[k + 1]
  <2>1. i \in 1 .. Len(low)
    BY <1>0, <1>3
  <2>. QED
    BY ZenonT(40), <1>3, <2>1, RemoveItems
<1> HIDE DEF new
<1>7. /\ new[i - 1].start = list[i].start
      /\ new[i - 1].end = list[i - 1].end
      /\ \A k \in 1 .. i - 2 : /\ new[k].start = list[k].start
                               /\ new[k].end = list[k].end
      /\ \A k \in i .. Len(list) - 1 : /\ new[k].start = list[k + 1].start
                                       /\ new[k].end = list[k + 1].end
  <2>1. new[i - 1] = low[i - 1]
    BY <1>0, <1>1
  <2>2. \A k \in 1 .. i - 2 : new[k] = low[k] /\ k \in 1 .. Len(list) /\ k # i - 1
    BY <1>0, <1>1
  <2>3. \A k \in i .. Len(list) - 1 :
          new[k] = low[k + 1] /\ k + 1 \in 1 .. Len(list) /\ k + 1 # i - 1
    BY <1>0, <1>1
  <2>4. /\ new[i - 1].start = list[i].start
        /\ new[i - 1].end = list[i - 1].end
    BY <1>0, <1>3, <2>1
  <2>. QED
    BY <1>3, <2>2, <2>3, <2>4
<1>8. \A k \in i .. Len(new) : new[k] = list[k + 1]
  BY SMTT(30), <1>1, <1>6
<1>4. Descending(new)
  <2>0. list[i].end + 1 < list[i - 1].start
    BY <1>0, <1>2
  <2>1. ASSUME NEW k \in 1 .. Len(new)
        PROVE  new[k].start <= new[k].end
    <3>1. CASE k < i - 1
      BY <1>1, <1>2, <1>7, <3>1
    <3>2. CASE k = i - 1
      BY <1>0, <1>2, <1>7, <2>0, <3>2
    <3>3. CASE k >= i
      BY <1>1, <1>2, <1>7, <3>3
    <3>. QED
      BY <3>1, <3>2, <3>3
  <2>2. ASSUME NEW j \in 1 .. Len(new), NEW k \in 1 .. Len(new), j < k
        PROVE  new[k].end + 1 < new[j].start
    <3> DEFINE kk == IF k < i THEN k ELSE k + 1
               jj == IF j < i - 1 THEN j ELSE j + 1
    <3>1. kk \in 1 .. Len(list) /\ jj \in 1 .. Len(list) /\ jj <= kk
      BY <1>0, <1>1, <2>2
    <3>2. new[k].end = list[kk].end
      BY <1>0, <1>1, <1>7
    <3>3. new[j].start = list[jj].start
      BY <1>0, <1>1, <1>7
    <3>4. jj < kk
      BY <2>2
    <3>5. list[kk].end + 1 < list[jj].start
      BY <1>2, <3>1, <3>4
    <3>. QED
      BY <3>2, <3>3, <3>5
  <2>. QED
    BY ZenonT(40), <1>1, <2>1, <2>2, DescendingItems
<1>5. ASSUME NEW x
      PROVE  x \in Covered(new) <=>
               x \in Covered(list) \cup (list[i].end .. list[i - 1].start)
  <2>1. x \in Covered(new) <=>
          /\ x \in Nat
          /\ \E k \in 1 .. Len(new) : new[k].start <= x /\ x <= new[k].end
    BY <1>1, InCovered
  <2>2. x \in Covered(list) <=>
          /\ x \in Nat
          /\ \E k \in 1 .. Len(list) : list[k].start <= x /\ x <= list[k].end
    BY InCovered
  <2>0. list[i].end + 1 < list[i - 1].start
    BY <1>0, <1>2
  <2>3. ASSUME x \in Nat, NEW k \in 1 .. Len(new),
               new[k].start <= x, x <= new[k].end
        PROVE  x \in Covered(list) \cup (list[i].end .. list[i - 1].start)
    <3>1. CASE k < i - 1
      <4>1. k \in 1 .. Len(list) /\ list[k].start <= x /\ x <= list[k].end
        BY <1>1, <1>7, <2>3, <3>1
      <4>. QED
        BY <2>2, <2>3, <4>1
    <3>2. CASE k = i - 1
      <4>1. list[i].start <= x /\ x <= list[i - 1].end
        BY <1>7, <2>3, <3>2
      <4>2. CASE x <= list[i].end
        BY <1>0, <2>2, <2>3, <4>1, <4>2
      <4>3. CASE x >= list[i - 1].start
        BY <1>0, <2>2, <2>3, <4>1, <4>3
      <4>4. CASE x > list[i].end /\ x < list[i - 1].start
        BY <1>0, <1>2, <2>3, <4>4
      <4>. QED
        BY <1>0, <1>2, <2>3, <4>2, <4>3, <4>4
    <3>3. CASE k >= i
      <4>1. k + 1 \in 1 .. Len(list) /\ list[k + 1].start <= x /\ x <= list[k + 1].end
        BY <1>1, <1>7, <2>3, <3>3
      <4>. QED
        BY <2>2, <2>3, <4>1
    <3>. QED
      BY <3>1, <3>2, <3>3
  <2>4. ASSUME x \in Nat, list[i].start <= x, x <= list[i - 1].end
        PROVE  x \in Covered(new)
    <3>1. i - 1 \in 1 .. Len(new)
      BY <1>0, <1>1
    <3>. QED
      BY <1>7, <2>1, <2>4, <3>1
  <2>5. ASSUME x \in Nat, NEW k \in 1 .. Len(list),
               list[k].start <= x, x <= list[k].end
        PROVE  x \in Covered(new)
    <3>1. CASE k < i - 1
      BY SMTT(30), <1>1, <1>7, <2>1, <2>5, <3>1
    <3>2. CASE k = i - 1 \/ k = i
      BY SMTT(30), <1>0, <1>2, <2>0, <2>4, <2>5, <3>2
    <3>3. CASE k > i
      <4>1. k - 1 \in i .. Len(list) - 1 /\ k - 1 \in 1 .. Len(new)
        BY <1>1, <3>3
      <4>2. new[k - 1].start = list[k].start /\ new[k - 1].end = list[k].end
        BY <1>7, <4>1
      <4>. QED
        BY <2>1, <2>5, <4>1, <4>2
    <3>. QED
      BY <3>1, <3>2, <3>3
  <2>6. ASSUME x \in list[i].end .. list[i - 1].start
        PROVE  x \in Covered(new)
    BY SMTT(30), <1>0, <1>2, <2>4, <2>6
  <2>. QED
    BY <2>1, <2>2, <2>3, <2>5, <2>6
<1>. QED
  BY <1>1, <1>4, <1>5, <1>7, <1>8 DEF new, low

(* The first item is the highest.                                           *)
LEMMA FirstIsLargest ==
  ASSUME NEW list \in Seq(Range), Descending(list), NEW n \in Covered(list)
  PROVE  list # <<>> /\ n <= list[1].end
<1>1. PICK k \in 1 .. Len(list) : list[k].start <= n /\ n <= list[k].end
  BY InCovered
<1>2. n \in Nat
  BY InCovered
<1>3. 1 \in 1 .. Len(list) /\ list # <<>>
  OBVIOUS
<1>4. CASE k = 1
  BY <1>1, <1>3, <1>4
<1>5. CASE k > 1
  <2>1. list[k].end + 1 < list[1].start /\ list[1].start <= list[1].end
    BY <1>3, <1>5, DescendingItems
  <2>. QED
    BY <1>1, <1>2, <1>3, <2>1, ItemType
<1>. QED
  BY <1>4, <1>5

(* A number between two neighbours is not in the list.                      *)
LEMMA InHole ==
  ASSUME NEW list \in Seq(Range), Descending(list), NEW n \in Nat,
         NEW i \in 1 .. Len(list) + 1,
         i > 1 => n < list[i - 1].start,
         i <= Len(list) => n > list[i].end
  PROVE  n \notin Covered(list)
<1> SUFFICES ASSUME NEW k \in 1 .. Len(list), list[k].start <= n, n <= list[k].end
             PROVE  FALSE
  BY InCovered
<1>1. /\ \A j \in 1 .. Len(list) : list[j].start \in Nat /\ list[j].end \in Nat
      /\ \A j \in 1 .. Len(list) : list[j].start <= list[j].end
  BY ItemType, DescendingItems
<1>2. \A j \in 1 .. Len(list), l \in 1 .. Len(list) :
         j < l => list[l].end + 1 < list[j].start
  BY DescendingItems
<1>3. CASE k >= i
  <2>1. i \in 1 .. Len(list) /\ n > list[i].end
    BY <1>3
  <2>2. k = i \/ list[k].end + 1 < list[i].start
    BY <1>2, <1>3, <2>1
  <2>3. list[i].start <= list[i].end /\ list[i].start \in Nat /\ list[i].end \in Nat
    BY <1>1, <2>1
  <2>. QED
    BY <1>1, <2>1, <2>2, <2>3
<1>4. CASE k < i
  <2>1. i - 1 \in 1 .. Len(list) /\ n < list[i - 1].start
    BY <1>4
  <2>2. k = i - 1 \/ list[i - 1].end + 1 < list[k].start
    BY <1>2, <1>4, <2>1
  <2>3. /\ list[i - 1].start <= list[i - 1].end
        /\ list[i - 1].start \in Nat /\ list[i - 1].end \in Nat
    BY <1>1, <2>1
  <2>. QED
    BY <1>1, <2>1, <2>2, <2>3
<1>. QED
  BY <1>3, <1>4

(* The ends of every item are in the list.                                  *)
LEMMA EndsCovered ==
  ASSUME NEW list \in Seq(Range), Descending(list), NEW i \in 1 .. Len(list)
  PROVE  /\ list[i].start \in Covered(list)
         /\ list[i].end \in Covered(list)
BY InCovered, ItemType, DescendingItems

-----------------------------------------------------------------------------
(* The walk.                                                                *)

(* What the call leaves when it returns v: the list in normal form, with    *)
(* the whole range or, on memory failure, unchanged.                        *)
Outcome(v) ==
    /\ Return(v)
    /\ sacks' \in Seq(Range)
    /\ Descending(sacks')
    /\ Covered(sacks) \subseteq Covered(sacks')
    /\ v # -1 => Covered(sacks') = before \cup asked
    /\ v = -1 => Covered(sacks') = before
    /\ v = 1 <=> asked \subseteq before

(* A list that grows keeps every number recorded below its first end.       *)
LEMMA GrowthKeepsLargest ==
  ASSUME NEW list \in Seq(Range), NEW new \in Seq(Range),
         Descending(list), Descending(new), Covered(list) \subseteq Covered(new),
         list # <<>>, NEW n \in Nat, n <= list[1].end
  PROVE  new # <<>> /\ n <= new[1].end
<1>1. 1 \in 1 .. Len(list)
  OBVIOUS
<1>2. list[1].end \in Covered(new)
  BY <1>1, EndsCovered
<1>3. new # <<>> /\ list[1].end <= new[1].end
  BY <1>2, FirstIsLargest
<1>4. 1 \in 1 .. Len(new)
  BY <1>3
<1>. QED
  BY <1>1, <1>3, <1>4, ItemType

(* When a call returns, the invariant holds.                                *)
LEMMA OutcomeInductive ==
  ASSUME Inductive, at > 0, NEW v \in {-1, 0, 1}, Outcome(v)
  PROVE  Inductive'
<1> USE DEF Outcome, Return
<1>1. TypeOK'
  BY DEF Inductive, TypeOK, acking
<1>2. NormalForm'
  BY DEF NormalForm
<1>3. CallInv' /\ AtRest'
  BY DEF CallInv, AtRest
<1>4. AckInv'
  <2>1. /\ (\A a \in DOMAIN acks : WellFormed(acks[a]))'
        /\ WellFormed(pruning)'
        /\ (Covered(pruning) \subseteq confirmed)'
    BY DEF Inductive, AckInv, acking
  <2>2. sacks # <<>>
    BY DEF Inductive, TypeOK
  <2>3. \A n \in Covered(sacks') : sacks' # <<>> /\ n <= sacks'[1].end
    BY FirstIsLargest
  <2>4. \A n \in recorded : sacks' # <<>> /\ n <= sacks'[1].end
    BY <2>2, GrowthKeepsLargest DEF Inductive, TypeOK, NormalForm, AckInv
  <2>5. \A n \in recorded' : sacks' # <<>> /\ n <= sacks'[1].end
    <3>1. CASE v = -1
      BY <2>4, <3>1
    <3>2. CASE v # -1
      BY <2>3, <2>4, <3>2
    <3>. QED
      BY <3>1, <3>2
  <2>6. sacks' # <<>>
    <3>1. Covered(sacks) # {}
      <4>1. 1 \in 1 .. Len(sacks)
        BY DEF Inductive, TypeOK
      <4>. QED
        BY <4>1, EndsCovered DEF Inductive, TypeOK, NormalForm
    <3>. QED
      BY <2>3, <3>1
  <2>7. (recorded \ Covered(sacks) \subseteq confirmed)'
    <3>1. recorded \ before \subseteq confirmed /\ confirmed' = confirmed
      BY DEF Inductive, CallInv, acking
    <3>2. CASE v = -1
      BY <3>1, <3>2
    <3>3. CASE v # -1
      BY <3>1, <3>3
    <3>. QED
      BY <3>2, <3>3
  <2>. QED
    BY <2>1, <2>5, <2>6, <2>7 DEF AckInv
<1>. QED
  BY <1>1, <1>2, <1>3, <1>4 DEF Inductive

(* When a call goes on to item i with the numbers up to max, the invariant  *)
(* holds if the list, grown or not, and the remainder still add up.         *)
LEMMA GoOnInductive ==
  ASSUME Inductive, at > 0,
         NEW i, NEW max, NEW v, GoOn(i, max, v),
         sacks' \in Seq(Range), Descending(sacks'),
         Covered(sacks) \subseteq Covered(sacks'),
         i \in 2 .. Len(sacks'), max \in Nat,
         pn64_min <= max, max < sacks'[i - 1].start,
         Covered(sacks') \cup (pn64_min .. max) = before \cup asked,
         \/ /\ v = 1
            /\ Covered(sacks') = before
            /\ pn64_min .. max = asked
         \/ /\ v = 0
            /\ max + 1 = sacks'[i - 1].start
            /\ ~(asked \subseteq before)
  PROVE  Inductive'
<1> USE DEF GoOn
<1>1. TypeOK'
  BY DEF Inductive, TypeOK, acking, history
<1>2. NormalForm'
  BY DEF NormalForm
<1>3. CallInv' /\ AtRest'
  BY DEF Inductive, CallInv, AtRest, TypeOK, acking, history
<1>4. AckInv'
  <2>1. sacks # <<>> /\ sacks' # <<>>
    BY DEF Inductive, TypeOK
  <2>2. \A n \in recorded : sacks' # <<>> /\ n <= sacks'[1].end
    BY <2>1, GrowthKeepsLargest DEF Inductive, TypeOK, NormalForm, AckInv
  <2>3. at' # 0
    OBVIOUS
  <2>. QED
    BY <2>1, <2>2, <2>3 DEF Inductive, AckInv, acking, history
<1>. QED
  BY <1>1, <1>2, <1>3, <1>4 DEF Inductive

(* The three ways a call continues once the top of its range is in the list. *)
LEMMA ContinueBelowOutcome ==
  ASSUME Inductive, at > 0, ~(asked \subseteq before),
         NEW list \in Seq(Range), Descending(list),
         NEW i \in 1 .. Len(list), ContinueBelow(list, i),
         Covered(sacks) \subseteq Covered(list),
         Covered(list) \cup (pn64_min .. list[i].start - 1) = before \cup asked
  PROVE  Outcome(0) \/ (Inductive' /\ at' # 0)
<1>1. pn64_min \in Nat /\ list[i].start \in Nat
  BY ItemType DEF Inductive, TypeOK
<1>2. CASE /\ pn64_min >= list[i].start
           /\ sacks' = list
           /\ Return(0)
  <2>1. Covered(list) = before \cup asked
    <3>1. pn64_min .. list[i].start - 1 = {}
      BY <1>1, <1>2
    <3>. QED
      BY <3>1
  <2>. QED
    BY <1>2, <2>1 DEF Outcome
<1>3. CASE /\ pn64_min < list[i].start
           /\ i = Len(list)
           /\ sacks' = SetStart(list, i, pn64_min)
           /\ Return(0)
  <2>1. /\ sacks' \in Seq(Range)
        /\ Descending(sacks')
        /\ Covered(sacks') = Covered(list) \cup (pn64_min .. list[i].start)
    BY <1>1, <1>3, SetStartItems, StretchDown
  <2>2. list[i].start \in Covered(list)
    BY EndsCovered
  <2>3. \A x : x \in pn64_min .. list[i].start =>
                  x \in pn64_min .. list[i].start - 1 \/ x = list[i].start
    BY <1>1
  <2>4. \A x : x \in pn64_min .. list[i].start - 1 =>
                  x \in pn64_min .. list[i].start
    BY <1>1
  <2>5. Covered(sacks') = before \cup asked
    BY <2>1, <2>2, <2>3, <2>4
  <2>. QED
    BY <1>3, <2>1, <2>5 DEF Outcome
<1>4. CASE /\ pn64_min < list[i].start
           /\ i < Len(list)
           /\ sacks' = list
           /\ GoOn(i + 1, list[i].start - 1, 0)
  <2>1. i + 1 \in 2 .. Len(list) /\ (i + 1) - 1 = i
    BY <1>4
  <2>2. /\ list[i].start - 1 \in Nat
        /\ pn64_min <= list[i].start - 1
        /\ list[i].start - 1 < list[i].start
        /\ (list[i].start - 1) + 1 = list[i].start
    BY <1>1, <1>4
  <2>3. Inductive'
    BY <1>4, <2>1, <2>2, GoOnInductive
  <2>. QED
    BY <1>4, <2>1, <2>3 DEF GoOn
<1>. QED
  BY <1>2, <1>3, <1>4 DEF ContinueBelow

(* A number of the remainder that is not in the list was not there before.  *)
LEMMA NotADuplicate ==
  ASSUME Inductive, at > 0, NEW n \in pn64_min .. pn64_max, n \notin Covered(sacks)
  PROVE  ~(asked \subseteq before)
BY DEF Inductive, CallInv

(* The types a step of the walk starts from.                                *)
LEMMA WalkTypes ==
  ASSUME Inductive, at > 0
  PROVE  /\ sacks \in Seq(Range) /\ Descending(sacks)
         /\ at \in 1 .. Len(sacks)
         /\ pn64_min \in Nat /\ pn64_max \in Nat /\ pn64_min <= pn64_max
         /\ sacks[at].start \in Nat /\ sacks[at].end \in Nat
         /\ sacks[at].start <= sacks[at].end
         /\ Covered(sacks) \cup (pn64_min .. pn64_max) = before \cup asked
         /\ at > 1 => /\ at - 1 \in 1 .. Len(sacks)
                      /\ sacks[at - 1].start \in Nat
                      /\ sacks[at].end + 1 < sacks[at - 1].start
                      /\ pn64_max < sacks[at - 1].start
<1>1. /\ sacks \in Seq(Range) /\ Descending(sacks)
      /\ at \in 1 .. Len(sacks)
      /\ pn64_min \in Nat /\ pn64_max \in Nat
  BY DEF Inductive, TypeOK, NormalForm
<1>2. /\ sacks[at].start \in Nat /\ sacks[at].end \in Nat
      /\ sacks[at].start <= sacks[at].end
  BY <1>1, ItemType, DescendingItems
<1>3. /\ pn64_min <= pn64_max
      /\ Covered(sacks) \cup (pn64_min .. pn64_max) = before \cup asked
      /\ at > 1 => pn64_max < sacks[at - 1].start
  BY DEF Inductive, CallInv
<1>4. at > 1 => /\ at - 1 \in 1 .. Len(sacks)
                /\ sacks[at - 1].start \in Nat
                /\ sacks[at].end + 1 < sacks[at - 1].start
  <2> SUFFICES ASSUME at > 1
               PROVE  /\ at - 1 \in 1 .. Len(sacks)
                      /\ sacks[at - 1].start \in Nat
                      /\ sacks[at].end + 1 < sacks[at - 1].start
    OBVIOUS
  <2>1. at - 1 \in 1 .. Len(sacks) /\ at - 1 < at
    BY <1>1
  <2>. QED
    BY <1>1, <2>1, ItemType, DescendingItems
<1>. QED
  BY <1>1, <1>2, <1>3, <1>4

(* The range meets the item from above.                                     *)
LEMMA JoinRangeOutcome ==
  ASSUME Inductive, JoinRange
  PROVE  Outcome(0) \/ (Inductive' /\ at' # 0)
<1>0. at > 0 /\ pn64_max > sacks[at].end /\ pn64_min <= sacks[at].end + 1
  BY DEF JoinRange
<1>1. /\ sacks \in Seq(Range) /\ Descending(sacks)
      /\ at \in 1 .. Len(sacks)
      /\ pn64_min \in Nat /\ pn64_max \in Nat /\ pn64_min <= pn64_max
      /\ sacks[at].start \in Nat /\ sacks[at].end \in Nat
      /\ sacks[at].start <= sacks[at].end
      /\ Covered(sacks) \cup (pn64_min .. pn64_max) = before \cup asked
      /\ at > 1 => /\ at - 1 \in 1 .. Len(sacks)
                   /\ sacks[at - 1].start \in Nat
                   /\ sacks[at].end + 1 < sacks[at - 1].start
                   /\ pn64_max < sacks[at - 1].start
  BY <1>0, WalkTypes
<1>2. ~(asked \subseteq before)
  <2>1. pn64_max \notin Covered(sacks)
    BY <1>0, <1>1, InHole
  <2>2. pn64_max \in pn64_min .. pn64_max
    BY <1>1
  <2>. QED
    BY <1>0, <2>1, <2>2, NotADuplicate
<1>3. \A x \in sacks[at].start .. sacks[at].end : x \in Covered(sacks)
  BY <1>1, InCovered
<1>4. CASE ReachesPrevious
  <2> DEFINE list == Remove(SetStart(sacks, at - 1, sacks[at].start), at)
  <2>0. /\ at \in 2 .. Len(sacks)
        /\ pn64_max + 1 = sacks[at - 1].start
    BY <1>1, <1>4 DEF ReachesPrevious
  <2>1. /\ list \in Seq(Range)
        /\ Len(list) = Len(sacks) - 1
        /\ list[at - 1].start = sacks[at].start
        /\ Descending(list)
        /\ Covered(list) =
              Covered(sacks) \cup (sacks[at].end .. sacks[at - 1].start)
    BY ZenonT(40), <1>1, <2>0, MergeItems
  <2>2. ContinueBelow(list, at - 1)
    BY <1>4 DEF JoinRange
  <2> HIDE DEF list
  <2>3. sacks[at - 1].start \in Covered(sacks)
    BY <1>1, <2>0, EndsCovered
  <2>4. ASSUME NEW x
        PROVE  x \in Covered(list) \cup (pn64_min .. list[at - 1].start - 1)
                 <=> x \in Covered(sacks) \cup (pn64_min .. pn64_max)
    <3>1. x \in sacks[at].end .. sacks[at - 1].start =>
             x \in pn64_min .. pn64_max \/ x \in Covered(sacks)
      BY SMTT(30), <1>0, <1>1, <1>3, <2>0, <2>3
    <3>2. x \in pn64_min .. list[at - 1].start - 1 => x \in pn64_min .. pn64_max
      BY <1>0, <1>1, <2>1
    <3>3. x \in pn64_min .. pn64_max =>
             \/ x \in pn64_min .. list[at - 1].start - 1
             \/ x \in sacks[at].start .. sacks[at].end
             \/ x \in sacks[at].end .. sacks[at - 1].start
      <4>1. /\ list[at - 1].start = sacks[at].start
            /\ pn64_max < sacks[at - 1].start
            /\ sacks[at].start \in Nat /\ sacks[at].end \in Nat
            /\ sacks[at - 1].start \in Nat
            /\ pn64_min \in Nat /\ pn64_max \in Nat
        BY <1>1, <2>0, <2>1
      <4>. QED
        BY <4>1, SMTT(30)
    <3>. QED
      BY <1>3, <2>1, <3>1, <3>2, <3>3
  <2>5. Covered(list) \cup (pn64_min .. list[at - 1].start - 1) = before \cup asked
    BY <1>1, <2>4
  <2>6. at - 1 \in 1 .. Len(list)
    BY <2>0, <2>1
  <2>7. Covered(sacks) \subseteq Covered(list)
    BY <2>1
  <2>. QED
    BY <1>0, <1>2, <2>1, <2>2, <2>5, <2>6, <2>7, ContinueBelowOutcome
<1>5. CASE ~ReachesPrevious
  <2> DEFINE list == SetEnd(sacks, at, pn64_max)
  <2>0. at > 1 => pn64_max + 1 < sacks[at - 1].start
    BY <1>1, <1>5 DEF ReachesPrevious
  <2>1. /\ list \in Seq(Range)
        /\ Len(list) = Len(sacks)
        /\ list[at].start = sacks[at].start
    BY <1>1, SetEndItems
  <2>2. /\ Descending(list)
        /\ Covered(list) = Covered(sacks) \cup (sacks[at].end .. pn64_max)
    BY <1>0, <1>1, <2>0, StretchUp
  <2>3. ContinueBelow(list, at)
    BY <1>5 DEF JoinRange
  <2> HIDE DEF list
  <2>4. ASSUME NEW x
        PROVE  x \in Covered(list) \cup (pn64_min .. list[at].start - 1)
                 <=> x \in Covered(sacks) \cup (pn64_min .. pn64_max)
    <3>1. x \in sacks[at].end .. pn64_max =>
             x \in pn64_min .. pn64_max \/ x \in Covered(sacks)
      BY <1>0, <1>1, <1>3
    <3>2. x \in pn64_min .. list[at].start - 1 => x \in pn64_min .. pn64_max
      BY <1>0, <1>1, <2>1
    <3>3. x \in pn64_min .. pn64_max =>
             \/ x \in pn64_min .. list[at].start - 1
             \/ x \in sacks[at].start .. sacks[at].end
             \/ x \in sacks[at].end .. pn64_max
      BY <1>0, <1>1, <2>1
    <3>. QED
      BY <1>3, <2>2, <3>1, <3>2, <3>3
  <2>5. Covered(list) \cup (pn64_min .. list[at].start - 1) = before \cup asked
    BY <1>1, <2>4
  <2>6. at \in 1 .. Len(list) /\ Covered(sacks) \subseteq Covered(list)
    BY <1>1, <2>1, <2>2
  <2>. QED
    BY <1>0, <1>2, <2>1, <2>2, <2>3, <2>5, <2>6, ContinueBelowOutcome
<1>. QED
  BY <1>4, <1>5

(* The range fills the bottom of the hole below `previous`.                 *)
LEMMA ExtendPreviousOutcome ==
  ASSUME Inductive, ExtendPrevious
  PROVE  Outcome(0)
<1>0. /\ at > 0 /\ pn64_min > sacks[at].end + 1 /\ pn64_max > sacks[at].end
      /\ ReachesPrevious
      /\ sacks' = SetStart(sacks, at - 1, pn64_min)
      /\ Return(0)
  BY DEF ExtendPrevious
<1>1. /\ sacks \in Seq(Range) /\ Descending(sacks)
      /\ at \in 1 .. Len(sacks)
      /\ pn64_min \in Nat /\ pn64_max \in Nat /\ pn64_min <= pn64_max
      /\ sacks[at].start \in Nat /\ sacks[at].end \in Nat
      /\ sacks[at].start <= sacks[at].end
      /\ Covered(sacks) \cup (pn64_min .. pn64_max) = before \cup asked
      /\ at > 1 => /\ at - 1 \in 1 .. Len(sacks)
                   /\ sacks[at - 1].start \in Nat
                   /\ sacks[at].end + 1 < sacks[at - 1].start
                   /\ pn64_max < sacks[at - 1].start
  BY <1>0, WalkTypes
<1>2. /\ at > 1 /\ at - 1 \in 1 .. Len(sacks)
      /\ pn64_max + 1 = sacks[at - 1].start
      /\ (at - 1) + 1 = at
  BY SMTT(30), <1>0, <1>1 DEF ReachesPrevious
<1>3. /\ sacks' \in Seq(Range)
      /\ Descending(sacks')
      /\ Covered(sacks') = Covered(sacks) \cup (pn64_min .. sacks[at - 1].start)
  BY SMTT(30), <1>0, <1>1, <1>2, SetStartItems, StretchDown
<1>4. sacks[at - 1].start \in Covered(sacks)
  BY <1>1, <1>2, EndsCovered
<1>5. \A x : x \in pn64_min .. sacks[at - 1].start <=>
                x \in pn64_min .. pn64_max \/ x = sacks[at - 1].start
  BY <1>1, <1>2
<1>6. Covered(sacks') = before \cup asked
  BY <1>1, <1>3, <1>4, <1>5
<1>7. ~(asked \subseteq before)
  <2>1. pn64_max \notin Covered(sacks)
    BY <1>0, <1>1, InHole
  <2>. QED
    BY <1>0, <1>1, <2>1, NotADuplicate
<1>. QED
  BY <1>0, <1>3, <1>6, <1>7 DEF Outcome

(* The range is clear of the items around it: a new one, if memory allows.  *)
LEMMA NewHoleOutcome ==
  ASSUME Inductive, NewHole
  PROVE  Outcome(0) \/ Outcome(-1)
<1>0. /\ at > 0 /\ pn64_min > sacks[at].end + 1 /\ pn64_max > sacks[at].end
      /\ ~ReachesPrevious
  BY DEF NewHole
<1>1. /\ sacks \in Seq(Range) /\ Descending(sacks)
      /\ at \in 1 .. Len(sacks)
      /\ pn64_min \in Nat /\ pn64_max \in Nat /\ pn64_min <= pn64_max
      /\ sacks[at].start \in Nat /\ sacks[at].end \in Nat
      /\ sacks[at].start <= sacks[at].end
      /\ Covered(sacks) \cup (pn64_min .. pn64_max) = before \cup asked
      /\ at > 1 => /\ at - 1 \in 1 .. Len(sacks)
                   /\ sacks[at - 1].start \in Nat
                   /\ sacks[at].end + 1 < sacks[at - 1].start
                   /\ pn64_max < sacks[at - 1].start
  BY <1>0, WalkTypes
<1>2. at > 1 => pn64_max + 1 < sacks[at - 1].start
  BY <1>0, <1>1 DEF ReachesPrevious
<1>3. ~(asked \subseteq before)
  <2>1. pn64_max \notin Covered(sacks)
    BY <1>0, <1>1, InHole
  <2>. QED
    BY <1>0, <1>1, <2>1, NotADuplicate
<1>4. CASE /\ sacks' = Insert(sacks, at, [start |-> pn64_min, end |-> pn64_max])
           /\ Return(0)
  <2>1. at \in 1 .. Len(sacks) + 1
    BY <1>1
  <2>2. /\ sacks' \in Seq(Range)
        /\ Descending(sacks')
        /\ Covered(sacks') = Covered(sacks) \cup (pn64_min .. pn64_max)
    BY <1>0, <1>1, <1>2, <1>4, <2>1, InsertHole
  <2>. QED
    BY <1>1, <1>3, <1>4, <2>2 DEF Outcome
<1>5. CASE UNCHANGED sacks /\ Return(-1)
  <2>1. ret = 1 /\ Covered(sacks) = before
    BY <1>0, <1>1, <1>2 DEF Inductive, CallInv
  <2>. QED
    BY <1>1, <1>3, <1>5, <2>1 DEF Outcome
<1>. QED
  BY <1>4, <1>5 DEF NewHole

(* The top of the range is inside the item.                                 *)
LEMMA MaxInsideOutcome ==
  ASSUME Inductive, MaxInside
  PROVE  Outcome(0) \/ Outcome(1) \/ (Inductive' /\ at' # 0)
<1>0. at > 0 /\ pn64_max \in sacks[at].start .. sacks[at].end
  BY DEF MaxInside
<1>1. /\ sacks \in Seq(Range) /\ Descending(sacks)
      /\ at \in 1 .. Len(sacks)
      /\ pn64_min \in Nat /\ pn64_max \in Nat /\ pn64_min <= pn64_max
      /\ sacks[at].start \in Nat /\ sacks[at].end \in Nat
      /\ sacks[at].start <= sacks[at].end
      /\ Covered(sacks) \cup (pn64_min .. pn64_max) = before \cup asked
      /\ at > 1 => /\ at - 1 \in 1 .. Len(sacks)
                   /\ sacks[at - 1].start \in Nat
                   /\ sacks[at].end + 1 < sacks[at - 1].start
                   /\ pn64_max < sacks[at - 1].start
  BY <1>0, WalkTypes
<1>3. \A x \in sacks[at].start .. sacks[at].end : x \in Covered(sacks)
  BY <1>1, InCovered
<1>4. CASE pn64_min >= sacks[at].start /\ UNCHANGED sacks /\ Return(ret)
  <2>1. pn64_min .. pn64_max \subseteq Covered(sacks)
    BY <1>0, <1>1, <1>3, <1>4
  <2>2. Covered(sacks) = before \cup asked
    BY <1>1, <2>1
  <2>3. \/ ret = 0 /\ ~(asked \subseteq before)
        \/ ret = 1 /\ asked \subseteq before
    <3>1. \/ ret = 1 /\ Covered(sacks) = before /\ pn64_min .. pn64_max = asked
          \/ ret = 0 /\ ~(asked \subseteq before)
      BY <1>0 DEF Inductive, CallInv
    <3>2. ASSUME Covered(sacks) = before, pn64_min .. pn64_max = asked
          PROVE  asked \subseteq before
      BY <2>1, <3>2
    <3>. QED
      BY <3>1, <3>2
  <2>. QED
    BY <1>1, <1>4, <2>2, <2>3 DEF Outcome
<1>5. CASE pn64_min < sacks[at].start /\ ContinueBelow(sacks, at)
  <2>1. ~(asked \subseteq before)
    <3>1. /\ sacks[at].start - 1 \in Nat
          /\ sacks[at].start - 1 \in pn64_min .. pn64_max
      BY <1>0, <1>1, <1>5
    <3>2. at + 1 <= Len(sacks) => sacks[at].start - 1 > sacks[at + 1].end
      <4> SUFFICES ASSUME at + 1 <= Len(sacks)
                   PROVE  sacks[at].start - 1 > sacks[at + 1].end
        OBVIOUS
      <4>1. at + 1 \in 1 .. Len(sacks)
        BY <1>1
      <4>. QED
        BY <1>1, <4>1, ItemType, DescendingItems
    <3>3. at + 1 \in 1 .. Len(sacks) + 1 /\ (at + 1) - 1 = at
      BY <1>1
    <3>4. sacks[at].start - 1 < sacks[at].start
      BY <1>1
    <3>5. sacks[at].start - 1 \notin Covered(sacks)
      BY <1>1, <3>1, <3>2, <3>3, <3>4, InHole
    <3>. QED
      BY <1>0, <3>1, <3>5, NotADuplicate
  <2>2. Covered(sacks) \cup (pn64_min .. sacks[at].start - 1) = before \cup asked
    <3>1. \A x \in pn64_min .. pn64_max :
             \/ x \in pn64_min .. sacks[at].start - 1
             \/ x \in sacks[at].start .. sacks[at].end
      BY <1>0, <1>1
    <3>2. \A x \in pn64_min .. sacks[at].start - 1 : x \in pn64_min .. pn64_max
      BY <1>0, <1>1
    <3>. QED
      BY <1>1, <1>3, <3>1, <3>2
  <2>. QED
    BY <1>0, <1>1, <1>5, <2>1, <2>2, ContinueBelowOutcome
<1>. QED
  BY <1>4, <1>5 DEF MaxInside

(* The range is below the last item.                                        *)
LEMMA BelowLastOutcome ==
  ASSUME Inductive, BelowLast
  PROVE  Outcome(0) \/ Outcome(-1)
<1>0. at > 0 /\ pn64_max < sacks[at].start /\ at = Len(sacks)
  BY DEF BelowLast
<1>1. /\ sacks \in Seq(Range) /\ Descending(sacks)
      /\ at \in 1 .. Len(sacks)
      /\ pn64_min \in Nat /\ pn64_max \in Nat /\ pn64_min <= pn64_max
      /\ sacks[at].start \in Nat /\ sacks[at].end \in Nat
      /\ sacks[at].start <= sacks[at].end
      /\ Covered(sacks) \cup (pn64_min .. pn64_max) = before \cup asked
      /\ at > 1 => /\ at - 1 \in 1 .. Len(sacks)
                   /\ sacks[at - 1].start \in Nat
                   /\ sacks[at].end + 1 < sacks[at - 1].start
                   /\ pn64_max < sacks[at - 1].start
  BY <1>0, WalkTypes
<1>2. ret = 1 /\ Covered(sacks) = before /\ pn64_min .. pn64_max = asked
  <2>1. \/ ret = 1 /\ Covered(sacks) = before /\ pn64_min .. pn64_max = asked
        \/ at > 1 /\ pn64_max + 1 = sacks[at - 1].start
    BY <1>0 DEF Inductive, CallInv
  <2>. QED
    BY <1>0, <1>1, <2>1
<1>3. ~(asked \subseteq before)
  <2>1. at + 1 \in 1 .. Len(sacks) + 1 /\ (at + 1) - 1 = at /\ ~(at + 1 <= Len(sacks))
    BY <1>0, <1>1
  <2>2. pn64_max \notin Covered(sacks)
    BY <1>0, <1>1, <2>1, InHole
  <2>. QED
    BY <1>0, <1>1, <2>2, NotADuplicate
<1>4. CASE /\ pn64_max + 1 = sacks[at].start
           /\ sacks' = SetStart(sacks, at, pn64_min)
           /\ Return(0)
  <2>1. /\ sacks' \in Seq(Range)
        /\ Descending(sacks')
        /\ Covered(sacks') = Covered(sacks) \cup (pn64_min .. sacks[at].start)
    BY <1>0, <1>1, <1>4, SetStartItems, StretchDown
  <2>2. sacks[at].start \in Covered(sacks)
    BY <1>1, EndsCovered
  <2>3. \A x : x \in pn64_min .. sacks[at].start <=>
                  x \in pn64_min .. pn64_max \/ x = sacks[at].start
    BY <1>1, <1>4
  <2>4. Covered(sacks') = before \cup asked
    BY <1>1, <2>1, <2>2, <2>3
  <2>. QED
    BY <1>3, <1>4, <2>1, <2>4 DEF Outcome
<1>5. CASE /\ pn64_max + 1 # sacks[at].start
           /\ sacks' = Insert(sacks, at + 1, [start |-> pn64_min, end |-> pn64_max])
           /\ Return(0)
  <2>1. /\ at + 1 \in 1 .. Len(sacks) + 1 /\ (at + 1) - 1 = at
        /\ ~(at + 1 <= Len(sacks))
        /\ pn64_max + 1 < sacks[at].start
    BY <1>0, <1>1, <1>5
  <2>2. /\ sacks' \in Seq(Range)
        /\ Descending(sacks')
        /\ Covered(sacks') = Covered(sacks) \cup (pn64_min .. pn64_max)
    BY <1>1, <1>5, <2>1, InsertHole
  <2>. QED
    BY <1>1, <1>3, <1>5, <2>2 DEF Outcome
<1>6. CASE UNCHANGED sacks /\ Return(-1)
  BY <1>1, <1>2, <1>3, <1>6 DEF Outcome
<1>. QED
  BY <1>4, <1>5, <1>6 DEF BelowLast

(* The range is below the item: on to the next.                             *)
LEMMA AdvanceOutcome ==
  ASSUME Inductive, Advance
  PROVE  Inductive' /\ at' # 0
<1>0. /\ at > 0 /\ pn64_max < sacks[at].start /\ at < Len(sacks)
      /\ UNCHANGED sacks /\ GoOn(at + 1, pn64_max, ret)
  BY DEF Advance
<1>1. /\ sacks \in Seq(Range) /\ Descending(sacks)
      /\ at \in 1 .. Len(sacks)
      /\ pn64_min \in Nat /\ pn64_max \in Nat /\ pn64_min <= pn64_max
      /\ sacks[at].start \in Nat /\ sacks[at].end \in Nat
      /\ sacks[at].start <= sacks[at].end
      /\ Covered(sacks) \cup (pn64_min .. pn64_max) = before \cup asked
      /\ at > 1 => /\ at - 1 \in 1 .. Len(sacks)
                   /\ sacks[at - 1].start \in Nat
                   /\ sacks[at].end + 1 < sacks[at - 1].start
                   /\ pn64_max < sacks[at - 1].start
  BY <1>0, WalkTypes
<1>2. ret = 1 /\ Covered(sacks) = before /\ pn64_min .. pn64_max = asked
  <2>1. \/ ret = 1 /\ Covered(sacks) = before /\ pn64_min .. pn64_max = asked
        \/ at > 1 /\ pn64_max + 1 = sacks[at - 1].start
    BY <1>0 DEF Inductive, CallInv
  <2>. QED
    BY <1>0, <1>1, <2>1
<1>3. at + 1 \in 2 .. Len(sacks) /\ (at + 1) - 1 = at
  BY <1>0, <1>1
<1>4. Inductive'
  BY <1>0, <1>1, <1>2, <1>3, GoOnInductive
<1>. QED
  BY <1>0, <1>3, <1>4 DEF GoOn

(* Every step of the walk either finishes the call or goes on.              *)
Walk == JoinRange \/ ExtendPrevious \/ NewHole \/ MaxInside \/ BelowLast \/ Advance

(* An iteration ends the call with its outcome or keeps the invariant.     *)
LEMMA WalkOutcome ==
  ASSUME Inductive, Walk
  PROVE  /\ at > 0
         /\ (\E v \in {-1, 0, 1} : Outcome(v)) \/ (Inductive' /\ at' # 0)
<1>1. at > 0
  BY DEF Walk, JoinRange, ExtendPrevious, NewHole, MaxInside, BelowLast, Advance
<1>2. Outcome(0) \/ Outcome(1) \/ Outcome(-1) \/ (Inductive' /\ at' # 0)
  BY JoinRangeOutcome, ExtendPreviousOutcome, NewHoleOutcome, MaxInsideOutcome,
     BelowLastOutcome, AdvanceOutcome DEF Walk
<1>. QED
  BY <1>1, <1>2

-----------------------------------------------------------------------------
(* Pruning.                                                                 *)

(* The first item loses its lowest numbers.                                 *)
LEMMA RaiseFirst ==
  ASSUME NEW list \in Seq(Range), Descending(list), list # <<>>,
         NEW n \in Nat, list[1].start <= n, n <= list[1].end
  PROVE  LET new == SetStart(list, 1, n)
         IN  /\ new \in Seq(Range) /\ new # <<>>
             /\ Descending(new)
             /\ new[1].end = list[1].end
             /\ Covered(new) \subseteq Covered(list)
             /\ Covered(list) \subseteq Covered(new) \cup (list[1].start .. n - 1)
<1> DEFINE new == SetStart(list, 1, n)
<1>0. 1 \in 1 .. Len(list)
  OBVIOUS
<1>1. /\ new \in Seq(Range)
      /\ Len(new) = Len(list)
      /\ \A k \in 1 .. Len(list) :
            /\ new[k].end = list[k].end
            /\ new[k].start = IF k = 1 THEN n ELSE list[k].start
  BY <1>0, SetStartItems
<1> HIDE DEF new
<1>2. /\ \A k \in 1 .. Len(list) : /\ list[k].start \in Nat
                                     /\ list[k].end \in Nat
                                     /\ list[k].start <= list[k].end
      /\ \A j, k \in 1 .. Len(list) : j < k => list[k].end + 1 < list[j].start
  BY ItemType, DescendingItems
<1>3. new[1].start = n /\ \A k \in 2 .. Len(list) : new[k].start = list[k].start
  BY <1>0, <1>1
<1>4. Descending(new)
  <2>1. \A k \in 1 .. Len(new) : new[k].start <= new[k].end
    BY <1>0, <1>1, <1>2, <1>3
  <2>2. ASSUME NEW j \in 1 .. Len(new), NEW k \in 1 .. Len(new), j < k
        PROVE  new[k].end + 1 < new[j].start
    <3>1. list[k].end + 1 < list[j].start /\ new[k].end = list[k].end
      BY <1>1, <1>2, <2>2
    <3>2. list[j].start <= new[j].start
      BY <1>0, <1>1, <1>2, <1>3
    <3>3. list[j].start \in Nat /\ list[k].end \in Nat /\ new[j].start \in Nat
      BY <1>1, <1>2, <1>3
    <3>. QED
      BY <3>1, <3>2, <3>3
  <2>. QED
    BY <1>1, <2>1, <2>2, DescendingItems
<1>5. ASSUME NEW x
      PROVE  /\ x \in Covered(new) => x \in Covered(list)
             /\ x \in Covered(list) => x \in Covered(new) \cup (list[1].start .. n - 1)
  <2>1. x \in Covered(new) <=>
          /\ x \in Nat
          /\ \E k \in 1 .. Len(new) : new[k].start <= x /\ x <= new[k].end
    BY <1>1, InCovered
  <2>2. x \in Covered(list) <=>
          /\ x \in Nat
          /\ \E k \in 1 .. Len(list) : list[k].start <= x /\ x <= list[k].end
    BY InCovered
  <2>3. ASSUME x \in Nat, NEW k \in 1 .. Len(list),
               new[k].start <= x, x <= new[k].end
        PROVE  list[k].start <= x /\ x <= list[k].end
    BY <1>0, <1>1, <1>2, <1>3, <2>3
  <2>4. ASSUME x \in Nat, NEW k \in 1 .. Len(list),
               list[k].start <= x, x <= list[k].end
        PROVE  \/ new[k].start <= x /\ x <= new[k].end
               \/ x \in list[1].start .. n - 1
    BY SMTT(30), <1>0, <1>1, <1>2, <1>3, <2>4
  <2>. QED
    BY <1>1, <2>1, <2>2, <2>3, <2>4
<1>. QED
  BY <1>0, <1>1, <1>4, <1>5 DEF new

(* One range of an acknowledged ACK frame: numbers of that range go, never  *)
(* the largest of the list.                                                 *)
LEMMA PruneItem ==
  ASSUME NEW list \in Seq(Range), Descending(list), list # <<>>,
         NEW r \in Range, r.start <= r.end
  PROVE  LET new == ProcessAckOfAckRange(list, r)
         IN  /\ new \in Seq(Range) /\ new # <<>>
             /\ Descending(new)
             /\ new[1].end = list[1].end
             /\ Covered(new) \subseteq Covered(list)
             /\ Covered(list) \subseteq Covered(new) \cup (r.start .. r.end)
<1> DEFINE new == ProcessAckOfAckRange(list, r)
<1>0. 1 \in 1 .. Len(list)
  OBVIOUS
<1>1. /\ r.start \in Nat /\ r.end \in Nat
      /\ list[1].start \in Nat /\ list[1].end \in Nat
      /\ list[1].start <= list[1].end
  BY <1>0, ItemType, DescendingItems DEF Range
<1>2. CASE list[1].start = r.start /\ r.end < list[1].end
  <2>1. new = SetStart(list, 1, r.end + 1)
    BY <1>2 DEF ProcessAckOfAckRange
  <2>2. r.end + 1 \in Nat /\ list[1].start <= r.end + 1 /\ r.end + 1 <= list[1].end
    BY <1>1, <1>2
  <2>3. (r.end + 1) - 1 = r.end
    BY <1>1
  <2> HIDE DEF new
  <2>. QED
    BY <1>2, <2>1, <2>2, <2>3, RaiseFirst DEF new
<1>3. CASE list[1].start = r.start /\ ~(r.end < list[1].end)
  <2>1. new = SetStart(list, 1, list[1].end)
    BY <1>3 DEF ProcessAckOfAckRange
  <2>2. list[1].start .. list[1].end - 1 \subseteq r.start .. r.end
    BY <1>1, <1>3
  <2> HIDE DEF new
  <2>3. /\ new \in Seq(Range) /\ new # <<>>
        /\ Descending(new)
        /\ new[1].end = list[1].end
        /\ Covered(new) \subseteq Covered(list)
        /\ Covered(list) \subseteq Covered(new) \cup (list[1].start .. list[1].end - 1)
    BY <1>1, <2>1, RaiseFirst
  <2>. QED
    BY <2>2, <2>3 DEF new
<1>4. CASE list[1].start # r.start /\ Matching(list, r) = {}
  <2>1. new = list
    BY <1>4 DEF ProcessAckOfAckRange
  <2>. QED
    BY <2>1
<1>5. CASE list[1].start # r.start /\ Matching(list, r) # {}
  <2> DEFINE k == CHOOSE k \in Matching(list, r) : TRUE
  <2>1. new = Remove(list, k)
    BY <1>5 DEF ProcessAckOfAckRange
  <2>2. k \in Matching(list, r)
    BY <1>5
  <2> HIDE DEF new, k
  <2>3. k \in 2 .. Len(list) /\ list[k] = r
    BY <2>2 DEF Matching
  <2>4. k \in 1 .. Len(list)
    BY <2>3
  <2>5. /\ new \in Seq(Range)
        /\ Len(new) = Len(list) - 1
        /\ new[1] = list[1]
    <3>1. /\ new \in Seq(Range)
          /\ Len(new) = Len(list) - 1
          /\ \A j \in 1 .. Len(list) - 1 : j < k => new[j] = list[j]
      BY <2>1, <2>4, RemoveItems
    <3>2. 1 \in 1 .. Len(list) - 1 /\ 1 < k
      BY <2>3
    <3>. QED
      BY <3>1, <3>2
  <2>6. /\ Descending(new)
        /\ Covered(new) \subseteq Covered(list)
        /\ Covered(list) \subseteq Covered(new) \cup (r.start .. r.end)
    BY <2>1, <2>3, <2>4, RemoveItem
  <2>7. new # <<>>
    BY <2>3, <2>5
  <2>. QED
    BY <2>5, <2>6, <2>7 DEF new
<1>. QED
  BY <1>2, <1>3, <1>4, <1>5

(* One turn of the pruning loop keeps the invariant.                        *)
LEMMA PruneRangeInductive ==
  ASSUME Inductive, PruneRange
  PROVE  /\ Inductive'
         /\ at = 0 /\ at' = 0
         /\ sacks # <<>> /\ sacks' # <<>>
         /\ Covered(sacks') \subseteq Covered(sacks)
         /\ Covered(sacks) \ Covered(sacks') \subseteq confirmed
         /\ sacks'[1].end = sacks[1].end
<1>0. /\ pruning # <<>>
      /\ sacks' = ProcessAckOfAckRange(sacks, Head(pruning))
      /\ pruning' = Tail(pruning)
      /\ UNCHANGED <<use, at, ret, stamped, call, acks, confirmed, history>>
  BY DEF PruneRange
<1>1. at = 0 /\ sacks # <<>>
  BY <1>0 DEF Inductive, CallInv, AckInv, TypeOK
<1>2. /\ sacks \in Seq(Range) /\ Descending(sacks) /\ pruning \in Seq(Range)
  BY DEF Inductive, TypeOK, NormalForm
<1>3. /\ 1 \in 1 .. Len(pruning)
      /\ Head(pruning) = pruning[1]
      /\ pruning[1] \in Range
      /\ Tail(pruning) \in Seq(Range)
      /\ Len(Tail(pruning)) = Len(pruning) - 1
      /\ \A k \in 1 .. Len(pruning) - 1 : Tail(pruning)[k] = pruning[k + 1]
  BY <1>0, <1>2
<1>4. pruning[1].start <= pruning[1].end
  BY <1>2, <1>3 DEF Inductive, AckInv, WellFormed
<1>5. /\ sacks' \in Seq(Range) /\ sacks' # <<>>
      /\ Descending(sacks')
      /\ sacks'[1].end = sacks[1].end
      /\ Covered(sacks') \subseteq Covered(sacks)
      /\ Covered(sacks) \subseteq Covered(sacks') \cup (pruning[1].start .. pruning[1].end)
  BY <1>0, <1>1, <1>2, <1>3, <1>4, PruneItem
<1>10. Covered(sacks) \ Covered(sacks') \subseteq confirmed
  <2>1. \A x \in pruning[1].start .. pruning[1].end : x \in confirmed
    <3> TAKE x \in pruning[1].start .. pruning[1].end
    <3>1. x \in Nat /\ pruning[1].start <= x /\ x <= pruning[1].end
      BY <1>2, <1>3, ItemType
    <3>2. x \in Covered(pruning)
      BY <1>2, <1>3, <3>1, InCovered
    <3>. QED
      BY <3>2 DEF Inductive, AckInv
  <2>. QED
    BY <1>5, <2>1
<1>6. TypeOK'
  BY <1>0, <1>1, <1>3, <1>5 DEF Inductive, TypeOK, call, history
<1>7. NormalForm'
  BY <1>5 DEF NormalForm
<1>8. CallInv' /\ AtRest'
  BY <1>0, <1>1 DEF Inductive, CallInv, AtRest, call
<1>9. AckInv'
  <2>1. (\A a \in DOMAIN acks : WellFormed(acks[a]))'
    BY <1>0 DEF Inductive, AckInv
  <2>2. WellFormed(pruning)'
    <3>1. DOMAIN Tail(pruning) = 1 .. Len(pruning) - 1
      BY <1>3
    <3>2. \A k \in 1 .. Len(pruning) : pruning[k].start <= pruning[k].end
      BY <1>2 DEF Inductive, AckInv, WellFormed
    <3>3. \A k \in 1 .. Len(pruning) - 1 :
             Tail(pruning)[k].start <= Tail(pruning)[k].end
      BY <1>3, <3>2
    <3>. QED
      BY <1>0, <3>1, <3>3 DEF WellFormed
  <2>3. (Covered(pruning) \subseteq confirmed)'
    <3> SUFFICES ASSUME NEW x \in Covered(Tail(pruning))
                 PROVE  x \in confirmed
      BY <1>0
    <3>1. x \in Nat
      BY ZenonT(40), <1>3, InCovered
    <3>2. PICK k \in 1 .. Len(Tail(pruning)) :
             Tail(pruning)[k].start <= x /\ x <= Tail(pruning)[k].end
      BY <1>3, InCovered
    <3>3. /\ k + 1 \in 1 .. Len(pruning)
          /\ pruning[k + 1].start <= x /\ x <= pruning[k + 1].end
      BY <1>3, <3>2
    <3>4. x \in Covered(pruning)
      BY <1>2, <3>1, <3>3, InCovered
    <3>. QED
      BY <3>4 DEF Inductive, AckInv
  <2>4. (recorded \ Covered(sacks) \subseteq confirmed)'
    <3>2. recorded \ Covered(sacks) \subseteq confirmed
      BY <1>1 DEF Inductive, AckInv
    <3>3. recorded' = recorded /\ confirmed' = confirmed
      BY <1>0 DEF history
    <3>. QED
      BY <1>10, <3>2, <3>3
  <2>5. (\A n \in recorded : sacks # <<>> /\ n <= sacks[1].end)'
    BY <1>0, <1>5 DEF Inductive, AckInv, history
  <2>. QED
    BY <1>5, <2>1, <2>2, <2>3, <2>4, <2>5 DEF AckInv
<1>. QED
  BY <1>0, <1>1, <1>5, <1>6, <1>7, <1>8, <1>9, <1>10 DEF Inductive

(* An acknowledged or lost ACK frame leaves the list of frames.             *)
LEMMA AckOfAckInductive ==
  ASSUME Inductive, NEW a \in DOMAIN acks, ProcessAckOfAckFrame(a)
  PROVE  Inductive' /\ UNCHANGED <<sacks, at, before>>
<1>0. /\ Idle
      /\ acks' = Remove(acks, a)
      /\ \/ /\ pruning' = acks[a]
            /\ confirmed' = confirmed \cup Covered(acks[a])
         \/ UNCHANGED <<pruning, confirmed>>
      /\ UNCHANGED <<sacks, use, at, ret, stamped, call, history>>
  BY DEF ProcessAckOfAckFrame
<1>1. acks \in Seq(Seq(Range)) /\ a \in 1 .. Len(acks) /\ acks[a] \in Seq(Range)
  BY DEF Inductive, TypeOK
<1>2. /\ acks' \in Seq(Seq(Range))
      /\ Len(acks') = Len(acks) - 1
      /\ \A k \in 1 .. Len(acks) - 1 : /\ k < a => acks'[k] = acks[k]
                                       /\ k >= a => acks'[k] = acks[k + 1]
  BY ZenonT(40), <1>0, <1>1, RemoveItems
<1>3. Covered(acks[a]) \subseteq Nat
  BY <1>1, InCovered
<1>4. TypeOK'
  BY ZenonT(40), <1>0, <1>1, <1>2, <1>3 DEF Inductive, TypeOK, call, history
<1>5. NormalForm' /\ CallInv' /\ AtRest'
  BY SMTT(30), <1>0 DEF Inductive, NormalForm, CallInv, AtRest, Idle, call
<1>6. AckInv'
  <2>1. (\A k \in DOMAIN acks : WellFormed(acks[k]))'
    <3>1. DOMAIN acks' = 1 .. Len(acks) - 1
      BY <1>2
    <3>2. \A k \in 1 .. Len(acks) : WellFormed(acks[k])
      BY <1>1 DEF Inductive, AckInv
    <3>3. \A k \in 1 .. Len(acks) - 1 : \E m \in 1 .. Len(acks) : acks'[k] = acks[m]
      <4> TAKE k \in 1 .. Len(acks) - 1
      <4>1. CASE k < a
        BY <1>1, <1>2, <4>1
      <4>2. CASE k >= a
        <5>1. k + 1 \in 1 .. Len(acks) /\ acks'[k] = acks[k + 1]
          BY <1>1, <1>2, <4>2
        <5>. QED
          BY <5>1
      <4>. QED
        BY <1>1, <4>1, <4>2
    <3>. QED
      BY <3>1, <3>2, <3>3, Zenon
  <2>2. sacks # <<>>
    BY <1>1 DEF Inductive, AckInv
  <2>3. WellFormed(acks[a])
    BY DEF Inductive, AckInv
  <2>. QED
    BY <1>0, <2>1, <2>2, <2>3 DEF Inductive, AckInv, call, history
<1>. QED
  BY <1>0, <1>4, <1>5, <1>6 DEF Inductive, call

(* An ACK frame lists items of the list.                                    *)
LEMMA PrepareAckInductive ==
  ASSUME Inductive, PrepareAckFrame
  PROVE  Inductive' /\ UNCHANGED <<sacks, at, before>>
<1>0. /\ Idle /\ sacks # <<>>
      /\ UNCHANGED <<sacks, use, at, ret, stamped, call, pruning, confirmed, history>>
  BY DEF PrepareAckFrame
<1>1. PICK n \in 1 .. Len(sacks) : acks' = Append(acks, SubSeq(sacks, 1, n))
  BY DEF PrepareAckFrame
<1> DEFINE frame == SubSeq(sacks, 1, n)
<1>2. /\ sacks \in Seq(Range) /\ Descending(sacks)
      /\ acks \in Seq(Seq(Range))
  BY DEF Inductive, TypeOK, NormalForm
<1>3. /\ frame \in Seq(Range)
      /\ DOMAIN frame = 1 .. n
      /\ \A k \in 1 .. n : frame[k] = sacks[k]
  BY <1>2
<1>4. WellFormed(frame)
  BY <1>2, <1>3, DescendingItems DEF WellFormed
<1> HIDE DEF frame
<1>5. /\ acks' \in Seq(Seq(Range))
      /\ DOMAIN acks' = 1 .. Len(acks) + 1
      /\ \A k \in 1 .. Len(acks) : acks'[k] = acks[k]
      /\ acks'[Len(acks) + 1] = frame
  BY <1>1, <1>2, <1>3 DEF frame
<1>6. TypeOK'
  BY <1>0, <1>5 DEF Inductive, TypeOK, call, history
<1>7. NormalForm' /\ CallInv' /\ AtRest'
  BY <1>0 DEF Inductive, NormalForm, CallInv, AtRest, Idle, call
<1>8. AckInv'
  <2>1. \A k \in 1 .. Len(acks) : WellFormed(acks[k])
    BY <1>2 DEF Inductive, AckInv
  <2>2. \A k \in 1 .. Len(acks) + 1 :
           acks'[k] = frame \/ \E m \in 1 .. Len(acks) : acks'[k] = acks[m]
    <3> TAKE k \in 1 .. Len(acks) + 1
    <3>1. CASE k = Len(acks) + 1
      BY <1>5, <3>1
    <3>2. CASE k # Len(acks) + 1
      <4>1. k \in 1 .. Len(acks)
        BY <1>2, <3>2
      <4>. QED
        BY <1>5, <4>1
    <3>. QED
      BY <3>1, <3>2
  <2>3. (\A k \in DOMAIN acks : WellFormed(acks[k]))'
    BY <1>4, <1>5, <2>1, <2>2, Zenon
  <2>. QED
    BY <1>0, <2>3 DEF Inductive, AckInv, call, history
<1>. QED
  BY <1>0, <1>6, <1>7, <1>8 DEF Inductive, call

(* A call starts its walk, or fills the empty list at once.                 *)
LEMMA UpdateInductive ==
  ASSUME Inductive, NEW min \in Numbers, NEW max \in Numbers, min <= max,
         UpdateSackList(min, max), stamped' \in Nat \cup {-1}
  PROVE  /\ Inductive'
         /\ at = 0
         /\ \/ at' = 0 /\ Covered(sacks') = Covered(sacks) \cup (min .. max)
            \/ at' # 0 /\ before' = Covered(sacks)
<1>0. Idle /\ at = 0 /\ UNCHANGED <<use, acking, failed>>
  BY DEF UpdateSackList, Idle
<1>1. /\ sacks \in Seq(Range) /\ Descending(sacks)
      /\ min \in Nat /\ max \in Nat
  BY NumbersAssumption DEF Inductive, TypeOK, NormalForm
<1>2. Covered(sacks) \subseteq Nat /\ min .. max \subseteq Nat
  BY <1>1, InCovered
<1>3. CASE /\ sacks = <<>>
           /\ sacks' = <<[start |-> min, end |-> max]>>
           /\ ret' = 0
           /\ recorded' = recorded \cup (min .. max)
           /\ UNCHANGED <<at, call>>
  <2> DEFINE range == [start |-> min, end |-> max]
  <2>1. range \in Range /\ range.start = min /\ range.end = max
    BY <1>1 DEF Range
  <2> HIDE DEF range
  <2>2. sacks' = <<range>>
    BY <1>3 DEF range
  <2>3. /\ sacks' \in Seq(Range) /\ Len(sacks') = 1
        /\ sacks'[1] = range /\ sacks' # <<>>
    BY <2>1, <2>2
  <2>4. Descending(sacks')
    BY <1>1, <2>1, <2>3, DescendingItems
  <2>5. ASSUME NEW x
        PROVE  x \in Covered(sacks') <=> x \in min .. max
    BY <1>1, <2>1, <2>3, InCovered
  <2>6. ASSUME NEW x
        PROVE  x \notin Covered(sacks)
    BY <1>3 DEF Covered
  <2>7. TypeOK'
    <3>1. /\ UNCHANGED <<use, acks, pruning, confirmed, failed>>
          /\ UNCHANGED <<at, pn64_min, pn64_max, before, asked>>
      BY <1>0, <1>3 DEF acking, call
    <3>2. recorded' \subseteq Nat
      BY <1>2, <1>3 DEF Inductive, TypeOK
    <3>3. at' \in 0 .. Len(sacks') /\ ret' \in {-1, 0, 1}
      BY <1>0, <1>3, <2>3
    <3>. QED
      BY <2>3, <3>1, <3>2, <3>3 DEF Inductive, TypeOK
  <2>8. NormalForm' /\ CallInv' /\ AtRest'
    BY <1>0, <1>3, <2>4 DEF Inductive, NormalForm, CallInv, AtRest, call
  <2>9. AckInv'
    <3>1. recorded = {}
      BY <1>3 DEF Inductive, AckInv
    <3>2. (recorded \ Covered(sacks) \subseteq confirmed)'
      BY <1>3, <2>5, <3>1
    <3>3. (\A n \in recorded : sacks # <<>> /\ n <= sacks[1].end)'
      BY <1>1, <1>3, <2>1, <2>3, <3>1
    <3>. QED
      BY <1>0, <2>3, <3>2, <3>3 DEF Inductive, AckInv, acking
  <2>10. Covered(sacks') = Covered(sacks) \cup (min .. max)
    BY <2>5, <2>6
  <2>. QED
    BY <1>0, <1>3, <2>7, <2>8, <2>9, <2>10 DEF Inductive
<1>4. CASE /\ sacks # <<>>
           /\ at' = 1
           /\ pn64_min' = min
           /\ pn64_max' = max
           /\ ret' = 1
           /\ before' = Covered(sacks)
           /\ asked' = min .. max
           /\ UNCHANGED <<sacks, recorded>>
  <2>1. TypeOK'
    BY <1>0, <1>1, <1>2, <1>4 DEF Inductive, TypeOK, acking
  <2>2. NormalForm'
    BY <1>1, <1>4 DEF NormalForm
  <2>3. recorded \ Covered(sacks) \subseteq confirmed /\ pruning = <<>>
    BY <1>0 DEF Inductive, AckInv, Idle
  <2>4. CallInv' /\ AtRest'
    BY <1>0, <1>4, <2>3 DEF CallInv, AtRest, acking
  <2>5. AckInv'
    BY <1>0, <1>4 DEF Inductive, AckInv, acking
  <2>. QED
    BY <1>0, <1>4, <2>1, <2>2, <2>4, <2>5 DEF Inductive
<1>. QED
  BY <1>3, <1>4 DEF UpdateSackList

-----------------------------------------------------------------------------
(* The theorems.                                                            *)

(* Every step keeps the invariant, whatever it is.                          *)
LEMMA NextInductive ==
  ASSUME Inductive, [Next]_vars
  PROVE  Inductive'
<1>1. ASSUME NEW pn \in Numbers, RecordPnReceived(pn)
      PROVE  Inductive'
  <2>1. stamped' \in Nat \cup {-1} /\ pn <= pn
    BY <1>1, NumbersAssumption DEF RecordPnReceived, Inductive, TypeOK
  <2>2. UpdateSackList(pn, pn)
    BY <1>1 DEF RecordPnReceived
  <2>. QED
    BY <2>1, <2>2, UpdateInductive
<1>2. ASSUME NEW min \in Numbers, NEW max \in Numbers, min <= max,
             ProcessAckOfStreamFrame(min, max)
      PROVE  Inductive'
  <2>1. stamped' \in Nat \cup {-1} /\ UpdateSackList(min, max)
    BY <1>2 DEF ProcessAckOfStreamFrame, Inductive, TypeOK
  <2>. QED
    BY <1>2, <2>1, UpdateInductive
<1>3. CASE Walk
  BY <1>3, WalkOutcome, OutcomeInductive
<1>4. CASE PruneRange
  BY <1>4, PruneRangeInductive
<1>5. CASE PrepareAckFrame
  BY <1>5, PrepareAckInductive
<1>6. ASSUME NEW a \in DOMAIN acks, ProcessAckOfAckFrame(a)
      PROVE  Inductive'
  BY SMTT(30), <1>6, AckOfAckInductive
<1>7. CASE UNCHANGED vars
  BY <1>7 DEF vars, call, acking, history, Inductive, TypeOK, NormalForm,
              AtRest, CallInv, AckInv
<1>. QED
  BY <1>1, <1>2, <1>3, <1>4, <1>5, <1>6, <1>7 DEF Next, Step, Walk

(* The invariant holds at the start.                                        *)
LEMMA InitInductive ==
  ASSUME Init
  PROVE  Inductive
<1> USE DEF Init, NoCall
<1>1. sacks \in Seq(Range) /\ Descending(sacks)
  <2>1. CASE sacks = <<>>
    BY <2>1 DEF Descending
  <2>2. CASE sacks = <<[start |-> 0, end |-> 0]>>
    <3> DEFINE range == [start |-> 0, end |-> 0]
    <3>1. range \in Range /\ range.start = 0 /\ range.end = 0
      BY DEF Range
    <3> HIDE DEF range
    <3>2. sacks = <<range>>
      BY <2>2 DEF range
    <3>3. sacks \in Seq(Range) /\ Len(sacks) = 1 /\ sacks[1] = range
      BY <3>1, <3>2
    <3>. QED
      BY <3>1, <3>3, DescendingItems
  <2>. QED
    BY <2>1, <2>2
<1>2. Covered(sacks) \subseteq Nat
  BY <1>1, InCovered
<1>3. TypeOK
  <2>1. at \in 0 .. Len(sacks)
    BY <1>1
  <2>2. acks \in Seq(Seq(Range)) /\ pruning \in Seq(Range)
    OBVIOUS
  <2>3. use \in {"packets", "stream"} /\ stamped \in Nat \cup {-1} /\ ret \in {-1, 0, 1}
    OBVIOUS
  <2>. QED
    BY ZenonT(40), <1>1, <1>2, <2>1, <2>2, <2>3 DEF TypeOK
<1>4. \A n \in Covered(sacks) : sacks # <<>> /\ n <= sacks[1].end
  BY <1>1, FirstIsLargest
<1>5. Covered(pruning) = {}
  BY DEF Covered
<1>6. AckInv
  BY <1>4, <1>5 DEF AckInv, WellFormed
<1>. QED
  BY SMTT(30), <1>1, <1>3, <1>6 DEF Inductive, NormalForm, CallInv, AtRest

(* sacks.c and the pruning of frames.c keep the list typed, in normal form  *)
(* and complete, for every set of numbers and every sequence of calls.      *)
THEOREM ListInvariant == Spec => []Inductive
<1>. QED
  BY InitInductive, NextInductive, PTL DEF Spec

(* The list is always in descending order with holes between its items.     *)
THEOREM ListNormalForm == Spec => []NormalForm
<1>1. Inductive => NormalForm
  BY DEF Inductive
<1>. QED
  BY <1>1, ListInvariant, PTL

(* Pruning never loses the largest number received, nor any number whose    *)
(* ACK frames were all unacknowledged (frames.c:2126).                      *)
THEOREM PruningIsSafe == Spec => []PruningLosesNothing
<1>1. Inductive => PruningLosesNothing
  BY DEF PruningLosesNothing, Inductive, AckInv, LargestKept, ForgottenWereConfirmed, Idle
<1>. QED
  BY <1>1, ListInvariant, PTL

(* The value that picoquic_update_sack_list returns is right.               *)
THEOREM ReturnValue == Spec => ReturnExact
<1> DEFINE Right == (at > 0 /\ at' = 0) =>
                       /\ ret' = 1 <=> asked \subseteq before
                       /\ ret' \in {1, -1} => Covered(sacks') = before
                       /\ ret' = 0 => Covered(sacks') = before \cup asked
<1>1. ASSUME Inductive, [Next]_vars
      PROVE  [Right]_vars
  <2> SUFFICES ASSUME at > 0, at' = 0
               PROVE  /\ ret' = 1 <=> asked \subseteq before
                      /\ ret' \in {1, -1} => Covered(sacks') = before
                      /\ ret' = 0 => Covered(sacks') = before \cup asked
    OBVIOUS
  <2>1. at # 0 /\ at' # at
    BY DEF Inductive, TypeOK
  <2>2. Walk
    BY <1>1, <2>1 DEF Next, Step, Walk, RecordPnReceived, ProcessAckOfStreamFrame,
       UpdateSackList, PrepareAckFrame, ProcessAckOfAckFrame, PruneRange, Idle, vars
  <2>3. PICK v \in {-1, 0, 1} : Outcome(v)
    BY <1>1, <2>2, WalkOutcome
  <2>4. ret' = v
    BY <2>3 DEF Outcome, Return
  <2>5. CASE v = 1
    <3>1. asked \subseteq before /\ Covered(sacks') = before \cup asked
      BY <2>3, <2>5 DEF Outcome
    <3>2. Covered(sacks') = before
      BY <3>1
    <3>. QED
      BY <2>4, <2>5, <3>1, <3>2
  <2>6. CASE v # 1
    BY <2>3, <2>4, <2>6 DEF Outcome
  <2>. QED
    BY <2>5, <2>6
<1>. QED
  BY <1>1, ListInvariant, PTL DEF Spec, ReturnExact

(* The list is a set of numbers: ranges are added whole or not at all, and  *)
(* pruning forgets only numbers that the peer is known to have been told,   *)
(* never the largest (SackSet.tla).                                         *)
THEOREM ListIsASet == Spec => ImplementsSet
<1> DEFINE set == IF at = 0 THEN Covered(sacks) ELSE before
           mapped == <<set, asked, confirmed>>
<1>1. ASSUME Init
      PROVE  Abstract!Init
  <2>1. CASE sacks = <<>>
    <3>1. Covered(sacks) = {}
      BY <2>1 DEF Covered
    <3>. QED
      BY <1>1, <3>1 DEF Init, NoCall, Abstract!Init
  <2>2. CASE sacks = <<[start |-> 0, end |-> 0]>>
    <3> DEFINE range == [start |-> 0, end |-> 0]
    <3>1. range \in Range /\ range.start = 0 /\ range.end = 0
      BY DEF Range
    <3> HIDE DEF range
    <3>2. sacks \in Seq(Range) /\ Len(sacks) = 1 /\ sacks[1] = range
      BY <2>2, <3>1 DEF range
    <3>3. \A x : x \in Covered(sacks) <=> x = 0
      BY <3>1, <3>2, InCovered
    <3>4. Covered(sacks) = {0}
      BY <3>3
    <3>. QED
      BY <1>1, <3>4 DEF Init, NoCall, Abstract!Init
  <2>. QED
    BY <1>1, <2>1, <2>2 DEF Init
<1>2. ASSUME Inductive, [Next]_vars
      PROVE  [Abstract!Next]_mapped
  <2>1. ASSUME NEW min \in Numbers, NEW max \in Numbers, min <= max,
               UpdateSackList(min, max), stamped' \in Nat \cup {-1}
        PROVE  [Abstract!Next]_mapped
    <3>1. min .. max \in Abstract!Ranges
      <4>1. min \in min .. max
        BY <2>1, NumbersAssumption
      <4>. QED
        BY <4>1 DEF Abstract!Ranges
    <3>2. at = 0 /\ confirmed' = confirmed
      BY <2>1 DEF UpdateSackList, Idle, acking
    <3>3. CASE sacks = <<>> /\ UNCHANGED <<at, call>>
      <4>1. Covered(sacks) = {}
        BY Zenon, <3>3, EmptyCovered
      <4>2. Covered(sacks') = min .. max
        BY ZenonT(40), <1>2, <2>1, <3>2, <3>3, <4>1, UpdateInductive
      <4>. QED
        BY SMTT(30), <3>1, <3>2, <3>3, <4>1, <4>2 DEF Abstract!Next, Abstract!First, call
    <3>4. CASE /\ at' = 1
               /\ before' = Covered(sacks)
               /\ asked' = min .. max
      <4>1. asked = {}
        BY <1>2, <3>2 DEF Inductive, AtRest
      <4>. QED
        BY <3>1, <3>2, <3>4, <4>1 DEF Abstract!Next, Abstract!Ask
    <3>. QED
      BY <2>1, <3>3, <3>4 DEF UpdateSackList
  <2>2. ASSUME NEW pn \in Numbers, RecordPnReceived(pn)
        PROVE  [Abstract!Next]_mapped
    <3>1. stamped' \in Nat \cup {-1} /\ pn <= pn /\ UpdateSackList(pn, pn)
      BY <1>2, <2>2, NumbersAssumption DEF RecordPnReceived, Inductive, TypeOK
    <3>. QED
      BY <2>1, <3>1
  <2>3. ASSUME NEW min \in Numbers, NEW max \in Numbers, min <= max,
               ProcessAckOfStreamFrame(min, max)
        PROVE  [Abstract!Next]_mapped
    <3>1. stamped' \in Nat \cup {-1} /\ UpdateSackList(min, max)
      BY <1>2, <2>3 DEF ProcessAckOfStreamFrame, Inductive, TypeOK
    <3>. QED
      BY <2>1, <2>3, <3>1
  <2>4. CASE Walk
    <3>1. at > 0 /\ at # 0
      BY <1>2, <2>4, WalkOutcome
    <3>2. asked # {}
      BY <1>2, <3>1, NumbersAssumption DEF Inductive, CallInv
    <3>3. ASSUME NEW v \in {-1, 0, 1}, Outcome(v)
          PROVE  [Abstract!Next]_mapped
      <4>1. at' = 0 /\ asked' = {} /\ confirmed' = confirmed
        BY <3>3 DEF Outcome, Return, acking
      <4>2. Covered(sacks') \in {before, before \cup asked}
        BY <3>3 DEF Outcome
      <4>. QED
        BY <3>1, <3>2, <4>1, <4>2 DEF Abstract!Next, Abstract!Answer
    <3>4. ASSUME at' # 0
          PROVE  UNCHANGED mapped
      <4>1. before' = before /\ asked' = asked /\ confirmed' = confirmed
        BY ZenonT(40), <2>4, <3>1, <3>4 DEF Walk, JoinRange, ExtendPrevious, NewHole, MaxInside,
           BelowLast, Advance, ContinueBelow, GoOn, Return, acking
      <4>. QED
        BY <3>1, <3>4, <4>1
    <3>. QED
      BY <1>2, <2>4, <3>3, <3>4, WalkOutcome
  <2>5. CASE PruneRange
    <3>1. /\ at = 0 /\ at' = 0 /\ Inductive'
          /\ sacks' # <<>>
          /\ Covered(sacks') \subseteq Covered(sacks)
          /\ Covered(sacks) \ Covered(sacks') \subseteq confirmed
          /\ sacks'[1].end = sacks[1].end
      BY SMTT(30), <1>2, <2>5, PruneRangeInductive
    <3>2. sacks'[1].end \in Covered(sacks')
      <4>1. sacks' \in Seq(Range) /\ Descending(sacks') /\ 1 \in 1 .. Len(sacks')
        BY SMTT(30), <3>1 DEF Inductive, TypeOK, NormalForm
      <4>. QED
        BY <4>1, EndsCovered
    <3>3. \A n \in Covered(sacks) : n <= sacks'[1].end
      BY <1>2, <3>1, FirstIsLargest DEF Inductive, TypeOK, NormalForm
    <3>4. asked' = asked /\ confirmed' = confirmed
      BY <2>5 DEF PruneRange, call
    <3>. QED
      BY <3>1, <3>2, <3>3, <3>4 DEF Abstract!Next, Abstract!Forget
  <2>6. CASE PrepareAckFrame
    <3>1. UNCHANGED <<sacks, at, before, asked, confirmed>>
      BY <2>6 DEF PrepareAckFrame, call
    <3>. QED
      BY <3>1
  <2>7. ASSUME NEW a \in DOMAIN acks, ProcessAckOfAckFrame(a)
        PROVE  [Abstract!Next]_mapped
    <3>1. UNCHANGED <<sacks, at, before, asked>> /\ confirmed \subseteq confirmed'
      BY <2>7 DEF ProcessAckOfAckFrame, call
    <3>. QED
      BY <3>1 DEF Abstract!Next, Abstract!Confirm
  <2>8. CASE UNCHANGED vars
    BY <2>8 DEF vars, call, acking
  <2>. QED
    BY <1>2, <2>2, <2>3, <2>4, <2>5, <2>6, <2>7, <2>8 DEF Next, Step, Walk
<1>. QED
  BY <1>1, <1>2, ListInvariant, PTL DEF Spec, ImplementsSet, Abstract!Spec

-----------------------------------------------------------------------------
(* The lookups.                                                            *)

(* The item that holds a number is the first one the scan reaches.         *)
LEMMA HolderIsReached ==
  ASSUME NEW list \in Seq(Range), Descending(list), NEW n \in Nat,
         NEW k \in 1 .. Len(list), list[k].start <= n, n <= list[k].end
  PROVE  k \in FirstReached(list, n)
<1>1. \A j \in 1 .. Len(list) : list[j].start \in Nat /\ list[j].end \in Nat
  BY ItemType
<1>2. \A j \in 1 .. k - 1 : n < list[j].start
  <2>1. SUFFICES ASSUME NEW j \in 1 .. k - 1
                 PROVE  n < list[j].start
    OBVIOUS
  <2>2. j \in 1 .. Len(list) /\ j < k
    OBVIOUS
  <2>3. list[k].end + 1 < list[j].start
    BY <2>2, DescendingItems
  <2>. QED
    BY <1>1, <2>2, <2>3
<1>3. k \in DOMAIN list
  OBVIOUS
<1>4. n >= list[k].start
  BY <1>1
<1>. QED
  BY <1>2, <1>3, <1>4, Zenon DEF FirstReached

(* What the scan reaches is an item of the list.                           *)
LEMMA ReachedIsItem ==
  ASSUME NEW list \in Seq(Range), NEW n \in Nat, NEW k \in FirstReached(list, n)
  PROVE  k \in 1 .. Len(list) /\ list[k].start <= n
<1>1. k \in DOMAIN list /\ n >= list[k].start
  BY DEF FirstReached
<1>2. k \in 1 .. Len(list)
  BY <1>1
<1>. QED
  BY <1>1, <1>2, ItemType

(* picoquic_is_pn_already_received finds a number exactly when it is       *)
(* listed (sacks.c:37).                                                    *)
LEMMA PnLookup ==
  ASSUME NEW list \in Seq(Range), Descending(list), NEW n \in Nat
  PROVE  IsPnAlreadyReceived(list, n) <=> n \in Covered(list)
<1>1. ASSUME IsPnAlreadyReceived(list, n)
      PROVE  n \in Covered(list)
  BY <1>1, ReachedIsItem, InCovered DEF IsPnAlreadyReceived
<1>2. ASSUME n \in Covered(list)
      PROVE  IsPnAlreadyReceived(list, n)
  <2>1. PICK k \in 1 .. Len(list) : list[k].start <= n /\ n <= list[k].end
    BY <1>2, InCovered
  <2>. QED
    BY <2>1, HolderIsReached DEF IsPnAlreadyReceived
<1>. QED
  BY <1>1, <1>2

(* picoquic_check_sack_list finds a range exactly when it is listed whole: *)
(* two items never touch, so that one item holds all of it (sacks.c:203).  *)
LEMMA RangeLookup ==
  ASSUME NEW list \in Seq(Range), Descending(list),
         NEW min \in Nat, NEW max \in Nat, min <= max
  PROVE  CheckSackList(list, min, max) <=> min .. max \subseteq Covered(list)
<1>0. \A j \in 1 .. Len(list) : list[j].start \in Nat /\ list[j].end \in Nat
  BY ItemType
<1>1. ASSUME CheckSackList(list, min, max)
      PROVE  min .. max \subseteq Covered(list)
  <2>1. PICK k \in FirstReached(list, max) : max <= list[k].end /\ min >= list[k].start
    BY <1>1 DEF CheckSackList
  <2>2. k \in 1 .. Len(list)
    BY ReachedIsItem
  <2>3. SUFFICES ASSUME NEW n \in min .. max
                 PROVE  n \in Covered(list)
    OBVIOUS
  <2>4. n \in Nat /\ list[k].start <= n /\ n <= list[k].end
    BY <1>0, <2>1, <2>2
  <2>. QED
    BY <2>2, <2>4, InCovered
<1>2. ASSUME min .. max \subseteq Covered(list)
      PROVE  CheckSackList(list, min, max)
  <2>1. PICK k \in 1 .. Len(list) : list[k].start <= max /\ max <= list[k].end
    <3>1. max \in Covered(list)
      BY <1>2
    <3>. QED
      BY <3>1, InCovered
  <2>2. k \in FirstReached(list, max)
    BY <2>1, HolderIsReached
  <2>3. ASSUME min < list[k].start
        PROVE  FALSE
    <3> DEFINE hole == list[k].start - 1
    <3>1. hole \in Nat /\ hole \in min .. max
      BY <1>0, <2>1, <2>3
    <3>2. hole < list[k].start
      BY <1>0
    <3>3. k + 1 <= Len(list) => hole > list[k + 1].end
      <4>1. SUFFICES ASSUME k + 1 <= Len(list)
                     PROVE  hole > list[k + 1].end
        OBVIOUS
      <4>2. k + 1 \in 1 .. Len(list) /\ k < k + 1
        BY <4>1
      <4>3. list[k + 1].end + 1 < list[k].start
        BY <4>2, DescendingItems
      <4>. QED
        BY <1>0, <4>2, <4>3
    <3> HIDE DEF hole
    <3>4. k + 1 \in 1 .. Len(list) + 1 /\ k + 1 > 1 /\ (k + 1) - 1 = k
      OBVIOUS
    <3>5. hole \notin Covered(list)
      BY <3>1, <3>2, <3>3, <3>4, InHole
    <3>. QED
      BY <1>2, <3>1, <3>5
  <2>4. max <= list[k].end /\ min >= list[k].start
    BY <1>0, <2>1, <2>3
  <2>. QED
    BY <2>2, <2>4 DEF CheckSackList
<1>. QED
  BY <1>1, <1>2

(* Both lookups of sacks.c answer for the whole list, although they stop   *)
(* at the first item that is not above the number.                         *)
THEOREM LookupsAreExact == Spec => []LookupsExact
<1>1. ASSUME Inductive
      PROVE  LookupsExact
  <2>1. sacks \in Seq(Range) /\ Descending(sacks)
    BY <1>1 DEF Inductive, TypeOK, NormalForm
  <2>2. \A pn \in Numbers : IsPnAlreadyReceived(sacks, pn) <=> pn \in Covered(sacks)
    BY <2>1, PnLookup, NumbersAssumption
  <2>3. \A min, max \in Numbers :
           min <= max => (CheckSackList(sacks, min, max)
                            <=> min .. max \subseteq Covered(sacks))
    BY <2>1, RangeLookup, NumbersAssumption
  <2>. QED
    BY <2>2, <2>3, Zenon DEF LookupsExact
<1>. QED
  BY <1>1, ListInvariant, PTL

-----------------------------------------------------------------------------
(* The time stamp of the largest packet.                                   *)

(* An arrival stamps a number above all that are listed.                   *)
LEMMA RecordStamps ==
  ASSUME Inductive, StampInv, NEW pn \in Numbers, RecordPnReceived(pn)
  PROVE  StampInv'
<1>0. /\ use = "packets" /\ use' = use
      /\ at = 0 /\ asked = {}
      /\ UpdateSackList(pn, pn)
      /\ stamped' = IF sacks = <<>> \/ pn > sacks[1].end THEN pn ELSE stamped
  BY DEF RecordPnReceived, UpdateSackList, Idle, Inductive, AtRest
<1>1. pn \in Nat /\ pn <= pn /\ pn .. pn = {pn}
  BY NumbersAssumption
<1>2. sacks \in Seq(Range) /\ Descending(sacks) /\ stamped \in Nat \cup {-1}
  BY DEF Inductive, TypeOK, NormalForm
<1>3. stamped' \in Nat \cup {-1}
  BY <1>0, <1>1, <1>2
<1>4. Listed = Covered(sacks)
  BY <1>0 DEF Listed
<1>5. Listed' = Covered(sacks) \cup {pn}
  <2>1. \/ at' = 0 /\ Covered(sacks') = Covered(sacks) \cup {pn}
        \/ at' = 1 /\ before' = Covered(sacks) /\ asked' = {pn}
    <3>1. CASE sacks = <<>>
      <4>1. at' = 0 /\ Covered(sacks') = Covered(sacks) \cup (pn .. pn)
        <5>1. at' = at
          BY <1>0, <3>1 DEF UpdateSackList
        <5>. QED
          BY <1>0, <1>1, <1>3, <5>1, UpdateInductive
      <4>. QED
        BY <1>1, <4>1
    <3>2. CASE sacks # <<>>
      BY <1>0, <1>1, <3>2 DEF UpdateSackList
    <3>. QED
      BY <3>1, <3>2
  <2>2. at' = 0 => asked' = {}
    <3>1. Inductive'
      BY <1>0, <1>1, <1>3, UpdateInductive
    <3>. QED
      BY <3>1 DEF Inductive, AtRest
  <2>. QED
    BY <2>1, <2>2 DEF Listed
<1>6. CASE sacks = <<>> \/ pn > sacks[1].end
  <2>1. \A n \in Covered(sacks) : n \in Nat /\ sacks # <<>> /\ n <= sacks[1].end
    BY <1>2, InCovered, FirstIsLargest
  <2>2. sacks # <<>> => sacks[1].end \in Nat
    BY <1>2, ItemType
  <2>3. \A n \in Covered(sacks) : n <= pn
    BY <1>1, <1>6, <2>1, <2>2
  <2>. QED
    BY <1>0, <1>1, <1>5, <1>6, <2>3 DEF StampInv
<1>7. CASE ~(sacks = <<>> \/ pn > sacks[1].end)
  <2>1. 1 \in 1 .. Len(sacks) /\ sacks[1].end \in Covered(sacks) /\ sacks[1].end \in Nat
    BY <1>2, <1>7, EndsCovered, ItemType
  <2>2. sacks[1].end <= stamped
    BY <1>0, <1>4, <2>1 DEF StampInv
  <2>3. pn <= stamped
    BY <1>1, <1>2, <1>7, <2>1, <2>2
  <2>4. stamped \in Covered(sacks) \/ failed
    BY <1>0, <1>4, <2>1 DEF StampInv
  <2>5. failed' = failed
    BY <1>0 DEF UpdateSackList
  <2>. QED
    BY <1>0, <1>4, <1>5, <1>7, <2>3, <2>4, <2>5 DEF StampInv
<1>. QED
  BY <1>6, <1>7

(* The end of a walk leaves all that was to be listed, or a failure.       *)
LEMMA WalkKeepsStamp ==
  ASSUME Inductive, StampInv, Walk
  PROVE  StampInv'
<1>0. at > 0 /\ at # 0
  BY WalkOutcome
<1>1. Listed = before \cup asked
  BY <1>0 DEF Listed
<1>2. ASSUME NEW v \in {-1, 0, 1}, Outcome(v)
      PROVE  StampInv'
  <2>1. /\ at' = 0 /\ asked' = {} /\ use' = use /\ stamped' = stamped
        /\ failed' = (failed \/ v = -1)
    BY <1>2 DEF Outcome, Return
  <2>2. Listed' = Covered(sacks')
    BY <2>1 DEF Listed
  <2>3. Covered(sacks') \in {before, before \cup asked}
    BY <1>2 DEF Outcome
  <2>4. v # -1 => Covered(sacks') = before \cup asked
    BY <1>2 DEF Outcome
  <2>5. CASE v = -1
    <3>1. failed'
      BY <2>1, <2>5, Zenon
    <3>2. Listed' \subseteq Listed
      BY <1>1, <2>2, <2>3
    <3>. QED
      BY <2>1, <3>1, <3>2, Zenon DEF StampInv
  <2>6. CASE v # -1
    <3>1. failed => failed'
      BY <2>1, Zenon
    <3>2. Listed' = Listed
      BY <1>1, <2>2, <2>4, <2>6
    <3>. QED
      BY <2>1, <3>1, <3>2, Zenon DEF StampInv
  <2>. QED
    BY <2>5, <2>6
<1>3. ASSUME at' # 0
      PROVE  StampInv'
  <2>1. UNCHANGED <<before, asked, use, stamped, failed>>
    BY ZenonT(40), <1>3 DEF Walk, JoinRange, ExtendPrevious, NewHole, MaxInside,
       BelowLast, Advance, ContinueBelow, GoOn, Return, history
  <2>2. Listed' = Listed
    BY <1>0, <1>3, <2>1 DEF Listed
  <2>. QED
    BY <2>1, <2>2 DEF StampInv
<1>. QED
  BY <1>2, <1>3, WalkOutcome

(* Pruning leaves the largest number, and so its stamp.                    *)
LEMMA PruneKeepsStamp ==
  ASSUME Inductive, StampInv, PruneRange
  PROVE  StampInv'
<1>1. /\ Inductive'
      /\ at = 0 /\ at' = 0
      /\ sacks # <<>> /\ sacks' # <<>>
      /\ Covered(sacks') \subseteq Covered(sacks)
      /\ sacks'[1].end = sacks[1].end
  BY PruneRangeInductive
<1>2. UNCHANGED <<use, stamped, failed, asked>>
  BY DEF PruneRange, call, history
<1>3. asked = {} /\ Listed = Covered(sacks) /\ Listed' = Covered(sacks')
  BY <1>1, <1>2 DEF Inductive, AtRest, Listed
<1>4. sacks'[1].end \in Covered(sacks')
  <2>1. sacks' \in Seq(Range) /\ Descending(sacks') /\ 1 \in 1 .. Len(sacks')
    BY SMTT(30), <1>1 DEF Inductive, TypeOK, NormalForm
  <2>. QED
    BY <2>1, EndsCovered
<1>5. ASSUME use = "packets", stamped \in Covered(sacks)
      PROVE  stamped = sacks[1].end
  <2>1. sacks \in Seq(Range) /\ Descending(sacks) /\ 1 \in 1 .. Len(sacks)
    BY SMTT(30), <1>1 DEF Inductive, TypeOK, NormalForm
  <2>2. sacks[1].end \in Nat /\ stamped \in Nat /\ stamped <= sacks[1].end
    BY <1>5, <2>1, InCovered, FirstIsLargest, ItemType
  <2>3. sacks[1].end <= stamped
    BY <1>3, <1>5, <2>1, EndsCovered DEF StampInv
  <2>. QED
    BY <2>2, <2>3
<1>6. Listed # {}
  BY <1>1, <1>3, <1>4
<1>. QED
  BY <1>1, <1>2, <1>3, <1>4, <1>5, <1>6 DEF StampInv

(* time_stamp_largest_received belongs to the largest packet listed, or    *)
(* to a larger one that memory failure kept out (sacks.c:189).             *)
THEOREM StampBelongsToLargest == Spec => []StampOfLargest
<1>1. Init => StampInv
  <2>1. SUFFICES ASSUME Init, use = "packets"
                 PROVE  Listed = {}
    BY DEF StampInv
  <2>2. sacks = <<>> /\ at = 0 /\ asked = {}
    BY <2>1 DEF Init, NoCall
  <2>3. Covered(sacks) = {}
    BY <2>2 DEF Covered
  <2>. QED
    BY <2>2, <2>3 DEF Listed
<1>2. ASSUME Inductive, StampInv, [Next]_vars
      PROVE  StampInv'
  <2>1. ASSUME NEW pn \in Numbers, RecordPnReceived(pn)
        PROVE  StampInv'
    BY <1>2, <2>1, RecordStamps
  <2>2. ASSUME NEW min \in Numbers, NEW max \in Numbers,
               ProcessAckOfStreamFrame(min, max)
        PROVE  StampInv'
    BY <2>2 DEF ProcessAckOfStreamFrame, UpdateSackList, StampInv
  <2>3. CASE Walk
    BY <1>2, <2>3, WalkKeepsStamp
  <2>4. CASE PruneRange
    BY <1>2, <2>4, PruneKeepsStamp
  <2>5. CASE PrepareAckFrame
    BY <1>2, <2>5 DEF PrepareAckFrame, call, history, StampInv, Listed
  <2>6. ASSUME NEW a \in DOMAIN acks, ProcessAckOfAckFrame(a)
        PROVE  StampInv'
    BY <1>2, <2>6 DEF ProcessAckOfAckFrame, call, history, StampInv, Listed
  <2>7. CASE UNCHANGED vars
    BY <1>2, <2>7 DEF vars, call, history, StampInv, Listed
  <2>. QED
    BY <1>2, <2>1, <2>2, <2>3, <2>4, <2>5, <2>6, <2>7 DEF Next, Step, Walk
<1>3. ASSUME Inductive, StampInv
      PROVE  StampOfLargest
  <2>1. SUFFICES ASSUME Idle, use = "packets", sacks # <<>>
                 PROVE  stamped = sacks[1].end \/ (stamped > sacks[1].end /\ failed)
    BY DEF StampOfLargest
  <2>2. /\ sacks \in Seq(Range) /\ Descending(sacks) /\ 1 \in 1 .. Len(sacks)
        /\ stamped \in Nat \cup {-1}
    BY SMTT(30), <1>3, <2>1 DEF Inductive, TypeOK, NormalForm
  <2>3. Listed = Covered(sacks)
    BY <1>3, <2>1 DEF Listed, Idle, Inductive, AtRest
  <2>4. sacks[1].end \in Nat /\ sacks[1].end \in Listed
    BY <2>2, <2>3, EndsCovered, ItemType
  <2>5. sacks[1].end <= stamped /\ (stamped \in Listed \/ failed)
    BY <1>3, <2>1, <2>4 DEF StampInv
  <2>6. stamped \in Listed => stamped <= sacks[1].end
    BY <2>2, <2>3, FirstIsLargest
  <2>. QED
    BY <2>2, <2>4, <2>5, <2>6
<1>. QED
  BY <1>1, <1>2, <1>3, ListInvariant, PTL DEF Spec
=============================================================================
