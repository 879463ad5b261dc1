-------------------------- MODULE Reassembly_proofs --------------------------
(***************************************************************************)
(* What reassembly does to a queue, for every queue that is in order and   *)
(* every frame.                                                            *)
(***************************************************************************)
EXTENDS Reassembly, WellFoundedInduction, TLAPS

(* Every set of numbers that is not empty has a least element.             *)
LEMMA LeastNumber ==
  ASSUME NEW T \in SUBSET Nat, T # {}
  PROVE  \E n \in T : \A m \in T : n <= m
<1> DEFINE R == OpToRel(<, Nat)
<1>1. IsWellFoundedOn(R, Nat)
  BY Zenon, NatLessThanWellFounded
<1>2. \A x, y \in Nat : <<x, y>> \in R <=> x < y
  BY DEF OpToRel
<1> HIDE DEF R
<1>3. PICK x \in T : \A y \in T : ~(<<y, x>> \in R)
  BY Zenon, <1>1, WFMin
<1>4. x \in Nat /\ \A y \in T : y \in Nat /\ ~(y < x)
  BY Zenon, <1>2, <1>3
<1>. QED
  BY <1>4

LEMMA MinIsLeast ==
  ASSUME NEW T \in SUBSET Nat, T # {}
  PROVE  Min(T) \in T /\ \A n \in T : Min(T) <= n
BY Zenon, LeastNumber DEF Min

(* A set of numbers with a bound has a greatest element.                   *)
LEMMA MaxIsGreatest ==
  ASSUME NEW T \in SUBSET Nat, T # {}, NEW b \in Nat, \A n \in T : n <= b
  PROVE  Max(T) \in T /\ \A n \in T : n <= Max(T)
<1> DEFINE U == {n \in Nat : \A m \in T : m <= n}
<1>1. PICK u \in U : \A n \in U : u <= n
  <2>1. U \in SUBSET Nat /\ b \in U
    OBVIOUS
  <2>. HIDE DEF U
  <2>. QED
    BY <2>1, LeastNumber
<1>2. u \in T
  <2>1. SUFFICES ASSUME u \notin T PROVE FALSE
    OBVIOUS
  <2>2. \A m \in T : m \in Nat /\ m <= u /\ m # u
    BY <1>1, <2>1
  <2>3. PICK m \in T : TRUE
    BY Zenon
  <2>4. u \in Nat /\ u >= 1 /\ \A n \in T : n <= u - 1
    BY <1>1, <2>2, <2>3
  <2>5. u - 1 \in U
    BY <2>4
  <2>. QED
    BY <1>1, <2>4, <2>5
<1>3. \A n \in T : u >= n /\ n \in Nat
  BY <1>1
<1>4. \E n \in T : \A m \in T : n >= m
  BY <1>2, <1>3
<1>. HIDE DEF U
<1>5. Max(T) \in T /\ \A m \in T : Max(T) >= m
  BY Zenon, <1>4 DEF Max
<1>. QED
  BY <1>5

-----------------------------------------------------------------------------
(* A queue with a block inserted after the first n.                        *)
Insert(q, n, b) == SubSeq(q, 1, n) \o <<b>> \o SubSeq(q, n + 1, Len(q))

(* Sequences of one length with the same elements are the same.            *)
LEMMA SameSeq ==
  ASSUME NEW S, NEW a \in Seq(S), NEW b \in Seq(S), Len(a) = Len(b),
         \A i \in 1..Len(a) : a[i] = b[i]
  PROVE  a = b
<1>1. /\ a = [i \in DOMAIN a |-> a[i]] /\ DOMAIN a = 1..Len(a)
      /\ b = [i \in DOMAIN b |-> b[i]] /\ DOMAIN b = 1..Len(b)
  OBVIOUS
<1>. QED
  BY Zenon, <1>1

LEMMA Joined ==
  ASSUME NEW S, NEW a \in Seq(S), NEW b \in Seq(S)
  PROVE  /\ a \o b \in Seq(S) /\ Len(a \o b) = Len(a) + Len(b)
         /\ \A i \in 1..(Len(a) + Len(b)) :
              (a \o b)[i] = IF i <= Len(a) THEN a[i] ELSE b[i - Len(a)]
OBVIOUS

LEMMA Inserted ==
  ASSUME NEW q \in Seq(Block), NEW b \in Block, NEW n \in 0..Len(q)
  PROVE  /\ Insert(q, n, b) \in Seq(Block)
         /\ Len(Insert(q, n, b)) = Len(q) + 1
         /\ \A i \in 1..n : Insert(q, n, b)[i] = q[i]
         /\ Insert(q, n, b)[n + 1] = b
         /\ \A i \in (n + 1)..Len(q) : Insert(q, n, b)[i + 1] = q[i]
<1> DEFINE x == SubSeq(q, 1, n)
           y == SubSeq(q, n + 1, Len(q))
           r == Insert(q, n, b)
<1>1. /\ x \in Seq(Block) /\ Len(x) = n
      /\ \A i \in 1..n : x[i] = q[i]
  OBVIOUS
<1>2. /\ y \in Seq(Block) /\ Len(y) = Len(q) - n
      /\ \A i \in 1..(Len(q) - n) : y[i] = q[n + i]
  OBVIOUS
<1> DEFINE z == x \o <<b>>
<1>3. r = z \o y
  BY DEF Insert
<1>. HIDE DEF x, y, r
<1>0. /\ z \in Seq(Block) /\ Len(z) = n + 1 /\ z[n + 1] = b
      /\ \A i \in 1..n : z[i] = x[i]
  BY <1>1
<1>. HIDE DEF z
<1>4. /\ r \in Seq(Block) /\ Len(r) = Len(z) + Len(y)
      /\ \A i \in 1..(Len(z) + Len(y)) :
           r[i] = IF i <= Len(z) THEN z[i] ELSE y[i - Len(z)]
  BY Zenon, <1>0, <1>2, <1>3, Joined
<1>9. /\ n \in Nat /\ Len(q) \in Nat /\ n <= Len(q)
      /\ Len(z) = n + 1 /\ Len(y) = Len(q) - n
  BY <1>0, <1>2
<1>5. r \in Seq(Block) /\ Len(r) = Len(q) + 1
  BY <1>4, <1>9
<1>6. ASSUME NEW i \in 1..(n + 1) PROVE r[i] = z[i]
  BY <1>4, <1>9
<1>7. ASSUME NEW i \in (n + 1)..Len(q) PROVE r[i + 1] = q[i]
  <2>1. i - n \in 1..(Len(q) - n) /\ n + (i - n) = i
    OBVIOUS
  <2>2. r[i + 1] = y[i - n]
    BY SMTT(20), <1>0, <1>2, <1>4, <2>1
  <2>3. y[i - n] = q[n + (i - n)]
    BY <1>2, <2>1
  <2>. QED
    BY <2>1, <2>2, <2>3
<1>8. \A i \in (n + 1)..Len(q) : r[i + 1] = q[i]
  BY <1>7
<1>10. r[n + 1] = b /\ \A i \in 1..n : r[i] = q[i]
  BY <1>0, <1>1, <1>6, <1>9
<1>. QED
  BY Zenon, <1>5, <1>10, <1>8 DEF r

(* A queue without its first n blocks.                                     *)
LEMMA Remaining ==
  ASSUME NEW q \in Seq(Block), NEW n \in 0..Len(q),
         NEW r, r = SubSeq(q, n + 1, Len(q))
  PROVE  /\ r \in Seq(Block) /\ Len(r) = Len(q) - n
         /\ \A i \in 1..(Len(q) - n) : r[i] = q[i + n]
OBVIOUS

-----------------------------------------------------------------------------
(* picoquic_queue_network_input                                            *)

LEMMA BlockFacts ==
  ASSUME NEW q, NEW c, InOrder(q, c)
  PROVE  /\ q \in Seq(Block) /\ Len(q) \in Nat
         /\ \A i \in 1..Len(q) : /\ q[i] \in Block /\ q[i].bytes \in Seq(Nat)
                                 /\ q[i].offset \in Nat /\ Len(q[i].bytes) \in Nat
                                 /\ Len(q[i].bytes) > 0 /\ End(q[i]) \in Nat
                                 /\ q[i].offset < End(q[i])
<1>1. q \in Seq(Block) /\ \A i \in 1..Len(q) : Len(q[i].bytes) > 0
  BY DEF InOrder
<1>2. Len(q) \in Nat /\ \A i \in 1..Len(q) : q[i] \in Block
  BY <1>1
<1>3. ASSUME NEW b \in Block, Len(b.bytes) > 0
      PROVE  /\ b.bytes \in Seq(Nat) /\ b.offset \in Nat /\ Len(b.bytes) \in Nat
             /\ End(b) \in Nat /\ b.offset < End(b)
  <2>1. b.bytes \in Seq(Nat) /\ b.offset \in Nat
    BY DEF Block
  <2>2. Len(b.bytes) \in Nat
    BY <2>1
  <2>. QED
    BY <1>3, <2>1, <2>2 DEF End
<1>. QED
  BY Zenon, <1>1, <1>2, <1>3

(* What `start` is after n blocks of a queue that is in order: the block   *)
(* that was passed last has set it, unless it ends before the frame.       *)
LEMMA StartIs ==
  ASSUME NEW c \in Nat, NEW q, InOrder(q, c), NEW o \in Nat, NEW l \in Nat,
         NEW n \in 0..Len(q)
  PROVE  /\ n = 0 => StartAfter(q, o, l, c, n) = Consumed(o, l, c)
         /\ n > 0 /\ End(q[n]) <= o => StartAfter(q, o, l, c, n) = Consumed(o, l, c)
         /\ n > 0 /\ End(q[n]) > o /\ l <= End(q[n]) - o =>
              StartAfter(q, o, l, c, n) = l
         /\ n > 0 /\ End(q[n]) > o /\ End(q[n]) - o < l =>
              StartAfter(q, o, l, c, n) = End(q[n]) - o
<1> DEFINE touched == {i \in 1..n : o < End(q[i])}
<1>1. \A i \in 1..n : /\ q[i].offset \in Nat /\ Len(q[i].bytes) \in Nat
                      /\ Len(q[i].bytes) > 0 /\ End(q[i]) \in Nat
                      /\ q[i].offset < End(q[i])
  BY BlockFacts
<1>2. \A i \in 1..n : i < n => End(q[i]) <= q[n].offset
  BY DEF InOrder
<1>3. ASSUME n = 0 \/ End(q[n]) <= o PROVE touched = {}
  BY <1>1, <1>2, <1>3
<1>4. ASSUME n > 0, End(q[n]) > o PROVE touched # {} /\ Max(touched) = n
  <2>1. n \in touched /\ touched \in SUBSET Nat /\ \A i \in touched : i \in Nat /\ i <= n
    BY <1>1, <1>4
  <2>. HIDE DEF touched
  <2>2. Max(touched) \in touched /\ \A i \in touched : i <= Max(touched)
    <3>1. touched \in SUBSET Nat /\ touched # {} /\ n \in Nat
          /\ \A i \in touched : i <= n
      BY <2>1
    <3>. QED
      BY Zenon, <3>1, MaxIsGreatest
  <2>3. \A k \in Nat : k <= n /\ n <= k => k = n
    OBVIOUS
  <2>. QED
    BY Zenon, <2>1, <2>2, <2>3
<1>5. \A x, y \in Nat : Min({x, y}) = IF x <= y THEN x ELSE y
  <2>1. TAKE x, y \in Nat
  <2> DEFINE T == {x, y}
  <2>2. T \in SUBSET Nat /\ T # {}
    OBVIOUS
  <2>3. x \in T /\ y \in T /\ \A z \in T : z = x \/ z = y
    OBVIOUS
  <2>. HIDE DEF T
  <2>4. Min(T) \in T /\ \A z \in T : Min(T) <= z
    BY Zenon, <2>2, MinIsLeast
  <2>5. \A m \in Nat : (m = x \/ m = y) /\ m <= x /\ m <= y =>
                       m = IF x <= y THEN x ELSE y
    OBVIOUS
  <2>6. Min(T) \in Nat /\ (Min(T) = x \/ Min(T) = y) /\ Min(T) <= x /\ Min(T) <= y
    BY Zenon, <2>3, <2>4
  <2>7. Min(T) = IF x <= y THEN x ELSE y
    BY Zenon, <2>5, <2>6
  <2>. QED
    BY Zenon, <2>7 DEF T
<1>6. StartAfter(q, o, l, c, n) = IF touched = {} THEN Consumed(o, l, c)
                                  ELSE Min({l, End(q[Max(touched)]) - o})
  BY DEF StartAfter
<1>. HIDE DEF touched
<1>7. CASE n = 0 \/ End(q[n]) <= o
  <2>1. StartAfter(q, o, l, c, n) = Consumed(o, l, c)
    BY <1>3, <1>6, <1>7
  <2>. QED
    BY <1>1, <1>7, <2>1
<1>8. CASE n > 0 /\ End(q[n]) > o
  <2>1. StartAfter(q, o, l, c, n) = Min({l, End(q[n]) - o})
    BY Zenon, <1>4, <1>6, <1>8
  <2>2. End(q[n]) - o \in Nat
    BY <1>1, <1>8
  <2>. QED
    BY <1>1, <1>5, <1>8, <2>1, <2>2
<1>. QED
  BY <1>1, <1>7, <1>8

(* Where the loop stops.                                                   *)
LEMMA PassedIs ==
  ASSUME NEW q, Len(q) \in Nat, NEW o, NEW l, NEW c
  PROVE  LET N == Passed(q, o, l, c)
             start(n) == StartAfter(q, o, l, c, n)
         IN  /\ N \in 0..Len(q)
             /\ N = Len(q) \/ start(N) >= l \/ q[N + 1].offset > o + start(N)
             /\ \A n \in 0..Len(q) : n < N =>
                  ~(start(n) >= l) /\ ~(q[n + 1].offset > o + start(n))
<1> DEFINE start(n) == StartAfter(q, o, l, c, n)
           T == {n \in 0..Len(q) : \/ n = Len(q)
                                   \/ start(n) >= l
                                   \/ q[n + 1].offset > o + start(n)}
<1>1. T \in SUBSET Nat /\ Len(q) \in T
  OBVIOUS
<1>2. Passed(q, o, l, c) = Min(T)
  BY DEF Passed
<1>3. Min(T) \in T /\ \A n \in T : Min(T) <= n
  <2>. HIDE DEF T
  <2>. QED
    BY <1>1, MinIsLeast
<1>4. \A n \in 0..Len(q) : n < Min(T) => n \notin T
  BY <1>1, <1>3
<1>. QED
  BY <1>2, <1>3, <1>4

(* What the receiver holds, block by block.                                *)
LEMMA HeldIs ==
  ASSUME NEW q, NEW c \in Nat, InOrder(q, c), NEW k \in Nat
  PROVE  k \in Held(q, c) <=>
           k < c \/ \E i \in 1..Len(q) : q[i].offset <= k /\ k < End(q[i])
<1>1. /\ q \in Seq(Block)
      /\ \A i \in 1..Len(q) : q[i].offset \in Nat /\ End(q[i]) \in Nat
  BY BlockFacts
<1>2. DOMAIN q = 1..Len(q)
  BY <1>1
<1>3. k \in 0..(c - 1) <=> k < c
  OBVIOUS
<1>4. \A i \in 1..Len(q) : k \in q[i].offset..(End(q[i]) - 1) <=>
                            q[i].offset <= k /\ k < End(q[i])
  BY <1>1
<1>5. k \in Held(q, c) <=>
        k \in 0..(c - 1) \/ \E i \in 1..Len(q) : k \in q[i].offset..(End(q[i]) - 1)
  BY <1>2 DEF Held
<1>. QED
  BY Zenon, <1>3, <1>4, <1>5

(* `start` stays within the frame.                                         *)
LEMMA StartRange ==
  ASSUME NEW c \in Nat, NEW q, InOrder(q, c), NEW o \in Nat, NEW l \in Nat,
         NEW n \in 0..Len(q)
  PROVE  /\ StartAfter(q, o, l, c, n) \in Nat
         /\ StartAfter(q, o, l, c, n) <= l
<1>1. Consumed(o, l, c) \in Nat /\ Consumed(o, l, c) <= l
  BY DEF Consumed
<1>2. n > 0 => End(q[n]) \in Nat
  BY BlockFacts
<1> DEFINE start == StartAfter(q, o, l, c, n)
           end == End(q[n])
<1>3. /\ n = 0 => start = Consumed(o, l, c)
      /\ n > 0 /\ end <= o => start = Consumed(o, l, c)
      /\ n > 0 /\ end > o /\ l <= end - o => start = l
      /\ n > 0 /\ end > o /\ end - o < l => start = end - o
  BY StartIs
<1>. HIDE DEF start, end
<1>4. n > 0 => end \in Nat
  BY <1>2 DEF end
<1>5. start \in Nat /\ start <= l
  BY <1>1, <1>3, <1>4
<1>. QED
  BY <1>5 DEF start

(* The bytes before `start` are held already: consumed, or in a block that *)
(* was passed.                                                             *)
LEMMA SkippedAreHeld ==
  ASSUME NEW c \in Nat, NEW q, InOrder(q, c), NEW o \in Nat, NEW l \in Nat,
         NEW N \in 0..Len(q),
         \A n \in 0..Len(q) : n < N =>
            q[n + 1].offset <= o + StartAfter(q, o, l, c, n),
         NEW k \in Nat, o <= k, k < o + StartAfter(q, o, l, c, N)
  PROVE  k \in Held(q, c)
<1> DEFINE start(n) == StartAfter(q, o, l, c, n)
           T == {n \in 0..N : k < o + start(n)}
<1>1. T \in SUBSET Nat /\ N \in T
  OBVIOUS
<1>2. PICK m \in T : \A n \in T : m <= n
  <2>. HIDE DEF T
  <2>. QED
    BY <1>1, LeastNumber
<1>3. /\ m \in Nat /\ m <= N /\ k < o + start(m) /\ m \in 0..Len(q) /\ Len(q) \in Nat
  BY <1>2, BlockFacts
<1>4. k < o + Consumed(o, l, c) => k < c
  BY DEF Consumed
<1>5. CASE m = 0
  BY <1>3, <1>4, <1>5, StartIs, HeldIs
<1>6. CASE m > 0
  <2>1. m - 1 \in 0..Len(q) /\ m - 1 \in 0..N /\ m \in 1..Len(q)
    BY <1>3, <1>6
  <2>2. start(m - 1) \in Nat /\ ~(k < o + start(m - 1))
    <3>1. m - 1 \notin T
      BY <1>2, <1>3
    <3>. QED
      BY <2>1, <3>1, StartRange
  <2>3. q[(m - 1) + 1].offset <= o + start(m - 1)
    BY <1>3, <2>1
  <2>4. q[m].offset \in Nat /\ End(q[m]) \in Nat /\ q[m].offset <= k
    <3>1. q[m].offset \in Nat /\ End(q[m]) \in Nat
      BY <2>1, BlockFacts
    <3>2. (m - 1) + 1 = m
      BY <1>3
    <3>. QED
      BY <2>2, <2>3, <3>1, <3>2
  <2>5. CASE End(q[m]) <= o
    BY <1>3, <1>4, <1>6, <2>5, StartIs, HeldIs
  <2>6. CASE End(q[m]) > o
    <3> DEFINE end == End(q[m])
               first == start(m)
    <3>2. /\ l <= end - o => first = l
          /\ end - o < l => first = end - o
      BY <1>3, <1>6, <2>6, StartIs
    <3>3. k < o + first /\ end \in Nat /\ end > o
      BY <1>3, <2>4, <2>6
    <3>. HIDE DEF first, end
    <3>4. k < end
      BY <3>2, <3>3
    <3>1. k < End(q[m])
      BY <3>4 DEF end
    <3>. QED
      BY <2>1, <2>4, <3>1, HeldIs
  <2>. QED
    BY <2>4, <2>5, <2>6
<1>. QED
  BY <1>3, <1>5, <1>6

(* Where the loop stops with a part of the frame left: the rest of the     *)
(* frame starts at or after consumed_offset, behind every block that was   *)
(* passed and before every other.                                          *)
LEMMA RestFits ==
  ASSUME NEW c \in Nat, NEW q, InOrder(q, c), NEW o \in Nat, NEW l \in Nat,
         NEW N \in 0..Len(q), NEW x, x = o + StartAfter(q, o, l, c, N),
         x < o + l, N = Len(q) \/ q[N + 1].offset > x
  PROVE  /\ x \in Nat /\ o <= x /\ c <= x
         /\ \A i \in 1..Len(q) : i <= N => End(q[i]) <= x
         /\ \A i \in 1..Len(q) : N < i => x < q[i].offset
<1> DEFINE start == StartAfter(q, o, l, c, N)
<1>1. start \in Nat /\ start < l /\ x = o + start
  <2>1. start \in Nat /\ x = o + start
    BY Zenon, StartRange
  <2>. HIDE DEF start
  <2>. QED
    BY <2>1
<1>2. /\ Len(q) \in Nat
      /\ \A i \in 1..Len(q) : q[i].offset \in Nat /\ End(q[i]) \in Nat
                              /\ q[i].offset < End(q[i])
  BY BlockFacts
<1>3. /\ \A i \in 1..Len(q) : c <= q[i].offset
      /\ \A i, j \in 1..Len(q) : i < j => End(q[i]) <= q[j].offset
  BY DEF InOrder
<1>4. Consumed(o, l, c) < l => c <= o + Consumed(o, l, c)
  BY DEF Consumed
<1>5. N = 0 => start = Consumed(o, l, c)
  BY StartIs
<1>6. ASSUME N > 0
      PROVE  /\ End(q[N]) <= o => start = Consumed(o, l, c)
             /\ End(q[N]) > o => start = End(q[N]) - o
  <2> DEFINE end == End(q[N])
  <2>1. /\ end <= o => start = Consumed(o, l, c)
        /\ end > o /\ l <= end - o => start = l
        /\ end > o /\ end - o < l => start = end - o
    BY <1>6, StartIs
  <2>2. end \in Nat
    BY <1>2, <1>6
  <2>. HIDE DEF start, end
  <2>3. /\ end <= o => start = Consumed(o, l, c)
        /\ end > o => start = end - o
    BY <1>1, <2>1, <2>2
  <2>. QED
    BY <2>3 DEF end
<1>. HIDE DEF start
<1>7. CASE N = 0
  <2>1. c <= x
    BY <1>1, <1>4, <1>5, <1>7
  <2>. QED
    BY <1>1, <1>2, <1>3, <1>7, <2>1
<1>8. CASE N > 0
  <2>1. N \in 1..Len(q) /\ N \in Nat
    BY <1>2, <1>8
  <2>2. c <= x /\ End(q[N]) <= x
    <3>1. CASE End(q[N]) <= o
      BY <1>1, <1>2, <1>4, <1>6, <1>8, <2>1, <3>1
    <3>2. CASE End(q[N]) > o
      <4>1. x = End(q[N])
        BY <1>1, <1>2, <1>6, <1>8, <2>1, <3>2
      <4>. QED
        BY <1>2, <1>3, <2>1, <4>1
    <3>. QED
      BY <1>2, <2>1, <3>1, <3>2
  <2>3. ASSUME NEW i \in 1..Len(q), i <= N PROVE End(q[i]) <= x
    <3>1. CASE i = N
      BY <2>2, <3>1
    <3>2. CASE i < N
      <4>1. End(q[i]) <= q[N].offset
        BY <1>3, <2>1, <3>2
      <4>2. /\ End(q[i]) \in Nat /\ q[N].offset \in Nat /\ End(q[N]) \in Nat
            /\ q[N].offset < End(q[N]) /\ x \in Nat
        BY <1>1, <1>2, <2>1
      <4>. QED
        BY <2>2, <4>1, <4>2
    <3>. QED
      BY <2>1, <2>3, <3>1, <3>2
  <2>4. ASSUME NEW i \in 1..Len(q), N < i PROVE x < q[i].offset
    <3>1. N + 1 \in 1..Len(q) /\ q[N + 1].offset > x
      BY <1>2, <2>1, <2>4
    <3>2. CASE i = N + 1
      BY <3>1, <3>2
    <3>3. CASE N + 1 < i
      <4>1. End(q[N + 1]) <= q[i].offset
        BY <1>3, <3>1, <3>3
      <4>2. /\ End(q[N + 1]) \in Nat /\ q[N + 1].offset \in Nat /\ q[i].offset \in Nat
            /\ q[N + 1].offset < End(q[N + 1]) /\ x \in Nat
        BY <1>1, <1>2, <3>1
      <4>. QED
        BY SMTT(20), <3>1, <4>1, <4>2
    <3>. QED
      BY <2>1, <2>4, <3>2, <3>3
  <2>. QED
    BY <1>1, <2>2, <2>3, <2>4
<1>. QED
  BY <1>7, <1>8

(* A block that fits between the first N blocks and the others keeps the   *)
(* queue in order, and adds its bytes to what is held.                     *)
LEMMA InsertAdds ==
  ASSUME NEW c \in Nat, NEW q, InOrder(q, c), NEW N \in 0..Len(q),
         NEW b \in Block, c <= b.offset, Len(b.bytes) > 0,
         Numbered(b.offset, b.bytes),
         \A i \in 1..Len(q) : i <= N => End(q[i]) <= b.offset,
         \A i \in 1..Len(q) : N < i => End(b) <= q[i].offset
  PROVE  /\ InOrder(Insert(q, N, b), c)
         /\ \A k \in Nat : k \in Held(Insert(q, N, b), c) <=>
              k \in Held(q, c) \/ (b.offset <= k /\ k < End(b))
<1> DEFINE r == Insert(q, N, b)
<1>1. /\ q \in Seq(Block) /\ Len(q) \in Nat
      /\ \A i \in 1..Len(q) : q[i].offset \in Nat /\ End(q[i]) \in Nat
                              /\ q[i].offset < End(q[i])
  BY BlockFacts
<1>2. /\ r \in Seq(Block) /\ Len(r) = Len(q) + 1 /\ r[N + 1] = b
      /\ \A i \in 1..N : r[i] = q[i]
      /\ \A i \in (N + 1)..Len(q) : r[i + 1] = q[i]
  BY Zenon, <1>1, Inserted
<1>. HIDE DEF r
<1>3. b.offset \in Nat /\ End(b) \in Nat /\ b.offset < End(b)
  <2>1. b.offset \in Nat /\ b.bytes \in Seq(Nat)
    BY DEF Block
  <2>2. Len(b.bytes) \in Nat
    BY <2>1
  <2>. QED
    BY <2>1, <2>2 DEF End
<1>4. \A i \in 1..Len(r) : \/ i \in 1..N /\ i \in 1..Len(q) /\ r[i] = q[i]
                           \/ i = N + 1 /\ r[i] = b
                           \/ i - 1 \in (N + 1)..Len(q) /\ r[i] = q[i - 1]
  <2>1. ASSUME NEW i \in 1..Len(r), N + 1 < i
        PROVE  i - 1 \in (N + 1)..Len(q) /\ r[i] = q[i - 1]
    <3>1. i - 1 \in (N + 1)..Len(q) /\ (i - 1) + 1 = i
      BY <1>1, <1>2, <2>1
    <3>2. r[(i - 1) + 1] = q[i - 1]
      BY <1>2, <3>1
    <3>. QED
      BY <3>1, <3>2
  <2>2. ASSUME NEW i \in 1..Len(r), i <= N
        PROVE  i \in 1..N /\ i \in 1..Len(q) /\ r[i] = q[i]
    <3>1. i \in 1..N /\ i \in 1..Len(q)
      BY <1>1, <2>2
    <3>. QED
      BY <1>2, <3>1
  <2>. QED
    BY <1>1, <1>2, <2>1, <2>2
<1>5. /\ \A i \in 1..Len(q) : /\ c <= q[i].offset /\ Len(q[i].bytes) > 0
                              /\ Numbered(q[i].offset, q[i].bytes)
      /\ \A i, j \in 1..Len(q) : i < j => End(q[i]) <= q[j].offset
  BY DEF InOrder
<1>6. ASSUME NEW i \in 1..Len(r)
      PROVE  /\ c <= r[i].offset /\ Len(r[i].bytes) > 0
             /\ Numbered(r[i].offset, r[i].bytes)
  <2>1. CASE i \in 1..N /\ i \in 1..Len(q) /\ r[i] = q[i]
    BY <1>5, <2>1
  <2>2. CASE i = N + 1 /\ r[i] = b
    BY <2>2
  <2>3. CASE i - 1 \in (N + 1)..Len(q) /\ r[i] = q[i - 1]
    BY <1>1, <1>5, <2>3
  <2>. QED
    BY <1>4, <2>1, <2>2, <2>3
<1>7. ASSUME NEW i \in 1..Len(r), NEW j \in 1..Len(r), i < j
      PROVE  End(r[i]) <= r[j].offset
  <2>1. CASE i \in 1..N /\ i \in 1..Len(q) /\ r[i] = q[i]
    <3>1. CASE j \in 1..N /\ j \in 1..Len(q) /\ r[j] = q[j]
      BY <1>5, <1>7, <2>1, <3>1
    <3>2. CASE j = N + 1 /\ r[j] = b
      BY <2>1, <3>2
    <3>3. CASE j - 1 \in (N + 1)..Len(q) /\ r[j] = q[j - 1]
      <4>1. j - 1 \in 1..Len(q) /\ i < j - 1
        BY <1>1, <2>1, <3>3
      <4>. QED
        BY <1>5, <2>1, <3>3, <4>1
    <3>. QED
      BY <1>4, <3>1, <3>2, <3>3
  <2>2. CASE i = N + 1 /\ r[i] = b
    <3>1. j - 1 \in (N + 1)..Len(q) /\ r[j] = q[j - 1]
      BY <1>4, <1>7, <2>2
    <3>2. j - 1 \in 1..Len(q) /\ N < j - 1
      BY <1>1, <3>1
    <3>. QED
      BY <2>2, <3>1, <3>2
  <2>3. CASE i - 1 \in (N + 1)..Len(q) /\ r[i] = q[i - 1]
    <3>1. j - 1 \in (N + 1)..Len(q) /\ r[j] = q[j - 1]
      BY <1>4, <1>7, <2>3
    <3>2. i - 1 \in 1..Len(q) /\ j - 1 \in 1..Len(q) /\ i - 1 < j - 1
      BY <1>1, <1>7, <2>3, <3>1
    <3>. QED
      BY <1>5, <2>3, <3>1, <3>2
  <2>. QED
    BY <1>4, <2>1, <2>2, <2>3
<1>8. InOrder(r, c)
  BY <1>2, <1>6, <1>7 DEF InOrder
<1>9. ASSUME NEW k \in Nat
      PROVE  k \in Held(r, c) <=> k \in Held(q, c) \/ (b.offset <= k /\ k < End(b))
  <2>1. ASSUME NEW i \in 1..Len(r), r[i].offset <= k /\ k < End(r[i])
        PROVE  \/ \E j \in 1..Len(q) : q[j].offset <= k /\ k < End(q[j])
               \/ b.offset <= k /\ k < End(b)
    <3>1. CASE i - 1 \in (N + 1)..Len(q) /\ r[i] = q[i - 1]
      <4>1. i - 1 \in 1..Len(q)
        BY <1>1, <3>1
      <4>. QED
        BY <2>1, <3>1, <4>1
    <3>. QED
      BY <1>4, <2>1, <3>1
  <2>2. ASSUME NEW i \in 1..Len(q), q[i].offset <= k, k < End(q[i])
        PROVE  \E j \in 1..Len(r) : r[j].offset <= k /\ k < End(r[j])
    <3>1. CASE i <= N
      <4>1. i \in 1..N /\ i \in 1..Len(r)
        BY <1>1, <1>2, <3>1
      <4>2. r[i] = q[i]
        BY <1>2, <4>1
      <4>. QED
        BY <2>2, <4>1, <4>2
    <3>2. CASE N < i
      <4>1. i + 1 \in 1..Len(r) /\ i \in (N + 1)..Len(q)
        BY <1>1, <1>2, <3>2
      <4>2. r[i + 1] = q[i]
        BY <1>2, <4>1
      <4>. QED
        BY <2>2, <4>1, <4>2
    <3>. QED
      BY <3>1, <3>2
  <2>3. b.offset <= k /\ k < End(b) =>
          \E j \in 1..Len(r) : r[j].offset <= k /\ k < End(r[j])
    <3>1. N + 1 \in 1..Len(r)
      BY <1>1, <1>2
    <3>. QED
      BY <1>2, <3>1
  <2>4. k \in Held(r, c) <=>
          k < c \/ \E i \in 1..Len(r) : r[i].offset <= k /\ k < End(r[i])
    BY <1>8, HeldIs
  <2>5. k \in Held(q, c) <=>
          k < c \/ \E i \in 1..Len(q) : q[i].offset <= k /\ k < End(q[i])
    BY HeldIs
  <2>. QED
    BY Zenon, <2>1, <2>2, <2>3, <2>4, <2>5
<1>. QED
  BY <1>8, <1>9 DEF r

(* What a frame [o, o + l) may add: one run x, ..., y - 1 of bytes that    *)
(* were missing.  Before it everything is held, and it ends where the      *)
(* frame ends or at a byte that is held.                                   *)
Adds(q, new, c, o, l, x, y) ==
    /\ o <= x /\ x <= y /\ y <= o + l
    /\ \A i \in Nat : o <= i /\ i < x => i \in Held(q, c)
    /\ \A i \in Nat : x <= i /\ i < y => i \notin Held(q, c)
    /\ y = o + l \/ y \in Held(q, c)
    /\ \A i \in Nat : i \in Held(new, c) <=> i \in Held(q, c) \/ (x <= i /\ i < y)

(* A frame adds one such run to the queue, which stays in order            *)
(* (picoquic_queue_network_input).                                         *)
THEOREM InputAdds ==
  ASSUME NEW c \in Nat, NEW q, InOrder(q, c), NEW o \in Nat,
         NEW bytes \in Seq(Nat), Numbered(o, bytes)
  PROVE  LET new == picoquic_queue_network_input(q, o, bytes, c)
         IN  /\ InOrder(new, c)
             /\ \E x, y \in Nat : Adds(q, new, c, o, Len(bytes), x, y)
<1> DEFINE new == picoquic_queue_network_input(q, o, bytes, c)
           l == Len(bytes)
           N == Passed(q, o, l, c)
           start == StartAfter(q, o, l, c, N)
           rest == SubSeq(q, N + 1, Len(q))
           kept == Kept(o, l, start, rest)
           b == [offset |-> o + start, bytes |-> SubSeq(bytes, start + 1, start + kept)]
<1>1. new = IF start < l /\ kept > 0 THEN Insert(q, N, b) ELSE q
  BY DEF picoquic_queue_network_input, Insert
<1>2. /\ q \in Seq(Block) /\ Len(q) \in Nat
      /\ \A i \in 1..Len(q) : q[i].offset \in Nat /\ End(q[i]) \in Nat
                              /\ q[i].offset < End(q[i])
  BY BlockFacts
<1>3. l \in Nat
  OBVIOUS
<1>. HIDE DEF l
<1>4. /\ N \in 0..Len(q)
      /\ N = Len(q) \/ start >= l \/ q[N + 1].offset > o + start
      /\ \A n \in 0..Len(q) : n < N => /\ ~(StartAfter(q, o, l, c, n) >= l)
                                       /\ ~(q[n + 1].offset > o + StartAfter(q, o, l, c, n))
  BY <1>2, PassedIs
<1>. HIDE DEF N
<1>5. start \in Nat /\ start <= l
  BY Zenon, <1>3, <1>4, StartRange
<1>6. ASSUME NEW k \in Nat, o <= k, k < o + start PROVE k \in Held(q, c)
  <2>1. \A n \in 0..Len(q) : n < N => q[n + 1].offset <= o + StartAfter(q, o, l, c, n)
    <3>1. ASSUME NEW n \in 0..Len(q), n < N
          PROVE  q[n + 1].offset <= o + StartAfter(q, o, l, c, n)
      <4>1. ~(q[n + 1].offset > o + StartAfter(q, o, l, c, n))
        BY <1>4, <3>1
      <4>2. n + 1 \in 1..Len(q) /\ StartAfter(q, o, l, c, n) \in Nat
        BY <1>2, <1>3, <1>4, <3>1, StartRange
      <4>3. q[n + 1].offset \in Nat
        BY <1>2, <4>2
      <4>. QED
        BY <4>1, <4>2, <4>3
    <3>. QED
      BY <3>1
  <2>. QED
    BY Zenon, <1>3, <1>4, <1>6, <2>1, SkippedAreHeld
<1>7. Numbered(o, bytes) /\ l = Len(bytes)
  BY DEF l
<1>8. /\ N = Len(q) => rest = <<>>
      /\ N < Len(q) => rest # <<>> /\ rest[1] = q[N + 1]
  <2>1. /\ rest \in Seq(Block) /\ Len(rest) = Len(q) - N
        /\ \A i \in 1..(Len(q) - N) : rest[i] = q[i + N]
    BY <1>2, <1>4, Remaining
  <2>. HIDE DEF rest
  <2>2. N = Len(q) => rest = <<>>
    BY <1>2, <1>4, <2>1
  <2>3. ASSUME N < Len(q) PROVE rest # <<>> /\ rest[1] = q[N + 1]
    <3>1. 1 \in 1..(Len(q) - N) /\ 1 + N = N + 1 /\ Len(rest) > 0
      BY <1>2, <1>4, <2>1, <2>3
    <3>. QED
      BY <2>1, <3>1
  <2>. QED
    BY <2>2, <2>3
<1>. HIDE DEF rest
<1>9. kept = IF rest # <<>> /\ rest[1].offset < o + l
             THEN rest[1].offset - (o + start) ELSE l - start
  BY DEF Kept
<1>. HIDE DEF start, kept, new
<1>10. CASE start >= l
  <2>1. new = q /\ start = l
    BY <1>1, <1>3, <1>5, <1>10
  <2>2. Adds(q, q, c, o, l, o + l, o + l)
    <3>1. \A i \in Nat : o <= i /\ i < o + l => i \in Held(q, c)
      BY <1>6, <2>1
    <3>2. \A i \in Nat : o + l <= i /\ i < o + l => FALSE
      BY <1>3
    <3>3. o <= o + l /\ o + l <= o + l
      BY <1>3
    <3>. QED
      BY <3>1, <3>2, <3>3 DEF Adds
  <2>3. o + l \in Nat
    BY <1>3
  <2>. QED
    BY <2>1, <2>2, <2>3 DEF l, new
<1>11. CASE start < l
  <2> DEFINE x == o + start
             y == x + kept
  <2>1. x \in Nat /\ x < o + l /\ (N = Len(q) \/ q[N + 1].offset > x)
    BY <1>2, <1>3, <1>4, <1>5, <1>11
  <2>2. /\ o <= x /\ c <= x
        /\ \A i \in 1..Len(q) : i <= N => End(q[i]) <= x
        /\ \A i \in 1..Len(q) : N < i => x < q[i].offset
    BY <1>3, <1>4, <1>5, <2>1, RestFits DEF start
  <2>3. /\ kept \in Nat /\ kept > 0 /\ start + kept <= l
        /\ \A i \in 1..Len(q) : N < i => y <= q[i].offset
        /\ y = o + l \/ y \in Held(q, c)
    <3>1. CASE N < Len(q) /\ q[N + 1].offset < o + l
      <4>1. N + 1 \in 1..Len(q) /\ q[N + 1].offset \in Nat /\ End(q[N + 1]) \in Nat
            /\ q[N + 1].offset < End(q[N + 1]) /\ x < q[N + 1].offset
        BY <1>2, <1>4, <2>2, <3>1
      <4>2. kept = q[N + 1].offset - x
        BY <1>8, <1>9, <3>1
      <4>3. kept \in Nat /\ kept > 0 /\ y = q[N + 1].offset
        BY <2>1, <4>1, <4>2
      <4>4. start + kept <= l
        BY <1>3, <1>5, <3>1, <4>1, <4>2
      <4>5. ASSUME NEW i \in 1..Len(q), N < i PROVE y <= q[i].offset
        <5>1. CASE i = N + 1
          BY <4>1, <4>3, <5>1
        <5>2. CASE N + 1 < i
          <6>1. End(q[N + 1]) <= q[i].offset
            BY <4>1, <5>2 DEF InOrder
          <6>2. q[i].offset \in Nat
            BY <1>2
          <6>. QED
            BY <4>1, <4>3, <6>1, <6>2
        <5>. QED
          BY <1>4, <4>5, <5>1, <5>2
      <4>6. y \in Held(q, c)
        BY <4>1, <4>3, HeldIs
      <4>. QED
        BY <4>3, <4>4, <4>5, <4>6
    <3>2. CASE ~(N < Len(q) /\ q[N + 1].offset < o + l)
      <4>1. kept = l - start
        BY <1>2, <1>4, <1>8, <1>9, <3>2
      <4>2. kept \in Nat /\ kept > 0 /\ start + kept <= l /\ y = o + l
        BY <1>3, <1>5, <1>11, <4>1
      <4>3. ASSUME NEW i \in 1..Len(q), N < i PROVE y <= q[i].offset
        <5>1. N + 1 \in 1..Len(q) /\ q[N + 1].offset \in Nat /\ End(q[N + 1]) \in Nat
              /\ q[N + 1].offset < End(q[N + 1]) /\ N < Len(q)
          BY <1>2, <1>4, <4>3
        <5>2. o + l <= q[N + 1].offset
          BY <1>3, <3>2, <5>1
        <5>3. CASE i = N + 1
          BY <4>2, <5>2, <5>3
        <5>4. CASE N + 1 < i
          <6>1. End(q[N + 1]) <= q[i].offset
            BY <5>1, <5>4 DEF InOrder
          <6>2. q[i].offset \in Nat
            BY <1>2
          <6>. QED
            BY <1>3, <4>2, <5>1, <5>2, <6>1, <6>2
        <5>. QED
          BY <1>4, <4>3, <5>3, <5>4
      <4>. QED
        BY <4>2, <4>3
    <3>. QED
      BY <3>1, <3>2
  <2>4. /\ b \in Block /\ b.offset = x /\ Len(b.bytes) = kept /\ End(b) = y
        /\ Numbered(b.offset, b.bytes)
    <3> DEFINE part == SubSeq(bytes, start + 1, start + kept)
    <3>1. part \in Seq(Nat) /\ Len(part) = kept
          /\ \A k \in 1..kept : part[k] = bytes[start + k]
      BY <1>3, <1>5, <1>7, <2>3
    <3>2. ASSUME NEW k \in 1..kept PROVE part[k] = x + k - 1
      <4>1. start + k \in 1..Len(bytes)
        BY <1>5, <1>7, <2>3
      <4>2. bytes[start + k] = o + (start + k) - 1
        BY <1>7, <4>1 DEF Numbered
      <4>. QED
        BY <1>5, <3>1, <4>2
    <3>. HIDE DEF part
    <3>3. b = [offset |-> x, bytes |-> part]
      BY DEF part
    <3>. HIDE DEF b
    <3>4. b \in Block /\ b.offset = x /\ b.bytes = part
      BY <2>1, <3>1, <3>3 DEF Block
    <3>. HIDE DEF x
    <3>. QED
      BY <3>1, <3>2, <3>4 DEF End, Numbered
  <2>5. y \in Nat /\ x <= y /\ y <= o + l
    BY <1>3, <1>5, <2>1, <2>3
  <2>. HIDE DEF x, y, b
  <2>6. /\ InOrder(Insert(q, N, b), c)
        /\ \A k \in Nat : k \in Held(Insert(q, N, b), c) <=>
             k \in Held(q, c) \/ (x <= k /\ k < y)
    BY Zenon, <1>4, <2>2, <2>3, <2>4, InsertAdds
  <2>7. ASSUME NEW i \in Nat, x <= i, i < y PROVE i \notin Held(q, c)
    <3>1. ~(i < c)
      BY <2>1, <2>2, <2>7
    <3>2. ASSUME NEW j \in 1..Len(q), q[j].offset <= i, i < End(q[j]) PROVE FALSE
      <4>1. q[j].offset \in Nat /\ End(q[j]) \in Nat
        BY <1>2
      <4>2. CASE j <= N
        BY <2>1, <2>2, <2>7, <3>2, <4>1, <4>2
      <4>3. CASE N < j
        BY <2>3, <2>5, <2>7, <3>2, <4>1, <4>3
      <4>. QED
        BY <1>4, <4>2, <4>3
    <3>. QED
      BY <3>1, <3>2, HeldIs
  <2>8. new = Insert(q, N, b)
    BY <1>1, <1>11, <2>3
  <2>9. \A i \in Nat : o <= i /\ i < x => i \in Held(q, c)
    BY <1>6 DEF x
  <2>10. Adds(q, new, c, o, l, x, y)
    BY <2>2, <2>3, <2>5, <2>6, <2>7, <2>8, <2>9 DEF Adds
  <2>. QED
    BY <2>1, <2>5, <2>6, <2>8, <2>10 DEF l, new
<1>. QED
  BY <1>3, <1>5, <1>10, <1>11

-----------------------------------------------------------------------------
(* picoquic_stream_data_callback                                           *)

(* The blocks whose turn has come follow one another without a gap.        *)
LEMMA DueBlocks ==
  ASSUME NEW c \in Nat, NEW q, InOrder(q, c), NEW d, d = Due(q, c)
  PROVE  /\ d \in 0..Len(q)
         /\ d = Len(q) \/ q[d + 1].offset > ConsumedAfter(q, c, d)
         /\ \A i \in 1..Len(q) :
              i <= d => q[i].offset = IF i = 1 THEN c ELSE End(q[i - 1])
<1> DEFINE T == {n \in 0..Len(q) : \/ n = Len(q)
                                   \/ q[n + 1].offset > ConsumedAfter(q, c, n)}
<1>1. /\ q \in Seq(Block) /\ Len(q) \in Nat
      /\ \A i \in 1..Len(q) : q[i].offset \in Nat /\ End(q[i]) \in Nat
  BY BlockFacts
<1>2. T \in SUBSET Nat /\ Len(q) \in T
  BY <1>1
<1>3. d = Min(T)
  BY DEF Due
<1>4. d \in T /\ \A n \in T : d <= n
  <2>1. T # {}
    BY <1>2
  <2>. HIDE DEF T
  <2>2. Min(T) \in T /\ \A n \in T : Min(T) <= n
    BY <1>2, <2>1, MinIsLeast
  <2>. QED
    BY <1>3, <2>2
<1>5. ASSUME NEW i \in 1..Len(q), i <= d
      PROVE  q[i].offset = IF i = 1 THEN c ELSE End(q[i - 1])
  <2>1. i - 1 \in 0..Len(q) /\ ~(d <= i - 1) /\ (i - 1) + 1 = i
    BY <1>1, <1>4, <1>5
  <2>2. i - 1 \notin T
    BY <1>4, <2>1
  <2>3. ~(q[(i - 1) + 1].offset > ConsumedAfter(q, c, i - 1))
    BY <2>1, <2>2
  <2>4. ~(q[i].offset > IF i = 1 THEN c ELSE End(q[i - 1]))
    BY <2>1, <2>3 DEF ConsumedAfter
  <2>5. CASE i = 1
    <3>1. c <= q[i].offset
      BY DEF InOrder
    <3>. QED
      BY <1>1, <2>4, <2>5, <3>1
  <2>6. CASE i # 1
    <3>1. i - 1 \in 1..Len(q) /\ i - 1 < i
      BY <1>1, <2>6
    <3>2. End(q[i - 1]) <= q[i].offset
      BY <3>1 DEF InOrder
    <3>. QED
      BY <1>1, <2>4, <2>6, <3>1, <3>2
  <2>. QED
    BY <2>5, <2>6
<1>. QED
  BY <1>4, <1>5

(* The block with the next byte, among those whose turn has come.          *)
LEMMA DueByte ==
  ASSUME NEW c \in Nat, NEW q, InOrder(q, c), NEW d, d = Due(q, c),
         NEW k \in Nat, c <= k, k < ConsumedAfter(q, c, d),
         NEW m, m = Min({i \in 1..d : k < End(q[i])})
  PROVE  /\ m \in 1..Len(q) /\ q[m].offset <= k /\ k < End(q[m])
         /\ q[m].bytes[k - q[m].offset + 1] = k
<1> DEFINE T == {i \in 1..d : k < End(q[i])}
<1>1. /\ Len(q) \in Nat
      /\ \A i \in 1..Len(q) : /\ q[i].offset \in Nat /\ End(q[i]) \in Nat
                              /\ Len(q[i].bytes) \in Nat
  BY BlockFacts
<1>2. /\ d \in 0..Len(q)
      /\ \A i \in 1..Len(q) :
           i <= d => q[i].offset = IF i = 1 THEN c ELSE End(q[i - 1])
  BY DueBlocks
<1>3. d > 0 /\ k < End(q[d])
  BY <1>2 DEF ConsumedAfter
<1>4. T \in SUBSET Nat /\ d \in T
  BY <1>2, <1>3
<1>5. m \in T /\ \A i \in T : m <= i
  <2>1. m = Min(T)
    OBVIOUS
  <2>. HIDE DEF T
  <2>2. Min(T) \in T /\ \A i \in T : Min(T) <= i
    BY Zenon, <1>4, MinIsLeast
  <2>. QED
    BY Zenon, <2>1, <2>2
<1>6. m \in 1..Len(q) /\ m <= d /\ k < End(q[m])
  BY <1>1, <1>2, <1>5
<1>7. q[m].offset <= k
  <2>1. CASE m = 1
    BY <1>2, <1>6, <2>1
  <2>2. CASE m # 1
    <3>1. m - 1 \in 1..Len(q) /\ m - 1 \in 1..d /\ ~(m <= m - 1)
      BY <1>1, <1>2, <1>6, <2>2
    <3>2. ~(k < End(q[m - 1]))
      BY <1>5, <3>1
    <3>3. q[m].offset = End(q[m - 1])
      BY <1>2, <1>6, <2>2
    <3>. QED
      BY <1>1, <3>1, <3>2, <3>3
  <2>. QED
    BY <2>1, <2>2
<1>8. k - q[m].offset + 1 \in 1..Len(q[m].bytes)
  BY <1>1, <1>6, <1>7 DEF End
<1>9. q[m].bytes[k - q[m].offset + 1] = q[m].offset + (k - q[m].offset + 1) - 1
  BY <1>6, <1>8 DEF InOrder, Numbered
<1>10. q[m].offset + (k - q[m].offset + 1) - 1 = k
  BY <1>1, <1>6
<1>. QED
  BY <1>6, <1>7, <1>9, <1>10

(* The application is given the bytes from consumed_offset on, in order;   *)
(* what stays in the queue is in order and not yet due, and no byte is     *)
(* lost (picoquic_stream_data_callback).                                   *)
THEOREM DeliverReads ==
  ASSUME NEW c \in Nat, NEW q, InOrder(q, c), NEW out, out = Deliver(q, c)
  PROVE  /\ out.consumed_offset \in Nat /\ c <= out.consumed_offset
         /\ out.bytes = [k \in 1..(out.consumed_offset - c) |-> c + k - 1]
         /\ InOrder(out.stream_data, out.consumed_offset)
         /\ Ahead(out.stream_data, out.consumed_offset)
         /\ \A k \in Nat : k \in Held(out.stream_data, out.consumed_offset) <=>
                            k \in Held(q, c)
<1> DEFINE d == Due(q, c)
           end == ConsumedAfter(q, c, d)
           block(k) == q[Min({i \in 1..d : k < End(q[i])})]
           byte(k) == block(k).bytes[k - block(k).offset + 1]
           bytes == [k \in 1..(end - c) |-> byte(c + k - 1)]
           r == SubSeq(q, d + 1, Len(q))
<1>1. out = [consumed_offset |-> end, bytes |-> bytes, stream_data |-> r]
  BY DEF Deliver
<1>2. out.consumed_offset = end /\ out.bytes = bytes /\ out.stream_data = r
  <2>. HIDE DEF end, bytes, r
  <2>. QED
    BY <1>1
<1>3. /\ q \in Seq(Block) /\ Len(q) \in Nat
      /\ \A i \in 1..Len(q) : q[i].offset \in Nat /\ End(q[i]) \in Nat
                              /\ q[i].offset < End(q[i])
  BY BlockFacts
<1>4. /\ d \in 0..Len(q)
      /\ d = Len(q) \/ q[d + 1].offset > ConsumedAfter(q, c, d)
  BY Zenon, DueBlocks
<1>5. /\ \A i \in 1..Len(q) : /\ c <= q[i].offset /\ Len(q[i].bytes) > 0
                              /\ Numbered(q[i].offset, q[i].bytes)
      /\ \A i, j \in 1..Len(q) : i < j => End(q[i]) <= q[j].offset
  BY DEF InOrder
<1>6. ASSUME NEW k \in Nat, c <= k, k < end
      PROVE  /\ byte(k) = k
             /\ \E i \in 1..Len(q) : q[i].offset <= k /\ k < End(q[i])
  BY <1>6, DueByte
<1>7. \A k \in 1..(end - c) : c + k - 1 \in Nat /\ c <= c + k - 1 /\
                              (end \in Nat => c + k - 1 < end)
  OBVIOUS
<1>. HIDE DEF byte, d
<1>8. end = IF d = 0 THEN c ELSE End(q[d])
  BY DEF ConsumedAfter
<1>9. end \in Nat /\ c <= end
  <2>1. CASE d = 0
    BY <1>8, <2>1
  <2>2. CASE d # 0
    <3>1. d \in 1..Len(q)
      BY <1>3, <1>4, <2>2
    <3>. QED
      BY <1>3, <1>5, <1>8, <2>2, <3>1
  <2>. QED
    BY <2>1, <2>2
<1>10. \A i \in 1..Len(q) : (i <= d => End(q[i]) <= end) /\ (d < i => end <= q[i].offset)
  <2>1. CASE d = 0
    BY <1>3, <1>5, <1>8, <2>1
  <2>2. CASE d # 0
    <3>1. d \in 1..Len(q) /\ end = End(q[d])
      BY <1>3, <1>4, <1>8, <2>2
    <3>2. ASSUME NEW i \in 1..Len(q), i <= d PROVE End(q[i]) <= end
      <4>1. CASE i = d
        BY <1>3, <3>1, <4>1
      <4>2. CASE i < d
        <5>1. End(q[i]) <= q[d].offset /\ q[d].offset < End(q[d])
          BY <1>3, <1>5, <3>1, <4>2
        <5>. QED
          BY <1>3, <3>1, <5>1
      <4>. QED
        BY <1>4, <3>2, <4>1, <4>2
    <3>3. ASSUME NEW i \in 1..Len(q), d < i PROVE end <= q[i].offset
      BY <1>5, <3>1, <3>3
    <3>. QED
      BY <3>2, <3>3
  <2>. QED
    BY <2>1, <2>2
<1>11. d = Len(q) \/ q[d + 1].offset > end
  BY <1>4
<1>. HIDE DEF end
<1>12. bytes = [k \in 1..(end - c) |-> c + k - 1]
  <2>1. \A k \in 1..(end - c) : byte(c + k - 1) = c + k - 1
    BY <1>6, <1>7, <1>9
  <2>. QED
    BY <2>1
<1>13. /\ r \in Seq(Block) /\ Len(r) = Len(q) - d
       /\ \A i \in 1..(Len(q) - d) : r[i] = q[i + d]
  BY Zenon, <1>3, <1>4, Remaining
<1>. HIDE DEF r, bytes
<1>14. \A i \in 1..Len(r) : i + d \in 1..Len(q) /\ d < i + d /\ r[i] = q[i + d]
  BY <1>3, <1>4, <1>13
<1>15. ASSUME NEW i \in 1..Len(r)
       PROVE  /\ end <= r[i].offset /\ Len(r[i].bytes) > 0
              /\ Numbered(r[i].offset, r[i].bytes)
  BY <1>5, <1>10, <1>14
<1>16. ASSUME NEW i \in 1..Len(r), NEW j \in 1..Len(r), i < j
       PROVE  End(r[i]) <= r[j].offset
  <2>1. i + d < j + d
    BY <1>4, <1>16
  <2>. QED
    BY <1>5, <1>14, <2>1
<1>17. InOrder(r, end)
  BY <1>13, <1>15, <1>16 DEF InOrder
<1>18. ASSUME NEW i \in 1..Len(r) PROVE end < r[i].offset
  <2>1. i + d \in 1..Len(q) /\ r[i] = q[i + d] /\ d + 1 \in 1..Len(q)
        /\ d + 1 <= i + d
    BY SMTT(20), <1>3, <1>4, <1>14
  <2>2. q[d + 1].offset > end
    BY <1>3, <1>4, <1>11, <2>1
  <2>3. CASE i + d = d + 1
    BY <1>3, <1>9, <2>1, <2>2, <2>3
  <2>4. CASE d + 1 < i + d
    <3>1. End(q[d + 1]) <= q[i + d].offset /\ q[d + 1].offset < End(q[d + 1])
      BY <1>3, <1>5, <2>1, <2>4
    <3>. QED
      BY <1>3, <1>9, <2>1, <2>2, <3>1
  <2>. QED
    BY <1>4, <2>1, <2>3, <2>4
<1>19. ASSUME NEW k \in Nat
       PROVE  k \in Held(r, end) <=> k \in Held(q, c)
  <2>1. k \in Held(r, end) <=>
          k < end \/ \E i \in 1..Len(r) : r[i].offset <= k /\ k < End(r[i])
    BY <1>9, <1>17, HeldIs
  <2>2. k \in Held(q, c) <=>
          k < c \/ \E i \in 1..Len(q) : q[i].offset <= k /\ k < End(q[i])
    BY HeldIs
  <2>3. k < end => k < c \/ \E i \in 1..Len(q) : q[i].offset <= k /\ k < End(q[i])
    BY <1>6, <1>9
  <2>4. k < c => k < end
    BY <1>9
  <2>5. ASSUME NEW i \in 1..Len(r), r[i].offset <= k /\ k < End(r[i])
        PROVE  \E j \in 1..Len(q) : q[j].offset <= k /\ k < End(q[j])
    BY <1>14, <2>5
  <2>6. ASSUME NEW j \in 1..Len(q), q[j].offset <= k /\ k < End(q[j])
        PROVE  k < end \/ \E i \in 1..Len(r) : r[i].offset <= k /\ k < End(r[i])
    <3>1. CASE j <= d
      BY <1>3, <1>9, <1>10, <2>6, <3>1
    <3>2. CASE d < j
      <4>1. j - d \in 1..Len(r) /\ (j - d) + d = j
        BY <1>3, <1>4, <1>13, <3>2
      <4>2. r[j - d] = q[(j - d) + d]
        BY <1>14, <4>1
      <4>. QED
        BY <2>6, <4>1, <4>2
    <3>. QED
      BY <1>4, <3>1, <3>2
  <2>. QED
    BY Zenon, <2>1, <2>2, <2>3, <2>4, <2>5, <2>6
<1>20. Ahead(r, end)
  BY <1>18 DEF Ahead
<1>. QED
  BY Zenon, <1>2, <1>9, <1>12, <1>17, <1>19, <1>20

(* When nothing is due the application is given nothing.                   *)
LEMMA NothingDue ==
  ASSUME NEW c \in Nat, NEW q, InOrder(q, c), Ahead(q, c)
  PROVE  /\ Deliver(q, c).consumed_offset = c
         /\ Deliver(q, c).bytes = <<>>
         /\ Deliver(q, c).stream_data = q
<1> DEFINE d == Due(q, c)
           out == Deliver(q, c)
<1>1. q \in Seq(Block) /\ Len(q) \in Nat
  BY BlockFacts
<1>2. /\ d \in 0..Len(q)
      /\ \A i \in 1..Len(q) :
           i <= d => q[i].offset = IF i = 1 THEN c ELSE End(q[i - 1])
  BY ZenonT(30), DueBlocks
<1>3. d = 0
  <2>1. SUFFICES ASSUME d # 0 PROVE FALSE
    OBVIOUS
  <2>. HIDE DEF d
  <2>2. 1 \in 1..Len(q) /\ 1 <= d
    BY <1>1, <1>2, <2>1
  <2>3. q[1].offset = c
    BY <1>2, <2>2
  <2>4. c < q[1].offset
    BY <2>2 DEF Ahead
  <2>. QED
    BY <2>3, <2>4
<1>4. /\ out.consumed_offset = ConsumedAfter(q, c, d)
      /\ out.stream_data = SubSeq(q, d + 1, Len(q))
  BY Zenon DEF Deliver
<1>5. out.bytes = [k \in 1..(out.consumed_offset - c) |-> c + k - 1]
  BY Zenon, DeliverReads
<1>. HIDE DEF d, out
<1>6. out.consumed_offset = c
  BY <1>3, <1>4 DEF ConsumedAfter
<1>7. out.stream_data = q
  BY <1>1, <1>3, <1>4
<1>8. out.bytes = <<>>
  BY <1>5, <1>6
<1>. QED
  BY Zenon, <1>6, <1>7, <1>8 DEF out
=============================================================================
