--------------------------- MODULE SplayTree_proofs ---------------------------
(***************************************************************************)
(* Proofs about the splay tree: whatever the streams and the calls, the    *)
(* pointers always form one tree.                                          *)
(*                                                                         *)
(* LinksAgree is not inductive: pointers that agree locally may still form *)
(* a cycle, and a rotation on a cycle breaks them.  The inductive          *)
(* invariant adds a rank that grows from each parent to its children.      *)
(* Rotations, which would shift the depth of whole subtrees, only need to  *)
(* double all ranks to make room.                                          *)
(***************************************************************************)
EXTENDS SplayTree, TLAPS, WellFoundedInduction

Arrows == [Streams -> Pointer]

(* A forest over the nodes N, all other nodes without pointers.            *)
Ranked(p, N, rank) == \A x \in N : p[x] # NULL => rank[p[x]] < rank[x]

Forest(l, r, p, N) ==
    /\ l \in Arrows /\ r \in Arrows /\ p \in Arrows
    /\ N \subseteq Streams
    /\ \A x \in N : l[x] # NULL => l[x] \in N /\ p[l[x]] = x
    /\ \A x \in N : r[x] # NULL => r[x] \in N /\ p[r[x]] = x
    /\ \A x \in N : l[x] = NULL \/ l[x] # r[x]
    /\ \A x \in N : p[x] # NULL => p[x] \in N /\ (x = l[p[x]] \/ x = r[p[x]])
    /\ \A x \in Streams \ N : l[x] = NULL /\ r[x] = NULL /\ p[x] = NULL
    /\ \E rank \in [Streams -> Nat] : Ranked(p, N, rank)

(* One node without a parent.                                              *)
OneTop(p, N) == \A x, y \in N : p[x] = NULL /\ p[y] = NULL => x = y

Calls == [op : {"none", "descend", "search", "splay", "remove", "leftmost"},
          goal : {"none", "insert", "find", "delete", "empty"},
          node : Pointer, at : Pointer]

CallInv ==
    /\ call.op = "descend" => /\ call.node \in Streams \ nodes
                              /\ call.at \in nodes
                              /\ call.goal = "insert"
    /\ call.op = "search" => /\ call.node \in Streams
                             /\ call.at # NULL => call.at \in nodes
    /\ call.op = "splay" => call.node \in nodes
    /\ call.op = "remove" => call.node \in nodes /\ call.node = root
    /\ call.op = "leftmost" =>
          /\ call.node \in nodes /\ call.node = root
          /\ call.at \in nodes /\ call.at # call.node
          /\ left[call.node] # NULL /\ right[call.node] # NULL
          /\ parent[call.at] # NULL
          /\ parent[call.at] # call.node => left[parent[call.at]] = call.at
          /\ parent[call.at] = call.node => right[call.node] = call.at

TreeInv ==
    /\ Forest(left, right, parent, nodes)
    /\ OneTop(parent, nodes)
    /\ call \in Calls
    /\ CallInv
    /\ root \in Pointer
    /\ root # NULL => root \in nodes
    /\ root = NULL => nodes = {}
    /\ (root # NULL /\ call.op # "splay") => parent[root] = NULL

-----------------------------------------------------------------------------
(* Least elements.                                                         *)

(* Among some nodes there is one of least rank.                            *)
LEMMA LeastRank ==
    ASSUME NEW rank \in [Streams -> Nat], NEW N, N \subseteq Streams, N # {}
    PROVE  \E x \in N : \A y \in N : ~(rank[y] < rank[x])
<1> DEFINE T == {rank[x] : x \in N}
<1>1. T \subseteq Nat /\ T # {}
  OBVIOUS
<1>2. \E m \in T : \A n \in T : ~(<<n, m>> \in OpToRel(<, Nat))
  <2> HIDE DEF T
  <2> QED BY <1>1, NatLessThanWellFounded, WFMin, Zenon
<1>3. PICK m \in T : \A n \in T : ~(<<n, m>> \in OpToRel(<, Nat))
  BY <1>2, Zenon
<1>4. \A n \in T : ~(n < m)
  <2> TAKE n \in T
  <2>1. n \in Nat /\ m \in Nat
     BY <1>1
  <2>2. ~(<<n, m>> \in {ss \in Nat \X Nat : ss[1] < ss[2]})
     BY <1>3, Zenon DEF OpToRel
  <2> QED BY <2>1, <2>2
<1>5. PICK x \in N : m = rank[x]
  OBVIOUS
<1> QED BY <1>4, <1>5

(* Every forest that is not empty has a top; in a tree whose top has no    *)
(* children there is nothing else.                                         *)
LEMMA BareTopIsAlone ==
    ASSUME NULL \notin Streams,
           NEW l, NEW r, NEW p, NEW N, Forest(l, r, p, N), OneTop(p, N),
           NEW x \in N, p[x] = NULL, l[x] = NULL, r[x] = NULL
    PROVE  N = {x}
<1>1. SUFFICES ASSUME N \ {x} # {} PROVE FALSE
  OBVIOUS
<1>2. PICK rank \in [Streams -> Nat] : Ranked(p, N, rank)
  BY DEF Forest
<1>3. PICK z \in N \ {x} : \A y \in N \ {x} : ~(rank[y] < rank[z])
  <2>1. N \ {x} \subseteq Streams
    BY DEF Forest
  <2> QED BY <1>1, <2>1, LeastRank, Zenon
<1>4. p[z] # NULL
  BY <1>3 DEF OneTop
<1>5. p[z] \in N /\ (z = l[p[z]] \/ z = r[p[z]])
  BY <1>3, <1>4 DEF Forest
<1>6. p[z] # x
  <2>1. z \in Streams
    BY <1>3 DEF Forest
  <2> QED BY <1>5, <2>1
<1>7. rank[p[z]] < rank[z]
  BY <1>2, <1>3, <1>4 DEF Ranked
<1> QED BY <1>3, <1>5, <1>6, <1>7
-----------------------------------------------------------------------------
(* Rotations.                                                              *)

(* The pointers after c, child of q on the side l, took the place of q     *)
(* below g, pointer by pointer.                                            *)
Turned(l, r, p, c, q, g) ==
    [l |-> [x \in Streams |-> IF x = q THEN r[c]
                              ELSE IF x = g /\ l[g] = q THEN c ELSE l[x]],
     r |-> [x \in Streams |-> IF x = c THEN q
                              ELSE IF x = g /\ l[g] # q THEN c ELSE r[x]],
     p |-> [x \in Streams |-> IF x = r[c] THEN q ELSE IF x = c THEN g
                              ELSE IF x = q THEN c ELSE p[x]]]

(* The nodes around a rotation are distinct, which is what the rank is     *)
(* for.                                                                    *)
LEMMA Apart ==
    ASSUME NULL \notin Streams,
           NEW l, NEW r, NEW p, NEW N, Forest(l, r, p, N), NEW x \in N, p[x] # NULL
    PROVE  p[x] # x /\ (p[p[x]] # NULL => p[p[x]] # x /\ p[p[x]] # p[x])
<1>1. PICK rank \in [Streams -> Nat] : Ranked(p, N, rank)
  BY DEF Forest
<1>2. p[x] \in N /\ rank[p[x]] < rank[x] /\ x \in Streams /\ p[x] \in Streams
  BY <1>1 DEF Forest, Ranked
<1>3. p[p[x]] # NULL => rank[p[p[x]]] < rank[p[x]] /\ p[p[x]] \in Streams
  BY <1>1, <1>2 DEF Forest, Ranked
<1> QED BY <1>2, <1>3

(* Turning a left child above its parent keeps the forest and its top.     *)
LEMMA TurnedForest ==
    ASSUME NULL \notin Streams,
           NEW l, NEW r, NEW p, NEW N, Forest(l, r, p, N), OneTop(p, N),
           NEW c \in N, NEW q, NEW g, q = p[c], g = p[q], q # NULL, l[q] = c
    PROVE  LET t == Turned(l, r, p, c, q, g)
           IN  /\ Forest(t.l, t.r, t.p, N)
               /\ OneTop(t.p, N)
               /\ t.p[c] = g
               /\ \A x \in N : x # c /\ p[x] # NULL => t.p[x] # NULL
<1> DEFINE nl == [x \in Streams |-> IF x = q THEN r[c]
                              ELSE IF x = g /\ l[g] = q THEN c ELSE l[x]]
           nr == [x \in Streams |-> IF x = c THEN q
                              ELSE IF x = g /\ l[g] # q THEN c ELSE r[x]]
           np == [x \in Streams |-> IF x = r[c] THEN q ELSE IF x = c THEN g
                              ELSE IF x = q THEN c ELSE p[x]]
<1>1. /\ q \in N /\ c # q /\ c \in Streams /\ q \in Streams
      /\ g # NULL => g \in N /\ g # c /\ g # q /\ g \in Streams
      /\ g \in Pointer
  BY Apart DEF Forest, Arrows, Pointer
<1>2. r[c] # NULL => /\ r[c] \in N /\ r[c] \in Streams /\ p[r[c]] = c
                     /\ r[c] # c /\ r[c] # q /\ r[c] # g
  <2> SUFFICES ASSUME r[c] # NULL PROVE r[c] \in N /\ r[c] \in Streams /\ p[r[c]] = c
                     /\ r[c] # c /\ r[c] # q /\ r[c] # g
    OBVIOUS
  <2>1. r[c] \in N /\ r[c] \in Streams /\ p[r[c]] = c
    BY DEF Forest
  <2>2. r[c] # c /\ (p[c] # NULL => p[c] # r[c])
    BY <2>1, <1>1, Apart
  <2>3. r[c] # g
    <3>1. CASE g = NULL
      BY <3>1
    <3>2. CASE g # NULL
      <4>1. p[q] # NULL
        BY <3>2
      <4>2. SUFFICES ASSUME r[c] = g PROVE FALSE
        OBVIOUS
      <4>3. PICK rank \in [Streams -> Nat] : Ranked(p, N, rank)
        BY DEF Forest
      <4>4. rank[q] < rank[c] /\ rank[g] < rank[q] /\ rank[c] < rank[g]
        BY <4>3, <4>2, <2>1, <1>1, <3>2 DEF Ranked
      <4> QED BY <4>4, <1>1, <3>2
    <3> QED BY <3>1, <3>2
  <2> QED BY <2>1, <2>2, <2>3, <1>1
<1>3. nl \in Arrows /\ nr \in Arrows /\ np \in Arrows /\ N \subseteq Streams
  <2>1. r[c] \in Pointer
    BY <1>1 DEF Forest, Arrows
  <2> QED BY <1>1, <2>1 DEF Forest, Arrows, Pointer
<1>4. /\ nl[q] = r[c]
      /\ \A x \in Streams : x # q /\ x # g => nl[x] = l[x]
      /\ nr[c] = q
      /\ \A x \in Streams : x # c /\ x # g => nr[x] = r[x]
      /\ g # NULL => \/ l[g] = q /\ nl[g] = c /\ nr[g] = r[g]
                     \/ r[g] = q /\ l[g] # q /\ nl[g] = l[g] /\ nr[g] = c
  <2>1. g # NULL => (q = l[g] \/ q = r[g])
    BY <1>1 DEF Forest
  <2> QED BY <1>1, <2>1
<1>5. /\ np[c] = g /\ np[q] = c
      /\ r[c] # NULL => np[r[c]] = q
      /\ \A x \in Streams : x # c /\ x # q /\ x # r[c] => np[x] = p[x]
  BY <1>1, <1>2
<1> HIDE DEF nl, nr, np
<1>6. \A x \in N : nl[x] # NULL => nl[x] \in N /\ np[nl[x]] = x
  <2> TAKE x \in N
  <2> HAVE nl[x] # NULL
  <2>0. x \in Streams
    BY <1>3
  <2>1. CASE x = q
    BY <2>1, <1>4, <1>5, <1>2
  <2>2. CASE x = g
    <3>1. CASE nl[g] = c
      BY <2>2, <3>1, <1>5
    <3>2. CASE nl[g] # c
      <4>1. nl[x] = l[x] /\ r[g] = q /\ l[g] # q
        BY <2>2, <3>2, <1>4, <2>0
      <4>2. l[x] \in N /\ p[l[x]] = x /\ l[x] \in Streams
        BY <4>1, <2>0, <1>3 DEF Forest
      <4>3. l[x] # c /\ l[x] # q /\ l[x] # r[c]
        BY <4>1, <4>2, <2>2, <1>1, <1>2
      <4> QED BY <4>1, <4>2, <4>3, <1>5
    <3> QED BY <3>1, <3>2
  <2>3. CASE x # q /\ x # g
    <3>1. nl[x] = l[x] /\ l[x] \in N /\ p[l[x]] = x /\ l[x] \in Streams
      BY <2>3, <2>0, <1>4, <1>3 DEF Forest
    <3>2. l[x] # c /\ l[x] # q
      BY <3>1, <2>3
    <3>3. l[x] # r[c]
      <4>1. SUFFICES ASSUME l[x] = r[c] PROVE FALSE
        OBVIOUS
      <4>2. x = c
        BY <4>1, <3>1, <1>2
      <4> QED BY <4>1, <4>2, <3>1 DEF Forest
    <3> QED BY <3>1, <3>2, <3>3, <1>5
  <2> QED BY <2>1, <2>2, <2>3
<1>7. \A x \in N : nr[x] # NULL => nr[x] \in N /\ np[nr[x]] = x
  <2> TAKE x \in N
  <2> HAVE nr[x] # NULL
  <2>0. x \in Streams
    BY <1>3
  <2>1. CASE x = c
    BY <2>1, <1>4, <1>5, <1>1
  <2>2. CASE x = g
    <3>1. CASE nr[g] = c
      BY <2>2, <3>1, <1>5
    <3>2. CASE nr[g] # c
      <4>1. nr[x] = r[x] /\ l[g] = q
        BY <2>2, <3>2, <1>4, <2>0
      <4>2. r[x] \in N /\ p[r[x]] = x /\ r[x] \in Streams
        BY <4>1, <2>0, <1>3 DEF Forest
      <4>3. r[x] # q
        BY <4>1, <2>2, <1>1 DEF Forest
      <4>4. r[x] # c /\ r[x] # r[c]
        BY <4>1, <4>2, <2>2, <1>1, <1>2
      <4> QED BY <4>1, <4>2, <4>3, <4>4, <1>5
    <3> QED BY <3>1, <3>2
  <2>3. CASE x # c /\ x # g
    <3>1. nr[x] = r[x] /\ r[x] \in N /\ p[r[x]] = x /\ r[x] \in Streams
      BY <2>3, <2>0, <1>4, <1>3 DEF Forest
    <3>2. r[x] # q /\ r[x] # r[c]
      BY <3>1, <2>3, <1>2
    <3>3. r[x] # c
      <4>1. SUFFICES ASSUME r[x] = c PROVE FALSE
        OBVIOUS
      <4>2. x = q
        BY <4>1, <3>1
      <4> QED BY <4>1, <4>2, <1>1 DEF Forest
    <3> QED BY <3>1, <3>2, <3>3, <1>5
  <2> QED BY <2>1, <2>2, <2>3
<1>8. \A x \in N : nl[x] = NULL \/ nl[x] # nr[x]
  <2> TAKE x \in N
  <2>0. x \in Streams
    BY <1>3
  <2>1. CASE x = q
    <3>1. nl[x] = r[c] /\ nr[x] = r[q]
      BY <2>1, <1>4, <1>1
    <3>2. SUFFICES ASSUME r[c] # NULL, r[c] = r[q] PROVE FALSE
      BY <3>1
    <3> QED BY <3>2, <1>2, <1>1 DEF Forest
  <2>2. CASE x = c
    <3>1. nl[x] = l[c] /\ nr[x] = q
      BY <2>2, <1>4, <1>1
    <3>2. SUFFICES ASSUME l[c] = q PROVE FALSE
      BY <3>1
    <3>3. p[q] = c
      BY <3>2, <1>1 DEF Forest
    <3> QED BY <3>3, <1>1
  <2>3. CASE x = g
    <3>1. \A y \in N : l[y] = c => y = q
      BY DEF Forest
    <3>2. \A y \in N : r[y] = c => y = q
      BY <1>1 DEF Forest
    <3>3. g # NULL
      BY <2>3, <2>0
    <3>4. l[g] # c /\ r[g] # c
      BY <3>1, <3>2, <3>3, <1>1
    <3>5. nl[g] # nr[g] \/ nl[g] = NULL
      BY <3>3, <3>4, <1>4
    <3> QED BY <2>3, <3>5
  <2>4. CASE x # q /\ x # c /\ x # g
    BY <2>4, <2>0, <1>4 DEF Forest
  <2> QED BY <2>1, <2>2, <2>3, <2>4
<1>9. \A x \in N : np[x] # NULL => np[x] \in N /\ (x = nl[np[x]] \/ x = nr[np[x]])
  <2> TAKE x \in N
  <2> HAVE np[x] # NULL
  <2>0. x \in Streams
    BY <1>3
  <2>1. CASE x = c
    BY <2>1, <1>5, <1>4, <1>1
  <2>2. CASE x = q
    BY <2>2, <1>5, <1>4, <1>1
  <2>3. CASE x = r[c]
    BY <2>3, <2>0, <1>5, <1>4, <1>1
  <2>4. CASE x # c /\ x # q /\ x # r[c]
    <3>1. np[x] = p[x] /\ p[x] \in N /\ (x = l[p[x]] \/ x = r[p[x]]) /\ p[x] \in Streams
      BY <2>4, <2>0, <1>5, <1>3 DEF Forest
    <3>2. CASE p[x] = q
      BY <3>1, <3>2, <2>4, <1>4, <1>1
    <3>3. CASE p[x] = c
      BY <3>1, <3>3, <2>4, <1>4, <1>1
    <3>4. CASE p[x] = g
      BY <3>1, <3>4, <2>4, <1>4, <1>1
    <3>5. CASE p[x] # q /\ p[x] # c /\ p[x] # g
      BY <3>1, <3>5, <1>4
    <3> QED BY <3>2, <3>3, <3>4, <3>5
  <2> QED BY <2>1, <2>2, <2>3, <2>4
<1>10. \A x \in Streams \ N : nl[x] = NULL /\ nr[x] = NULL /\ np[x] = NULL
  <2> TAKE x \in Streams \ N
  <2>1. x # c /\ x # q /\ x # g /\ x # r[c]
    BY <1>1, <1>2
  <2> QED BY <2>1, <1>4, <1>5 DEF Forest
<1>11. \E rank \in [Streams -> Nat] : Ranked(np, N, rank)
  <2>1. PICK rank \in [Streams -> Nat] : Ranked(p, N, rank)
    BY DEF Forest
  <2> DEFINE up == [x \in Streams |-> IF x = c THEN 2 * rank[q]
                                      ELSE IF x = q THEN 2 * rank[q] + 1
                                      ELSE 2 * rank[x]]
  <2>2. up \in [Streams -> Nat]
    BY <1>1
  <2>3. /\ up[c] = 2 * rank[q] /\ up[q] = 2 * rank[q] + 1
        /\ \A x \in Streams : x # c /\ x # q => up[x] = 2 * rank[x]
        /\ \A x \in Streams : rank[x] \in Nat
    BY <1>1
  <2>4. rank[q] < rank[c] /\ (g # NULL => rank[g] < rank[q])
        /\ (r[c] # NULL => rank[c] < rank[r[c]])
    BY <2>1, <1>1, <1>2 DEF Ranked
  <2> HIDE DEF up
  <2>5. ASSUME NEW x \in N, np[x] # NULL PROVE up[np[x]] < up[x]
    <3>0. x \in Streams
      BY <1>3
    <3>1. CASE x = c
      BY <3>1, <1>5, <1>1, <2>3, <2>4, <2>5
    <3>2. CASE x = q
      BY <3>2, <1>5, <2>3, <1>1
    <3>3. CASE x = r[c]
      BY <3>3, <3>0, <1>5, <1>1, <1>2, <2>3, <2>4
    <3>4. CASE x # c /\ x # q /\ x # r[c]
      <4>1. np[x] = p[x] /\ p[x] \in N /\ p[x] \in Streams /\ rank[p[x]] < rank[x]
        BY <3>4, <3>0, <1>5, <1>3, <2>1, <2>5 DEF Forest, Ranked
      <4>2. CASE p[x] = c
        BY <4>1, <4>2, <3>4, <3>0, <2>3, <2>4, <1>1
      <4>3. CASE p[x] = q
        BY <4>1, <4>3, <3>4, <3>0, <2>3, <1>1
      <4>4. CASE p[x] # c /\ p[x] # q
        BY <4>1, <4>4, <3>4, <3>0, <2>3
      <4> QED BY <4>2, <4>3, <4>4
    <3> QED BY <3>1, <3>2, <3>3, <3>4
  <2>6. Ranked(np, N, up)
    BY <2>5 DEF Ranked
  <2> QED BY <2>2, <2>6
<1>12. Forest(nl, nr, np, N)
  BY <1>3, <1>6, <1>7, <1>8, <1>9, <1>10, <1>11 DEF Forest
<1>13. \A x \in N : x # c /\ p[x] # NULL => np[x] # NULL
  BY <1>1, <1>2, <1>3, <1>5
<1>14. OneTop(np, N)
  <2>1. \A x \in N : np[x] = NULL => (x = c /\ g = NULL) \/ (x # c /\ x # q /\ p[x] = NULL)
    BY <1>1, <1>2, <1>3, <1>5
  <2>2. g = NULL => \A x \in N : p[x] = NULL => x = q
    BY <1>1, Zenon DEF OneTop
  <2> QED BY <2>1, <2>2 DEF OneTop
<1>15. /\ Turned(l, r, p, c, q, g).l = nl
       /\ Turned(l, r, p, c, q, g).r = nr
       /\ Turned(l, r, p, c, q, g).p = np
  BY DEF Turned, nl, nr, np
<1> QED BY <1>5, <1>12, <1>13, <1>14, <1>15

(* Left and right may be exchanged.                                        *)
LEMMA Mirror ==
    ASSUME NEW l, NEW r, NEW p, NEW N, Forest(l, r, p, N)
    PROVE  Forest(r, l, p, N)
  BY DEF Forest

(* What mark_gp makes of the pointers.                                     *)
LEMMA MarkGpShape ==
    ASSUME NULL \notin Streams,
           NEW l, NEW r, NEW p, NEW N, Forest(l, r, p, N),
           NEW c \in N, NEW q, NEW g, q = p[c], g = p[q], q # NULL
    PROVE  mark_gp([left |-> l, right |-> r, parent |-> p], c) =
               [left |-> IF g # NULL /\ l[g] = q THEN [l EXCEPT ![g] = c] ELSE l,
                right |-> IF g # NULL /\ l[g] # q THEN [r EXCEPT ![g] = c] ELSE r,
                parent |-> [p EXCEPT ![c] = g, ![q] = c]]
<1> DEFINE t == [left |-> l, right |-> r, parent |-> p]
           up == [left |-> l, right |-> r, parent |-> [p EXCEPT ![c] = g, ![q] = c]]
<1>1. [t EXCEPT !.parent = [t.parent EXCEPT ![c] = g, ![q] = c]] = up
  OBVIOUS
<1>2. t.parent = p /\ t.left = l /\ t.right = r
  OBVIOUS
<1>3. mark_gp(t, c) = IF g = NULL THEN up
                      ELSE IF l[g] = q THEN [up EXCEPT !.left = [up.left EXCEPT ![g] = c]]
                      ELSE [up EXCEPT !.right = [up.right EXCEPT ![g] = c]]
  BY <1>1, <1>2, Zenon DEF mark_gp
<1> QED BY <1>3

(* The result of a rotation is again a tree, in which c is where its       *)
(* parent was and only the top has no parent.                              *)
RotatesTo(l, r, p, N, c, nl, nr, np) ==
    /\ rotate([left |-> l, right |-> r, parent |-> p], c) =
           [left |-> nl, right |-> nr, parent |-> np]
    /\ Forest(nl, nr, np, N)
    /\ OneTop(np, N)
    /\ np[c] = p[p[c]]
    /\ \A x \in N : x # c /\ p[x] # NULL => np[x] # NULL

(* rotate keeps a forest, and its only top.                                *)
LEMMA RotateForest ==
    ASSUME NULL \notin Streams,
           NEW l, NEW r, NEW p, NEW N, Forest(l, r, p, N), OneTop(p, N),
           NEW c \in N, p[c] # NULL
    PROVE  \E nl, nr, np : RotatesTo(l, r, p, N, c, nl, nr, np)
<1> DEFINE t == [left |-> l, right |-> r, parent |-> p]
           q == p[c]
           g == p[q]
           m == mark_gp(t, c)
<1>1. /\ q \in N /\ c # q /\ c \in Streams /\ q \in Streams
      /\ c = l[q] \/ c = r[q]
      /\ g # NULL => /\ g \in N /\ g # c /\ g # q /\ g \in Streams
                     /\ q = l[g] \/ q = r[g]
      /\ l[q] = NULL \/ l[q] # r[q]
      /\ g # NULL => l[g] = NULL \/ l[g] # r[g]
  BY Apart DEF Forest
<1>2. m = [left |-> IF g # NULL /\ l[g] = q THEN [l EXCEPT ![g] = c] ELSE l,
           right |-> IF g # NULL /\ l[g] # q THEN [r EXCEPT ![g] = c] ELSE r,
           parent |-> [p EXCEPT ![c] = g, ![q] = c]]
  BY MarkGpShape
<1>3. l \in Arrows /\ r \in Arrows /\ p \in Arrows
  BY DEF Forest
<1>4. m.left[c] = l[c] /\ m.right[c] = r[c]
  BY <1>1, <1>2, <1>3 DEF Arrows
<1>5. CASE l[q] = c
  <2> DEFINE u == Turned(l, r, p, c, q, g)
  <2>1. rotate(t, c) = [left |-> [m.left EXCEPT ![q] = m.right[c]],
                        right |-> [m.right EXCEPT ![c] = q],
                        parent |-> IF m.right[c] = NULL THEN m.parent
                                   ELSE [m.parent EXCEPT ![m.right[c]] = q]]
    BY <1>5 DEF rotate
  <2>2. [m.left EXCEPT ![q] = m.right[c]] = u.l
    BY <1>1, <1>2, <1>3, <1>4 DEF Turned, Arrows
  <2>3. [m.right EXCEPT ![c] = q] = u.r
    BY <1>1, <1>2, <1>3, <1>4 DEF Turned, Arrows
  <2>4. (IF m.right[c] = NULL THEN m.parent ELSE [m.parent EXCEPT ![m.right[c]] = q]) = u.p
    BY <1>1, <1>2, <1>3, <1>4 DEF Turned, Arrows
  <2>5. /\ Forest(u.l, u.r, u.p, N) /\ OneTop(u.p, N) /\ u.p[c] = g
        /\ \A x \in N : x # c /\ p[x] # NULL => u.p[x] # NULL
    <3> HIDE DEF u
    <3>1. /\ Forest(Turned(l, r, p, c, q, g).l, Turned(l, r, p, c, q, g).r, Turned(l, r, p, c, q, g).p, N)
          /\ OneTop(Turned(l, r, p, c, q, g).p, N) /\ Turned(l, r, p, c, q, g).p[c] = g
          /\ \A x \in N : x # c /\ p[x] # NULL => Turned(l, r, p, c, q, g).p[x] # NULL
      <4> HIDE DEF m, t
      <4> QED BY <1>5, TurnedForest
    <3> QED BY <3>1 DEF u
  <2>6. rotate(t, c) = [left |-> u.l, right |-> u.r, parent |-> u.p]
    BY <2>1, <2>2, <2>3, <2>4
  <2> HIDE DEF u
  <2> WITNESS u.l, u.r, u.p
  <2> QED BY <2>5, <2>6 DEF RotatesTo
<1>6. CASE r[q] = c
  <2> DEFINE u == Turned(r, l, p, c, q, g)
  <2>0. l[q] # c
    BY <1>6, <1>1
  <2>1. rotate(t, c) = [right |-> [m.right EXCEPT ![q] = m.left[c]],
                        left |-> [m.left EXCEPT ![c] = q],
                        parent |-> IF m.left[c] = NULL THEN m.parent
                                   ELSE [m.parent EXCEPT ![m.left[c]] = q]]
    BY <2>0 DEF rotate
  <2>2. [m.right EXCEPT ![q] = m.left[c]] = u.l
    BY <1>1, <1>2, <1>3, <1>4 DEF Turned, Arrows
  <2>3. [m.left EXCEPT ![c] = q] = u.r
    BY <1>1, <1>2, <1>3, <1>4 DEF Turned, Arrows
  <2>4. (IF m.left[c] = NULL THEN m.parent ELSE [m.parent EXCEPT ![m.left[c]] = q]) = u.p
    BY <1>1, <1>2, <1>3, <1>4 DEF Turned, Arrows
  <2>5. /\ Forest(u.r, u.l, u.p, N) /\ OneTop(u.p, N) /\ u.p[c] = g
        /\ \A x \in N : x # c /\ p[x] # NULL => u.p[x] # NULL
    <3> HIDE DEF u
    <3>1. /\ Forest(Turned(r, l, p, c, q, g).l, Turned(r, l, p, c, q, g).r, Turned(r, l, p, c, q, g).p, N)
          /\ OneTop(Turned(r, l, p, c, q, g).p, N) /\ Turned(r, l, p, c, q, g).p[c] = g
          /\ \A x \in N : x # c /\ p[x] # NULL => Turned(r, l, p, c, q, g).p[x] # NULL
      <4> HIDE DEF m, t
      <4>1. Forest(r, l, p, N)
        BY Mirror
      <4> QED BY <1>6, <4>1, TurnedForest
    <3> QED BY <3>1, Mirror DEF u
  <2>6. rotate(t, c) = [left |-> u.r, right |-> u.l, parent |-> u.p]
    BY <2>1, <2>2, <2>3, <2>4
  <2> HIDE DEF u
  <2> WITNESS u.r, u.l, u.p
  <2> QED BY <2>5, <2>6 DEF RotatesTo
<1> QED BY <1>1, <1>5, <1>6

-----------------------------------------------------------------------------
(* Leaves and tops.                                                        *)

(* A new leaf x, below a node with no child on the side l.                 *)
LEMMA LeafForest ==
    ASSUME NULL \notin Streams,
           NEW l, NEW r, NEW p, NEW N, Forest(l, r, p, N), OneTop(p, N),
           NEW x \in Streams \ N, NEW a \in N, l[a] = NULL
    PROVE  /\ Forest([l EXCEPT ![a] = x], r, [p EXCEPT ![x] = a], N \cup {x})
           /\ OneTop([p EXCEPT ![x] = a], N \cup {x})
<1> DEFINE nl == [l EXCEPT ![a] = x]
           np == [p EXCEPT ![x] = a]
           M == N \cup {x}
<1>1. /\ l \in Arrows /\ r \in Arrows /\ p \in Arrows /\ N \subseteq Streams
      /\ a \in Streams /\ x # a /\ x # NULL /\ a # NULL
      /\ l[x] = NULL /\ r[x] = NULL /\ p[x] = NULL
  BY DEF Forest
<1>2. nl \in Arrows /\ np \in Arrows /\ M \subseteq Streams
  BY <1>1 DEF Arrows, Pointer
<1>3. /\ nl[a] = x /\ np[x] = a
      /\ \A y \in Streams : y # a => nl[y] = l[y]
      /\ \A y \in Streams : y # x => np[y] = p[y]
  BY <1>1 DEF Arrows
<1>4. PICK rank \in [Streams -> Nat] : Ranked(p, N, rank)
  BY DEF Forest
<1> DEFINE up == [rank EXCEPT ![x] = rank[a] + 1]
<1>5. up \in [Streams -> Nat] /\ up[x] = rank[a] + 1
      /\ \A y \in Streams : y # x => up[y] = rank[y]
  BY <1>1
<1>6. rank[a] < rank[a] + 1
  BY <1>1
<1> HIDE DEF nl, np, up
<1>7. Ranked(np, M, up)
  <2> SUFFICES ASSUME NEW y \in M, np[y] # NULL PROVE up[np[y]] < up[y]
    BY DEF Ranked
  <2>1. CASE y = x
    BY <2>1, <1>1, <1>3, <1>5, <1>6
  <2>2. CASE y # x
    <3>1. np[y] = p[y] /\ y \in N /\ p[y] \in N /\ rank[p[y]] < rank[y]
      BY <2>2, <1>1, <1>3, <1>4 DEF Forest, Ranked
    <3>2. p[y] # x /\ p[y] \in Streams /\ y \in Streams
      BY <3>1, <1>1
    <3> QED BY <3>1, <3>2, <2>2, <1>5
  <2> QED BY <2>1, <2>2
<1>8. \A y \in M : nl[y] # NULL => nl[y] \in M /\ np[nl[y]] = y
  BY <1>1, <1>3 DEF Forest
<1>9. \A y \in M : r[y] # NULL => r[y] \in M /\ np[r[y]] = y
  BY <1>1, <1>3 DEF Forest
<1>10. \A y \in M : nl[y] = NULL \/ nl[y] # r[y]
  BY <1>1, <1>3 DEF Forest
<1>11. \A y \in M : np[y] # NULL => np[y] \in M /\ (y = nl[np[y]] \/ y = r[np[y]])
  BY <1>1, <1>3 DEF Forest
<1>12. \A y \in Streams \ M : nl[y] = NULL /\ r[y] = NULL /\ np[y] = NULL
  BY <1>1, <1>3 DEF Forest
<1>13. Forest(nl, r, np, M)
  BY <1>1, <1>2, <1>5, <1>7, <1>8, <1>9, <1>10, <1>11, <1>12 DEF Forest
<1>14. OneTop(np, M)
  BY <1>1, <1>3 DEF OneTop
<1> QED BY <1>13, <1>14 DEF nl, np

Leaves(l, r, p, N, x, k, nl, nr, np) ==
    /\ Forest(l, r, p, N) /\ OneTop(p, N) /\ x \in N /\ p[x] = NULL
    /\ \/ l[x] = NULL /\ k = r[x]
       \/ r[x] = NULL /\ k = l[x]
    /\ nl \in Arrows /\ nr \in Arrows /\ np \in Arrows
    /\ nl[x] = NULL /\ nr[x] = NULL /\ np[x] = NULL
    /\ k # NULL => np[k] = NULL
    /\ \A z \in Streams : z # x => nl[z] = l[z] /\ nr[z] = r[z]
    /\ \A z \in Streams : z # x /\ z # k => np[z] = p[z]

(* The top x leaves; its child k, the only one if any, becomes the top.    *)
LEMMA TopLeaves ==
    ASSUME NULL \notin Streams, NEW l, NEW r, NEW p, NEW N, NEW x, NEW k,
           NEW nl, NEW nr, NEW np, Leaves(l, r, p, N, x, k, nl, nr, np)
    PROVE  /\ Forest(nl, nr, np, N \ {x})
           /\ OneTop(np, N \ {x})
           /\ k # NULL => k \in N \ {x} /\ np[k] = NULL
           /\ k = NULL => N \ {x} = {}
<1> SUFFICES ASSUME Forest(l, r, p, N), OneTop(p, N), x \in N, p[x] = NULL,
                    \/ l[x] = NULL /\ k = r[x]
                    \/ r[x] = NULL /\ k = l[x],
                    nl \in Arrows, nr \in Arrows, np \in Arrows,
                    nl[x] = NULL, nr[x] = NULL, np[x] = NULL, k # NULL => np[k] = NULL,
                    \A z \in Streams : z # x => nl[z] = l[z] /\ nr[z] = r[z],
                    \A z \in Streams : z # x /\ z # k => np[z] = p[z]
             PROVE  /\ Forest(nl, nr, np, N \ {x})
                    /\ OneTop(np, N \ {x})
                    /\ k # NULL => k \in N \ {x} /\ np[k] = NULL
                    /\ k = NULL => N \ {x} = {}
  BY Zenon DEF Leaves
<1> DEFINE M == N \ {x}
<1>1. /\ l \in Arrows /\ r \in Arrows /\ p \in Arrows /\ N \subseteq Streams
      /\ x \in Streams
      /\ k # NULL => k \in N /\ p[k] = x /\ k \in Streams /\ k # x
  <2>1. /\ l \in Arrows /\ r \in Arrows /\ p \in Arrows /\ N \subseteq Streams /\ x \in Streams
        /\ k # NULL => k \in N /\ p[k] = x /\ k \in Streams
    BY DEF Forest
  <2>2. x # NULL
    BY <2>1
  <2> QED BY <2>1, <2>2
<1>2. nl \in Arrows /\ nr \in Arrows /\ np \in Arrows /\ M \subseteq Streams
  BY <1>1 DEF Arrows, Pointer
<1>3. /\ nl[x] = NULL /\ nr[x] = NULL /\ np[x] = NULL
      /\ \A y \in Streams : y # x => nl[y] = l[y] /\ nr[y] = r[y]
      /\ \A y \in Streams : y # x /\ y # k => np[y] = p[y]
      /\ k # NULL => np[k] = NULL
  BY <1>1 DEF Arrows
<1>4. \A y \in M : p[y] = x => y = k
  BY <1>1 DEF Forest
<1>5. \A y \in M : p[y] # NULL
  BY DEF OneTop
<1>6. \E rank \in [Streams -> Nat] : Ranked(np, M, rank)
  <2>1. PICK rank \in [Streams -> Nat] : Ranked(p, N, rank)
    BY DEF Forest
  <2>2. Ranked(np, M, rank)
    BY <2>1, <1>1, <1>3 DEF Ranked
  <2> QED BY <2>2
<1>7. \A y \in M : nl[y] # NULL => nl[y] \in M /\ np[nl[y]] = y
  <2> SUFFICES ASSUME NEW y \in M, nl[y] # NULL PROVE nl[y] \in M /\ np[nl[y]] = y
    OBVIOUS
  <2>1. nl[y] = l[y] /\ l[y] \in N /\ p[l[y]] = y /\ l[y] \in Streams
    BY <1>1, <1>3 DEF Forest
  <2>2. l[y] # x /\ l[y] # k
    BY <2>1, <1>1
  <2> QED BY <2>1, <2>2, <1>3
<1>8. \A y \in M : nr[y] # NULL => nr[y] \in M /\ np[nr[y]] = y
  <2> SUFFICES ASSUME NEW y \in M, nr[y] # NULL PROVE nr[y] \in M /\ np[nr[y]] = y
    OBVIOUS
  <2>1. nr[y] = r[y] /\ r[y] \in N /\ p[r[y]] = y /\ r[y] \in Streams
    BY <1>1, <1>3 DEF Forest
  <2>2. r[y] # x /\ r[y] # k
    BY <2>1, <1>1
  <2> QED BY <2>1, <2>2, <1>3
<1>9. \A y \in M : nl[y] = NULL \/ nl[y] # nr[y]
  BY <1>1, <1>3 DEF Forest
<1>10. \A y \in M : np[y] # NULL => np[y] \in M /\ (y = nl[np[y]] \/ y = nr[np[y]])
  <2> SUFFICES ASSUME NEW y \in M, np[y] # NULL
               PROVE  np[y] \in M /\ (y = nl[np[y]] \/ y = nr[np[y]])
    OBVIOUS
  <2>1. y # k /\ y # x /\ y \in Streams
    BY <1>1, <1>3
  <2>2. np[y] = p[y]
    BY <2>1, <1>3
  <2>3. p[y] \in N /\ (y = l[p[y]] \/ y = r[p[y]])
    BY <2>2 DEF Forest
  <2>4. p[y] # x /\ p[y] \in Streams
    BY <2>1, <2>3, <1>1, <1>4
  <2> QED BY <2>2, <2>3, <2>4, <1>3
<1>11. \A y \in Streams \ M : nl[y] = NULL /\ nr[y] = NULL /\ np[y] = NULL
  <2> TAKE y \in Streams \ M
  <2>1. CASE y = x
    BY <2>1, <1>3
  <2>2. CASE y # x
    <3>1. y \notin N /\ y # k
      BY <2>2, <1>1
    <3>2. l[y] = NULL /\ r[y] = NULL /\ p[y] = NULL
      BY <3>1 DEF Forest
    <3> QED BY <2>2, <3>1, <3>2, <1>3
  <2> QED BY <2>1, <2>2
<1>12. Forest(nl, nr, np, M)
  BY <1>2, <1>6, <1>7, <1>8, <1>9, <1>10, <1>11 DEF Forest
<1>13. OneTop(np, M)
  BY <1>1, <1>3, <1>5 DEF OneTop
<1>14. k = NULL => M = {}
  BY BareTopIsAlone
<1> QED BY <1>1, <1>3, <1>12, <1>13, <1>14

Replaces(l, r, p, N, x, i, j, y, a, k, nl, nr, np) ==
    /\ Forest(l, r, p, N) /\ OneTop(p, N)
    /\ x \in N /\ p[x] = NULL /\ l[x] = i /\ r[x] = j /\ i # NULL /\ j # NULL
    /\ y \in N /\ y # x /\ l[y] = NULL /\ r[y] = k /\ p[y] = a /\ a # NULL
    /\ a = x => j = y
    /\ a # x => l[a] = y
    /\ nl \in Arrows /\ nr \in Arrows /\ np \in Arrows
    /\ nl[x] = NULL /\ nr[x] = NULL /\ np[x] = NULL
    /\ nl[y] = i /\ nr[y] = (IF a = x THEN k ELSE j) /\ np[y] = NULL /\ np[i] = y
    /\ a # x => nl[a] = k
    /\ a # x => np[j] = y
    /\ (a # x /\ k # NULL) => np[k] = a
    /\ \A z \in Streams : z # x /\ z # y /\ z # a => nl[z] = l[z]
    /\ \A z \in Streams : z # x /\ z # y => nr[z] = r[z]
    /\ \A z \in Streams : (/\ z # x /\ z # y /\ z # i
                           /\ ~(a # x /\ z = j) /\ ~(a # x /\ z = k)) => np[z] = p[z]

(* The top x, which has two children, is replaced by y, which has no left  *)
(* child and is either the right child of x or the left child of its       *)
(* parent a.                                                               *)
LEMMA TopReplaced ==
    ASSUME NULL \notin Streams, NEW l, NEW r, NEW p, NEW N, NEW x, NEW i, NEW j,
           NEW y, NEW a, NEW k, NEW nl, NEW nr, NEW np,
           Replaces(l, r, p, N, x, i, j, y, a, k, nl, nr, np)
    PROVE  Forest(nl, nr, np, N \ {x}) /\ OneTop(np, N \ {x})
<1> SUFFICES ASSUME Forest(l, r, p, N), OneTop(p, N), x \in N, p[x] = NULL, l[x] = i,
                    r[x] = j, i # NULL, j # NULL, y \in N, y # x, l[y] = NULL,
                    p[y] = a, a # NULL, a = x => j = y, a # x => l[a] = y, r[y] = k,
                    nl \in Arrows, nr \in Arrows, np \in Arrows, nl[x] = NULL,
                    nr[x] = NULL, np[x] = NULL, nl[y] = i, np[y] = NULL, np[i] = y,
                    a # x => nl[a] = k,
                    \A z \in Streams : z # x /\ z # y /\ z # a => nl[z] = l[z],
                    nr[y] = IF a = x THEN k ELSE j,
                    \A z \in Streams : z # x /\ z # y => nr[z] = r[z],
                    a # x => np[j] = y, (a # x /\ k # NULL) => np[k] = a,
                    \A z \in Streams : (z # x /\ z # y /\ z # i /\ ~(a # x /\ z = j) /\ ~(a # x /\ z = k)) => np[z] = p[z]
             PROVE  Forest(nl, nr, np, N \ {x}) /\ OneTop(np, N \ {x})
  BY Zenon DEF Replaces
<1> DEFINE M == N \ {x}
<1>1. /\ N \subseteq Streams /\ l \in Arrows /\ r \in Arrows /\ p \in Arrows
      /\ x \in Streams /\ y \in Streams /\ i \in N /\ j \in N /\ i # j
      /\ p[i] = x /\ p[j] = x /\ i \in Streams /\ j \in Streams
      /\ a \in N /\ a \in Streams
      /\ k # NULL => k \in N /\ p[k] = y /\ k \in Streams
  BY DEF Forest
<1>2. i # x /\ j # x /\ i # y /\ a # y
  <2>1. i # x /\ j # x
    BY <1>1
  <2>2. a # y
    BY Apart
  <2>3. i # y
    <3>1. SUFFICES ASSUME i = y PROVE FALSE
      OBVIOUS
    <3>2. a = x
      BY <3>1, <1>1
    <3> QED BY <3>1, <3>2, <1>1
  <2> QED BY <2>1, <2>2, <2>3
<1>3. k # NULL => k # x /\ k # y /\ k # i /\ (a # x => k # j) /\ k # a
  <2> SUFFICES ASSUME k # NULL PROVE k # x /\ k # y /\ k # i /\ (a # x => k # j) /\ k # a
    OBVIOUS
  <2>1. k # x /\ k # i /\ (a # x => k # j)
    BY <1>1, <1>2
  <2>2. k # y
    BY <1>1, Apart
  <2>3. k # a
    BY <1>1, Apart
  <2> QED BY <2>1, <2>2, <2>3
<1>4. a # x => j # y
  BY <1>1
<1>5. \E rank \in [Streams -> Nat] : Ranked(np, M, rank)
  <2>1. PICK rank \in [Streams -> Nat] : Ranked(p, N, rank)
    BY DEF Forest
  <2> DEFINE up == [rank EXCEPT ![y] = rank[x]]
  <2>2. up \in [Streams -> Nat] /\ up[y] = rank[x]
        /\ \A z \in Streams : z # y => up[z] = rank[z]
    BY <1>1
  <2>3. /\ rank[x] < rank[i] /\ rank[x] < rank[j] /\ rank[a] < rank[y]
        /\ k # NULL => rank[y] < rank[k]
    BY <2>1, <1>1 DEF Ranked
  <2>4. \A z \in Streams : rank[z] \in Nat
    OBVIOUS
  <2> HIDE DEF up
  <2>5. ASSUME NEW z \in M, np[z] # NULL PROVE up[np[z]] < up[z]
    <3>0. z \in Streams /\ z # x /\ z # y
      BY <2>5, <1>1, Zenon
    <3>1. CASE z = i
      BY <3>1, <1>1, <1>2, <2>2, <2>3, Zenon
    <3>2. CASE a # x /\ z = j
      BY <3>2, <1>1, <1>4, <2>2, <2>3, Zenon
    <3>3. CASE a # x /\ z = k
      <4>1. np[z] = a /\ k # NULL
        BY <3>3, <3>0, Zenon
      <4>2. up[a] = rank[a] /\ up[z] = rank[k]
        BY <3>0, <3>3, <1>1, <1>2, <2>2, Zenon
      <4>3. rank[a] \in Nat /\ rank[y] \in Nat /\ rank[k] \in Nat
        BY <4>1, <1>1, <2>4, Zenon
      <4> QED BY <4>1, <4>2, <4>3, <2>3
    <3>4. CASE z # i /\ ~(a # x /\ z = j) /\ ~(a # x /\ z = k)
      <4>1. np[z] = p[z] /\ p[z] \in N /\ rank[p[z]] < rank[z] /\ p[z] \in Streams
        BY <3>0, <3>4, <2>1, <2>5, <1>1 DEF Forest, Ranked
      <4>2. CASE p[z] # y
        BY <4>1, <4>2, <3>0, <2>2, Zenon
      <4>3. CASE p[z] = y
        <5>1. z = k /\ a = x
          BY <4>3, <3>0, <3>4, <1>1 DEF Forest
        <5>2. rank[x] < rank[y] /\ rank[y] < rank[z]
          BY <5>1, <4>1, <4>3, <2>3, Zenon
        <5>3. rank[x] \in Nat /\ rank[y] \in Nat /\ rank[z] \in Nat
          BY <3>0, <1>1, <2>4, Zenon
        <5> QED BY <4>1, <4>3, <5>2, <5>3, <3>0, <2>2
      <4> QED BY <4>2, <4>3, Zenon
    <3> QED BY <3>1, <3>2, <3>3, <3>4, Zenon
  <2>6. Ranked(np, M, up)
    BY <2>5, Zenon DEF Ranked
  <2> QED BY <2>2, <2>6
<1>6. ASSUME NEW z \in M, nl[z] # NULL PROVE nl[z] \in M /\ np[nl[z]] = z
  <2>0. z \in Streams /\ z # x
    BY <1>6, <1>1, Zenon
  <2>1. CASE z = y
    BY <2>1, <1>1, <1>2, Zenon
  <2>2. CASE z = a
    <3>1. a # x /\ nl[z] = k
      BY <2>0, <2>2, Zenon
    <3> QED BY <2>2, <3>1, <1>6, <1>1, <1>3, Zenon
  <2>3. CASE z # y /\ z # a
    <3>1. nl[z] = l[z] /\ l[z] \in N /\ p[l[z]] = z /\ l[z] \in Streams
      BY <2>0, <2>3, <1>6, <1>1 DEF Forest
    <3>2. l[z] # x /\ l[z] # y /\ l[z] # i
      BY <3>1, <2>0, <2>3, <1>1
    <3>3. l[z] # j /\ l[z] # k
      BY <3>1, <2>0, <2>3, <1>1
    <3> QED BY <3>1, <3>2, <3>3, Zenon
  <2> QED BY <2>1, <2>2, <2>3
<1>7. ASSUME NEW z \in M, nr[z] # NULL PROVE nr[z] \in M /\ np[nr[z]] = z
  <2>0. z \in Streams /\ z # x
    BY <1>7, <1>1, Zenon
  <2>1. CASE z = y /\ a = x
    <3>1. nr[z] = k /\ k # NULL
      BY <2>1, <1>7, Zenon
    <3> QED BY <2>1, <3>1, <1>1, <1>3, Zenon
  <2>2. CASE z = y /\ a # x
    BY <2>2, <1>1, <1>2, <1>4, Zenon
  <2>3. CASE z # y
    <3>1. nr[z] = r[z] /\ r[z] \in N /\ p[r[z]] = z /\ r[z] \in Streams
      BY <2>0, <2>3, <1>7, <1>1 DEF Forest
    <3>2. r[z] # x /\ r[z] # i
      BY <3>1, <2>0, <1>1
    <3>3. r[z] # y
      <4>1. SUFFICES ASSUME r[z] = y PROVE FALSE
        OBVIOUS
      <4>2. z = a
        BY <4>1, <3>1, Zenon
      <4> QED BY <4>1, <4>2, <2>0, <1>1 DEF Forest
    <3>4. r[z] # j /\ r[z] # k
      BY <3>1, <2>0, <2>3, <1>1
    <3> QED BY <3>1, <3>2, <3>3, <3>4, Zenon
  <2> QED BY <2>1, <2>2, <2>3, Zenon
<1>8. ASSUME NEW z \in M PROVE nl[z] = NULL \/ nl[z] # nr[z]
  <2>0. z \in Streams /\ z # x
    BY <1>8, <1>1, Zenon
  <2>1. CASE z = y /\ a = x
    <3>1. nl[z] = i /\ nr[z] = k
      BY <2>1, Zenon
    <3> QED BY <3>1, <1>1, <1>3
  <2>2. CASE z = y /\ a # x
    BY <2>2, <1>1, Zenon
  <2>3. CASE z = a
    <3>1. nl[z] = k /\ nr[z] = r[z] /\ a # x
      BY <2>0, <2>3, <1>2, Zenon
    <3>2. k # NULL => k # r[z]
      BY <2>3, <1>1, <1>2 DEF Forest
    <3> QED BY <3>1, <3>2, Zenon
  <2>4. CASE z # y /\ z # a
    BY <2>0, <2>4, <1>1 DEF Forest
  <2> QED BY <2>1, <2>2, <2>3, <2>4, Zenon
<1>9. ASSUME NEW z \in M, np[z] # NULL
      PROVE  np[z] \in M /\ (z = nl[np[z]] \/ z = nr[np[z]])
  <2>0. z \in Streams /\ z # x /\ z # y
    BY <1>9, <1>1, Zenon
  <2>1. CASE z = i
    BY <2>1, <1>1, Zenon
  <2>2. CASE a # x /\ z = j
    BY <2>2, <1>1, <1>4, Zenon
  <2>3. CASE a # x /\ z = k
    BY <2>3, <2>0, <1>1, Zenon
  <2>4. CASE z # i /\ ~(a # x /\ z = j) /\ ~(a # x /\ z = k)
    <3>1. /\ np[z] = p[z] /\ p[z] \in N /\ p[z] \in Streams
          /\ z = l[p[z]] \/ z = r[p[z]]
      BY <2>0, <2>4, <1>9, <1>1 DEF Forest
    <3>2. p[z] # x
      BY <3>1, <2>0, <2>4, <1>1
    <3>3. CASE p[z] = y
      BY <3>1, <3>3, <2>0, <2>4, <1>1
    <3>4. CASE p[z] = a
      BY <3>1, <3>2, <3>4, <2>0, <1>2, Zenon
    <3>5. CASE p[z] # y /\ p[z] # a
      BY <3>1, <3>2, <3>5, Zenon
    <3> QED BY <3>1, <3>2, <3>3, <3>4, <3>5, Zenon
  <2> QED BY <2>1, <2>2, <2>3, <2>4, Zenon
<1>10. ASSUME NEW z \in Streams \ M PROVE nl[z] = NULL /\ nr[z] = NULL /\ np[z] = NULL
  <2>1. CASE z = x
    BY <2>1, Zenon
  <2>2. CASE z # x
    <3>1. z \notin N
      BY <2>2, <1>10, Zenon
    <3>2. l[z] = NULL /\ r[z] = NULL /\ p[z] = NULL
      BY <3>1, Zenon DEF Forest
    <3>3. z # y /\ z # a /\ z # i /\ z # j /\ z # k
      BY <3>1, <1>1
    <3> QED BY <2>2, <3>2, <3>3, Zenon
  <2> QED BY <2>1, <2>2, Zenon
<1>11. Forest(nl, nr, np, M)
  BY <1>1, <1>5, <1>6, <1>7, <1>8, <1>9, <1>10, Zenon DEF Forest
<1>12. OneTop(np, M)
  <2>1. \A z \in M : p[z] # NULL
    BY Zenon DEF OneTop
  <2>2. \A z \in M : np[z] = NULL => z = y
    BY <2>1, <1>1, <1>2
  <2> QED BY <2>2, Zenon DEF OneTop
<1> QED BY <1>11, <1>12

-----------------------------------------------------------------------------
(* The inductive invariant.                                                *)

(* The empty tree.                                                         *)
LEMMA TreeInit == ASSUME NULL \notin Streams PROVE Init => TreeInv
<1> SUFFICES ASSUME Init PROVE TreeInv
  OBVIOUS
<1>1. left \in Arrows /\ right \in Arrows /\ parent \in Arrows
  BY DEF Init, Arrows, Pointer
<1>2. \E rank \in [Streams -> Nat] : Ranked(parent, nodes, rank)
  <2>1. [x \in Streams |-> 0] \in [Streams -> Nat]
    OBVIOUS
  <2>2. Ranked(parent, nodes, [x \in Streams |-> 0])
    BY DEF Init, Ranked
  <2> QED BY <2>1, <2>2
<1>3. Forest(left, right, parent, nodes)
  BY <1>1, <1>2 DEF Init, Forest
<1> QED BY <1>3 DEF Init, TreeInv, OneTop, CallInv, Calls, Idle, Pointer

(* Steps that only advance a call.                                         *)
LEMMA CallStep ==
    ASSUME TreeInv, UNCHANGED <<links, nodes>>, call' \in Calls, CallInv',
           call'.op # "splay" => call.op # "splay"
    PROVE  TreeInv'
  BY DEF TreeInv, links

(* One turn of the loop of splay.                                          *)
LEMMA TreeSplayUp ==
    ASSUME NULL \notin Streams, TreeInv, SplayUp PROVE TreeInv'
<1> DEFINE x == call.node
           q == parent[x]
<1>1. /\ x \in nodes /\ q # NULL /\ call.op = "splay"
      /\ Forest(left, right, parent, nodes) /\ OneTop(parent, nodes)
  BY DEF TreeInv, CallInv, SplayUp
<1>2. q \in nodes
  BY <1>1 DEF Forest
<1>3. Pointers = [left |-> left, right |-> right, parent |-> parent]
  BY DEF Pointers
<1> HIDE DEF x, q
<1>4. \E nl, nr, np : /\ SetPointers([left |-> nl, right |-> nr, parent |-> np])
                      /\ Forest(nl, nr, np, nodes) /\ OneTop(np, nodes)
  <2>1. CASE parent[q] = NULL
    <3>1. SetPointers(rotate(Pointers, x))
      BY <2>1 DEF SplayUp, zig, x, q
    <3>2. PICK nl, nr, np : RotatesTo(left, right, parent, nodes, x, nl, nr, np)
      BY <1>1, RotateForest, Zenon DEF q
    <3> QED BY <3>1, <3>2, <1>3 DEF RotatesTo
  <2>2. CASE parent[q] # NULL /\ SameSide(x, q, parent[q])
    <3>1. SetPointers(rotate(rotate(Pointers, q), x))
      BY <2>2 DEF SplayUp, zigzig, x, q
    <3>2. PICK l, r, p : RotatesTo(left, right, parent, nodes, q, l, r, p)
      BY <1>1, <1>2, <2>2, RotateForest, Zenon
    <3>3. x # q
      BY <1>1, Apart, Zenon DEF q
    <3>4. Forest(l, r, p, nodes) /\ OneTop(p, nodes) /\ p[x] # NULL
      BY <1>1, <3>2, <3>3 DEF q, RotatesTo
    <3>5. PICK nl, nr, np : RotatesTo(l, r, p, nodes, x, nl, nr, np)
      BY <1>1, <3>4, RotateForest, Zenon
    <3> QED BY <3>1, <3>2, <3>5, <1>3 DEF RotatesTo
  <2>3. CASE parent[q] # NULL /\ ~SameSide(x, q, parent[q])
    <3>1. SetPointers(rotate(rotate(Pointers, x), x))
      BY <2>3, Zenon DEF SplayUp, zigzag, x, q
    <3>2. PICK l, r, p : RotatesTo(left, right, parent, nodes, x, l, r, p)
      BY <1>1, RotateForest, Zenon DEF q
    <3>3. Forest(l, r, p, nodes) /\ OneTop(p, nodes) /\ p[x] # NULL
      BY <3>2, <2>3 DEF q, RotatesTo
    <3>4. PICK nl, nr, np : RotatesTo(l, r, p, nodes, x, nl, nr, np)
      BY <1>1, <3>3, RotateForest, Zenon
    <3> QED BY <3>1, <3>2, <3>4, <1>3 DEF RotatesTo
  <2> QED BY <2>1, <2>2, <2>3, Zenon
<1>5. Forest(left', right', parent', nodes) /\ OneTop(parent', nodes)
  BY <1>4 DEF SetPointers
<1>6. UNCHANGED <<root, nodes, call>>
  BY DEF SplayUp
<1>7. CallInv'
  BY <1>1, <1>6 DEF CallInv, x
<1> QED BY <1>1, <1>5, <1>6, <1>7, Zenon DEF TreeInv

(* The end of splay: the node is the only one without a parent.            *)
LEMMA TreeSplayDone ==
    ASSUME NULL \notin Streams, TreeInv, SplayDone PROVE TreeInv'
<1>1. /\ call.node \in nodes /\ parent[call.node] = NULL /\ root' = call.node
      /\ UNCHANGED <<left, right, parent, nodes>>
      /\ nodes \subseteq Streams /\ call.node \in Streams
  BY Zenon DEF TreeInv, CallInv, SplayDone, Forest
<1>2. call' = Idle \/ call' = Running("remove", call.goal, call.node, NULL)
  BY DEF SplayDone
<1>3. call' \in Calls /\ CallInv'
  <2>1. call.goal \in {"none", "insert", "find", "delete", "empty"}
    BY DEF TreeInv, Calls
  <2>2. CASE call' = Idle
    BY <2>2 DEF Idle, Calls, Pointer, CallInv
  <2>3. CASE call' = Running("remove", call.goal, call.node, NULL)
    BY <2>1, <2>3, <1>1 DEF Running, Calls, Pointer, CallInv
  <2> QED BY <1>2, <2>2, <2>3
<1>4. root' \in Pointer /\ root' \in nodes' /\ root' # NULL /\ parent'[root'] = NULL
  BY <1>1 DEF Pointer
<1>5. Forest(left, right, parent, nodes)' /\ OneTop(parent, nodes)'
  BY <1>1 DEF TreeInv
<1> QED BY <1>3, <1>4, <1>5, Zenon DEF TreeInv

(* picosplay_insert, up to its loop.                                       *)
LEMMA TreeInsert ==
    ASSUME NULL \notin Streams, TreeInv, NEW x \in Streams, picosplay_insert(x)
    PROVE  TreeInv'
<1>1. /\ x \notin nodes /\ left[x] = NULL /\ right[x] = NULL /\ parent[x] = NULL
      /\ left \in Arrows /\ right \in Arrows /\ parent \in Arrows
      /\ Forest(left, right, parent, nodes) /\ OneTop(parent, nodes)
      /\ call = Idle
  BY DEF TreeInv, picosplay_insert, Forest
<1>2. UNCHANGED <<left, right, parent>>
  BY <1>1 DEF picosplay_insert, Arrows
<1>3. CASE root = NULL
  <2>1. /\ nodes = {} /\ root' = x /\ nodes' = {x}
        /\ call' = Running("splay", "insert", x, NULL)
    BY <1>3 DEF picosplay_insert, TreeInv
  <2>2. Ranked(parent, {x}, [y \in Streams |-> 0])
    BY <1>1 DEF Ranked
  <2>3. [y \in Streams |-> 0] \in [Streams -> Nat]
    OBVIOUS
  <2>4. Forest(left, right, parent, {x})
    BY <1>1, <2>1, <2>2, <2>3 DEF Forest
  <2>5. OneTop(parent, {x})
    BY Zenon DEF OneTop
  <2>6. call' \in Calls /\ CallInv'
    BY <2>1 DEF Running, Calls, Pointer, CallInv
  <2>7. root' \in Pointer /\ root' \in nodes' /\ root' # NULL /\ call'.op = "splay"
    BY <2>1 DEF Pointer, Running
  <2> QED BY <1>2, <2>1, <2>4, <2>5, <2>6, <2>7 DEF TreeInv
<1>4. CASE root # NULL
  <2>1. call' = Running("descend", "insert", x, root) /\ UNCHANGED <<root, nodes>>
    BY <1>4, Zenon DEF picosplay_insert
  <2>2. root \in nodes /\ root \in Pointer
    BY <1>4, Zenon DEF TreeInv
  <2>3. call' \in Calls /\ CallInv'
    BY <2>1, <2>2, <1>1 DEF Running, Calls, Pointer, CallInv
  <2>4. call'.op # "splay" /\ call.op # "splay"
    BY <2>1, <1>1 DEF Running, Idle
  <2>5. UNCHANGED <<links, nodes>>
    BY <1>2, <2>1 DEF links
  <2> QED BY <2>3, <2>4, <2>5, CallStep
<1> QED BY <1>3, <1>4

(* One level down in picosplay_insert, or the new leaf.                    *)
LEMMA TreeDescend ==
    ASSUME NULL \notin Streams, TreeInv, Descend PROVE TreeInv'
<1> DEFINE x == call.node
           a == call.at
           next == IF x < a THEN left[a] ELSE right[a]
<1>1. /\ x \in Streams \ nodes /\ a \in nodes /\ call.goal = "insert"
      /\ call.op = "descend" /\ call \in Calls
      /\ Forest(left, right, parent, nodes) /\ OneTop(parent, nodes)
      /\ nodes \subseteq Streams
  BY DEF TreeInv, CallInv, Descend, Forest
<1>2. CASE next # NULL
  <2>1. next \in nodes
    BY <1>1, <1>2 DEF Forest
  <2>2. call' = [call EXCEPT !.at = next] /\ UNCHANGED <<links, nodes>>
    BY <1>2 DEF Descend
  <2>3. call' \in Calls /\ call'.op = "descend" /\ call'.node = x /\ call'.at = next
        /\ call'.goal = "insert"
    BY <1>1, <2>1, <2>2 DEF Calls, Pointer
  <2>4. CallInv'
    BY <1>1, <2>1, <2>2, <2>3 DEF CallInv
  <2> QED BY <1>1, <2>2, <2>3, <2>4, CallStep
<1>3. CASE next = NULL
  <2>1. /\ parent' = [parent EXCEPT ![x] = a] /\ nodes' = nodes \cup {x}
        /\ left' = IF x < a THEN [left EXCEPT ![a] = x] ELSE left
        /\ right' = IF x < a THEN right ELSE [right EXCEPT ![a] = x]
        /\ call' = Running("splay", "insert", x, NULL) /\ UNCHANGED root
    BY <1>3 DEF Descend
  <2>2. Forest(left', right', parent', nodes') /\ OneTop(parent', nodes')
    <3> HIDE DEF x, a
    <3>1. CASE x < a
      <4>1. left[a] = NULL
        BY <1>3, <3>1
      <4>2. /\ Forest([left EXCEPT ![a] = x], right, [parent EXCEPT ![x] = a], nodes \cup {x})
            /\ OneTop([parent EXCEPT ![x] = a], nodes \cup {x})
        BY <1>1, <4>1, LeafForest
      <4> QED BY <2>1, <3>1, <4>2
    <3>2. CASE ~(x < a)
      <4>1. right[a] = NULL
        BY <1>3, <3>2
      <4>2. Forest(right, left, parent, nodes)
        BY <1>1, Mirror
      <4>3. /\ Forest([right EXCEPT ![a] = x], left, [parent EXCEPT ![x] = a], nodes \cup {x})
            /\ OneTop([parent EXCEPT ![x] = a], nodes \cup {x})
        BY <1>1, <4>1, <4>2, LeafForest
      <4>4. Forest(left, [right EXCEPT ![a] = x], [parent EXCEPT ![x] = a], nodes \cup {x})
        BY <4>3, Mirror, Zenon
      <4> QED BY <2>1, <3>2, <4>3, <4>4
    <3> QED BY <3>1, <3>2
  <2>3. call' \in Calls /\ CallInv' /\ call'.op = "splay"
    BY <1>1, <2>1, Zenon DEF Running, Calls, Pointer, CallInv
  <2>4. root' \in Pointer /\ root' # NULL /\ root' \in nodes'
    BY <1>1, <2>1 DEF TreeInv
  <2> QED BY <2>2, <2>3, <2>4 DEF TreeInv
<1> QED BY <1>2, <1>3

(* picosplay_find and picosplay_delete start at the root.                  *)
LEMMA TreeFind ==
    ASSUME NULL \notin Streams, TreeInv, NEW x \in Streams,
           NEW goal \in {"find", "delete"}, picosplay_find(x, goal)
    PROVE  TreeInv'
<1>1. call = Idle /\ call' = Running("search", goal, x, root) /\ UNCHANGED <<links, nodes>>
  BY DEF picosplay_find
<1>2. root \in Pointer /\ (root # NULL => root \in nodes)
  BY DEF TreeInv
<1>3. call' \in Calls /\ CallInv' /\ call'.op = "search" /\ call.op # "splay"
  BY <1>1, <1>2 DEF Running, Calls, Pointer, CallInv, Idle
<1> QED BY <1>1, <1>3, CallStep

(* One level down in picosplay_find, or its end.                           *)
LEMMA TreeSearch ==
    ASSUME NULL \notin Streams, TreeInv, Search PROVE TreeInv'
<1> DEFINE x == call.node
           a == call.at
<1>1. /\ call.op = "search" /\ x \in Streams /\ call \in Calls
      /\ a # NULL => a \in nodes
      /\ UNCHANGED <<links, nodes>>
      /\ Forest(left, right, parent, nodes) /\ nodes \subseteq Streams
      /\ call.goal \in {"none", "insert", "find", "delete", "empty"}
  BY DEF TreeInv, CallInv, Search, Forest, Calls
<1>2. CASE a = NULL
  <2>1. call' = Idle
    BY <1>2 DEF Search
  <2>2. call' \in Calls /\ CallInv' /\ call'.op = "none"
    BY <2>1 DEF Idle, Calls, CallInv, Pointer
  <2> QED BY <1>1, <2>2, CallStep
<1>3. CASE a # NULL /\ a = x
  <2>1. call' = Running("splay", call.goal, x, NULL)
    BY <1>3, Zenon DEF Search
  <2>2. call' \in Calls /\ CallInv' /\ call'.op = "splay"
    BY <1>1, <1>3, <2>1 DEF Running, Calls, CallInv, Pointer
  <2> QED BY <1>1, <2>2, CallStep
<1>4. CASE a # NULL /\ a # x
  <2> DEFINE next == IF x < a THEN left[a] ELSE right[a]
  <2>1. call' = [call EXCEPT !.at = next]
    BY <1>4 DEF Search
  <2>2. next \in Pointer /\ (next # NULL => next \in nodes)
    BY <1>1, <1>4 DEF Forest, Arrows
  <2>3. call' \in Calls /\ call'.op = "search" /\ call'.node = x /\ call'.at = next
    BY <1>1, <2>1, <2>2 DEF Calls
  <2>4. CallInv'
    BY <1>1, <2>2, <2>3 DEF CallInv
  <2> QED BY <1>1, <2>3, <2>4, CallStep
<1> QED BY <1>2, <1>3, <1>4

(* picosplay_empty_tree starts with the root.                              *)
LEMMA TreeEmptyTree ==
    ASSUME NULL \notin Streams, TreeInv, picosplay_empty_tree PROVE TreeInv'
<1>1. /\ root # NULL /\ root \in nodes /\ root \in Pointer /\ UNCHANGED <<links, nodes>>
      /\ call' = Running("splay", "empty", root, NULL)
  BY DEF picosplay_empty_tree, TreeInv
<1>2. call' \in Calls /\ CallInv' /\ call'.op = "splay"
  BY <1>1, Zenon DEF Running, Calls, CallInv, Pointer
<1> QED BY <1>1, <1>2, CallStep

(* After a removal the call goes on with the new top, or returns.          *)
LEMMA AfterRemoval ==
    ASSUME TreeInv, NULL \notin Streams, NEW x, NEW top \in Pointer, Removed(x, top),
           Forest(left, right, parent, nodes)', OneTop(parent, nodes)',
           top # NULL => top \in nodes' /\ parent'[top] = NULL,
           top = NULL => nodes' = {}
    PROVE  TreeInv'
<1>1. root' = top /\ (call' = Idle \/ (top # NULL /\ call' = Running("splay", "empty", top, NULL)))
  BY DEF Removed
<1>2. call' \in Calls /\ CallInv'
  <2>1. CASE call' = Idle
    BY <2>1, Zenon DEF Idle, Calls, CallInv, Pointer
  <2>2. CASE top # NULL /\ call' = Running("splay", "empty", top, NULL)
    BY <2>2 DEF Running, Calls, CallInv, Pointer
  <2> QED BY <1>1, <2>1, <2>2, Zenon
<1> QED BY <1>1, <1>2 DEF TreeInv

(* picosplay_delete_hint, up to its search for the next node.              *)
LEMMA TreeRemove ==
    ASSUME NULL \notin Streams, TreeInv, Remove PROVE TreeInv'
<1> DEFINE x == call.node
           top == IF left[x] = NULL THEN right[x] ELSE left[x]
<1>1. /\ call.op = "remove" /\ x \in nodes /\ x = root /\ parent[x] = NULL
      /\ Forest(left, right, parent, nodes) /\ OneTop(parent, nodes)
      /\ call \in Calls /\ nodes \subseteq Streams /\ x \in Streams
      /\ left \in Arrows /\ right \in Arrows /\ parent \in Arrows
      /\ call.goal \in {"none", "insert", "find", "delete", "empty"}
  BY DEF TreeInv, CallInv, Remove, Forest, Calls
<1>2. CASE left[x] = NULL \/ right[x] = NULL
  <2>1. /\ left' = [left EXCEPT ![x] = NULL] /\ right' = [right EXCEPT ![x] = NULL]
        /\ parent' = [(IF top = NULL THEN parent ELSE [parent EXCEPT ![top] = NULL])
                          EXCEPT ![x] = NULL]
        /\ Removed(x, top)
    <3>1. SetPointers(Freed(IF top = NULL THEN Pointers
                            ELSE [Pointers EXCEPT !.parent = [@ EXCEPT ![top] = NULL]], x))
          /\ Removed(x, top)
      BY <1>2 DEF Remove
    <3>2. CASE top = NULL
      BY <3>1, <3>2 DEF SetPointers, Freed, Pointers
    <3>3. CASE top # NULL
      <4>1. [Pointers EXCEPT !.parent = [@ EXCEPT ![top] = NULL]]
              = [left |-> left, right |-> right, parent |-> [parent EXCEPT ![top] = NULL]]
        BY DEF Pointers
      <4> QED BY <3>1, <3>3, <4>1 DEF SetPointers, Freed
    <3> QED BY <3>2, <3>3
  <2>2. nodes' = nodes \ {x}
    BY <2>1 DEF Removed
  <2>3. (left[x] = NULL /\ top = right[x]) \/ (right[x] = NULL /\ top = left[x])
    BY <1>2
  <2>4. top \in Pointer
    BY <1>1 DEF Arrows
  <2> HIDE DEF x, top
  <2>5. /\ Forest(left', right', parent', nodes \ {x})
        /\ OneTop(parent', nodes \ {x})
        /\ top # NULL => top \in nodes \ {x} /\ parent'[top] = NULL
        /\ top = NULL => nodes \ {x} = {}
    <3>1. left' \in Arrows /\ right' \in Arrows /\ parent' \in Arrows
      BY <1>1, <2>1 DEF Arrows, Pointer
    <3>2. /\ left'[x] = NULL /\ right'[x] = NULL /\ parent'[x] = NULL
          /\ \A z \in Streams : z # x => left'[z] = left[z] /\ right'[z] = right[z]
      BY <1>1, <2>1 DEF Arrows
    <3>3. /\ top # NULL => parent'[top] = NULL
          /\ \A z \in Streams : z # x /\ z # top => parent'[z] = parent[z]
      BY <1>1, <2>1, <2>4 DEF Arrows, Pointer
    <3>4. Leaves(left, right, parent, nodes, x, top, left', right', parent')
      BY <1>1, <2>3, <3>1, <3>2, <3>3, Zenon DEF Leaves
    <3> QED BY <3>4, TopLeaves, SMT
  <2> QED BY <2>1, <2>2, <2>4, <2>5, AfterRemoval, Zenon
<1>3. CASE left[x] # NULL /\ right[x] # NULL
  <2>1. call' = Running("leftmost", call.goal, x, right[x]) /\ UNCHANGED <<links, nodes>>
    BY <1>3, Zenon DEF Remove
  <2>2. right[x] \in nodes /\ parent[right[x]] = x /\ x # NULL /\ right[x] # x /\ x \in Streams
        /\ right[x] \in Streams
    BY <1>1, <1>3 DEF Forest
  <2>3. call' \in Calls /\ call'.op = "leftmost" /\ call'.node = x /\ call'.at = right[x]
    BY <1>1, <2>1, <2>2, Zenon DEF Running, Calls, Pointer
  <2>4. UNCHANGED <<left, right, parent, root, nodes>>
    BY <2>1, Zenon DEF links
  <2>5. CallInv'
    BY <1>1, <1>3, <2>2, <2>3, <2>4 DEF CallInv
  <2> QED BY <1>1, <2>1, <2>3, <2>5, CallStep
<1> QED BY <1>2, <1>3

(* One level down in the search for the next node.                         *)
LEMMA TreeLeftmost ==
    ASSUME NULL \notin Streams, TreeInv, Leftmost PROVE TreeInv'
<1> DEFINE x == call.node
           a == call.at
           b == left[a]
<1>1. /\ call.op = "leftmost" /\ b # NULL /\ call' = [call EXCEPT !.at = b]
      /\ UNCHANGED <<links, nodes>> /\ UNCHANGED <<left, right, parent, root>>
      /\ x \in nodes /\ x = root /\ a \in nodes /\ a # x
      /\ left[x] # NULL /\ right[x] # NULL /\ call \in Calls
      /\ Forest(left, right, parent, nodes) /\ nodes \subseteq Streams
      /\ parent[x] = NULL
  BY DEF Leftmost, TreeInv, CallInv, links, Forest
<1>2. b \in nodes /\ parent[b] = a /\ b # x /\ a # NULL
  BY <1>1 DEF Forest
<1>3. call' \in Calls /\ call'.op = "leftmost" /\ call'.node = x /\ call'.at = b
  BY <1>1, <1>2 DEF Calls, Pointer
<1>4. CallInv'
  BY <1>1, <1>2, <1>3 DEF CallInv
<1> QED BY <1>1, <1>3, <1>4, CallStep

(* picosplay_delete_hint, once the next node is found.                     *)
LEMMA TreeReplace ==
    ASSUME NULL \notin Streams, TreeInv, Replace PROVE TreeInv'
<1> DEFINE x == call.node
           y == call.at
           i == left[x]
           j == right[x]
           a == parent[y]
           k == right[y]
<1>1. /\ x \in nodes /\ x = root /\ parent[x] = NULL
      /\ y \in nodes /\ y # x /\ left[y] = NULL
      /\ i # NULL /\ j # NULL /\ a # NULL
      /\ a = x => j = y
      /\ a # x => left[a] = y
      /\ Forest(left, right, parent, nodes) /\ OneTop(parent, nodes)
  BY Zenon DEF Replace, TreeInv, CallInv
<1>2. /\ nodes \subseteq Streams /\ left \in Arrows /\ right \in Arrows /\ parent \in Arrows
      /\ x \in Streams /\ y \in Streams /\ a \in nodes /\ a \in Streams
      /\ i \in nodes /\ j \in nodes /\ parent[i] = x /\ parent[j] = x /\ i # j
      /\ k # NULL => k \in nodes /\ parent[k] = y
      /\ y # NULL /\ x # NULL
  BY <1>1, Zenon DEF Forest
<1>3. /\ Removed(x, y) /\ nodes' = nodes \ {x}
      /\ SetPointers(Freed([left |-> [Lifted(x, y).left EXCEPT ![y] = i],
                            right |-> Lifted(x, y).right,
                            parent |-> [Lifted(x, y).parent EXCEPT ![y] = NULL, ![i] = y]], x))
  BY DEF Replace, Removed
<1> HIDE DEF x, y, i, j, a, k
<1>4. i # x /\ j # x /\ i # y /\ (k # NULL => k # x /\ k # y /\ k # i /\ (a # x => k # j))
      /\ a # y /\ (a # x => j # y)
  <2>1. i # x /\ j # x /\ (k # NULL => k # x /\ k # i)
    BY <1>1, <1>2, Zenon
  <2>2. a # y /\ k # y
    BY <1>1, <1>2, Apart DEF a, k
  <2>3. a # x => j # y
    BY <1>2 DEF a
  <2>4. i # y
    <3>1. SUFFICES ASSUME i = y PROVE FALSE
      OBVIOUS
    <3>2. a = x
      BY <3>1, <1>2 DEF a
    <3> QED BY <3>1, <3>2, <1>1, <1>2
  <2>5. k # NULL => (a # x => k # j)
    BY <1>1, <1>2, Zenon
  <2> QED BY <2>1, <2>2, <2>3, <2>4, <2>5
<1>5. CASE a = x
  <2>1. Lifted(x, y) = [left |-> left, right |-> right, parent |-> parent]
    BY <1>5 DEF Lifted, Pointers, a
  <2>2. /\ left' = [[left EXCEPT ![y] = i] EXCEPT ![x] = NULL]
        /\ right' = [right EXCEPT ![x] = NULL]
        /\ parent' = [[[parent EXCEPT ![y] = NULL] EXCEPT ![i] = y] EXCEPT ![x] = NULL]
    BY <1>3, <2>1 DEF SetPointers, Freed
  <2>3. left' \in Arrows /\ right' \in Arrows /\ parent' \in Arrows
    BY <1>2, <2>2, Zenon DEF Arrows, Pointer
  <2>4. /\ left'[x] = NULL /\ right'[x] = NULL /\ parent'[x] = NULL
        /\ left'[y] = i /\ parent'[y] = NULL /\ parent'[i] = y
        /\ \A z \in Streams : z # x /\ z # y /\ z # a => left'[z] = left[z]
        /\ right'[y] = IF a = x THEN k ELSE j
        /\ \A z \in Streams : z # x /\ z # y => right'[z] = right[z]
        /\ \A z \in Streams : (/\ z # x /\ z # y /\ z # i
                               /\ ~(a # x /\ z = j) /\ ~(a # x /\ z = k)) => parent'[z] = parent[z]
    BY <1>1, <1>2, <1>4, <1>5, <2>2 DEF Arrows, k
  <2>5. Forest(left', right', parent', nodes \ {x}) /\ OneTop(parent', nodes \ {x})
    <3>1. /\ left[x] = i /\ right[x] = j /\ parent[y] = a /\ right[y] = k
      BY Zenon DEF i, j, a, k
    <3>2. Replaces(left, right, parent, nodes, x, i, j, y, a, k, left', right', parent')
      BY <1>1, <1>5, <2>3, <2>4, <3>1, Zenon DEF Replaces
    <3> QED BY <3>2, TopReplaced, Zenon
  <2> QED BY <2>5, <2>4, <1>1, <1>2, <1>3, AfterRemoval, Zenon DEF Pointer
<1>6. CASE a # x
  <2> DEFINE above == IF k = NULL THEN parent ELSE [parent EXCEPT ![k] = a]
  <2>1. Lifted(x, y) = [left |-> [left EXCEPT ![a] = k], right |-> [right EXCEPT ![y] = j],
                        parent |-> [above EXCEPT ![j] = y]]
    BY <1>6 DEF Lifted, a, j, k
  <2>2. above \in Arrows /\ (k # NULL => above[k] = a)
        /\ \A z \in Streams : (k = NULL \/ z # k) => above[z] = parent[z]
    BY <1>2, Zenon DEF Arrows, Pointer
  <2> HIDE DEF above
  <2>3. /\ left' = [[[left EXCEPT ![a] = k] EXCEPT ![y] = i] EXCEPT ![x] = NULL]
        /\ right' = [[right EXCEPT ![y] = j] EXCEPT ![x] = NULL]
        /\ parent' = [[[[above EXCEPT ![j] = y] EXCEPT ![y] = NULL] EXCEPT ![i] = y]
                        EXCEPT ![x] = NULL]
    BY <1>3, <2>1 DEF SetPointers, Freed
  <2>4. k \in Pointer
    BY <1>2 DEF Pointer
  <2>5. left' \in Arrows /\ right' \in Arrows /\ parent' \in Arrows
    BY <1>2, <2>2, <2>3, <2>4, Zenon DEF Arrows, Pointer
  <2>6. /\ left'[x] = NULL /\ right'[x] = NULL
        /\ left'[y] = i /\ left'[a] = k
        /\ \A z \in Streams : z # x /\ z # y /\ z # a => left'[z] = left[z]
        /\ right'[y] = IF a = x THEN k ELSE j
        /\ \A z \in Streams : z # x /\ z # y => right'[z] = right[z]
    BY <1>1, <1>2, <1>4, <1>6, <2>3, Zenon DEF Arrows
  <2>7. /\ parent'[x] = NULL /\ parent'[y] = NULL /\ parent'[i] = y /\ parent'[j] = y
        /\ k # NULL => parent'[k] = a
    BY <1>1, <1>2, <1>4, <1>6, <2>2, <2>3 DEF Arrows
  <2>8. \A z \in Streams : (/\ z # x /\ z # y /\ z # i
                            /\ ~(a # x /\ z = j) /\ ~(a # x /\ z = k)) => parent'[z] = parent[z]
    BY <1>2, <1>6, <2>2, <2>3, Zenon DEF Arrows
  <2>9. Forest(left', right', parent', nodes \ {x}) /\ OneTop(parent', nodes \ {x})
    <3>1. /\ left[x] = i /\ right[x] = j /\ parent[y] = a /\ right[y] = k
      BY DEF i, j, a, k
    <3>2. Replaces(left, right, parent, nodes, x, i, j, y, a, k, left', right', parent')
      BY <1>1, <1>6, <2>5, <2>6, <2>7, <2>8, <3>1 DEF Replaces
    <3> QED BY <3>2, TopReplaced, Zenon
  <2> QED BY <2>9, <2>7, <1>1, <1>2, <1>3, AfterRemoval, Zenon DEF Pointer
<1> QED BY <1>5, <1>6, Zenon

(* Every step of every call keeps the invariant.                           *)
LEMMA TreeNext ==
    ASSUME NULL \notin Streams, TreeInv, [Next]_vars PROVE TreeInv'
<1>1. CASE UNCHANGED vars
  BY <1>1 DEF vars, links, TreeInv, CallInv
<1>2. ASSUME NEW x \in Streams, picosplay_insert(x) PROVE TreeInv'
  BY <1>2, TreeInsert
<1>3. ASSUME NEW x \in Streams, picosplay_find(x, "find") PROVE TreeInv'
  BY <1>3, TreeFind
<1>4. ASSUME NEW x \in Streams, picosplay_find(x, "delete") PROVE TreeInv'
  BY <1>4, TreeFind
<1>5. ASSUME picosplay_empty_tree PROVE TreeInv'
  BY <1>5, TreeEmptyTree
<1>6. ASSUME Step PROVE TreeInv'
  BY <1>6, TreeSplayUp, TreeSplayDone, TreeDescend, TreeSearch, TreeRemove,
     TreeLeftmost, TreeReplace DEF Step
<1> QED BY <1>1, <1>2, <1>3, <1>4, <1>5, <1>6 DEF Next, Call

(* The invariant says what the links promise.                              *)
LEMMA TreeLinks == ASSUME NULL \notin Streams, TreeInv PROVE LinksAgree
<1>1. /\ Forest(left, right, parent, nodes) /\ OneTop(parent, nodes)
      /\ root = NULL => nodes = {}
      /\ root # NULL => root \in nodes
      /\ (root # NULL /\ call.op # "splay") => parent[root] = NULL
  BY Zenon DEF TreeInv
<1>2. \A x \in nodes :
          /\ left[x] # NULL => left[x] \in nodes /\ parent[left[x]] = x
          /\ right[x] # NULL => right[x] \in nodes /\ parent[right[x]] = x
          /\ left[x] = NULL \/ left[x] # right[x]
          /\ parent[x] # NULL =>
                parent[x] \in nodes /\ x \in {left[parent[x]], right[parent[x]]}
  BY <1>1 DEF Forest
<1>3. call.op # "splay" => \A x \in nodes : parent[x] = NULL <=> x = root
  BY <1>1 DEF OneTop
<1>4. NULL \notin nodes
  BY <1>1 DEF Forest
<1> QED BY <1>1, <1>2, <1>3, <1>4, Zenon DEF LinksAgree

(* The tree of the streams keeps its links: whatever streams are inserted, *)
(* found and deleted, in whatever order, and after every iteration of      *)
(* every loop, child and parent pointers agree, one node has no parent and *)
(* no pointer leads to a freed stream (picosplay.c:40-303).                *)
THEOREM TreeStaysLinked == ASSUME NULL \notin Streams PROVE Spec => []LinksAgree
<1>1. Init => TreeInv
  BY TreeInit
<1>2. TreeInv /\ [Next]_vars => TreeInv'
  BY TreeNext
<1>3. TreeInv => LinksAgree
  BY TreeLinks
<1> QED BY <1>1, <1>2, <1>3, PTL DEF Spec
=============================================================================
