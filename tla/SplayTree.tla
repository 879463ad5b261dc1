------------------------------ MODULE SplayTree ------------------------------
(***************************************************************************)
(* The splay tree of picosplay.c, which holds the streams of a connection. *)
(*                                                                         *)
(* A node is the stream it is embedded in, named by its number: picoquic   *)
(* looks a stream up before it creates one, so that no number is inserted  *)
(* twice.  The pointers of the nodes are the functions left, right and     *)
(* parent.  The calls walk and rewrite the tree in loops; each iteration   *)
(* is a step, and `call` is the call in progress with its local variables. *)
(***************************************************************************)
EXTENDS Integers, FiniteSets, Sequences

CONSTANTS Streams,   \* the numbers of the streams
          NULL       \* the null pointer

VARIABLES
  root, size,            \* of the tree
  left, right, parent,   \* pointers of the nodes
  nodes,                 \* the nodes linked into the tree
  call                   \* the call in progress

links == <<root, left, right, parent>>
vars == <<links, size, nodes, call>>

Pointer == Streams \cup {NULL}

(* `node` is the node, or number, the call is about; `at` is where its     *)
(* loop stands; `goal` is what to do after the tree was splayed.           *)
Idle == [op |-> "none", goal |-> "none", node |-> NULL, at |-> NULL]
Running(op, goal, node, at) == [op |-> op, goal |-> goal, node |-> node, at |-> at]

-----------------------------------------------------------------------------
(* Rotations.  The pointers are passed as a record, so that two rotations  *)
(* can follow each other.                                                  *)

Pointers == [left |-> left, right |-> right, parent |-> parent]

(* child takes the place of its parent below the grandparent.              *)
mark_gp(t, child) ==
    LET p == t.parent[child]
        g == t.parent[p]
        up == [t EXCEPT !.parent = [@ EXCEPT ![child] = g, ![p] = child]]
    IN  IF g = NULL THEN up
        ELSE IF t.left[g] = p THEN [up EXCEPT !.left = [@ EXCEPT ![g] = child]]
        ELSE [up EXCEPT !.right = [@ EXCEPT ![g] = child]]

rotate(t, child) ==
    LET p == t.parent[child]
        m == mark_gp(t, child)
    IN  IF t.left[p] = child
        THEN [left |-> [m.left EXCEPT ![p] = m.right[child]],
              right |-> [m.right EXCEPT ![child] = p],
              parent |-> IF m.right[child] = NULL THEN m.parent
                         ELSE [m.parent EXCEPT ![m.right[child]] = p]]
        ELSE [right |-> [m.right EXCEPT ![p] = m.left[child]],
              left |-> [m.left EXCEPT ![child] = p],
              parent |-> IF m.left[child] = NULL THEN m.parent
                         ELSE [m.parent EXCEPT ![m.left[child]] = p]]

zig(x) == rotate(Pointers, x)
zigzig(x, p) == rotate(rotate(Pointers, p), x)
zigzag(x) == rotate(rotate(Pointers, x), x)

SetPointers(t) ==
    /\ left' = t.left
    /\ right' = t.right
    /\ parent' = t.parent

-----------------------------------------------------------------------------
(* splay, one iteration per step.                                          *)

SameSide(x, p, g) == \/ x = left[p] /\ p = left[g]
                     \/ x = right[p] /\ p = right[g]

SplayUp ==
    LET x == call.node
        p == parent[x]
    IN  /\ call.op = "splay"
        /\ p # NULL
        /\ SetPointers(IF parent[p] = NULL THEN zig(x)
                       ELSE IF SameSide(x, p, parent[p]) THEN zigzig(x, p)
                       ELSE zigzag(x))
        /\ UNCHANGED <<root, size, nodes, call>>

(* x is the root.  An insertion counts it, a find returns it, a deletion   *)
(* goes on to remove it.                                                   *)
SplayDone ==
    LET x == call.node
    IN  /\ call.op = "splay"
        /\ parent[x] = NULL
        /\ root' = x
        /\ size' = IF call.goal = "insert" THEN size + 1 ELSE size
        /\ call' = IF call.goal \in {"insert", "find"} THEN Idle
                   ELSE Running("remove", call.goal, x, NULL)
        /\ UNCHANGED <<left, right, parent, nodes>>

-----------------------------------------------------------------------------
(* picosplay_insert.                                                       *)

picosplay_insert(x) ==
    /\ call = Idle
    /\ x \notin nodes
    /\ left' = [left EXCEPT ![x] = NULL]
    /\ right' = [right EXCEPT ![x] = NULL]
    /\ parent' = [parent EXCEPT ![x] = NULL]
    /\ UNCHANGED size
    /\ IF root = NULL
       THEN /\ root' = x
            /\ nodes' = nodes \cup {x}
            /\ call' = Running("splay", "insert", x, NULL)
       ELSE /\ call' = Running("descend", "insert", x, root)
            /\ UNCHANGED <<root, nodes>>

(* One level down, or the new leaf is linked.                              *)
Descend ==
    LET x == call.node
        at == call.at
        next == IF x < at THEN left[at] ELSE right[at]
    IN  /\ call.op = "descend"
        /\ IF next # NULL
           THEN /\ call' = [call EXCEPT !.at = next]
                /\ UNCHANGED <<links, nodes>>
           ELSE /\ parent' = [parent EXCEPT ![x] = at]
                /\ left' = IF x < at THEN [left EXCEPT ![at] = x] ELSE left
                /\ right' = IF x < at THEN right ELSE [right EXCEPT ![at] = x]
                /\ nodes' = nodes \cup {x}
                /\ call' = Running("splay", "insert", x, NULL)
                /\ UNCHANGED root
        /\ UNCHANGED size

-----------------------------------------------------------------------------
(* picosplay_find, and picosplay_delete, which starts with a find.         *)

picosplay_find(x, goal) ==
    /\ call = Idle
    /\ call' = Running("search", goal, x, root)
    /\ UNCHANGED <<links, size, nodes>>

Search ==
    LET x == call.node
        at == call.at
    IN  /\ call.op = "search"
        /\ call' = IF at = NULL THEN Idle
                   ELSE IF at = x THEN Running("splay", call.goal, x, NULL)
                   ELSE [call EXCEPT !.at = IF x < at THEN left[at] ELSE right[at]]
        /\ UNCHANGED <<links, size, nodes>>

(* picosplay_empty_tree deletes the root until there is none.              *)
picosplay_empty_tree ==
    /\ call = Idle
    /\ root # NULL
    /\ call' = Running("splay", "empty", root, NULL)
    /\ UNCHANGED <<links, size, nodes>>

-----------------------------------------------------------------------------
(* picosplay_delete_hint, once the node is the root.                       *)

(* The node is freed and its pointers with it.                             *)
Freed(t, x) == [left |-> [t.left EXCEPT ![x] = NULL],
                right |-> [t.right EXCEPT ![x] = NULL],
                parent |-> [t.parent EXCEPT ![x] = NULL]]

Removed(x, top) ==
    /\ root' = top
    /\ nodes' = nodes \ {x}
    /\ size' = size - 1
    /\ call' = IF call.goal = "empty" /\ top # NULL
               THEN Running("splay", "empty", top, NULL) ELSE Idle

(* With one child at most, the child becomes the root; with two, the       *)
(* search for the leftmost node of the right subtree begins.               *)
Remove ==
    LET x == call.node
        top == IF left[x] = NULL THEN right[x] ELSE left[x]
        alone == IF top = NULL THEN Pointers
                 ELSE [Pointers EXCEPT !.parent = [@ EXCEPT ![top] = NULL]]
    IN  /\ call.op = "remove"
        /\ IF left[x] = NULL \/ right[x] = NULL
           THEN /\ SetPointers(Freed(alone, x))
                /\ Removed(x, top)
           ELSE /\ call' = Running("leftmost", call.goal, x, right[x])
                /\ UNCHANGED <<links, size, nodes>>

Leftmost ==
    /\ call.op = "leftmost"
    /\ left[call.at] # NULL
    /\ call' = [call EXCEPT !.at = left[call.at]]
    /\ UNCHANGED <<links, size, nodes>>

(* Faulty variant: the right child of y keeps y as its parent.             *)
FaultyLifted(x, y) ==
    IF parent[y] = x THEN Pointers
    ELSE [left |-> [left EXCEPT ![parent[y]] = right[y]],
          right |-> [right EXCEPT ![y] = right[x]],
          parent |-> [parent EXCEPT ![right[x]] = y]]

(* y, which follows x, leaves its place to its right child and takes the   *)
(* place of x.                                                             *)
Lifted(x, y) ==
    IF parent[y] = x THEN Pointers
    ELSE LET p == parent[y]
             above == IF right[y] = NULL THEN parent
                      ELSE [parent EXCEPT ![right[y]] = p]
         IN  [left |-> [left EXCEPT ![p] = right[y]],
              right |-> [right EXCEPT ![y] = right[x]],
              parent |-> [above EXCEPT ![right[x]] = y]]

Replace ==
    LET x == call.node
        y == call.at
        t == Lifted(x, y)
    IN  /\ call.op = "leftmost"
        /\ left[y] = NULL
        /\ SetPointers(Freed([left |-> [t.left EXCEPT ![y] = left[x]],
                              right |-> t.right,
                              parent |-> [t.parent EXCEPT ![y] = NULL,
                                                          ![left[x]] = y]], x))
        /\ Removed(x, y)

-----------------------------------------------------------------------------
Init ==
    /\ root = NULL
    /\ size = 0
    /\ left = [x \in Streams |-> NULL]
    /\ right = [x \in Streams |-> NULL]
    /\ parent = [x \in Streams |-> NULL]
    /\ nodes = {}
    /\ call = Idle

Call ==
    \/ \E x \in Streams : \/ picosplay_insert(x)
                          \/ picosplay_find(x, "find")
                          \/ picosplay_find(x, "delete")
    \/ picosplay_empty_tree

Step == \/ SplayUp \/ SplayDone \/ Descend \/ Search
        \/ Remove \/ Leftmost \/ Replace

Next == Call \/ Step

Spec == Init /\ [][Next]_vars

(* A call runs to its end in the thread that made it.                      *)
LiveSpec == Spec /\ WF_vars(Step)

-----------------------------------------------------------------------------
(* Walking the tree, as the loops over the streams do.                     *)

leftmost(x) ==
    LET down[y \in Streams] == IF left[y] = NULL THEN y ELSE down[left[y]]
    IN  IF x = NULL THEN NULL ELSE down[x]

picosplay_first == leftmost(root)

picosplay_next(x) ==
    LET up[y \in Streams] == IF parent[y] # NULL /\ y = right[parent[y]]
                             THEN up[parent[y]] ELSE parent[y]
    IN  IF right[x] # NULL THEN leftmost(right[x]) ELSE up[x]

-----------------------------------------------------------------------------
(* Properties.                                                             *)

(* Child and parent pointers agree after every iteration of every loop     *)
(* (picosplay.c:40-303): a child names its parent, a parent names its      *)
(* child, on one side only, no pointer leads out of the tree to a freed    *)
(* stream, and the root is the one node without a parent, except while it  *)
(* is being splayed away from the top.                                     *)
LinksAgree ==
    /\ \A x \in nodes :
          /\ left[x] # NULL => left[x] \in nodes /\ parent[left[x]] = x
          /\ right[x] # NULL => right[x] \in nodes /\ parent[right[x]] = x
          /\ left[x] = NULL \/ left[x] # right[x]
          /\ parent[x] # NULL =>
                parent[x] \in nodes /\ x \in {left[parent[x]], right[parent[x]]}
    /\ call.op # "splay" =>
          \A x \in nodes : parent[x] = NULL <=> x = root
    /\ root = NULL <=> nodes = {}
    /\ root # NULL => root \in nodes

(* Between calls the loop over the streams (quicctx.c:1579-1600) meets     *)
(* every stream that was inserted and not deleted, once, in the order of   *)
(* their numbers.                                                          *)
WalkMeetsAll ==
    call = Idle =>
        LET walk[i \in 1 .. Cardinality(Streams) + 1] ==
                IF i = 1 THEN picosplay_first
                ELSE IF walk[i - 1] = NULL THEN NULL
                ELSE picosplay_next(walk[i - 1])
        IN  /\ size = Cardinality(nodes)
            /\ {walk[i] : i \in 1 .. size} = nodes
            /\ walk[size + 1] = NULL
            /\ \A i \in 1 .. size - 1 : walk[i] < walk[i + 1]

(* A stream is found when it is in the tree and only then: a search that   *)
(* ends at a null pointer was for a stream that is not there.              *)
SearchIsExact ==
    (call.op = "search" /\ call.at = NULL) => call.node \notin nodes

(* Every call returns: no loop runs forever (picosplay.c:47, 122, 146).    *)
CallsReturn == call # Idle ~> call = Idle
=============================================================================
