-------------------------------- MODULE LLRB --------------------------------
(***************************************************************************)
(* libs/tree/llrb.go: the left-leaning red-black tree the mempool keeps    *)
(* its transactions in.  A key stands for a NodeKey, which compare orders  *)
(* totally (higher priority, then earlier time, then hash); the data of a  *)
(* key is the key, so that a node with the data of another is seen.        *)
(***************************************************************************)
EXTENDS Integers, FiniteSetsExt

CONSTANTS Keys      \* small set of positive integers

VARIABLES
    root,
    size,
    ref             \* reference: the keys inserted and not removed since

vars == <<root, size, ref>>

Nil == [nil |-> TRUE]
Panic == [nil |-> FALSE]        \* what a nil dereference or a panic leaves
node(k) == [key |-> k, data |-> k, left |-> Nil, right |-> Nil, black |-> FALSE]

isRed(h) == h # Nil /\ ~h.black

flip(h) ==
    IF Nil \in {h.left, h.right} THEN Panic
    ELSE [h EXCEPT !.black = ~@, !.left.black = ~@, !.right.black = ~@]

rotateLeft(h) ==
    IF h.right.black THEN Panic
    ELSE [h.right EXCEPT !.left = [h EXCEPT !.right = h.right.left, !.black = FALSE],
                         !.black = h.black]

rotateRight(h) ==
    IF h.left.black THEN Panic
    ELSE [h.left EXCEPT !.right = [h EXCEPT !.left = h.left.right, !.black = FALSE],
                        !.black = h.black]

moveRedLeft(h) ==
    LET f == flip(h)
    IN  IF isRed(f.right.left)
        THEN flip(rotateLeft([f EXCEPT !.right = rotateRight(f.right)]))
        ELSE f

moveRedRight(h) ==
    LET f == flip(h)
    IN  IF isRed(f.left.left) THEN flip(rotateRight(f)) ELSE f

(* The last two repairs of insert and of fixUp *)
splitFour(h) ==
    LET r == IF isRed(h.left) /\ isRed(h.left.left) THEN rotateRight(h) ELSE h
    IN  IF isRed(r.left) /\ isRed(r.right) THEN flip(r) ELSE r

(* Faulty variant of fixUp: the right child stays red *)
fixUpNot(h) == splitFour(h)

fixUp(h) == splitFour(IF isRed(h.right) THEN rotateLeft(h) ELSE h)

RECURSIVE insert(_, _)
insert(h, k) ==
    IF h = Nil THEN [root |-> node(k), ok |-> TRUE]
    ELSE IF k = h.key THEN [root |-> h, ok |-> FALSE]
    ELSE LET sub == insert(IF k < h.key THEN h.left ELSE h.right, k)
             g == IF k < h.key THEN [h EXCEPT !.left = sub.root] ELSE [h EXCEPT !.right = sub.root]
         IN  [root |-> splitFour(IF isRed(g.right) /\ ~isRed(g.left) THEN rotateLeft(g) ELSE g),
              ok |-> sub.ok]

RECURSIVE deleteMin(_)
deleteMin(h) ==
    IF h = Nil THEN [root |-> Nil, deleted |-> Nil]
    ELSE IF h.left = Nil THEN [root |-> Nil, deleted |-> h]
    ELSE LET g == IF ~isRed(h.left) /\ ~isRed(h.left.left) THEN moveRedLeft(h) ELSE h
             sub == deleteMin(g.left)
         IN  [root |-> fixUp([g EXCEPT !.left = sub.root]), deleted |-> sub.deleted]

(* Faulty variant of replace: the data stays behind *)
replaceKeepingData(h, min) == [h EXCEPT !.right = min.root, !.key = min.deleted.key]

(* delete's node takes the place of the least node of its right subtree. *)
replace(h, min) ==
    [h EXCEPT !.right = min.root, !.key = min.deleted.key, !.data = min.deleted.data]

RECURSIVE delete(_, _)
delete(h, k) ==
    IF h = Nil THEN [root |-> Nil, deleted |-> 0]
    ELSE IF k < h.key THEN
        IF h.left = Nil THEN [root |-> h, deleted |-> 0]
        ELSE LET g == IF ~isRed(h.left) /\ ~isRed(h.left.left) THEN moveRedLeft(h) ELSE h
                 sub == delete(g.left, k)
             IN  [root |-> fixUp([g EXCEPT !.left = sub.root]), deleted |-> sub.deleted]
    ELSE LET f == IF isRed(h.left) THEN rotateRight(h) ELSE h
             g == IF f.right # Nil /\ ~isRed(f.right) /\ ~isRed(f.right.left)
                  THEN moveRedRight(f) ELSE f
             sub == delete(g.right, k)
         IN  IF k = f.key /\ f.right = Nil THEN [root |-> Nil, deleted |-> f.data]
             ELSE IF k = g.key
                  THEN [root |-> fixUp(replace(g, deleteMin(g.right))), deleted |-> g.data]
                  ELSE [root |-> fixUp([g EXCEPT !.right = sub.root]), deleted |-> sub.deleted]

blacken(h) == IF h = Nil THEN Nil ELSE [h EXCEPT !.black = TRUE]

(* GetNext: starter 0 is nil, above every key; Wanted is the predicate.  The  *)
(* search keeps the best candidate so far (0 for none).                       *)
RECURSIVE search(_, _, _, _)
search(h, starter, Wanted, candidate) ==
    IF h = Nil THEN candidate
    ELSE IF starter = 0 \/ h.key < starter
         THEN search(h.right, starter, Wanted,
                     IF h.data \in Wanted /\ candidate < h.key THEN h.key ELSE candidate)
         ELSE search(h.left, starter, Wanted, candidate)

GetNext(starter, Wanted) == search(root, starter, Wanted, 0)

Init == root = Nil /\ size = 0 /\ ref = {}

Insert(k) ==
    LET res == insert(root, k)
    IN  /\ root' = blacken(res.root)
        /\ size' = size + (IF res.ok THEN 1 ELSE 0)
        /\ ref' = ref \cup {k}

(* The tree is searched, and restructured, for a key it does not have too. *)
Remove(k) ==
    LET res == delete(root, k)
    IN  /\ root' = blacken(res.root)
        /\ size' = size - (IF res.deleted # 0 THEN 1 ELSE 0)
        /\ ref' = ref \ {k}

Next == \E k \in Keys : Insert(k) \/ Remove(k)

Spec == Init /\ [][Next]_vars

-----------------------------------------------------------------------------
RECURSIVE nodes(_)
nodes(h) == IF h = Nil THEN {} ELSE {h} \cup nodes(h.left) \cup nodes(h.right)
keysOf(h) == {n.key : n \in nodes(h)}

(* the number of black links on the paths to the leaves, -1 if they differ *)
RECURSIVE blackHeight(_)
blackHeight(h) ==
    IF h = Nil THEN 0
    ELSE LET l == blackHeight(h.left)
             r == blackHeight(h.right)
         IN  IF l = -1 \/ l # r THEN -1 ELSE l + (IF h.black THEN 1 ELSE 0)

(* Every sequence of insertions and removals, of keys that are there or not,  *)
(* leaves a left-leaning red-black tree: no red right child, no two red links *)
(* in a row, the same number of black links on every path.  So the rotations  *)
(* never panic and the depth stays logarithmic.                               *)
StaysBalanced ==
    /\ blackHeight(root) # -1
    /\ ~isRed(root)
    /\ \A n \in nodes(root) : ~isRed(n.right) /\ (isRed(n) => ~isRed(n.left))

(* The tree holds the keys inserted and not removed, each with its own data,   *)
(* and Size counts them; GetNext from any key, present or not, is the largest *)
(* below it, so that iterating from nil meets every transaction once, in      *)
(* order of priority: the copying of a node by delete loses nothing.          *)
below(starter) == {k \in ref : starter = 0 \/ k < starter}
HoldsItsKeysInOrder ==
    /\ keysOf(root) = ref /\ size = Cardinality(ref)
    /\ \A n \in nodes(root) : n.data = n.key
    /\ \A starter \in Keys \cup {0} :
         GetNext(starter, Keys) = IF below(starter) = {} THEN 0 ELSE Max(below(starter))
=============================================================================
