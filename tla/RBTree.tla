-------------------------------- MODULE RBTree --------------------------------
(***************************************************************************)
(* The red-black tree of src/core/rbtree.c, which the sets of the programs *)
(* are made of.  A node is named by the key it holds, since the tree does  *)
(* not depend on addresses; a node that takes over the key of its          *)
(* successor is renamed.  The cases "left" and "right" of the code are one *)
(* case with a side.                                                       *)
(***************************************************************************)
EXTENDS Integers, Sequences, FiniteSets

CONSTANT NKeys      \* the keys are 1..NKeys

Key  == 1..NKeys
Nil  == 0           \* NULL
Side == {"l", "r"}
Other(s) == IF s = "l" THEN "r" ELSE "l"

ASSUME RBTreeAssumption == NKeys \in Nat \ {0}

VARIABLES
    tree,       \* the root, the children on each side, and the red nodes
    elems,
    alloc,      \* path_alloc: the room for the path of the iterator
    keys        \* history: the keys a dictionary would hold

tree_vars == <<tree, elems, alloc, keys>>

Child(t, s, n) == t.child[s][n]
Red(t, n)      == n \in t.red
Black(t, n)    == ~Red(t, n)            \* NULL counts as black

\* i_log2: the number of bits.
RECURSIVE Bits(_)
Bits(n) == IF n = 0 THEN 0 ELSE 1 + Bits(n \div 2)

\* Mutant of PathAlloc: no room to spare.
PathAllocTight(n) == 2 * Bits(n)

\* i_update_iterator_size.
PathAlloc(n) == 2 * (Bits(n + 1) + 1)

TreeInit ==
    /\ tree = [root |-> Nil, child |-> [s \in Side |-> [n \in Key |-> Nil]], red |-> {}]
    /\ elems = 0 /\ alloc = 8 /\ keys = {}

-----------------------------------------------------------------------------
(* Paths: the nodes from the root to a node.                               *)

Last(path) == path[Len(path)]

\* i_node_by_key: to the key, or to the node it would be a child of.
RECURSIVE Descend(_, _, _)
Descend(t, k, path) ==
    LET n == Last(path)
        s == IF n > k THEN "l" ELSE "r"
    IN  IF n = k \/ Child(t, s, n) = Nil THEN path
        ELSE Descend(t, k, Append(path, Child(t, s, n)))

NodeByKey(t, k) == Descend(t, k, <<t.root>>)

\* The loops that follow the children of one side.
RECURSIVE Outmost(_, _, _)
Outmost(t, s, path) ==
    LET n == Child(t, s, Last(path))
    IN  IF n = Nil THEN path ELSE Outmost(t, s, Append(path, n))

\* The way back from a child on side s; <<>> when there is nothing on that side.
RECURSIVE Back(_, _, _)
Back(t, s, path) ==
    IF Len(path) = 1 THEN <<>>
    ELSE LET up == SubSeq(path, 1, Len(path) - 1)
         IN  IF Child(t, s, Last(up)) = Last(path) THEN up ELSE Back(t, s, up)

\* i_inorder_next (side r) and i_inorder_prev (side l).
Step(t, s, path) ==
    LET n == Child(t, s, Last(path))
    IN  IF n # Nil THEN Outmost(t, Other(s), Append(path, n)) ELSE Back(t, Other(s), path)

\* i_first and i_last, then one step after the other.
RECURSIVE Walk(_, _, _)
Walk(t, s, path) == IF path = <<>> THEN <<>> ELSE <<Last(path)>> \o Walk(t, s, Step(t, s, path))

Listed(t, s) ==
    IF t.root = Nil THEN <<>> ELSE Walk(t, s, Outmost(t, Other(s), <<t.root>>))

-----------------------------------------------------------------------------
(* Changes.                                                                *)

Paint(t, reds, blacks) == [t EXCEPT !.red = (@ \cup reds) \ blacks]

\* Puts n where old is, under its parent.
Link(t, parent, old, n) ==
    IF parent = Nil THEN [t EXCEPT !.root = n]
    ELSE LET s == IF Child(t, "l", parent) = old THEN "l" ELSE "r"
         IN  [t EXCEPT !.child[s][parent] = n]

\* i_rotate_left and i_rotate_right: node goes down to side s.
Rotate(t, s, node, parent) ==
    LET up == Child(t, Other(s), node)
        t1 == Link(t, parent, node, up)
    IN  [t1 EXCEPT !.child[Other(s)][node] = Child(t, s, up), !.child[s][up] = node]

\* Mutant of Above: the root is taken for no parent.
AboveRoot(path, i) == IF i > 1 THEN path[i] ELSE Nil

\* Element i of a path, or NULL above it.
Above(path, i) == IF i >= 1 THEN path[i] ELSE Nil

\* i_restructure_after_insert.
RECURSIVE FixInsert(_, _, _)
FixInsert(t, path, i) ==
    LET node   == path[i]
        parent == Above(path, i - 1)
        grand  == Above(path, i - 2)
        s      == IF Child(t, "l", grand) = parent THEN "l" ELSE "r"
        uncle  == Child(t, Other(s), grand)
        inner  == Child(t, Other(s), parent) = node
        upper  == IF inner THEN node ELSE parent
        t1     == IF inner THEN Rotate(t, s, parent, grand) ELSE t
    IN  CASE i = 1 -> Paint(t, {}, {node})
          [] i > 1 /\ Black(t, parent) -> t
          [] i > 1 /\ Red(t, parent) /\ Red(t, uncle) ->
                FixInsert(Paint(t, {grand}, {parent, uncle}), path, i - 2)
          [] OTHER ->
                Rotate(Paint(t1, {grand}, {upper}), Other(s), grand, Above(path, i - 3))

\* i_restructure_after_delete: path[i] lacks a black node.
RECURSIVE FixDelete(_, _, _)
FixDelete(t0, path0, i0) ==
    LET node    == path0[i0]
        parent  == path0[i0 - 1]
        s       == IF Child(t0, "l", parent) = node THEN "l" ELSE "r"
        sibling == Child(t0, Other(s), parent)
        red     == Red(t0, sibling)         \* case 1
        t       == IF red THEN Rotate(Paint(t0, {parent}, {sibling}), s, parent, Above(path0, i0 - 2))
                   ELSE t0
        path    == IF red THEN SubSeq(path0, 1, i0 - 2) \o <<sibling, parent, node>> ELSE path0
        i       == IF red THEN i0 + 1 ELSE i0
        brother == Child(t, Other(s), parent)
        inner   == Child(t, s, brother)
        outer   == Child(t, Other(s), brother)
        t3      == IF Black(t, outer)       \* case 3
                   THEN Rotate(Paint(t, {brother}, {inner}), Other(s), brother, parent) ELSE t
        b       == Child(t3, Other(s), parent)
        t4      == Paint(t3, IF Red(t3, parent) THEN {b} ELSE {},
                         {parent, Child(t3, Other(s), b)} \cup (IF Red(t3, parent) THEN {} ELSE {b}))
    IN  IF i0 = 1 \/ Red(t0, node) THEN Paint(t0, {}, {node})
        ELSE IF Black(t, inner) /\ Black(t, outer)      \* case 2
             THEN FixDelete(Paint(t, {brother}, {}), path, i - 1)
             ELSE Paint(Rotate(t4, s, parent, Above(path, i - 2)), {}, {path[1]})

\* A node takes over the key of another one, which has left the tree.
Renamed(t, n, k) ==
    LET Name(m) == IF m = n THEN k ELSE m
        Old(m)  == IF m = k THEN n ELSE m
    IN  IF n = k THEN t
        ELSE [root  |-> Name(t.root),
              child |-> [s \in Side |-> [m \in Key |-> IF m = n THEN Nil ELSE Name(t.child[s][Old(m)])]],
              red   |-> {Name(m) : m \in t.red \ {k}}]

\* The node removed is the one of the key, or its successor when it has two
\* children.
DeletePath(t, k) ==
    LET path == NodeByKey(t, k)
    IN  IF Child(t, "l", k) # Nil /\ Child(t, "r", k) # Nil THEN Step(t, "r", path) ELSE path

\* i_delete_element.
Deleted(t, k) ==
    LET path  == DeletePath(t, k)
        n     == Len(path)
        gone  == path[n]
        child == IF Child(t, "l", gone) # Nil THEN Child(t, "l", gone) ELSE Child(t, "r", gone)
        t1    == Link(t, Above(path, n - 1), gone, child)
        t2    == IF Black(t, gone) /\ t1.root # Nil
                 THEN FixDelete(t1, [path EXCEPT ![n] = child], n) ELSE t1
        t3    == [t2 EXCEPT !.child = [s \in Side |-> [@[s] EXCEPT ![gone] = Nil]],
                            !.red = @ \ {gone}]
    IN  Renamed(t3, k, gone)

\* Mutant of Inserted: a new node is black.
InsertedBlack(t, k) ==
    IF t.root = Nil THEN [t EXCEPT !.root = k]
    ELSE LET path == NodeByKey(t, k)
         IN  [t EXCEPT !.child[IF Last(path) > k THEN "l" ELSE "r"][Last(path)] = k]

\* i_insert_node.
Inserted(t, k) ==
    IF t.root = Nil THEN [t EXCEPT !.root = k]
    ELSE LET path == NodeByKey(t, k)
             s    == IF Last(path) > k THEN "l" ELSE "r"
         IN  FixInsert([t EXCEPT !.child[s][Last(path)] = k, !.red = @ \cup {k}],
                       Append(path, k), Len(path) + 1)

Found(k) == tree.root # Nil /\ Last(NodeByKey(tree, k)) = k

\* rbtree_insert and rbtree_insert_ptr.
InsertKey(k) ==
    /\ IF Found(k) THEN UNCHANGED <<tree, elems, alloc>>
       ELSE /\ tree' = Inserted(tree, k)
            /\ elems' = elems + 1
            /\ alloc' = IF tree.root = Nil THEN alloc ELSE PathAlloc(elems + 1)
    /\ keys' = keys \cup {k}

\* rbtree_delete and rbtree_delete_ptr.
DeleteKey(k) ==
    /\ IF ~Found(k) THEN UNCHANGED <<tree, elems, alloc>>
       ELSE /\ tree' = Deleted(tree, k)
            /\ elems' = elems - 1
            /\ alloc' = PathAlloc(elems - 1)
    /\ keys' = keys \ {k}

TreeNext == \E k \in Key : InsertKey(k) \/ DeleteKey(k)
TreeSpec == TreeInit /\ [][TreeNext]_tree_vars
-----------------------------------------------------------------------------
(* Properties.                                                             *)

\* The keys in order.
RECURSIVE Sorted(_)
Sorted(S) == IF S = {} THEN <<>>
             ELSE LET k == CHOOSE x \in S : \A y \in S : x <= y
                  IN  <<k>> \o Sorted(S \ {k})

\* Whatever was inserted and deleted, the tree is a dictionary: it counts, finds
\* and lists, in both directions, the keys it should hold.
TreeIsDictionary ==
    /\ elems = Cardinality(keys)
    /\ \A k \in Key : Found(k) <=> k \in keys
    /\ Listed(tree, "r") = Sorted(keys)
    /\ Len(Listed(tree, "l")) = elems
    /\ \A n \in 1..elems : Listed(tree, "l")[n] = Listed(tree, "r")[elems + 1 - n]

Blacks(path) == Cardinality({n \in 1..Len(path) : Black(tree, path[n])})
Leaf(k)      == Child(tree, "l", k) = Nil /\ Child(tree, "r", k) = Nil

\* What rbtree_check asserts (rbtree.c:1219-1237), for any sequence of calls: the
\* root is black, a red node has black children, all paths down have as many black
\* nodes (here also those that end at a node with one child), and the depths of
\* the leaves are within their bounds.
TreeIsBalanced ==
    tree.root # Nil =>
        LET Depth(k) == Len(NodeByKey(tree, k))
            Ends     == {k \in keys : \E s \in Side : Child(tree, s, k) = Nil}
        IN  /\ Black(tree, tree.root)
            /\ \A n \in tree.red, s \in Side : Black(tree, Child(tree, s, n))
            /\ \A j, k \in Ends : Blacks(NodeByKey(tree, j)) = Blacks(NodeByKey(tree, k))
            /\ \A k \in keys : Leaf(k) =>
                  /\ Depth(k) < 2 * Bits(elems + 1)
                  /\ \A j \in keys : Leaf(j) => Depth(j) \div 2 <= Depth(k)

\* The path of a search fits in the iterator, which is resized from the number of
\* elements alone, and so does the path of a deletion, which the code lengthens
\* by one after it has shrunk the iterator for the smaller tree.
PathsFit ==
    tree.root # Nil => \A k \in Key :
        /\ Len(NodeByKey(tree, k)) < alloc
        /\ Found(k) => Len(DeletePath(tree, k)) < PathAlloc(elems - 1)
==============================================================================
