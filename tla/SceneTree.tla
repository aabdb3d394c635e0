----------------------------- MODULE SceneTree -----------------------------
(***************************************************************************)
(* The engine's scene as the editor sees it: every object has a parent,    *)
(* children come in a fixed order (here: of their ids), and the scene's    *)
(* root has no parent.  Objects are numbers, NoObject stands for none.     *)
(***************************************************************************)
EXTENDS Integers, Sequences, FiniteSets, SequencesExt

NoObject == -1

ChildrenOf(parent, x) == {y \in DOMAIN parent : parent[y] = x}

\* The object k levels above y.
Above(parent) ==
    LET up[k \in 0..Cardinality(DOMAIN parent)] ==
          IF k = 0 THEN [y \in DOMAIN parent |-> y]
          ELSE [y \in DOMAIN parent |->
                  IF up[k - 1][y] = NoObject THEN NoObject ELSE parent[up[k - 1][y]]]
    IN  up

\* x and everything below it (collect_tree_ids, find_tree_node).
Below(parent, x) ==
    {y \in DOMAIN parent : \E k \in 0..Cardinality(DOMAIN parent) : Above(parent)[k][y] = x}

DepthUnder(parent, x, y) ==
    CHOOSE k \in 0..Cardinality(DOMAIN parent) : Above(parent)[k][y] = x

----------------------------------------------------------------------------
(* flatten_scene_tree: a loop over a stack of nodes with their depths.     *)

Ascending(S) == SetToSortSeq(S, <)

\* The children on the stack, the first one on top.
Pushed(parent, stack, node) ==
    LET children == Reverse(Ascending(ChildrenOf(parent, node.id)))
    IN  stack \o [i \in DOMAIN children |-> [id |-> children[i], depth |-> node.depth + 1]]

\* One round: a node is taken off the stack, listed, and followed unless the
\* depth is reached.
FlattenStep(parent, limit, s) ==
    IF s.stack = <<>> THEN s
    ELSE LET node == Last(s.stack)
             rest == Front(s.stack)
         IN  IF node.depth > limit THEN [s EXCEPT !.stack = rest]
             ELSE [flat |-> Append(s.flat, node),
                   stack |-> IF node.depth < limit THEN Pushed(parent, rest, node) ELSE rest]

\* What flatten_scene_tree lists from a root down to a depth.
FlattenSceneTree(parent, root, limit) ==
    LET after[n \in 0..Cardinality(DOMAIN parent)] ==
          IF n = 0 THEN [flat |-> <<>>, stack |-> <<[id |-> root, depth |-> 0]>>]
          ELSE FlattenStep(parent, limit, after[n - 1])
    IN  after[Cardinality(DOMAIN parent)].flat

----------------------------------------------------------------------------
(* What the list should be.                                                *)

\* The ids on the way from x down to y.
PathTo(parent, x, y) ==
    LET d == DepthUnder(parent, x, y) IN [i \in 1..(d + 1) |-> Above(parent)[d + 1 - i][y]]

\* y is visited before z: its path is a prefix or branches off earlier.
Before(parent, x, y, z) ==
    LET p == PathTo(parent, x, y)
        q == PathTo(parent, x, z)
    IN  \/ IsStrictPrefix(p, q)
        \/ \E i \in DOMAIN p \cap DOMAIN q :
              p[i] < q[i] /\ \A j \in 1..(i - 1) : p[j] = q[j]

\* Every object of the subtree down to the depth is listed once, with its depth,
\* parents before their children and in the order of the children.
IsPreorder(parent, root, limit, flat) ==
    /\ {flat[i].id : i \in DOMAIN flat} =
          {y \in Below(parent, root) : DepthUnder(parent, root, y) <= limit}
    /\ \A i \in DOMAIN flat :
          /\ flat[i].depth = DepthUnder(parent, root, flat[i].id)
          /\ \A j \in 1..(i - 1) : Before(parent, root, flat[j].id, flat[i].id)
============================================================================
