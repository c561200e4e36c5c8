----------------------------- MODULE SocketTree -----------------------------
(* The red-black tree in which wepoll.c keeps the sockets of a port and the  *)
(* open ports: tree_add(), tree_del() and tree_find() on nodes with parent   *)
(* pointers.  A node is its key, and 0 is NULL.  Reading through NULL stops  *)
(* the program: the tree is then said to be lost.                            *)
(* Names ..._<what is wrong> are slips that the checks must notice; no action *)
(* uses them.                                                                *)
EXTENDS Naturals, Sequences

CONSTANT MaxKey         \* bound: the keys are 1..MaxKey

Keys == 1..MaxKey
NULL == 0

VARIABLES
    tree,           \* root and nodes
    members         \* history: the keys added and not deleted

tvars == <<tree, members>>

Node == [left |-> NULL, right |-> NULL, parent |-> NULL, red |-> FALSE]

TreeInit ==
    /\ tree = [root |-> NULL, node |-> [k \in Keys |-> Node], lost |-> FALSE]
    /\ members = {}

Other(side) == IF side = "left" THEN "right" ELSE "left"
SetField(t, x, field, value) == IF x = NULL THEN t ELSE [t EXCEPT !.node[x][field] = value]
Red(t, x) == x # NULL /\ t.node[x].red
Lost(t) == [t EXCEPT !.lost = TRUE]

(* y takes the place of x below the parent of x.                             *)
Replace(t, x, y) ==
    LET parent == t.node[x].parent
    IN  IF parent = NULL THEN [t EXCEPT !.root = y]
        ELSE SetField(t, parent, IF t.node[parent].left = x THEN "left" ELSE "right", y)

Rotate_forgetsInner(t, x, cis) ==
    LET q == t.node[x][Other(cis)]
    IN  [Replace(t, x, q) EXCEPT !.node[q].parent = t.node[x].parent,
                                 !.node[q][cis] = x, !.node[x].parent = q,
                                 !.node[x][Other(cis)] = t.node[q][cis]]

Rotate(t, x, cis) ==
    LET q == t.node[x][Other(cis)]
        inner == t.node[q][cis]
        moved == [Replace(t, x, q) EXCEPT !.node[q].parent = t.node[x].parent,
                                          !.node[q][cis] = x,
                                          !.node[x].parent = q,
                                          !.node[x][Other(cis)] = inner]
    IN  SetField(moved, inner, "parent", x)

RECURSIVE Descend(_, _, _)
Descend(t, key, x) ==
    LET next == t.node[x][IF key < x THEN "left" ELSE "right"]
    IN  IF key = x \/ next = NULL THEN x ELSE Descend(t, key, next)

(* tree_find()                                                               *)
Find(t, key) ==
    IF t.root # NULL /\ Descend(t, key, t.root) = key THEN key ELSE NULL

(* The loop of tree_add(): node is red, and so may its parent be.            *)
RECURSIVE RebalanceAfterInsert(_, _)
RebalanceAfterInsert(t, node) ==
    LET parent == t.node[node].parent
        grandparent == t.node[parent].parent
        cis == IF parent = t.node[grandparent].left THEN "left" ELSE "right"
        uncle == t.node[grandparent][Other(cis)]
        zigzag == node = t.node[parent][Other(cis)]
        turned == IF zigzag THEN Rotate(t, parent, cis) ELSE t
        top == IF zigzag THEN node ELSE parent
    IN  CASE ~Red(t, parent) -> [t EXCEPT !.node[t.root].red = FALSE]
          [] Red(t, parent) /\ grandparent = NULL -> Lost(t)
          [] Red(t, parent) /\ grandparent # NULL /\ Red(t, uncle) ->
                RebalanceAfterInsert(
                    [t EXCEPT !.node[parent].red = FALSE, !.node[uncle].red = FALSE,
                              !.node[grandparent].red = TRUE], grandparent)
          [] OTHER ->
                RebalanceAfterInsert(
                    Rotate([turned EXCEPT !.node[top].red = FALSE,
                                          !.node[grandparent].red = TRUE],
                           grandparent, Other(cis)), IF zigzag THEN parent ELSE node)

(* tree_add() of a key that the tree does not have; of one that it has, it   *)
(* returns -1.                                                               *)
Add(t, key) ==
    LET parent == IF t.root = NULL THEN NULL ELSE Descend(t, key, t.root)
        side == IF key < parent THEN "left" ELSE "right"
        linked == IF parent = NULL THEN [t EXCEPT !.root = key] ELSE SetField(t, parent, side, key)
    IN  RebalanceAfterInsert(
            [linked EXCEPT !.node[key] = [Node EXCEPT !.parent = parent, !.red = TRUE]], key)

(* TREE__REBALANCE_AFTER_REMOVE: what it makes of the tree, and whether it   *)
(* ends the loop.                                                            *)
RebalanceAfterRemove(t, parent, cis) ==
    LET trans == Other(cis)
        first == t.node[parent][trans]
        redSibling == Red(t, first)
        t1 == IF redSibling
              THEN Rotate([t EXCEPT !.node[first].red = FALSE, !.node[parent].red = TRUE],
                          parent, cis)
              ELSE t
        sibling == t1.node[parent][trans]
        redChild == Red(t1, t1.node[sibling].left) \/ Red(t1, t1.node[sibling].right)
        near == t1.node[sibling][cis]
        turn == ~Red(t1, t1.node[sibling][trans])
        t2 == IF turn
              THEN Rotate([t1 EXCEPT !.node[near].red = FALSE, !.node[sibling].red = TRUE],
                          sibling, trans)
              ELSE t1
        top == IF turn THEN near ELSE sibling
        far == t2.node[top][trans]
    IN  IF first = NULL \/ sibling = NULL THEN [tree |-> Lost(t), done |-> TRUE]
        ELSE IF redChild
        THEN [tree |-> Rotate([t2 EXCEPT !.node[top].red = t2.node[parent].red,
                                         !.node[parent].red = FALSE, !.node[far].red = FALSE],
                              parent, cis),
              done |-> TRUE]
        ELSE [tree |-> [t1 EXCEPT !.node[sibling].red = TRUE], done |-> FALSE]

(* The loop of tree_del(): node, which may be NULL, has one black too few    *)
(* above it.  Nothing is turned unless the deleted node had two children.    *)
RECURSIVE RestoreBlack(_, _, _, _)
RestoreBlack(t, node, parent, two) ==
    LET cis == IF node = t.node[parent].left THEN "left" ELSE "right"
        r == IF two THEN RebalanceAfterRemove(t, parent, cis) ELSE [tree |-> t, done |-> FALSE]
    IN  CASE node = t.root -> SetField(t, node, "red", FALSE)
          [] node # t.root /\ r.done -> SetField(r.tree, r.tree.root, "red", FALSE)
          [] node # t.root /\ ~r.done /\ ~Red(r.tree, parent) ->
                RestoreBlack(r.tree, parent, r.tree.node[parent].parent, two)
          [] OTHER -> SetField(r.tree, parent, "red", FALSE)

RECURSIVE Leftmost(_, _)
Leftmost(t, x) == IF t.node[x].left = NULL THEN x ELSE Leftmost(t, t.node[x].left)

(* tree_del(): with two children, the next key takes the place and the       *)
(* colour of the node.                                                       *)
Del(t, key) ==
    LET it == t.node[key]
        two == it.left # NULL /\ it.right # NULL
        next == IF two THEN Leftmost(t, it.right) ELSE IF it.left = NULL THEN it.right ELSE it.left
        up == Replace(t, key, next)
        near == next = it.right
        hole == IF two THEN t.node[next].right ELSE next
        below == IF two THEN (IF near THEN next ELSE t.node[next].parent) ELSE it.parent
        red == IF two THEN t.node[next].red ELSE it.red
        placed == IF two
                  THEN [up EXCEPT !.node[next].red = it.red, !.node[next].left = it.left,
                                  !.node[it.left].parent = next, !.node[next].parent = it.parent]
                  ELSE up
        closed == IF two /\ ~near
                  THEN [placed EXCEPT !.node[below].left = hole, !.node[next].right = it.right,
                                      !.node[it.right].parent = next]
                  ELSE placed
        linked == SetField(closed, hole, "parent", below)
        rest == IF red THEN linked
                ELSE IF Red(linked, hole) THEN SetField(linked, hole, "red", FALSE)
                ELSE RestoreBlack(linked, hole, below, two)
    IN  [rest EXCEPT !.node[key] = Node]

TreeAdd(key) ==
    /\ ~tree.lost /\ Find(tree, key) = NULL
    /\ tree' = Add(tree, key)
    /\ members' = members \cup {key}

TreeDel(key) ==
    /\ ~tree.lost /\ Find(tree, key) # NULL
    /\ tree' = Del(tree, key)
    /\ members' = members \ {key}

TreeNext == \E key \in Keys : TreeAdd(key) \/ TreeDel(key)

TreeSpec == TreeInit /\ [][TreeNext]_tvars

-----------------------------------------------------------------------------
RECURSIVE InOrder(_, _)
InOrder(t, x) ==
    IF x = NULL THEN <<>> ELSE InOrder(t, t.node[x].left) \o <<x>> \o InOrder(t, t.node[x].right)

(* Rotations and replacements keep every socket findable: the walk from the  *)
(* root is in order of the keys and holds just those that were added and not *)
(* deleted, and every parent pointer leads back where the walk came from.    *)
TreeIsSearchable == ~tree.lost =>
    LET walk == InOrder(tree, tree.root)
    IN  /\ \A i \in 1..Len(walk) - 1 : walk[i] < walk[i + 1]
        /\ {walk[i] : i \in 1..Len(walk)} = members
        /\ \A k \in members :
              \/ k = tree.root /\ tree.node[k].parent = NULL
              \/ tree.node[k].parent # NULL /\
                 k \in {tree.node[tree.node[k].parent].left, tree.node[tree.node[k].parent].right}

(* The tree never looks behind a NULL pointer: the balance that              *)
(* TREE__REBALANCE_AFTER_REMOVE takes for granted is there when it runs.     *)
TreeIsNeverLost == ~tree.lost
=============================================================================
