----------------------------- MODULE SplayTree -----------------------------
(***************************************************************************)
(* The splay tree of splay-tree.c, of which priority_queue.c and target.c  *)
(* make an instance each, with the list of nodes in key order and the marks*)
(* that this fork adds ("HP-LIST").  A node is named by its key, so a tree *)
(* is a record of the nodes' fields, as functions of the keys, and of the  *)
(* fields of struct splay_tree_s.                                          *)
(***************************************************************************)
EXTENDS Integers

Nil == -1                  \* the null pointer; keys are natural numbers

EmptyTree(Keys) ==
  [root |-> Nil,
   left |-> [k \in Keys |-> Nil], right |-> [k \in Keys |-> Nil],
   prev |-> [k \in Keys |-> Nil], next |-> [k \in Keys |-> Nil],
   marked |-> [k \in Keys |-> FALSE],
   num_marked |-> 0, highest_marked |-> Nil]

(* The child of node n on the side of key.                                 *)
Toward(t, n, key) == IF key < n THEN t.left[n] ELSE t.right[n]

(* rotate_left and rotate_right: child n of p takes the place of p.        *)
Lift(t, p, n) ==
  IF t.left[p] = n THEN [t EXCEPT !.left[p] = t.right[n], !.right[n] = p]
                   ELSE [t EXCEPT !.right[p] = t.left[n], !.left[n] = p]

(* *pp = n, where pp is the field of x that held the lifted node's parent. *)
Relink(t, x, p, n) ==
  IF t.left[x] = p THEN [t EXCEPT !.left[x] = n] ELSE [t EXCEPT !.right[x] = n]

(* Bottom up splay of key: a double rotation lifts the grandchild over the *)
(* child and then over the root.                                           *)
RECURSIVE Splay(_, _)
Splay(t, key) ==
  LET n == t.root
      c == Toward(t, n, key)
      g == Toward(t, c, key)
      over == Relink(Lift(t, c, g), n, c, g)
  IN CASE n = Nil \/ key = n -> t
       [] OTHER ->
            CASE c = Nil -> t
              [] c # Nil /\ (key = c \/ g = Nil) -> [Lift(t, n, c) EXCEPT !.root = c]
              [] OTHER -> Splay([Lift(over, n, g) EXCEPT !.root = g], key)

(* The new node becomes the root, between the two halves of the old tree.  *)
AtRoot(s, k) ==
  LET r == s.root
  IN [CASE r = Nil -> [s EXCEPT !.left[k] = Nil, !.right[k] = Nil]
        [] r # Nil /\ r < k -> [s EXCEPT !.left[k] = r, !.right[k] = s.right[r], !.right[r] = Nil]
        [] OTHER -> [s EXCEPT !.right[k] = r, !.left[k] = s.left[r], !.left[r] = Nil]
      EXCEPT !.root = k]

(* The rightmost node of the subtree at n.                                 *)
RECURSIVE Rightmost(_, _)
Rightmost(t, n) == IF t.right[n] = Nil THEN n ELSE Rightmost(t, t.right[n])

(* The left child becomes the root, the right one hangs off its rightmost  *)
(* node.                                                                   *)
DropRoot(s) ==
  LET l == s.left[s.root]
      r == s.right[s.root]
  IN CASE l = Nil -> [s EXCEPT !.root = r]
       [] l # Nil /\ r = Nil -> [s EXCEPT !.root = l]
       [] OTHER -> [s EXCEPT !.root = l, !.right[Rightmost(s, l)] = r]

(* The fields of a node that was freed.                                    *)
Freed(t, k) ==
  [t EXCEPT !.left[k] = Nil, !.right[k] = Nil, !.prev[k] = Nil, !.next[k] = Nil,
            !.marked[k] = FALSE]

(***************************************************************************)
(* The list in key order and the highest marked node.                      *)
(***************************************************************************)
(* The next marked node below n in the list.                               *)
RECURSIVE MarkedBelow(_, _)
MarkedBelow(t, n) ==
  CASE t.prev[n] = Nil -> Nil
    [] t.prev[n] # Nil /\ t.marked[t.prev[n]] -> t.prev[n]
    [] OTHER -> MarkedBelow(t, t.prev[n])

Mark(t, k) ==
  [t EXCEPT !.marked[k] = TRUE, !.num_marked = @ + 1,
            !.highest_marked = IF @ = Nil \/ k > @ THEN k ELSE @]

Unmark(t, k) ==
  [t EXCEPT !.marked[k] = FALSE, !.num_marked = @ - 1,
            !.highest_marked = CASE @ # k -> @
                                 [] @ = k /\ t.num_marked > 1 -> MarkedBelow(t, k)
                                 [] OTHER -> Nil]

MarkNode(t, k, is_marked) ==
  CASE is_marked /\ ~t.marked[k] -> Mark(t, k)
    [] ~is_marked /\ t.marked[k] -> Unmark(t, k)
    [] OTHER -> t

(* After the splay the root is the neighbour of k in key order.            *)
Neighbour(s, k) ==
  LET r == s.root
      below == IF r < k THEN r ELSE s.prev[r]
      above == IF r < k THEN s.next[r] ELSE r
      linked == [s EXCEPT !.prev[k] = below, !.next[k] = above]
      up == IF below = Nil THEN linked ELSE [linked EXCEPT !.next[below] = k]
  IN IF above = Nil THEN up ELSE [up EXCEPT !.prev[above] = k]

HpListInsert(t, k, is_marked) ==
  LET s == Splay(t, k)
      linked == IF s.root = Nil THEN [s EXCEPT !.prev[k] = Nil, !.next[k] = Nil]
                                ELSE Neighbour(s, k)
      n == [AtRoot(linked, k) EXCEPT !.marked[k] = FALSE]
  IN IF is_marked THEN Mark(n, k) ELSE n

Unlist(s, k) ==
  LET up == IF s.next[k] = Nil THEN s ELSE [s EXCEPT !.prev[s.next[k]] = s.prev[k]]
  IN IF s.prev[k] = Nil THEN up ELSE [up EXCEPT !.next[s.prev[k]] = s.next[k]]

HpListRemove(t, k) ==
  LET s == Splay(t, k)
      u == IF s.marked[k] THEN Unmark(s, k) ELSE s
  IN IF s.root = k THEN DropRoot(Unlist(u, k)) ELSE s

(***************************************************************************)
(* What the tree stands for.                                               *)
(***************************************************************************)
RECURSIVE Nodes(_, _)
Nodes(t, n) == IF n = Nil THEN {} ELSE {n} \cup Nodes(t, t.left[n]) \cup Nodes(t, t.right[n])

KeysOf(t) == Nodes(t, t.root)

SearchOrder(t) ==
  \A n \in KeysOf(t) : /\ \A k \in Nodes(t, t.left[n]) : k < n
                       /\ \A k \in Nodes(t, t.right[n]) : k > n

Neighbours(t) ==
  \A n \in KeysOf(t) :
    LET up == {k \in KeysOf(t) : k > n}
    IN IF up = {} THEN t.next[n] = Nil
                  ELSE /\ t.next[n] \in up /\ \A k \in up : t.next[n] <= k
                       /\ t.prev[t.next[n]] = n
=============================================================================
