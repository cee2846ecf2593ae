-------------------------- MODULE MCPriorityQueue --------------------------
EXTENDS PriorityQueue, TLC

(* Two histories in which the code goes wrong, see the README: tasks of    *)
(* priority 0 that are all blocked are not moved to the tree, and the      *)
(* pointers of the moved list stay behind in head->l.                      *)
LeavesBlockedBehind ==
  /\ Multi(pq)' /\ ~Multi(pq)
  /\ pq.lists[L].tasks = NoNode /\ pq.lists[L].blocked_tasks # NoNode

UsesStaleList ==
  /\ ~Multi(pq)' /\ ~Multi(pq)
  /\ pq.lists[L].tasks = NoNode
  /\ pq.lists[L].first_running_task # NoNode \/ pq.lists[L].last_parent_depends_on # NoNode

(* Bound: four tasks at a time without priorities, three with.             *)
Bounded ==
  LET queued == {n \in Node : task'[n].kind # "out"}
  IN Cardinality(queued) <= 3 \/ ~Multi(pq)'

SafeNext == Next /\ Bounded /\ ~LeavesBlockedBehind /\ ~UsesStaleList

Symmetry == Permutations(Node)

SafeSpec == Init /\ [][SafeNext]_vars
=============================================================================
