------------------------------ MODULE TreeWalks ------------------------------
(***************************************************************************)
(* The walks of core/tree_node.hpp over the nodes of TreeNode: size(),     *)
(* depth_first and breadth_first.  A walk is the sequence of the nodes it  *)
(* calls the function with; one whose function answers true ends early, at *)
(* a prefix of it.  On a cycle no walk ends.                               *)
(***************************************************************************)
EXTENDS TreeNode, SequencesExt

RECURSIVE Size(_)
Size(n) == 1 + FoldLeft(LAMBDA s, c : s + Size(c), 0, mChildren[n])

(* Mutant: the value is visited behind the children. *)
RECURSIVE DepthFirstLate(_)
DepthFirstLate(n) == FoldLeft(LAMBDA s, c : s \o DepthFirstLate(c), <<>>, mChildren[n]) \o <<n>>

RECURSIVE DepthFirst(_)
DepthFirst(n) == FoldLeft(LAMBDA s, c : s \o DepthFirst(c), <<n>>, mChildren[n])

(* Mutant: the node that is visited is the one taken away. *)
RECURSIVE BreadthFromBack(_)
BreadthFromBack(openList) ==
    IF openList = <<>> THEN <<>>
    ELSE LET n == Last(openList)
         IN <<n>> \o BreadthFromBack(Front(openList) \o mChildren[n])

(* The open list is an array_list: front() answers its last element, and    *)
(* pop_front takes the first one away.                                      *)
RECURSIVE BreadthFrom(_)
BreadthFrom(openList) ==
    IF openList = <<>> THEN <<>>
    ELSE LET n == Last(openList)
         IN <<n>> \o BreadthFrom(Tail(openList) \o mChildren[n])

BreadthFirst(n) == BreadthFrom(<<n>>)

(* The nodes that a node is an ancestor of, and itself. *)
TreeOf(n) == {c \in Nodes : AtOrAbove(n, c)}

(* depth_first visits every node of a tree once, a parent before its        *)
(* children, and size() is their number.                                    *)
DepthFirstVisitsAll ==
    ~Cyclic => \A n \in Nodes :
        LET walk == DepthFirst(n)
        IN /\ ToSet(walk) = TreeOf(n) /\ Len(walk) = Cardinality(TreeOf(n))
           /\ Size(n) = Len(walk)
           /\ \A i, j \in DOMAIN walk : mParent[walk[j]] = walk[i] => i < j

(* breadth_first visits every node of a tree once only if no node has two   *)
(* children.  Otherwise it misses one and visits another again.             *)
BreadthFirstNeedsAChain ==
    ~Cyclic => \A n \in Nodes :
        LET walk == BreadthFirst(n)
            chain == \A c \in TreeOf(n) : Len(mChildren[c]) <= 1
        IN IF chain THEN ToSet(walk) = TreeOf(n) /\ IsInjective(walk)
           ELSE ToSet(walk) # TreeOf(n) /\ ~IsInjective(walk)
==============================================================================
