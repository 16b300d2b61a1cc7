------------------------------- MODULE TreeNode ------------------------------
(***************************************************************************)
(* solaire::tree_node (core/tree_node.hpp): nodes that are appended to and *)
(* pruned from each other.  A node has room for CHILDREN children, in a    *)
(* static list whose push_back throws when it is full and whose erase      *)
(* keeps the order.  Destroying a node destroys its list, which ends the   *)
(* program (ArrayList), so no node is destroyed here.                      *)
(***************************************************************************)
EXTENDS Integers, Sequences

CONSTANTS
    Nodes,
    CHILDREN,   \* the template parameter, up to half of the 8-bit index
    NoNode      \* a null mParent

ASSUME TreeAssumption ==
    /\ CHILDREN \in Nat
    /\ NoNode \notin Nodes

VARIABLES
    mChildren,
    mParent

treeVars == <<mChildren, mParent>>

TreeTypeOK ==
    /\ mChildren \in [Nodes -> Seq(Nodes)]
    /\ \A n \in Nodes : Len(mChildren[n]) <= CHILDREN
    /\ mParent \in [Nodes -> Nodes \cup {NoNode}]

TreeInit ==
    /\ mChildren = [n \in Nodes |-> <<>>]
    /\ mParent = [n \in Nodes |-> NoNode]

Without(s, i) == [j \in 1..(Len(s) - 1) |-> IF j < i THEN s[j] ELSE s[j + 1]]

(* Mutant: the child keeps its parent. *)
PruneAtKeepsParent(n, i) ==
    /\ i \in DOMAIN mChildren[n]
    /\ mChildren' = [mChildren EXCEPT ![n] = Without(@, i)]
    /\ UNCHANGED mParent

(* prune(index) *)
PruneAt(n, i) ==
    /\ i \in DOMAIN mChildren[n]
    /\ mChildren' = [mChildren EXCEPT ![n] = Without(@, i)]
    /\ mParent' = [mParent EXCEPT ![mChildren[n][i]] = NoNode]

(* prune(node) prunes the first entry that is the node, and throws without  *)
(* changing anything when there is none.                                    *)
Prune(n, c) ==
    \E i \in DOMAIN mChildren[n] :
        /\ mChildren[n][i] = c
        /\ \A j \in 1..(i - 1) : mChildren[n][j] # c
        /\ PruneAt(n, i)

(* Mutant: a child of another node is taken over. *)
AppendAnyway(n, c) ==
    /\ Len(mChildren[n]) < CHILDREN
    /\ mChildren' = [mChildren EXCEPT ![n] = Append(@, c)]
    /\ mParent' = [mParent EXCEPT ![c] = n]

(* Mutant: the parent gets the child for its parent. *)
AppendBackwards(n, c) ==
    /\ mParent[c] = NoNode
    /\ Len(mChildren[n]) < CHILDREN
    /\ mChildren' = [mChildren EXCEPT ![n] = Append(@, c)]
    /\ mParent' = [mParent EXCEPT ![n] = c]

(* append.  The prune() of a child that has a parent looks for the child    *)
(* among its own children, and throws; only a child of its own is found     *)
(* there, and is pruned before it is appended.  When the list is full       *)
(* push_back throws, behind that.                                           *)
AppendFree(n, c) ==
    /\ mParent[c] = NoNode
    /\ Len(mChildren[n]) < CHILDREN
    /\ mChildren' = [mChildren EXCEPT ![n] = Append(@, c)]
    /\ mParent' = [mParent EXCEPT ![c] = n]

AppendOwn(n, c) ==
    \E i \in DOMAIN mChildren[c] :
        /\ mChildren[c][i] = c
        /\ \A j \in 1..(i - 1) : mChildren[c][j] # c
        /\ LET pruned == [mChildren EXCEPT ![c] = Without(@, i)]
           IN IF Len(pruned[n]) < CHILDREN
              THEN /\ mChildren' = [pruned EXCEPT ![n] = Append(@, c)]
                   /\ mParent' = [mParent EXCEPT ![c] = n]
              ELSE /\ mChildren' = pruned
                   /\ mParent' = [mParent EXCEPT ![c] = NoNode]

AppendChild(n, c) == AppendFree(n, c) \/ AppendOwn(n, c)

TreeNext ==
    \E n \in Nodes :
        \/ \E i \in DOMAIN mChildren[n] : PruneAt(n, i)
        \/ \E c \in Nodes : Prune(n, c)
        \/ \E c \in Nodes : AppendChild(n, c)

TreeSpec == TreeInit /\ [][TreeNext]_treeVars

------------------------------------------------------------------------------

(* A node is in exactly one list, once, if it has a parent, and that is its *)
(* parent's; otherwise it is in none.                                       *)
LinksAgree ==
    /\ \A n \in Nodes : \A i \in DOMAIN mChildren[n] : mParent[mChildren[n][i]] = n
    /\ \A n \in Nodes : \A i, j \in DOMAIN mChildren[n] :
          mChildren[n][i] = mChildren[n][j] => i = j
    /\ \A c \in Nodes : mParent[c] # NoNode =>
          \E i \in DOMAIN mChildren[mParent[c]] : mChildren[mParent[c]][i] = c

(* Nodes from which get_root() never returns, because the parent of each is *)
(* one of them: of finitely many nodes, those on a cycle and below it.      *)
Endless(S) == S # {} /\ \A n \in S : mParent[n] \in S

Cyclic == \E S \in SUBSET Nodes : Endless(S)

(* c is n or an ancestor of n: it is in every set that n is in and that     *)
(* holds the parents of its members.                                        *)
AtOrAbove(c, n) ==
    \A S \in SUBSET Nodes :
        n \in S /\ (\A m \in S : mParent[m] \in S \cup {NoNode}) => c \in S

(* Cycles, on which get_root() and size() never return, are only made by    *)
(* appending a root to a node of its own tree; nothing stops that.          *)
CyclesAreAppended ==
    [][~Cyclic /\ Cyclic' =>
          \E n, c \in Nodes : AppendFree(n, c) /\ AtOrAbove(c, n)]_treeVars

(* No append takes a node from one parent to another: it must be pruned by  *)
(* its parent first, or be its own parent.                                  *)
NeverMoves ==
    [][\A c \in Nodes : mParent'[c] \in {mParent[c], NoNode}
                        \/ mParent[c] \in {NoNode, c}]_treeVars

(* A node changes its parent only by way of none, and a cycle comes only    *)
(* from appending a root to a node below it.                                *)
TreeSteps == NeverMoves /\ CyclesAreAppended
==============================================================================
