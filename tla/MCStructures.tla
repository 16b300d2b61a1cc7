---------------------------- MODULE MCStructures ----------------------------
(***************************************************************************)
(* The memory pools, the containers, the tree, the ring of tasks and the   *)
(* arithmetic on small instances.  They have nothing to do with each       *)
(* other: a behaviour is one of a single subject, and the other variables  *)
(* stay as they start.                                                     *)
(*                                                                         *)
(* The symmetry is that of pools and of allocator objects.  It is sound    *)
(* for the one liveness property, RingExecuteReturns, too: in a behaviour  *)
(* of the ring the variables of pools and allocators keep their initial    *)
(* values, which no permutation changes, and in all other behaviours the   *)
(* property holds by itself.                                               *)
(***************************************************************************)
EXTENDS MCMemory, ArrayList, FastStack, TreeWalks, IntegerMap, MCWords, TaskRing

VARIABLE subject

MCListKinds == {[static |-> FALSE, slots |-> 0, limit |-> 4, trivial |-> FALSE],
                [static |-> TRUE, slots |-> 2, limit |-> 4, trivial |-> FALSE],
                [static |-> FALSE, slots |-> 0, limit |-> 3, trivial |-> TRUE],
                [static |-> TRUE, slots |-> 3, limit |-> 4, trivial |-> TRUE]}
MCMapKinds == {[tLimit |-> 4, kLimit |-> 4], [tLimit |-> 8, kLimit |-> 4],
               [tLimit |-> 4, kLimit |-> 8]}

others == <<subject, listVars, stackVars, treeVars, mapVars, call, ringVars, memoryVars>>

Others(s) ==
    /\ s # "list" => UNCHANGED listVars
    /\ s # "stack" => UNCHANGED stackVars
    /\ s # "tree" => UNCHANGED treeVars
    /\ s # "map" => UNCHANGED mapVars
    /\ s # "ring" => UNCHANGED ringVars
    /\ s # "memory" => UNCHANGED memoryVars
    /\ UNCHANGED <<subject, call>>

StructuresInit ==
    /\ subject \in {"list", "stack", "tree", "map", "words", "ring", "memory"}
    /\ ListInit /\ (subject # "list" => listKind = CHOOSE k \in ListKinds : TRUE)
    /\ FastStackInit /\ TreeInit
    /\ MapInit /\ (subject # "map" => mapKind = CHOOSE k \in MapKinds : TRUE)
    /\ WordsInit /\ (subject # "words" => call = CHOOSE c \in Calls : c.op = "integer")
    /\ RingInit
    /\ MemoryInit /\ (subject # "memory" => user = CHOOSE u \in Users : TRUE)

StructuresNext ==
    \/ subject = "list" /\ ListNext /\ Others("list")
    \/ subject = "stack" /\ FastStackNext /\ Others("stack")
    \/ subject = "tree" /\ TreeNext /\ Others("tree")
    \/ subject = "map" /\ MapNext /\ Others("map")
    \/ subject = "ring" /\ RingNext /\ Others("ring")
    \/ subject = "memory" /\ MemoryNext /\ Others("memory")

(* The fairness is the ring's: its thread keeps running. *)
StructuresSpec ==
    StructuresInit /\ [][StructuresNext]_others /\ WF_ringVars(subject = "ring" /\ RingNext /\ Others("ring"))

(* execute returns, of the ring whose thread keeps running. *)
RingExecuteReturns == subject = "ring" => ExecuteReturns

(* The types of all subjects; the stack holds what was pushed and the keys  *)
(* of the map ascend.                                                       *)
StructuresTypeOK ==
    /\ ListTypeOK /\ StackTypeOK /\ StackHoldsPushed /\ TreeTypeOK
    /\ MapTypeOK /\ KeysAscend /\ RingTypeOK

(* depth_first and size() meet every node of a tree once; breadth_first     *)
(* does only on a chain.                                                    *)
TreeWalksVisit == subject = "tree" => DepthFirstVisitsAll /\ BreadthFirstNeedsAChain

(* Bits are counted, reversed and copied, the integer types chosen and the  *)
(* truth values combined as their definitions say, with the exceptions      *)
(* each part names.                                                         *)
ArithmeticAgrees ==
    subject = "words" =>
        /\ PopcountCountsOnes
        /\ ReflectReverses
        /\ ReadBitsOnlyStraight
        /\ RangeFitsButForPowers
        /\ IntegerLimits
        /\ KleeneIsWhatIsKnown
=============================================================================
