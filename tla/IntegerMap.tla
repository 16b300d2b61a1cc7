----------------------------- MODULE IntegerMap ------------------------------
(***************************************************************************)
(* solaire::integer_map<K, T> (core/integer_map.hpp): a sorted vector of   *)
(* keys and values.  The functions take their key as a T, the type of the  *)
(* values, so that a key goes through a T before it becomes a K, and find  *)
(* compares with both.  Keys are unsigned here.                            *)
(***************************************************************************)
EXTENDS Integers, Sequences, SequencesExt

CONSTANTS
    MapKinds,   \* records [tLimit, kLimit]: how many values T and K have
    CallerKeys, \* the keys a program asks for
    MapValues   \* the values it puts

ASSUME MapAssumption ==
    /\ CallerKeys \subseteq Nat
    /\ \A m \in MapKinds : m.tLimit \in Nat \ {0} /\ m.kLimit \in Nat \ {0}

VARIABLES
    mapKind,
    mElements,
    emplaced,   \* where the iterator that emplace returned last points
    misread     \* operator[] has been used with a key that is not there

mapVars == <<mapKind, mElements, emplaced, misread>>

MapTypeOK ==
    /\ mapKind \in MapKinds
    /\ \A i \in DOMAIN mElements :
          mElements[i].first \in 0..(mapKind.kLimit - 1) /\ mElements[i].second \in MapValues
    /\ emplaced \in 0..Len(mElements)
    /\ misread \in BOOLEAN

MapInit ==
    /\ mapKind \in MapKinds
    /\ mElements = <<>>
    /\ emplaced = 0
    /\ misread = FALSE

(* The key as a function gets it, and as an element keeps it. *)
AsT(k) == k % mapKind.tLimit
AsK(k) == AsT(k) % mapKind.kLimit

(* std::lower_bound: the place of the first key that is not smaller. *)
LowerBound(k) == Cardinality({i \in DOMAIN mElements : mElements[i].first < AsK(k)}) + 1

(* Mutant: the element found may have any key. *)
FindAnyKey(k) == LowerBound(k)

(* find: where the key is, or the end. *)
Find(k) ==
    LET i == LowerBound(k)
    IN IF i <= Len(mElements) /\ AsT(k) >= mElements[i].first THEN i ELSE Len(mElements) + 1

IsEnd(i) == i = Len(mElements) + 1

(* Where emplace inserts: before the first larger key, or at the end. *)
Larger(k) == {i \in DOMAIN mElements : mElements[i].first > AsT(k)}
Place(k) == IF Larger(k) = {} THEN Len(mElements) + 1
            ELSE CHOOSE i \in Larger(k) : \A j \in Larger(k) : i <= j

(* Mutant: the key is kept as it came. *)
InsertNewWide(k, v) ==
    /\ ~misread
    /\ IsEnd(Find(k))
    /\ mElements' = InsertAt(mElements, Place(k), [first |-> AsT(k), second |-> v])
    /\ emplaced' = IF Larger(k) = {} THEN Place(k) ELSE Len(mElements) - Place(k) + 2
    /\ UNCHANGED <<mapKind, misread>>

(* Mutant: insertion behind the first larger key. *)
InsertNewBehind(k, v) ==
    /\ ~misread
    /\ IsEnd(Find(k))
    /\ mElements' = InsertAt(mElements, IF Larger(k) = {} THEN Place(k) ELSE Place(k) + 1,
                             [first |-> AsK(k), second |-> v])
    /\ emplaced' = IF Larger(k) = {} THEN Place(k) ELSE Len(mElements) - Place(k) + 2
    /\ UNCHANGED <<mapKind, misread>>

(* emplace of a key that is not there.  The iterator returned for one that  *)
(* is inserted is as far from the beginning as the place was from the end.  *)
InsertNew(k, v) ==
    /\ ~misread
    /\ IsEnd(Find(k))
    /\ mElements' = InsertAt(mElements, Place(k), [first |-> AsK(k), second |-> v])
    /\ emplaced' = IF Larger(k) = {} THEN Place(k) ELSE Len(mElements) - Place(k) + 2
    /\ UNCHANGED <<mapKind, misread>>

(* emplace of a key that is found. *)
Overwrite(k, v) ==
    /\ ~misread
    /\ ~IsEnd(Find(k))
    /\ mElements' = [mElements EXCEPT ![Find(k)].second = v]
    /\ emplaced' = Find(k)
    /\ UNCHANGED <<mapKind, misread>>

Emplace(k, v) == InsertNew(k, v) \/ Overwrite(k, v)

(* operator[] does not ask whether the key was found. *)
IndexMissing(k) ==
    /\ ~misread
    /\ IsEnd(Find(k))
    /\ misread' = TRUE
    /\ UNCHANGED <<mapKind, mElements, emplaced>>

MapNext ==
    \E k \in CallerKeys :
        \/ \E v \in MapValues : Emplace(k, v)
        \/ IndexMissing(k)

MapSpec == MapInit /\ [][MapNext]_mapVars

------------------------------------------------------------------------------

(* The keys are in order and different, also when keys were put that K or T *)
(* cannot hold; find's binary search and emplace's linear one rest on it.   *)
KeysAscend ==
    \A i, j \in DOMAIN mElements : i < j => mElements[i].first < mElements[j].first

(* A program whose keys fit in a T and in a K has a map.  A key that K      *)
(* cannot hold is found at the next larger one there is, and overwrites it. *)
KeyFits(k) == k < mapKind.tLimit /\ k < mapKind.kLimit
Content ==
    [k \in {mElements[i].first : i \in DOMAIN mElements} |->
        mElements[CHOOSE i \in DOMAIN mElements : mElements[i].first = k].second]

Map == INSTANCE AbstractMap WITH map <- Content, MapKeys <- CallerKeys

ImplementsMap ==
    [][\A k \in CallerKeys, v \in MapValues :
         Emplace(k, v) /\ KeyFits(k) => Map!MapPutAt(k, v)]_mapVars

(* The iterator emplace returns is the element's, except when the key was   *)
(* inserted elsewhere than in the middle: then it is another element's, and *)
(* writing through it changes that.                                         *)
EmplacedInTheMiddle ==
    [][\A k \in CallerKeys, v \in MapValues : Emplace(k, v) /\ KeyFits(k) =>
         (mElements'[emplaced'].first = k
            <=> \/ ~IsEnd(Find(k))
                \/ Larger(k) = {}
                \/ 2 * (Place(k) - 1) = Len(mElements))]_mapVars

(* emplace is that of a map, and its iterator is right exactly where the    *)
(* distances from both ends agree.                                          *)
MapSteps == ImplementsMap /\ EmplacedInTheMiddle
==============================================================================
