----------------------------- MODULE SerialProofs ----------------------------
(***************************************************************************)
(* Proofs about parser_to_value, for any events in any order, and about    *)
(* the calls of Dispatcher, for any functions, callers and remote ends.    *)
(***************************************************************************)
EXTENDS EventSender, Dispatcher, FiniteSetTheorems, TLAPS

------------------------------------------------------------------------------
(* Paths                                                                    *)

Texts == Seq(Nat)
Paths == Seq(Texts)

LEMMA RootIsPath == Root \in Paths /\ Len(Root) = 0 /\ Empty \in Texts
  BY DEF Root, Paths, Empty, Texts

LEMMA ItemPath ==
    ASSUME NEW q \in Paths, NEW k \in Texts
    PROVE  /\ Append(q, k) \in Paths
           /\ Append(q, k) # Root
           /\ Len(Append(q, k)) = Len(q) + 1
           /\ Front(Append(q, k)) = q
           /\ Last(Append(q, k)) = k
<1> DEFINE x == Append(q, k)
<1>1. x \in Seq(Texts) /\ Len(x) = Len(q) + 1 /\ Len(q) \in Nat  BY DEF Paths
<1>2. x[Len(x)] = k  BY <1>1 DEF Paths
<1>3. SubSeq(x, 1, Len(x) - 1) = q  BY <1>1 DEF Paths
<1>4. x # Root  BY <1>1 DEF Root
<1> QED  BY <1>1, <1>2, <1>3, <1>4 DEF Front, Last, Paths

LEMMA ParentPath ==
    ASSUME NEW q \in Paths, q # Root
    PROVE  /\ Front(q) \in Paths /\ Last(q) \in Texts
           /\ q = Append(Front(q), Last(q))
           /\ Len(Front(q)) = Len(q) - 1 /\ Len(q) \in Nat /\ Len(q) > 0
<1>1. q \in Seq(Texts) /\ Len(q) \in Nat /\ Len(q) > 0  BY DEF Paths, Root
<1>2. Last(q) \in Texts  BY <1>1 DEF Last
<1> DEFINE n == Len(q) - 1
<1>a. n \in Nat /\ n <= Len(q)  BY <1>1
<1> HIDE DEF n
<1>b. /\ SubSeq(q, 1, n) \in Seq(Texts) /\ Len(SubSeq(q, 1, n)) = n
      /\ \A i \in 1..n : SubSeq(q, 1, n)[i] = q[i]
  BY <1>1, <1>a
<1>3. Front(q) \in Seq(Texts) /\ Len(Front(q)) = Len(q) - 1  BY <1>b DEF Front, n
<1>4. \A i \in 1..(Len(q) - 1) : Front(q)[i] = q[i]  BY <1>b DEF Front, n
<1>5. /\ Append(Front(q), Last(q)) \in Seq(Texts)
      /\ Len(Append(Front(q), Last(q))) = Len(q)
  BY <1>1, <1>2, <1>3
<1>6. \A i \in 1..Len(q) : Append(Front(q), Last(q))[i] = q[i]
  BY <1>1, <1>2, <1>3, <1>4 DEF Last
<1>7. q = Append(Front(q), Last(q))  BY <1>1, <1>5, <1>6
<1> QED  BY <1>1, <1>2, <1>3, <1>7 DEF Paths

LEMMA PrefixIs ==
    ASSUME NEW a \in Paths, NEW b \in Paths
    PROVE  IsPrefix(a, b) <=> Len(a) <= Len(b) /\ \A i \in 1..Len(a) : a[i] = b[i]
<1>1. a \in Seq(Texts) /\ b \in Seq(Texts) /\ Len(a) \in Nat /\ Len(b) \in Nat  BY DEF Paths
<1>2. SubSeq(a, 1, Len(a)) = a  BY <1>1
<1>3. ASSUME Len(a) <= Len(b)
      PROVE  SubSeq(b, 1, Len(a)) = a <=> \A i \in 1..Len(a) : a[i] = b[i]
  <2>1. /\ SubSeq(b, 1, Len(a)) \in Seq(Texts) /\ Len(SubSeq(b, 1, Len(a))) = Len(a)
        /\ \A i \in 1..Len(a) : SubSeq(b, 1, Len(a))[i] = b[i]
    BY <1>1, <1>3
  <2> QED  BY <1>1, <2>1
<1> QED  BY <1>1, <1>2, <1>3 DEF IsPrefix

(* What is below what. *)
LEMMA PrefixOrder ==
    ASSUME NEW a \in Paths, NEW b \in Paths
    PROVE  /\ IsPrefix(a, a)
           /\ IsPrefix(Root, a)
           /\ IsPrefix(a, b) => Len(a) <= Len(b)
           /\ IsPrefix(a, b) /\ Len(a) = Len(b) => a = b
           /\ Len(a) \in Nat /\ Len(b) \in Nat
<1>1. a \in Seq(Texts) /\ b \in Seq(Texts) /\ Len(a) \in Nat /\ Len(b) \in Nat  BY DEF Paths
<1>2. IsPrefix(a, a)  BY <1>1, PrefixIs
<1>3. IsPrefix(Root, a)  BY <1>1, RootIsPath, PrefixIs
<1>4. IsPrefix(a, b) => Len(a) <= Len(b)  BY PrefixIs
<1>5. IsPrefix(a, b) /\ Len(a) = Len(b) => a = b
  <2>1. ASSUME IsPrefix(a, b), Len(a) = Len(b) PROVE a = b
    <3>1. \A i \in 1..Len(a) : a[i] = b[i]  BY <2>1, PrefixIs
    <3> QED  BY <1>1, <2>1, <3>1
  <2> QED  BY <2>1
<1> QED  BY <1>1, <1>2, <1>3, <1>4, <1>5

LEMMA PrefixOfItem ==
    ASSUME NEW a \in Paths, NEW q \in Paths, NEW k \in Texts
    PROVE  IsPrefix(a, Append(q, k)) <=> a = Append(q, k) \/ IsPrefix(a, q)
<1> DEFINE x == Append(q, k)
<1>1. x \in Paths /\ Len(x) = Len(q) + 1 /\ Len(q) \in Nat /\ Len(a) \in Nat
  BY ItemPath, PrefixOrder
<1>2. \A i \in 1..Len(q) : x[i] = q[i]  BY <1>1 DEF Paths
<1> HIDE DEF x
<1>3. ASSUME IsPrefix(a, x), Len(a) # Len(x) PROVE IsPrefix(a, q)
  <2>1. Len(a) <= Len(x) /\ \A i \in 1..Len(a) : a[i] = x[i]  BY <1>1, <1>3, PrefixIs
  <2>2. Len(a) <= Len(q)  BY <1>1, <1>3, <2>1
  <2>3. \A i \in 1..Len(a) : a[i] = q[i]  BY <1>1, <1>2, <2>1, <2>2
  <2> QED  BY <2>2, <2>3, PrefixIs
<1>4. ASSUME IsPrefix(a, q) PROVE IsPrefix(a, x)
  <2>1. Len(a) <= Len(q) /\ \A i \in 1..Len(a) : a[i] = q[i]  BY <1>4, PrefixIs
  <2>2. Len(a) <= Len(x) /\ \A i \in 1..Len(a) : a[i] = x[i]  BY <1>1, <1>2, <2>1
  <2> QED  BY <1>1, <2>2, PrefixIs
<1>5. IsPrefix(a, x) /\ Len(a) = Len(x) => a = x  BY <1>1, PrefixOrder
<1>6. IsPrefix(x, x)  BY <1>1, PrefixOrder
<1>7. IsPrefix(a, x) <=> a = x \/ IsPrefix(a, q)  BY <1>3, <1>4, <1>5, <1>6
<1> QED  BY <1>7 DEF x

------------------------------------------------------------------------------
(* Trees                                                                    *)

HasPaths(t) == DOMAIN t \subseteq Paths /\ Root \in DOMAIN t

HasContainers(t) ==
    \A q \in DOMAIN t \ {Root} : Front(q) \in DOMAIN t /\ IsContainer(t[Front(q)])

HasItems(t) ==
    \A q \in DOMAIN t :
        /\ t[q].type = "array" => \E n \in Nat : Keys(t, q) = {<<i>> : i \in 1..n}
        /\ t[q].type = "object" => Empty \notin Keys(t, q)

IsTree(t) == HasPaths(t) /\ HasContainers(t) /\ HasItems(t)

LEMMA KeysAre ==
    ASSUME NEW t, HasPaths(t), NEW y \in Paths
    PROVE  \A k : k \in Keys(t, y) <=> k \in Texts /\ Append(y, k) \in DOMAIN t
<1>1. ASSUME NEW k \in Keys(t, y) PROVE k \in Texts /\ Append(y, k) \in DOMAIN t
  <2>1. PICK q \in DOMAIN t : q # Root /\ Front(q) = y /\ k = Last(q)  BY DEF Keys
  <2>2. q \in Paths  BY DEF HasPaths
  <2> QED  BY <2>1, <2>2, ParentPath
<1>2. ASSUME NEW k \in Texts, Append(y, k) \in DOMAIN t PROVE k \in Keys(t, y)
  <2>1. /\ Append(y, k) # Root /\ Front(Append(y, k)) = y /\ Last(Append(y, k)) = k
    BY ItemPath
  <2> QED  BY <1>2, <2>1 DEF Keys
<1> QED  BY <1>1, <1>2

(* The keys of the n items of an array are n. *)
LEMMA CardinalityOfItems ==
    ASSUME NEW n \in Nat
    PROVE  Cardinality({<<i>> : i \in 1..n}) = n
<1> DEFINE S == {<<i>> : i \in 1..n}
<1> DEFINE f == [i \in 1..n |-> <<i>>]
<1>1. f \in Bijection(1..n, S)
  <2>1. f \in [1..n -> S]  OBVIOUS
  <2>2. \A i, j \in 1..n : f[i] = f[j] => i = j
    <3>1. ASSUME NEW i \in 1..n, NEW j \in 1..n, <<i>> = <<j>> PROVE i = j
      <4>1. <<i>>[1] = i /\ <<j>>[1] = j  OBVIOUS
      <4> QED  BY <3>1, <4>1
    <3> QED  BY <3>1
  <2>3. \A s \in S : \E i \in 1..n : f[i] = s  OBVIOUS
  <2> QED  BY <2>1, <2>2, <2>3 DEF Bijection, Injection, Surjection, IsInjective
<1>2. IsFiniteSet(1..n) /\ Cardinality(1..n) = n  BY FS_Interval
<1> HIDE DEF S, f
<1>3. ExistsBijection(1..n, S)  BY <1>1 DEF ExistsBijection
<1>4. Cardinality(S) = Cardinality(1..n)  BY <1>2, <1>3, FS_Bijection
<1> QED  BY <1>2, <1>4 DEF S

(* What is in the tree when an item of a container is put in. *)
LEMMA PutIs ==
    ASSUME NEW t, HasPaths(t), NEW at \in DOMAIN t, NEW k \in Texts, NEW node
    PROVE  LET x == Append(at, k)
               u == Put(t, x, node)
           IN /\ HasPaths(u) /\ x \in DOMAIN u /\ u[x] = node
              /\ \A q : q \in DOMAIN u <=> q = x \/ (q \in DOMAIN t /\ ~IsPrefix(x, q))
              /\ \A q \in DOMAIN u \ {x} : u[q] = t[q]
              /\ at \in DOMAIN u \ {x}
<1> DEFINE x == Append(at, k)
<1> DEFINE u == Put(t, x, node)
<1>1. at \in Paths /\ DOMAIN t \subseteq Paths /\ Root \in DOMAIN t  BY DEF HasPaths
<1>2. x \in Paths /\ x # Root /\ Len(x) = Len(at) + 1  BY <1>1, ItemPath
<1>3. \A q : q \in DOMAIN u <=> q = x \/ (q \in DOMAIN t /\ ~IsPrefix(x, q))  BY DEF Put
<1>4. u[x] = node /\ \A q \in DOMAIN u \ {x} : u[q] = t[q]  BY DEF Put
<1>5. ~IsPrefix(x, at) /\ ~IsPrefix(x, Root) /\ x # at
  <2>1. Len(at) \in Nat /\ Len(Root) = 0  BY <1>1, RootIsPath, PrefixOrder
  <2>2. IsPrefix(x, at) => Len(x) <= Len(at)  BY <1>1, <1>2, PrefixOrder
  <2>3. IsPrefix(x, Root) => Len(x) <= Len(Root)  BY <1>2, RootIsPath, PrefixOrder
  <2> QED  BY <1>2, <2>1, <2>2, <2>3
<1>6. HasPaths(u)  BY <1>1, <1>2, <1>3, <1>5 DEF HasPaths
<1>7. at \in DOMAIN u \ {x}  BY <1>3, <1>5
<1> HIDE DEF u
<1> QED  BY <1>3, <1>4, <1>6, <1>7 DEF u

(* The keys there are then. *)
LEMMA PutKeys ==
    ASSUME NEW t, IsTree(t), NEW at \in DOMAIN t, NEW k \in Texts, NEW node
    PROVE  LET x == Append(at, k)
               u == Put(t, x, node)
           IN /\ Keys(u, x) = {}
              /\ Keys(u, at) = Keys(t, at) \cup {k}
              /\ \A q \in DOMAIN u \ {x, at} : Keys(u, q) = Keys(t, q)
<1> DEFINE x == Append(at, k)
<1> DEFINE u == Put(t, x, node)
<1>1. HasPaths(t) /\ HasContainers(t)  BY DEF IsTree
<1>2. at \in Paths /\ DOMAIN t \subseteq Paths  BY <1>1 DEF HasPaths
<1>3. x \in Paths /\ Front(x) = at /\ Last(x) = k  BY <1>2, ItemPath
<1>4. /\ HasPaths(u) /\ at \in DOMAIN u \ {x}
      /\ \A q : q \in DOMAIN u <=> q = x \/ (q \in DOMAIN t /\ ~IsPrefix(x, q))
  BY <1>1, PutIs
<1>5. DOMAIN u \subseteq Paths  BY <1>4 DEF HasPaths
<1> HIDE DEF u, x
<1>6. ASSUME NEW q \in DOMAIN u, NEW j \in Texts
      PROVE  Append(q, j) \in DOMAIN u <=>
               q # x /\ (Append(q, j) \in DOMAIN t \/ (q = at /\ j = k))
  <2> DEFINE y == Append(q, j)
  <2>1. q \in Paths /\ y \in Paths /\ Front(y) = q /\ Last(y) = j  BY <1>5, ItemPath
  <2>2. IsPrefix(x, y) <=> x = y \/ IsPrefix(x, q)  BY <1>3, <2>1, PrefixOfItem
  <2>3. x = y <=> q = at /\ j = k  BY <1>3, <2>1 DEF x
  <2>4. q # x => ~IsPrefix(x, q)  BY <1>4
  <2>5. IsPrefix(x, x)  BY <1>3, PrefixOrder
  <2>6. q = x => x # y  BY <1>4, <2>3
  <2> HIDE DEF y
  <2>7. y \in DOMAIN u <=> y = x \/ (y \in DOMAIN t /\ ~IsPrefix(x, y))  BY <1>4
  <2>8. CASE q = x  BY <2>2, <2>5, <2>6, <2>7, <2>8 DEF y
  <2>9. CASE q # x  BY <2>2, <2>3, <2>4, <2>7, <2>9 DEF y
  <2> QED  BY <2>8, <2>9
<1>7. \A q \in DOMAIN u : \A j : j \in Keys(u, q) <=> j \in Texts /\ Append(q, j) \in DOMAIN u
  BY <1>4, <1>5, KeysAre
<1>8. \A q \in DOMAIN u \ {x} : \A j : j \in Keys(t, q) <=> j \in Texts /\ Append(q, j) \in DOMAIN t
  BY <1>1, <1>5, KeysAre
<1>9. x \in DOMAIN u  BY <1>4
<1>10. Keys(u, x) = {}  BY <1>6, <1>7, <1>9
<1>11. \A q \in DOMAIN u \ {x} : \A j :
         j \in Keys(u, q) <=> j \in Keys(t, q) \/ (q = at /\ j = k)
  BY <1>6, <1>7, <1>8
<1>12. Keys(u, at) = Keys(t, at) \cup {k}  BY <1>4, <1>11
<1>13. ASSUME NEW q \in DOMAIN u \ {x, at} PROVE Keys(u, q) = Keys(t, q)
  <2>1. \A j : j \in Keys(u, q) <=> j \in Keys(t, q)  BY <1>11
  <2> QED  BY <2>1
<1> QED  BY <1>10, <1>12, <1>13 DEF u, x

(* An item that is put into a container leaves a tree, if it goes to the    *)
(* end of an array and has a name in an object.                             *)
LEMMA PutIsTree ==
    ASSUME NEW t, IsTree(t), NEW at \in DOMAIN t, NEW k \in Texts, NEW node,
           IsContainer(t[at]),
           t[at].type = "array" =>
              \E n \in Nat : Keys(t, at) = {<<i>> : i \in 1..n} /\ k = <<n + 1>>,
           t[at].type = "object" => k # Empty
    PROVE  IsTree(Put(t, Append(at, k), node))
<1> DEFINE x == Append(at, k)
<1> DEFINE u == Put(t, x, node)
<1>1. HasPaths(t) /\ HasContainers(t) /\ HasItems(t)  BY DEF IsTree
<1>2. at \in Paths /\ DOMAIN t \subseteq Paths  BY <1>1 DEF HasPaths
<1>3. x \in Paths /\ Front(x) = at  BY <1>2, ItemPath
<1>4. /\ HasPaths(u) /\ x \in DOMAIN u /\ u[x] = node /\ at \in DOMAIN u \ {x}
      /\ \A q : q \in DOMAIN u <=> q = x \/ (q \in DOMAIN t /\ ~IsPrefix(x, q))
      /\ \A q \in DOMAIN u \ {x} : u[q] = t[q]
  BY <1>1, PutIs
<1>5. /\ Keys(u, x) = {} /\ Keys(u, at) = Keys(t, at) \cup {k}
      /\ \A q \in DOMAIN u \ {x, at} : Keys(u, q) = Keys(t, q)
  BY PutKeys
<1> HIDE DEF u, x
<1>6. HasContainers(u)
  <2>1. SUFFICES ASSUME NEW q \in DOMAIN u \ {Root}
                 PROVE  Front(q) \in DOMAIN u /\ IsContainer(u[Front(q)])
    BY DEF HasContainers
  <2>2. CASE q = x  BY <1>3, <1>4, <2>2
  <2>3. CASE q # x
    <3>1. q \in DOMAIN t /\ ~IsPrefix(x, q)  BY <1>4, <2>3
    <3>2. Front(q) \in DOMAIN t /\ IsContainer(t[Front(q)])  BY <1>1, <3>1 DEF HasContainers
    <3>3. /\ Front(q) \in Paths /\ Last(q) \in Texts /\ q = Append(Front(q), Last(q))
      BY <1>2, <3>1, ParentPath
    <3>4. ~IsPrefix(x, Front(q)) /\ x # Front(q)
      <4>1. IsPrefix(x, Front(q)) => IsPrefix(x, q)  BY <1>3, <3>3, PrefixOfItem
      <4>2. IsPrefix(x, x)  BY <1>3, PrefixOrder
      <4> QED  BY <3>1, <4>1, <4>2
    <3> QED  BY <1>4, <3>2, <3>4
  <2> QED  BY <2>2, <2>3
<1>7. HasItems(u)
  <2>1. SUFFICES ASSUME NEW q \in DOMAIN u
                 PROVE  /\ u[q].type = "array" =>
                             \E n \in Nat : Keys(u, q) = {<<i>> : i \in 1..n}
                        /\ u[q].type = "object" => Empty \notin Keys(u, q)
    BY DEF HasItems
  <2>2. CASE q = x
    <3>1. Keys(u, q) = {}  BY <1>5, <2>2
    <3>2. {} = {<<i>> : i \in 1..0} /\ 0 \in Nat  OBVIOUS
    <3> QED  BY <3>1, <3>2
  <2>3. CASE q = at
    <3>1. u[q] = t[q] /\ Keys(u, q) = Keys(t, q) \cup {k}  BY <1>4, <1>5, <2>3
    <3>2. ASSUME u[q].type = "array"
          PROVE  \E n \in Nat : Keys(u, q) = {<<i>> : i \in 1..n}
      <4>1. PICK n \in Nat : Keys(t, at) = {<<i>> : i \in 1..n} /\ k = <<n + 1>>
        BY <2>3, <3>1, <3>2
      <4>2. 1..(n + 1) = (1..n) \cup {n + 1} /\ n + 1 \in Nat  OBVIOUS
      <4>3. {<<i>> : i \in 1..(n + 1)} = {<<i>> : i \in 1..n} \cup {<<n + 1>>}  BY <4>2
      <4> QED  BY <2>3, <3>1, <4>1, <4>2, <4>3
    <3>3. ASSUME u[q].type = "object" PROVE Empty \notin Keys(u, q)
      <4>1. Empty \notin Keys(t, q)  BY <1>1, <2>3, <3>1, <3>3 DEF HasItems
      <4> QED  BY <2>3, <3>1, <3>3, <4>1
    <3> QED  BY <3>2, <3>3
  <2>4. CASE q \notin {x, at}
    <3>1. q \in DOMAIN t /\ u[q] = t[q] /\ Keys(u, q) = Keys(t, q)  BY <1>4, <1>5, <2>4
    <3> QED  BY <1>1, <3>1 DEF HasItems
  <2> QED  BY <2>2, <2>3, <2>4
<1> QED  BY <1>4, <1>6, <1>7 DEF IsTree, u, x

(* What is put in the place of the root is a tree. *)
LEMMA PutAtRoot ==
    ASSUME NEW t, HasPaths(t), NEW node
    PROVE  /\ DOMAIN Put(t, Root, node) = {Root} /\ Put(t, Root, node)[Root] = node
           /\ IsTree(Put(t, Root, node))
<1> DEFINE u == Put(t, Root, node)
<1>1. \A q \in DOMAIN t : IsPrefix(Root, q)  BY PrefixOrder DEF HasPaths
<1>2. DOMAIN u = {Root} /\ u[Root] = node  BY <1>1 DEF Put
<1> HIDE DEF u
<1>3. HasPaths(u) /\ HasContainers(u)  BY <1>2, RootIsPath DEF HasPaths, HasContainers
<1>4. Keys(u, Root) = {}  BY <1>2 DEF Keys
<1>5. {} = {<<i>> : i \in 1..0} /\ 0 \in Nat  OBVIOUS
<1>6. HasItems(u)  BY <1>2, <1>4, <1>5 DEF HasItems
<1> QED  BY <1>2, <1>3, <1>6 DEF IsTree, u

(* Copying nodes changes no container into anything else. *)
LEMMA CopiedIsTree ==
    ASSUME NEW t, IsTree(t), NEW u, DOMAIN u = DOMAIN t,
           \A q \in DOMAIN t : u[q] \in {t[q], CopyOfNode(t[q])}
    PROVE  /\ IsTree(u)
           /\ \A q \in DOMAIN t : u[q].type = t[q].type /\ Keys(u, q) = Keys(t, q)
<1>1. \A node : CopyOfNode(node).type = node.type  BY DEF CopyOfNode, Scalar
<1>2. \A q \in DOMAIN t : u[q].type = t[q].type  BY <1>1
<1>3. \A q : Keys(u, q) = Keys(t, q)  BY DEF Keys
<1>4. HasPaths(t) /\ HasContainers(t) /\ HasItems(t)  BY DEF IsTree
<1>5. HasPaths(u)  BY <1>4 DEF HasPaths
<1>6. HasContainers(u)  BY <1>2, <1>4 DEF HasContainers, IsContainer
<1>7. HasItems(u)  BY <1>2, <1>3, <1>4 DEF HasItems
<1> QED  BY <1>2, <1>3, <1>5, <1>6, <1>7 DEF IsTree

------------------------------------------------------------------------------
(* The parser                                                               *)

(* The stack is the chain of open containers of a tree. *)
IsOpen(t, stack) ==
    /\ stack \in Seq(Paths) /\ Len(stack) \in Nat \ {0} /\ stack[1] = Root
    /\ \A i \in 2..Len(stack) :
         /\ stack[i] \in DOMAIN t /\ IsContainer(t[stack[i]])
         /\ \/ i = 2 /\ stack[i] = Root
            \/ stack[i] # Root /\ Front(stack[i]) = stack[i - 1]

(* Its entries get deeper by one, the second perhaps not. *)
Deepens(stack) == \E d \in {1, 2} : \A i \in 2..Len(stack) : Len(stack[i]) = i - d

IsParser(p) ==
    /\ p = [root |-> p.root, stack |-> p.stack, name |-> p.name, threw |-> p.threw]
    /\ IsTree(p.root)
    /\ IsOpen(p.root, p.stack) /\ Deepens(p.stack)
    /\ p.name \in Texts

LEMMA Appended ==
    ASSUME NEW s \in Seq(Paths), NEW x \in Paths, NEW n \in Nat, Len(s) = n
    PROVE  /\ Append(s, x) \in Seq(Paths) /\ Len(Append(s, x)) = n + 1
           /\ Append(s, x)[n + 1] = x
           /\ \A i \in 1..n : Append(s, x)[i] = s[i]
  OBVIOUS

LEMMA LastOfStack ==
    ASSUME NEW t, IsTree(t), NEW stack, IsOpen(t, stack), Deepens(stack)
    PROVE  /\ Last(stack) \in DOMAIN t /\ Last(stack) \in Paths
           /\ \A i \in 1..Len(stack) : stack[i] \in Paths /\ Len(stack[i]) <= Len(Last(stack))
           /\ ~IsContainer(t[Last(stack)]) => Len(stack) = 1 /\ Last(stack) = Root
<1>1. stack \in Seq(Paths) /\ Len(stack) \in Nat \ {0} /\ stack[1] = Root  BY DEF IsOpen
<1>2. Root \in DOMAIN t /\ DOMAIN t \subseteq Paths  BY DEF IsTree, HasPaths
<1>3. Last(stack) = stack[Len(stack)]  BY DEF Last
<1>4. ASSUME Len(stack) # 1 PROVE Last(stack) \in DOMAIN t /\ IsContainer(t[Last(stack)])
  <2>1. \A n \in Nat \ {0} : n # 1 => n \in 2..n  OBVIOUS
  <2>2. Len(stack) \in 2..Len(stack)  BY <1>1, <1>4, <2>1, Zenon
  <2> QED  BY <1>3, <2>2 DEF IsOpen
<1>5. Last(stack) \in DOMAIN t  BY <1>1, <1>2, <1>3, <1>4
<1>6. ASSUME NEW i \in 1..Len(stack)
      PROVE  stack[i] \in Paths /\ Len(stack[i]) <= Len(Last(stack))
  <2>1. stack[i] \in Paths  BY <1>1
  <2>2. Len(Root) = 0 /\ Len(Last(stack)) \in Nat  BY <1>2, <1>5, RootIsPath, PrefixOrder
  <2>3. PICK d \in {1, 2} : \A j \in 2..Len(stack) : Len(stack[j]) = j - d  BY DEF Deepens
  <2>4. CASE i = 1  BY <1>1, <2>1, <2>2, <2>4
  <2>5. CASE i # 1  BY <1>1, <1>3, <2>1, <2>3, <2>5
  <2> QED  BY <2>4, <2>5
<1> QED  BY <1>1, <1>2, <1>3, <1>4, <1>5, <1>6

(* What is put in below the container on top of the stack closes nothing. *)
LEMMA PutStaysOpen ==
    ASSUME NEW t, IsTree(t), NEW stack, IsOpen(t, stack), Deepens(stack),
           NEW k \in Texts, NEW node, IsContainer(t[Last(stack)])
    PROVE  LET x == Append(Last(stack), k)
               u == Put(t, x, node)
           IN /\ IsOpen(u, stack)
              /\ IsContainer(node) => IsOpen(u, Append(stack, x)) /\ Deepens(Append(stack, x))
<1> DEFINE at == Last(stack)
<1> DEFINE x == Append(at, k)
<1> DEFINE u == Put(t, x, node)
<1> DEFINE n == Len(stack)
<1> DEFINE s == Append(stack, x)
<1>1. /\ at \in DOMAIN t /\ at \in Paths
      /\ \A i \in 1..n : stack[i] \in Paths /\ Len(stack[i]) <= Len(at)
  BY LastOfStack
<1>2. stack \in Seq(Paths) /\ n \in Nat \ {0} /\ stack[1] = Root /\ at = stack[n]
  BY DEF IsOpen, Last
<1>3. x \in Paths /\ x # Root /\ Front(x) = at /\ Len(x) = Len(at) + 1  BY <1>1, ItemPath
<1>4. HasPaths(t)  BY DEF IsTree
<1>5. /\ x \in DOMAIN u /\ u[x] = node
      /\ \A q : q \in DOMAIN u <=> q = x \/ (q \in DOMAIN t /\ ~IsPrefix(x, q))
      /\ \A q \in DOMAIN u \ {x} : u[q] = t[q]
  BY <1>1, <1>4, PutIs
<1>6. /\ s \in Seq(Paths) /\ Len(s) = n + 1 /\ s[n + 1] = x
      /\ \A i \in 1..n : s[i] = stack[i]
  BY <1>2, <1>3
<1> HIDE DEF u, x, at, s, n
<1>7. ASSUME NEW i \in 1..n PROVE ~IsPrefix(x, stack[i]) /\ stack[i] # x
  <2>1. stack[i] \in Paths /\ Len(stack[i]) <= Len(at) /\ Len(x) = Len(at) + 1
    BY <1>1, <1>3
  <2>2. Len(stack[i]) \in Nat /\ Len(at) \in Nat  BY <1>1, <2>1, PrefixOrder
  <2>3. IsPrefix(x, stack[i]) => Len(x) <= Len(stack[i])  BY <1>3, <2>1, PrefixOrder
  <2> QED  BY <2>1, <2>2, <2>3
<1>8. ASSUME NEW i \in 2..n
      PROVE  /\ stack[i] \in DOMAIN u /\ IsContainer(u[stack[i]])
             /\ (i = 2 /\ stack[i] = Root) \/ (stack[i] # Root /\ Front(stack[i]) = stack[i - 1])
  <2>1. /\ stack[i] \in DOMAIN t /\ IsContainer(t[stack[i]])
        /\ (i = 2 /\ stack[i] = Root) \/ (stack[i] # Root /\ Front(stack[i]) = stack[i - 1])
    BY DEF IsOpen, n
  <2>2. i \in 1..n  BY <1>2
  <2>3. stack[i] \in DOMAIN u /\ u[stack[i]] = t[stack[i]]  BY <1>5, <1>7, <2>1, <2>2
  <2> QED  BY <2>1, <2>3
<1>9. IsOpen(u, stack)
  <2>1. Len(stack) = n  BY DEF n
  <2> QED  BY <1>2, <1>8, <2>1 DEF IsOpen
<1>10. ASSUME IsContainer(node) PROVE IsOpen(u, s) /\ Deepens(s)
  <2>1. ASSUME NEW i \in 2..(n + 1)
        PROVE  /\ s[i] \in DOMAIN u /\ IsContainer(u[s[i]])
               /\ (i = 2 /\ s[i] = Root) \/ (s[i] # Root /\ Front(s[i]) = s[i - 1])
    <3>1. CASE i = n + 1
      <4>1. s[i] = x /\ i - 1 = n /\ n \in 1..n  BY <1>2, <1>6, <3>1
      <4>2. s[i - 1] = at  BY <1>2, <1>6, <4>1
      <4> QED  BY <1>3, <1>5, <1>10, <4>1, <4>2
    <3>2. CASE i # n + 1
      <4>1. i \in 2..n /\ i \in 1..n /\ i - 1 \in 1..n  BY <1>2, <3>2
      <4>2. s[i] = stack[i] /\ s[i - 1] = stack[i - 1]  BY <1>6, <4>1
      <4> QED  BY <1>8, <4>1, <4>2
    <3> QED  BY <3>1, <3>2
  <2>2. Len(s) \in Nat \ {0} /\ s[1] = Root  BY <1>2, <1>6
  <2>3. IsOpen(u, s)  BY <1>6, <2>1, <2>2 DEF IsOpen
  <2>4. PICK d \in {1, 2} : \A i \in 2..n : Len(stack[i]) = i - d  BY DEF Deepens, n
  <2>5. CASE n = 1
    <3>1. Len(s) = 2 /\ s[2] = x /\ at = Root  BY <1>2, <1>6, <2>5
    <3>2. Len(x) = 1  BY <1>3, <3>1, RootIsPath
    <3>3. \A i \in 2..Len(s) : i = 2  BY <3>1
    <3>4. Len(s[2]) = 2 - 1  BY <3>1, <3>2
    <3>5. \A i \in 2..Len(s) : Len(s[i]) = i - 1  BY <3>3, <3>4, Zenon
    <3> QED  BY <2>3, <3>5 DEF Deepens
  <2>6. CASE n # 1
    <3>1. Len(at) = n - d  BY <1>2, <2>4, <2>6
    <3>2. \A i \in 2..Len(s) : Len(s[i]) = i - d
      <4>1. SUFFICES ASSUME NEW i \in 2..(n + 1) PROVE Len(s[i]) = i - d  BY <1>6
      <4>2. CASE i = n + 1  BY <1>2, <1>3, <1>6, <3>1, <4>2
      <4>3. CASE i # n + 1
        <5>1. i \in 2..n /\ i \in 1..n  BY <1>2, <4>3
        <5> QED  BY <1>6, <2>4, <5>1
      <4> QED  BY <4>2, <4>3
    <3> QED  BY <2>3, <3>2 DEF Deepens
  <2> QED  BY <2>5, <2>6
<1> QED  BY <1>9, <1>10 DEF u, x, at, s

(* What takes the place of the root is alone, and open if it is a container. *)
LEMMA RootIsOpen ==
    ASSUME NEW t, HasPaths(t), NEW node, NEW stack, IsOpen(t, stack), Len(stack) = 1
    PROVE  LET u == Put(t, Root, node)
           IN /\ IsOpen(u, stack) /\ Deepens(stack)
              /\ IsContainer(node) =>
                   IsOpen(u, Append(stack, Root)) /\ Deepens(Append(stack, Root))
<1> DEFINE u == Put(t, Root, node)
<1> DEFINE s == Append(stack, Root)
<1>1. DOMAIN u = {Root} /\ u[Root] = node  BY PutAtRoot
<1>2. stack \in Seq(Paths) /\ stack[1] = Root  BY DEF IsOpen
<1>3. s \in Seq(Paths) /\ Len(s) = 2 /\ s[1] = Root /\ s[2] = Root
  <2>1. Root \in Paths /\ Len(stack) = 1  BY RootIsPath
  <2>2. /\ s \in Seq(Paths) /\ Len(s) = 1 + 1 /\ s[1 + 1] = Root
        /\ \A i \in 1..1 : s[i] = stack[i]
    BY <1>2, <2>1, Appended
  <2> HIDE DEF s
  <2> QED  BY <1>2, <2>2
<1> HIDE DEF u, s
<1>4. IsOpen(u, stack) /\ Deepens(stack)  BY <1>2 DEF IsOpen, Deepens
<1>5. IsContainer(node) => IsOpen(u, s)  BY <1>1, <1>3 DEF IsOpen
<1>6. \A i \in 2..Len(s) : Len(s[i]) = i - 2  BY <1>3, RootIsPath
<1>7. Deepens(s)  BY <1>6 DEF Deepens
<1> QED  BY <1>4, <1>5, <1>7 DEF u, s

(* Closing the last container. *)
LEMMA FrontIsOpen ==
    ASSUME NEW t, NEW stack, IsOpen(t, stack), Deepens(stack), Len(stack) > 1
    PROVE  IsOpen(t, Front(stack)) /\ Deepens(Front(stack))
<1> DEFINE n == Len(stack) - 1
<1> DEFINE s == Front(stack)
<1>1. stack \in Seq(Paths) /\ Len(stack) \in Nat /\ stack[1] = Root  BY DEF IsOpen
<1>2. n \in Nat \ {0} /\ n <= Len(stack) /\ s = SubSeq(stack, 1, n)  BY <1>1 DEF Front
<1> HIDE DEF n, s
<1>3. s \in Seq(Paths) /\ Len(s) = n /\ \A i \in 1..n : s[i] = stack[i]  BY <1>1, <1>2
<1>4. \A i \in 2..n : i \in 2..Len(stack) /\ i \in 1..n /\ i - 1 \in 1..n  BY <1>1, <1>2
<1>5. \A i \in 2..n : s[i] = stack[i] /\ s[i - 1] = stack[i - 1]  BY <1>3, <1>4
<1>6. s[1] = Root  BY <1>1, <1>2, <1>3
<1>7. IsOpen(t, s)  BY <1>2, <1>3, <1>4, <1>5, <1>6 DEF IsOpen
<1>8. PICK d \in {1, 2} : \A i \in 2..Len(stack) : Len(stack[i]) = i - d  BY DEF Deepens
<1>9. \A i \in 2..Len(s) : Len(s[i]) = i - d  BY <1>3, <1>4, <1>5, <1>8
<1> QED  BY <1>7, <1>9 DEF Deepens, s

(* The copying of nodes closes nothing either. *)
LEMMA CopiedIsOpen ==
    ASSUME NEW t, IsTree(t), NEW u, DOMAIN u = DOMAIN t,
           \A q \in DOMAIN t : u[q] \in {t[q], CopyOfNode(t[q])},
           NEW stack, IsOpen(t, stack)
    PROVE  IsOpen(u, stack)
<1>1. \A q \in DOMAIN t : u[q].type = t[q].type  BY CopiedIsTree
<1> QED  BY <1>1 DEF IsOpen, IsContainer

------------------------------------------------------------------------------
(* Every event                                                              *)

(* A parser that differs from another in what it has just built. *)
LEMMA PlacedIs ==
    ASSUME NEW p, IsParser(p), NEW t, NEW x \in Paths, NEW new,
           IsTree(Put(t, x, new)),
           IsOpen(Put(t, x, new), p.stack),
           IsContainer(new) =>
              /\ IsOpen(Put(t, x, new), Append(p.stack, x))
              /\ Deepens(Append(p.stack, x))
    PROVE  /\ IsParser(Placed(p, t, x, new))
           /\ IsParser([Placed(p, t, x, new) EXCEPT !.name = Empty])
<1> DEFINE u == Put(t, x, new)
<1> DEFINE stack == IF IsContainer(new) THEN Append(p.stack, x) ELSE p.stack
<1>1. p = [root |-> p.root, stack |-> p.stack, name |-> p.name, threw |-> p.threw]
  BY DEF IsParser
<1>2. IsOpen(u, stack) /\ Deepens(stack)  BY DEF IsParser
<1>3. Placed(p, t, x, new) = [root |-> u, stack |-> stack, name |-> p.name, threw |-> p.threw]
  <2>1. Placed(p, t, x, new) = [p EXCEPT !.root = u, !.stack = stack]
    BY <1>1 DEF Placed
  <2> HIDE DEF u, stack
  <2> QED  BY <1>1, <2>1
<1> DEFINE r == [root |-> u, stack |-> stack, name |-> p.name, threw |-> p.threw]
<1>4. [r EXCEPT !.name = Empty] =
        [root |-> u, stack |-> stack, name |-> Empty, threw |-> p.threw]
  OBVIOUS
<1>5. p.name \in Texts /\ Empty \in Texts  BY RootIsPath DEF IsParser
<1>6. IsTree(u)  OBVIOUS
<1> HIDE DEF u, stack
<1>7. IsParser(r)  BY <1>2, <1>5, <1>6 DEF IsParser
<1>8. IsParser([root |-> u, stack |-> stack, name |-> Empty, threw |-> p.threw])
  BY <1>2, <1>5, <1>6 DEF IsParser
<1> QED  BY <1>3, <1>4, <1>7, <1>8

LEMMA ThrowIs ==
    ASSUME NEW p, IsParser(p), NEW b
    PROVE  IsParser([p EXCEPT !.threw = b])
<1>1. p = [root |-> p.root, stack |-> p.stack, name |-> p.name, threw |-> p.threw]
  BY DEF IsParser
<1> DEFINE r == [p EXCEPT !.threw = b]
<1>2. r = [root |-> p.root, stack |-> p.stack, name |-> p.name, threw |-> b]  BY <1>1
<1>3. r.root = p.root /\ r.stack = p.stack /\ r.name = p.name /\ r.threw = b  BY <1>2
<1> HIDE DEF r
<1> QED  BY <1>2, <1>3 DEF IsParser, r

LEMMA AppendToArrayIs ==
    ASSUME NEW p, IsParser(p), NEW new, p.root[Last(p.stack)].type = "array"
    PROVE  \A r \in AppendToArray(p, Last(p.stack), new) : IsParser(r)
<1> DEFINE at == Last(p.stack)
<1> DEFINE n == Cardinality(Keys(p.root, at))
<1> DEFINE moved == [q \in DOMAIN p.root |->
                       IF IsPrefix(at, q) THEN CopyOfNode(p.root[q]) ELSE p.root[q]]
<1> DEFINE x == Append(at, <<n + 1>>)
<1>1. IsTree(p.root) /\ IsOpen(p.root, p.stack) /\ Deepens(p.stack)  BY DEF IsParser
<1>2. at \in DOMAIN p.root /\ at \in Paths  BY <1>1, LastOfStack
<1>3. n \in Nat /\ Keys(p.root, at) = {<<i>> : i \in 1..n}
  <2>1. PICK m \in Nat : Keys(p.root, at) = {<<i>> : i \in 1..m}
    BY <1>1, <1>2 DEF IsTree, HasItems
  <2>2. n = m  BY <2>1, CardinalityOfItems
  <2> QED  BY <2>1, <2>2
<1> HIDE DEF n
<1>4. <<n + 1>> \in Texts  BY <1>3 DEF Texts
<1>5. x \in Paths  BY <1>2, <1>4, ItemPath
<1>6. ASSUME NEW t, DOMAIN t = DOMAIN p.root,
             \A q \in DOMAIN p.root : t[q] \in {p.root[q], CopyOfNode(p.root[q])}
      PROVE  IsParser(Placed(p, t, x, new))
  <2>1. /\ IsTree(t)
        /\ \A q \in DOMAIN p.root :
             t[q].type = p.root[q].type /\ Keys(t, q) = Keys(p.root, q)
    BY <1>1, <1>6, CopiedIsTree
  <2>2. IsOpen(t, p.stack)  BY <1>1, <1>6, CopiedIsOpen
  <2>3. at \in DOMAIN t /\ t[at].type = "array" /\ Keys(t, at) = {<<i>> : i \in 1..n}
    BY <1>2, <1>3, <1>6, <2>1
  <2>4. IsContainer(t[at])  BY <2>3 DEF IsContainer, ContainerTypes
  <2>5. t[at].type # "object"  BY <2>3
  <2>6. IsTree(Put(t, x, new))  BY <1>3, <1>4, <2>1, <2>3, <2>4, <2>5, PutIsTree
  <2>7. /\ IsOpen(Put(t, x, new), p.stack)
        /\ IsContainer(new) =>
             IsOpen(Put(t, x, new), Append(p.stack, x)) /\ Deepens(Append(p.stack, x))
    BY <1>1, <1>4, <2>1, <2>2, <2>4, PutStaysOpen
  <2> QED  BY <1>5, <2>6, <2>7, PlacedIs
<1>7. IsParser(Placed(p, p.root, x, new))  BY <1>6
<1>8. IsParser(Placed(p, moved, x, new))
  <2>1. DOMAIN moved = DOMAIN p.root  OBVIOUS
  <2>2. \A q \in DOMAIN p.root : moved[q] \in {p.root[q], CopyOfNode(p.root[q])}  OBVIOUS
  <2> HIDE DEF moved
  <2> QED  BY <1>6, <2>1, <2>2
<1>9. IsParser(Throw(p))  BY ThrowIs DEF Throw
<1> HIDE DEF moved, x
<1>10. AppendToArray(p, at, new) \subseteq
         {Placed(p, p.root, x, new), Placed(p, moved, x, new), Throw(p)}
  BY DEF AppendToArray, moved, x, n
<1> QED  BY <1>7, <1>8, <1>9, <1>10

LEMMA AppendToObjectIs ==
    ASSUME NEW p, IsParser(p), NEW new, p.root[Last(p.stack)].type = "object"
    PROVE  \A r \in AppendToObject(p, Last(p.stack), new) : IsParser(r)
<1> DEFINE at == Last(p.stack)
<1> DEFINE x == Append(at, p.name)
<1>1. IsTree(p.root) /\ IsOpen(p.root, p.stack) /\ Deepens(p.stack) /\ p.name \in Texts
  BY DEF IsParser
<1>2. at \in DOMAIN p.root /\ at \in Paths  BY <1>1, LastOfStack
<1>3. x \in Paths  BY <1>1, <1>2, ItemPath
<1>4. IsContainer(p.root[at]) /\ p.root[at].type # "array"
  BY DEF IsContainer, ContainerTypes
<1>5. CASE p.name = Empty
  <2>1. IsParser(Throw(p))  BY ThrowIs DEF Throw
  <2> QED  BY <1>5, <2>1 DEF AppendToObject
<1>6. CASE p.name # Empty
  <2>1. IsTree(Put(p.root, x, new))  BY <1>1, <1>2, <1>4, <1>6, PutIsTree
  <2>2. /\ IsOpen(Put(p.root, x, new), p.stack)
        /\ IsContainer(new) =>
             IsOpen(Put(p.root, x, new), Append(p.stack, x)) /\ Deepens(Append(p.stack, x))
    BY <1>1, <1>4, PutStaysOpen
  <2>3. IsParser([Placed(p, p.root, x, new) EXCEPT !.name = Empty])
    BY <1>3, <2>1, <2>2, PlacedIs
  <2> QED  BY <1>6, <2>3 DEF AppendToObject
<1> QED  BY <1>5, <1>6

(* append_value keeps the parser in order. *)
LEMMA AppendValueIs ==
    ASSUME NEW p, IsParser(p), NEW new
    PROVE  \A r \in AppendValue(p, new) : IsParser(r)
<1> DEFINE at == Last(p.stack)
<1>1. IsTree(p.root) /\ IsOpen(p.root, p.stack) /\ Deepens(p.stack)  BY DEF IsParser
<1>2. CASE p.root[at].type = "array"
  BY <1>2, AppendToArrayIs DEF AppendValue
<1>3. CASE p.root[at].type = "object"
  BY <1>3, AppendToObjectIs DEF AppendValue
<1>4. CASE p.root[at].type \notin {"array", "object"}
  <2>1. Len(p.stack) = 1 /\ at = Root  BY <1>1, <1>4, LastOfStack DEF IsContainer, ContainerTypes
  <2>2. HasPaths(p.root) /\ Root \in Paths  BY <1>1, RootIsPath DEF IsTree
  <2>3. IsTree(Put(p.root, at, new))  BY <2>1, <2>2, PutAtRoot
  <2>4. /\ IsOpen(Put(p.root, at, new), p.stack)
        /\ IsContainer(new) =>
             IsOpen(Put(p.root, at, new), Append(p.stack, at)) /\ Deepens(Append(p.stack, at))
    BY <1>1, <2>1, <2>2, RootIsOpen
  <2>5. IsParser(Placed(p, p.root, at, new))  BY <2>1, <2>2, <2>3, <2>4, PlacedIs
  <2>6. AppendValue(p, new) = {Placed(p, p.root, at, new)}  BY <1>4 DEF AppendValue
  <2> QED  BY <2>5, <2>6
<1> QED  BY <1>2, <1>3, <1>4

LEMMA CloseIs ==
    ASSUME NEW p, IsParser(p), NEW type
    PROVE  \A r \in Close(p, type) : IsParser(r)
<1>1. /\ p = [root |-> p.root, stack |-> p.stack, name |-> p.name, threw |-> p.threw]
      /\ IsTree(p.root) /\ IsOpen(p.root, p.stack) /\ Deepens(p.stack) /\ p.name \in Texts
  BY DEF IsParser
<1> DEFINE stack == IF Len(p.stack) > 1 THEN Front(p.stack) ELSE p.stack
<1>2. IsOpen(p.root, stack) /\ Deepens(stack)  BY <1>1, FrontIsOpen
<1>3. [p EXCEPT !.stack = stack] =
        [root |-> p.root, stack |-> stack, name |-> p.name, threw |-> p.threw]
  BY <1>1
<1> DEFINE r == [root |-> p.root, stack |-> stack, name |-> p.name, threw |-> p.threw]
<1>4. IsParser(Throw(p))  BY ThrowIs DEF Throw
<1>5. Close(p, type) \subseteq {Throw(p), [p EXCEPT !.stack = stack]}  BY DEF Close
<1> HIDE DEF stack
<1>6. IsParser(r)  BY <1>1, <1>2 DEF IsParser
<1> QED  BY <1>3, <1>4, <1>5, <1>6

LEMMA SetNameIs ==
    ASSUME NEW p, IsParser(p), NEW text \in Texts
    PROVE  \A r \in SetName(p, text) : IsParser(r)
<1>1. /\ p = [root |-> p.root, stack |-> p.stack, name |-> p.name, threw |-> p.threw]
      /\ IsTree(p.root) /\ IsOpen(p.root, p.stack) /\ Deepens(p.stack)
  BY DEF IsParser
<1>2. [p EXCEPT !.name = text] =
        [root |-> p.root, stack |-> p.stack, name |-> text, threw |-> p.threw]
  BY <1>1
<1>3. IsParser([root |-> p.root, stack |-> p.stack, name |-> text, threw |-> p.threw])
  BY <1>1 DEF IsParser
<1>4. IsParser(Throw(p))  BY ThrowIs DEF Throw
<1> QED  BY <1>2, <1>3, <1>4 DEF SetName

LEMMA AcceptIs ==
    ASSUME NEW p, IsParser(p), NEW e \in AnyEvents
    PROVE  \A r \in Accept(p, e) : IsParser(r)
<1>1. CASE e.op = "value"  BY <1>1, AppendValueIs DEF Accept
<1>2. CASE e.op = "begin"  BY <1>2, AppendValueIs DEF Accept
<1>3. CASE e.op = "end"  BY <1>3, CloseIs DEF Accept
<1>4. CASE e.op = "name"
  <2>1. e.text \in Texts  BY <1>4, EventAssumption DEF Texts
  <2> QED  BY <1>4, <2>1, SetNameIs DEF Accept
<1> QED  BY <1>1, <1>2, <1>3, <1>4, EventAssumption

LEMMA NewParserIs == IsParser(NewParser)
<1> DEFINE t == Lone(Scalar("void", 0))
<1>1. DOMAIN t = {Root} /\ t[Root].type = "void"  BY DEF Lone, Scalar
<1> HIDE DEF t
<1>2. HasPaths(t) /\ HasContainers(t) /\ HasItems(t)
  BY <1>1, RootIsPath DEF HasPaths, HasContainers, HasItems
<1>3. <<Root>> \in Seq(Paths) /\ Len(<<Root>>) = 1 /\ <<Root>>[1] = Root  BY RootIsPath
<1>4. IsOpen(t, <<Root>>) /\ Deepens(<<Root>>)  BY <1>3 DEF IsOpen, Deepens
<1> QED  BY <1>2, <1>4, RootIsPath DEF NewParser, IsParser, IsTree, t

(* After any events, in any order and with any of them throwing, the stack   *)
(* of a parser_to_value is the chain of its open containers and what it has  *)
(* built is a tree.                                                          *)
THEOREM ParserOrder == ParserSpec => []IsParser(parser)
<1>1. ParserInit => IsParser(parser)  BY NewParserIs DEF ParserInit
<1>2. ASSUME IsParser(parser), [\E e \in AnyEvents : ToParser(e)]_parser
      PROVE  IsParser(parser)'
  <2>1. CASE UNCHANGED parser  BY <1>2, <2>1
  <2>2. ASSUME NEW e \in AnyEvents, ToParser(e) PROVE IsParser(parser')
    <3>1. IsParser([parser EXCEPT !.threw = FALSE])  BY <1>2, ThrowIs
    <3> QED  BY <2>2, <3>1, AcceptIs DEF ToParser
  <2> QED  BY <1>2, <2>1, <2>2
<1> QED  BY <1>1, <1>2, PTL DEF ParserSpec

(* What is meant by it is what the run checks. *)
LEMMA ParserIsSound ==
    ASSUME NEW p, IsParser(p)
    PROVE  IsChain(p) /\ IsValue(p.root)
<1>1. IsTree(p.root) /\ IsOpen(p.root, p.stack)  BY DEF IsParser
<1>2. p.stack # <<>> /\ Head(p.stack) = Root
  <2>1. p.stack \in Seq(Paths) /\ Len(p.stack) \in Nat \ {0} /\ p.stack[1] = Root
    BY <1>1 DEF IsOpen
  <2> QED  BY <2>1
<1>3. IsChain(p)  BY <1>1, <1>2 DEF IsChain, IsOpen
<1>4. HasPaths(p.root) /\ HasContainers(p.root) /\ HasItems(p.root)  BY <1>1 DEF IsTree
<1>5. ASSUME NEW q \in DOMAIN p.root, p.root[q].type = "array"
      PROVE  Keys(p.root, q) = {<<i>> : i \in 1..Cardinality(Keys(p.root, q))}
  <2>1. PICK n \in Nat : Keys(p.root, q) = {<<i>> : i \in 1..n}  BY <1>4, <1>5 DEF HasItems
  <2>2. Cardinality(Keys(p.root, q)) = n  BY <2>1, CardinalityOfItems
  <2> QED  BY <2>1, <2>2
<1>6. IsValue(p.root)
  BY <1>4, <1>5 DEF IsValue, HasPaths, HasContainers, HasItems
<1> QED  BY <1>3, <1>6

(* No order of events, with any of them throwing, breaks the parser: its     *)
(* stack of pointers stays the chain of open containers, no object has a     *)
(* member without a name and no array a gap.                                 *)
THEOREM ParserNeverBroken == ParserSpec => []ParserSound
<1>1. IsParser(parser) => ParserSound
  BY ParserIsSound DEF ParserSound, StackIsChain, RootIsValue
<1> QED  BY <1>1, ParserOrder, PTL

------------------------------------------------------------------------------
(* Encoding and decoding                                                    *)

Carries == ParamTypes \ {"char"}

LEMMA LoneIs ==
    ASSUME NEW node
    PROVE  /\ Lone(node)[Root] = node /\ TypeOf(Lone(node)) = node.type
           /\ DOMAIN Lone(node) = {Root}
  BY DEF Lone, TypeOf

LEMMA ScalarIs ==
    ASSUME NEW type, NEW bits
    PROVE  /\ Scalar(type, bits).type = type /\ Scalar(type, bits).bits = bits
           /\ Scalar(type, bits).text = Empty
           /\ Value(type, bits).type = type /\ Value(type, bits).bits = bits
  BY DEF Scalar, Value

(* What an argument is. *)
LEMMA ArgumentIs ==
    ASSUME NEW type \in ParamTypes, NEW x, HasType(type, x)
    PROVE  /\ x = Lone(x[Root])
           /\ x[Root].type = IF type = "narrow" THEN "unsigned" ELSE type
           /\ type # "string" => x[Root] = Scalar(x[Root].type, x[Root].bits)
           /\ TypeOf(x) = x[Root].type
           /\ type = "string" => x[Root] = String(x[Root].text) /\ x[Root].text \in Seq(Nat)
<1>1. CASE type = "narrow"
  <2>1. x = Lone(Scalar("unsigned", x[Root].bits))  BY <1>1 DEF HasType
  <2>2. x[Root] = Scalar("unsigned", x[Root].bits)  BY <2>1, LoneIs
  <2>3. x[Root].type = "unsigned"  BY <2>2, ScalarIs
  <2> QED  BY <1>1, <2>1, <2>2, <2>3 DEF TypeOf
<1>2. CASE type = "string"
  <2>1. x = Lone(String(x[Root].text)) /\ x[Root].text \in Seq(Nat)  BY <1>2 DEF HasType
  <2>2. x[Root] = String(x[Root].text)  BY <2>1, LoneIs
  <2>3. x[Root].type = "string"  BY <2>2 DEF String
  <2> QED  BY <1>2, <2>1, <2>2, <2>3 DEF TypeOf
<1>3. CASE type \notin {"narrow", "string"}
  <2>1. x = Lone(Scalar(type, x[Root].bits)) /\ IsScalar(Value(type, x[Root].bits))
    BY <1>3 DEF HasType
  <2>2. x[Root] = Scalar(type, x[Root].bits)  BY <2>1, LoneIs
  <2>3. x[Root].type = type  BY <2>2, ScalarIs
  <2> QED  BY <1>3, <2>1, <2>2, <2>3 DEF TypeOf
<1> QED  BY <1>1, <1>2, <1>3

(* A text that is cut is a text. *)
LEMMA CStringIs ==
    ASSUME NEW s \in Seq(Nat)
    PROVE  CString(s) \in Seq(Nat)
<1> DEFINE before == {n \in 1..Len(s) : \A i \in 1..n : s[i] # 0}
<1>1. Len(s) \in Nat  OBVIOUS
<1>2. IsFiniteSet(1..Len(s)) /\ Cardinality(1..Len(s)) <= Len(s)
  BY <1>1, FS_Interval
<1>3. before \in SUBSET (1..Len(s))  OBVIOUS
<1> HIDE DEF before
<1>4. IsFiniteSet(before) /\ Cardinality(before) <= Cardinality(1..Len(s))
  BY <1>2, <1>3, FS_Subset
<1>5. Cardinality(before) \in Nat /\ Cardinality(1..Len(s)) \in Nat
  BY <1>2, <1>4, FS_CardinalityType
<1>6. Cardinality(before) \in 0..Len(s)  BY <1>1, <1>2, <1>4, <1>5
<1>7. \A n \in 0..Len(s) : SubSeq(s, 1, n) \in Seq(Nat)  OBVIOUS
<1>8. CString(s) = SubSeq(s, 1, Cardinality(before))  BY DEF CString, before
<1> QED  BY <1>6, <1>7, <1>8

(* A lone value takes the place of the root of a new parser. *)
LEMMA EncodeIs ==
    ASSUME NEW x
    PROVE  Encode(x) = {CopyOrThrow(AsSent(x))}
<1> DEFINE void == Lone(Scalar("void", 0))
<1> DEFINE node == Cut(x[Root])
<1> HIDE DEF node
<1>2. Accept(NewParser, Leaf(node)) = AppendValue(NewParser, node)
  BY DEF Accept, Leaf, Event
<1>3. NewParser.root = void /\ NewParser.stack = <<Root>>  BY DEF NewParser
<1>4. Last(NewParser.stack) = Root  BY <1>3 DEF Last
<1>5. void[Root].type = "void"  BY LoneIs, ScalarIs
<1>6. AppendValue(NewParser, node) = {Placed(NewParser, void, Root, node)}
  BY <1>3, <1>4, <1>5 DEF AppendValue
<1>7. DOMAIN void = {Root}  BY LoneIs
<1>8. Put(void, Root, node) = Lone(node)
  <2>1. {q \in DOMAIN void : ~IsPrefix(Root, q)} \cup {Root} = {Root}  BY <1>7
  <2> HIDE DEF void
  <2> QED  BY <2>1 DEF Put, Lone
<1>9. /\ Placed(NewParser, void, Root, node).root = Lone(node)
      /\ Placed(NewParser, void, Root, node).threw = FALSE
  BY <1>8 DEF Placed, NewParser
<1> HIDE DEF void
<1> QED  BY <1>2, <1>6, <1>9 DEF Encode, AsSent, node

LEMMA CopyOfLone ==
    ASSUME NEW node
    PROVE  /\ node.type # "char" => CopyOrThrow(Lone(node)) = Lone(node)
           /\ node.type = "char" =>
                \/ CopyOrThrow(Lone(node)) = Thrown
                \/ CopyOrThrow(Lone(node)) \in {Lone(Scalar("char", 0)), Lone(Scalar("char", 1))}
<1> DEFINE t == Lone(node)
<1>1. t[Root] = node /\ DOMAIN t = {Root}  BY LoneIs
<1>2. CopyOf(t) = Lone(CopyOfNode(node))  BY <1>1 DEF CopyOf, Lone
<1>3. Unreadable(t) <=> node.type = "char" /\ CharOf(node) = {Throws}
  BY <1>1 DEF Unreadable
<1> HIDE DEF t
<1>4. CASE node.type # "char"
  BY <1>2, <1>3, <1>4 DEF CopyOrThrow, CopyOfNode, t
<1>5. CASE node.type = "char"
  <2>1. CharOf(node) = GetChar(Value("char", node.bits), 0)  BY DEF CharOf
  <2>2. CharOf(node) \in {{Value("char", 1)}, {Value("char", 0)}, {Throws}}
    BY <2>1, ScalarIs DEF GetChar
  <2>3. CASE CharOf(node) = {Throws}  BY <1>3, <1>5, <2>3 DEF CopyOrThrow, t
  <2>4. CASE CharOf(node) # {Throws}
    <3>1. CopyOrThrow(t) = Lone(CopyOfNode(node))  BY <1>2, <1>3, <2>4 DEF CopyOrThrow
    <3>2. PICK b \in {0, 1} : CharOf(node) = {Value("char", b)}  BY <2>2, <2>4
    <3>3. (CHOOSE c \in CharOf(node) : TRUE) = Value("char", b)  BY <3>2
    <3> DEFINE c == CHOOSE d \in CharOf(node) : TRUE
    <3>a. CopyOfNode(node) = Scalar("char", c.bits)  BY <1>5 DEF CopyOfNode
    <3>b. c = Value("char", b)  BY <3>3
    <3> HIDE DEF c
    <3>4. CopyOfNode(node) = Scalar("char", b)  BY <3>a, <3>b, ScalarIs
    <3> QED  BY <1>5, <3>1, <3>4 DEF t
  <2> QED  BY <2>3, <2>4
<1> QED  BY <1>4, <1>5

(* A value has the type of what it is sent for, and is it but for a NUL. *)
LEMMA AsSentIs ==
    ASSUME NEW type \in ParamTypes, NEW x, HasType(type, x)
    PROVE  /\ HasType(type, AsSent(x))
           /\ type # "string" => AsSent(x) = x
           /\ TypeOf(AsSent(x)) = x[Root].type
<1>1. /\ x = Lone(x[Root]) /\ x[Root].type = IF type = "narrow" THEN "unsigned" ELSE type
      /\ type = "string" => x[Root].text \in Seq(Nat)
      /\ TypeOf(x) = x[Root].type
  BY ArgumentIs
<1>2. CASE type = "string"
  <2> DEFINE text == CString(x[Root].text)
  <2>1. AsSent(x) = Lone(String(text))  BY <1>1, <1>2 DEF AsSent, Cut
  <2>2. text \in Seq(Nat)  BY <1>1, <1>2, CStringIs
  <2> HIDE DEF text
  <2>3. AsSent(x)[Root] = String(text)  BY <2>1, LoneIs
  <2>4. String(text).text = text /\ String(text).type = "string"  BY DEF String
  <2>5. HasType("string", AsSent(x))  BY <2>1, <2>2, <2>3, <2>4 DEF HasType
  <2> QED  BY <1>1, <1>2, <2>3, <2>4, <2>5 DEF TypeOf
<1>3. CASE type # "string"
  <2>1. x[Root].type # "string"  BY <1>1, <1>3
  <2>2. AsSent(x) = x  BY <1>1, <2>1 DEF AsSent, Cut
  <2> QED  BY <1>1, <1>3, <2>2
<1> QED  BY <1>2, <1>3

(* What has a type is no failure, and not the mark of one. *)
LEMMA TypedIs ==
    ASSUME NEW type \in ParamTypes, NEW x, HasType(type, x)
    PROVE  ~Failed(x) /\ x \notin {Thrown, Lost, NoResult, VoidTree}
<1>1. TypeOf(x) \in ParamTypes  BY ArgumentIs DEF ParamTypes
<1>2. /\ TypeOf(Thrown) = "throws" /\ TypeOf(Lost) = "undefined"
      /\ TypeOf(NoResult) = "none" /\ TypeOf(VoidTree) = "void"
  BY LoneIs, ScalarIs DEF Thrown, Lost, NoResult, VoidTree
<1> QED  BY <1>1, <1>2 DEF Failed, ParamTypes

(* Encoding leaves everything but a character as it is sent. *)
LEMMA EncodeCarries ==
    ASSUME NEW type \in Carries, NEW x, HasType(type, x)
    PROVE  /\ Encode(x) = {AsSent(x)}
           /\ HasType(type, AsSent(x)) /\ ~Failed(AsSent(x)) /\ ~Failed(x)
<1>1. type \in ParamTypes /\ type # "char"  BY DEF Carries
<1>2. x[Root].type # "char"  BY <1>1, ArgumentIs
<1>3. HasType(type, AsSent(x)) /\ TypeOf(AsSent(x)) = x[Root].type  BY <1>1, AsSentIs
<1> DEFINE node == Cut(x[Root])
<1>4. AsSent(x) = Lone(node) /\ TypeOf(Lone(node)) = node.type  BY LoneIs DEF AsSent
<1> HIDE DEF node
<1>5. CopyOrThrow(AsSent(x)) = AsSent(x)  BY <1>2, <1>3, <1>4, CopyOfLone
<1> QED  BY <1>1, <1>3, <1>5, EncodeIs, TypedIs

(* So does decoding. *)
LEMMA DecodeCarries ==
    ASSUME NEW type \in Carries, NEW x, HasType(type, x)
    PROVE  Decode(type, x) = {x}
<1> DEFINE node == x[Root]
<1> DEFINE front == IF node.text = Empty THEN 0 ELSE Head(node.text)
<1> DEFINE v == Value(node.type, node.bits)
<1> DEFINE scalars(kind) == {Lone(Scalar(r.type, r.bits)) : r \in Get(v, front, kind)}
<1>1. /\ x = Lone(node) /\ node.type = IF type = "narrow" THEN "unsigned" ELSE type
      /\ type # "string" => node = Scalar(node.type, node.bits)
      /\ TypeOf(x) = node.type
  BY ArgumentIs DEF Carries
<1>0. x # Lost  BY TypedIs DEF Carries
<1>2. v.type = node.type /\ v.bits = node.bits  BY ScalarIs
<1> HIDE DEF front, v, node
<1>3. CASE type = "string"  BY <1>0, <1>1, <1>3 DEF Decode, node
<1>4. ASSUME type # "string" PROVE scalars(node.type) = {x}
  <2>1. node.type \in {"bool", "unsigned", "signed", "float"}
    BY <1>1, <1>4 DEF Carries, ParamTypes
  <2>2. Get(v, front, node.type) = {v}
    BY <1>2, <2>1 DEF Get, GetBool, GetUnsigned, GetSigned, GetFloat
  <2> QED  BY <1>1, <1>2, <1>4, <2>2
<1>5. CASE type \notin {"string", "narrow"}
  <2>1. Decode(type, x) = scalars(type)  BY <1>0, <1>5 DEF Decode, node, v, front
  <2> QED  BY <1>1, <1>4, <1>5, <2>1
<1>6. CASE type = "narrow"
  <2>1. Decode(type, x) =
          {IF Failed(r) THEN r ELSE Lone(Scalar("unsigned", r[Root].bits % 2^NarrowBits)) :
             r \in scalars("unsigned")}
    BY <1>0, <1>6 DEF Decode, node, v, front
  <2>2. scalars("unsigned") = {x}  BY <1>1, <1>4, <1>6
  <2>3. ~Failed(x)  BY <1>1, <1>6 DEF Failed
  <2>4. node.bits \in 0..(2^NarrowBits - 1)  BY <1>6 DEF HasType, node
  <2>5. node.bits % 2^NarrowBits = node.bits
    <3>1. 2^NarrowBits \in 1..(2 * SignBit) /\ SignBit \in Nat
      BY DispatcherAssumption, VariantAssumption
    <3>2. \A m \in Nat \ {0} : \A b \in 0..(m - 1) : b % m = b  OBVIOUS
    <3>3. 2^NarrowBits \in Nat \ {0}  BY <3>1
    <3> QED  BY <2>4, <3>2, <3>3
  <2>6. Decode(type, x) = {Lone(Scalar("unsigned", x[Root].bits % 2^NarrowBits))}
    BY <2>1, <2>2, <2>3
  <2>7. x = Lone(Scalar("unsigned", node.bits))  BY <1>1, <1>6
  <2> QED  BY <2>5, <2>6, <2>7 DEF node
<1> QED  BY <1>3, <1>5, <1>6

(* A character is decoded by nothing that encoding leaves of it. *)
LEMMA DecodeChar ==
    ASSUME NEW x, HasType("char", x), NEW y \in Encode(x), ~Failed(y)
    PROVE  Decode("char", y) = {Thrown}
<1>1. "char" \in ParamTypes  BY DEF ParamTypes
<1>2. AsSent(x) = x /\ x = Lone(x[Root]) /\ x[Root].type = "char"
  BY <1>1, ArgumentIs, AsSentIs
<1>3. y = Thrown \/ y \in {Lone(Scalar("char", 0)), Lone(Scalar("char", 1))}
  BY <1>2, EncodeIs, CopyOfLone
<1>4. Failed(Thrown)  BY LoneIs, ScalarIs DEF Failed, Thrown
<1>5. PICK b \in {0, 1} : y = Lone(Scalar("char", b))  BY <1>3, <1>4
<1>6. y[Root].type = "char" /\ y[Root].bits = b  BY <1>5, LoneIs, ScalarIs
<1>7. ASSUME NEW front PROVE Get(Value("char", b), front, "char") = {Throws}
  <2>1. GetChar(Value("char", b), front) = {Throws}
    BY ScalarIs DEF GetChar, Affirmative, Negative
  <2> QED  BY <2>1 DEF Get
<1>8. Throws.type = "throws" /\ Throws.bits = 0  BY ScalarIs DEF Throws
<1>9. y # Lost  BY <1>6, LoneIs, ScalarIs DEF Lost
<1> QED  BY <1>6, <1>7, <1>8, <1>9 DEF Decode, Thrown

------------------------------------------------------------------------------
(* Calls                                                                    *)

LEMMA SelectionIs ==
    ASSUME NEW sets, NEW s \in Selections(sets)
    PROVE  /\ DOMAIN s = DOMAIN sets /\ s = [i \in DOMAIN sets |-> s[i]]
           /\ \A i \in DOMAIN sets : s[i] \in sets[i]
  BY DEF Selections

LEMMA SameLength ==
    ASSUME NEW S, NEW T, NEW a \in Seq(S), NEW b \in Seq(T), DOMAIN a = DOMAIN b
    PROVE  Len(a) = Len(b)
<1>1. \A m, n \in Nat : 1..m = 1..n => m = n
  <2>1. ASSUME NEW m \in Nat, NEW n \in Nat, m < n PROVE 1..m # 1..n
    <3>1. n \in 1..n /\ n \notin 1..m  BY <2>1
    <3> QED  BY <3>1
  <2>2. \A m, n \in Nat : m < n \/ n < m \/ m = n  OBVIOUS
  <2> QED  BY <2>1, <2>2
<1>2. DOMAIN a = 1..Len(a) /\ DOMAIN b = 1..Len(b) /\ Len(a) \in Nat /\ Len(b) \in Nat
  OBVIOUS
<1> QED  BY <1>1, <1>2

(* What matches a signature has its length. *)
LEMMA MatchIs ==
    ASSUME NEW s, IsSignature(s), NEW S, NEW xs \in Seq(S), Matches(s, xs)
    PROVE  /\ Len(xs) = Len(s.params) /\ DOMAIN xs = DOMAIN s.params
           /\ xs = [i \in DOMAIN xs |-> xs[i]]
           /\ \A i \in DOMAIN xs : s.params[i] \in ParamTypes /\ HasType(s.params[i], xs[i])
<1>1. s.params \in Seq(ParamTypes)  BY DEF IsSignature
<1>2. DOMAIN xs = DOMAIN s.params  BY DEF Matches
<1>3. Len(xs) = Len(s.params)  BY <1>1, <1>2, SameLength
<1>4. xs = [i \in DOMAIN xs |-> xs[i]]  OBVIOUS
<1>5. \A i \in DOMAIN s.params : s.params[i] \in ParamTypes  BY <1>1
<1> QED  BY <1>2, <1>3, <1>4, <1>5 DEF Matches

LEMMA CarriedIs ==
    ASSUME NEW s, IsSignature(s), Carried(s)
    PROVE  /\ \A i \in DOMAIN s.params : s.params[i] \in Carries
           /\ s.result \in Carries \cup {"void"}
<1>1. s.params \in Seq(ParamTypes)  BY DEF IsSignature
<1>2. \A i \in DOMAIN s.params : s.params[i] \in ParamTypes  BY <1>1
<1> QED  BY <1>2 DEF Carried, Carries, IsSignature

(* The values are the arguments as they are sent, if no one is a character. *)
LEMMA EncodedCarries ==
    ASSUME NEW s, IsSignature(s), Carried(s), NEW S, NEW xs \in Seq(S), Matches(s, xs)
    PROVE  LET sent == [i \in DOMAIN xs |-> AsSent(xs[i])]
           IN /\ \A values \in Encoded(xs) : values = sent
              /\ ~AnyFailed(sent) /\ Matches(s, sent) /\ \E T : sent \in Seq(T)
<1> DEFINE sent == [i \in DOMAIN xs |-> AsSent(xs[i])]
<1>1. /\ DOMAIN xs = DOMAIN s.params
      /\ \A i \in DOMAIN xs : HasType(s.params[i], xs[i])
  BY MatchIs
<1>2. \A i \in DOMAIN xs :
        /\ Encode(xs[i]) = {sent[i]} /\ ~Failed(sent[i])
        /\ HasType(s.params[i], sent[i])
  BY <1>1, CarriedIs, EncodeCarries
<1>3. ASSUME NEW values \in Encoded(xs) PROVE values = sent
  <2> DEFINE sets == [i \in DOMAIN xs |-> Encode(xs[i])]
  <2>1. /\ values = [i \in DOMAIN sets |-> values[i]]
        /\ \A i \in DOMAIN sets : values[i] \in sets[i]
    BY <1>3, SelectionIs DEF Encoded
  <2>2. DOMAIN sets = DOMAIN xs /\ \A i \in DOMAIN xs : sets[i] = {sent[i]}  BY <1>2
  <2>3. sent = [i \in DOMAIN xs |-> sent[i]]  OBVIOUS
  <2> HIDE DEF sets, sent
  <2>4. \A i \in DOMAIN xs : values[i] = sent[i]  BY <2>1, <2>2
  <2> QED  BY <2>1, <2>2, <2>3, <2>4
<1>4. DOMAIN sent = DOMAIN xs  OBVIOUS
<1>5. \E T : sent \in Seq(T)
  <2> DEFINE T == {sent[i] : i \in DOMAIN xs}
  <2>1. DOMAIN xs = 1..Len(xs) /\ Len(xs) \in Nat  OBVIOUS
  <2>2. sent \in [1..Len(xs) -> T]  BY <2>1
  <2> HIDE DEF sent, T
  <2>3. sent \in Seq(T)  BY <2>1, <2>2
  <2> QED  BY <2>3
<1> HIDE DEF sent
<1>6. ~AnyFailed(sent) /\ Matches(s, sent)  BY <1>1, <1>2, <1>4 DEF AnyFailed, Matches
<1> QED  BY <1>3, <1>5, <1>6 DEF sent

LEMMA ParameterCarries ==
    ASSUME NEW s, IsSignature(s), Carried(s), NEW i \in DOMAIN s.params,
           NEW x, HasType(s.params[i], x)
    PROVE  Parameter(s, i, x) = {x} /\ ~Failed(x)
<1>1. s.params[i] \in Carries  BY CarriedIs
<1>2. Decode(s.params[i], x) = {x} /\ ~Failed(x)  BY <1>1, DecodeCarries, EncodeCarries
<1>3. Len(s.params) = 3 => s.params[2] = s.params[3]  BY DEF Carried, Straight
<1> QED  BY <1>2, <1>3 DEF Parameter

(* The function is called with the values, and what it returns is answered *)
(* as it is sent, or what it throws is thrown.                             *)
LEMMA WrappedCarries ==
    ASSUME NEW s, IsSignature(s), Carried(s), NEW S, NEW xs \in Seq(S), Matches(s, xs),
           NEW ran \in Wrapped(s, xs)
    PROVE  /\ ran.received = xs
           /\ \/ ran.outcome = "threw" /\ ran.returned = Thrown
              \/ /\ ran.outcome = "ran" /\ ran.answer = AsSent(ran.returned)
                 /\ IF s.result = "void" THEN ran.returned = VoidTree
                    ELSE HasType(s.result, ran.returned)
<1>1. /\ Len(xs) = Len(s.params) /\ DOMAIN xs = DOMAIN s.params
      /\ xs = [i \in DOMAIN xs |-> xs[i]]
      /\ \A i \in DOMAIN xs : HasType(s.params[i], xs[i])
  BY MatchIs
<1> DEFINE sets == [i \in DOMAIN xs |-> Parameter(s, i, xs[i])]
<1>2. \A i \in DOMAIN xs : Parameter(s, i, xs[i]) = {xs[i]} /\ ~Failed(xs[i])
  BY <1>1, ParameterCarries
<1>3. ASSUME NEW received \in Selections(sets) PROVE received = xs
  <2>1. /\ received = [i \in DOMAIN sets |-> received[i]]
        /\ \A i \in DOMAIN sets : received[i] \in sets[i]
    BY <1>3, SelectionIs
  <2>2. DOMAIN sets = DOMAIN xs /\ \A i \in DOMAIN xs : sets[i] = {xs[i]}  BY <1>2
  <2> HIDE DEF sets
  <2>3. \A i \in DOMAIN xs : received[i] = xs[i]  BY <2>1, <2>2
  <2> QED  BY <1>1, <2>1, <2>2, <2>3
<1>4. ~\E i \in DOMAIN xs : Failed(xs[i])  BY <1>2
<1> DEFINE answers(r) == IF r.value \in {Thrown, VoidTree} THEN {r.value} ELSE Encode(r.value)
<1> DEFINE rans(received) ==
        UNION {{Ran(IF Failed(answer) THEN "threw" ELSE "ran", received, r.value, answer) :
                  answer \in answers(r)} :
               r \in {x \in Results : x.type = s.result}}
<1>5. PICK received \in Selections(sets) :
        ran \in IF \E i \in DOMAIN received : Failed(received[i])
                THEN {NotRun(HowFailed(received[i])) :
                        i \in {j \in DOMAIN received : Failed(received[j])}}
                ELSE rans(received)
  BY <1>1 DEF Wrapped
<1>6. ran \in rans(xs)  BY <1>3, <1>4, <1>5
<1>7. PICK r \in Results :
        /\ r.type = s.result
        /\ \E answer \in answers(r) :
             ran = Ran(IF Failed(answer) THEN "threw" ELSE "ran", xs, r.value, answer)
  BY <1>6
<1>8. PICK answer \in answers(r) :
        ran = Ran(IF Failed(answer) THEN "threw" ELSE "ran", xs, r.value, answer)
  BY <1>7
<1>9. /\ ran.outcome = IF Failed(answer) THEN "threw" ELSE "ran"
      /\ ran.received = xs /\ ran.returned = r.value /\ ran.answer = answer
  BY <1>8 DEF Ran
<1>10. CASE r.value = Thrown
  <2>1. Failed(Thrown)  BY LoneIs, ScalarIs DEF Failed, Thrown
  <2> QED  BY <1>8, <1>9, <1>10, <2>1
<1>11. CASE r.value # Thrown /\ s.result = "void"
  <2>1. r.value = VoidTree  BY <1>7, <1>11, CallerAssumption
  <2>2. ~Failed(VoidTree) /\ AsSent(VoidTree) = VoidTree
    BY LoneIs, ScalarIs DEF Failed, VoidTree, AsSent, Cut
  <2> QED  BY <1>8, <1>9, <1>11, <2>1, <2>2
<1>12. CASE r.value # Thrown /\ s.result # "void"
  <2>1. s.result \in Carries /\ s.result \in ParamTypes  BY <1>12, CarriedIs DEF Carries
  <2>2. HasType(s.result, r.value)  BY <1>7, <1>12, CallerAssumption
  <2>3. Encode(r.value) = {AsSent(r.value)} /\ ~Failed(AsSent(r.value))
    BY <2>1, <2>2, EncodeCarries
  <2>4. r.value # VoidTree  BY <2>1, <2>2, TypedIs
  <2>5. answer = AsSent(r.value)  BY <1>8, <1>12, <2>3, <2>4
  <2> QED  BY <1>9, <1>12, <2>2, <2>3, <2>5
<1> QED  BY <1>10, <1>11, <1>12

(* What is made of a parameter that is decoded as what it is. *)
LEMMA ParameterIs ==
    ASSUME NEW s, IsSignature(s), NEW i \in DOMAIN s.params, DecodedBy(s, i) = s.params[i],
           NEW x, HasType(s.params[i], x), NEW y \in Encode(x), ~Failed(y),
           NEW r \in Parameter(s, i, y)
    PROVE  IF s.params[i] = "char" THEN r = Thrown ELSE ~Failed(r)
<1>1. s.params \in Seq(ParamTypes) /\ s.params[i] \in ParamTypes  BY DEF IsSignature
<1>2. r \in Decode(s.params[i], y)  BY DEF Parameter, DecodedBy, Straight
<1>3. CASE s.params[i] = "char"  BY <1>2, <1>3, DecodeChar
<1>4. CASE s.params[i] # "char"
  <2>1. s.params[i] \in Carries  BY <1>1, <1>4 DEF Carries
  <2>2. y = AsSent(x) /\ HasType(s.params[i], y)  BY <2>1, EncodeCarries
  <2>3. r = y  BY <1>2, <2>1, <2>2, DecodeCarries
  <2> QED  BY <1>4, <2>3
<1> QED  BY <1>3, <1>4

(* A function with a parameter that is decoded as a character is not called. *)
LEMMA WrappedThrows ==
    ASSUME NEW s \in Signatures, NEW S, NEW xs \in Seq(S), Matches(s, xs),
           NEW i \in DOMAIN s.params, DecodedBy(s, i) = "char",
           NEW values \in Encoded(xs), ~AnyFailed(values),
           NEW ran \in Wrapped(s, values)
    PROVE  ran = NotRun("threw") \/ (ran = NotRun("undefined") /\ ~Straight(s))
<1>1. IsSignature(s) /\ s.params \in Seq(ParamTypes)
  BY DispatcherAssumption DEF IsSignature
<1>2. DOMAIN xs = DOMAIN s.params /\ \A j \in DOMAIN xs : HasType(s.params[j], xs[j])
  BY <1>1, MatchIs
<1>3. /\ DOMAIN values = DOMAIN xs
      /\ \A j \in DOMAIN xs : values[j] \in Encode(xs[j]) /\ ~Failed(values[j])
  <2> DEFINE sets == [j \in DOMAIN xs |-> Encode(xs[j])]
  <2>1. DOMAIN values = DOMAIN sets /\ \A j \in DOMAIN sets : values[j] \in sets[j]
    BY SelectionIs DEF Encoded
  <2> QED  BY <2>1 DEF AnyFailed
<1>4. PICK k \in DOMAIN s.params : s.params[k] = "char" /\ DecodedBy(s, k) = "char"
  <2>1. CASE i = 3 /\ ~Straight(s)
    <3>1. s.params[2] = "char" /\ Len(s.params) = 3  BY <2>1 DEF DecodedBy, Straight
    <3>2. 2 \in DOMAIN s.params  BY <1>1, <3>1
    <3> QED  BY <3>1, <3>2 DEF DecodedBy
  <2>2. CASE ~(i = 3 /\ ~Straight(s))  BY <2>2 DEF DecodedBy
  <2> QED  BY <2>1, <2>2
<1> DEFINE sets == [j \in DOMAIN values |-> Parameter(s, j, values[j])]
<1>5. Failed(Thrown) /\ Thrown # Lost  BY LoneIs, ScalarIs DEF Failed, Thrown, Lost
<1>6. ASSUME NEW received \in Selections(sets)
      PROVE  /\ k \in DOMAIN received /\ received[k] = Thrown
             /\ Straight(s) => \A j \in DOMAIN received : Failed(received[j]) => received[j] = Thrown
  <2>1. DOMAIN received = DOMAIN sets /\ \A j \in DOMAIN sets : received[j] \in sets[j]
    BY <1>6, SelectionIs
  <2>2. /\ DOMAIN received = DOMAIN xs
        /\ \A j \in DOMAIN xs : received[j] \in Parameter(s, j, values[j])
    BY <1>3, <2>1
  <2>3. Straight(s) => \A j \in DOMAIN xs : DecodedBy(s, j) = s.params[j]  BY DEF DecodedBy
  <2>4. \A j \in DOMAIN xs : DecodedBy(s, j) = s.params[j] =>
          IF s.params[j] = "char" THEN received[j] = Thrown ELSE ~Failed(received[j])
    BY <1>1, <1>2, <1>3, <2>2, ParameterIs
  <2> QED  BY <1>2, <1>4, <2>2, <2>3, <2>4
<1>7. CASE Len(values) # Len(s.params)  BY <1>7 DEF Wrapped
<1>8. CASE Len(values) = Len(s.params)
  <2> DEFINE rans(received) ==
        UNION {{Ran(IF Failed(answer) THEN "threw" ELSE "ran", received, r.value, answer) :
                  answer \in IF r.value \in {Thrown, VoidTree} THEN {r.value} ELSE Encode(r.value)} :
               r \in {x \in Results : x.type = s.result}}
  <2>1. PICK received \in Selections(sets) :
          ran \in IF \E j \in DOMAIN received : Failed(received[j])
                  THEN {NotRun(HowFailed(received[m])) :
                          m \in {j \in DOMAIN received : Failed(received[j])}}
                  ELSE rans(received)
    BY <1>8 DEF Wrapped
  <2>2. PICK m \in DOMAIN received : Failed(received[m]) /\ ran = NotRun(HowFailed(received[m]))
    BY <1>5, <1>6, <2>1
  <2>3. HowFailed(received[m]) \in {"threw", "undefined"}  BY DEF HowFailed
  <2>4. Straight(s) => HowFailed(received[m]) = "threw"
    BY <1>5, <1>6, <2>2 DEF HowFailed
  <2> QED  BY <2>2, <2>3, <2>4
<1> QED  BY <1>7, <1>8

------------------------------------------------------------------------------
(* The items of an array in their order                                     *)

LEMMA ItemsBefore ==
    ASSUME NEW i \in Nat, NEW j \in Nat
    PROVE  Before(<<i>>, <<j>>) <=> i < j
<1> DEFINE a == <<i>>
<1> DEFINE b == <<j>>
<1>1. a \in Seq(Nat) /\ b \in Seq(Nat) /\ Len(a) = 1 /\ Len(b) = 1 /\ a[1] = i /\ b[1] = j
  OBVIOUS
<1> HIDE DEF a, b
<1>2. SubSeq(a, 1, 0) = <<>> /\ SubSeq(b, 1, 0) = <<>>  BY <1>1
<1>3. \A n \in 0..1 : n < 1 <=> n = 0  OBVIOUS
<1>4. Before(a, b) <=> SubSeq(a, 1, 0) = SubSeq(b, 1, 0) /\ (0 = 1 \/ a[0 + 1] < b[0 + 1])
  BY <1>1, <1>3 DEF Before
<1>5. Before(a, b) <=> a[1] < b[1]  BY <1>2, <1>4
<1> QED  BY <1>1, <1>5 DEF a, b

LEMMA ItemsInOrder ==
    ASSUME NEW t, NEW n \in Nat, Keys(t, Root) = {<<i>> : i \in 1..n}
    PROVE  SortedKeys(t, Root) = [i \in 1..n |-> <<i>>]
<1> DEFINE keys == Keys(t, Root)
<1> DEFINE below(k) == {j \in keys : Before(j, k)}
<1>1. Cardinality(keys) = n  BY CardinalityOfItems
<1>2. ASSUME NEW m \in 1..n PROVE Cardinality(below(<<m>>)) = m - 1
  <2>1. ASSUME NEW j \in 1..n PROVE Before(<<j>>, <<m>>) <=> j < m
    <3>1. j \in Nat /\ m \in Nat  OBVIOUS
    <3> QED  BY <3>1, ItemsBefore
  <2>2. \A j \in Nat : j \in 1..(m - 1) <=> j \in 1..n /\ j < m  OBVIOUS
  <2>3. below(<<m>>) = {<<j>> : j \in 1..(m - 1)}  BY <2>1, <2>2
  <2>4. m - 1 \in Nat  OBVIOUS
  <2> HIDE DEF below
  <2> QED  BY <2>3, <2>4, CardinalityOfItems
<1>3. ASSUME NEW i \in 1..n
      PROVE  (CHOOSE k \in keys : Cardinality(below(k)) = i - 1) = <<i>>
  <2>1. \A k \in keys : \E m \in 1..n : k = <<m>>  OBVIOUS
  <2>2. <<i>> \in keys  OBVIOUS
  <2> HIDE DEF keys, below
  <2>3. \A k \in keys : Cardinality(below(k)) = i - 1 => k = <<i>>
    <3>1. SUFFICES ASSUME NEW k \in keys, Cardinality(below(k)) = i - 1 PROVE k = <<i>>
      OBVIOUS
    <3>2. PICK m \in 1..n : k = <<m>>  BY <2>1
    <3>3. m - 1 = i - 1  BY <1>2, <3>1, <3>2
    <3>4. m = i  BY <3>3
    <3> QED  BY <3>2, <3>4
  <2>4. Cardinality(below(<<i>>)) = i - 1  BY <1>2
  <2> QED  BY <2>2, <2>3, <2>4
<1>4. SortedKeys(t, Root) =
        [i \in 1..Cardinality(keys) |-> CHOOSE k \in keys : Cardinality(below(k)) = i - 1]
  BY DEF SortedKeys
<1> HIDE DEF keys, below
<1> QED  BY <1>1, <1>3, <1>4

(* What a server finds in an array are its items. *)
LEMMA ParamValuesAre ==
    ASSUME NEW params \in Notified, TypeOf(params) = "array", Items(params) # <<>>
    PROVE  /\ ParamValues(params) = {Items(params)}
           /\ \E S : Items(params) \in Seq(S)
<1> DEFINE n == Cardinality(Keys(params, Root))
<1>0. TypeOf(Lost) = "undefined" /\ TypeOf(Thrown) = "throws"
  BY LoneIs, ScalarIs DEF Lost, Thrown
<1>1. IsFiniteSet(DOMAIN params) /\ IsValue(params)  BY <1>0, CallerAssumption
<1>2. n \in Nat
  <2> DEFINE D == {q \in DOMAIN params : q # Root /\ Front(q) = Root}
  <2>1. IsFiniteSet(D)  BY <1>1, FS_Subset
  <2> DEFINE f == [q \in D |-> Last(q)]
  <2>2. Keys(params, Root) = {Last(q) : q \in D}  BY DEF Keys
  <2> HIDE DEF D
  <2>a. f \in Surjection(D, Keys(params, Root))  BY <2>2 DEF Surjection
  <2>3. IsFiniteSet(Keys(params, Root))  BY <2>1, <2>a, FS_Surjection
  <2> QED  BY <2>3, FS_CardinalityType
<1>3. params[Root].type = "array" /\ Root \in DOMAIN params  BY <1>1 DEF TypeOf, IsValue
<1>4. Keys(params, Root) = {<<i>> : i \in 1..n}  BY <1>1, <1>3 DEF IsValue
<1> HIDE DEF n
<1> DEFINE keys == SortedKeys(params, Root)
<1>5. keys = [i \in 1..n |-> <<i>>]  BY <1>2, <1>4, ItemsInOrder
<1> DEFINE Found(i) ==
        IF i > 1 /\ TypeOf(params) = "object" THEN Lost ELSE Sub(params, <<keys[i]>>)
<1> DEFINE values == [i \in DOMAIN keys |-> Found(i)]
<1>6. Items(params) = [i \in 1..n |-> Sub(params, << <<i>> >>)]  BY DEF Items, n
<1> HIDE DEF keys
<1>7. DOMAIN keys = 1..n /\ \A i \in 1..n : keys[i] = <<i>>  BY <1>5
<1>8. values = Items(params)  BY <1>6, <1>7
<1>9. TypeOf(params) \in ContainerTypes /\ TypeOf(params) # "void"
  BY DEF ContainerTypes
<1>10. ParamValues(params) = IF values = <<>> THEN {values, <<Lost>>} ELSE {values}
  <2>1. values = [i \in DOMAIN SortedKeys(params, Root) |->
                    IF i > 1 /\ TypeOf(params) = "object" THEN Lost
                    ELSE Sub(params, <<SortedKeys(params, Root)[i]>>)]
    BY DEF keys
  <2> HIDE DEF values
  <2> QED  BY <1>9, <2>1 DEF ParamValues
<1>11. ParamValues(params) = {Items(params)}  BY <1>8, <1>10
<1> DEFINE S == {Sub(params, << <<i>> >>) : i \in 1..n}
<1>12. Items(params) \in [1..n -> S]  BY <1>6
<1> HIDE DEF S
<1>13. Items(params) \in Seq(S)  BY <1>2, <1>12
<1> QED  BY <1>11, <1>13

------------------------------------------------------------------------------
(* What is true of each kind of call                                        *)

FunctionsKnown ==
    /\ DOMAIN mFunctions \subseteq FunctionNames
    /\ \A name \in DOMAIN mFunctions : mFunctions[name] \in Signatures

(* What CallsArriveAsMade says of a call made on functions f. *)
Arrives(f, c) ==
    /\ c.name \in DOMAIN f =>
         CallArrives(c, f[c.name]) /\ NotificationArrives(c, f[c.name])
    /\ ResultArrives(c)

LEMMA CalledIs ==
    ASSUME NEW how, NEW name, NEW types, NEW args, NEW ran, NEW outcome, NEW result
    PROVE  LET c == Called(how, name, types, args, ran, outcome, result)
           IN /\ c.how = how /\ c.name = name /\ c.types = types /\ c.args = args
              /\ c.ran = ran /\ c.outcome = outcome /\ c.result = result
  BY DEF Called

LEMMA NotRunIs ==
    ASSUME NEW outcome
    PROVE  NotRun(outcome).outcome = outcome /\ NotRun(outcome).returned = NoResult
  BY DEF NotRun, Ran

LEMMA NoCallArrives == \A f : Arrives(f, NoCall)
  BY CalledIs DEF NoCall, Arrives, CallArrives, ResultArrives, NotificationArrives

(* A result of the type that is asked for comes back as it is. *)
LEMMA AnsweredIs ==
    ASSUME NEW types, IsSignature(types), Carried(types), NEW answer,
           IF types.result = "void" THEN answer = VoidTree ELSE HasType(types.result, answer)
    PROVE  Answered(types, answer) = {answer} /\ ~Failed(answer)
<1>1. ~Failed(VoidTree)  BY LoneIs, ScalarIs DEF Failed, VoidTree
<1>2. types.result # "void" => types.result \in Carries  BY CarriedIs
<1> QED  BY <1>1, <1>2, DecodeCarries, EncodeCarries DEF Answered

LEMMA DispatcherCallArrives ==
    ASSUME FunctionsKnown, NEW name \in DOMAIN mFunctions, NEW call \in Calls,
           DispatcherCall(name, call.types, call.args)
    PROVE  CallArrives(lastCall', mFunctions[name])
<1> DEFINE types == call.types
<1> DEFINE args == call.args
<1> DEFINE c == lastCall'
<1>1. /\ IsSignature(types) /\ Matches(types, args)
      /\ args \in Seq({args[i] : i \in DOMAIN args})
  BY CallerAssumption
<1>2. PICK values \in Encoded(args) :
        IF AnyFailed(values)
        THEN c = Called("call", name, types, args, NotRun("threw"), "threw", Thrown)
        ELSE \E ran \in CallFunction(name, values) :
               IF ran.outcome # "ran"
               THEN c = Called("call", name, types, args, ran, ran.outcome, Thrown)
               ELSE \E result \in Answered(types, ran.answer) :
                      c = Called("call", name, types, args, ran, OutcomeOf(result), result)
  BY DEF DispatcherCall
<1> HIDE DEF c, types, args
<1>3. c.types = types /\ c.args = args  BY <1>2, CalledIs
<1> DEFINE sent == [i \in DOMAIN args |-> AsSent(args[i])]
<1>4. SUFFICES ASSUME types = mFunctions[name]
               PROVE  /\ Carried(types) =>
                           /\ c.ran.received = sent
                           /\ \/ c.outcome = "threw" /\ c.ran.returned = Thrown
                              \/ /\ c.outcome = "returned"
                                 /\ c.ran.returned \notin {Thrown, NoResult}
                                 /\ c.result = AsSent(c.ran.returned)
                      /\ \A i \in DOMAIN types.params : DecodedBy(types, i) = "char" =>
                           /\ c.ran.returned = NoResult
                           /\ c.outcome = "threw" \/ (c.outcome = "undefined" /\ ~Straight(types))
  BY <1>3 DEF CallArrives, c
<1>5. types \in Signatures  BY <1>4 DEF FunctionsKnown
<1>6. CallFunction(name, values) = Wrapped(types, values)  BY <1>4 DEF CallFunction
<1>7. ASSUME Carried(types)
      PROVE  /\ c.ran.received = sent
             /\ \/ c.outcome = "threw" /\ c.ran.returned = Thrown
                \/ /\ c.outcome = "returned" /\ c.ran.returned \notin {Thrown, NoResult}
                   /\ c.result = AsSent(c.ran.returned)
  <2>1. values = sent /\ ~AnyFailed(sent) /\ Matches(types, sent) /\ \E T : sent \in Seq(T)
    BY <1>1, <1>2, <1>7, EncodedCarries
  <2> HIDE DEF sent
  <2>2. PICK T : sent \in Seq(T)  BY <2>1
  <2>3. PICK ran \in Wrapped(types, sent) :
          IF ran.outcome # "ran"
          THEN c = Called("call", name, types, args, ran, ran.outcome, Thrown)
          ELSE \E result \in Answered(types, ran.answer) :
                 c = Called("call", name, types, args, ran, OutcomeOf(result), result)
    BY <1>2, <1>6, <2>1
  <2>4. /\ ran.received = sent
        /\ \/ ran.outcome = "threw" /\ ran.returned = Thrown
           \/ /\ ran.outcome = "ran" /\ ran.answer = AsSent(ran.returned)
              /\ IF types.result = "void" THEN ran.returned = VoidTree
                 ELSE HasType(types.result, ran.returned)
    BY <1>1, <1>7, <2>1, <2>2, WrappedCarries
  <2>5. CASE ran.outcome = "threw" /\ ran.returned = Thrown
    <3>1. c = Called("call", name, types, args, ran, ran.outcome, Thrown)  BY <2>3, <2>5
    <3> QED  BY <2>4, <2>5, <3>1, CalledIs
  <2>6. CASE /\ ran.outcome = "ran" /\ ran.answer = AsSent(ran.returned)
             /\ IF types.result = "void" THEN ran.returned = VoidTree
                ELSE HasType(types.result, ran.returned)
    <3>1. PICK result \in Answered(types, ran.answer) :
            c = Called("call", name, types, args, ran, OutcomeOf(result), result)
      BY <2>3, <2>6
    <3>2. /\ IF types.result = "void" THEN ran.answer = VoidTree
             ELSE HasType(types.result, ran.answer)
          /\ ran.returned \notin {Thrown, NoResult}
      <4>1. CASE types.result = "void"
        <5>1. AsSent(VoidTree) = VoidTree /\ VoidTree \notin {Thrown, NoResult}
          <6>1. /\ TypeOf(Thrown) = "throws" /\ TypeOf(NoResult) = "none"
                /\ TypeOf(VoidTree) = "void"
            BY LoneIs, ScalarIs DEF Thrown, NoResult, VoidTree
          <6> QED  BY <6>1, LoneIs, ScalarIs DEF VoidTree, AsSent, Cut
        <5> QED  BY <2>6, <4>1, <5>1
      <4>2. CASE types.result # "void"
        <5>1. types.result \in ParamTypes  BY <1>1, <4>2 DEF IsSignature
        <5> QED  BY <2>6, <4>2, <5>1, AsSentIs, TypedIs
      <4> QED  BY <4>1, <4>2
    <3>3. result = ran.answer /\ ~Failed(result)
      BY <1>1, <1>7, <3>1, <3>2, AnsweredIs
    <3>4. OutcomeOf(result) = "returned"  BY <3>3 DEF OutcomeOf
    <3> QED  BY <2>4, <2>6, <3>1, <3>2, <3>3, <3>4, CalledIs
  <2> QED  BY <2>4, <2>5, <2>6
<1>8. ASSUME NEW i \in DOMAIN types.params, DecodedBy(types, i) = "char"
      PROVE  /\ c.ran.returned = NoResult
             /\ c.outcome = "threw" \/ (c.outcome = "undefined" /\ ~Straight(types))
  <2>1. CASE AnyFailed(values)  BY <1>2, <2>1, CalledIs, NotRunIs
  <2>2. CASE ~AnyFailed(values)
    <3>1. PICK ran \in Wrapped(types, values) :
            IF ran.outcome # "ran"
            THEN c = Called("call", name, types, args, ran, ran.outcome, Thrown)
            ELSE \E result \in Answered(types, ran.answer) :
                   c = Called("call", name, types, args, ran, OutcomeOf(result), result)
      BY <1>2, <1>6, <2>2
    <3>2. ran = NotRun("threw") \/ (ran = NotRun("undefined") /\ ~Straight(types))
      BY <1>1, <1>2, <1>5, <1>8, <2>2, <3>1, WrappedThrows
    <3>3. /\ ran.returned = NoResult
          /\ ran.outcome = "threw" \/ (ran.outcome = "undefined" /\ ~Straight(types))
      BY <3>2, NotRunIs
    <3>4. c = Called("call", name, types, args, ran, ran.outcome, Thrown)  BY <3>1, <3>3
    <3> QED  BY <3>3, <3>4, CalledIs
  <2> QED  BY <2>1, <2>2
<1> HIDE DEF sent
<1> QED  BY <1>7, <1>8

LEMMA RemoteCallArrives ==
    ASSUME NEW name, NEW call \in Calls, NEW response,
           RemoteCall(name, call.types, call.args, response)
    PROVE  ResultArrives(lastCall')
<1> DEFINE types == call.types
<1> DEFINE args == call.args
<1> DEFINE c == lastCall'
<1>1. IsSignature(types)  BY CallerAssumption
<1> DEFINE answer == IF response = Lost THEN Lost ELSE ResponseResult(response)
<1> DEFINE ran == Ran("ran", <<>>, response, answer)
<1>2. \/ c = Called("remote", name, types, args, NotRun("threw"), "threw", Thrown)
      \/ \E result \in IF Failed(answer) THEN {answer} ELSE Answered(types, answer) :
           c = Called("remote", name, types, args, ran, OutcomeOf(result), result)
  BY DEF RemoteCall
<1> HIDE DEF types, args, c, answer
<1>3. CASE c = Called("remote", name, types, args, NotRun("threw"), "threw", Thrown)
  <2>1. c.ran.outcome = "threw"  BY <1>3, CalledIs, NotRunIs
  <2> QED  BY <2>1 DEF ResultArrives, c
<1>4. ASSUME NEW result \in IF Failed(answer) THEN {answer} ELSE Answered(types, answer),
             c = Called("remote", name, types, args, ran, OutcomeOf(result), result)
      PROVE  ResultArrives(c)
  <2>1. ran.answer = answer  BY DEF Ran
  <2>2. c.types = types /\ c.ran = ran /\ c.outcome = OutcomeOf(result) /\ c.result = result
    BY <1>4, CalledIs
  <2>3. SUFFICES ASSUME Carried(types), HasType(types.result, answer)
                 PROVE  OutcomeOf(result) = "returned" /\ result = answer
    BY <2>1, <2>2 DEF ResultArrives
  <2>4. types.result = "void" => answer = VoidTree
    <3>1. ASSUME types.result = "void" PROVE answer = VoidTree
      <4> DEFINE b == answer[Root].bits
      <4>1. answer = Lone(Scalar("void", b)) /\ IsScalar(Value("void", b))
        BY <2>3, <3>1 DEF HasType
      <4> HIDE DEF b
      <4>2. Value("void", b) \in Scalars  BY <4>1, ScalarIs DEF IsScalar
      <4>3. \A w \in Scalars : w.type = "void" => w = Void
        BY ScalarIs DEF Scalars, Void, True, False
      <4>4. Value("void", b).bits = Void.bits  BY <4>2, <4>3, ScalarIs
      <4>5. b = 0  BY <4>4, ScalarIs DEF Void
      <4> QED  BY <4>1, <4>5 DEF VoidTree
    <3> QED  BY <3>1
  <2>5. result = answer /\ ~Failed(answer)  BY <1>1, <1>4, <2>3, <2>4, AnsweredIs
  <2> QED  BY <2>5 DEF OutcomeOf
<1>5. ResultArrives(c)  BY <1>2, <1>3, <1>4 DEF c
<1> QED  BY <1>5 DEF c

LEMMA OnReceiveNotificationArrives ==
    ASSUME FunctionsKnown, NEW name \in DOMAIN mFunctions, NEW params \in Notified,
           OnReceiveNotification(name, params)
    PROVE  NotificationArrives(lastCall', mFunctions[name])
<1> DEFINE c == lastCall'
<1> DEFINE s == mFunctions[name]
<1> DEFINE xs == Items(params)
<1>1. c.args = params
  <2>1. \E ran, outcome, result :
          c = Called("notification", name, NoTypes, params, ran, outcome, result)
    BY DEF OnReceiveNotification
  <2> HIDE DEF c
  <2> QED  BY <2>1, CalledIs
<1>2. SUFFICES ASSUME TypeOf(params) = "array", Carried(s), Matches(s, xs), xs # <<>>
               PROVE  c.ran.received = xs /\ c.ran.returned # NoResult /\ c.outcome = "returned"
  BY <1>1 DEF NotificationArrives
<1>3. ~Failed(params)  BY <1>2 DEF Failed
<1>4. ParamValues(params) = {xs} /\ \E S : xs \in Seq(S)  BY <1>2, ParamValuesAre
<1>5. PICK S : xs \in Seq(S)  BY <1>4
<1>6. s \in Signatures /\ IsSignature(s)  BY DispatcherAssumption DEF FunctionsKnown
<1>7. ~Failed(xs[1])
  <2>1. 1 \in DOMAIN xs  BY <1>2, <1>5
  <2> HIDE DEF xs, s
  <2> QED  BY <1>2, <1>5, <1>6, <2>1, MatchIs, TypedIs
<1>8. PICK ran \in Wrapped(s, xs) :
        c = Called("notification", name, NoTypes, params, ran,
                   IF ran.outcome = "undefined" THEN "undefined" ELSE "returned", VoidTree)
  BY <1>3, <1>4, <1>7 DEF OnReceiveNotification, CallFunction
<1> HIDE DEF c, s, xs
<1>9. /\ ran.received = xs
      /\ \/ ran.outcome = "threw" /\ ran.returned = Thrown
         \/ /\ ran.outcome = "ran"
            /\ IF s.result = "void" THEN ran.returned = VoidTree
               ELSE HasType(s.result, ran.returned)
  BY <1>2, <1>5, <1>6, <1>8, WrappedCarries
<1>10. ran.returned # NoResult
  <2>1. Thrown # NoResult /\ VoidTree # NoResult
    <3>1. /\ TypeOf(Thrown) = "throws" /\ TypeOf(NoResult) = "none"
          /\ TypeOf(VoidTree) = "void"
      BY LoneIs, ScalarIs DEF Thrown, NoResult, VoidTree
    <3> QED  BY <3>1
  <2>2. s.result # "void" => s.result \in ParamTypes  BY <1>6 DEF IsSignature
  <2> QED  BY <1>9, <2>1, <2>2, TypedIs
<1> QED  BY <1>8, <1>9, <1>10, CalledIs

------------------------------------------------------------------------------

CallsInv == FunctionsKnown /\ Arrives(mFunctions, lastCall)

LEMMA RegisterKeeps ==
    ASSUME FunctionsKnown, NEW name \in FunctionNames, NEW s \in Signatures, Register(name, s)
    PROVE  CallsInv'
<1>1. lastCall' = NoCall  BY DEF Register
<1>2. /\ DOMAIN mFunctions' = DOMAIN mFunctions \cup {name}
      /\ \A x \in DOMAIN mFunctions' :
           mFunctions'[x] = IF x \in DOMAIN mFunctions THEN mFunctions[x] ELSE s
  BY DEF Register
<1>3. FunctionsKnown'  BY <1>2 DEF FunctionsKnown
<1>4. Arrives(mFunctions', lastCall')  BY <1>1, NoCallArrives
<1> QED  BY <1>3, <1>4 DEF CallsInv

(* Of each kind of call nothing is said about the others. *)
LEMMA OneKind ==
    ASSUME NEW types, NEW c
    PROVE  /\ c.how # "call" => CallArrives(c, types)
           /\ c.how # "remote" => ResultArrives(c)
           /\ c.how # "notification" => NotificationArrives(c, types)
  BY DEF CallArrives, ResultArrives, NotificationArrives

LEMMA HowCalled ==
    ASSUME NEW name
    PROVE  /\ \A types, args :
                DispatcherCall(name, types, args) => lastCall'.how = "call" /\ lastCall'.name = name
           /\ \A types, args, response :
                RemoteCall(name, types, args, response) => lastCall'.how = "remote"
           /\ \A params :
                OnReceiveNotification(name, params) =>
                  lastCall'.how = "notification" /\ lastCall'.name = name
           /\ \A id : OnReceiveRequest(id) => lastCall'.how = "request"
<1>1. ASSUME NEW types, NEW args, DispatcherCall(name, types, args)
      PROVE  lastCall'.how = "call" /\ lastCall'.name = name
  <2>1. \E ran, outcome, result :
          lastCall' = Called("call", name, types, args, ran, outcome, result)
    BY <1>1 DEF DispatcherCall
  <2> QED  BY <2>1, CalledIs
<1>2. ASSUME NEW types, NEW args, NEW response, RemoteCall(name, types, args, response)
      PROVE  lastCall'.how = "remote"
  <2>1. \E ran, outcome, result :
          lastCall' = Called("remote", name, types, args, ran, outcome, result)
    BY <1>2 DEF RemoteCall
  <2> QED  BY <2>1, CalledIs
<1>3. ASSUME NEW params, OnReceiveNotification(name, params)
      PROVE  lastCall'.how = "notification" /\ lastCall'.name = name
  <2>1. \E ran, outcome, result :
          lastCall' = Called("notification", name, NoTypes, params, ran, outcome, result)
    BY <1>3 DEF OnReceiveNotification
  <2> QED  BY <2>1, CalledIs
<1>4. ASSUME NEW id, OnReceiveRequest(id) PROVE lastCall'.how = "request"
  BY <1>4, CalledIs DEF OnReceiveRequest
<1> QED  BY <1>1, <1>2, <1>3, <1>4

(* Every caller and every function that agree on the types get from each     *)
(* other what was passed, texts up to their first NUL, and the caller what   *)
(* the function throws: whatever the functions, the callers and the remote   *)
(* end, and as long as no character is among the types and no third          *)
(* parameter differs from the second.  No function with a parameter that is  *)
(* decoded as a character is ever called by a caller that agrees.            *)
THEOREM CallsArrive == DispatcherSpec => []CallsArriveAsMade
<1>1. DispatcherInit => CallsInv
  <2>1. SUFFICES ASSUME DispatcherInit PROVE CallsInv  OBVIOUS
  <2>2. DOMAIN mFunctions = {} /\ lastCall = NoCall  BY <2>1 DEF DispatcherInit
  <2> QED  BY <2>2, NoCallArrives DEF CallsInv, FunctionsKnown
<1>2. ASSUME CallsInv, [DispatcherNext]_dispatcherVars PROVE CallsInv'
  <2>1. FunctionsKnown  BY <1>2 DEF CallsInv
  <2>2. CASE UNCHANGED dispatcherVars
    BY <1>2, <2>2 DEF CallsInv, FunctionsKnown, dispatcherVars
  <2>3. ASSUME NEW name \in FunctionNames, NEW s \in Signatures, Register(name, s)
        PROVE  CallsInv'
    BY <2>1, <2>3, RegisterKeeps
  <2>4. ASSUME mFunctions' = mFunctions, ResultArrives(lastCall'),
               lastCall'.name \in DOMAIN mFunctions =>
                 /\ CallArrives(lastCall', mFunctions[lastCall'.name])
                 /\ NotificationArrives(lastCall', mFunctions[lastCall'.name])
        PROVE  CallsInv'
    BY <2>1, <2>4 DEF CallsInv, FunctionsKnown, Arrives
  <2>5. ASSUME NEW name \in FunctionNames, NEW call \in Calls,
               DispatcherCall(name, call.types, call.args)
        PROVE  CallsInv'
    <3>1. name \in DOMAIN mFunctions => CallArrives(lastCall', mFunctions[name])
      BY <2>1, <2>5, DispatcherCallArrives
    <3>2. lastCall'.how = "call" /\ lastCall'.name = name  BY <2>5, HowCalled
    <3>3. mFunctions' = mFunctions  BY <2>5 DEF DispatcherCall
    <3> QED  BY <2>4, <3>1, <3>2, <3>3, OneKind
  <2>6. ASSUME NEW name \in FunctionNames, NEW call \in Calls,
               NEW response \in Responses \cup {Lost},
               RemoteCall(name, call.types, call.args, response)
        PROVE  CallsInv'
    <3>1. ResultArrives(lastCall')  BY <2>6, RemoteCallArrives
    <3>2. lastCall'.how = "remote"  BY <2>6, HowCalled
    <3>3. mFunctions' = mFunctions  BY <2>6 DEF RemoteCall
    <3> QED  BY <2>4, <3>1, <3>2, <3>3, OneKind
  <2>7. ASSUME NEW name \in FunctionNames, NEW params \in Notified,
               OnReceiveNotification(name, params)
        PROVE  CallsInv'
    <3>1. name \in DOMAIN mFunctions => NotificationArrives(lastCall', mFunctions[name])
      BY <2>1, <2>7, OnReceiveNotificationArrives
    <3>2. lastCall'.how = "notification" /\ lastCall'.name = name  BY <2>7, HowCalled
    <3>3. mFunctions' = mFunctions  BY <2>7 DEF OnReceiveNotification
    <3> QED  BY <2>4, <3>1, <3>2, <3>3, OneKind
  <2>8. ASSUME NEW id \in Notified, OnReceiveRequest(id) PROVE CallsInv'
    <3>1. lastCall'.how = "request"  BY <2>8, HowCalled
    <3>2. mFunctions' = mFunctions  BY <2>8 DEF OnReceiveRequest
    <3> QED  BY <2>4, <3>1, <3>2, OneKind
  <2> QED  BY <1>2, <2>2, <2>3, <2>5, <2>6, <2>7, <2>8 DEF DispatcherNext
<1>3. CallsInv => CallsArriveAsMade  BY DEF CallsInv, CallsArriveAsMade, Arrives
<1> QED  BY <1>1, <1>2, <1>3, PTL DEF DispatcherSpec

==============================================================================
