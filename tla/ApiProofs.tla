----------------------------- MODULE ApiProofs -----------------------------
(***************************************************************************)
(* A request at the API: the guard of its body, the scan of the strings in *)
(* it, the connection its handler waits for, and the health endpoints.     *)
(*                                                                         *)
(* The guard lets no refused value through and refuses nothing else, for   *)
(* every body: a node that is reached is on the stack, in the frame or     *)
(* visited (Reached), visited nodes are clean and their children reached   *)
(* (BodyInv), and in a tree a node of least depth that was not visited     *)
(* would have a visited parent (AllVisited).                               *)
(*                                                                         *)
(* For a pool of any size and any number of requests no connection leaks,  *)
(* and whoever waits, waits for a request that can go on.                  *)
(*                                                                         *)
(* The health endpoints leave no Redis client behind, and a probe fails    *)
(* only if an outage, the shutdown or a dead connection disturbed it.      *)
(***************************************************************************)
EXTENDS BodyGuard, StringGuard, ApiPool, HealthChecks, WellFoundedInduction, TLAPS

\* A set of naturals that is not empty has a least element.
LEMMA LeastNatural ==
  ASSUME NEW T, T \subseteq Nat, T # {}
  PROVE  \E x \in T : \A y \in T : x <= y
<1> DEFINE R == OpToRel(<, Nat)
<1>1. IsWellFoundedOn(R, Nat)
  BY NatLessThanWellFounded, Zenon
<1>2. PICK x \in T : \A y \in T : ~(<<y, x>> \in R)
  <2> HIDE DEF R
  <2> QED  BY <1>1, WFMin, Zenon
<1>3. ASSUME NEW y \in T  PROVE x <= y
  <2>1. ~(<<y, x>> \in {ss \in Nat \X Nat : ss[1] < ss[2]})
    BY <1>2, Zenon DEF OpToRel
  <2> QED  BY <2>1
<1> QED  BY <1>2, <1>3, Zenon

-----------------------------------------------------------------------------
(* The guard of the body *)

Stacked == {pending[i].node : i \in DOMAIN pending}

Reached == visited \cup Stacked \cup (IF frame.active THEN {frame.node} ELSE {})

\* Entries 1..k-1 of n are clean, and the nodes among them are reached.
DoneUpTo(n, k) ==
  \A i \in DOMAIN entries[n] : i < k =>
    /\ Problem(entries[n][i]) = "none"
    /\ entries[n][i].child \in Nodes => entries[n][i].child \in Reached

BodyInv ==
  /\ TypeOK
  /\ IsTree(entries, depth)
  /\ result = "start" => pending = <<>> /\ ~frame.active /\ visited = {}
  /\ result = "none" => body \notin {"controlCharacter", "loneSurrogate"}
  /\ result = "none" /\ body = Root => Root \in Reached
  /\ result = "none" => \A n \in visited :
       depth[n] <= MaxDepth /\ DoneUpTo(n, Len(entries[n]) + 1)
  /\ result = "none" /\ frame.active =>
       depth[frame.node] <= MaxDepth /\ DoneUpTo(frame.node, frame.index)
  /\ CleanMeansClean
  /\ ViolationIsReal

\* When nothing is left to visit, everything has been visited.
LEMMA AllVisited ==
  ASSUME BodyInv, result = "none", body = Root, pending = <<>>, ~frame.active
  PROVE  visited = Nodes
<1> USE GuardAssumption
<1>1. Reached = visited
  BY DEF Reached, Stacked
<1>2. /\ Root \in visited /\ visited \subseteq Nodes
      /\ depth \in [Nodes -> Nat] /\ entries \in [Nodes -> Seq(Entry)]
      /\ IsTree(entries, depth)
  BY <1>1, Zenon DEF BodyInv, TypeOK
<1>3. ASSUME NEW n \in visited, NEW i \in DOMAIN entries[n], entries[n][i].child \in Nodes
      PROVE  entries[n][i].child \in visited
  <2>1. DOMAIN entries[n] = 1..Len(entries[n]) /\ Len(entries[n]) \in Nat
    BY <1>2
  <2>2. i < Len(entries[n]) + 1
    BY <1>3, <2>1
  <2>3. DoneUpTo(n, Len(entries[n]) + 1)
    BY <1>3, Zenon DEF BodyInv
  <2> QED  BY <1>1, <1>3, <2>2, <2>3, Zenon DEF DoneUpTo
<1> SUFFICES ASSUME Nodes \ visited # {}  PROVE FALSE
  BY <1>2, Zenon
<1> DEFINE D == {depth[n] : n \in Nodes \ visited}
<1>4. D \subseteq Nat /\ D # {}
  BY <1>2, Zenon
<1>5. PICK d \in D : \A e \in D : d <= e
  <2> HIDE DEF D
  <2> QED  BY <1>4, LeastNatural, Zenon
<1>6. PICK c \in Nodes \ visited : depth[c] = d
  BY <1>5, Zenon
<1>7. PICK m \in Nodes : \E i \in DOMAIN entries[m] : entries[m][i].child = c
  BY <1>2, <1>6, Zenon DEF IsTree
<1>8. PICK i \in DOMAIN entries[m] : entries[m][i].child = c
  BY <1>7, Zenon
<1>9. depth[c] = depth[m] + 1
  BY <1>2, <1>6, <1>8, Zenon DEF IsTree
<1>10. m \notin visited
  BY <1>3, <1>6, <1>8, Zenon
<1>11. d <= depth[m]
  BY <1>5, <1>10, Zenon
<1> QED  BY <1>2, <1>6, <1>9, <1>11

\* The walk starts from any tree.
LEMMA BodyInit == Init => BodyInv
<1> USE GuardAssumption
<1> SUFFICES ASSUME Init  PROVE BodyInv
  BY Zenon
<1>1. PICK b \in Bodies : entries = b.entries /\ depth = b.depth
  BY Zenon DEF Init
<1>2. /\ entries \in [Nodes -> Seq(Entry)] /\ depth \in [Nodes -> Nat]
      /\ IsTree(entries, depth)
  BY <1>1, Zenon
<1>3. pending = <<>> /\ visited = {} /\ result = "start" /\ body \in {Root} \cup Leaves
  BY Zenon DEF Init
<1>4. frame \in [active : BOOLEAN, node : Nodes, depth : Nat, index : Nat \ {0}] /\ ~frame.active
  BY DEF Init, NoFrame
<1>5. pending \in Seq(Item)
  BY <1>3
<1>6. TypeOK
  BY <1>2, <1>3, <1>4, <1>5 DEF TypeOK
<1> QED  BY <1>2, <1>3, <1>4, <1>6, Zenon DEF BodyInv, CleanMeansClean, ViolationIsReal, Violations

\* The walk begins with the body alone on the stack.
LEMMA StartPreserves ==
  ASSUME BodyInv, Start
  PROVE  BodyInv'
<1> USE GuardAssumption
<1>1. /\ result = "start" /\ pending = <<>> /\ ~frame.active /\ visited = {}
      /\ body' = body /\ entries' = entries /\ depth' = depth /\ frame' = frame
      /\ visited' = visited
  BY Zenon DEF Start, BodyInv
<1>2. TypeOK
  BY Zenon DEF BodyInv
<1>3. IsTree(entries, depth)
  BY Zenon DEF BodyInv
<1>4. depth[Root] = 1
  BY <1>3, Zenon DEF IsTree
<1>5. CASE body \in {"controlCharacter", "loneSurrogate"}
  <2>1. result' = body /\ pending' = pending
    BY <1>1, <1>5, Zenon DEF Start
  <2>2. TypeOK'
    BY <1>1, <1>2, <1>5, <2>1, Zenon DEF TypeOK, Violations
  <2> QED
    BY <1>1, <1>3, <1>5, <2>1, <2>2, Zenon DEF BodyInv, CleanMeansClean, ViolationIsReal
<1>6. CASE body = "text"
  <2>1. result' = "clean" /\ pending' = pending /\ body # Root
    BY <1>1, <1>6, Zenon DEF Start, Leaves
  <2>2. TypeOK'
    BY <1>1, <1>2, <2>1, Zenon DEF TypeOK
  <2> QED
    BY <1>1, <1>3, <1>6, <2>1, <2>2, Zenon DEF BodyInv, CleanMeansClean, ViolationIsReal, Violations
<1>7. CASE body \notin {"controlCharacter", "loneSurrogate", "text"}
  <2>1. /\ result' = "none"
        /\ pending' = IF body = Root THEN <<[node |-> Root, depth |-> 1]>> ELSE <<>>
    BY <1>1, <1>7, Zenon DEF Start
  <2>2. /\ pending' \in Seq(Item)
        /\ \A i \in DOMAIN pending' : pending'[i].depth = depth[pending'[i].node]
    <3>1. CASE body = Root
      BY <1>4, <2>1, <3>1 DEF Item
    <3>2. CASE body # Root
      BY <2>1, <3>2
    <3> QED  BY <3>1, <3>2, Zenon
  <2>3. TypeOK'
    BY <1>1, <1>2, <2>1, <2>2, Zenon DEF TypeOK
  <2>4. body = Root => Root \in Stacked'
    BY <2>1 DEF Stacked
  <2>5. body = Root => Root \in Reached'
    BY <2>4, Zenon DEF Reached
  <2> QED
    BY <1>1, <1>3, <1>7, <2>1, <2>3, <2>5, Zenon
       DEF BodyInv, CleanMeansClean, ViolationIsReal, Violations
<1> QED  BY <1>5, <1>6, <1>7, Zenon

\* Taking the top of the stack into the frame loses no node.
LEMMA PopPreserves ==
  ASSUME BodyInv, Pop
  PROVE  BodyInv'
<1> USE GuardAssumption
<1> DEFINE n == Len(pending)
           top == pending[n]
<1>1. /\ result = "none" /\ ~frame.active /\ pending # <<>>
      /\ body' = body /\ entries' = entries /\ depth' = depth /\ visited' = visited
      /\ pending' = SubSeq(pending, 1, n - 1)
  BY Zenon DEF Pop, Walking
<1>2. TypeOK /\ IsTree(entries, depth)
  BY Zenon DEF BodyInv
<1>3. pending \in Seq(Item) /\ n \in Nat /\ n >= 1 /\ DOMAIN pending = 1..n
  BY <1>1, <1>2 DEF TypeOK
<1>4. top \in Item /\ top.depth = depth[top.node]
  BY <1>2, <1>3 DEF TypeOK
<1>5. top.node \in Nodes /\ top.depth \in Nat
  BY <1>4, Zenon DEF Item
<1>6. /\ pending' \in Seq(Item) /\ DOMAIN pending' = 1..(n - 1)
      /\ \A i \in 1..(n - 1) : pending'[i] = pending[i]
  BY <1>1, <1>3
<1>7. \A i \in DOMAIN pending' : pending'[i].depth = depth[pending'[i].node]
  <2>1. \A i \in 1..n : pending[i].depth = depth[pending[i].node]
    BY <1>2, <1>3, Zenon DEF TypeOK
  <2> HIDE DEF n
  <2>2. \A i \in 1..(n - 1) : i \in 1..n
    BY <1>3
  <2> QED  BY <1>6, <2>1, <2>2, Zenon
<1>8. CASE top.depth > MaxDepth
  <2>1. result' = "depth" /\ frame' = frame
    BY <1>8, Zenon DEF Pop, TooDeep
  <2>2. TypeOK'
    BY <1>1, <1>2, <1>6, <1>7, <2>1, Zenon DEF TypeOK, Violations
  <2>3. ViolationIsReal'
    BY <1>1, <1>4, <1>5, <1>8, <2>1, Zenon DEF ViolationIsReal
  <2> QED  BY <1>1, <1>2, <2>1, <2>2, <2>3, Zenon DEF BodyInv, CleanMeansClean
<1>9. CASE ~(top.depth > MaxDepth)
  <2>1. /\ result' = "none"
        /\ frame' = [active |-> TRUE, node |-> top.node, depth |-> top.depth, index |-> 1]
    BY <1>1, <1>9, Zenon DEF Pop, TooDeep
  <2>2. /\ frame' \in [active : BOOLEAN, node : Nodes, depth : Nat, index : Nat \ {0}]
        /\ frame'.active /\ frame'.node = top.node /\ frame'.depth = top.depth
        /\ frame'.index = 1
    BY <1>5, <2>1
  <2>3. TypeOK'
    BY <1>1, <1>2, <1>4, <1>6, <1>7, <2>1, <2>2, Zenon DEF TypeOK
  <2>4. Stacked = Stacked' \cup {top.node}
    <3>1. /\ Stacked = {pending[i].node : i \in 1..n}
          /\ Stacked' = {pending'[i].node : i \in 1..(n - 1)}
      BY <1>3, <1>6, Zenon DEF Stacked
    <3> HIDE DEF n
    <3>2. 1..n = (1..(n - 1)) \cup {n}
      BY <1>3
    <3> QED  BY <1>6, <3>1, <3>2, Zenon
  <2>5. Reached' = Reached
    BY <1>1, <2>2, <2>4, Zenon DEF Reached
  <2>6. \A m \in Nodes, k \in Nat : DoneUpTo(m, k)' <=> DoneUpTo(m, k)
    BY <1>1, <2>5, Zenon DEF DoneUpTo
  <2>7. \A m \in visited : depth'[m] <= MaxDepth /\ DoneUpTo(m, Len(entries[m]) + 1)'
    <3>1. \A m \in visited : m \in Nodes /\ Len(entries[m]) + 1 \in Nat
      BY <1>2 DEF TypeOK
    <3> QED  BY <1>1, <2>6, <3>1, Zenon DEF BodyInv
  <2>8. DOMAIN entries[top.node] = 1..Len(entries[top.node])
    BY <1>2, <1>5 DEF TypeOK
  <2>9. DoneUpTo(frame.node, frame.index)'
    BY <1>1, <2>2, <2>8 DEF DoneUpTo
  <2>10. depth'[frame'.node] <= MaxDepth
    BY <1>1, <1>4, <1>5, <1>9, <2>2
  <2> HIDE DEF n, top
  <2> QED
    BY <1>1, <1>2, <2>1, <2>3, <2>5, <2>7, <2>9, <2>10, Zenon
       DEF BodyInv, CleanMeansClean, ViolationIsReal, Violations
<1> QED  BY <1>8, <1>9, Zenon

\* An entry is refused with its own violation, or it is clean and its node is
\* on the stack.
LEMMA ScanEntryPreserves ==
  ASSUME BodyInv, ScanEntry
  PROVE  BodyInv'
<1> USE GuardAssumption
<1> DEFINE m == frame.node
           k == frame.index
           e == entries[m][k]
<1>1. /\ result = "none" /\ frame.active /\ k <= Len(entries[m])
      /\ body' = body /\ entries' = entries /\ depth' = depth /\ visited' = visited
      /\ result' = Problem(e)
      /\ frame' = [frame EXCEPT !.index = @ + 1]
  BY Zenon DEF ScanEntry, Walking
<1>2. TypeOK /\ IsTree(entries, depth)
  BY Zenon DEF BodyInv
<1>3. frame \in [active : BOOLEAN, node : Nodes, depth : Nat, index : Nat \ {0}]
  BY <1>2, Zenon DEF TypeOK
<1>4. m \in Nodes /\ frame.depth \in Nat /\ k \in Nat \ {0} /\ frame.depth = depth[m]
  BY <1>1, <1>2, <1>3, Zenon DEF TypeOK
<1>5. entries[m] \in Seq(Entry)
  BY <1>2, <1>4, Zenon DEF TypeOK
<1>6. k \in DOMAIN entries[m] /\ e \in Entry
  BY <1>1, <1>4, <1>5
<1>7. e.key \in Keys /\ e.child \in Nodes \cup Leaves
  BY <1>6, Zenon DEF Entry
<1>8. Problem(e) \in (Violations \ {"depth"}) \cup {"none"}
  BY Zenon DEF Problem, Violations
<1>9. /\ frame' \in [active : BOOLEAN, node : Nodes, depth : Nat, index : Nat \ {0}]
      /\ frame'.active /\ frame'.node = m /\ frame'.depth = frame.depth
      /\ frame'.index = k + 1
  <2>1. k + 1 \in Nat \ {0}
    BY <1>4
  <2> QED  BY <1>1, <1>3, <2>1, Zenon
<1>10. CASE Problem(e) # "none"
  <2>1. pending' = pending
    BY <1>10, Zenon DEF ScanEntry
  <2>2. TypeOK'
    BY <1>1, <1>2, <1>4, <1>8, <1>9, <2>1, Zenon DEF TypeOK
  <2>3. ViolationIsReal'
    <3>1. result' # "depth"
      BY <1>1, <1>8, <1>10, Zenon DEF Violations
    <3>2. \E a \in Nodes : \E i \in DOMAIN entries'[a] : Problem(entries'[a][i]) = result'
      BY <1>1, <1>4, <1>6, Zenon
    <3> QED  BY <3>1, <3>2, Zenon DEF ViolationIsReal
  <2>4. result' \notin {"start", "none", "clean"}
    BY <1>1, <1>8, <1>10, Zenon DEF Violations
  <2> QED  BY <1>1, <1>2, <2>2, <2>3, <2>4, Zenon DEF BodyInv, CleanMeansClean
<1>11. CASE Problem(e) = "none"
  <2> DEFINE item == [node |-> e.child, depth |-> frame.depth + 1]
  <2>1. pending \in Seq(Item)
    BY <1>2, Zenon DEF TypeOK
  <2>2. \A i \in DOMAIN pending : pending[i].depth = depth[pending[i].node]
    BY <1>2, Zenon DEF TypeOK
  <2>3. /\ pending' \in Seq(Item)
        /\ \A i \in DOMAIN pending' : pending'[i].depth = depth[pending'[i].node]
        /\ Stacked \subseteq Stacked'
        /\ e.child \in Nodes => e.child \in Stacked'
    <3>1. CASE e.child \in Nodes
      <4>1. depth[e.child] = depth[m] + 1
        BY <1>2, <1>4, <1>6, <3>1 DEF IsTree
      <4>2. item \in Item /\ item.node = e.child /\ item.depth = depth[e.child]
        BY <1>4, <3>1, <4>1 DEF Item
      <4>3. pending' = Append(pending, item)
        BY <1>11, <3>1, Zenon DEF ScanEntry
      <4> HIDE DEF item
      <4>4. /\ pending' \in Seq(Item) /\ Len(pending) \in Nat
            /\ DOMAIN pending' = 1..(Len(pending) + 1) /\ DOMAIN pending = 1..Len(pending)
            /\ \A i \in 1..Len(pending) : pending'[i] = pending[i]
            /\ pending'[Len(pending) + 1] = item
        BY <2>1, <4>2, <4>3
      <4>5. DOMAIN pending' = DOMAIN pending \cup {Len(pending) + 1}
        BY <4>4
      <4>6. \A i \in DOMAIN pending' : pending'[i].depth = depth[pending'[i].node]
        BY <2>2, <4>2, <4>4, <4>5, Zenon
      <4>7. Stacked \subseteq Stacked' /\ e.child \in Stacked'
        BY <4>2, <4>4, <4>5, Zenon DEF Stacked
      <4> QED  BY <4>4, <4>6, <4>7, Zenon
    <3>2. CASE e.child \notin Nodes
      <4>1. pending' = pending
        BY <3>2, Zenon DEF ScanEntry
      <4> QED  BY <2>1, <2>2, <3>2, <4>1, Zenon DEF Stacked
    <3> QED  BY <3>1, <3>2, Zenon
  <2> HIDE DEF item
  <2>4. TypeOK'
    BY <1>1, <1>2, <1>4, <1>9, <1>11, <2>3, Zenon DEF TypeOK
  <2>5. Reached \subseteq Reached' /\ (e.child \in Nodes => e.child \in Reached')
    BY <1>1, <1>9, <2>3, Zenon DEF Reached
  <2>6. \A a \in Nodes, j \in Nat : DoneUpTo(a, j) => DoneUpTo(a, j)'
    BY <1>1, <2>5, Zenon DEF DoneUpTo
  <2>7. \A a \in visited : depth'[a] <= MaxDepth /\ DoneUpTo(a, Len(entries[a]) + 1)'
    <3>1. \A a \in visited : a \in Nodes /\ Len(entries[a]) + 1 \in Nat
      BY <1>2 DEF TypeOK
    <3> QED  BY <1>1, <2>6, <3>1, Zenon DEF BodyInv
  <2>8. DoneUpTo(frame.node, frame.index)'
    <3>1. \A i \in DOMAIN entries[m] : i < k =>
            /\ Problem(entries[m][i]) = "none"
            /\ entries[m][i].child \in Nodes => entries[m][i].child \in Reached'
      BY <1>1, <2>5, Zenon DEF BodyInv, DoneUpTo
    <3>2. \A i \in DOMAIN entries[m] : i < k + 1 => i < k \/ i = k
      BY <1>4, <1>5
    <3>3. \A i \in DOMAIN entries[m] : i < k + 1 =>
            /\ Problem(entries[m][i]) = "none"
            /\ entries[m][i].child \in Nodes => entries[m][i].child \in Reached'
      BY <1>11, <2>5, <3>1, <3>2, Zenon
    <3> QED  BY <1>1, <1>9, <3>3, Zenon DEF DoneUpTo
  <2>9. depth'[frame'.node] <= MaxDepth
    BY <1>1, <1>9, Zenon DEF BodyInv
  <2>10. result' = "none"
    BY <1>1, <1>11, Zenon
  <2> HIDE DEF m, k, e
  <2> QED
    BY <1>1, <1>2, <2>4, <2>5, <2>7, <2>8, <2>9, <2>10, Zenon
       DEF BodyInv, CleanMeansClean, ViolationIsReal, Violations
<1> QED  BY <1>10, <1>11, Zenon

\* A node is visited once all of its entries have been looked at.
LEMMA EndOfNodePreserves ==
  ASSUME BodyInv, EndOfNode
  PROVE  BodyInv'
<1> USE GuardAssumption
<1>1. /\ result = "none" /\ frame.active /\ frame.index > Len(entries[frame.node])
      /\ body' = body /\ entries' = entries /\ depth' = depth /\ pending' = pending
      /\ result' = result /\ visited' = visited \cup {frame.node}
  BY Zenon DEF EndOfNode, Walking
<1>2. TypeOK /\ IsTree(entries, depth)
  BY Zenon DEF BodyInv
<1>3. /\ frame' \in [active : BOOLEAN, node : Nodes, depth : Nat, index : Nat \ {0}]
      /\ ~frame'.active
  BY DEF EndOfNode, NoFrame
<1>4. frame.node \in Nodes /\ frame.index \in Nat
  BY <1>2, Zenon DEF TypeOK
<1>5. TypeOK'
  BY <1>1, <1>2, <1>3, <1>4, Zenon DEF TypeOK
<1>6. Reached' = Reached
  BY <1>1, <1>3, Zenon DEF Reached, Stacked
<1>7. \A a \in Nodes, j \in Nat : DoneUpTo(a, j) => DoneUpTo(a, j)'
  BY <1>1, <1>6, Zenon DEF DoneUpTo
<1>8. \A a \in Nodes : Len(entries[a]) \in Nat /\ DOMAIN entries[a] = 1..Len(entries[a])
  BY <1>2 DEF TypeOK
<1>9. DoneUpTo(frame.node, Len(entries[frame.node]) + 1)
  <2>1. DoneUpTo(frame.node, frame.index)
    BY <1>1, Zenon DEF BodyInv
  <2>2. \A i \in DOMAIN entries[frame.node] : i < frame.index
    BY <1>1, <1>4, <1>8
  <2> QED  BY <2>1, <2>2, Zenon DEF DoneUpTo
<1>10. depth[frame.node] <= MaxDepth
  BY <1>1, Zenon DEF BodyInv
<1>11. \A a \in visited : a \in Nodes /\ depth[a] <= MaxDepth /\ DoneUpTo(a, Len(entries[a]) + 1)
  BY <1>1, <1>2, Zenon DEF BodyInv, TypeOK
<1>12. \A a \in visited' : depth'[a] <= MaxDepth /\ DoneUpTo(a, Len(entries[a]) + 1)'
  <2> SUFFICES ASSUME NEW a \in visited'
               PROVE  depth'[a] <= MaxDepth /\ DoneUpTo(a, Len(entries[a]) + 1)'
    BY Zenon
  <2>1. a \in Nodes /\ depth[a] <= MaxDepth /\ DoneUpTo(a, Len(entries[a]) + 1)
    BY <1>1, <1>4, <1>9, <1>10, <1>11, Zenon
  <2>2. Len(entries[a]) + 1 \in Nat
    BY <1>8, <2>1
  <2> QED  BY <1>1, <1>7, <2>1, <2>2, Zenon
<1> QED
  BY <1>1, <1>2, <1>3, <1>5, <1>6, <1>12, Zenon
     DEF BodyInv, CleanMeansClean, ViolationIsReal, Violations

\* The stack is empty only when every node of the tree is visited.
LEMMA FinishPreserves ==
  ASSUME BodyInv, Finish
  PROVE  BodyInv'
<1> USE GuardAssumption
<1>1. /\ result = "none" /\ ~frame.active /\ pending = <<>> /\ result' = "clean"
      /\ UNCHANGED <<body, entries, depth, pending, frame, visited>>
  BY Zenon DEF Finish, Walking
<1>2. TypeOK'
  BY <1>1, Zenon DEF BodyInv, TypeOK
<1>3. body \notin {"controlCharacter", "loneSurrogate"}
  BY <1>1, Zenon DEF BodyInv
<1>4. ASSUME body = Root, NEW n \in Nodes
      PROVE  /\ depth[n] <= MaxDepth
             /\ \A i \in DOMAIN entries[n] : Problem(entries[n][i]) = "none"
  <2>1. n \in visited
    BY <1>1, <1>4, AllVisited, Zenon
  <2>2. depth[n] <= MaxDepth /\ DoneUpTo(n, Len(entries[n]) + 1)
    BY <1>1, <2>1, Zenon DEF BodyInv
  <2>3. Len(entries[n]) \in Nat /\ DOMAIN entries[n] = 1..Len(entries[n])
    BY DEF BodyInv, TypeOK
  <2>4. \A i \in DOMAIN entries[n] : i < Len(entries[n]) + 1
    BY <2>3
  <2> QED  BY <2>2, <2>4, Zenon DEF DoneUpTo
<1>5. CleanMeansClean'
  BY <1>1, <1>3, <1>4, Zenon DEF CleanMeansClean
<1> QED  BY <1>1, <1>2, <1>5, Zenon DEF BodyInv, ViolationIsReal, Violations

-----------------------------------------------------------------------------
(* The invariant and the properties *)

\* BodyInv is inductive.
LEMMA BodyInvariance == Spec => []BodyInv
<1>1. BodyInv /\ [Next]_vars => BodyInv'
  <2> SUFFICES ASSUME BodyInv, [Next]_vars  PROVE BodyInv'
    BY Zenon
  <2>1. CASE UNCHANGED vars
    BY <2>1, SMTT(20) DEF vars, BodyInv, TypeOK, IsTree, CleanMeansClean, ViolationIsReal, DoneUpTo,
                Reached, Stacked
  <2> QED
    BY <2>1, StartPreserves, PopPreserves, ScanEntryPreserves, EndOfNodePreserves,
       FinishPreserves, Zenon DEF Next
<1> QED  BY <1>1, BodyInit, PTL DEF Spec

\* What findRequestBodyViolation lets through has no refused key or string and
\* no node below the depth limit, for bodies of every size and shape.
THEOREM PassedIsClean == Spec => []CleanMeansClean
<1>1. BodyInv => CleanMeansClean
  BY Zenon DEF BodyInv
<1> QED  BY <1>1, BodyInvariance, PTL

\* What findRequestBodyViolation reports is in the body.
THEOREM RefusedForReason == Spec => []ViolationIsReal
<1>1. BodyInv => ViolationIsReal
  BY Zenon DEF BodyInv
<1> QED  BY <1>1, BodyInvariance, PTL

-----------------------------------------------------------------------------
(* The scan is exact for every string: between two steps the prefix is fine  *)
(* and the scan does not stand behind a high surrogate.                      *)

StringInv ==
  /\ StringTypeOK
  /\ \A i \in 1..(index - 1) : Fine(i)
  /\ index > 1 => value[index - 1] # "high"
  /\ ScanIsExact

\* StringInv is inductive.
LEMMA StringInvariance == StringSpec => []StringInv
<1>1. StringInit => StringInv
  BY DEF StringInit, StringInv, StringTypeOK, ScanIsExact, Fine, Paired
<1>2. StringInv /\ [StringNext]_stringVars => StringInv'
  <2> SUFFICES ASSUME StringInv, [StringNext]_stringVars  PROVE StringInv'
    BY Zenon
  <2>1. value \in Seq(Classes) /\ Len(value) \in Nat /\ DOMAIN value = 1..Len(value)
    BY DEF StringInv, StringTypeOK
  <2>2. index \in 1..(Len(value) + 1)
    BY Zenon DEF StringInv, StringTypeOK
  <2>3. CASE UNCHANGED stringVars
    BY <2>3, Zenon DEF stringVars, StringInv, StringTypeOK, ScanIsExact, Fine, Paired
  <2>4. CASE End
    BY <2>1, <2>2, <2>4 DEF End, StringInv, StringTypeOK, ScanIsExact, Fine, Paired
  <2>5. CASE Step
    <3> DEFINE c == value[index]
    <3>1. value' = value /\ scanned = "none" /\ index <= Len(value) /\ c \in Classes
      BY <2>1, <2>2, <2>5 DEF Step
    <3>2. /\ StringTypeOK /\ (index > 1 => value[index - 1] # "high")
          /\ \A i \in 1..(index - 1) : Fine(i)
      BY Zenon DEF StringInv
    <3>3. CASE c = "control"
      BY <2>1, <2>2, <2>5, <3>1, <3>2, <3>3, Zenon
         DEF Step, StringInv, StringTypeOK, ScanIsExact, Fine, Paired
    <3>4. CASE c = "high" /\ PairAt(index)
      <4>1. index' = index + 2 /\ scanned' = "none" /\ index < Len(value) /\ value[index + 1] = "low"
        BY <2>5, <3>1, <3>4, Zenon DEF Step, PairAt
      <4>2. Fine(index) /\ Fine(index + 1)
        BY <2>1, <2>2, <3>4, <4>1 DEF Fine, Paired
      <4>3. \A i \in 1..(index + 1) : i \in 1..(index - 1) \/ i = index \/ i = index + 1
        BY <2>2
      <4>4. \A i \in 1..(index + 1) : Fine(i)
        BY <3>2, <4>2, <4>3, Zenon
      <4>5. \A i \in 1..(index' - 1) : Fine(i)'
        BY <2>2, <3>1, <4>1, <4>4 DEF Fine, Paired
      <4>6. StringTypeOK'
        BY <2>1, <2>2, <3>1, <3>2, <4>1, SMTT(20) DEF StringTypeOK
      <4> QED  BY <2>2, <3>1, <4>1, <4>5, <4>6 DEF StringInv, ScanIsExact
    <3>5. CASE c = "high" /\ ~PairAt(index)
      BY <2>1, <2>2, <2>5, <3>1, <3>2, <3>5, Zenon
         DEF Step, PairAt, StringInv, StringTypeOK, ScanIsExact, Fine, Paired
    <3>6. CASE c = "low"
      BY <2>1, <2>2, <2>5, <3>1, <3>2, <3>6, Zenon
         DEF Step, StringInv, StringTypeOK, ScanIsExact, Fine, Paired
    <3>7. CASE c = "unit"
      <4>1. index' = index + 1 /\ scanned' = "none"
        BY <2>5, <3>1, <3>7, Zenon DEF Step
      <4>2. Fine(index)
        BY <3>7, Zenon DEF Fine, Paired
      <4>3. \A i \in 1..index : i \in 1..(index - 1) \/ i = index
        BY <2>2
      <4>4. \A i \in 1..index : Fine(i)
        BY <3>2, <4>2, <4>3, Zenon
      <4>5. \A i \in 1..(index' - 1) : Fine(i)'
        BY <2>2, <3>1, <4>1, <4>4 DEF Fine, Paired
      <4>6. StringTypeOK'
        BY <2>1, <2>2, <3>1, <3>2, <4>1 DEF StringTypeOK
      <4> QED  BY <2>2, <3>1, <3>7, <4>1, <4>5, <4>6 DEF StringInv, ScanIsExact
    <3> QED  BY <3>1, <3>3, <3>4, <3>5, <3>6, <3>7, Zenon DEF Classes
  <2> QED  BY <2>3, <2>4, <2>5, Zenon DEF StringNext
<1> QED  BY <1>1, <1>2, PTL DEF StringSpec

\* findStringViolation reports the first unit that is not fine, and nothing
\* exactly when all are, for strings of every length.
THEOREM ScanExact == StringSpec => []ScanIsExact
<1>1. StringInv => ScanIsExact
  BY Zenon DEF StringInv
<1> QED  BY <1>1, StringInvariance, PTL

-----------------------------------------------------------------------------
(* The pool *)

\* The queue holds queued requests, each once, and they go on with a statement.
QueueInv ==
  /\ \A i \in 1..Len(queue) : pc[queue[i]] = "queued"
  /\ \A i, j \in 1..Len(queue) : i # j => queue[i] # queue[j]
  /\ \A r \in Requests : pc[r] = "queued" => then[r] \in Running

\* A request whose statements run has a connection.
HasConnection ==
  \A r \in Requests : pc[r] \in Running => \E c \in Connections : holder[c] = r

PoolInv == PoolTypeOK /\ QueueInv /\ NoConnectionLeaks /\ HasConnection

\* Nobody holds a connection at first.
LEMMA PoolInitInv == PoolInit => PoolInv
<1> SUFFICES ASSUME PoolInit PROVE PoolInv
  BY Zenon
<1>1. PoolTypeOK
  BY PoolAssumption DEF PoolInit, PoolTypeOK, Running
<1>2. QueueInv /\ NoConnectionLeaks /\ HasConnection
  BY DEF PoolInit, QueueInv, NoConnectionLeaks, HasConnection, Running
<1> QED
  BY <1>1, <1>2, Zenon DEF PoolInv

\* A request joins the end of the queue.
LEMMA ArriveInv == ASSUME PoolInv, NEW r \in Requests, Arrive(r) PROVE PoolInv'
<1> DEFINE step == IF request[r].kind = "read" THEN "query" ELSE "insert"
<1> USE DEF PoolInv
<1>1. /\ pc[r] = "arrived" /\ queue' = Append(queue, r)
      /\ then' = [then EXCEPT ![r] = step] /\ pc' = [pc EXCEPT ![r] = "queued"]
      /\ UNCHANGED <<request, holder, stored, reply, faults>>
  BY Zenon DEF Arrive, Connect
<1>2. step \in {"query", "insert"}
  BY Zenon
<1> HIDE DEF step
<1>3. /\ queue' \in Seq(Requests) /\ Len(queue') = Len(queue) + 1
      /\ \A i \in 1..Len(queue) : queue'[i] = queue[i]
      /\ queue'[Len(queue) + 1] = r
      /\ Len(queue) \in Nat
  BY <1>1 DEF PoolTypeOK
<1>4. PoolTypeOK'
  BY <1>1, <1>2, <1>3, Zenon DEF PoolTypeOK
<1>5. \A i \in 1..Len(queue) : queue[i] \in Requests /\ queue[i] # r
  BY <1>1 DEF PoolTypeOK, QueueInv
<1>6. \A i \in 1..Len(queue') : i \in 1..Len(queue) \/ i = Len(queue) + 1
  BY <1>3, SMTT(20)
<1>7. QueueInv'
  <2>1. \A i \in 1..Len(queue') : pc'[queue'[i]] = "queued"
    BY <1>1, <1>3, <1>5, <1>6, SMTT(20) DEF PoolTypeOK, QueueInv
  <2>2. \A i, j \in 1..Len(queue') : i # j => queue'[i] # queue'[j]
    BY <1>3, <1>5, <1>6, Zenon DEF QueueInv
  <2>3. \A q \in Requests : pc'[q] = "queued" => then'[q] \in Running
    BY <1>1, <1>2, Zenon DEF PoolTypeOK, QueueInv, Running
  <2> QED
    BY <2>1, <2>2, <2>3, Zenon DEF QueueInv
<1>8. NoConnectionLeaks' /\ HasConnection'
  BY <1>1 DEF PoolTypeOK, NoConnectionLeaks, HasConnection, Running
<1> QED
  BY <1>4, <1>7, <1>8, Zenon

\* The head of the queue gets the free connection.
LEMMA GrantInv == ASSUME PoolInv, NEW c \in Connections, Grant(c) PROVE PoolInv'
<1> DEFINE h == Head(queue)
<1> USE DEF PoolInv
<1>1. /\ holder[c] = Nobody /\ queue # <<>>
      /\ holder' = [holder EXCEPT ![c] = h] /\ pc' = [pc EXCEPT ![h] = then[h]]
      /\ queue' = Tail(queue)
      /\ UNCHANGED <<request, then, stored, reply, faults>>
  BY Zenon DEF Grant
<1>2. /\ h \in Requests /\ Len(queue) \in Nat /\ Len(queue) > 0 /\ h = queue[1]
      /\ queue' \in Seq(Requests) /\ Len(queue') = Len(queue) - 1
      /\ \A i \in 1..(Len(queue) - 1) : queue'[i] = queue[i + 1]
  BY <1>1, SMTT(20) DEF PoolTypeOK
<1> HIDE DEF h
<1>3. pc[h] = "queued" /\ then[h] \in Running /\ h # Nobody
  BY <1>2, PoolAssumption DEF QueueInv
<1>4. PoolTypeOK'
  BY <1>1, <1>2, <1>3, Zenon DEF PoolTypeOK
<1>5. \A i \in 1..Len(queue') : /\ queue'[i] = queue[i + 1] /\ i + 1 \in 1..Len(queue)
                                /\ queue'[i] \in Requests /\ queue'[i] # h
  BY <1>2 DEF PoolTypeOK, QueueInv
<1>6. QueueInv'
  <2>1. \A i \in 1..Len(queue') : pc'[queue'[i]] = "queued"
    BY <1>1, <1>5 DEF PoolTypeOK, QueueInv
  <2>2. \A i, j \in 1..Len(queue') : i # j => queue'[i] # queue'[j]
    BY <1>2, <1>5 DEF QueueInv
  <2>3. \A q \in Requests : pc'[q] = "queued" => then'[q] \in Running
    BY <1>1, <1>2, <1>3, Zenon DEF PoolTypeOK, QueueInv, Running
  <2> QED
    BY <2>1, <2>2, <2>3, Zenon DEF QueueInv
<1>7. \A d \in Connections : holder[d] # h
  BY <1>3, Zenon DEF NoConnectionLeaks, Running
<1>8. NoConnectionLeaks'
  BY <1>1, <1>2, <1>3, <1>7, Zenon DEF PoolTypeOK, NoConnectionLeaks
<1>9. HasConnection'
  BY <1>1, <1>2, <1>3, PoolAssumption, SMTT(20) DEF PoolTypeOK, HasConnection
<1> QED
  BY <1>4, <1>6, <1>8, <1>9, Zenon

\* A handler that ends gives its connection back, and the queue has changed in
\* nothing but that it may have lost the handler's place.
LEMMA EndInv ==
  ASSUME PoolInv, NEW r \in Requests, NEW answer \in {"created", "existing", "read", "unavailable"},
         Respond(r, answer), UNCHANGED <<request, then>>,
         stored' \in SUBSET Entries, faults' \in 0..MaxFaults,
         queue' \in Seq(Requests),
         \A i \in 1..Len(queue') : pc[queue'[i]] = "queued" /\ queue'[i] # r,
         \A i, j \in 1..Len(queue') : i # j => queue'[i] # queue'[j]
  PROVE  PoolInv'
<1> USE DEF PoolInv
<1>1. /\ holder' = [c \in Connections |-> IF holder[c] = r THEN Nobody ELSE holder[c]]
      /\ pc' = [pc EXCEPT ![r] = "done"] /\ reply' = [reply EXCEPT ![r] = answer]
  BY Zenon DEF Respond, Release
<1>2. PoolTypeOK'
  BY <1>1, Zenon DEF PoolTypeOK
<1>3. QueueInv'
  <2>1. \A i \in 1..Len(queue') : queue'[i] \in Requests
    BY SMTT(20)
  <2> QED
    BY <1>1, <2>1, Zenon DEF PoolTypeOK, QueueInv
<1>4. NoConnectionLeaks'
  <2>1. \A c \in Connections : holder'[c] # Nobody => holder'[c] = holder[c] /\ holder[c] # r
    BY <1>1, Zenon
  <2>2. \A c \in Connections : holder[c] \in Requests \cup {Nobody}
    BY Zenon DEF PoolTypeOK
  <2>3. \A q \in Requests : q # r => pc'[q] = pc[q]
    BY <1>1, Zenon DEF PoolTypeOK
  <2> QED
    BY <2>1, <2>2, <2>3, SMTT(20) DEF NoConnectionLeaks
<1>5. HasConnection'
  <2>1. \A q \in Requests : pc'[q] \in Running => q # r /\ pc[q] \in Running
    BY <1>1, Zenon DEF PoolTypeOK, Running
  <2> QED
    BY <1>1, <2>1, Zenon DEF HasConnection
<1> QED
  BY <1>2, <1>3, <1>4, <1>5, Zenon

\* The place of the timed out request is closed up.
LEMMA TimeoutInv == ASSUME PoolInv, NEW i \in 1..Len(queue), ConnectTimesOut(i) PROVE PoolInv'
<1> DEFINE r == queue[i]
           at(j) == IF j < i THEN j ELSE j + 1
<1> USE DEF PoolInv
<1>1. Len(queue) \in Nat /\ \A j \in 1..Len(queue) : queue[j] \in Requests
  BY DEF PoolTypeOK
<1>2. \A j \in 1..(Len(queue) - 1) : at(j) \in 1..Len(queue) /\ at(j) # i
  BY <1>1
<1>3. \A j, k \in 1..(Len(queue) - 1) : j # k => at(j) # at(k)
  BY <1>1
<1>4. queue' = [j \in 1..(Len(queue) - 1) |-> queue[at(j)]]
  BY Zenon DEF ConnectTimesOut, Without
<1> HIDE DEF at
<1>5. queue' \in Seq(Requests) /\ Len(queue') = Len(queue) - 1
  BY <1>1, <1>2, <1>4
<1>6. \A j \in 1..Len(queue') : queue'[j] = queue[at(j)]
  BY <1>4, <1>5, Zenon
<1>7. \A j \in 1..Len(queue') : at(j) \in 1..Len(queue) /\ at(j) # i
  BY <1>2, <1>5, Zenon
<1>8. \A j, k \in 1..Len(queue') : j # k => at(j) # at(k)
  BY <1>3, <1>5, Zenon
<1>9. ASSUME NEW j \in 1..Len(queue')
      PROVE  pc[queue'[j]] = "queued" /\ queue'[j] # r
  <2>1. PICK k \in 1..Len(queue) : k = at(j) /\ k # i
    BY <1>7, Zenon
  <2>2. queue'[j] = queue[k]
    BY <1>6, <2>1, Zenon
  <2>3. pc[queue[k]] = "queued" /\ queue[k] # queue[i]
    BY <2>1, SMTT(20) DEF QueueInv
  <2> QED  BY <2>2, <2>3, Zenon
<1>10. ASSUME NEW j \in 1..Len(queue'), NEW k \in 1..Len(queue'), j # k
       PROVE  queue'[j] # queue'[k]
  <2>1. PICK a \in 1..Len(queue) : a = at(j)
    BY <1>7, Zenon
  <2>2. PICK b \in 1..Len(queue) : b = at(k)
    BY <1>7, Zenon
  <2>3. a # b
    BY <1>8, <1>10, <2>1, <2>2, Zenon
  <2>4. queue[a] # queue[b]
    BY <2>3, SMTT(20) DEF QueueInv
  <2> QED  BY <1>6, <2>1, <2>2, <2>4, Zenon
<1>11. /\ Respond(r, "unavailable") /\ UNCHANGED <<request, then>> /\ r \in Requests
       /\ stored' \in SUBSET Entries /\ faults' \in 0..MaxFaults
  BY <1>1, Zenon DEF ConnectTimesOut, PoolTypeOK
<1> HIDE DEF r, PoolInv
<1> QED
  BY <1>5, <1>9, <1>10, <1>11, EndInv, Zenon

\* What the end of a running handler leaves of the queue.
LEMMA RunningNotQueued ==
  ASSUME PoolInv, NEW r \in Requests, pc[r] \in Running
  PROVE  /\ queue \in Seq(Requests)
         /\ \A i \in 1..Len(queue) : pc[queue[i]] = "queued" /\ queue[i] # r
         /\ \A i, j \in 1..Len(queue) : i # j => queue[i] # queue[j]
BY Zenon DEF PoolInv, PoolTypeOK, QueueInv, Running

\* Commits, lookups, queries and failed statements end their handler.
LEMMA EndingInv ==
  ASSUME PoolInv, NEW r \in Requests,
         Commit(r) \/ Lookup(r) \/ Query(r) \/ StatementFails(r)
  PROVE  PoolInv'
<1>1. pc[r] \in Running /\ UNCHANGED <<request, then, queue>>
  BY Zenon DEF Commit, Lookup, Query, StatementFails, Running
<1>2. PICK answer \in {"created", "existing", "read", "unavailable"} : Respond(r, answer)
  BY Zenon DEF Commit, Lookup, Query, StatementFails
<1>3. stored' \in SUBSET Entries
  BY Zenon DEF PoolInv, PoolTypeOK, Request, Commit, Lookup, Query, StatementFails
<1>4. faults' \in 0..MaxFaults
  BY PoolAssumption, SMTT(20) DEF PoolInv, PoolTypeOK, Commit, Lookup, Query, StatementFails
<1>5. /\ queue' \in Seq(Requests)
      /\ \A i \in 1..Len(queue') : pc[queue'[i]] = "queued" /\ queue'[i] # r
      /\ \A i, j \in 1..Len(queue') : i # j => queue'[i] # queue'[j]
  BY <1>1, RunningNotQueued, Zenon
<1> QED
  BY <1>1, <1>2, <1>3, <1>4, <1>5, EndInv, Zenon

\* The insert keeps the connection of its transaction.
LEMMA TryInsertInv == ASSUME PoolInv, NEW r \in Requests, TryInsert(r) PROVE PoolInv'
<1> USE DEF PoolInv
<1>1. PICK step \in {"work", "lookup"} : pc' = [pc EXCEPT ![r] = step]
  BY Zenon DEF TryInsert
<1>2. pc[r] = "insert" /\ UNCHANGED <<request, then, queue, holder, stored, reply, faults>>
  BY Zenon DEF TryInsert
<1>3. PoolTypeOK'
  BY <1>1, <1>2, Zenon DEF PoolTypeOK, Running
<1>4. \A q \in Requests : /\ pc'[q] \in Running <=> pc[q] \in Running
                          /\ pc'[q] = "queued" <=> pc[q] = "queued"
  BY <1>1, <1>2, Zenon DEF PoolTypeOK, Running
<1>5. QueueInv'
  BY <1>2, <1>4 DEF PoolTypeOK, QueueInv
<1>6. NoConnectionLeaks' /\ HasConnection'
  BY <1>2, <1>4 DEF PoolTypeOK, NoConnectionLeaks, HasConnection
<1> QED
  BY <1>3, <1>5, <1>6, Zenon

\* Every step preserves the invariant.
LEMMA PoolNextInv == PoolInv /\ [PoolNext]_poolVars => PoolInv'
<1> SUFFICES ASSUME PoolInv, [PoolNext]_poolVars PROVE PoolInv'
  BY Zenon
<1>1. CASE \E r \in Requests : RequestStep(r) \/ StatementFails(r)
  BY <1>1, ArriveInv, TryInsertInv, EndingInv, Zenon DEF RequestStep
<1>2. CASE \E c \in Connections : Grant(c)
  BY <1>2, GrantInv, Zenon
<1>3. CASE \E i \in 1..Len(queue) : ConnectTimesOut(i)
  BY <1>3, TimeoutInv, Zenon
<1>4. CASE UNCHANGED poolVars
  BY <1>4, Zenon DEF poolVars, PoolInv, PoolTypeOK, QueueInv, NoConnectionLeaks, HasConnection
<1> QED
  BY <1>1, <1>2, <1>3, <1>4, Zenon DEF PoolNext

\* A blocked request waits for one that holds a connection and is past its
\* insert, the only statement that waits.
LEMMA InvUnstuck == PoolInv => NobodyStuck
<1> SUFFICES ASSUME PoolInv PROVE NobodyStuck
  BY Zenon
<1>1. ASSUME NEW r \in Requests, Blocked(r)
      PROVE  \E c \in Connections : CanGoOn(holder[c]) /\ Blocks(holder[c], r)
  <2>1. PICK q \in Requests : Blocks(q, r)
    BY <1>1, Zenon DEF Blocked
  <2>2. pc[q] = "work"
    BY <2>1, Zenon DEF Blocks
  <2>3. PICK c \in Connections : holder[c] = q
    BY <2>2, Zenon DEF PoolInv, HasConnection, Running
  <2>4. CanGoOn(q)
    BY <2>2, PoolAssumption, Zenon DEF CanGoOn, Running, Blocked, Blocks
  <2> QED
    BY <2>1, <2>3, <2>4, Zenon
<1>2. ASSUME \A c \in Connections : holder[c] # Nobody
      PROVE  \E c \in Connections : CanGoOn(holder[c])
  <2>1. PICK c \in Connections : TRUE
    BY PoolAssumption, Zenon
  <2>2. holder[c] \in Requests /\ pc[holder[c]] \in Running
    BY <1>2, Zenon DEF PoolInv, PoolTypeOK, NoConnectionLeaks
  <2>3. CASE Blocked(holder[c])
    BY <2>2, <2>3, <1>1, Zenon
  <2>4. CASE ~Blocked(holder[c])
    BY <1>2, <2>2, <2>4, Zenon DEF CanGoOn
  <2> QED
    BY <2>3, <2>4, Zenon
<1> QED
  BY <1>1, <1>2, Zenon DEF NobodyStuck

\* A request holds one connection exactly while its statements may run, however
\* many connections and requests there are.
THEOREM ConnectionsReturn == PoolSpec => []NoConnectionLeaks
<1>1. PoolInv => NoConnectionLeaks
  BY Zenon DEF PoolInv
<1> QED
  BY <1>1, PoolInitInv, PoolNextInv, PTL DEF PoolSpec

\* No pool, however small, fills up with requests that wait for each other.
THEOREM PoolNeverStuck == PoolSpec => []NobodyStuck
  BY PoolInitInv, PoolNextInv, InvUnstuck, PTL DEF PoolSpec
-----------------------------------------------------------------------------
(* The health endpoints *)

Probe == [pc : {"idle", "pool", "query", "connect", "ping", "ok", "failedPostgres", "failedRedis"},
          kind : {"ready", "serving"}, client : Clients \cup {NoClient},
          attempt : Clients \cup {NoClient}, clean : BOOLEAN]

Conn == [state : {"none", "idle", "busy"}, broken : BOOLEAN, failed : BOOLEAN]

Client == [status : {"none", "wait", "connecting", "ready", "end"},
           broken : BOOLEAN, disconnected : BOOLEAN]

\* The connection of the pool is out while one probe uses it, and no other does.
OneUser ==
  /\ (conn.state = "busy") = \E p \in Probes : probe[p].pc = "query"
  /\ \A p, q \in Probes : probe[p].pc = "query" /\ probe[q].pc = "query" => p = q

\* A client that is not the current one is disconnected or has ended.
OthersGone ==
  \A c \in Clients :
    cl[c].status \in {"wait", "connecting", "ready"} /\ ~cl[c].disconnected => c = client

\* The client at hand is not disconnected.  A promise is that of its attempt, and
\* until onModuleDestroy no attempt runs without its promise: resetClient only
\* ever drops the promise of an attempt that has ended.
ClientInv ==
  /\ client # NoClient => /\ ~cl[client].disconnected
                          /\ cl[client].status \in {"connecting", "ready", "end"}
  /\ promise # NoClient => promise = client /\ cl[promise].status = "connecting"
  /\ ~destroyed => \A c \in Clients : cl[c].status = "connecting" => promise = c

\* A check that waits for an attempt waits for that of its own client, and the
\* client it has sent a PING to is ready.
ProbeInv ==
  \A p \in Probes :
    /\ probe[p].pc = "connect" => /\ probe[p].client \in Clients
                                  /\ probe[p].attempt = probe[p].client
                                  /\ cl[probe[p].client].status = "connecting"
    /\ probe[p].pc = "ping" => /\ probe[p].client \in Clients
                               /\ cl[probe[p].client].status = "ready"

\* A probe that nothing has disturbed finds everything it waits for in order, and
\* the client it uses is still the current one.
Undisturbed(p) ==
  /\ ~destroyed
  /\ postgres = "up"
  /\ probe[p].pc = "pool" => conn.state # "busy"
  /\ probe[p].pc \in {"pool", "query"} => ~conn.broken
  /\ probe[p].pc \in {"connect", "ping"} => /\ redis = "up"
                                            /\ probe[p].client = client
                                            /\ ~cl[client].broken
  /\ probe[p].pc \notin {"failedPostgres", "failedRedis"}

CleanInv == \A p \in Probes : probe[p].clean => Undisturbed(p)

HealthInv ==
  HealthTypeOK /\ ~conn.failed /\ OthersGone /\ ClientInv /\ ProbeInv /\ CleanInv

\* The type invariant in parts.
HealthParts ==
  /\ probe \in [Probes -> Probe]
  /\ postgres \in {"up", "down"}
  /\ pool \in {"none", "open", "ended"} /\ (pool = "ended" => destroyed)
  /\ conn \in Conn
  /\ redis \in {"up", "down", "hung"}
  /\ cl \in [Clients -> Client]
  /\ client \in Clients \cup {NoClient}
  /\ promise \in Clients \cup {NoClient}
  /\ destroyed \in BOOLEAN
  /\ outages \in 0..MaxOutages
  /\ OneUser

\* They make up the type invariant, before and after a step.
LEMMA HealthTypes ==
  /\ HealthTypeOK <=> HealthParts
  /\ HealthTypeOK' <=> HealthParts'
<1>1. HealthTypeOK <=> HealthParts
  BY Zenon DEF HealthTypeOK, HealthParts, Probe, Conn, Client, OneUser
<1>2. HealthTypeOK' <=> HealthParts'
  BY Zenon DEF HealthTypeOK, HealthParts, Probe, Conn, Client, OneUser
<1> QED  BY <1>1, <1>2, Zenon

\* The first state: no probe, no connection and no client.
LEMMA HealthInitial == ASSUME HealthInit PROVE HealthInv
<1>1. /\ \A p \in Probes : probe[p] = Idle
      /\ \A c \in Clients : cl[c] = NewClient
      /\ probe \in [Probes -> Probe] /\ cl \in [Clients -> Client]
      /\ conn = NoConn /\ conn \in Conn
  BY Zenon DEF HealthInit, Idle, NewClient, NoConn, Probe, Client, Conn
<1>2. outages \in 0..MaxOutages
  <2>1. outages = 0 /\ MaxOutages \in Nat
    BY HealthAssumption, Zenon DEF HealthInit
  <2> QED  BY <2>1
<1>3. OneUser
  <2>1. conn.state # "busy" /\ \A p \in Probes : probe[p].pc # "query"
    BY <1>1 DEF Idle, NoConn
  <2> QED  BY <2>1, Zenon DEF OneUser
<1>4. HealthTypeOK
  BY <1>1, <1>2, <1>3, HealthTypes, Zenon DEF HealthParts, HealthInit
<1>5. OthersGone /\ ClientInv
  BY <1>1, Zenon DEF OthersGone, ClientInv, HealthInit, NewClient
<1>6. ProbeInv /\ CleanInv
  BY <1>1 DEF ProbeInv, CleanInv, Idle
<1> QED  BY <1>1, <1>4, <1>5, <1>6, Zenon DEF HealthInv, NoConn

\* What the answer of a probe does to the probes.
LEMMA AnswerEffect ==
  ASSUME HealthInv, NEW p \in Probes, NEW to \in {"ok", "failedPostgres", "failedRedis"},
         Answer(p, to)
  PROVE  /\ probe' \in [Probes -> Probe]
         /\ probe'[p].pc = to /\ probe'[p].clean = probe[p].clean
         /\ \A q \in Probes \ {p} : probe'[q] = probe[q]
<1>1. probe \in [Probes -> Probe]
  BY HealthTypes, Zenon DEF HealthParts, HealthInv
<1> DEFINE r == [Idle EXCEPT !.pc = to, !.clean = probe[p].clean]
<1>2. r \in Probe /\ r.pc = to /\ r.clean = probe[p].clean
  BY <1>1, Zenon DEF Idle, Probe
<1>3. probe' = [probe EXCEPT ![p] = r]
  BY Zenon DEF Answer
<1> HIDE DEF r
<1> QED  BY <1>1, <1>2, <1>3, Zenon

\* A step in which no check starts to wait for a client, and which changes no
\* client that one waits for.
LEMMA ProbesKept ==
  ASSUME HealthInv,
         \A q \in Probes : probe'[q].pc \in {"connect", "ping"} =>
           /\ probe'[q].pc = probe[q].pc
           /\ probe'[q].client = probe[q].client
           /\ probe'[q].attempt = probe[q].attempt
           /\ probe[q].client \in Clients =>
                cl'[probe[q].client].status = cl[probe[q].client].status
  PROVE  ProbeInv'
<1>1. ASSUME NEW q \in Probes, probe'[q].pc = "connect"
      PROVE  /\ probe'[q].client \in Clients
             /\ probe'[q].attempt = probe'[q].client
             /\ cl'[probe'[q].client].status = "connecting"
  BY <1>1, Zenon DEF HealthInv, ProbeInv
<1>2. ASSUME NEW q \in Probes, probe'[q].pc = "ping"
      PROVE  probe'[q].client \in Clients /\ cl'[probe'[q].client].status = "ready"
  BY <1>2, Zenon DEF HealthInv, ProbeInv
<1> QED  BY <1>1, <1>2, Zenon DEF ProbeInv

\* A step that leaves the Redis clients alone, and in which no check starts to
\* wait for one, keeps what is said of them.
LEMMA ClientsKept ==
  ASSUME HealthInv, UNCHANGED <<cl, client, promise, destroyed>>,
         \A q \in Probes : probe'[q].pc \in {"connect", "ping"} =>
           /\ probe'[q].pc = probe[q].pc
           /\ probe'[q].client = probe[q].client
           /\ probe'[q].attempt = probe[q].attempt
  PROVE  OthersGone' /\ ClientInv' /\ ProbeInv'
<1>1. OthersGone' /\ ClientInv'
  BY Zenon DEF HealthInv, OthersGone, ClientInv
<1> QED  BY <1>1, ProbesKept, Zenon

\* OneUser from the probes that use the connection.
LEMMA UserFacts ==
  ASSUME OneUser
  PROVE  /\ conn.state = "busy" <=> \E p \in Probes : probe[p].pc = "query"
         /\ \A p, q \in Probes : probe[p].pc = "query" /\ probe[q].pc = "query" => p = q
BY Zenon DEF OneUser

\* A step that changes neither the connection nor who uses it.
LEMMA UserKept ==
  ASSUME OneUser, conn'.state = conn.state,
         \A q \in Probes : probe'[q].pc = "query" <=> probe[q].pc = "query"
  PROVE  OneUser'
BY Zenon DEF OneUser

\* No probe uses the connection after this step.
LEMMA NobodyUses ==
  ASSUME conn'.state # "busy", \A q \in Probes : probe'[q].pc # "query"
  PROVE  OneUser'
BY Zenon DEF OneUser

\* A request arrives.
LEMMA StartProbeKeeps ==
  ASSUME HealthInv, NEW p \in Probes, NEW kind \in {"ready", "serving"}, StartProbe(p, kind)
  PROVE  HealthInv'
<1>1. /\ probe \in [Probes -> Probe] /\ OneUser /\ destroyed \in BOOLEAN
      /\ conn \in Conn /\ postgres \in {"up", "down"}
      /\ pool \in {"none", "open", "ended"} /\ (pool = "ended" => destroyed)
  BY HealthTypes, Zenon DEF HealthParts, HealthInv
<1>2. /\ UNCHANGED <<postgres, conn, redis, cl, client, promise, destroyed, outages>>
      /\ pool' \in {"none", "open", "ended"} /\ (pool' = "ended" => destroyed')
  BY <1>1, Zenon DEF StartProbe, getPool, redisVars
<1> DEFINE ok == /\ ~destroyed
                 /\ postgres = "up"
                 /\ conn.state # "busy"
                 /\ conn.broken => conn.failed
           r == [Idle EXCEPT !.pc = IF pool = "ended" THEN "failedPostgres" ELSE "pool",
                             !.kind = kind, !.clean = ok]
<1>3. r \in Probe /\ r.clean = ok /\ r.pc \in {"failedPostgres", "pool"}
      /\ (r.pc = "failedPostgres" => destroyed)
  <2>1. ok \in BOOLEAN
    BY Zenon
  <2> HIDE DEF ok
  <2> QED  BY <1>1, <2>1, Zenon DEF Idle, Probe
<1>4. probe' = [probe EXCEPT ![p] = r] /\ probe[p].pc = "idle"
  BY Zenon DEF StartProbe
<1> HIDE DEF r
<1>5. /\ probe' \in [Probes -> Probe] /\ probe'[p] = r
      /\ \A q \in Probes \ {p} : probe'[q] = probe[q]
  BY <1>1, <1>3, <1>4, Zenon
<1>6. OneUser'
  BY <1>1, <1>2, <1>3, <1>4, <1>5, UserKept, Zenon
<1>7. HealthTypeOK'
  BY <1>2, <1>5, <1>6, HealthTypes, Zenon DEF HealthParts, HealthInv
<1>8. OthersGone' /\ ClientInv' /\ ProbeInv'
  BY <1>2, <1>3, <1>5, ClientsKept, Zenon
<1>9. ASSUME NEW q \in Probes, probe'[q].clean  PROVE Undisturbed(q)'
  <2>1. CASE q # p
    BY <1>2, <1>5, <1>9, <2>1, Zenon DEF HealthInv, CleanInv, Undisturbed
  <2>2. CASE q = p
    <3>1. ok /\ ~conn.failed
      BY <1>3, <1>5, <1>9, <2>2, Zenon DEF HealthInv
    <3> QED  BY <1>2, <1>3, <1>5, <2>2, <3>1, Zenon DEF Undisturbed
  <2> QED  BY <2>1, <2>2, Zenon
<1> QED  BY <1>2, <1>7, <1>8, <1>9, Zenon DEF HealthInv, CleanInv

\* The pool hands out its connection.
LEMMA PoolConnectsKeeps ==
  ASSUME HealthInv, NEW p \in Probes, PoolConnects(p)
  PROVE  HealthInv'
<1>1. /\ probe \in [Probes -> Probe] /\ OneUser /\ conn \in Conn
  BY HealthTypes, Zenon DEF HealthParts, HealthInv
<1>2. UNCHANGED <<postgres, pool, redis, cl, client, promise, destroyed, outages>>
  BY Zenon DEF PoolConnects, redisVars
<1>3. /\ probe[p].pc = "pool" /\ conn.state # "busy"
      /\ conn' \in Conn /\ conn'.state = "busy" /\ conn'.failed = FALSE
      /\ conn'.broken => conn.broken
  BY <1>1, Zenon DEF PoolConnects, NoConn, Conn, HealthInv
<1>4. /\ probe'[p] = [probe[p] EXCEPT !.pc = "query"]
      /\ \A q \in Probes \ {p} :
           IF probe[q].pc = "pool" THEN probe'[q] = [probe[q] EXCEPT !.clean = FALSE]
           ELSE probe'[q] = probe[q]
      /\ probe' = [q \in Probes |-> probe'[q]]
  BY Zenon DEF PoolConnects
<1>5. /\ probe'[p].pc = "query" /\ probe'[p].clean = probe[p].clean
      /\ \A q \in Probes \ {p} :
           /\ probe'[q].pc = probe[q].pc
           /\ probe'[q].client = probe[q].client
           /\ probe'[q].attempt = probe[q].attempt
           /\ probe'[q].clean => probe[q].clean /\ probe[q].pc # "pool"
      /\ probe' \in [Probes -> Probe]
  <2>1. ASSUME NEW q \in Probes
        PROVE  LET r == [probe[q] EXCEPT !.clean = FALSE]
               IN  /\ r \in Probe /\ r.pc = probe[q].pc /\ r.client = probe[q].client
                   /\ r.attempt = probe[q].attempt /\ r.clean = FALSE
    BY <1>1, Zenon DEF Probe
  <2>2. LET r == [probe[p] EXCEPT !.pc = "query"]
        IN  r \in Probe /\ r.pc = "query" /\ r.clean = probe[p].clean
    BY <1>1, Zenon DEF Probe
  <2>3. probe'[p].pc = "query" /\ probe'[p].clean = probe[p].clean /\ probe'[p] \in Probe
    BY <1>4, <2>2, Zenon
  <2>4. ASSUME NEW q \in Probes, q # p
        PROVE  /\ probe'[q].pc = probe[q].pc
               /\ probe'[q].client = probe[q].client
               /\ probe'[q].attempt = probe[q].attempt
               /\ probe'[q].clean => probe[q].clean /\ probe[q].pc # "pool"
               /\ probe'[q] \in Probe
    <3>1. CASE probe[q].pc = "pool"
      <4>1. probe'[q] = [probe[q] EXCEPT !.clean = FALSE]
        BY <1>4, <2>4, <3>1, Zenon
      <4> QED  BY <2>1, <4>1, Zenon
    <3>2. CASE probe[q].pc # "pool"
      <4>1. probe'[q] = probe[q]
        BY <1>4, <2>4, <3>2, Zenon
      <4> QED  BY <1>1, <3>2, <4>1, Zenon
    <3> QED  BY <3>1, <3>2, Zenon
  <2>5. probe' \in [Probes -> Probe]
    BY <1>4, <2>3, <2>4, Zenon
  <2> QED  BY <2>3, <2>4, <2>5, Zenon
<1>6. OneUser'
  <2>1. \A q \in Probes : probe[q].pc # "query"
    BY <1>1, <1>3, UserFacts, Zenon
  <2>2. \A q \in Probes : probe'[q].pc = "query" <=> q = p
    BY <1>5, <2>1, Zenon
  <2> QED  BY <1>3, <2>2, Zenon DEF OneUser
<1>7. HealthTypeOK'
  BY <1>2, <1>3, <1>5, <1>6, HealthTypes, Zenon DEF HealthParts, HealthInv
<1>8. OthersGone' /\ ClientInv' /\ ProbeInv'
  BY <1>2, <1>5, ClientsKept, Zenon
<1>9. ASSUME NEW q \in Probes, probe'[q].clean  PROVE Undisturbed(q)'
  <2>1. CASE q # p
    <3>1. /\ probe[q].clean /\ probe'[q].pc = probe[q].pc /\ probe[q].pc # "pool"
          /\ probe'[q].client = probe[q].client
      BY <1>5, <1>9, <2>1, Zenon
    <3>2. probe[q].pc # "query"
      BY <1>1, <1>3, UserFacts, Zenon
    <3> QED  BY <1>2, <3>1, <3>2, Zenon DEF HealthInv, CleanInv, Undisturbed
  <2>2. CASE q = p
    <3>1. Undisturbed(p) /\ probe'[p].pc = "query"
      BY <1>5, <1>9, <2>2, Zenon DEF HealthInv, CleanInv
    <3> QED  BY <1>2, <1>3, <2>2, <3>1, Zenon DEF Undisturbed
  <2> QED  BY <2>1, <2>2, Zenon
<1> QED  BY <1>3, <1>7, <1>8, <1>9, Zenon DEF HealthInv, CleanInv

\* A probe is answered while the clients stay as they are: it is enough that the
\* connection is right and that no undisturbed probe fails.
LEMMA AnswerKeeps ==
  ASSUME HealthInv, NEW p \in Probes, NEW to \in {"ok", "failedPostgres", "failedRedis"},
         Answer(p, to),
         UNCHANGED <<postgres, pool, redis, cl, client, promise, destroyed, outages>>,
         conn' \in Conn, ~conn'.failed, OneUser',
         \A q \in Probes \ {p} : probe[q].clean /\ probe[q].pc \in {"pool", "query"} => conn' = conn,
         probe[p].clean => to = "ok"
  PROVE  HealthInv'
<1>1. /\ probe' \in [Probes -> Probe]
      /\ probe'[p].pc = to /\ probe'[p].clean = probe[p].clean
      /\ \A q \in Probes \ {p} : probe'[q] = probe[q]
  BY AnswerEffect, Zenon
<1>2. HealthTypeOK'
  BY <1>1, HealthTypes, Zenon DEF HealthParts, HealthInv
<1>3. OthersGone' /\ ClientInv' /\ ProbeInv'
  BY <1>1, ClientsKept, Zenon
<1>4. ASSUME NEW q \in Probes, probe'[q].clean  PROVE Undisturbed(q)'
  <2>1. CASE q # p
    <3>1. probe'[q] = probe[q] /\ Undisturbed(q)
      BY <1>1, <1>4, <2>1, Zenon DEF HealthInv, CleanInv
    <3> QED  BY <1>4, <2>1, <3>1, Zenon DEF Undisturbed
  <2>2. CASE q = p
    <3>1. Undisturbed(p) /\ probe'[p].pc = "ok"
      BY <1>1, <1>4, <2>2, Zenon DEF HealthInv, CleanInv
    <3> QED  BY <2>2, <3>1, Zenon DEF Undisturbed
  <2> QED  BY <2>1, <2>2, Zenon
<1> QED  BY <1>2, <1>3, <1>4, Zenon DEF HealthInv, CleanInv

\* A probe waits for the connection for too long: something has disturbed it.
LEMMA PoolTimesOutKeeps ==
  ASSUME HealthInv, NEW p \in Probes, PoolTimesOut(p)
  PROVE  HealthInv'
<1>1. OneUser /\ conn \in Conn /\ postgres \in {"up", "down"} /\ (pool = "ended" => destroyed)
  BY HealthTypes, Zenon DEF HealthParts, HealthInv
<1>2. /\ UNCHANGED <<postgres, pool, conn, redis, cl, client, promise, destroyed, outages>>
      /\ Answer(p, "failedPostgres") /\ probe[p].pc = "pool"
  BY Zenon DEF PoolTimesOut, connVars, redisVars
<1>3. /\ probe'[p].pc = "failedPostgres"
      /\ \A q \in Probes \ {p} : probe'[q] = probe[q]
  BY <1>2, AnswerEffect, Zenon
<1>4. OneUser'
  BY <1>1, <1>2, <1>3, UserKept, Zenon
<1>5. ~probe[p].clean
  BY <1>1, <1>2, Zenon DEF HealthInv, CleanInv, Undisturbed, PoolTimesOut
<1> QED  BY <1>1, <1>2, <1>4, <1>5, AnswerKeeps, Zenon DEF HealthInv

\* The query fails and the connection is closed.
LEMMA QueryFailsKeeps ==
  ASSUME HealthInv, NEW p \in Probes, QueryFails(p)
  PROVE  HealthInv'
<1>1. OneUser /\ conn \in Conn
  BY HealthTypes, Zenon DEF HealthParts, HealthInv
<1>2. /\ UNCHANGED <<postgres, pool, redis, cl, client, promise, destroyed, outages>>
      /\ Answer(p, "failedPostgres") /\ probe[p].pc = "query" /\ conn' = NoConn
  BY Zenon DEF QueryFails, ReleaseConnection, redisVars
<1>3. conn' \in Conn /\ ~conn'.failed /\ conn'.state = "none"
  BY <1>2, Zenon DEF NoConn, Conn
<1>4. /\ probe'[p].pc = "failedPostgres"
      /\ \A q \in Probes \ {p} : probe'[q] = probe[q] /\ probe[q].pc # "query"
  BY <1>1, <1>2, AnswerEffect, UserFacts, Zenon
<1>5. OneUser'
  BY <1>3, <1>4, NobodyUses, Zenon
<1>6. ~probe[p].clean
  BY <1>2, Zenon DEF HealthInv, CleanInv, Undisturbed, QueryFails
<1>7. \A q \in Probes \ {p} : ~(probe[q].clean /\ probe[q].pc \in {"pool", "query"})
  <2>1. conn.state = "busy"
    BY <1>1, <1>2, UserFacts, Zenon
  <2> QED  BY <1>4, <2>1, Zenon DEF HealthInv, CleanInv, Undisturbed
<1> QED  BY <1>2, <1>3, <1>5, <1>6, <1>7, AnswerKeeps, Zenon

\* Redis answers a PING.
LEMMA PingAnsweredKeeps ==
  ASSUME HealthInv, NEW p \in Probes, PingAnswered(p)
  PROVE  HealthInv'
<1>1. OneUser /\ conn \in Conn
  BY HealthTypes, Zenon DEF HealthParts, HealthInv
<1>2. /\ UNCHANGED <<postgres, pool, conn, redis, cl, client, promise, destroyed, outages>>
      /\ Answer(p, "ok") /\ probe[p].pc = "ping"
  BY Zenon DEF PingAnswered, connVars, redisVars
<1>3. /\ probe'[p].pc = "ok"
      /\ \A q \in Probes \ {p} : probe'[q] = probe[q]
  BY <1>2, AnswerEffect, Zenon
<1>4. OneUser'
  BY <1>1, <1>2, <1>3, UserKept, Zenon
<1> QED  BY <1>1, <1>2, <1>4, AnswerKeeps, Zenon DEF HealthInv

\* A response has been sent.
LEMMA ReturnKeeps ==
  ASSUME HealthInv, NEW p \in Probes, Return(p)
  PROVE  HealthInv'
<1>1. probe \in [Probes -> Probe] /\ OneUser
  BY HealthTypes, Zenon DEF HealthParts, HealthInv
<1>2. UNCHANGED <<postgres, pool, conn, redis, cl, client, promise, destroyed, outages>>
  BY Zenon DEF Return, connVars, redisVars
<1>3. /\ probe' \in [Probes -> Probe]
      /\ probe'[p].pc = "idle" /\ probe'[p].clean = FALSE /\ probe[p].pc # "query"
      /\ \A q \in Probes \ {p} : probe'[q] = probe[q]
  BY <1>1, Zenon DEF Return, Idle, Probe
<1>4. OneUser'
  BY <1>1, <1>2, <1>3, UserKept, Zenon
<1>5. HealthTypeOK'
  BY <1>2, <1>3, <1>4, HealthTypes, Zenon DEF HealthParts, HealthInv
<1>6. OthersGone' /\ ClientInv' /\ ProbeInv'
  BY <1>2, <1>3, ClientsKept, Zenon
<1>7. CleanInv'
  BY <1>2, <1>3, Zenon DEF HealthInv, CleanInv, Undisturbed
<1> QED  BY <1>2, <1>5, <1>6, <1>7, Zenon DEF HealthInv

\* What PostgreSQL, Redis and the pool do on their own.
LEMMA ServersKeep ==
  ASSUME HealthInv, IdleConnectionEnds \/ PostgresRecovers \/ RedisRecovers
  PROVE  HealthInv'
<1>1. OneUser /\ conn \in Conn /\ postgres \in {"up", "down"}
  BY HealthTypes, Zenon DEF HealthParts, HealthInv
<1>2. UNCHANGED <<probe, pool, cl, client, promise, destroyed, outages>>
  BY Zenon DEF IdleConnectionEnds, PostgresRecovers, RedisRecovers, connVars, redisVars
<1>3. OthersGone' /\ ClientInv' /\ ProbeInv'
  BY <1>2, ClientsKept, Zenon
<1>4. /\ conn' \in Conn /\ ~conn'.failed
      /\ conn' = conn \/ (conn.state = "idle" /\ conn'.state = "none" /\ ~conn'.broken)
  <2>1. CASE IdleConnectionEnds
    BY <2>1, Zenon DEF IdleConnectionEnds, NoConn, Conn
  <2>2. CASE PostgresRecovers \/ RedisRecovers
    BY <1>1, <2>2, Zenon DEF PostgresRecovers, RedisRecovers, connVars, HealthInv
  <2> QED  BY <2>1, <2>2, Zenon
<1>5. /\ postgres' \in {"up", "down"} /\ redis' \in {"up", "down", "hung"}
      /\ postgres = "up" => postgres' = "up"
      /\ redis = "up" => redis' = "up"
  BY HealthTypes, Zenon DEF HealthParts, IdleConnectionEnds, PostgresRecovers, RedisRecovers,
                            connVars, redisVars, HealthInv
<1>6. OneUser'
  <2>1. CASE conn' = conn
    BY <1>1, <1>2, <2>1, UserKept, Zenon
  <2>2. CASE conn.state = "idle" /\ conn'.state = "none"
    BY <1>1, <1>2, <2>2, UserFacts, NobodyUses, Zenon
  <2> QED  BY <1>4, <2>1, <2>2, Zenon
<1>7. HealthTypeOK'
  BY <1>2, <1>4, <1>5, <1>6, HealthTypes, Zenon DEF HealthParts, HealthInv
<1>8. CleanInv'
  <2> SUFFICES ASSUME NEW q \in Probes, Undisturbed(q)
               PROVE  Undisturbed(q)'
    BY <1>2, Zenon DEF HealthInv, CleanInv
  <2>1. /\ probe'[q].pc = "pool" => conn'.state # "busy"
        /\ probe'[q].pc \in {"pool", "query"} => ~conn'.broken
    BY <1>2, <1>4, Zenon DEF Undisturbed
  <2> QED  BY <1>2, <1>5, <2>1, Zenon DEF Undisturbed
<1> QED  BY <1>3, <1>4, <1>7, <1>8, Zenon DEF HealthInv

\* After an outage no probe counts as undisturbed.
LEMMA DisturbEffect ==
  ASSUME HealthInv, Disturb
  PROVE  /\ probe' \in [Probes -> Probe]
         /\ \A q \in Probes : /\ probe'[q].pc = probe[q].pc
                              /\ probe'[q].client = probe[q].client
                              /\ probe'[q].attempt = probe[q].attempt
                              /\ ~probe'[q].clean
<1>1. probe \in [Probes -> Probe]
  BY HealthTypes, Zenon DEF HealthParts, HealthInv
<1>2. ASSUME NEW q \in Probes
      PROVE  LET r == [probe[q] EXCEPT !.clean = FALSE]
             IN  /\ r \in Probe /\ r.pc = probe[q].pc /\ r.client = probe[q].client
                 /\ r.attempt = probe[q].attempt /\ r.clean = FALSE
  BY <1>1, Zenon DEF Probe
<1> QED  BY <1>2, Zenon DEF Disturb

\* One more outage is within the bound.
LEMMA OutageType == ASSUME HealthInv, Outage PROVE outages' \in 0..MaxOutages
<1>1. outages \in 0..MaxOutages /\ MaxOutages \in Nat
  BY HealthTypes, HealthAssumption, Zenon DEF HealthParts, HealthInv
<1> QED  BY <1>1 DEF Outage

\* PostgreSQL goes away.
LEMMA PostgresStopsKeeps ==
  ASSUME HealthInv, PostgresStops
  PROVE  HealthInv'
<1>1. OneUser /\ conn \in Conn
  BY HealthTypes, Zenon DEF HealthParts, HealthInv
<1>2. /\ UNCHANGED <<pool, redis, cl, client, promise, destroyed>> /\ postgres' = "down"
      /\ Disturb /\ Outage
  BY Zenon DEF PostgresStops, redisVars
<1>3. conn' \in Conn /\ conn'.state = conn.state /\ ~conn'.failed
  BY <1>1, Zenon DEF PostgresStops, Conn, HealthInv
<1>4. OneUser'
  BY <1>1, <1>2, <1>3, DisturbEffect, UserKept, Zenon
<1>5. HealthTypeOK'
  BY <1>2, <1>3, <1>4, DisturbEffect, OutageType, HealthTypes, Zenon DEF HealthParts, HealthInv
<1>6. OthersGone' /\ ClientInv' /\ ProbeInv'
  BY <1>2, DisturbEffect, ClientsKept, Zenon
<1>7. CleanInv'
  BY <1>2, DisturbEffect, Zenon DEF CleanInv
<1> QED  BY <1>3, <1>5, <1>6, <1>7, Zenon DEF HealthInv

\* Redis goes away or stops answering; the connections to it may be dead.
LEMMA RedisStopsKeeps ==
  ASSUME HealthInv, NEW how \in {"down", "hung"}, RedisStops(how)
  PROVE  HealthInv'
<1>1. OneUser /\ cl \in [Clients -> Client]
      /\ client \in Clients \cup {NoClient} /\ promise \in Clients \cup {NoClient}
  BY HealthTypes, Zenon DEF HealthParts, HealthInv
<1>2. /\ UNCHANGED <<postgres, pool, conn, client, promise, destroyed>> /\ redis' = how
      /\ Disturb /\ Outage
  BY Zenon DEF RedisStops, connVars
<1>3. /\ cl' \in [Clients -> Client]
      /\ \A c \in Clients : /\ cl'[c].status = cl[c].status
                            /\ cl'[c].disconnected = cl[c].disconnected
  <2>1. ASSUME NEW c \in Clients, NEW b \in BOOLEAN
        PROVE  LET r == [cl[c] EXCEPT !.broken = b]
               IN  r \in Client /\ r.status = cl[c].status /\ r.disconnected = cl[c].disconnected
    BY <1>1, Zenon DEF Client
  <2> DEFINE dead(c) == cl[c].broken \/ cl[c].status = "connecting"
                                     \/ (how = "down" /\ cl[c].status = "ready")
  <2>2. cl' = [c \in Clients |-> [cl[c] EXCEPT !.broken = dead(c)]]
    BY Zenon DEF RedisStops
  <2>3. \A c \in Clients : dead(c) \in BOOLEAN
    BY Zenon
  <2> HIDE DEF dead
  <2> QED  BY <2>1, <2>2, <2>3, Zenon
<1>4. OneUser'
  BY <1>1, <1>2, DisturbEffect, UserKept, Zenon
<1>5. HealthTypeOK'
  BY <1>2, <1>3, <1>4, DisturbEffect, OutageType, HealthTypes, Zenon DEF HealthParts, HealthInv
<1>6. OthersGone' /\ ClientInv'
  BY <1>1, <1>2, <1>3, Zenon DEF HealthInv, OthersGone, ClientInv
<1>7. ProbeInv'
  BY <1>2, <1>3, DisturbEffect, ProbesKept, Zenon
<1>8. CleanInv'
  BY <1>2, DisturbEffect, Zenon DEF CleanInv
<1> QED  BY <1>2, <1>5, <1>6, <1>7, <1>8, Zenon DEF HealthInv

\* Disconnecting clients changes nothing else about them.
LEMMA DisconnectEffect ==
  ASSUME NEW cs, NEW clients \in [Clients -> Client]
  PROVE  /\ Disconnect(cs, clients) \in [Clients -> Client]
         /\ \A c \in Clients :
              /\ Disconnect(cs, clients)[c].status = clients[c].status
              /\ Disconnect(cs, clients)[c].broken = clients[c].broken
              /\ Disconnect(cs, clients)[c].disconnected <=> clients[c].disconnected \/ c \in cs
              /\ c \notin cs => Disconnect(cs, clients)[c] = clients[c]
<1>1. ASSUME NEW c \in Clients
      PROVE  LET r == [clients[c] EXCEPT !.disconnected = TRUE]
             IN  /\ r \in Client /\ r.status = clients[c].status
                 /\ r.broken = clients[c].broken /\ r.disconnected = TRUE
  BY Zenon DEF Client
<1> QED  BY <1>1, Zenon DEF Disconnect

\* The same for a client of a failing check.
LEMMA ResetEffect ==
  ASSUME HealthInv, NEW c \in Clients, cl' = Disconnect({c}, cl)
  PROVE  /\ cl' \in [Clients -> Client]
         /\ \A d \in Clients \ {c} : cl'[d] = cl[d]
         /\ cl'[c].status = cl[c].status /\ cl'[c].broken = cl[c].broken
         /\ cl'[c].disconnected
<1>1. cl \in [Clients -> Client]
  BY HealthTypes, Zenon DEF HealthParts, HealthInv
<1>2. PICK r : r = [cl[c] EXCEPT !.disconnected = TRUE]
  BY Zenon
<1>3. r \in Client /\ r.status = cl[c].status /\ r.broken = cl[c].broken /\ r.disconnected = TRUE
  BY <1>1, <1>2, Zenon DEF Client
<1>4. cl' = [d \in Clients |-> IF d \in {c} THEN [cl[d] EXCEPT !.disconnected = TRUE]
                              ELSE cl[d]]
  BY Zenon DEF Disconnect
<1>5. cl'[c] = r /\ \A d \in Clients \ {c} : cl'[d] = cl[d]
  BY <1>2, <1>4, Zenon
<1>6. cl' \in [Clients -> Client]
  <2>1. cl' = [d \in Clients |-> cl'[d]]
    BY <1>4, Zenon
  <2>2. \A d \in Clients : cl'[d] \in Client
    BY <1>1, <1>3, <1>5, Zenon
  <2> QED  BY <2>1, <2>2, Zenon
<1> QED  BY <1>3, <1>5, <1>6, Zenon

\* onModuleDestroy.
LEMMA DestroyKeeps ==
  ASSUME HealthInv, Destroy
  PROVE  HealthInv'
<1>1. /\ OneUser /\ conn \in Conn /\ cl \in [Clients -> Client]
      /\ client \in Clients \cup {NoClient}
  BY HealthTypes, Zenon DEF HealthParts, HealthInv
<1>2. /\ UNCHANGED <<postgres, redis, outages>> /\ destroyed' = TRUE
      /\ pool' \in {pool, "ended"}
      /\ client' = NoClient /\ promise' = NoClient /\ Disturb
      /\ cl' = Disconnect({client}, cl)
      /\ conn' = IF conn.state = "idle" THEN NoConn ELSE conn
  BY Zenon DEF Destroy, EndPool
<1>3. /\ conn' \in Conn /\ ~conn'.failed
      /\ conn'.state = "busy" <=> conn.state = "busy"
  BY <1>1, <1>2, Zenon DEF NoConn, Conn, HealthInv
<1>4. OneUser'
  <2>1. \A q \in Probes : probe'[q].pc = probe[q].pc
    BY <1>2, DisturbEffect, Zenon
  <2>2. /\ conn'.state = "busy" <=> \E q \in Probes : probe'[q].pc = "query"
        /\ \A q, r \in Probes : probe'[q].pc = "query" /\ probe'[r].pc = "query" => q = r
    BY <1>1, <1>3, <2>1, UserFacts, Zenon
  <2> QED  BY <2>2, Zenon DEF OneUser
<1>5. /\ cl' \in [Clients -> Client]
      /\ \A c \in Clients :
           /\ cl'[c].status = cl[c].status
           /\ cl'[c].disconnected <=> cl[c].disconnected \/ c = client
  <2>1. PICK cs : cs = {client}
    BY Zenon
  <2>2. PICK clients \in [Clients -> Client] : clients = cl
    BY <1>1, Zenon
  <2>3. cl' = Disconnect(cs, clients)
    BY <1>2, <2>1, <2>2, Zenon
  <2>4. \A c \in Clients : c \in cs <=> c = client
    BY <2>1, Zenon
  <2>5. clients \in [Clients -> Client]
    BY <2>2
  <2>6. PICK new : new = Disconnect(cs, clients)
    BY Zenon
  <2>7. /\ new \in [Clients -> Client]
        /\ \A c \in Clients : /\ new[c].status = clients[c].status
                              /\ new[c].disconnected <=> clients[c].disconnected \/ c \in cs
    BY <2>5, <2>6, DisconnectEffect, ZenonT(30)
  <2> QED  BY <2>2, <2>3, <2>4, <2>6, <2>7, Zenon
<1>6. HealthTypeOK'
  BY <1>2, <1>3, <1>4, <1>5, DisturbEffect, HealthTypes, Zenon DEF HealthParts, HealthInv
<1>7. OthersGone' /\ ClientInv'
  BY <1>2, <1>5, Zenon DEF HealthInv, OthersGone, ClientInv
<1>8. ProbeInv'
  BY <1>2, <1>5, DisturbEffect, ProbesKept, Zenon
<1>9. CleanInv'
  BY <1>2, DisturbEffect, Zenon DEF CleanInv
<1> QED  BY <1>3, <1>6, <1>7, <1>8, <1>9, Zenon DEF HealthInv

\* A client whose connection ends, or that a failing check resets: if it is the
\* current one it is forgotten when it is disconnected, and the promise of an
\* attempt goes only with the attempt.
LEMMA ClientLost ==
  ASSUME HealthInv, NEW c \in Clients, NEW reset \in BOOLEAN, destroyed' = destroyed,
         \A d \in Clients \ {c} : cl'[d] = cl[d],
         cl'[c].status \in {cl[c].status, "end"},
         cl'[c].disconnected <=> cl[c].disconnected \/ reset,
         client' = IF reset /\ client = c THEN NoClient ELSE client,
         promise' \in {promise, NoClient},
         promise' = NoClient \/ cl[c].status = "ready",
         cl[c].status = "ready" /\ promise' # promise => reset /\ client = c,
         ~destroyed /\ cl[c].status # "ready" => promise \in {c, NoClient},
         ~destroyed /\ promise = c /\ cl[c].status = "connecting" => cl'[c].status = "end"
  PROVE  OthersGone' /\ ClientInv'
<1>1. client \in Clients \cup {NoClient} /\ promise \in Clients \cup {NoClient}
  BY HealthTypes, Zenon DEF HealthParts, HealthInv
<1>2. cl[c].status = "ready" => promise # c
  BY HealthAssumption, Zenon DEF HealthInv, ClientInv
<1>3. OthersGone'
  <2>1. ASSUME NEW d \in Clients, cl'[d].status \in {"wait", "connecting", "ready"},
               ~cl'[d].disconnected
        PROVE  d = client'
    <3>1. CASE d # c
      BY <2>1, <3>1, Zenon DEF HealthInv, OthersGone
    <3>2. CASE d = c
      BY <2>1, <3>2, Zenon DEF HealthInv, OthersGone
    <3> QED  BY <3>1, <3>2, Zenon
  <2> QED  BY <2>1, Zenon DEF OthersGone
<1>4. client' # NoClient => /\ ~cl'[client'].disconnected
                            /\ cl'[client'].status \in {"connecting", "ready", "end"}
  <2> SUFFICES ASSUME client' # NoClient
               PROVE  /\ ~cl'[client'].disconnected
                      /\ cl'[client'].status \in {"connecting", "ready", "end"}
    BY Zenon
  <2>1. client' = client /\ ~(reset /\ client = c)
    BY Zenon
  <2>2. /\ ~cl[client].disconnected /\ client \in Clients
        /\ cl[client].status \in {"connecting", "ready", "end"}
    BY <1>1, <2>1, Zenon DEF HealthInv, ClientInv
  <2>3. CASE client = c
    BY <2>1, <2>2, <2>3, Zenon
  <2>4. CASE client # c
    BY <2>1, <2>2, <2>4, Zenon
  <2> QED  BY <2>3, <2>4, Zenon
<1>5. promise' # NoClient => promise' = client' /\ cl'[promise'].status = "connecting"
  <2> SUFFICES ASSUME promise' # NoClient
               PROVE  promise' = client' /\ cl'[promise'].status = "connecting"
    BY Zenon
  <2>1. /\ promise' = promise /\ promise \in Clients /\ promise # c
        /\ promise = client /\ cl[promise].status = "connecting"
    BY <1>1, <1>2, Zenon DEF HealthInv, ClientInv
  <2> QED  BY <2>1, Zenon
<1>6. ASSUME ~destroyed, NEW d \in Clients, cl'[d].status = "connecting"
      PROVE  promise' = d
  <2>1. cl[d].status = "connecting" /\ promise = d
    <3>1. cl[d].status = "connecting"
      BY <1>6, Zenon
    <3> QED  BY <1>6, <3>1, Zenon DEF HealthInv, ClientInv
  <2>2. d # c
    BY <1>6, <2>1, Zenon
  <2>3. d \in Clients /\ d # NoClient
    BY HealthAssumption, Zenon
  <2>4. cl[c].status = "ready"
    BY <1>6, <2>1, <2>2, <2>3, Zenon
  <2>5. client = d
    BY <2>1, <2>3, Zenon DEF HealthInv, ClientInv
  <2> QED  BY <2>1, <2>2, <2>4, <2>5, Zenon
<1> QED  BY <1>3, <1>4, <1>5, <1>6, Zenon DEF ClientInv

\* What failing at Redis does to the probes.
LEMMA FailEffect ==
  ASSUME HealthInv, NEW ps \in SUBSET Probes, Fail(ps)
  PROVE  /\ probe' \in [Probes -> Probe]
         /\ \A p \in ps : probe'[p].pc = "failedRedis" /\ probe'[p].clean = probe[p].clean
         /\ \A q \in Probes \ ps : probe'[q] = probe[q]
<1>1. probe \in [Probes -> Probe]
  BY HealthTypes, Zenon DEF HealthParts, HealthInv
<1>2. ASSUME NEW p \in Probes
      PROVE  LET r == [Idle EXCEPT !.pc = "failedRedis", !.clean = probe[p].clean]
             IN  r \in Probe /\ r.pc = "failedRedis" /\ r.clean = probe[p].clean
  BY <1>1, Zenon DEF Idle, Probe
<1> QED  BY <1>1, <1>2, Zenon DEF Fail

\* The checks ps fail because of their client c: none of them was undisturbed,
\* and the undisturbed others do not use c.
LEMMA ChecksFail ==
  ASSUME HealthInv, NEW c \in Clients, NEW ps \in SUBSET Probes, Fail(ps),
         UNCHANGED <<postgres, pool, conn, redis, destroyed, outages>>,
         cl' \in [Clients -> Client],
         \A d \in Clients \ {c} : cl'[d] = cl[d],
         cl'[c].broken = cl[c].broken,
         client' \in Clients \cup {NoClient}, promise' \in Clients \cup {NoClient},
         OthersGone', ClientInv',
         \A p \in ps : probe[p].pc \in {"connect", "ping"} /\ ~probe[p].clean,
         \A q \in Probes \ ps : probe[q].pc \in {"connect", "ping"} /\ probe[q].client = c
           => cl'[c].status = cl[c].status,
         \A q \in Probes \ ps : probe[q].pc \in {"connect", "ping"} /\ probe[q].clean
           => client' = client
  PROVE  HealthInv'
<1>1. OneUser /\ client \in Clients \cup {NoClient}
  BY HealthTypes, Zenon DEF HealthParts, HealthInv
<1>2. /\ probe' \in [Probes -> Probe]
      /\ \A p \in ps : probe'[p].pc = "failedRedis" /\ probe'[p].clean = probe[p].clean
      /\ \A q \in Probes \ ps : probe'[q] = probe[q]
  BY FailEffect, Zenon
<1>3. OneUser'
  <2>1. \A q \in Probes : probe'[q].pc = "query" <=> probe[q].pc = "query"
    BY <1>2, Zenon
  <2> QED  BY <1>1, <2>1, UserKept, Zenon
<1>4. HealthTypeOK'
  BY <1>2, <1>3, HealthTypes, ZenonT(30) DEF HealthParts, HealthInv
<1>5. ASSUME NEW q \in Probes, probe'[q].pc \in {"connect", "ping"}
      PROVE  /\ probe'[q] = probe[q] /\ probe[q].client \in Clients
             /\ cl'[probe[q].client].status = cl[probe[q].client].status
             /\ cl'[probe[q].client].broken = cl[probe[q].client].broken
  <2>1. q \in Probes \ ps /\ probe'[q] = probe[q]
    BY <1>2, <1>5, Zenon
  <2>2. probe[q].client \in Clients
    BY <1>5, <2>1, Zenon DEF HealthInv, ProbeInv
  <2>3. CASE probe[q].client = c
    BY <1>5, <2>1, <2>2, <2>3, Zenon
  <2>4. CASE probe[q].client # c
    BY <1>5, <2>1, <2>2, <2>4, Zenon
  <2> QED  BY <2>3, <2>4, Zenon
<1>6. ProbeInv'
  BY <1>5, ProbesKept, Zenon
<1>7. ASSUME NEW q \in Probes, probe'[q].clean  PROVE Undisturbed(q)'
  <2>1. q \in Probes \ ps /\ probe'[q] = probe[q] /\ Undisturbed(q)
    BY <1>2, <1>7, Zenon DEF HealthInv, CleanInv
  <2>2. CASE probe[q].pc \in {"connect", "ping"}
    <3>1. client' = client /\ probe[q].client = client
      BY <1>7, <2>1, <2>2, Zenon DEF Undisturbed
    <3>2. cl'[client].broken = cl[client].broken
      BY <1>5, <2>1, <2>2, <3>1, Zenon
    <3> QED  BY <2>1, <2>2, <3>1, <3>2, Zenon DEF Undisturbed
  <2>3. CASE probe[q].pc \notin {"connect", "ping"}
    BY <2>1, <2>3, Zenon DEF Undisturbed
  <2> QED  BY <2>2, <2>3, Zenon
<1> QED  BY <1>4, <1>6, <1>7, Zenon DEF HealthInv, CleanInv

\* A PING that is not answered.
LEMMA PingTimesOutKeeps ==
  ASSUME HealthInv, NEW p \in Probes, PingTimesOut(p)
  PROVE  HealthInv'
<1>1. /\ probe[p].pc = "ping" /\ Fail({p})
      /\ redis # "up" \/ cl[probe[p].client].broken
      /\ UNCHANGED <<postgres, pool, conn, redis, destroyed, outages>>
      /\ cl' = Disconnect({probe[p].client}, cl)
      /\ client' = IF client \in {probe[p].client} THEN NoClient ELSE client
      /\ promise' = IF client \in {probe[p].client} THEN NoClient ELSE promise
  BY Zenon DEF PingTimesOut, ResetClient, connVars
<1>2. PICK c \in Clients : c = probe[p].client /\ cl[c].status = "ready"
  BY <1>1, Zenon DEF HealthInv, ProbeInv
<1>3. /\ cl \in [Clients -> Client]
      /\ client \in Clients \cup {NoClient} /\ promise \in Clients \cup {NoClient}
  BY HealthTypes, Zenon DEF HealthParts, HealthInv
<1>4. /\ cl' \in [Clients -> Client]
      /\ \A d \in Clients \ {c} : cl'[d] = cl[d]
      /\ cl'[c].status = cl[c].status /\ cl'[c].broken = cl[c].broken /\ cl'[c].disconnected
  <2>1. cl' = Disconnect({c}, cl)
    BY <1>1, <1>2, ZenonT(30)
  <2> QED  BY <2>1, ResetEffect, Zenon
<1>5. /\ client' = IF client = c THEN NoClient ELSE client
      /\ promise' = IF client = c THEN NoClient ELSE promise
  BY <1>1, <1>2, Zenon
<1>6. OthersGone' /\ ClientInv'
  <2>1. PICK reset \in BOOLEAN : reset
    BY Zenon
  <2>2. promise' \in {promise, NoClient} /\ (promise' # promise => client = c)
    BY <1>5, Zenon
  <2> QED  BY <1>1, <1>2, <1>4, <1>5, <2>1, <2>2, ClientLost, Zenon
<1>7. \A q \in Probes : probe[q].pc \in {"connect", "ping"} /\ probe[q].clean => client # c
  BY <1>1, <1>2, Zenon DEF HealthInv, CleanInv, Undisturbed
<1>8. ~probe[p].clean
  BY <1>1, <1>2, <1>7, Zenon DEF HealthInv, CleanInv, Undisturbed
<1>9. client' \in Clients \cup {NoClient} /\ promise' \in Clients \cup {NoClient}
  BY <1>3, <1>5, Zenon
<1>10. /\ {p} \in SUBSET Probes
       /\ \A q \in {p} : probe[q].pc \in {"connect", "ping"} /\ ~probe[q].clean
  BY <1>1, <1>8, Zenon
<1>11. \A q \in Probes \ {p} : probe[q].pc \in {"connect", "ping"} /\ probe[q].clean
           => client' = client
  BY <1>5, <1>7, Zenon
<1> QED  BY <1>1, <1>4, <1>6, <1>9, <1>10, <1>11, ChecksFail, Zenon

\* The connection of client c ends, and c is disconnected if checks reset it.
LEMMA EndEffect ==
  ASSUME HealthInv, NEW c \in Clients, NEW reset \in BOOLEAN, NEW cs,
         \A d : d \in cs <=> d = c /\ reset,
         cl' = Disconnect(cs, [cl EXCEPT ![c].status = "end"])
  PROVE  /\ cl' \in [Clients -> Client]
         /\ \A d \in Clients \ {c} : cl'[d] = cl[d]
         /\ cl'[c].status = "end" /\ cl'[c].broken = cl[c].broken
         /\ cl'[c].disconnected <=> cl[c].disconnected \/ reset
<1>1. cl \in [Clients -> Client]
  BY HealthTypes, Zenon DEF HealthParts, HealthInv
<1>2. PICK clients \in [Clients -> Client] : clients = [cl EXCEPT ![c].status = "end"]
  <2>1. [cl[c] EXCEPT !.status = "end"] \in Client
    BY <1>1, Zenon DEF Client
  <2>2. [cl EXCEPT ![c].status = "end"] \in [Clients -> Client]
    BY <1>1, <2>1, Zenon
  <2> QED  BY <2>2, Zenon
<1>3. /\ clients[c].status = "end" /\ clients[c].broken = cl[c].broken
      /\ clients[c].disconnected = cl[c].disconnected
      /\ \A d \in Clients \ {c} : clients[d] = cl[d]
  BY <1>1, <1>2, Zenon DEF Client
<1>4. cl' = Disconnect(cs, clients)
  BY <1>2, Zenon
<1>5. /\ cl' \in [Clients -> Client]
      /\ \A d \in Clients :
           /\ cl'[d].status = clients[d].status
           /\ cl'[d].broken = clients[d].broken
           /\ cl'[d].disconnected <=> clients[d].disconnected \/ d \in cs
           /\ d \notin cs => cl'[d] = clients[d]
  <2>1. clients \in [Clients -> Client]
    BY <1>2, Zenon
  <2>2. PICK new : new = Disconnect(cs, clients)
    BY Zenon
  <2>3. /\ new \in [Clients -> Client]
        /\ \A d \in Clients :
             /\ new[d].status = clients[d].status
             /\ new[d].broken = clients[d].broken
             /\ new[d].disconnected <=> clients[d].disconnected \/ d \in cs
             /\ d \notin cs => new[d] = clients[d]
    BY <2>1, <2>2, DisconnectEffect, Zenon
  <2> QED  BY <1>4, <2>2, <2>3, Zenon
<1>6. /\ cl'[c].status = "end" /\ cl'[c].broken = cl[c].broken
      /\ cl'[c].disconnected <=> cl[c].disconnected \/ reset
  BY <1>3, <1>5, Zenon
<1>7. ASSUME NEW d \in Clients \ {c}  PROVE cl'[d] = cl[d]
  <2>1. d \in Clients /\ d # c
    BY Zenon
  <2> QED  BY <1>3, <1>5, <2>1, Zenon
<1> QED  BY <1>5, <1>6, <1>7, Zenon

\* An attempt fails.
LEMMA ConnectFailsKeeps ==
  ASSUME HealthInv, NEW c \in Clients, ConnectFails(c)
  PROVE  HealthInv'
<1>1. PICK ps \in SUBSET Probes :
        ps = {p \in Probes : probe[p].pc = "connect" /\ probe[p].attempt = c}
  BY Zenon
<1>2. /\ cl[c].status = "connecting"
      /\ redis # "up" \/ cl[c].broken \/ cl[c].disconnected
      /\ cl' = Disconnect({probe[q].client : q \in ps}, [cl EXCEPT ![c].status = "end"])
      /\ client' = IF client \in {probe[q].client : q \in ps} THEN NoClient ELSE client
      /\ promise' = NoClient /\ Fail(ps)
      /\ UNCHANGED <<postgres, pool, conn, redis, destroyed, outages>>
  BY <1>1, Zenon DEF ConnectFails, ResetClient, Awaiting, connVars
<1>3. \A q \in ps : probe[q].pc = "connect" /\ probe[q].client = c
  BY <1>1, Zenon DEF HealthInv, ProbeInv
<1>4. \A q \in Probes \ ps : ~(probe[q].pc \in {"connect", "ping"} /\ probe[q].client = c)
  BY <1>1, <1>2, Zenon DEF HealthInv, ProbeInv
<1>5. PICK reset \in BOOLEAN : reset <=> ps # {}
  BY Zenon
<1>6. /\ cl' \in [Clients -> Client]
      /\ \A d \in Clients \ {c} : cl'[d] = cl[d]
      /\ cl'[c].status = "end" /\ cl'[c].broken = cl[c].broken
      /\ cl'[c].disconnected <=> cl[c].disconnected \/ reset
      /\ client \in {probe[q].client : q \in ps} <=> client = c /\ reset
  <2>1. PICK cs : cs = {probe[q].client : q \in ps}
    BY Zenon
  <2>2. \A d : d \in cs <=> d = c /\ reset
    BY <1>3, <1>5, <2>1, Zenon
  <2>3. cl' = Disconnect(cs, [cl EXCEPT ![c].status = "end"])
    BY <1>2, <2>1, Zenon
  <2>4. /\ cl' \in [Clients -> Client]
        /\ \A d \in Clients \ {c} : cl'[d] = cl[d]
        /\ cl'[c].status = "end" /\ cl'[c].broken = cl[c].broken
        /\ cl'[c].disconnected <=> cl[c].disconnected \/ reset
    BY <1>5, <2>2, <2>3, EndEffect, Zenon
  <2> QED  BY <2>1, <2>2, <2>4, Zenon
<1>7. client' = IF reset /\ client = c THEN NoClient ELSE client
  BY <1>2, <1>6, Zenon
<1>8. ~destroyed => promise = c
  BY <1>2, Zenon DEF HealthInv, ClientInv
<1>9. OthersGone' /\ ClientInv'
  BY <1>2, <1>5, <1>6, <1>7, <1>8, ClientLost, Zenon
<1>10. client' \in Clients \cup {NoClient} /\ promise' \in Clients \cup {NoClient}
  BY <1>2, <1>7, HealthTypes, Zenon DEF HealthParts, HealthInv
<1>11. ASSUME NEW q \in ps  PROVE ~probe[q].clean
  <2>1. c # NoClient
    BY HealthAssumption, Zenon
  <2> QED  BY <1>2, <1>3, <2>1, Zenon DEF HealthInv, CleanInv, Undisturbed, ClientInv
<1>12. \A q \in Probes \ ps : probe[q].pc \in {"connect", "ping"} /\ probe[q].clean
         => client' = client
  BY <1>4, <1>7, Zenon DEF HealthInv, CleanInv, Undisturbed
<1>13. \A q \in ps : probe[q].pc \in {"connect", "ping"} /\ ~probe[q].clean
  BY <1>3, <1>11, Zenon
<1>14. \A q \in Probes \ ps : probe[q].pc \in {"connect", "ping"} /\ probe[q].client = c
         => cl'[c].status = cl[c].status
  BY <1>4, Zenon
<1> QED  BY <1>1, <1>2, <1>6, <1>9, <1>10, <1>12, <1>13, <1>14, ChecksFail, Zenon

\* The connection of a ready client closes.
LEMMA ConnectionClosesKeeps ==
  ASSUME HealthInv, NEW c \in Clients, ConnectionCloses(c)
  PROVE  HealthInv'
<1>1. PICK ps \in SUBSET Probes :
        ps = {p \in Probes : probe[p].pc = "ping" /\ probe[p].client = c}
  BY Zenon
<1>2. /\ cl[c].status = "ready"
      /\ cl[c].broken \/ cl[c].disconnected
      /\ cl' = Disconnect({probe[q].client : q \in ps}, [cl EXCEPT ![c].status = "end"])
      /\ client' = IF client \in {probe[q].client : q \in ps} THEN NoClient ELSE client
      /\ promise' = IF client \in {probe[q].client : q \in ps} THEN NoClient ELSE promise
      /\ Fail(ps)
      /\ UNCHANGED <<postgres, pool, conn, redis, destroyed, outages>>
  BY <1>1, Zenon DEF ConnectionCloses, ResetClient, Pinging, connVars
<1>3. \A q \in ps : probe[q].pc = "ping" /\ probe[q].client = c
  BY <1>1, Zenon
<1>4. \A q \in Probes \ ps : ~(probe[q].pc \in {"connect", "ping"} /\ probe[q].client = c)
  BY <1>1, <1>2, Zenon DEF HealthInv, ProbeInv
<1>5. PICK reset \in BOOLEAN : reset <=> ps # {}
  BY Zenon
<1>6. /\ cl' \in [Clients -> Client]
      /\ \A d \in Clients \ {c} : cl'[d] = cl[d]
      /\ cl'[c].status = "end" /\ cl'[c].broken = cl[c].broken
      /\ cl'[c].disconnected <=> cl[c].disconnected \/ reset
      /\ client \in {probe[q].client : q \in ps} <=> client = c /\ reset
  <2>1. PICK cs : cs = {probe[q].client : q \in ps}
    BY Zenon
  <2>2. \A d : d \in cs <=> d = c /\ reset
    BY <1>3, <1>5, <2>1, Zenon
  <2>3. cl' = Disconnect(cs, [cl EXCEPT ![c].status = "end"])
    BY <1>2, <2>1, Zenon
  <2>4. /\ cl' \in [Clients -> Client]
        /\ \A d \in Clients \ {c} : cl'[d] = cl[d]
        /\ cl'[c].status = "end" /\ cl'[c].broken = cl[c].broken
        /\ cl'[c].disconnected <=> cl[c].disconnected \/ reset
    BY <1>5, <2>2, <2>3, EndEffect, Zenon
  <2> QED  BY <2>1, <2>2, <2>4, Zenon
<1>7. /\ client' = IF reset /\ client = c THEN NoClient ELSE client
      /\ promise' = IF reset /\ client = c THEN NoClient ELSE promise
  BY <1>2, <1>6, Zenon
<1>8. OthersGone' /\ ClientInv'
  <2>1. promise' \in {promise, NoClient} /\ (promise' # promise => reset /\ client = c)
    BY <1>7, Zenon
  <2> QED  BY <1>2, <1>5, <1>6, <1>7, <2>1, ClientLost, Zenon
<1>9. client' \in Clients \cup {NoClient} /\ promise' \in Clients \cup {NoClient}
  BY <1>7, HealthTypes, Zenon DEF HealthParts, HealthInv
<1>10. ASSUME NEW q \in ps  PROVE ~probe[q].clean
  <2>1. c # NoClient
    BY HealthAssumption, Zenon
  <2> QED  BY <1>2, <1>3, <2>1, Zenon DEF HealthInv, CleanInv, Undisturbed, ClientInv
<1>11. \A q \in Probes \ ps : probe[q].pc \in {"connect", "ping"} /\ probe[q].clean
         => client' = client
  BY <1>4, <1>7, Zenon DEF HealthInv, CleanInv, Undisturbed
<1>12. \A q \in ps : probe[q].pc \in {"connect", "ping"} /\ ~probe[q].clean
  BY <1>3, <1>10, Zenon
<1>13. \A q \in Probes \ ps : probe[q].pc \in {"connect", "ping"} /\ probe[q].client = c
         => cl'[c].status = cl[c].status
  BY <1>4, Zenon
<1> QED  BY <1>1, <1>2, <1>6, <1>8, <1>9, <1>11, <1>12, <1>13, ChecksFail, Zenon

\* An attempt succeeds and the checks that waited for it send their PING.
LEMMA ConnectSucceedsKeeps ==
  ASSUME HealthInv, NEW c \in Clients, ConnectSucceeds(c)
  PROVE  HealthInv'
<1>1. /\ probe \in [Probes -> Probe] /\ OneUser /\ cl \in [Clients -> Client]
      /\ client \in Clients \cup {NoClient}
  BY HealthTypes, Zenon DEF HealthParts, HealthInv
<1>2. /\ cl[c].status = "connecting" /\ ~cl[c].disconnected /\ promise' = NoClient
      /\ UNCHANGED <<postgres, pool, conn, redis, client, destroyed, outages>>
      /\ cl' = [cl EXCEPT ![c].status = "ready", ![c].broken = FALSE]
  BY Zenon DEF ConnectSucceeds, connVars
<1>3. /\ cl' \in [Clients -> Client]
      /\ cl'[c].status = "ready" /\ cl'[c].broken = FALSE /\ ~cl'[c].disconnected
      /\ \A d \in Clients \ {c} : cl'[d] = cl[d]
  BY <1>1, <1>2, Zenon DEF Client
<1>4. PICK ps \in SUBSET Probes :
        ps = {p \in Probes : probe[p].pc = "connect" /\ probe[p].attempt = c}
  BY Zenon
<1>5. /\ \A p \in ps : probe'[p] = [probe[p] EXCEPT !.pc = "ping", !.attempt = NoClient]
      /\ \A q \in Probes \ ps : probe'[q] = probe[q]
      /\ probe' = [p \in Probes |-> IF p \in ps
                     THEN [probe[p] EXCEPT !.pc = "ping", !.attempt = NoClient]
                     ELSE probe[p]]
  BY <1>4, Zenon DEF ConnectSucceeds, Awaiting
<1>6. ASSUME NEW p \in ps
      PROVE  /\ probe'[p] \in Probe /\ probe'[p].pc = "ping"
             /\ probe'[p].client = probe[p].client /\ probe'[p].clean = probe[p].clean
             /\ probe[p].pc = "connect" /\ probe[p].client = c
  <2>1. p \in Probes /\ probe[p] \in Probe /\ probe[p].pc = "connect" /\ probe[p].attempt = c
    BY <1>1, <1>4, Zenon
  <2>2. PICK r \in Probe : r = probe[p]
    BY <2>1, Zenon
  <2>3. probe'[p] = [r EXCEPT !.pc = "ping", !.attempt = NoClient]
    BY <1>5, <2>2, Zenon
  <2>4. probe'[p] \in Probe /\ probe'[p].pc = "ping"
        /\ probe'[p].client = r.client /\ probe'[p].clean = r.clean
    BY <2>2, <2>3, Zenon DEF Probe
  <2> QED  BY <2>1, <2>2, <2>4, Zenon DEF HealthInv, ProbeInv
<1>7. probe' \in [Probes -> Probe]
  BY <1>1, <1>5, <1>6, Zenon
<1>8. OneUser'
  <2>1. \A q \in Probes : probe'[q].pc = "query" <=> probe[q].pc = "query"
    BY <1>5, <1>6, Zenon
  <2> QED  BY <1>1, <1>2, <2>1, UserKept, Zenon
<1>9. HealthTypeOK'
  BY <1>2, <1>3, <1>7, <1>8, HealthTypes, Zenon DEF HealthParts, HealthInv
<1>10. OthersGone'
  <2>1. c = client
    BY <1>2, Zenon DEF HealthInv, OthersGone
  <2> QED  BY <1>2, <1>3, <2>1, Zenon DEF HealthInv, OthersGone
<1>11. ClientInv'
  <2>1. client' # NoClient => /\ ~cl'[client'].disconnected
                              /\ cl'[client'].status \in {"connecting", "ready", "end"}
    BY <1>1, <1>2, <1>3, Zenon DEF HealthInv, ClientInv
  <2>2. ASSUME ~destroyed, NEW d \in Clients, cl'[d].status = "connecting"  PROVE FALSE
    <3>1. d # c /\ cl[d].status = "connecting"
      BY <1>3, <2>2, Zenon
    <3> QED  BY <1>2, <2>2, <3>1, Zenon DEF HealthInv, ClientInv
  <2> QED  BY <1>2, <2>1, <2>2, Zenon DEF ClientInv
<1>12. ASSUME NEW q \in Probes \ ps, probe[q].pc \in {"connect", "ping"}
       PROVE  probe[q].client \in Clients \ {c}
  BY <1>2, <1>4, <1>12, Zenon DEF HealthInv, ProbeInv
<1>13. ProbeInv'
  <2>1. ASSUME NEW q \in ps
        PROVE  /\ probe'[q].pc = "ping" /\ probe'[q].client \in Clients
               /\ cl'[probe'[q].client].status = "ready"
    BY <1>3, <1>6, Zenon
  <2>2. ASSUME NEW q \in Probes \ ps
        PROVE  /\ probe'[q] = probe[q]
               /\ probe[q].pc \in {"connect", "ping"} => cl'[probe[q].client] = cl[probe[q].client]
    BY <1>3, <1>5, <1>12, Zenon
  <2>3. ASSUME NEW q \in Probes, probe'[q].pc = "connect"
        PROVE  /\ probe'[q].client \in Clients
               /\ probe'[q].attempt = probe'[q].client
               /\ cl'[probe'[q].client].status = "connecting"
    <3>1. q \in Probes \ ps
      BY <2>1, <2>3, Zenon
    <3>2. probe'[q] = probe[q] /\ probe[q].pc = "connect" /\ q \in Probes
          /\ cl'[probe[q].client] = cl[probe[q].client]
      BY <2>2, <2>3, <3>1, Zenon
    <3> QED  BY <3>2, Zenon DEF HealthInv, ProbeInv
  <2>4. ASSUME NEW q \in Probes \ ps, probe'[q].pc = "ping"
        PROVE  probe'[q].client \in Clients /\ cl'[probe'[q].client].status = "ready"
    <3>1. q \in Probes /\ probe'[q] = probe[q]
      BY <2>2, Zenon
    <3> QED  BY <2>2, <2>4, <3>1, Zenon DEF HealthInv, ProbeInv
  <2> QED  BY <2>1, <2>3, <2>4, Zenon DEF ProbeInv
<1>14. ASSUME NEW q \in Probes, probe'[q].clean  PROVE Undisturbed(q)'
  <2>1. CASE q \in ps
    <3>1. Undisturbed(q) /\ probe'[q].pc = "ping" /\ probe'[q].client = c /\ probe[q].client = c
          /\ probe[q].pc = "connect"
      BY <1>6, <1>14, <2>1, Zenon DEF HealthInv, CleanInv
    <3> QED  BY <1>2, <1>3, <3>1, Zenon DEF Undisturbed
  <2>2. CASE q \in Probes \ ps
    <3>1. Undisturbed(q) /\ probe'[q] = probe[q]
      BY <1>5, <1>14, <2>2, Zenon DEF HealthInv, CleanInv
    <3>2. probe[q].pc \in {"connect", "ping"} => cl'[client] = cl[client]
      BY <1>3, <1>12, <2>2, <3>1, Zenon DEF Undisturbed
    <3> QED  BY <1>2, <3>1, <3>2, Zenon DEF Undisturbed
  <2> QED  BY <2>1, <2>2, Zenon
<1> QED  BY <1>2, <1>9, <1>10, <1>11, <1>13, <1>14, Zenon DEF HealthInv, CleanInv

\* What going on to Redis does to the probes.
LEMMA ToRedisEffect ==
  ASSUME HealthInv, NEW p \in Probes, NEW step \in {"connect", "ping"},
         NEW c \in Clients \cup {NoClient}, NEW attempt \in Clients \cup {NoClient},
         ToRedis(p, step, c, attempt)
  PROVE  /\ probe' \in [Probes -> Probe]
         /\ probe'[p].pc = step /\ probe'[p].client = c /\ probe'[p].attempt = attempt
         /\ probe'[p].clean => probe[p].clean /\ ~RedisDisturbed
         /\ \A q \in Probes \ {p} : probe'[q] = probe[q]
<1>1. probe \in [Probes -> Probe]
  BY HealthTypes, Zenon DEF HealthParts, HealthInv
<1>2. PICK b \in BOOLEAN : b = (probe[p].clean /\ ~RedisDisturbed)
  BY Zenon
<1>3. probe' = [probe EXCEPT ![p].pc = step, ![p].client = c, ![p].attempt = attempt,
                             ![p].clean = b]
  BY <1>2, Zenon DEF ToRedis
<1>4. /\ probe' \in [Probes -> Probe]
      /\ probe'[p].pc = step /\ probe'[p].client = c /\ probe'[p].attempt = attempt
      /\ probe'[p].clean = b
      /\ \A q \in Probes \ {p} : probe'[q] = probe[q]
  <2>1. PICK r \in Probe : r = probe[p]
    BY <1>1, Zenon
  <2>2. /\ probe'[p] = [r EXCEPT !.pc = step, !.client = c, !.attempt = attempt, !.clean = b]
        /\ \A q \in Probes \ {p} : probe'[q] = probe[q]
        /\ probe' = [probe EXCEPT ![p] = probe'[p]]
    BY <1>1, <1>3, <2>1, Zenon
  <2>3. /\ probe'[p] \in Probe /\ probe'[p].pc = step /\ probe'[p].client = c
        /\ probe'[p].attempt = attempt /\ probe'[p].clean = b
    BY <1>2, <2>1, <2>2, Zenon DEF Probe
  <2>4. probe' \in [Probes -> Probe]
    BY <1>1, <2>2, <2>3, Zenon
  <2> QED  BY <2>2, <2>3, <2>4, Zenon
<1> QED  BY <1>2, <1>4, Zenon

\* The query succeeds: the connection goes back, and no undisturbed probe was
\* waiting for it.
LEMMA ReleaseEffect ==
  ASSUME HealthInv, NEW p \in Probes, QuerySucceeds(p)
  PROVE  /\ UNCHANGED <<postgres, pool, redis, destroyed, outages>>
         /\ conn' \in Conn /\ ~conn'.failed
         /\ \A q \in Probes \ {p} : /\ probe[q].pc # "query"
                                    /\ ~(probe[q].clean /\ probe[q].pc \in {"pool", "query"})
         /\ (\A q \in Probes \ {p} : probe'[q] = probe[q]) /\ probe'[p].pc # "query" => OneUser'
<1>1. OneUser /\ conn \in Conn
  BY HealthTypes, Zenon DEF HealthParts, HealthInv
<1>2. /\ UNCHANGED <<postgres, pool, redis, destroyed, outages>> /\ probe[p].pc = "query"
      /\ conn' = IF pool = "ended" THEN NoConn ELSE [conn EXCEPT !.state = "idle"]
  BY Zenon DEF QuerySucceeds, ReleaseConnection
<1>3. conn' \in Conn /\ ~conn'.failed /\ conn'.state # "busy"
  BY <1>1, <1>2, Zenon DEF NoConn, Conn, HealthInv
<1>4. conn.state = "busy" /\ \A q \in Probes \ {p} : probe[q].pc # "query"
  BY <1>1, <1>2, UserFacts, Zenon
<1>5. \A q \in Probes \ {p} : ~(probe[q].clean /\ probe[q].pc \in {"pool", "query"})
  BY <1>4, Zenon DEF HealthInv, CleanInv, Undisturbed
<1>6. (\A q \in Probes \ {p} : probe'[q] = probe[q]) /\ probe'[p].pc # "query" => OneUser'
  BY <1>3, <1>4, NobodyUses, Zenon
<1> QED  BY <1>2, <1>3, <1>4, <1>5, <1>6, Zenon

\* The check of /health/serving ends here.
LEMMA ServingKeeps ==
  ASSUME HealthInv, NEW p \in Probes, QuerySucceeds(p), Answer(p, "ok"),
         UNCHANGED <<cl, client, promise>>
  PROVE  HealthInv'
<1>1. /\ probe'[p].pc = "ok"
      /\ \A q \in Probes \ {p} : probe'[q] = probe[q]
  BY AnswerEffect, Zenon
<1>2. OneUser'
  BY <1>1, ReleaseEffect, Zenon
<1> QED  BY <1>2, ReleaseEffect, AnswerKeeps, Zenon

\* The check of Redis finds a client that cannot be used and resets it.  This only
\* happens after onModuleDestroy.
LEMMA NotReadyKeeps ==
  ASSUME HealthInv, NEW p \in Probes, QuerySucceeds(p), Answer(p, "failedRedis"),
         client # NoClient, cl[client].status \notin {"ready", "end"}, promise = NoClient,
         cl' = Disconnect({client}, cl), client' = NoClient, promise' = NoClient
  PROVE  HealthInv'
<1>1. /\ cl \in [Clients -> Client] /\ client \in Clients \cup {NoClient}
  BY HealthTypes, Zenon DEF HealthParts, HealthInv
<1>2. PICK c \in Clients : c = client /\ cl[c].status = "connecting"
  BY <1>1, Zenon DEF HealthInv, ClientInv
<1>3. destroyed
  BY <1>2, HealthAssumption, Zenon DEF HealthInv, ClientInv
<1>4. /\ cl' \in [Clients -> Client]
      /\ \A d \in Clients \ {c} : cl'[d] = cl[d]
      /\ cl'[c].status = cl[c].status /\ cl'[c].disconnected
  <2>1. cl' = Disconnect({c}, cl)
    BY <1>2, Zenon
  <2> QED  BY <2>1, ResetEffect, Zenon
<1>5. UNCHANGED <<postgres, pool, redis, destroyed, outages>> /\ conn' \in Conn /\ ~conn'.failed
  BY ReleaseEffect, Zenon
<1>6. OthersGone' /\ ClientInv'
  <2>1. PICK reset \in BOOLEAN : reset
    BY Zenon
  <2> QED  BY <1>2, <1>3, <1>4, <1>5, <2>1, ClientLost, Zenon
<1>7. /\ probe' \in [Probes -> Probe] /\ probe'[p].pc = "failedRedis"
      /\ \A q \in Probes \ {p} : probe'[q] = probe[q]
      /\ \A q \in Probes : probe'[q].clean = probe[q].clean
  BY AnswerEffect, Zenon
<1>8. OneUser'
  BY <1>7, ReleaseEffect, Zenon
<1>9. HealthTypeOK'
  BY <1>4, <1>5, <1>7, <1>8, HealthTypes, Zenon DEF HealthParts, HealthInv
<1>10. ProbeInv'
  <2>1. \A d \in Clients : cl'[d].status = cl[d].status
    BY <1>4, Zenon
  <2>2. \A q \in Probes : probe'[q].pc \in {"connect", "ping"} => probe'[q] = probe[q]
    BY <1>7, Zenon
  <2> QED  BY <2>1, <2>2, ProbesKept, Zenon
<1>11. CleanInv'
  BY <1>3, <1>7, Zenon DEF HealthInv, CleanInv, Undisturbed
<1> QED  BY <1>5, <1>6, <1>9, <1>10, <1>11, Zenon DEF HealthInv

\* The check of Redis goes on with client c, waiting for its attempt or with a
\* PING: the clients may have changed to include c, but no other check depends on
\* what changed.
LEMMA GoOnKeeps ==
  ASSUME HealthInv, NEW p \in Probes, QuerySucceeds(p),
         NEW step \in {"connect", "ping"}, NEW c \in Clients,
         NEW attempt \in Clients \cup {NoClient}, ToRedis(p, step, c, attempt),
         cl' \in [Clients -> Client], client' = c, promise' \in Clients \cup {NoClient},
         OthersGone', ClientInv',
         step = "connect" => attempt = c /\ cl'[c].status = "connecting",
         step = "ping" => cl'[c].status = "ready",
         ~RedisDisturbed => redis = "up" /\ ~cl'[c].broken,
         \A q \in Probes \ {p} : probe[q].pc \in {"connect", "ping"} =>
           cl'[probe[q].client] = cl[probe[q].client],
         \A q \in Probes \ {p} : probe[q].pc \in {"connect", "ping"} /\ probe[q].clean =>
           client = c
  PROVE  HealthInv'
<1>1. UNCHANGED <<postgres, pool, redis, destroyed, outages>> /\ conn' \in Conn /\ ~conn'.failed
  BY ReleaseEffect, Zenon
<1>2. /\ probe' \in [Probes -> Probe]
      /\ probe'[p].pc = step /\ probe'[p].client = c /\ probe'[p].attempt = attempt
      /\ probe'[p].clean => probe[p].clean /\ ~RedisDisturbed
      /\ \A q \in Probes \ {p} : probe'[q] = probe[q]
  BY ToRedisEffect, ZenonT(30)
<1>3. OneUser'
  BY <1>2, ReleaseEffect, Zenon
<1>4. HealthTypeOK'
  BY <1>1, <1>2, <1>3, HealthTypes, Zenon DEF HealthParts, HealthInv
<1>5. ProbeInv'
  <2>1. ASSUME NEW q \in Probes, q # p
        PROVE  /\ probe'[q].pc = "connect" => /\ probe'[q].client \in Clients
                                              /\ probe'[q].attempt = probe'[q].client
                                              /\ cl'[probe'[q].client].status = "connecting"
               /\ probe'[q].pc = "ping" => /\ probe'[q].client \in Clients
                                           /\ cl'[probe'[q].client].status = "ready"
    <3>1. /\ probe'[q] = probe[q]
          /\ probe[q].pc \in {"connect", "ping"} => cl'[probe[q].client] = cl[probe[q].client]
      BY <1>2, <2>1, Zenon
    <3> QED  BY <3>1, Zenon DEF HealthInv, ProbeInv
  <2>2. /\ probe'[p].pc = "connect" => /\ probe'[p].client \in Clients
                                       /\ probe'[p].attempt = probe'[p].client
                                       /\ cl'[probe'[p].client].status = "connecting"
        /\ probe'[p].pc = "ping" => /\ probe'[p].client \in Clients
                                    /\ cl'[probe'[p].client].status = "ready"
    BY <1>2, ZenonT(30)
  <2> QED  BY <2>1, <2>2, Zenon DEF ProbeInv
<1>6. ASSUME NEW q \in Probes, probe'[q].clean  PROVE Undisturbed(q)'
  <2>1. CASE q # p
    <3>1. /\ probe'[q] = probe[q] /\ Undisturbed(q) /\ probe[q].pc \notin {"pool", "query"}
      BY <1>2, <1>6, <2>1, ReleaseEffect, Zenon DEF HealthInv, CleanInv
    <3>2. CASE probe[q].pc \in {"connect", "ping"}
      <4>1. client' = client /\ probe[q].client = client /\ cl'[client] = cl[client]
        BY <1>6, <2>1, <3>1, <3>2, Zenon DEF Undisturbed
      <4> QED  BY <1>1, <3>1, <4>1, Zenon DEF Undisturbed
    <3>3. CASE probe[q].pc \notin {"connect", "ping"}
      BY <1>1, <3>1, <3>3, ZenonT(30) DEF Undisturbed
    <3> QED  BY <3>2, <3>3, Zenon
  <2>2. CASE q = p
    <3>1. Undisturbed(p) /\ redis = "up" /\ ~cl'[c].broken
      BY <1>2, <1>6, <2>2, Zenon DEF HealthInv, CleanInv
    <3>2. probe'[p].pc \in {"connect", "ping"} /\ probe'[p].client = client'
      BY <1>2, Zenon
    <3> QED  BY <1>1, <2>2, <3>1, <3>2, Zenon DEF Undisturbed
  <2> QED  BY <2>1, <2>2, Zenon
<1> QED  BY <1>1, <1>4, <1>5, <1>6, Zenon DEF HealthInv, CleanInv

\* The check of Redis goes on with the client at hand.
LEMMA CurrentClientKeeps ==
  ASSUME HealthInv, NEW p \in Probes, QuerySucceeds(p), CheckCurrentClient(p)
  PROVE  HealthInv'
<1>1. /\ cl \in [Clients -> Client] /\ client \in Clients \cup {NoClient}
      /\ promise \in Clients \cup {NoClient}
  BY HealthTypes, Zenon DEF HealthParts, HealthInv
<1>2. client # NoClient /\ cl[client].status # "end"
  BY Zenon DEF CheckCurrentClient, ClientEnded
<1>3. PICK c \in Clients : c = client
  BY <1>1, <1>2, Zenon
<1>4. CASE cl[client].status # "ready" /\ promise = NoClient
  <2>1. /\ cl' = Disconnect({client}, cl) /\ Answer(p, "failedRedis")
        /\ client' = NoClient /\ promise' = NoClient
    BY <1>4, Zenon DEF CheckCurrentClient, ResetClient
  <2> QED  BY <1>2, <1>4, <2>1, NotReadyKeeps, Zenon
<1>5. CASE cl[client].status = "ready" \/ promise # NoClient
  <2>1. /\ cl' = Disconnect({}, cl) /\ client' = client /\ promise' = promise
        /\ ToRedis(p, IF cl[client].status = "ready" THEN "ping" ELSE "connect", client,
                   IF cl[client].status = "ready" THEN NoClient ELSE promise)
    BY <1>5, Zenon DEF CheckCurrentClient, ResetClient
  <2>2. cl' = cl
    BY <1>1, <2>1, Zenon DEF Disconnect
  <2>3. OthersGone' /\ ClientInv'
    <3>1. destroyed' = destroyed
      BY ReleaseEffect, Zenon
    <3> QED  BY <2>1, <2>2, <3>1, Zenon DEF HealthInv, OthersGone, ClientInv
  <2>4. ~RedisDisturbed => redis = "up" /\ ~cl[c].broken
    <3>1. cl[client].status \in {"connecting", "ready"}
      BY <1>2, Zenon DEF HealthInv, ClientInv
    <3> QED  BY <1>2, <1>3, <3>1, Zenon DEF RedisDisturbed
  <2>5. CASE cl[client].status = "ready"
    <3>1. ToRedis(p, "ping", c, NoClient)
      BY <1>3, <2>1, <2>5, Zenon
    <3>2. cl'[c].status = "ready" /\ client' = c
      BY <1>3, <2>1, <2>2, <2>5, ZenonT(30)
    <3> QED  BY <1>1, <1>3, <2>1, <2>2, <2>3, <2>4, <3>1, <3>2, GoOnKeeps, Zenon
  <2>6. CASE cl[client].status # "ready"
    <3>1. promise = c /\ cl[c].status = "connecting"
      BY <1>3, <1>5, <2>6, Zenon DEF HealthInv, ClientInv
    <3>2. ToRedis(p, "connect", c, c)
      BY <1>3, <2>1, <2>6, <3>1, Zenon
    <3>3. cl'[c].status = "connecting" /\ client' = c
      BY <1>3, <2>1, <2>2, <3>1, Zenon
    <3> QED  BY <1>1, <1>3, <2>1, <2>2, <2>3, <2>4, <3>2, <3>3, GoOnKeeps, Zenon
  <2> QED  BY <2>5, <2>6, Zenon
<1> QED  BY <1>4, <1>5, Zenon

\* The check of Redis builds a client: there is none, or the old one has ended, so
\* no check is waiting for an undisturbed one.
LEMMA NewClientKeeps ==
  ASSUME HealthInv, NEW p \in Probes, QuerySucceeds(p), CheckNewClient(p)
  PROVE  HealthInv'
<1>1. /\ cl \in [Clients -> Client] /\ client \in Clients \cup {NoClient}
      /\ promise \in Clients \cup {NoClient} /\ redis \in {"up", "down", "hung"}
  BY HealthTypes, Zenon DEF HealthParts, HealthInv
<1>2. client = NoClient \/ cl[client].status = "end"
  BY Zenon DEF CheckNewClient, ClientEnded
<1>3. promise = NoClient
  BY <1>2, Zenon DEF HealthInv, ClientInv
<1>4. PICK c \in Clients :
        /\ Unused(c) /\ client' = c /\ promise' = c
        /\ cl' = [cl EXCEPT ![c] = [NewClient EXCEPT !.status = "connecting", !.broken = redis # "up"]]
        /\ ToRedis(p, "connect", c, promise')
  BY <1>3, Zenon DEF CheckNewClient
<1>5. /\ cl' \in [Clients -> Client] /\ cl'[c].status = "connecting" /\ ~cl'[c].disconnected
      /\ cl'[c].broken => redis # "up"
      /\ \A d \in Clients \ {c} : cl'[d] = cl[d]
  <2>1. PICK b \in BOOLEAN : b = (redis # "up")
    BY Zenon
  <2>2. cl' = [cl EXCEPT ![c] = [NewClient EXCEPT !.status = "connecting", !.broken = b]]
    BY <1>4, <2>1, Zenon
  <2>3. PICK r : r = [NewClient EXCEPT !.status = "connecting", !.broken = b]
    BY Zenon
  <2>4. r \in Client /\ r.status = "connecting" /\ r.disconnected = FALSE /\ r.broken = b
    BY <2>1, <2>3, Zenon DEF NewClient, Client
  <2>5. cl' = [cl EXCEPT ![c] = r]
    BY <2>2, <2>3, Zenon
  <2> QED  BY <1>1, <2>1, <2>4, <2>5, Zenon
<1>6. destroyed' = destroyed
  BY ReleaseEffect, Zenon
<1>7. \A d \in Clients : ~(cl[d].status \in {"wait", "connecting", "ready"} /\ ~cl[d].disconnected)
  BY <1>2, HealthAssumption, Zenon DEF HealthInv, OthersGone
<1>8. OthersGone'
  BY <1>4, <1>5, <1>7, Zenon DEF OthersGone
<1>9. ClientInv'
  <2>1. ASSUME ~destroyed, NEW d \in Clients, cl'[d].status = "connecting"  PROVE d = c
    <3> SUFFICES ASSUME d # c  PROVE FALSE
      BY Zenon
    <3>1. cl[d].status = "connecting"
      BY <1>5, <2>1, Zenon
    <3> QED  BY <1>3, <2>1, <3>1, HealthAssumption, Zenon DEF HealthInv, ClientInv
  <2> QED  BY <1>4, <1>5, <1>6, <2>1, Zenon DEF ClientInv
<1>10. ToRedis(p, "connect", c, c)
  BY <1>4, Zenon
<1>11. ASSUME NEW q \in Probes \ {p}, probe[q].pc \in {"connect", "ping"}
       PROVE  cl'[probe[q].client] = cl[probe[q].client] /\ ~probe[q].clean
  <2>1. /\ probe[q].client \in Clients /\ probe[q].client # c
        /\ cl[probe[q].client].status \in {"connecting", "ready"}
    BY <1>4, <1>11, Zenon DEF HealthInv, ProbeInv, Unused
  <2>2. probe[q].clean => probe[q].client = client
    BY <1>11, Zenon DEF HealthInv, CleanInv, Undisturbed
  <2> QED  BY <1>2, <1>5, <2>1, <2>2, HealthAssumption, Zenon
<1>12. ~RedisDisturbed => redis = "up" /\ ~cl'[c].broken
  BY <1>5, Zenon DEF RedisDisturbed
<1> QED  BY <1>4, <1>5, <1>8, <1>9, <1>10, <1>11, <1>12, GoOnKeeps, ZenonT(30)

\* Every step keeps the invariant.
LEMMA HealthStepKeeps ==
  ASSUME HealthInv, [HealthNext]_healthVars
  PROVE  HealthInv'
<1>1. ASSUME NEW p \in Probes, QuerySucceeds(p)  PROVE HealthInv'
  <2>1. \/ Answer(p, "ok") /\ UNCHANGED <<cl, client, promise>>
        \/ CheckNewClient(p)
        \/ CheckCurrentClient(p)
    BY <1>1, Zenon DEF QuerySucceeds
  <2> QED  BY <1>1, <2>1, ServingKeeps, NewClientKeeps, CurrentClientKeeps, Zenon
<1>2. ASSUME NEW p \in Probes, ProbeStep(p)  PROVE HealthInv'
  BY <1>1, <1>2, PoolConnectsKeeps, PoolTimesOutKeeps, QueryFailsKeeps, PingAnsweredKeeps,
     PingTimesOutKeeps, Zenon DEF ProbeStep
<1>3. ASSUME NEW c \in Clients, ClientStep(c)  PROVE HealthInv'
  BY <1>3, ConnectSucceedsKeeps, ConnectFailsKeeps, ConnectionClosesKeeps, Zenon DEF ClientStep
<1>4. CASE RedisStops("down") \/ RedisStops("hung")
  BY <1>4, RedisStopsKeeps, Zenon
<1>5. CASE UNCHANGED healthVars
  <2>1. UNCHANGED <<probe, postgres, pool, conn, redis, cl, client, promise, destroyed, outages>>
    BY <1>5, Zenon DEF healthVars
  <2>2. HealthTypeOK'
    BY <2>1, ZenonT(30) DEF HealthInv, HealthTypeOK
  <2>3. OthersGone' /\ ClientInv' /\ ProbeInv'
    BY <2>1, ClientsKept, Zenon
  <2>4. CleanInv'
    BY <2>1, Zenon DEF HealthInv, CleanInv, Undisturbed
  <2> QED  BY <2>1, <2>2, <2>3, <2>4, Zenon DEF HealthInv
<1> QED
  BY <1>2, <1>3, <1>4, <1>5, StartProbeKeeps, ReturnKeeps, ServersKeep, PostgresStopsKeeps,
     DestroyKeeps, Zenon DEF HealthNext

\* The invariant of the health checks holds in every reachable state.
LEMMA HealthInvariance == HealthSpec => []HealthInv
BY HealthInitial, HealthStepKeeps, PTL DEF HealthSpec

\* resetClient, getClient and onModuleDestroy leave no connection to Redis behind,
\* for any number of concurrent probes, clients and outages.
THEOREM ClientsNeverLeak == HealthSpec => []NoClientLeaks
<1>1. HealthInv => NoClientLeaks
  BY Zenon DEF HealthInv, NoClientLeaks, OthersGone
<1> QED  BY <1>1, HealthInvariance, PTL

\* A probe that no outage disturbs passes, whatever other probes do to the shared
\* client and the one connection of the pool: getClient replaces a client that
\* has ended, and check() never keeps a connection on which a query failed.
THEOREM UndisturbedProbesPass == HealthSpec => []UpServicesPass
<1>1. HealthInv => UpServicesPass
  BY Zenon DEF HealthInv, CleanInv, Undisturbed, UpServicesPass
<1> QED  BY <1>1, HealthInvariance, PTL
=============================================================================
