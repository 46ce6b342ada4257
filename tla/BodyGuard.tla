------------------------------ MODULE BodyGuard ------------------------------
(***************************************************************************)
(* The request body guard: an iterative walk over a parsed body with a     *)
(* stack of values still to visit.  A body is a tree of objects and arrays *)
(* (Nodes) whose entries are in order; strings and keys are known by what  *)
(* findStringViolation says of them (StringGuard) and by being reserved.   *)
(***************************************************************************)
EXTENDS Naturals, Sequences

CONSTANTS
  Nodes,      \* the objects and arrays of a body
  Root,       \* the outermost one
  Bodies,     \* parsed bodies: the entries and the nesting depth of every node
  MaxDepth    \* MAX_REQUEST_BODY_DEPTH

Violations == {"depth", "reservedKey", "controlCharacter", "loneSurrogate"}

\* Values that are not objects: strings by their violation, and the others.
Leaves == {"text", "controlCharacter", "loneSurrogate", "other"}

\* "item" is the absent key of an array's entry.
Keys == {"item", "key", "reservedKey", "controlCharacter", "loneSurrogate"}

Entry == [key : Keys, child : Nodes \cup Leaves]

\* JSON.parse builds trees: every node but the root is an entry of one node,
\* one level further out; only arrays have entries without keys.
IsTree(ent, dep) ==
  /\ dep[Root] = 1
  /\ \A n \in Nodes : \A i \in DOMAIN ent[n] :
       LET c == ent[n][i].child IN
       c \in Nodes =>
         /\ c # Root /\ dep[c] = dep[n] + 1
         /\ \A m \in Nodes : \A j \in DOMAIN ent[m] :
              ent[m][j].child = c => m = n /\ j = i
  /\ \A c \in Nodes \ {Root} : \E n \in Nodes : \E i \in DOMAIN ent[n] :
       ent[n][i].child = c
  /\ \A n \in Nodes : \A i, j \in DOMAIN ent[n] :
       ent[n][i].key = "item" <=> ent[n][j].key = "item"

ASSUME GuardAssumption ==
  /\ Root \in Nodes
  /\ Nodes \cap Leaves = {}
  /\ \A b \in Bodies :
       /\ b.entries \in [Nodes -> Seq(Entry)] /\ b.depth \in [Nodes -> Nat]
       /\ IsTree(b.entries, b.depth)
  /\ MaxDepth \in Nat

VARIABLES
  body,      \* the parsed body: the root node or a leaf
  entries,   \* the entries of every node
  depth,     \* how deep every node is nested
  pending,   \* the stack of nodes to visit, each with the depth it was found at
  frame,     \* the node being scanned, its depth and the entry to look at next
  visited,   \* history: nodes scanned to their end
  result     \* the violation found, "clean", or "none" during the walk

vars == <<body, entries, depth, pending, frame, visited, result>>

NoFrame == [active |-> FALSE, node |-> Root, depth |-> 0, index |-> 1]

Init ==
  /\ \E b \in Bodies : entries = b.entries /\ depth = b.depth
  /\ body \in {Root} \cup Leaves
  /\ pending = <<>> /\ frame = NoFrame /\ visited = {}
  /\ result = "start"

\* A body that is a string is scanned as one; the walk starts with the rest.
Start ==
  /\ result = "start"
  /\ IF body \in {"controlCharacter", "loneSurrogate"}
     THEN result' = body /\ pending' = pending
     ELSE IF body = "text"
     THEN result' = "clean" /\ pending' = pending
     ELSE /\ result' = "none"
          /\ pending' = IF body = Root THEN <<[node |-> Root, depth |-> 1]>> ELSE <<>>
  /\ UNCHANGED <<body, entries, depth, frame, visited>>

Walking == result = "none"

\* Mutant of TooDeep: no limit.
TooDeepNever(d) == FALSE

TooDeep(d) == d > MaxDepth

Pop ==
  /\ Walking /\ ~frame.active /\ pending # <<>>
  /\ LET top == pending[Len(pending)] IN
     /\ pending' = SubSeq(pending, 1, Len(pending) - 1)
     /\ IF TooDeep(top.depth)
        THEN result' = "depth" /\ frame' = frame
        ELSE /\ result' = result
             /\ frame' = [active |-> TRUE, node |-> top.node, depth |-> top.depth, index |-> 1]
  /\ UNCHANGED <<body, entries, depth, visited>>

\* What is wrong with one entry: its key is looked at before its value.
Problem(e) ==
  IF e.key \in {"reservedKey", "controlCharacter", "loneSurrogate"} THEN e.key
  ELSE IF e.child \in {"controlCharacter", "loneSurrogate"} THEN e.child
  ELSE "none"

ScanEntry ==
  /\ Walking /\ frame.active /\ frame.index <= Len(entries[frame.node])
  /\ LET e == entries[frame.node][frame.index] IN
     /\ result' = Problem(e)
     /\ pending' = IF Problem(e) = "none" /\ e.child \in Nodes
                   THEN Append(pending, [node |-> e.child, depth |-> frame.depth + 1])
                   ELSE pending
     /\ frame' = [frame EXCEPT !.index = @ + 1]
  /\ UNCHANGED <<body, entries, depth, visited>>

EndOfNode ==
  /\ Walking /\ frame.active /\ frame.index > Len(entries[frame.node])
  /\ visited' = visited \cup {frame.node}
  /\ frame' = NoFrame
  /\ UNCHANGED <<body, entries, depth, pending, result>>

\* The stack is empty: next() is called without an error.
Finish ==
  /\ Walking /\ ~frame.active /\ pending = <<>>
  /\ result' = "clean"
  /\ UNCHANGED <<body, entries, depth, pending, frame, visited>>

Next == Start \/ Pop \/ ScanEntry \/ EndOfNode \/ Finish

Spec == Init /\ [][Next]_vars

-----------------------------------------------------------------------------
(* Properties *)

Item == [node : Nodes, depth : Nat]

\* The state is well formed, and every node is carried with its real depth.
TypeOK ==
  /\ body \in {Root} \cup Leaves
  /\ entries \in [Nodes -> Seq(Entry)]
  /\ depth \in [Nodes -> Nat]
  /\ pending \in Seq(Item)
  /\ frame \in [active : BOOLEAN, node : Nodes, depth : Nat, index : Nat \ {0}]
  /\ visited \in SUBSET Nodes
  /\ result \in Violations \cup {"start", "none", "clean"}
  /\ \A i \in DOMAIN pending : pending[i].depth = depth[pending[i].node]
  /\ frame.active => frame.depth = depth[frame.node]

\* A body the guard lets through is clean all over: no object is nested deeper
\* than the limit, and no key and no string of any node is refused, however the
\* body branches and wherever the walk has turned back.
CleanMeansClean ==
  result = "clean" =>
    /\ body \notin {"controlCharacter", "loneSurrogate"}
    /\ body = Root => \A n \in Nodes :
         /\ depth[n] <= MaxDepth
         /\ \A i \in DOMAIN entries[n] : Problem(entries[n][i]) = "none"

\* A violation the guard reports is in the body: a body is never refused
\* without a reason.
ViolationIsReal ==
  /\ result = "depth" => \E n \in Nodes : depth[n] > MaxDepth
  /\ result \in Violations \ {"depth"} =>
       \/ body = result
       \/ \E n \in Nodes : \E i \in DOMAIN entries[n] : Problem(entries[n][i]) = result

=============================================================================
