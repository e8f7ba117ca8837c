----------------------------- MODULE UnionFind -----------------------------
(***************************************************************************)
(* src/fanuni/unification/deterministic.py UnionFind, one step per         *)
(* recursive call and per assignment to _parent.                           *)
(*                                                                         *)
(* find goes down the parents to a root and, as the calls return, hangs    *)
(* every ref it met below that root; union hangs the greater of two roots  *)
(* below the smaller.  clusters calls find for every key, so it needs no   *)
(* action of its own.                                                      *)
(***************************************************************************)
EXTENDS Integers, Sequences

CONSTANT Items  \* the refs, in the order Python compares the strings

ASSUME ItemsAssumption == Items \subseteq Nat \ {0}

VARIABLES
  parent,  \* _parent; 0 for a key that is not there
  pc,      \* what the call in progress does next
  a, b,    \* its arguments; b = 0 for a call of find
  root_a,  \* what union got from its first find; 0 before
  stack,   \* the items of the calls of find in progress, the innermost last
  found,   \* what the innermost of them has returned
  answer,  \* what the last outermost find returned
  class    \* auxiliary: the partition that the calls so far ask for

vars == <<parent, pc, a, b, root_a, stack, found, answer, class>>

P == INSTANCE Partition

ItemsOrNone == Items \cup {0}

TypeOK ==
  /\ parent \in [Items -> ItemsOrNone]
  /\ pc \in {"idle", "find", "unwind", "link"}
  /\ a \in ItemsOrNone /\ b \in ItemsOrNone
  /\ root_a \in ItemsOrNone
  /\ stack \in Seq(Items)
  /\ found \in ItemsOrNone /\ answer \in ItemsOrNone
  /\ class \in [Items -> ItemsOrNone]

Init ==
  /\ parent = [x \in Items |-> 0]
  /\ pc = "idle"
  /\ a = 0 /\ b = 0 /\ root_a = 0
  /\ stack = <<>>
  /\ found = 0 /\ answer = 0
  /\ class = [x \in Items |-> 0]

-----------------------------------------------------------------------------
CallFind(x) ==
  /\ pc = "idle"
  /\ a' = x /\ b' = 0 /\ root_a' = 0
  /\ stack' = <<x>>
  /\ pc' = "find"
  /\ UNCHANGED <<parent, found, answer, class>>

CallUnion(x, y) ==
  /\ pc = "idle"
  /\ a' = x /\ b' = y /\ root_a' = 0
  /\ stack' = <<x>>
  /\ pc' = "find"
  /\ UNCHANGED <<parent, found, answer, class>>

Top == stack[Len(stack)]
Popped == SubSeq(stack, 1, Len(stack) - 1)

(* setdefault: a ref that was never seen is its own parent. *)
Register ==
  /\ pc = "find"
  /\ parent[Top] = 0
  /\ parent' = [parent EXCEPT ![Top] = Top]
  /\ class' = P!Registered(class, Top)
  /\ UNCHANGED <<pc, a, b, root_a, stack, found, answer>>

Descend ==
  /\ pc = "find"
  /\ parent[Top] \notin {0, Top}
  /\ stack' = Append(stack, parent[Top])
  /\ UNCHANGED <<parent, pc, a, b, root_a, found, answer, class>>

AtRoot ==
  /\ pc = "find"
  /\ parent[Top] = Top
  /\ found' = Top
  /\ stack' = Popped
  /\ pc' = "unwind"
  /\ UNCHANGED <<parent, a, b, root_a, answer, class>>

(* Path compression. *)
Compress ==
  /\ pc = "unwind" /\ stack # <<>>
  /\ parent' = [parent EXCEPT ![Top] = found]
  /\ stack' = Popped
  /\ UNCHANGED <<pc, a, b, root_a, found, answer, class>>

(* The outermost find returns: to its caller, or to union, which has two. *)
Return ==
  /\ pc = "unwind" /\ stack = <<>>
  /\ answer' = found
  /\ UNCHANGED <<parent, a, b, found, class>>
  /\ \/ b = 0 /\ pc' = "idle" /\ UNCHANGED <<root_a, stack>>
     \/ b # 0 /\ root_a = 0 /\ root_a' = found /\ stack' = <<b>> /\ pc' = "find"
     \/ b # 0 /\ root_a # 0 /\ pc' = "link" /\ UNCHANGED <<root_a, stack>>

(* sorted((root_a, root_b)): the smaller root stays one. *)
BugLinkedUnsorted(m, n) == IF m = n THEN parent ELSE [parent EXCEPT ![m] = n]
BugLinkedItems(m, n) == IF m = n THEN parent ELSE [parent EXCEPT ![a] = b]

Linked(m, n) ==
  IF m = n THEN parent
  ELSE [parent EXCEPT ![P!Greatest(m, n)] = P!Least(m, n)]

Link ==
  /\ pc = "link"
  /\ parent' = Linked(root_a, found)
  /\ class' = P!Merged(class, class[a], class[b])
  /\ pc' = "idle"
  /\ UNCHANGED <<a, b, root_a, stack, found, answer>>

Step == Register \/ Descend \/ AtRoot \/ Compress \/ Return \/ Link

Next ==
  \/ \E x \in Items : CallFind(x)
  \/ \E x, y \in Items : CallUnion(x, y)
  \/ Step

Spec == Init /\ [][Next]_vars

-----------------------------------------------------------------------------
(* Correctness. *)

(* What _parent stands for: it links only refs of one class, and its roots *)
(* are the least members of the classes, compressed paths or not.          *)
Represents ==
  \A x \in Items :
    /\ parent[x] = 0 <=> class[x] = 0
    /\ class[x] # 0 =>
         /\ class[parent[x]] = class[x]
         /\ class[class[x]] = class[x] /\ class[x] <= x
         /\ parent[x] = x <=> class[x] = x

(* UnionFind keeps Partition's promise: find answers with the least member *)
(* of the ref's class, whatever calls came before.                         *)
IsPartition == P!Spec

(* The calls of find in progress are for ever smaller refs: the recursion   *)
(* meets no cycle and ends.                                                *)
RecursionDescends ==
  \A j, k \in 1 .. Len(stack) : j < k => stack[k] < stack[j]

-----------------------------------------------------------------------------
(* Why: what the calls in progress know of the classes. *)

Current == IF root_a = 0 THEN a ELSE b

CallInv ==
  pc # "idle" =>
    /\ a \in Items
    /\ root_a # 0 => b \in Items /\ class[a] = root_a /\ class[root_a] = root_a
    /\ pc = "find" =>
         /\ Len(stack) > 0
         /\ \A k \in 1 .. Len(stack) : class[stack[k]] = class[Current]
         /\ Len(stack) > 1 => class[Current] # 0
         /\ Len(stack) = 1 => stack[1] = Current
    /\ pc \in {"unwind", "link"} =>
         /\ found # 0 /\ class[found] = found /\ class[Current] = found
         /\ \A k \in 1 .. Len(stack) : class[stack[k]] = found
    /\ pc = "link" => root_a # 0 /\ b \in Items

ParentsDescend == \A x \in Items : parent[x] <= x

UnionFindInv ==
  TypeOK /\ Represents /\ CallInv /\ ParentsDescend /\ RecursionDescends
=============================================================================
