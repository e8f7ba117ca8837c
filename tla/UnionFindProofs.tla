-------------------------- MODULE UnionFindProofs --------------------------
(***************************************************************************)
(* UnionFind implements Partition, for every finite or infinite set of     *)
(* refs.                                                                   *)
(***************************************************************************)
EXTENDS UnionFind, SequenceTheorems, TLAPS

LEMMA Ordered ==
  /\ \A x \in Items : x \in Nat /\ x # 0
  /\ \A x, y \in Items : x <= y /\ x # y => x < y
  /\ \A x, y, z \in Items : x < y /\ y <= z => x < z
  BY ItemsAssumption

(* Dropping the last element of a stack. *)
LEMMA PopType ==
  ASSUME NEW S, NEW s \in Seq(S), s # <<>>
  PROVE  /\ SubSeq(s, 1, Len(s) - 1) \in Seq(S)
         /\ Len(SubSeq(s, 1, Len(s) - 1)) = Len(s) - 1
         /\ \A k \in 1 .. Len(s) - 1 : SubSeq(s, 1, Len(s) - 1)[k] = s[k]
<1>1. Len(s) \in Nat \ {0} /\ \A k \in 1 .. Len(s) : s[k] \in S
  OBVIOUS
<1>2. \A k \in 1 .. Len(s) - 1 : s[k] \in S
  BY <1>1
<1>3. Len(s) - 1 \in Int /\ 1 \in Int
  BY <1>1
<1>4. /\ SubSeq(s, 1, Len(s) - 1) \in Seq(S)
      /\ Len(SubSeq(s, 1, Len(s) - 1)) = IF 1 <= Len(s) - 1 THEN Len(s) - 1 - 1 + 1 ELSE 0
      /\ \A k \in 1 .. Len(s) - 1 - 1 + 1 : SubSeq(s, 1, Len(s) - 1)[k] = s[1 + k - 1]
  <2> DEFINE m == 1
             n == Len(s) - 1
  <2>1. m \in Int /\ n \in Int /\ \A i \in m .. n : s[i] \in S
    BY <1>2, <1>3
  <2> HIDE DEF m, n
  <2>2. /\ SubSeq(s, m, n) \in Seq(S)
        /\ Len(SubSeq(s, m, n)) = IF m <= n THEN n - m + 1 ELSE 0
        /\ \A i \in 1 .. n - m + 1 : SubSeq(s, m, n)[i] = s[m + i - 1]
    BY <2>1, SubSeqProperties
  <2>3. QED  BY <2>2 DEF m, n
<1>5. Len(s) - 1 - 1 + 1 = Len(s) - 1 /\ \A k \in Int : 1 + k - 1 = k
  BY <1>1
<1>6. QED  BY <1>1, <1>4, <1>5

LEMMA TopType ==
  ASSUME NEW S, NEW s \in Seq(S), s # <<>>
  PROVE  /\ Len(s) \in Nat \ {0}
         /\ s[Len(s)] \in S
         /\ \A k \in 1 .. Len(s) : s[k] \in S
  OBVIOUS

(* A step that only touches the control of a call keeps the representation. *)
LEMMA SameRepresentation ==
  ASSUME Represents, ParentsDescend, UNCHANGED <<parent, class>>
  PROVE  (Represents /\ ParentsDescend)'
  BY DEF Represents, ParentsDescend

LEMMA CallStep ==
  ASSUME UnionFindInv, NEW x \in Items, NEW y \in Items \cup {0},
         pc = "idle", a' = x, b' = y, root_a' = 0, stack' = <<x>>, pc' = "find",
         UNCHANGED <<parent, found, answer, class>>
  PROVE  UnionFindInv'
<1>1. TypeOK'
  BY DEF UnionFindInv, TypeOK, ItemsOrNone
<1>2. (Represents /\ ParentsDescend)'
  BY SameRepresentation DEF UnionFindInv
<1>3. Len(stack') = 1 /\ stack'[1] = x
  OBVIOUS
<1>4. CallInv'
  BY <1>3, ItemsAssumption DEF CallInv, Current
<1>5. RecursionDescends'
  BY <1>3 DEF RecursionDescends
<1>6. QED  BY <1>1, <1>2, <1>4, <1>5 DEF UnionFindInv

LEMMA RegisterStep ==
  ASSUME UnionFindInv, Register
  PROVE  UnionFindInv' /\ P!Register(Top)
<1> DEFINE t == Top
<1>1. stack # <<>> /\ t \in Items /\ t # 0
  BY TopType, ItemsAssumption DEF UnionFindInv, CallInv, Register, TypeOK, Top
<1>2. parent[t] = 0 /\ class[t] = 0
  BY <1>1 DEF Register, UnionFindInv, Represents
<1>3. /\ parent' = [parent EXCEPT ![t] = t]
      /\ class' = [class EXCEPT ![t] = t]
      /\ UNCHANGED <<pc, a, b, root_a, stack, found, answer>>
  BY <1>2 DEF Register, P!Registered
<1>4. TypeOK'
  BY <1>1, <1>3 DEF UnionFindInv, TypeOK, ItemsOrNone
<1>5. Represents' /\ ParentsDescend'
  BY <1>1, <1>2, <1>3, ItemsAssumption
  DEF UnionFindInv, TypeOK, ItemsOrNone, Represents, ParentsDescend
<1>6. CallInv'
  <2>0. /\ pc = "find" /\ Len(stack) \in Nat \ {0} /\ Len(stack) \in 1 .. Len(stack)
        /\ t = stack[Len(stack)]
    BY <1>1, TopType DEF Register, UnionFindInv, TypeOK, Top
  <2>a. class[t] = class[Current]
    BY <2>0 DEF UnionFindInv, CallInv
  <2>1. pc = "find" /\ Len(stack) = 1 /\ t = Current /\ stack[1] = Current
    BY <1>2, <2>0, <2>a DEF UnionFindInv, CallInv
  <2>2. root_a # 0 => class'[a] = root_a /\ class'[root_a] = root_a /\ b \in Items
    BY <1>2, <1>3, <1>1, <2>1, ItemsAssumption
    DEF UnionFindInv, CallInv, TypeOK, ItemsOrNone
  <2>3. QED  BY <1>3, <2>1, <2>2 DEF CallInv, Current, UnionFindInv
<1>7. RecursionDescends'
  BY <1>3 DEF UnionFindInv, RecursionDescends
<1>8. P!Register(Top)
  BY <1>2, <1>3 DEF P!Register, P!Registered
<1>9. QED  BY <1>4, <1>5, <1>6, <1>7, <1>8 DEF UnionFindInv

LEMMA DescendStep ==
  ASSUME UnionFindInv, Descend
  PROVE  UnionFindInv'
<1> DEFINE t == Top
           n == Len(stack)
           p == parent[t]
<1>1. stack # <<>> /\ n \in Nat \ {0} /\ t \in Items /\ t = stack[n]
  BY TopType DEF UnionFindInv, CallInv, Descend, TypeOK, Top
<1>2. /\ p \in Items /\ p < t /\ class[t] # 0 /\ class[p] = class[t]
  <2>1. p # 0 /\ p # t /\ p \in Items
    BY <1>1 DEF Descend, Top, UnionFindInv, TypeOK, ItemsOrNone
  <2>2. class[t] # 0 /\ class[p] = class[t] /\ p <= t
    BY <1>1, <2>1 DEF UnionFindInv, Represents, ParentsDescend
  <2>3. QED  BY <1>1, <2>1, <2>2, Ordered
<1>3. /\ stack' = Append(stack, p)
      /\ UNCHANGED <<parent, pc, a, b, root_a, found, answer, class>>
  BY DEF Descend
<1>4. /\ Len(stack') = n + 1 /\ stack'[n + 1] = p
      /\ \A k \in 1 .. n : stack'[k] = stack[k]
  BY <1>1, <1>3 DEF UnionFindInv, TypeOK
<1>5. TypeOK'
  BY <1>2, <1>3 DEF UnionFindInv, TypeOK
<1>6. (Represents /\ ParentsDescend)'
  BY <1>3, SameRepresentation DEF UnionFindInv
<1>7. CallInv'
  <2>1. class[t] = class[Current]
    BY <1>1 DEF UnionFindInv, CallInv, Descend
  <2>2. Current' = Current
    BY <1>3 DEF Current
  <2>3. \A k \in 1 .. n + 1 : class[stack'[k]] = class[Current]
    BY <1>1, <1>2, <1>4, <2>1 DEF UnionFindInv, CallInv, Descend
  <2>4. QED  BY <1>1, <1>2, <1>3, <1>4, <2>1, <2>2, <2>3 DEF UnionFindInv, CallInv, Descend
<1>8. RecursionDescends'
  <2>1. \A k \in 1 .. n : stack[k] \in Nat /\ p < stack[k]
    <3>1. SUFFICES ASSUME NEW k \in 1 .. n
                   PROVE  stack[k] \in Nat /\ p < stack[k]
      OBVIOUS
    <3>2. stack[k] \in Items
      BY <1>1, TopType DEF UnionFindInv, TypeOK
    <3>3. t <= stack[k]
      <4>1. CASE k = n
        BY <1>1, <4>1, Ordered
      <4>2. CASE k < n
        <5>1. stack[n] < stack[k]
          BY <1>1, <4>2 DEF UnionFindInv, RecursionDescends
        <5>2. QED  BY <1>1, <3>2, <5>1, Ordered
      <4>3. QED  BY <1>1, <4>1, <4>2
    <3>4. QED  BY <1>1, <1>2, <3>2, <3>3, Ordered
  <2>2. QED  BY <1>1, <1>4, <2>1 DEF UnionFindInv, RecursionDescends
<1>9. QED  BY <1>5, <1>6, <1>7, <1>8 DEF UnionFindInv

(* Popping the stack keeps what is known of the calls that are left. *)
LEMMA PopStep ==
  ASSUME UnionFindInv, stack # <<>>, stack' = Popped
  PROVE  /\ stack' \in Seq(Items) /\ Len(stack') = Len(stack) - 1
         /\ \A k \in 1 .. Len(stack') : k \in 1 .. Len(stack) /\ stack'[k] = stack[k]
         /\ RecursionDescends'
<1>1. /\ stack' \in Seq(Items) /\ Len(stack') = Len(stack) - 1
      /\ \A k \in 1 .. Len(stack') : stack'[k] = stack[k]
  BY PopType DEF UnionFindInv, TypeOK, Popped
<1>2. Len(stack) \in Nat /\ \A k \in 1 .. Len(stack') : k \in 1 .. Len(stack)
  BY <1>1 DEF UnionFindInv, TypeOK
<1>3. RecursionDescends'
  BY <1>1, <1>2 DEF UnionFindInv, RecursionDescends
<1>4. QED  BY <1>1, <1>2, <1>3

LEMMA AtRootStep ==
  ASSUME UnionFindInv, AtRoot
  PROVE  UnionFindInv'
<1> DEFINE t == Top
<1>1. /\ stack # <<>> /\ Len(stack) \in 1 .. Len(stack)
      /\ t \in Items /\ t = stack[Len(stack)]
  BY TopType DEF UnionFindInv, CallInv, AtRoot, TypeOK, Top
<1>2. /\ parent[t] = t /\ found' = t /\ pc = "find" /\ pc' = "unwind"
      /\ UNCHANGED <<parent, a, b, root_a, answer, class>>
  BY DEF AtRoot
<1>3. t # 0 /\ class[t] = t /\ class[Current] = t
  BY <1>1, <1>2, Ordered DEF UnionFindInv, Represents, CallInv
<1>4. /\ stack' \in Seq(Items) /\ RecursionDescends'
      /\ \A k \in 1 .. Len(stack') : k \in 1 .. Len(stack) /\ stack'[k] = stack[k]
  BY <1>1, PopStep DEF AtRoot
<1>5. TypeOK'
  BY <1>1, <1>2, <1>4 DEF UnionFindInv, TypeOK, ItemsOrNone
<1>6. CallInv'
  <2>1. Current' = Current
    BY <1>2 DEF Current
  <2>2. \A k \in 1 .. Len(stack') : class[stack'[k]] = t
    BY <1>2, <1>3, <1>4 DEF UnionFindInv, CallInv
  <2>3. QED  BY <1>2, <1>3, <2>1, <2>2 DEF UnionFindInv, CallInv
<1>7. QED  BY <1>2, <1>4, <1>5, <1>6, SameRepresentation DEF UnionFindInv

LEMMA CompressStep ==
  ASSUME UnionFindInv, Compress
  PROVE  UnionFindInv'
<1> DEFINE t == Top
<1>1. /\ stack # <<>> /\ Len(stack) \in 1 .. Len(stack)
      /\ t \in Items /\ t = stack[Len(stack)]
  BY TopType DEF UnionFindInv, Compress, TypeOK, Top
<1>2. /\ parent' = [parent EXCEPT ![t] = found] /\ pc = "unwind"
      /\ UNCHANGED <<pc, a, b, root_a, found, answer, class>>
  BY DEF Compress
<1>3. found \in Items /\ class[found] = found /\ class[t] = found
  BY <1>1, <1>2 DEF UnionFindInv, CallInv, TypeOK, ItemsOrNone
<1>4. /\ stack' \in Seq(Items) /\ RecursionDescends'
      /\ \A k \in 1 .. Len(stack') : k \in 1 .. Len(stack) /\ stack'[k] = stack[k]
  BY <1>1, PopStep DEF Compress
<1>5. TypeOK'
  BY <1>1, <1>2, <1>3, <1>4 DEF UnionFindInv, TypeOK, ItemsOrNone
<1>6. parent[t] # 0 /\ found # 0 /\ found <= t
  BY <1>1, <1>3, Ordered DEF UnionFindInv, Represents
<1>7. Represents' /\ ParentsDescend'
  BY <1>1, <1>2, <1>3, <1>6 DEF UnionFindInv, TypeOK, Represents, ParentsDescend
<1>8. CallInv'
  <2>1. Current' = Current
    BY <1>2 DEF Current
  <2>2. \A k \in 1 .. Len(stack') : class[stack'[k]] = found
    BY <1>2, <1>3, <1>4 DEF UnionFindInv, CallInv
  <2>3. QED  BY <1>2, <2>1, <2>2 DEF UnionFindInv, CallInv
<1>9. QED  BY <1>4, <1>5, <1>7, <1>8 DEF UnionFindInv

LEMMA ReturnStep ==
  ASSUME UnionFindInv, Return
  PROVE  UnionFindInv' /\ P!Find(Current)
<1>1. /\ pc = "unwind" /\ stack = <<>> /\ answer' = found
      /\ UNCHANGED <<parent, a, b, found, class>>
  BY DEF Return
<1>2. /\ found \in Items /\ class[found] = found /\ class[Current] = found /\ found # 0
      /\ a \in Items
  BY <1>1 DEF UnionFindInv, CallInv, TypeOK, ItemsOrNone
<1>3. P!Find(Current)
  BY <1>1, <1>2 DEF P!Find
<1>4. (Represents /\ ParentsDescend)'
  BY <1>1, SameRepresentation DEF UnionFindInv
<1>5. CASE b = 0 /\ pc' = "idle" /\ UNCHANGED <<root_a, stack>>
  BY <1>1, <1>2, <1>3, <1>4, <1>5
  DEF UnionFindInv, TypeOK, CallInv, RecursionDescends
<1>6. CASE b # 0 /\ root_a = 0 /\ root_a' = found /\ stack' = <<b>> /\ pc' = "find"
  <2>1. b \in Items /\ class[a] = found
    BY <1>2, <1>6 DEF UnionFindInv, TypeOK, ItemsOrNone, Current
  <2>2. Len(stack') = 1 /\ stack'[1] = b /\ stack' \in Seq(Items)
    BY <1>6, <2>1
  <2>3. CallInv'
    BY <1>1, <1>2, <1>6, <2>1, <2>2 DEF CallInv, Current
  <2>4. TypeOK' /\ RecursionDescends'
    BY <1>1, <1>2, <1>6, <2>2 DEF UnionFindInv, TypeOK, ItemsOrNone, RecursionDescends
  <2>5. QED  BY <1>3, <1>4, <2>3, <2>4 DEF UnionFindInv
<1>7. CASE b # 0 /\ root_a # 0 /\ pc' = "link" /\ UNCHANGED <<root_a, stack>>
  <2>1. CallInv'
    BY <1>1, <1>2, <1>7 DEF UnionFindInv, CallInv, Current
  <2>2. TypeOK' /\ RecursionDescends'
    BY <1>1, <1>2, <1>7 DEF UnionFindInv, TypeOK, RecursionDescends
  <2>3. QED  BY <1>3, <1>4, <2>1, <2>2 DEF UnionFindInv
<1>8. QED  BY <1>5, <1>6, <1>7 DEF Return

LEMMA LinkStep ==
  ASSUME UnionFindInv, Link
  PROVE  UnionFindInv' /\ P!Union(a, b)
<1> DEFINE m == root_a
           n == found
           l == P!Least(m, n)
           g == P!Greatest(m, n)
<1>1. /\ pc = "link" /\ pc' = "idle" /\ parent' = Linked(m, n)
      /\ class' = P!Merged(class, class[a], class[b])
      /\ UNCHANGED <<a, b, root_a, stack, found, answer>>
  BY DEF Link
<1>2. /\ a \in Items /\ b \in Items /\ m \in Items /\ n \in Items
      /\ class[a] = m /\ class[b] = n /\ class[m] = m /\ class[n] = n
      /\ m # 0 /\ n # 0
  BY <1>1 DEF UnionFindInv, CallInv, Current, TypeOK, ItemsOrNone
<1>3. P!Union(a, b)
  BY <1>1, <1>2 DEF P!Union
<1>4. class' = [x \in Items |-> IF class[x] \in {m, n} THEN l ELSE class[x]]
  BY <1>1, <1>2 DEF P!Merged
<1>5. /\ l \in {m, n} /\ g \in {m, n} /\ l <= g /\ l # 0
      /\ {l, g} = {m, n}
  BY <1>2, Ordered DEF P!Least, P!Greatest
<1>6. Represents' /\ ParentsDescend'
  <2>1. CASE m = n
    <3>1. parent' = parent /\ l = m
      BY <1>1, <1>5, <2>1 DEF Linked
    <3>2. class' = class
      BY <1>4, <2>1, <3>1 DEF UnionFindInv, TypeOK
    <3>3. QED  BY <3>1, <3>2, SameRepresentation DEF UnionFindInv
  <2>2. CASE m # n
    <3>1. parent' = [parent EXCEPT ![g] = l]
      BY <1>1, <2>2 DEF Linked
    <3>2. l # g /\ l < g
      BY <1>2, <1>5, <2>2, Ordered DEF P!Least, P!Greatest
    <3>3. \A x \in Items : class'[x] = IF class[x] \in {l, g} THEN l ELSE class[x]
      BY <1>4, <1>5
    <3>4. /\ l \in Items /\ g \in Items /\ class[l] = l /\ class[g] = g
          /\ g # 0 /\ parent[g] = g
      BY <1>2, <1>5, Ordered DEF UnionFindInv, Represents
    <3>5. ParentsDescend'
      BY <3>1, <3>2, <3>4 DEF UnionFindInv, TypeOK, ParentsDescend
    <3>6. SUFFICES ASSUME NEW x \in Items
                   PROVE  /\ parent'[x] = 0 <=> class'[x] = 0
                          /\ class'[x] # 0 =>
                               /\ class'[parent'[x]] = class'[x]
                               /\ class'[class'[x]] = class'[x] /\ class'[x] <= x
                               /\ parent'[x] = x <=> class'[x] = x
      BY <3>5 DEF Represents
    <3>7. CASE x = g
      BY <1>5, <3>1, <3>2, <3>3, <3>4, <3>7 DEF UnionFindInv, TypeOK
    <3>8. CASE x # g
      <4>1. parent'[x] = parent[x]
        BY <3>1, <3>8 DEF UnionFindInv, TypeOK
      <4>2. /\ parent[x] = 0 <=> class[x] = 0
            /\ class[x] # 0 =>
                 /\ class[parent[x]] = class[x]
                 /\ class[class[x]] = class[x] /\ class[x] <= x
                 /\ parent[x] = x <=> class[x] = x
        BY DEF UnionFindInv, Represents
      <4>3. parent[x] \in Items \cup {0} /\ class[x] \in Items \cup {0}
        BY DEF UnionFindInv, TypeOK, ItemsOrNone
      <4>4. CASE class[x] = 0
        BY <1>2, <1>5, <3>3, <3>4, <4>1, <4>2, <4>4
      <4>5. CASE class[x] # 0
        <5>1. parent[x] \in Items /\ class[x] \in Items
          BY <1>2, <4>2, <4>3, <4>5
        <5>2. class'[parent[x]] = class'[x] /\ class'[class'[x]] = class'[x]
          BY <3>3, <3>4, <4>2, <4>5, <5>1
        <5>3. class'[x] <= x
          BY <3>2, <3>3, <3>4, <4>2, <4>5, <5>1, Ordered
        <5>4. parent[x] = x <=> class'[x] = x
          <6>1. CASE class[x] = g
            BY <3>3, <3>4, <3>8, <4>2, <4>5, <6>1, <3>2, Ordered
          <6>2. CASE class[x] # g
            BY <3>3, <3>4, <4>2, <4>5, <6>2
          <6>3. QED  BY <6>1, <6>2
        <5>5. class'[x] # 0 /\ parent[x] # 0
          BY <1>5, <3>3, <4>2, <4>5
        <5>6. QED  BY <4>1, <5>2, <5>3, <5>4, <5>5
      <4>6. QED  BY <4>4, <4>5
    <3>9. QED  BY <3>7, <3>8
  <2>3. QED  BY <2>1, <2>2
<1>7. TypeOK'
  <2>1. Linked(m, n) \in [Items -> ItemsOrNone]
    BY <1>2, <1>5 DEF Linked, UnionFindInv, TypeOK, ItemsOrNone
  <2>2. class' \in [Items -> ItemsOrNone]
    BY <1>2, <1>4, <1>5 DEF UnionFindInv, TypeOK, ItemsOrNone
  <2>3. QED  BY <1>1, <2>1, <2>2 DEF UnionFindInv, TypeOK
<1>8. CallInv' /\ RecursionDescends'
  BY <1>1 DEF CallInv, UnionFindInv, RecursionDescends
<1>9. QED  BY <1>3, <1>6, <1>7, <1>8 DEF UnionFindInv

-----------------------------------------------------------------------------
LEMMA UnionFindInit == Init => UnionFindInv /\ P!Init
<1>1. ASSUME Init  PROVE UnionFindInv
  BY <1>1, Ordered
  DEF Init, UnionFindInv, TypeOK, ItemsOrNone, Represents, CallInv, ParentsDescend,
      RecursionDescends
<1>2. QED  BY <1>1 DEF Init, P!Init

(* Every step keeps the invariant and is a step of Partition, or changes   *)
(* nothing there.                                                          *)
LEMMA UnionFindStep ==
  ASSUME UnionFindInv, [Next]_vars
  PROVE  UnionFindInv' /\ [P!Next]_<<class, answer>>
<1>1. ASSUME NEW x \in Items, CallFind(x)
      PROVE  UnionFindInv' /\ UNCHANGED <<class, answer>>
  BY <1>1, CallStep DEF CallFind
<1>2. ASSUME NEW x \in Items, NEW y \in Items, CallUnion(x, y)
      PROVE  UnionFindInv' /\ UNCHANGED <<class, answer>>
  BY <1>2, CallStep DEF CallUnion
<1>3. CASE Register
  <2>1. Top \in Items
    BY <1>3, TopType DEF Register, UnionFindInv, CallInv, TypeOK, Top
  <2>2. QED  BY <1>3, <2>1, RegisterStep DEF P!Next
<1>4. CASE Descend
  BY <1>4, DescendStep DEF Descend
<1>5. CASE AtRoot
  BY <1>5, AtRootStep DEF AtRoot
<1>6. CASE Compress
  BY <1>6, CompressStep DEF Compress
<1>7. CASE Return
  <2>1. Current \in Items
    BY <1>7 DEF Return, UnionFindInv, CallInv, Current
  <2>2. QED  BY <1>7, <2>1, ReturnStep DEF P!Next
<1>8. CASE Link
  <2>1. a \in Items /\ b \in Items
    BY <1>8 DEF Link, UnionFindInv, CallInv
  <2>2. QED  BY <1>8, <2>1, LinkStep DEF P!Next
<1>9. CASE UNCHANGED vars
  BY <1>9
  DEF vars, UnionFindInv, TypeOK, Represents, CallInv, Current, ParentsDescend,
      RecursionDescends
<1>10. QED
  BY <1>1, <1>2, <1>3, <1>4, <1>5, <1>6, <1>7, <1>8, <1>9 DEF Next, Step

(* The parents represent the classes, and the recursion of find descends:  *)
(* for any set of refs.                                                    *)
THEOREM UnionFindCorrect == Spec => []UnionFindInv
  BY UnionFindInit, UnionFindStep, PTL DEF Spec

THEOREM RecursionEnds == Spec => []RecursionDescends
<1>1. UnionFindInv => RecursionDescends
  BY DEF UnionFindInv
<1>2. QED  BY <1>1, UnionFindCorrect, PTL

(* UnionFind implements Partition: whatever the order of the calls, find   *)
(* answers with the least ref of the class.                                *)
THEOREM UnionFindIsPartition == Spec => IsPartition
<1>1. Init => P!Init
  BY UnionFindInit
<1>2. UnionFindInv /\ [Next]_vars => [P!Next]_<<class, answer>>
  BY UnionFindStep
<1>3. QED  BY <1>1, <1>2, UnionFindCorrect, PTL DEF Spec, IsPartition, P!Spec
=============================================================================
