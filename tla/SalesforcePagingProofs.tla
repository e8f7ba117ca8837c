----------------------- MODULE SalesforcePagingProofs -----------------------
(* What holds of SalesforcePaging for every set of records, every page     *)
(* size and any number of retries: the pages of an attempt are the first   *)
(* positions of what one look at the org would show.                       *)
EXTENDS SalesforcePaging, FiniteSetTheorems, TLAPS

GotIds == {g.id : g \in Got}

(* What was written is not in the future, and the next second is open. *)
Seconds == closed <= clock /\ \A i \in Ids : org[i] <= clock

(* The pages hold current versions, as many as the offset counts, and any  *)
(* record they do not hold is served after all they hold.                  *)
Pages ==
  /\ \A g \in Got : g.stamp = org[g.id] /\ after < g.stamp /\ g.stamp <= closed
  /\ \A i \in GotIds : \A j \in Served(after) \ GotIds : Before(i, j)
  /\ Cardinality(GotIds) = offset

PagingInv ==
  /\ Seconds
  /\ pc = "idle" => pages = <<>> /\ offset = 0
  /\ pc = "page" => Pages
  /\ NoRecordTwice

(***************************************************************************)
(* The order of the pages.                                                 *)
(***************************************************************************)

LEMMA Numbers ==
  /\ MaxClock \in Nat /\ PageSize \in Nat /\ PageSize # 0 /\ Retries \in Nat
  /\ \A i \in Ids : i \in Nat
BY PagingAssumption DEF PagingAssumption

LEMMA ServedFinite ==
  ASSUME NEW from
  PROVE  /\ Served(from) \subseteq Ids /\ IsFiniteSet(Served(from))
         /\ Cardinality(Served(from)) \in Nat
<1>1. Served(from) \in SUBSET Ids
  BY DEF Served
<1>2. IsFiniteSet(Ids)
  BY PagingAssumption DEF PagingAssumption
<1>3. QED  BY <1>1, <1>2, FS_Subset, FS_CardinalityType

(* ORDER BY SystemModstamp, Id is a strict total order. *)
LEMMA BeforeOrders ==
  ASSUME TypeOK
  PROVE  /\ \A i \in Ids : ~Before(i, i)
         /\ \A i, j \in Ids : i # j => Before(i, j) \/ Before(j, i)
         /\ \A i, j, k \in Ids : Before(i, j) /\ Before(j, k) => Before(i, k)
<1>1. \A i \in Ids : org[i] \in Nat /\ i \in Nat
  BY Numbers DEF TypeOK
<1>2. QED  BY <1>1 DEF Before

(* A position is a place in the result, later for what comes later. *)
LEMMA PositionPlace ==
  ASSUME TypeOK, NEW from, NEW i \in Served(from)
  PROVE  /\ Position(i, from) \in Nat
         /\ Position(i, from) < Cardinality(Served(from))
         /\ \A j \in Served(from) : Before(i, j) => Position(i, from) < Position(j, from)
<1> DEFINE Above(j) == {k \in Served(from) : Before(k, j)}
<1>1. \A j : /\ IsFiniteSet(Above(j)) /\ Cardinality(Above(j)) \in Nat
             /\ Position(j, from) = Cardinality(Above(j))
  <2>1. \A j : Above(j) \in SUBSET Served(from)
    OBVIOUS
  <2>2. QED  BY <2>1, ServedFinite, FS_Subset, FS_CardinalityType DEF Position
<1>2. ASSUME NEW S, IsFiniteSet(S), Above(i) \subseteq S, i \in S
      PROVE  Cardinality(Above(i)) < Cardinality(S)
  <2>1. i \notin Above(i)
    BY ServedFinite, BeforeOrders
  <2> HIDE DEF Above
  <2>2. Cardinality(Above(i)) <= Cardinality(S) /\ Cardinality(Above(i)) # Cardinality(S)
    BY <1>2, <2>1, FS_Subset
  <2>3. Cardinality(S) \in Nat
    BY <1>2, FS_CardinalityType
  <2>4. QED  BY <1>1, <2>2, <2>3
<1>3. Cardinality(Above(i)) < Cardinality(Served(from))
  <2>1. Above(i) \subseteq Served(from)
    OBVIOUS
  <2>2. QED  BY <1>2, <2>1, ServedFinite
<1>4. ASSUME NEW j \in Served(from), Before(i, j)
      PROVE  Cardinality(Above(i)) < Cardinality(Above(j))
  <2>1. Above(i) \subseteq Above(j) /\ i \in Above(j)
    BY <1>4, ServedFinite, BeforeOrders
  <2> HIDE DEF Above
  <2>2. QED  BY <1>1, <1>2, <2>1
<1>5. QED  BY <1>1, <1>3, <1>4

(* There are n records at the first n positions: counting the records      *)
(* before each of them is one to one onto the positions.                   *)
LEMMA FirstPositions ==
  ASSUME TypeOK, NEW from, NEW n \in Nat, n <= Cardinality(Served(from))
  PROVE  Cardinality({i \in Served(from) : Position(i, from) < n}) = n
<1> DEFINE S == Served(from)
           m == Cardinality(S)
           First == {i \in S : Position(i, from) < n}
           pos == [i \in S |-> Position(i, from)]
           head == [i \in First |-> Position(i, from)]
<1>1. IsFiniteSet(S) /\ m \in Nat /\ S \subseteq Ids
  BY ServedFinite
<1>2. \A i \in S : Position(i, from) \in 0 .. m - 1
  BY <1>1, PositionPlace
<1>3. \A i, j \in S : Position(i, from) = Position(j, from) => i = j
  <2> SUFFICES ASSUME NEW i \in S, NEW j \in S, i # j
               PROVE  Position(i, from) # Position(j, from)
    OBVIOUS
  <2>1. Before(i, j) \/ Before(j, i)
    BY <1>1, BeforeOrders
  <2>2. /\ Position(i, from) \in Nat /\ Position(j, from) \in Nat
        /\ Before(i, j) => Position(i, from) < Position(j, from)
        /\ Before(j, i) => Position(j, from) < Position(i, from)
    BY PositionPlace
  <2>3. QED  BY <2>1, <2>2
<1>4. pos \in Injection(S, 0 .. m - 1)
  BY <1>2, <1>3 DEF Injection, IsInjective
<1>5. IsFiniteSet(0 .. m - 1) /\ Cardinality(0 .. m - 1) = m
  <2> HIDE DEF m
  <2>1. m \in Int /\ m - 1 \in Int /\ 0 \in Int
    BY <1>1
  <2>2. IsFiniteSet(0 .. m - 1) /\ Cardinality(0 .. m - 1) = IF 0 > m - 1 THEN 0 ELSE m - 1 - 0 + 1
    BY <2>1, FS_Interval
  <2>3. QED  BY <1>1, <2>2
<1>6. pos \in Surjection(S, 0 .. m - 1)
  <2> HIDE DEF pos, S
  <2>1. QED  BY <1>4, <1>5, FS_Injection
<1>7. \A k \in 0 .. m - 1 : \E i \in S : Position(i, from) = k
  BY <1>6 DEF Surjection
<1>8. head \in Bijection(First, 0 .. n - 1)
  <2>1. \A i \in First : Position(i, from) \in 0 .. n - 1
    BY <1>1, <1>2
  <2>2. head \in Injection(First, 0 .. n - 1)
    BY <1>3, <2>1 DEF Injection, IsInjective
  <2>3. \A k \in 0 .. n - 1 : \E i \in First : head[i] = k
    BY <1>1, <1>7
  <2>4. QED  BY <2>2, <2>3 DEF Bijection, Injection, Surjection
<1>9. IsFiniteSet(First)
  BY <1>1, FS_Subset
<1>10. Cardinality(0 .. n - 1) = Cardinality(First)
  <2> HIDE DEF head, First
  <2>1. ExistsBijection(First, 0 .. n - 1)
    BY <1>8 DEF ExistsBijection
  <2>2. QED  BY <1>9, <2>1, FS_Bijection
<1>11. QED  BY <1>10, FS_Interval

(* A set with nothing served before its members is the first positions. *)
LEMMA PrefixPositions ==
  ASSUME TypeOK, NEW from, NEW G \in SUBSET Served(from),
         \A i \in G : \A j \in Served(from) \ G : Before(i, j)
  PROVE  \A j \in Served(from) : j \in G <=> Position(j, from) < Cardinality(G)
<1> SUFFICES ASSUME NEW j \in Served(from)
             PROVE  j \in G <=> Position(j, from) < Cardinality(G)
  OBVIOUS
<1> DEFINE Above == {k \in Served(from) : Before(k, j)}
<1>1. /\ IsFiniteSet(G) /\ Cardinality(G) \in Nat
      /\ IsFiniteSet(Above) /\ Cardinality(Above) \in Nat
  <2>1. Above \in SUBSET Served(from)
    OBVIOUS
  <2>2. QED  BY <2>1, ServedFinite, FS_Subset, FS_CardinalityType
<1>2. Position(j, from) = Cardinality(Above)
  BY DEF Position
<1>3. ASSUME j \in G  PROVE  Cardinality(Above) < Cardinality(G)
  <2>1. Above \in SUBSET G /\ j \notin Above
    BY <1>3, ServedFinite, BeforeOrders
  <2> HIDE DEF Above
  <2>2. Cardinality(Above) <= Cardinality(G) /\ Cardinality(Above) # Cardinality(G)
    BY <1>1, <1>3, <2>1, FS_Subset
  <2>3. QED  BY <1>1, <2>2
<1>4. ASSUME j \notin G  PROVE  Cardinality(G) <= Cardinality(Above)
  <2>1. G \in SUBSET Above
    BY <1>4
  <2> HIDE DEF Above
  <2>2. QED  BY <1>1, <2>1, FS_Subset
<1> HIDE DEF Above
<1>5. QED  BY <1>1, <1>2, <1>3, <1>4

(***************************************************************************)
(* The pages of an attempt.                                                *)
(***************************************************************************)

LEMMA PageType ==
  ASSUME TypeOK, NEW from \in 0 .. MaxClock, NEW off
  PROVE  Page(from, off) \in SUBSET Record
<1> SUFFICES ASSUME NEW i \in Ids, org[i] > from  PROVE  Version(i) \in Record
  BY DEF Page, Served
<1>1. org[i] \in 1 .. MaxClock
  BY Numbers DEF TypeOK
<1>2. QED  BY <1>1 DEF Version, Record

LEMMA PagingType ==
  ASSUME TypeOK, [Next]_vars
  PROVE  TypeOK'
<1>1. CASE Tick \/ UNCHANGED vars
  BY <1>1, Numbers DEF Tick, vars, TypeOK
<1>2. ASSUME NEW i \in Ids, Write(i)  PROVE  TypeOK'
  <2>1. org' \in [Ids -> 0 .. MaxClock]
    BY <1>2, Numbers DEF Write, TypeOK
  <2>2. QED  BY <1>2, <2>1 DEF Write, TypeOK
<1>3. ASSUME NEW from \in 0 .. closed, Query(from)  PROVE  TypeOK'
  <2>1. after' \in 0 .. MaxClock
    BY <1>3, Numbers DEF Query, TypeOK
  <2>2. QED  BY <1>3, <2>1 DEF Query, TypeOK
<1>4. CASE GetPage
  <2>1. Page(after, offset) \in SUBSET Record
    BY PageType DEF TypeOK
  <2>2. pages' \in Seq(SUBSET Record)
    BY <1>4, <2>1 DEF GetPage, TypeOK
  <2>3. offset' \in Nat /\ closed' \in 0 .. MaxClock /\ pc' \in {"page", "done"}
    BY <1>4, Numbers DEF GetPage, TypeOK
  <2>4. QED  BY <1>4, <2>2, <2>3 DEF GetPage, TypeOK
<1>5. CASE Retry \/ GiveUp \/ Leave
  <2>1. pages' \in Seq(SUBSET Record)
    <3>1. pages' = <<>> \/ pages' = pages
      BY <1>5 DEF Retry, GiveUp, Leave
    <3>2. <<>> \in Seq(SUBSET Record)
      OBVIOUS
    <3>3. pages \in Seq(SUBSET Record)
      BY DEF TypeOK
    <3>4. QED  BY <3>1, <3>2, <3>3
  <2>2. after' \in 0 .. MaxClock /\ offset' \in Nat /\ tries' \in 0 .. Retries
    BY <1>5, Numbers DEF Retry, GiveUp, Leave, TypeOK
  <2>3. pc' \in {"idle", "page", "failed"} /\ UNCHANGED <<clock, closed, org>>
    BY <1>5 DEF Retry, GiveUp, Leave
  <2>4. QED  BY <2>1, <2>2, <2>3 DEF TypeOK
<1>6. QED  BY <1>1, <1>2, <1>3, <1>4, <1>5 DEF Next

(* One more page. *)
LEMMA GotAppend ==
  ASSUME TypeOK, NEW P, pages' = Append(pages, P)
  PROVE  /\ DOMAIN pages' = DOMAIN pages \cup {Len(pages) + 1}
         /\ \A k \in DOMAIN pages : pages'[k] = pages[k]
         /\ pages'[Len(pages) + 1] = P
         /\ Got' = Got \cup P
<1>1. pages \in Seq(SUBSET Record) /\ Len(pages) \in Nat /\ DOMAIN pages = 1 .. Len(pages)
  BY DEF TypeOK
<1>2. DOMAIN pages' = DOMAIN pages \cup {Len(pages) + 1}
  BY <1>1
<1>3. (\A k \in DOMAIN pages : pages'[k] = pages[k]) /\ pages'[Len(pages) + 1] = P
  BY <1>1
<1>4. QED  BY <1>2, <1>3 DEF Got

(* A page holds what is served next: nothing it held before, and nothing    *)
(* left out in between.                                                     *)
LEMMA NextPage ==
  ASSUME TypeOK, PagingInv, pc = "page"
  PROVE  /\ GotIds \in SUBSET Served(after)
         /\ \A g \in Page(after, offset) : /\ g.id \in Served(after) \ GotIds
                                           /\ g = Version(g.id)
         /\ GotIds \cup {g.id : g \in Page(after, offset)}
              = {i \in Served(after) : Position(i, after) < offset + PageSize}
<1>1. Pages /\ offset \in Nat
  BY DEF PagingInv, TypeOK
<1>2. GotIds \in SUBSET Served(after)
  <2> SUFFICES ASSUME NEW g \in Got  PROVE  g.id \in Served(after)
    BY DEF GotIds
  <2>1. g \in Record
    BY DEF Got, TypeOK
  <2>2. g.id \in Ids /\ org[g.id] > after
    BY <1>1, <2>1, Numbers DEF Pages, Record, TypeOK
  <2>3. QED  BY <2>2 DEF Served
<1>3. \A j \in Served(after) : j \in GotIds <=> Position(j, after) < offset
  BY <1>1, <1>2, PrefixPositions DEF Pages
<1>4. \A j \in Served(after) : Position(j, after) \in Nat
  BY PositionPlace
<1>5. ASSUME NEW g \in Page(after, offset)
      PROVE  /\ g.id \in Served(after) \ GotIds /\ g = Version(g.id)
             /\ Position(g.id, after) < offset + PageSize
  <2>1. PICK i \in Served(after) : /\ Position(i, after) \in offset .. offset + PageSize - 1
                                   /\ g = Version(i)
    BY DEF Page
  <2>2. g.id = i
    BY <2>1 DEF Version
  <2>3. QED  BY <1>1, <1>3, <1>4, <2>1, <2>2, Numbers
<1>6. ASSUME NEW j \in Served(after), Position(j, after) < offset + PageSize, j \notin GotIds
      PROVE  j \in {g.id : g \in Page(after, offset)}
  <2>1. Position(j, after) \in offset .. offset + PageSize - 1
    BY <1>1, <1>3, <1>4, <1>6, Numbers
  <2>2. Version(j) \in Page(after, offset)
    BY <2>1 DEF Page
  <2>3. QED  BY <2>2 DEF Version
<1>7. \A j \in GotIds : Position(j, after) < offset + PageSize
  BY <1>1, <1>2, <1>3, <1>4, Numbers
<1>8. QED  BY <1>2, <1>5, <1>6, <1>7

LEMMA GetPageInv ==
  ASSUME TypeOK, PagingInv, GetPage
  PROVE  PagingInv'
<1> DEFINE P == Page(after, offset)
           First == {i \in Served(after) : Position(i, after) < offset + PageSize}
<1>1. /\ pc = "page" /\ closed' = clock /\ clock' = clock /\ org' = org /\ after' = after
      /\ pages' = Append(pages, P) /\ pc' \in {"page", "done"}
      /\ pc' = "page" => ~Done(after, offset) /\ offset' = offset + PageSize
  BY DEF GetPage
<1>2. /\ DOMAIN pages' = DOMAIN pages \cup {Len(pages) + 1}
      /\ \A k \in DOMAIN pages : pages'[k] = pages[k]
      /\ pages'[Len(pages) + 1] = P
      /\ Got' = Got \cup P
  BY <1>1, GotAppend
<1>3. /\ GotIds \in SUBSET Served(after)
      /\ \A g \in P : g.id \in Served(after) \ GotIds /\ g = Version(g.id)
      /\ GotIds \cup {g.id : g \in P} = First
  BY <1>1, NextPage
<1>4. Seconds'
  BY <1>1, Numbers DEF Seconds, PagingInv, TypeOK
<1>5. NoRecordTwice'
  <2> SUFFICES ASSUME NEW k \in DOMAIN pages', NEW l \in DOMAIN pages', k # l,
                      NEW g \in pages'[k], NEW h \in pages'[l], g.id = h.id
               PROVE  FALSE
    BY DEF NoRecordTwice
  <2>1. ASSUME NEW n \in DOMAIN pages, NEW a \in pages[n]  PROVE  a.id \in GotIds
    BY DEF GotIds, Got
  <2> HIDE DEF P
  <2>2. CASE k \in DOMAIN pages /\ l \in DOMAIN pages
    BY <1>2, <2>2 DEF PagingInv, NoRecordTwice
  <2>3. CASE k \notin DOMAIN pages
    <3>1. g.id \notin GotIds /\ l \in DOMAIN pages
      BY <1>2, <1>3, <2>3
    <3>2. QED  BY <1>2, <2>1, <3>1
  <2>4. CASE l \notin DOMAIN pages
    <3>1. h.id \notin GotIds /\ k \in DOMAIN pages
      BY <1>2, <1>3, <2>4
    <3>2. QED  BY <1>2, <2>1, <3>1
  <2>5. QED  BY <2>2, <2>3, <2>4
<1>6. ASSUME pc' = "page"  PROVE  Pages'
  <2>1. GotIds' = First
    <3>1. GotIds' = GotIds \cup {g.id : g \in P}
      BY <1>2 DEF GotIds
    <3>2. QED  BY <1>3, <3>1
  <2>2. Served(after)' = Served(after) /\ \A i, j : Before(i, j)' = Before(i, j)
    BY <1>1 DEF Served, Before
  <2>3. ASSUME NEW g \in Got'
        PROVE  g.stamp = org'[g.id] /\ after' < g.stamp /\ g.stamp <= closed'
    <3>1. CASE g \in Got
      <4>1. g \in Record
        BY <3>1 DEF Got, TypeOK
      <4>2. g.stamp \in Nat /\ clock \in Nat /\ closed \in Nat /\ closed <= clock
        BY <4>1, Numbers DEF Record, TypeOK, PagingInv, Seconds
      <4>3. g.stamp = org[g.id] /\ after < g.stamp /\ g.stamp <= closed
        BY <1>1, <3>1 DEF PagingInv, Pages
      <4>4. QED  BY <1>1, <4>2, <4>3
    <3>2. CASE g \in P
      <4>1. g.id \in Served(after) /\ g.stamp = org[g.id]
        BY <1>3, <3>2 DEF Version
      <4>2. g.id \in Ids /\ org[g.id] > after /\ org[g.id] \in Nat /\ after \in Nat
        BY <4>1, Numbers DEF Served, TypeOK
      <4>3. QED  BY <1>1, <4>1, <4>2 DEF PagingInv, Seconds
    <3>3. QED  BY <1>2, <3>1, <3>2
  <2>4. ASSUME NEW i \in First, NEW j \in Served(after) \ First  PROVE  Before(i, j)
    <3>1. Position(i, after) \in Nat /\ Position(j, after) \in Nat
      BY PositionPlace
    <3>2. Position(i, after) < Position(j, after)
      BY <3>1, Numbers DEF TypeOK
    <3>3. ~Before(j, i) /\ i # j
      BY <3>1, <3>2, PositionPlace
    <3>4. QED  BY <3>3, ServedFinite, BeforeOrders
  <2>5. Cardinality(First) = offset'
    <3>1. offset + PageSize \in Nat /\ offset' = offset + PageSize
      BY <1>1, <1>6, Numbers DEF TypeOK
    <3>2. offset + PageSize <= Cardinality(Served(after))
      BY <1>1, <1>6, <3>1, ServedFinite DEF Done
    <3>3. QED  BY <3>1, <3>2, FirstPositions
  <2> HIDE DEF First
  <2>6. \A i \in GotIds' : \A j \in Served(after)' \ GotIds' : Before(i, j)'
    BY <2>1, <2>2, <2>4
  <2>7. Cardinality(GotIds') = offset'
    BY <2>1, <2>5
  <2>8. QED  BY <2>3, <2>6, <2>7 DEF Pages
<1>7. QED  BY <1>1, <1>4, <1>5, <1>6 DEF PagingInv

(* The org writes behind everything the pages hold. *)
LEMMA WriteInv ==
  ASSUME TypeOK, PagingInv, ~Reedits, NEW w \in Ids, Write(w)
  PROVE  PagingInv'
<1>1. /\ clock > closed /\ (\A g \in Got : g.id # w) /\ org' = [org EXCEPT ![w] = clock]
      /\ UNCHANGED <<clock, closed, pc, after, offset, pages, tries>>
      /\ Got' = Got /\ GotIds' = GotIds
  BY DEF Write, Got, GotIds
<1>2. clock \in Nat /\ closed \in Nat /\ after \in Nat /\ \A i \in Ids : org[i] \in Nat
  BY Numbers DEF TypeOK
<1>3. org'[w] = clock /\ \A i \in Ids \ {w} : org'[i] = org[i]
  BY <1>1 DEF TypeOK
<1>4. Seconds'
  BY <1>1, <1>2, <1>3 DEF PagingInv, Seconds
<1>5. ASSUME pc = "page"  PROVE  Pages'
  <2>1. Pages /\ GotIds \in SUBSET Served(after)
    BY <1>5, NextPage DEF PagingInv
  <2>2. ASSUME NEW g \in Got
        PROVE  g.id \in Ids \ {w} /\ g.stamp = org[g.id] /\ after < g.stamp /\ g.stamp <= closed
    BY <1>1, <2>1, ServedFinite DEF Pages, GotIds
  <2>3. ASSUME NEW i \in GotIds, NEW j \in Served(after)' \ GotIds  PROVE  Before(i, j)'
    <3>1. i \in Ids \ {w} /\ org[i] <= closed /\ org'[i] = org[i]
      BY <1>3, <2>2 DEF GotIds
    <3>2. CASE j = w
      BY <1>1, <1>2, <1>3, <3>1, <3>2 DEF Before
    <3>3. CASE j # w
      <4>1. j \in Ids \ {w} /\ org'[j] = org[j] /\ j \in Served(after)
        BY <1>1, <1>3, <3>3 DEF Served
      <4>2. QED  BY <2>1, <3>1, <4>1 DEF Pages, Before
    <3>4. QED  BY <3>2, <3>3
  <2>4. QED  BY <1>1, <1>3, <2>1, <2>2, <2>3 DEF Pages
<1>6. QED  BY <1>1, <1>4, <1>5 DEF PagingInv, NoRecordTwice

LEMMA PagingStep ==
  ASSUME TypeOK, PagingInv, ~Reedits, [Next]_vars
  PROVE  PagingInv'
<1>1. CASE Tick \/ UNCHANGED vars
  <2>1. UNCHANGED <<closed, org, pc, after, offset, pages>>
    BY <1>1 DEF Tick, vars
  <2>2. clock' >= clock /\ clock' \in Nat /\ clock \in Nat
    BY <1>1, Numbers DEF Tick, vars, TypeOK
  <2>3. Seconds'
    BY <2>1, <2>2, Numbers DEF PagingInv, Seconds, TypeOK
  <2>4. QED  BY <2>1, <2>3 DEF PagingInv, Pages, GotIds, Got, Served, Before, NoRecordTwice
<1>2. ASSUME NEW from \in 0 .. closed, Query(from) \/ Retry \/ Leave \/ GiveUp  PROVE  PagingInv'
  <2>1. Seconds'
    BY <1>2 DEF Query, Retry, Leave, GiveUp, PagingInv, Seconds
  <2>2. CASE Query(from) \/ Retry \/ Leave
    <3>1. pages' = <<>> /\ offset' = 0
      BY <2>2 DEF Query, Retry, Leave, PagingInv
    <3>2. Got' = {} /\ GotIds' = {}
      BY <3>1 DEF Got, GotIds
    <3>3. Pages' /\ NoRecordTwice'
      BY <3>1, <3>2, FS_EmptySet DEF Pages, NoRecordTwice
    <3>4. QED  BY <2>1, <3>1, <3>3 DEF PagingInv
  <2>3. CASE GiveUp
    BY <2>1, <2>3 DEF GiveUp, PagingInv, NoRecordTwice
  <2>4. QED  BY <1>2, <2>2, <2>3
<1>3. 0 \in 0 .. closed
  BY Numbers DEF TypeOK
<1>4. QED  BY <1>1, <1>2, <1>3, GetPageInv, WriteInv DEF Next

LEMMA PagingInit ==
  ASSUME Init
  PROVE  TypeOK /\ PagingInv
<1>1. TypeOK
  BY Numbers, PagingAssumption DEF Init, TypeOK, PagingAssumption
<1>2. PagingInv
  BY Numbers DEF Init, PagingInv, Seconds, NoRecordTwice
<1>3. QED  BY <1>1, <1>2

(* test_query_paginates_like_an_extractor_would: no record comes twice, on  *)
(* two pages or left over from an attempt that failed, for any page size,   *)
(* as long as the org restamps no record that the fetch has read.           *)
THEOREM NotTwice ==
  ASSUME ~Reedits
  PROVE  Spec => []NoRecordTwice
<1>1. Init => TypeOK /\ PagingInv
  BY PagingInit
<1>2. TypeOK /\ PagingInv /\ [Next]_vars => (TypeOK /\ PagingInv)'
  BY PagingType, PagingStep
<1>3. PagingInv => NoRecordTwice
  BY DEF PagingInv
<1>4. QED  BY <1>1, <1>2, <1>3, PTL DEF Spec

(* query_all: when the last page has come, the pages together are what one  *)
(* look at the org would have shown then, however much was created between  *)
(* the pages; so CrmIngest may take a fetch to be one look.                 *)
THEOREM PagesAreSnapshot ==
  ASSUME ~Reedits
  PROVE  Spec => FetchIsSnapshot
<1>1. Init => TypeOK /\ PagingInv
  BY PagingInit
<1>2. TypeOK /\ PagingInv /\ [Next]_vars => (TypeOK /\ PagingInv)'
  BY PagingType, PagingStep
<1>3. TypeOK /\ PagingInv /\ [Next]_vars =>
        [pc = "page" /\ pc' = "done" => Got' = {Version(i) : i \in Served(after)}]_vars
  <2> SUFFICES ASSUME TypeOK, PagingInv, [Next]_vars, pc = "page", pc' = "done"
               PROVE  Got' = {Version(i) : i \in Served(after)}
    OBVIOUS
  <2> DEFINE P == Page(after, offset)
  <2>1. GetPage /\ Done(after, offset)
    BY DEF Next, vars, Tick, Write, Query, GetPage, Retry, GiveUp, Leave
  <2>2. Got' = Got \cup P
    BY <2>1, GotAppend DEF GetPage
  <2>3. /\ \A g \in P : g.id \in Served(after) \ GotIds /\ g = Version(g.id)
        /\ GotIds \cup {g.id : g \in P}
             = {i \in Served(after) : Position(i, after) < offset + PageSize}
        /\ GotIds \in SUBSET Served(after)
    BY NextPage
  <2>4. {i \in Served(after) : Position(i, after) < offset + PageSize} = Served(after)
    <3>1. offset + PageSize >= Cardinality(Served(after)) /\ Cardinality(Served(after)) \in Nat
      BY <2>1, ServedFinite DEF Done
    <3>2. \A i \in Served(after) : /\ Position(i, after) < Cardinality(Served(after))
                                   /\ Position(i, after) \in Nat
      BY PositionPlace
    <3>3. QED  BY <3>1, <3>2, Numbers DEF TypeOK
  <2>5. \A g \in Got : g.id \in Served(after) /\ g = Version(g.id)
    <3> SUFFICES ASSUME NEW g \in Got  PROVE  g.id \in Served(after) /\ g = Version(g.id)
      OBVIOUS
    <3>1. g \in Record /\ g.id \in GotIds
      BY DEF Got, GotIds, TypeOK
    <3>2. g.stamp = org[g.id]
      BY DEF PagingInv, Pages
    <3>3. QED  BY <2>3, <3>1, <3>2 DEF Record, Version
  <2> HIDE DEF P
  <2>6. \A i \in Served(after) : \E g \in Got \cup P : g.id = i
    BY <2>3, <2>4 DEF GotIds
  <2>7. \A g \in Got \cup P : g.id \in Served(after) /\ g = Version(g.id)
    BY <2>3, <2>5
  <2>8. QED  BY <2>2, <2>6, <2>7
<1>4. QED  BY <1>1, <1>2, <1>3, PTL DEF Spec, FetchIsSnapshot
=============================================================================
