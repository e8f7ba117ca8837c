--------------------------- MODULE GeneratorProofs ---------------------------
(* What holds of Generator for every population, window and number of      *)
(* calls: what is in memory while the records are emitted, and what is on  *)
(* disk while the files are cleared and written.                           *)
EXTENDS Generator, FiniteSetTheorems, SequenceTheorems, TLAPS

Kinds == {"contacts", "opportunities", "ticketing", "merch", "subscribers", "events",
          "fixtures", "record_map"}

(***************************************************************************)
(* The fans, and the place of generate in its loops.                       *)
(***************************************************************************)

Fan == [since : 0 .. WindowEnd, change : Window \cup {0}, systems : SUBSET Systems,
        household : Nat]

FansOK ==
  /\ fans \in Seq(Fan) /\ \A k \in DOMAIN fans : fans[k].systems # {}
  /\ households \in Nat /\ at \in Nat
  /\ pc \in {"idle", "clear", "population", "events", "write", "done"} \cup Systems
  /\ pc \in {"idle", "clear", "population"} => at = 1
  /\ pc \in Systems => at \in 1 .. Len(fans)

NothingEmitted ==
  /\ contacts = {} /\ opportunities = {} /\ orders = {} /\ items = {}
  /\ subscribers = {} /\ events = {} /\ truth = {}

EmptyFirst == pc \in {"idle", "clear", "population"} => NothingEmitted /\ fixtures = {}

FansInv == FansOK /\ EmptyFirst

(***************************************************************************)
(* The records are numbered, and the truth has a row for each.             *)
(***************************************************************************)

IdsIn(T, source) == {t.id : t \in {u \in T : u.source = source}}
TruthIds(source) == IdsIn(truth, source)
OnePerId(T) == \A t, u \in T : t.source = u.source /\ t.id = u.id => t = u

Numbered(S) == IsFiniteSet(S) /\ {x.id : x \in S} = 1 .. Cardinality(S)
OrdersOf(S) == {i.order : i \in S}

RecordsInv ==
  /\ Numbered(contacts) /\ Numbered(orders) /\ Numbered(subscribers)
  /\ IsFiniteSet(OrdersOf(items)) /\ OrdersOf(items) = 1 .. Cardinality(OrdersOf(items))
  /\ TruthIds("crm") = 1 .. Cardinality(contacts)
  /\ TruthIds("ticketing") = 1 .. Cardinality(orders)
  /\ TruthIds("merch") = 1 .. Cardinality(OrdersOf(items))
  /\ TruthIds("email") = 1 .. Cardinality(subscribers)
  /\ OnePerId(truth)

(* Whose turn has been: the sources before the current one, and in the      *)
(* current one the fans before the current one.                             *)
Rank ==
  [idle |-> 0, clear |-> 0, population |-> 0, crm |-> 1, ticketing |-> 2, merch |-> 3,
   email |-> 4, events |-> 5, write |-> 5, done |-> 5]

Past(source, k) ==
  Rank[source] < Rank[pc] \/ (Rank[source] = Rank[pc] /\ k < at)

FansCovered ==
  /\ \A t \in truth : t.entity \in 1 .. Len(fans)
  /\ \A k \in 1 .. Len(fans) : \A s \in fans[k].systems :
       Past(s, k) /\ (s = "ticketing" => fixtures # {}) =>
         \E t \in truth : t.source = s /\ t.entity = k

(* Rows that carry no identity refer to rows that were emitted. *)
Referred ==
  /\ \A o \in opportunities : o.contact \in TruthIds("crm")
  /\ \A o \in orders : o.match \in fixtures
  /\ \A e \in events : \E s \in subscribers :
       s.id = e.subscriber /\ s.subscribed /\ s.signup <= e.sent

(* The zip of an item is in the column its file has. *)
ZipsFit == \A i \in items : i.zip = ZipColumn(i.month)

(***************************************************************************)
(* The disk.                                                               *)
(***************************************************************************)

TodoSet == {todo[k] : k \in DOMAIN todo}
NoRepeats == \A k, l \in DOMAIN todo : todo[k] = todo[l] => k = l

(* Before the writing: only files of directories that are not yet cleared.  *)
(* In the writing: the files of the kinds that are done, and no others.     *)
DiskInv ==
  /\ \A f \in DOMAIN disk : f.kind \in Kinds
  /\ \A f, g \in DOMAIN disk : disk[f].gen = disk[g].gen
  /\ pc = "clear" =>
       /\ todo \in Seq({"dropzone", "sfmock", "truth"}) /\ todo # <<>>
       /\ \A f \in DOMAIN disk : DirOf(f.kind) \in TodoSet
  /\ pc \in {"population", "events"} \cup Systems => DOMAIN disk = {}
  /\ pc = "write" => todo \in Seq(Kinds) /\ todo # <<>> /\ NoRepeats
  /\ pc = "done" => todo = <<>>
  /\ pc \in {"write", "done"} =>
       /\ DOMAIN disk = UNION {DOMAIN NewFiles(kind) : kind \in Kinds \ TodoSet}
       /\ \A f \in DOMAIN disk : disk[f] = NewFiles(f.kind)[f]

-----------------------------------------------------------------------------
(***************************************************************************)
(* Numbers, sets and draws.                                                *)
(***************************************************************************)

Assumptions == DriftAssumption /\ PeopleAssumption /\ DrawAssumption

(* Months grow with the days, and from the first day of one on, exactly.    *)
LEMMA DivideMonotone ==
  ASSUME NEW d \in Nat, NEW k \in Nat, NEW m \in Nat \ {0}, k % m = 0
  PROVE  d >= k <=> d \div m >= k \div m
OBVIOUS

(* A day that is drawn is not before the start nor, but for the start, after *)
(* the end.                                                                 *)
LEMMA DrawnDay ==
  ASSUME NEW start \in Nat, NEW end \in Nat, NEW d \in RandDates(start, end)
  PROVE  d \in Nat /\ d >= start /\ (start <= end => d <= end)
BY DEF RandDates

(* What is numbered takes one more with the next number. *)
LEMMA NumberOneMore ==
  ASSUME NEW S, Numbered(S), NEW x, x.id = Cardinality(S) + 1
  PROVE  /\ Numbered(S \cup {x}) /\ Cardinality(S \cup {x}) = Cardinality(S) + 1
         /\ Cardinality(S) \in Nat
<1>1. Cardinality(S) \in Nat /\ IsFiniteSet(S)
  BY FS_CardinalityType DEF Numbered
<1>2. x \notin S
  <2>1. SUFFICES ASSUME x \in S
                 PROVE  FALSE
    OBVIOUS
  <2>2. x.id \in 1 .. Cardinality(S)
    BY <2>1 DEF Numbered
  <2> QED
    BY <1>1, <2>2
<1>3. IsFiniteSet(S \cup {x}) /\ Cardinality(S \cup {x}) = Cardinality(S) + 1
  BY <1>1, <1>2, FS_AddElement
<1>4. {y.id : y \in S \cup {x}} = {y.id : y \in S} \cup {x.id}
  OBVIOUS
<1>5. {y.id : y \in S \cup {x}} = (1 .. Cardinality(S)) \cup {Cardinality(S) + 1}
  BY <1>4 DEF Numbered
<1>6. (1 .. Cardinality(S)) \cup {Cardinality(S) + 1} = 1 .. (Cardinality(S) + 1)
  BY <1>1
<1> QED
  BY <1>1, <1>3, <1>5, <1>6 DEF Numbered

(* The same of the truth: a row with an id that its source has not yet.     *)
LEMMA RowAdded ==
  ASSUME NEW T, OnePerId(T), NEW t, t.id \notin IdsIn(T, t.source)
  PROVE  /\ OnePerId(T \cup {t})
         /\ IdsIn(T \cup {t}, t.source) = IdsIn(T, t.source) \cup {t.id}
         /\ \A s : s # t.source => IdsIn(T \cup {t}, s) = IdsIn(T, s)
<1>1. \A u \in T : u.source = t.source => u.id # t.id
  BY DEF IdsIn
<1>2. OnePerId(T \cup {t})
  BY <1>1 DEF OnePerId
<1> QED
  BY <1>2 DEF IdsIn

(* One more row with the next number. *)
LEMMA RowNumbered ==
  ASSUME NEW T, OnePerId(T), NEW t, NEW n \in Nat,
         IdsIn(T, t.source) = 1 .. n, t.id = n + 1
  PROVE  /\ OnePerId(T \cup {t})
         /\ IdsIn(T \cup {t}, t.source) = 1 .. (n + 1)
         /\ \A s : s # t.source => IdsIn(T \cup {t}, s) = IdsIn(T, s)
<1>1. t.id \notin IdsIn(T, t.source)
  OBVIOUS
<1>2. (1 .. n) \cup {n + 1} = 1 .. (n + 1)
  OBVIOUS
<1>3. IdsIn(T \cup {t}, t.source) = (1 .. n) \cup {n + 1}
  BY <1>1, RowAdded
<1> QED
  BY <1>1, <1>2, <1>3, RowAdded

-----------------------------------------------------------------------------
(***************************************************************************)
(* What a record shows, its stamp and its row in the truth.                *)
(***************************************************************************)

Mess(rec, tags, change) ==
  /\ rec.address = "first" /\ change # 0 => "stale_email" \in tags
  /\ rec.address = "household" <=> "shared_email" \in tags
  /\ rec.typo # "none" => "typo" \in tags
  /\ "stale_email" \in tags => rec.address = "first" \/ "shared_email" \in tags

(* A view is tagged for what it shows; it shows the new address on days     *)
(* from the change on only, and that of the household if asked to.          *)
LEMMA ViewIsTagged ==
  ASSUME NEW fan \in Fan, NEW on, NEW h \in BOOLEAN,
         NEW v \in PersonViews(fan, on, h)
  PROVE  /\ Mess(v, v.tags, fan.change)
         /\ v.address = "new" => fan.change # 0 /\ fan.change <= on
         /\ ~h => v.address = EmailAt(fan, on)
         /\ v.tags \subseteq {"stale_email", "shared_email", "typo"}
         /\ v.typo # "none" => "typo" \in v.tags
         /\ DOMAIN v = {"address", "typo", "tags"}
<1> DEFINE Who == {FALSE} \cup {k \in {TRUE} : h /\ fan.household # 0}
<1> DEFINE View(shared, typo, seen) ==
             [address |-> IF shared THEN "household" ELSE EmailAt(fan, on),
              typo |-> IF seen THEN typo ELSE "none",
              tags |-> Tags(EmailAt(fan, on) # CurrentEmail(fan), shared, typo)]
<1>0. PersonViews(fan, on, h)
        = {View(shared, typo, seen) : shared \in Who, typo \in Typos, seen \in BOOLEAN}
  BY DEF PersonViews
<1> HIDE DEF View, Who
<1>1. PICK shared \in Who, typo \in Typos, seen \in BOOLEAN : v = View(shared, typo, seen)
  BY <1>0
<1>2. shared \in BOOLEAN /\ (shared => h)
  BY DEF Who
<1>3. /\ v.address = IF shared THEN "household" ELSE EmailAt(fan, on)
      /\ v.typo # "none" => typo # "none"
      /\ v.tags = Tags(EmailAt(fan, on) # CurrentEmail(fan), shared, typo)
      /\ DOMAIN v = {"address", "typo", "tags"}
  BY <1>1 DEF View
<1>4. /\ "stale_email" \in v.tags <=> EmailAt(fan, on) # CurrentEmail(fan)
      /\ "shared_email" \in v.tags <=> shared
      /\ "typo" \in v.tags <=> typo # "none"
      /\ v.tags \subseteq {"stale_email", "shared_email", "typo"}
  BY <1>2, <1>3 DEF Tags, Tag
<1> QED
  BY <1>2, <1>3, <1>4 DEF Mess, EmailAt, CurrentEmail

(* The row of a record in the truth, and a contact's stamp. *)
Tells(source, id, rec, t) ==
  /\ t.source = source /\ t.id = id /\ t.entity = at
  /\ Mess(rec, t.tags, fans[at].change)

Stamped(c) ==
  c.stampedOn >= c.createdOn /\ (c.address = "new" => c.stampedOn >= fans[at].change)

-----------------------------------------------------------------------------
(***************************************************************************)
(* The fans are the same from the fixtures on.                             *)
(***************************************************************************)

LEMMA InitFans == ASSUME Assumptions, GInit PROVE FansInv
<1>1. fans \in Seq(Fan) /\ DOMAIN fans = {}
  BY DEF GInit
<1> QED
  BY <1>1 DEF GInit, FansInv, FansOK, EmptyFirst, NothingEmitted, Systems

(* The loop goes to the next fan or to the next source. *)
LEMMA NextFanType ==
  ASSUME FansOK, pc \in Systems, NEW next \in {"ticketing", "merch", "email", "events"},
         NextFan(next)
  PROVE  /\ at' \in Nat /\ pc' \in {pc, next}
         /\ pc' \in Systems => at' \in 1 .. Len(fans)
BY LenProperties DEF FansOK, NextFan, Systems

(* New fans are drawn from People, whose systems and days are those of one. *)
LEMMA PopulationType ==
  ASSUME Assumptions, FansInv, BuildPopulation
  PROVE  fans' \in Seq(Fan) /\ \A k \in DOMAIN fans' : fans'[k].systems # {}
<1>0. PICK size \in {1} \cup {k \in 2 .. MaxHousehold : Len(fans) + 2 <= NFans} :
        \E members \in [1 .. size -> People] :
          fans' = fans \o [k \in 1 .. size |->
                    [since |-> members[k].since, change |-> members[k].change,
                     systems |-> members[k].systems,
                     household |-> IF size = 1 THEN 0 ELSE households + 1]]
  BY DEF BuildPopulation
<1>1. PICK members \in [1 .. size -> People] :
        fans' = fans \o [k \in 1 .. size |->
                  [since |-> members[k].since, change |-> members[k].change,
                   systems |-> members[k].systems,
                   household |-> IF size = 1 THEN 0 ELSE households + 1]]
  BY <1>0
<1>2. size \in Nat /\ households \in Nat
  BY DEF Assumptions, DrawAssumption, FansInv, FansOK
<1> DEFINE new == [k \in 1 .. size |->
                    [since |-> members[k].since, change |-> members[k].change,
                     systems |-> members[k].systems,
                     household |-> IF size = 1 THEN 0 ELSE households + 1]]
           Drawn == {f \in Fan : f.systems # {}}
<1>3. \A k \in 1 .. size : new[k] \in Drawn
  <2>1. SUFFICES ASSUME NEW k \in 1 .. size
                 PROVE  new[k] \in Drawn
    OBVIOUS
  <2>2. members[k] \in People
    OBVIOUS
  <2> QED
    BY <1>2, <2>2 DEF Assumptions, PeopleAssumption, Fan
<1>4. DOMAIN new = 1 .. size /\ new = [k \in 1 .. size |-> new[k]]
  OBVIOUS
<1> HIDE DEF new, Drawn
<1>5. new \in Seq(Drawn)
  BY <1>2, <1>3, <1>4
<1>6. fans \in Seq(Drawn)
  <2>1. fans \in Seq(Fan) /\ \A k \in 1 .. Len(fans) : fans[k].systems # {}
    BY LenProperties DEF FansInv, FansOK
  <2>2. \A k \in 1 .. Len(fans) : fans[k] \in Drawn
    BY <2>1, ElementOfSeq DEF Drawn
  <2>3. Len(fans) \in Nat /\ fans = [k \in 1 .. Len(fans) |-> fans[k]]
    BY <2>1, LenProperties
  <2> QED
    BY <2>2, <2>3
<1>7. fans' \in Seq(Drawn)
  BY <1>1, <1>5, <1>6, ConcatProperties DEF new
<1>8. Drawn \subseteq Fan /\ \A f \in Drawn : f.systems # {}
  BY DEF Drawn
<1>9. \A k \in DOMAIN fans' : fans'[k] \in Drawn
  BY <1>7, LenProperties, ElementOfSeq
<1> QED
  BY <1>7, <1>8, <1>9, SeqMonotonic

LEMMA NextFans ==
  ASSUME Assumptions, FansInv, [GNext]_gvars
  PROVE  FansInv'
<1>0. Len(fans) \in Nat /\ FansOK /\ EmptyFirst
  BY LenProperties DEF FansInv, FansOK
<1>1. CASE Generate \/ Kill
  <2>1. pc' \in {"idle", "clear"} /\ Blank
    BY <1>1 DEF Generate, Kill
  <2>2. fans' \in Seq(Fan) /\ DOMAIN fans' = {}
    BY <2>1 DEF Blank
  <2> QED
    BY <2>1, <2>2 DEF Blank, FansInv, FansOK, EmptyFirst, NothingEmitted, Systems
<1>2. CASE ClearDir
  BY <1>0, <1>2 DEF ClearDir, FansInv, FansOK, EmptyFirst, NothingEmitted, Systems, emitted
<1>3. CASE BuildPopulation
  <2>1. /\ pc = "population" /\ pc' = pc /\ UNCHANGED <<at, emitted>>
        /\ households' \in Nat
    BY <1>0, <1>3 DEF BuildPopulation, FansOK
  <2>2. FansOK'
    BY <1>0, <1>3, <2>1, PopulationType DEF FansOK, Systems
  <2> QED
    BY <1>0, <2>1, <2>2 DEF FansInv, EmptyFirst, NothingEmitted, emitted
<1>4. CASE EmitFixtures
  BY <1>0, <1>4 DEF EmitFixtures, FansInv, FansOK, EmptyFirst, Systems, Assumptions,
                    DrawAssumption
<1>5. ASSUME NEW source \in Systems, NEW next \in {"ticketing", "merch", "email", "events"},
             pc = source, NextFan(next), UNCHANGED <<fans, households>>
      PROVE  FansInv'
  <2>1. FansOK'
    BY <1>0, <1>5, NextFanType DEF FansOK, Systems
  <2> QED
    BY <1>0, <1>5, <2>1, NextFanType DEF FansInv, EmptyFirst, Systems
<1>6. CASE \/ Skips("crm", "ticketing") \/ Skips("ticketing", "merch")
           \/ Skips("merch", "email") \/ Skips("email", "events")
  BY <1>5, <1>6 DEF Skips, Systems
<1>7. CASE EmitCrm \/ EmitEmail
  BY <1>5, <1>7 DEF EmitCrm, EmitEmail, Systems
<1>8. CASE EmitTicketing \/ EmitMerch
  <2>1. /\ pc \in Systems /\ UNCHANGED <<fans, households>>
        /\ \E next \in {"merch", "email"} : NextOrder(next)
    BY <1>8 DEF EmitTicketing, EmitMerch, Systems
  <2>2. CASE UNCHANGED <<pc, at>>
    BY <1>0, <2>1, <2>2 DEF FansInv, FansOK, EmptyFirst, Systems
  <2>3. CASE \E next \in {"merch", "email"} : NextFan(next)
    BY <1>5, <2>1, <2>3
  <2> QED
    BY <2>1, <2>2, <2>3 DEF NextOrder
<1>9. CASE EmitEvents
  <2>1. pc = "events" /\ pc' = pc /\ UNCHANGED <<fans, households>> /\ at' \in Nat
    BY <1>0, <1>9 DEF EmitEvents, FansOK
  <2> QED
    BY <1>0, <2>1 DEF FansInv, FansOK, EmptyFirst, Systems
<1>10. CASE EventsDone
  BY <1>0, <1>10 DEF EventsDone, FansInv, FansOK, EmptyFirst, Systems
<1>11. CASE WriteFiles
  BY <1>0, <1>11 DEF WriteFiles, FansInv, FansOK, EmptyFirst, Systems
<1>12. CASE UNCHANGED gvars
  BY <1>0, <1>12 DEF gvars, emitted, FansInv, FansOK, EmptyFirst, NothingEmitted
<1> QED
  BY <1>1, <1>2, <1>3, <1>4, <1>6, <1>7, <1>8, <1>9, <1>10, <1>11, <1>12 DEF GNext

-----------------------------------------------------------------------------
(***************************************************************************)
(* What each emitter adds.                                                 *)
(***************************************************************************)

(* One record or two, numbered, each with its row. *)
OneOrTwo(source, n, c, d, t, u) ==
  /\ Tells(source, n + 1, c, t) /\ c.id = n + 1
  /\ \/ d = c /\ u = t
     \/ Tells(source, n + 2, d, u) /\ d.id = n + 2

CrmAdds(c, d, t, u) ==
  /\ contacts' = contacts \cup {c, d} /\ truth' = truth \cup {t, u}
  /\ OneOrTwo("crm", Cardinality(contacts), c, d, t, u)
  /\ Stamped(c) /\ Stamped(d)

EmailAdds(c, d, t, u) ==
  /\ subscribers' = subscribers \cup {c, d} /\ truth' = truth \cup {t, u}
  /\ OneOrTwo("email", Cardinality(subscribers), c, d, t, u)

TicketingAdds(o, t) ==
  /\ orders' = orders \cup {o} /\ truth' = truth \cup {t}
  /\ Tells("ticketing", Cardinality(orders) + 1, o, t)
  /\ o.id = Cardinality(orders) + 1 /\ o.match \in fixtures

MerchAdds(S, t) ==
  /\ items' = items \cup S /\ truth' = truth \cup {t} /\ S # {}
  /\ \A i \in S : /\ Tells("merch", Cardinality(OrdersOf(items)) + 1, i, t)
                  /\ i.order = Cardinality(OrdersOf(items)) + 1
                  /\ i.zip = ZipColumn(i.month)

(* The fan whose turn it is. *)
LEMMA FanAt ==
  ASSUME FansInv, pc \in Systems
  PROVE  /\ fans[at] \in Fan /\ fans[at].since \in Nat /\ fans[at].change \in Int
         /\ at \in 1 .. Len(fans)
<1>1. fans \in Seq(Fan) /\ at \in 1 .. Len(fans)
  BY DEF FansInv, FansOK
<1>2. fans[at] \in Fan
  BY <1>1, ElementOfSeq
<1> QED
  BY <1>1, <1>2 DEF Fan, Window

(* Mess is about the address and the typo only, and about three tags. *)
LEMMA MessCarries ==
  ASSUME NEW view, NEW rec, NEW tags, NEW more, NEW change,
         Mess(view, tags, change), rec.address = view.address, rec.typo = view.typo,
         more \cap {"stale_email", "shared_email", "typo"} = {}
  PROVE  Mess(rec, tags \cup more, change)
BY DEF Mess

LEMMA CrmEffect ==
  ASSUME Assumptions, FansInv, EmitCrm
  PROVE  \E c, d, t, u : CrmAdds(c, d, t, u)
<1> DEFINE fan == fans[at]
           n == Cardinality(contacts)
<1>0. fan \in Fan /\ fan.since \in Nat /\ fan.change \in Int
  BY FanAt DEF EmitCrm, Systems
<1>1. PICK created \in RandDates(Later(fan.since, WindowStart), WindowEnd),
           updates \in {FALSE} \cup {k \in {TRUE} : fan.change # 0},
           dup \in {FALSE} \cup {k \in {TRUE} : Few} :
        LET on == IF updates THEN WindowEnd ELSE created
            stamp == Modstamp(created, updates, fan.change)
            Contact(id, view, day) ==
              [id |-> id, address |-> view.address, typo |-> view.typo,
               createdOn |-> day, stampedOn |-> Later(stamp, day)]
        IN \E view, again \in PersonViews(fan, on, FALSE),
              day \in RandDates(created, WindowEnd) :
             /\ ~dup => again = view /\ day = created
             /\ contacts' = contacts \cup {Contact(n + 1, view, created)}
                  \cup (IF dup THEN {Contact(n + 2, again, day)} ELSE {})
             /\ truth' = truth \cup {TruthRow("crm", n + 1, view.tags)}
                  \cup (IF dup THEN {TruthRow("crm", n + 2,
                                       again.tags \cup {"within_source_dup"})} ELSE {})
  BY DEF EmitCrm
<1> DEFINE on == IF updates THEN WindowEnd ELSE created
           stamp == Modstamp(created, updates, fan.change)
           Contact(id, view, day) ==
             [id |-> id, address |-> view.address, typo |-> view.typo,
              createdOn |-> day, stampedOn |-> Later(stamp, day)]
<1>2. PICK view \in PersonViews(fan, on, FALSE), again \in PersonViews(fan, on, FALSE),
           day \in RandDates(created, WindowEnd) :
        /\ ~dup => again = view /\ day = created
        /\ contacts' = contacts \cup {Contact(n + 1, view, created)}
             \cup (IF dup THEN {Contact(n + 2, again, day)} ELSE {})
        /\ truth' = truth \cup {TruthRow("crm", n + 1, view.tags)}
             \cup (IF dup THEN {TruthRow("crm", n + 2,
                                  again.tags \cup {"within_source_dup"})} ELSE {})
  BY <1>1
<1>3. updates \in BOOLEAN
  OBVIOUS
<1>4. created \in Nat /\ WindowEnd \in Nat /\ on \in Nat
  BY <1>0, <1>3, DrawnDay DEF Assumptions, DrawAssumption, Later
<1>5. day \in Nat /\ day >= created
  BY <1>4, DrawnDay
<1> HIDE DEF fan, n, on
<1>6. ASSUME NEW v \in PersonViews(fan, on, FALSE)
      PROVE  /\ Mess(v, v.tags, fan.change)
             /\ v.address = "new" => fan.change # 0 /\ fan.change <= on
  BY <1>0, <1>4, <1>6, ViewIsTagged
<1>7. ASSUME NEW v \in PersonViews(fan, on, FALSE), NEW id, NEW e \in Nat, e >= created
      PROVE  Stamped(Contact(id, v, e))
  <2>1. v.address = "new" => fan.change <= on
    BY <1>6, <1>7
  <2>2. v.address = "new" => stamp >= fan.change \/ created >= fan.change
    BY <1>0, <1>3, <1>4, <2>1 DEF Modstamp, on
  <2>3. stamp \in Int
    BY <1>0, <1>3, <1>4 DEF Modstamp
  <2>4. Later(stamp, e) >= e /\ Later(stamp, e) >= stamp
    BY <1>4, <1>7, <2>3 DEF Later
  <2>5. Later(stamp, e) \in Int
    BY <1>7, <2>3 DEF Later
  <2>6. v.address = "new" => Later(stamp, e) >= fan.change
    BY <1>0, <1>4, <1>7, <2>2, <2>3, <2>4, <2>5
  <2> QED
    BY <2>4, <2>6 DEF Stamped, fan
<1>8. ASSUME NEW v \in PersonViews(fan, on, FALSE), NEW id, NEW e,
             NEW more \in {{}, {"within_source_dup"}}
      PROVE  Tells("crm", id, Contact(id, v, e), TruthRow("crm", id, v.tags \cup more))
  <2>1. Mess(Contact(id, v, e), v.tags \cup more, fan.change)
    BY <1>6, <1>8, MessCarries
  <2> QED
    BY <2>1 DEF Tells, TruthRow, fan
<1> HIDE DEF Contact
<1> DEFINE c == Contact(n + 1, view, created)
           d == IF dup THEN Contact(n + 2, again, day) ELSE c
           t == TruthRow("crm", n + 1, view.tags)
           u == IF dup THEN TruthRow("crm", n + 2, again.tags \cup {"within_source_dup"})
                ELSE t
<1>9. contacts' = contacts \cup {c, d} /\ truth' = truth \cup {t, u}
  BY <1>2
<1>10. Tells("crm", n + 1, c, t)
  <2>1. view.tags \cup {} = view.tags
    OBVIOUS
  <2> QED
    BY <1>8, <2>1, Zenon
<1>11. dup => Tells("crm", n + 2, d, u)
  BY <1>8
<1>12. c.id = n + 1 /\ (dup => d.id = n + 2)
  BY DEF Contact
<1>13. Stamped(c) /\ Stamped(d)
  <2>1. created >= created
    BY <1>4
  <2>2. Stamped(Contact(n + 1, view, created))
    BY <1>4, <1>7, <2>1, Zenon
  <2>3. Stamped(Contact(n + 2, again, day))
    BY <1>5, <1>7, Zenon
  <2> QED
    BY <2>2, <2>3, Zenon
<1> HIDE DEF c, d, t, u
<1>14. ~dup => d = c /\ u = t
  BY DEF c, d, t, u
<1>15. OneOrTwo("crm", n, c, d, t, u)
  BY <1>10, <1>11, <1>12, <1>14 DEF OneOrTwo
<1> QED
  BY <1>9, <1>13, <1>15 DEF CrmAdds, n

LEMMA TicketingEffect ==
  ASSUME Assumptions, FansInv, EmitTicketing
  PROVE  \E o, t : TicketingAdds(o, t)
<1> DEFINE n == Cardinality(orders)
           fan == fans[at]
<1>0. fan \in Fan
  BY FanAt DEF EmitTicketing, Systems
<1>1. PICK match \in fixtures, late \in {0} \cup Lates :
        \E day \in Later(WindowStart, match - SaleDays) .. match :
        \E view \in PersonViews(fan, day, TRUE) :
          /\ orders' = orders \cup {[id |-> n + 1, match |-> match, address |-> view.address,
                                    typo |-> view.typo, month |-> MonthOf(day + late)]}
          /\ truth' = truth \cup {TruthRow("ticketing", n + 1,
                                    view.tags \cup Tag("late_arrival", late # 0))}
  BY DEF EmitTicketing
<1>2. PICK day \in Later(WindowStart, match - SaleDays) .. match :
        \E view \in PersonViews(fan, day, TRUE) :
          /\ orders' = orders \cup {[id |-> n + 1, match |-> match, address |-> view.address,
                                    typo |-> view.typo, month |-> MonthOf(day + late)]}
          /\ truth' = truth \cup {TruthRow("ticketing", n + 1,
                                    view.tags \cup Tag("late_arrival", late # 0))}
  BY <1>1
<1>3. PICK view \in PersonViews(fan, day, TRUE) :
          /\ orders' = orders \cup {[id |-> n + 1, match |-> match, address |-> view.address,
                                    typo |-> view.typo, month |-> MonthOf(day + late)]}
          /\ truth' = truth \cup {TruthRow("ticketing", n + 1,
                                    view.tags \cup Tag("late_arrival", late # 0))}
  BY <1>2
<1> DEFINE o == [id |-> n + 1, match |-> match, address |-> view.address,
                 typo |-> view.typo, month |-> MonthOf(day + late)]
           tags == view.tags \cup Tag("late_arrival", late # 0)
<1>4. Mess(view, view.tags, fan.change)
  BY <1>0, ViewIsTagged
<1>5. Mess(o, tags, fan.change)
  BY <1>4, MessCarries DEF Tag
<1>6. Tells("ticketing", n + 1, o, TruthRow("ticketing", n + 1, tags))
  BY <1>5 DEF Tells, TruthRow
<1>7. o.id = n + 1 /\ o.match \in fixtures
  OBVIOUS
<1> HIDE DEF o, tags
<1>8. TicketingAdds(o, TruthRow("ticketing", n + 1, tags))
  BY <1>3, <1>6, <1>7 DEF TicketingAdds, o, tags
<1> QED
  BY <1>8

(* The rows of an order have one zip column, the one of its month's file. *)
LEMMA MerchEffect ==
  ASSUME Assumptions, FansInv, EmitMerch
  PROVE  \E S, t : MerchAdds(S, t)
<1> DEFINE n == Cardinality(OrdersOf(items))
           fan == fans[at]
           Zip(day) == IF day >= DriftFrom THEN "billing_postal_code" ELSE "billing_zip"
           Item(day, view, k) ==
             [order |-> n + 1, item |-> k, address |-> view.address, typo |-> view.typo,
              month |-> MonthOf(day), zip |-> Zip(day)]
<1>0. fan \in Fan
  BY FanAt DEF EmitMerch, Systems
<1>1. PICK day \in Window, rows \in ItemCounts :
        \E view \in PersonViews(fan, day, TRUE) :
          /\ items' = items \cup {Item(day, view, k) : k \in 1 .. rows}
          /\ truth' = truth \cup {TruthRow("merch", n + 1, view.tags)}
  BY DEF EmitMerch, OrdersOf
<1>2. PICK view \in PersonViews(fan, day, TRUE) :
          /\ items' = items \cup {Item(day, view, k) : k \in 1 .. rows}
          /\ truth' = truth \cup {TruthRow("merch", n + 1, view.tags)}
  BY <1>1
<1>3. Mess(view, view.tags, fan.change)
  BY <1>0, ViewIsTagged
<1> DEFINE t == TruthRow("merch", n + 1, view.tags)
           S == {Item(day, view, k) : k \in 1 .. rows}
<1>4. S # {}
  <2>1. rows \in Nat \ {0}
    BY DEF Assumptions, DrawAssumption
  <2>2. 1 \in 1 .. rows
    BY <2>1
  <2> QED
    BY <2>2
<1>5. Zip(day) = ZipColumn(MonthOf(day))
  <2>1. day \in Nat /\ DriftFrom \in Nat /\ MonthDays \in Nat \ {0} /\ DriftFrom % MonthDays = 0
    BY DEF Assumptions, DrawAssumption, DriftAssumption, Window
  <2>2. day >= DriftFrom <=> MonthOf(day) >= MonthOf(DriftFrom)
    BY <2>1, DivideMonotone DEF MonthOf
  <2> QED
    BY <2>2 DEF ZipColumn
<1>6. ASSUME NEW k \in 1 .. rows
      PROVE  /\ Tells("merch", n + 1, Item(day, view, k), t)
             /\ Item(day, view, k).order = n + 1
             /\ Item(day, view, k).zip = ZipColumn(Item(day, view, k).month)
  <2>1. Mess(Item(day, view, k), view.tags, fan.change)
    BY <1>3 DEF Mess
  <2> QED
    BY <1>5, <2>1 DEF Tells, TruthRow
<1> HIDE DEF Item, t
<1>7. \A i \in S : /\ Tells("merch", n + 1, i, t)
                   /\ i.order = n + 1
                   /\ i.zip = ZipColumn(i.month)
  BY <1>6
<1> HIDE DEF S
<1>8. MerchAdds(S, t)
  BY <1>2, <1>4, <1>7 DEF MerchAdds, S, t
<1> QED
  BY <1>8

(* A second subscription shows the new address, and was signed up after the *)
(* change, when that was the address in force.                              *)
LEMMA EmailEffect ==
  ASSUME Assumptions, FansInv, EmitEmail
  PROVE  \E c, d, t, u : EmailAdds(c, d, t, u)
<1> DEFINE fan == fans[at]
           n == Cardinality(subscribers)
           Subscriber(id, view, day, on) ==
             [id |-> id, address |-> view.address, typo |-> view.typo, signup |-> day,
              subscribed |-> on, month |-> MonthOf(Later(day, WindowStart))]
           Renewed(v) == [v EXCEPT !.address = "new",
                                   !.typo = IF @ = "email" THEN "none" ELSE @]
           After(signup) ==
             {d \in RandDates(fan.change, WindowEnd) : Few /\ fan.change > signup}
<1>0. fan \in Fan /\ fan.since \in Nat /\ fan.change \in Int /\ fan.change >= 0
  BY FanAt DEF EmitEmail, Systems, Fan, Window, Assumptions, DrawAssumption
<1>1. PICK signup \in RandDates(fan.since, WindowEnd), on \in BOOLEAN :
        \E view \in PersonViews(fan, signup, FALSE) :
        \E again \in {{}} \cup {{d} : d \in After(signup)} :
        \E on2 \in BOOLEAN, views \in [again -> UNION {PersonViews(fan, d, FALSE) : d \in Window}] :
          /\ again = {} => on2 = on
          /\ \A d \in again : views[d] \in PersonViews(fan, d, FALSE)
          /\ subscribers' = subscribers \cup {Subscriber(n + 1, view, signup, on)}
               \cup {Subscriber(n + 2, Renewed(views[d]), d, on2) : d \in again}
          /\ truth' = truth \cup {TruthRow("email", n + 1, view.tags)}
               \cup {TruthRow("email", n + 2, views[d].tags \cup {"resubscribed_new_email"})
                       : d \in again}
  BY DEF EmitEmail
<1>2. PICK view \in PersonViews(fan, signup, FALSE),
           again \in {{}} \cup {{d} : d \in After(signup)} :
        \E on2 \in BOOLEAN, views \in [again -> UNION {PersonViews(fan, d, FALSE) : d \in Window}] :
          /\ again = {} => on2 = on
          /\ \A d \in again : views[d] \in PersonViews(fan, d, FALSE)
          /\ subscribers' = subscribers \cup {Subscriber(n + 1, view, signup, on)}
               \cup {Subscriber(n + 2, Renewed(views[d]), d, on2) : d \in again}
          /\ truth' = truth \cup {TruthRow("email", n + 1, view.tags)}
               \cup {TruthRow("email", n + 2, views[d].tags \cup {"resubscribed_new_email"})
                       : d \in again}
  BY <1>1
<1> HIDE DEF Renewed, Subscriber, After
<1>3. PICK on2 \in BOOLEAN,
           views \in [again -> UNION {PersonViews(fan, d, FALSE) : d \in Window}] :
          /\ \A d \in again : views[d] \in PersonViews(fan, d, FALSE)
          /\ subscribers' = subscribers \cup {Subscriber(n + 1, view, signup, on)}
               \cup {Subscriber(n + 2, Renewed(views[d]), d, on2) : d \in again}
          /\ truth' = truth \cup {TruthRow("email", n + 1, view.tags)}
               \cup {TruthRow("email", n + 2, views[d].tags \cup {"resubscribed_new_email"})
                       : d \in again}
  BY <1>2
<1>4. signup \in Nat
  BY <1>0, DrawnDay DEF Assumptions, DrawAssumption
<1>5. Mess(view, view.tags, fan.change)
  BY <1>0, ViewIsTagged
<1> DEFINE c == Subscriber(n + 1, view, signup, on)
           t == TruthRow("email", n + 1, view.tags)
<1>6. Tells("email", n + 1, c, t) /\ c.id = n + 1
  BY <1>5 DEF Tells, TruthRow, Mess, Subscriber
<1> HIDE DEF c, t
<1>7. CASE again = {}
  <2>1. subscribers' = subscribers \cup {c, c} /\ truth' = truth \cup {t, t}
    BY <1>3, <1>7 DEF c, t
  <2>2. EmailAdds(c, c, t, t)
    BY <1>6, <2>1 DEF EmailAdds, OneOrTwo
  <2> QED
    BY <2>2
<1>8. CASE again # {}
  <2>1. PICK day \in After(signup) : again = {day}
    BY <1>8
  <2>2. fan.change > signup /\ day \in RandDates(fan.change, WindowEnd)
    BY <2>1 DEF After
  <2>3. fan.change # 0 /\ fan.change <= day
    <3>1. fan.change \in Nat
      BY <1>0
    <3>2. day >= fan.change /\ day \in Nat
      BY <2>2, <3>1, DrawnDay DEF Assumptions, DrawAssumption
    <3> QED
      BY <1>4, <2>2, <3>1, <3>2
  <2> DEFINE v == views[day]
  <2>4. v \in PersonViews(fan, day, FALSE)
    BY <1>3, <2>1
  <2>5. v.address = "new"
    BY <1>0, <2>3, <2>4, ViewIsTagged DEF EmailAt
  <2>6. Mess(v, v.tags, fan.change) /\ v.tags \subseteq {"stale_email", "shared_email", "typo"}
    BY <1>0, <2>4, ViewIsTagged
  <2> DEFINE d == Subscriber(n + 2, Renewed(v), day, on2)
             tags == v.tags \cup {"resubscribed_new_email"}
             u == TruthRow("email", n + 2, tags)
  <2>7. Renewed(v).address = "new" /\ (Renewed(v).typo # "none" => v.typo # "none")
    <3>1. DOMAIN v = {"address", "typo", "tags"}
      BY <1>0, <2>4, ViewIsTagged
    <3> QED
      BY <3>1 DEF Renewed
  <2>8. d.address = "new" /\ (d.typo # "none" => v.typo # "none") /\ d.id = n + 2
    BY <2>7 DEF Subscriber
  <2> HIDE DEF v, d
  <2>9. Mess(d, tags, fan.change)
    BY <2>5, <2>6, <2>8 DEF Mess
  <2>10. Tells("email", n + 2, d, u)
    BY <2>9 DEF Tells, TruthRow
  <2>11. subscribers' = subscribers \cup {c, d} /\ truth' = truth \cup {t, u}
    BY <1>3, <2>1 DEF c, d, t, v
  <2> HIDE DEF u
  <2>12. EmailAdds(c, d, t, u)
    BY <1>6, <2>8, <2>10, <2>11 DEF EmailAdds, OneOrTwo
  <2> QED
    BY <2>12
<1> QED
  BY <1>7, <1>8

-----------------------------------------------------------------------------
(***************************************************************************)
(* Every other step leaves the fans and the records alone, or there are no *)
(* records.                                                                *)
(***************************************************************************)

LEMMA StepsOfRecords ==
  ASSUME FansInv, [GNext]_gvars
  PROVE  \/ NothingEmitted'
         \/ UNCHANGED <<fans, emitted>>
         \/ EmitCrm \/ EmitTicketing \/ EmitMerch \/ EmitEmail \/ EmitEvents
<1>1. CASE Generate \/ Kill
  BY <1>1 DEF Generate, Kill, Blank, NothingEmitted
<1>2. CASE BuildPopulation \/ EmitFixtures
  <2>1. pc = "population"
    BY <1>2 DEF BuildPopulation, EmitFixtures
  <2>2. NothingEmitted
    BY <2>1 DEF FansInv, EmptyFirst
  <2> QED
    BY <1>2, <2>2 DEF BuildPopulation, EmitFixtures, NothingEmitted, emitted
<1>3. CASE ClearDir \/ EventsDone \/ WriteFiles
  BY <1>3 DEF ClearDir, EventsDone, WriteFiles
<1>4. CASE \/ Skips("crm", "ticketing") \/ Skips("ticketing", "merch")
           \/ Skips("merch", "email") \/ Skips("email", "events")
  BY <1>4 DEF Skips
<1>5. CASE UNCHANGED gvars
  BY <1>5 DEF gvars
<1> QED
  BY <1>1, <1>2, <1>3, <1>4, <1>5 DEF GNext

(* An emitter changes the records of its source and the truth only. *)
LEMMA EmittersKeep ==
  /\ EmitCrm => UNCHANGED <<fans, fixtures, orders, items, subscribers, events>>
  /\ EmitTicketing =>
       UNCHANGED <<fans, fixtures, contacts, opportunities, items, subscribers, events>>
  /\ EmitMerch =>
       UNCHANGED <<fans, fixtures, contacts, opportunities, orders, subscribers, events>>
  /\ EmitEmail =>
       UNCHANGED <<fans, fixtures, contacts, opportunities, orders, items, events>>
  /\ EmitEvents =>
       UNCHANGED <<fans, fixtures, contacts, opportunities, orders, items, subscribers, truth>>
BY DEF EmitCrm, EmitTicketing, EmitMerch, EmitEmail, EmitEvents

-----------------------------------------------------------------------------
(***************************************************************************)
(* The stamps and the tags.                                                *)
(***************************************************************************)

LEMMA NextStamps ==
  ASSUME Assumptions, FansInv, UpdatesAreStamped, [GNext]_gvars
  PROVE  UpdatesAreStamped'
<1>1. CASE NothingEmitted'
  BY <1>1 DEF NothingEmitted, UpdatesAreStamped
<1>2. CASE fans' = fans /\ contacts' = contacts /\ truth \subseteq truth'
  BY <1>2 DEF UpdatesAreStamped
<1>3. CASE EmitCrm
  <2>1. PICK c, d, t, u : CrmAdds(c, d, t, u)
    BY <1>3, CrmEffect
  <2>2. /\ contacts' = contacts \cup {c, d} /\ truth' = truth \cup {t, u} /\ fans' = fans
        /\ t.source = "crm" /\ t.id = c.id /\ t.entity = at
        /\ u.source = "crm" /\ u.id = d.id /\ u.entity = at
        /\ Stamped(c) /\ Stamped(d)
    BY <1>3, <2>1, EmittersKeep DEF CrmAdds, OneOrTwo, Tells
  <2> QED
    BY <2>2 DEF UpdatesAreStamped, Stamped
<1> QED
  <2>1. CASE UNCHANGED <<fans, emitted>>
    BY <1>2, <2>1 DEF emitted
  <2>2. CASE EmitTicketing \/ EmitMerch \/ EmitEmail \/ EmitEvents
    <3>1. truth \subseteq truth'
      BY <2>2, TicketingEffect, MerchEffect, EmailEffect, EmittersKeep
         DEF TicketingAdds, MerchAdds, EmailAdds
    <3> QED
      BY <1>2, <2>2, <3>1, EmittersKeep
  <2> QED
    BY <1>1, <1>3, <2>1, <2>2, StepsOfRecords

(* The row of a record and what it says of it. *)
Told(source, id, rec) ==
  \E t \in truth : t.source = source /\ t.id = id /\ Mess(rec, t.tags, fans[t.entity].change)

Tagged ==
  /\ \A c \in contacts : Told("crm", c.id, c)
  /\ \A o \in orders : Told("ticketing", o.id, o)
  /\ \A i \in items : Told("merch", i.order, i)
  /\ \A s \in subscribers : Told("email", s.id, s)

LEMMA TaggedIsMess == Tagged => MessIsTagged
<1> SUFFICES ASSUME Tagged
             PROVE  MessIsTagged
  OBVIOUS
<1> DEFINE Shown == {<<"crm", c.id, c>> : c \in contacts}
                      \cup {<<"ticketing", o.id, o>> : o \in orders}
                      \cup {<<"merch", i.order, i>> : i \in items}
                      \cup {<<"email", s.id, s>> : s \in subscribers}
<1>1. ASSUME NEW r \in Shown
      PROVE  Told(r[1], r[2], r[3])
  BY DEF Tagged
<1> HIDE DEF Shown
<1>2. \A r \in Shown : \E t \in truth :
        /\ t.source = r[1] /\ t.id = r[2] /\ Mess(r[3], t.tags, fans[t.entity].change)
  BY <1>1 DEF Told
<1>3. \A r \in Shown : \E t \in truth :
       /\ t.source = r[1] /\ t.id = r[2]
       /\ r[3].address = "first" /\ fans[t.entity].change # 0 => "stale_email" \in t.tags
       /\ r[3].address = "household" <=> "shared_email" \in t.tags
       /\ r[3].typo # "none" => "typo" \in t.tags
       /\ "stale_email" \in t.tags => r[3].address = "first" \/ "shared_email" \in t.tags
  BY <1>2 DEF Mess
<1> QED
  BY <1>3 DEF MessIsTagged, Shown

LEMMA ToldStays ==
  ASSUME fans' = fans, truth \subseteq truth'
  PROVE  \A source, id, rec :
           /\ Told(source, id, rec) => Told(source, id, rec)'
           /\ \A t \in truth' : Tells(source, id, rec, t) => Told(source, id, rec)'
BY DEF Told, Tells

LEMMA NextTagged ==
  ASSUME Assumptions, FansInv, Tagged, [GNext]_gvars
  PROVE  Tagged'
<1>1. CASE NothingEmitted'
  BY <1>1 DEF NothingEmitted, Tagged
<1>2. CASE UNCHANGED <<fans, emitted>>
  BY <1>2 DEF emitted, Tagged, Told
<1>3. CASE EmitEvents
  BY <1>3, EmittersKeep DEF Tagged, Told
<1>4. CASE EmitCrm
  <2>1. PICK c, d, t, u : CrmAdds(c, d, t, u)
    BY <1>4, CrmEffect
  <2>2. /\ contacts' = contacts \cup {c, d} /\ truth' = truth \cup {t, u}
        /\ Tells("crm", c.id, c, t) /\ Tells("crm", d.id, d, u)
    BY <2>1 DEF CrmAdds, OneOrTwo
  <2>3. Told("crm", c.id, c)' /\ Told("crm", d.id, d)'
    BY <1>4, <2>2, ToldStays, EmittersKeep
  <2> QED
    BY <1>4, <2>2, <2>3, ToldStays, EmittersKeep DEF Tagged
<1>5. CASE EmitEmail
  <2>1. PICK c, d, t, u : EmailAdds(c, d, t, u)
    BY <1>5, EmailEffect
  <2>2. /\ subscribers' = subscribers \cup {c, d} /\ truth' = truth \cup {t, u}
        /\ Tells("email", c.id, c, t) /\ Tells("email", d.id, d, u)
    BY <2>1 DEF EmailAdds, OneOrTwo
  <2>3. Told("email", c.id, c)' /\ Told("email", d.id, d)'
    BY <1>5, <2>2, ToldStays, EmittersKeep
  <2> QED
    BY <1>5, <2>2, <2>3, ToldStays, EmittersKeep DEF Tagged
<1>6. CASE EmitTicketing
  <2>1. PICK o, t : TicketingAdds(o, t)
    BY <1>6, TicketingEffect
  <2>2. /\ orders' = orders \cup {o} /\ truth' = truth \cup {t}
        /\ Tells("ticketing", o.id, o, t)
    BY <2>1 DEF TicketingAdds
  <2>3. Told("ticketing", o.id, o)'
    BY <1>6, <2>2, ToldStays, EmittersKeep
  <2> QED
    BY <1>6, <2>2, <2>3, ToldStays, EmittersKeep DEF Tagged
<1>7. CASE EmitMerch
  <2>1. PICK S, t : MerchAdds(S, t)
    BY <1>7, MerchEffect
  <2>2. /\ items' = items \cup S /\ truth' = truth \cup {t}
        /\ \A i \in S : Tells("merch", i.order, i, t)
    BY <2>1 DEF MerchAdds
  <2>3. \A i \in S : Told("merch", i.order, i)'
    BY <1>7, <2>2, ToldStays, EmittersKeep
  <2> QED
    BY <1>7, <2>2, <2>3, ToldStays, EmittersKeep DEF Tagged
<1> QED
  BY <1>1, <1>2, <1>3, <1>4, <1>5, <1>6, <1>7, StepsOfRecords

-----------------------------------------------------------------------------
(***************************************************************************)
(* The records are numbered, and the truth has a row for each.             *)
(***************************************************************************)

(* Records c and d and their rows t and u are added to S and to the truth.  *)
Renumbered(source, S, c, d, t, u) ==
  /\ Numbered(S \cup {c, d}) /\ OnePerId(truth \cup {t, u})
  /\ IdsIn(truth \cup {t, u}, source) = 1 .. Cardinality(S \cup {c, d})
  /\ \A s : s # source => IdsIn(truth \cup {t, u}, s) = TruthIds(s)

LEMMA OneOrTwoNumbered ==
  ASSUME NEW source, NEW S, NEW c, NEW d, NEW t, NEW u,
         Numbered(S), OnePerId(truth), TruthIds(source) = 1 .. Cardinality(S),
         OneOrTwo(source, Cardinality(S), c, d, t, u)
  PROVE  Renumbered(source, S, c, d, t, u)
<1> DEFINE n == Cardinality(S)
           S1 == S \cup {c}
           T1 == truth \cup {t}
<1>1. n \in Nat /\ Numbered(S1) /\ Cardinality(S1) = n + 1
  BY NumberOneMore DEF OneOrTwo
<1>2. c.id = n + 1 /\ t.source = source /\ t.id = n + 1
  BY DEF OneOrTwo, Tells
<1>3. /\ OnePerId(T1) /\ IdsIn(T1, source) = 1 .. (n + 1)
      /\ \A s : s # source => IdsIn(T1, s) = TruthIds(s)
  BY <1>1, <1>2, RowNumbered DEF TruthIds
<1>4. CASE d = c /\ u = t
  <2>1. S \cup {c, d} = S1 /\ truth \cup {t, u} = T1
    BY <1>4
  <2> QED
    BY <1>1, <1>3, <2>1 DEF Renumbered
<1>5. CASE Tells(source, n + 2, d, u) /\ d.id = n + 2
  <2>1. S \cup {c, d} = S1 \cup {d} /\ truth \cup {t, u} = T1 \cup {u}
    OBVIOUS
  <2>2. /\ u.source = source /\ u.id = (n + 1) + 1 /\ n + 1 \in Nat
        /\ d.id = Cardinality(S1) + 1
    BY <1>1, <1>5 DEF Tells
  <2> DEFINE m == n + 1
  <2> HIDE DEF S1, T1, n
  <2>3. Numbered(S1 \cup {d}) /\ Cardinality(S1 \cup {d}) = (n + 1) + 1
    BY <1>1, <2>2, NumberOneMore
  <2>4. /\ OnePerId(T1 \cup {u}) /\ IdsIn(T1 \cup {u}, source) = 1 .. ((n + 1) + 1)
        /\ \A s : s # source => IdsIn(T1 \cup {u}, s) = IdsIn(T1, s)
    <3>1. OnePerId(T1) /\ m \in Nat /\ IdsIn(T1, u.source) = 1 .. m /\ u.id = m + 1
      BY <1>3, <2>2
    <3> HIDE DEF m
    <3>2. /\ OnePerId(T1 \cup {u}) /\ IdsIn(T1 \cup {u}, u.source) = 1 .. (m + 1)
          /\ \A s : s # u.source => IdsIn(T1 \cup {u}, s) = IdsIn(T1, s)
      BY <3>1, RowNumbered
    <3> QED
      BY <2>2, <3>2 DEF m
  <2> QED
    BY <1>3, <2>1, <2>3, <2>4 DEF Renumbered
<1> QED
  BY <1>4, <1>5 DEF OneOrTwo

LEMMA NextRecords ==
  ASSUME Assumptions, FansInv, RecordsInv, [GNext]_gvars
  PROVE  RecordsInv'
<1>1. CASE NothingEmitted'
  <2>1. IsFiniteSet({}) /\ Cardinality({}) = 0
    BY FS_EmptySet
  <2>2. 1 .. 0 = {}
    OBVIOUS
  <2>3. Numbered({}) /\ OrdersOf({}) = {} /\ (\A s : IdsIn({}, s) = {}) /\ OnePerId({})
    BY <2>1, <2>2 DEF Numbered, OrdersOf, IdsIn, OnePerId
  <2> QED
    BY <1>1, <2>1, <2>2, <2>3 DEF NothingEmitted, RecordsInv, TruthIds
<1>2. CASE UNCHANGED <<contacts, orders, items, subscribers, truth>>
  BY <1>2 DEF RecordsInv, TruthIds
<1>3. CASE EmitCrm
  <2>1. PICK c, d, t, u : CrmAdds(c, d, t, u)
    BY <1>3, CrmEffect
  <2>2. /\ Numbered(contacts \cup {c, d}) /\ OnePerId(truth \cup {t, u})
        /\ IdsIn(truth \cup {t, u}, "crm") = 1 .. Cardinality(contacts \cup {c, d})
        /\ \A s : s # "crm" => IdsIn(truth \cup {t, u}, s) = TruthIds(s)
    <3>1. /\ Numbered(contacts) /\ OnePerId(truth)
          /\ TruthIds("crm") = 1 .. Cardinality(contacts)
          /\ OneOrTwo("crm", Cardinality(contacts), c, d, t, u)
      BY <2>1 DEF RecordsInv, CrmAdds
    <3>2. Renumbered("crm", contacts, c, d, t, u)
      BY <3>1, OneOrTwoNumbered
    <3> QED
      BY <3>2 DEF Renumbered
  <2> QED
    BY <1>3, <2>1, <2>2, EmittersKeep DEF RecordsInv, CrmAdds, TruthIds
<1>4. CASE EmitEmail
  <2>1. PICK c, d, t, u : EmailAdds(c, d, t, u)
    BY <1>4, EmailEffect
  <2>2. /\ Numbered(subscribers \cup {c, d}) /\ OnePerId(truth \cup {t, u})
        /\ IdsIn(truth \cup {t, u}, "email") = 1 .. Cardinality(subscribers \cup {c, d})
        /\ \A s : s # "email" => IdsIn(truth \cup {t, u}, s) = TruthIds(s)
    <3>1. /\ Numbered(subscribers) /\ OnePerId(truth)
          /\ TruthIds("email") = 1 .. Cardinality(subscribers)
          /\ OneOrTwo("email", Cardinality(subscribers), c, d, t, u)
      BY <2>1 DEF RecordsInv, EmailAdds
    <3>2. Renumbered("email", subscribers, c, d, t, u)
      BY <3>1, OneOrTwoNumbered
    <3> QED
      BY <3>2 DEF Renumbered
  <2>3. contacts' = contacts /\ orders' = orders /\ items' = items
    BY <1>4, EmittersKeep
  <2> QED
    BY <2>1, <2>2, <2>3 DEF RecordsInv, EmailAdds, TruthIds
<1>5. CASE EmitTicketing
  <2>1. PICK o, t : TicketingAdds(o, t)
    BY <1>5, TicketingEffect
  <2>2. /\ t.source = "ticketing" /\ t.id = Cardinality(orders) + 1
        /\ o.id = Cardinality(orders) + 1
    BY <2>1 DEF TicketingAdds, Tells
  <2>3. /\ Numbered(orders \cup {o}) /\ Cardinality(orders \cup {o}) = Cardinality(orders) + 1
        /\ Cardinality(orders) \in Nat
    BY <2>2, NumberOneMore DEF RecordsInv
  <2>4. /\ OnePerId(truth \cup {t})
        /\ IdsIn(truth \cup {t}, "ticketing") = 1 .. (Cardinality(orders) + 1)
        /\ \A s : s # "ticketing" => IdsIn(truth \cup {t}, s) = IdsIn(truth, s)
    <3>1. OnePerId(truth) /\ IdsIn(truth, t.source) = 1 .. Cardinality(orders)
      BY <2>2 DEF RecordsInv, TruthIds
    <3>2. /\ OnePerId(truth \cup {t})
          /\ IdsIn(truth \cup {t}, t.source) = 1 .. (Cardinality(orders) + 1)
          /\ \A s : s # t.source => IdsIn(truth \cup {t}, s) = IdsIn(truth, s)
      BY <2>2, <2>3, <3>1, RowNumbered
    <3> QED
      BY <2>2, <3>2
  <2>5. contacts' = contacts /\ subscribers' = subscribers /\ items' = items
    BY <1>5, EmittersKeep
  <2> QED
    BY <2>1, <2>3, <2>4, <2>5 DEF RecordsInv, TicketingAdds, TruthIds
<1>6. CASE EmitMerch
  <2>1. PICK S, t : MerchAdds(S, t)
    BY <1>6, MerchEffect
  <2> DEFINE n == Cardinality(OrdersOf(items))
  <2>2. S # {} /\ \A i \in S : i.order = n + 1 /\ t.source = "merch" /\ t.id = n + 1
    BY <2>1 DEF MerchAdds, Tells
  <2>3. n \in Nat /\ IsFiniteSet(OrdersOf(items)) /\ OrdersOf(items) = 1 .. n
    BY FS_CardinalityType DEF RecordsInv
  <2>4. OrdersOf(items \cup S) = OrdersOf(items) \cup {n + 1}
    BY <2>2 DEF OrdersOf
  <2> HIDE DEF n
  <2>5. n + 1 \notin OrdersOf(items)
    BY <2>3
  <2>6. /\ IsFiniteSet(OrdersOf(items \cup S))
        /\ Cardinality(OrdersOf(items \cup S)) = n + 1
    <3> DEFINE known == OrdersOf(items)
    <3>1. Cardinality(known) = n /\ IsFiniteSet(known) /\ n + 1 \notin known
      BY <2>3, <2>5 DEF n
    <3> HIDE DEF known
    <3>2. IsFiniteSet(known \cup {n + 1}) /\ Cardinality(known \cup {n + 1}) = n + 1
      BY <3>1, FS_AddElement
    <3> QED
      BY <2>4, <3>2 DEF known
  <2>7. OrdersOf(items \cup S) = 1 .. (n + 1)
    <3>1. (1 .. n) \cup {n + 1} = 1 .. (n + 1)
      BY <2>3
    <3> QED
      BY <2>3, <2>4, <3>1
  <2>8. TruthIds("merch") = 1 .. n
    BY DEF RecordsInv, n
  <2>9. /\ OnePerId(truth \cup {t})
        /\ IdsIn(truth \cup {t}, "merch") = 1 .. (n + 1)
        /\ \A s : s # "merch" => IdsIn(truth \cup {t}, s) = IdsIn(truth, s)
    BY <2>2, <2>3, <2>8, RowNumbered DEF RecordsInv, TruthIds
  <2>10. contacts' = contacts /\ subscribers' = subscribers /\ orders' = orders
    BY <1>6, EmittersKeep
  <2> QED
    BY <2>1, <2>6, <2>7, <2>9, <2>10 DEF RecordsInv, MerchAdds, TruthIds
<1> QED
  <2>1. EmitEvents => UNCHANGED <<contacts, orders, items, subscribers, truth>>
    BY EmittersKeep
  <2> QED
    BY <1>1, <1>2, <1>3, <1>4, <1>5, <1>6, <2>1, StepsOfRecords DEF emitted

-----------------------------------------------------------------------------
(***************************************************************************)
(* What rows refer to, and the zip's column.                               *)
(***************************************************************************)

LEMMA NextZips ==
  ASSUME Assumptions, FansInv, ZipsFit, [GNext]_gvars
  PROVE  ZipsFit'
<1>1. CASE NothingEmitted'
  BY <1>1 DEF NothingEmitted, ZipsFit
<1>2. CASE items' = items
  BY <1>2 DEF ZipsFit, ZipColumn, MonthOf
<1>3. CASE EmitMerch
  BY <1>3, MerchEffect DEF MerchAdds, ZipsFit, ZipColumn, MonthOf
<1> QED
  BY <1>1, <1>2, <1>3, StepsOfRecords, EmittersKeep DEF emitted

LEMMA NextReferred ==
  ASSUME Assumptions, FansInv, Referred, [GNext]_gvars
  PROVE  Referred'
<1>1. CASE NothingEmitted'
  BY <1>1 DEF NothingEmitted, Referred
<1>2. CASE UNCHANGED <<fans, emitted>>
  BY <1>2 DEF emitted, Referred, TruthIds, IdsIn
<1>3. CASE EmitCrm
  <2>1. PICK c, d, t, u : CrmAdds(c, d, t, u)
    BY <1>3, CrmEffect
  <2>2. /\ truth' = truth \cup {t, u} /\ t.source = "crm" /\ t.id = Cardinality(contacts) + 1
    BY <2>1 DEF CrmAdds, OneOrTwo, Tells
  <2>3. \A o \in opportunities' :
          o \in opportunities \/ o.contact = Cardinality(contacts) + 1
    BY <1>3 DEF EmitCrm
  <2>4. TruthIds("crm") \subseteq TruthIds("crm")' /\ Cardinality(contacts) + 1 \in TruthIds("crm")'
    BY <2>2 DEF TruthIds, IdsIn
  <2> QED
    BY <1>3, <2>3, <2>4, EmittersKeep DEF Referred
<1>4. CASE EmitTicketing
  <2>1. PICK o, t : TicketingAdds(o, t)
    BY <1>4, TicketingEffect
  <2> QED
    BY <1>4, <2>1, EmittersKeep DEF Referred, TicketingAdds, TruthIds, IdsIn
<1>5. CASE EmitMerch
  BY <1>5, MerchEffect, EmittersKeep DEF MerchAdds, Referred, TruthIds, IdsIn
<1>6. CASE EmitEmail
  BY <1>6, EmailEffect, EmittersKeep DEF EmailAdds, Referred, TruthIds, IdsIn
<1>7. CASE EmitEvents
  <2> DEFINE New(S, sent, lag) ==
               {[subscriber |-> s.id, campaign |-> at, sent |-> sent,
                 month |-> MonthOf(sent + lag[s])] : s \in S}
  <2>1. \E sent \in RandDates(FirstDay(at), Earlier(FirstDay(at + 1) - 1, WindowEnd)) :
        \E S \in {S \in SUBSET {s \in subscribers : Reached(s, sent)} :
                    Cardinality(S) <= MaxReached} :
        \E lag \in [S -> 0 .. EventDays] : events' = events \cup New(S, sent, lag)
    BY <1>7 DEF EmitEvents
  <2>2. ASSUME NEW S, NEW sent, NEW lag, S \subseteq {s \in subscribers : Reached(s, sent)},
               NEW e \in New(S, sent, lag)
        PROVE  \E s \in subscribers : s.id = e.subscriber /\ s.subscribed /\ s.signup <= e.sent
    BY <2>2 DEF Reached
  <2> HIDE DEF New
  <2>3. \E sent, S, lag : S \subseteq {s \in subscribers : Reached(s, sent)}
                          /\ events' = events \cup New(S, sent, lag)
    BY <2>1
  <2>4. \A e \in events' : e \in events \/ \E s \in subscribers :
          s.id = e.subscriber /\ s.subscribed /\ s.signup <= e.sent
    BY <2>2, <2>3
  <2> QED
    BY <1>7, <2>4, EmittersKeep DEF Referred, TruthIds
<1> QED
  BY <1>1, <1>2, <1>3, <1>4, <1>5, <1>6, <1>7, StepsOfRecords

-----------------------------------------------------------------------------
(***************************************************************************)
(* Every fan has a row of each of their systems.                           *)
(***************************************************************************)

Successive(source, next) ==
  \/ source = "crm" /\ next = "ticketing"
  \/ source = "ticketing" /\ next = "merch"
  \/ source = "merch" /\ next = "email"
  \/ source = "email" /\ next = "events"

(* The loop goes on by one turn. *)
LEMMA TurnPassed ==
  ASSUME FansOK, NEW next, Successive(pc, next), NextFan(next),
         NEW s \in Systems, NEW k \in 1 .. Len(fans), Past(s, k)'
  PROVE  Past(s, k) \/ (s = pc /\ k = at)
<1>1. Len(fans) \in Nat /\ at \in 1 .. Len(fans)
  BY LenProperties DEF FansOK, Successive, Systems
<1>2. CASE at < Len(fans)
  <2>1. at' = at + 1 /\ pc' = pc
    BY <1>2 DEF NextFan
  <2> QED
    BY <1>1, <2>1 DEF Past, Rank, Systems, Successive
<1>3. CASE ~(at < Len(fans))
  <2>1. at' = 1 /\ pc' = next /\ k <= at
    BY <1>1, <1>3 DEF NextFan
  <2> QED
    BY <1>1, <2>1 DEF Past, Rank, Systems, Successive
<1> QED
  BY <1>2, <1>3

(* What an emitter has to do: add rows of the fan whose turn it is, or let  *)
(* the turn pass of a fan that has no row to get.                           *)
LEMMA CoverageStep ==
  ASSUME FansInv, FansCovered, UNCHANGED <<fans, fixtures>>, truth \subseteq truth',
         \A t \in truth' \ truth : t.entity = at, pc \in Systems,
         \A s \in Systems, k \in 1 .. Len(fans) :
           Past(s, k)' => Past(s, k) \/ (s = pc /\ k = at),
         \/ pc \notin fans[at].systems
         \/ pc = "ticketing" /\ fixtures = {}
         \/ \E t \in truth' : t.source = pc /\ t.entity = at
  PROVE  FansCovered'
<1>1. at \in 1 .. Len(fans) /\ \A k \in 1 .. Len(fans) : fans[k].systems \subseteq Systems
  <2>1. \A k \in 1 .. Len(fans) : fans[k] \in Fan
    BY ElementOfSeq DEF FansInv, FansOK
  <2> QED
    BY <2>1 DEF FansInv, FansOK, Fan
<1>2. \A t \in truth' : t.entity \in 1 .. Len(fans)
  BY <1>1 DEF FansCovered
<1>3. ASSUME NEW k \in 1 .. Len(fans), NEW s \in fans[k].systems, Past(s, k)',
             s = "ticketing" => fixtures # {}
      PROVE  \E t \in truth' : t.source = s /\ t.entity = k
  <2>1. CASE Past(s, k)
    <3>1. \E t \in truth : t.source = s /\ t.entity = k
      BY <1>3, <2>1 DEF FansCovered
    <3> QED
      BY <3>1
  <2>2. CASE s = pc /\ k = at
    BY <1>3, <2>2
  <2> QED
    BY <1>1, <1>3, <2>1, <2>2
<1>4. \A k \in 1 .. Len(fans') : \A s \in fans'[k].systems :
        Past(s, k)' /\ (s = "ticketing" => fixtures' # {}) =>
          \E t \in truth' : t.source = s /\ t.entity = k
  BY <1>3
<1> QED
  BY <1>2, <1>4 DEF FansCovered, Past

LEMMA NextCovered ==
  ASSUME Assumptions, FansInv, FansCovered, [GNext]_gvars
  PROVE  FansCovered'
<1>0. FansOK /\ Len(fans) \in Nat
  BY LenProperties DEF FansInv, FansOK
<1>1. CASE Generate \/ Kill
  <2>1. truth' = {} /\ Len(fans') = 0
    BY <1>1 DEF Generate, Kill, Blank
  <2> QED
    BY <2>1 DEF FansCovered
<1>2. CASE BuildPopulation \/ EmitFixtures \/ ClearDir
  <2>1. pc' \in {"clear", "population", "crm"} /\ at' = 1 /\ truth' = {}
    BY <1>0, <1>2 DEF BuildPopulation, EmitFixtures, ClearDir, FansInv, FansOK, EmptyFirst,
                      NothingEmitted, emitted
  <2>2. fans' \in Seq(Fan)
    BY NextFans DEF FansInv, FansOK
  <2>3. ASSUME NEW k \in 1 .. Len(fans'), NEW s \in fans'[k].systems
        PROVE  ~Past(s, k)'
    <3>1. fans'[k] \in Fan /\ k \in Nat /\ k >= 1
      BY <2>2, <2>3, ElementOfSeq, LenProperties
    <3>2. s \in Systems
      BY <2>3, <3>1 DEF Fan
    <3> QED
      BY <2>1, <3>1, <3>2 DEF Past, Rank, Systems
  <2> QED
    BY <2>1, <2>3 DEF FansCovered, Past
<1>3. ASSUME NEW source, NEW next, Successive(source, next), Skips(source, next)
      PROVE  FansCovered'
  <2>1. /\ pc = source /\ pc \in Systems /\ NextFan(next)
        /\ pc \notin fans[at].systems \/ (pc = "ticketing" /\ fixtures = {})
        /\ UNCHANGED <<fans, fixtures, truth>>
    BY <1>3 DEF Skips, Successive, Systems, In, emitted
  <2>2. \A s \in Systems, k \in 1 .. Len(fans) :
          Past(s, k)' => Past(s, k) \/ (s = pc /\ k = at)
    BY <1>0, <1>3, <2>1, TurnPassed
  <2> QED
    BY <2>1, <2>2, CoverageStep
<1>4. ASSUME NEW next, Successive(pc, next), NextFan(next) \/ UNCHANGED <<pc, at>>,
             UNCHANGED <<fans, fixtures>>, NEW t, NEW u, truth' = truth \cup {t, u},
             t.source = pc, t.entity = at, u.entity = at
      PROVE  FansCovered'
  <2>1. \A s \in Systems, k \in 1 .. Len(fans) :
          Past(s, k)' => Past(s, k) \/ (s = pc /\ k = at)
    <3>1. CASE NextFan(next)
      BY <1>0, <1>4, <3>1, TurnPassed
    <3>2. CASE UNCHANGED <<pc, at>>
      BY <3>2 DEF Past
    <3> QED
      BY <1>4, <3>1, <3>2
  <2>2. pc \in Systems
    BY <1>4 DEF Successive, Systems
  <2> QED
    BY <1>4, <2>1, <2>2, CoverageStep
<1>5. CASE EmitCrm
  <2>1. PICK c, d, t, u : CrmAdds(c, d, t, u)
    BY <1>5, CrmEffect
  <2>2. /\ truth' = truth \cup {t, u}
        /\ t.source = "crm" /\ t.entity = at /\ u.entity = at
    BY <2>1 DEF CrmAdds, OneOrTwo, Tells
  <2>3. pc = "crm" /\ NextFan("ticketing")
    BY <1>5 DEF EmitCrm
  <2> QED
    BY <1>4, <1>5, <2>2, <2>3, EmittersKeep DEF Successive
<1>6. CASE EmitEmail
  <2>1. PICK c, d, t, u : EmailAdds(c, d, t, u)
    BY <1>6, EmailEffect
  <2>2. /\ truth' = truth \cup {t, u}
        /\ t.source = "email" /\ t.entity = at /\ u.entity = at
    BY <2>1 DEF EmailAdds, OneOrTwo, Tells
  <2>3. pc = "email" /\ NextFan("events")
    BY <1>6 DEF EmitEmail
  <2> QED
    BY <1>4, <1>6, <2>2, <2>3, EmittersKeep DEF Successive
<1>7. CASE EmitTicketing
  <2>1. PICK o, t : TicketingAdds(o, t)
    BY <1>7, TicketingEffect
  <2>2. truth' = truth \cup {t, t} /\ t.source = "ticketing" /\ t.entity = at
    BY <2>1 DEF TicketingAdds, Tells
  <2>3. pc = "ticketing" /\ (NextFan("merch") \/ UNCHANGED <<pc, at>>)
    BY <1>7 DEF EmitTicketing, NextOrder
  <2> QED
    BY <1>4, <1>7, <2>2, <2>3, EmittersKeep DEF Successive
<1>8. CASE EmitMerch
  <2>1. PICK S, t : MerchAdds(S, t)
    BY <1>8, MerchEffect
  <2>2. truth' = truth \cup {t, t} /\ t.source = "merch" /\ t.entity = at
    BY <2>1 DEF MerchAdds, Tells
  <2>3. pc = "merch" /\ (NextFan("email") \/ UNCHANGED <<pc, at>>)
    BY <1>8 DEF EmitMerch, NextOrder
  <2> QED
    BY <1>4, <1>8, <2>2, <2>3, EmittersKeep DEF Successive
<1>9. CASE EmitEvents \/ EventsDone \/ WriteFiles \/ UNCHANGED gvars
  <2>1. /\ UNCHANGED <<fans, fixtures, truth>>
        /\ \/ pc \in {"events", "write"} /\ pc' \in {"events", "write", "done"}
           \/ UNCHANGED <<pc, at>>
    BY <1>9 DEF EmitEvents, EventsDone, WriteFiles, gvars, emitted
  <2>2. ASSUME NEW k \in 1 .. Len(fans), NEW s \in fans[k].systems, Past(s, k)'
        PROVE  Past(s, k)
    <3>0. fans[k] \in Fan
      BY ElementOfSeq DEF FansInv, FansOK
    <3>1. s \in Systems
      BY <2>2, <3>0 DEF Fan
    <3> QED
      BY <2>1, <2>2, <3>1 DEF Past, Rank, Systems
  <2> QED
    BY <2>1, <2>2 DEF FansCovered, Past
<1> QED
  <2>1. CASE \/ Skips("crm", "ticketing") \/ Skips("ticketing", "merch")
             \/ Skips("merch", "email") \/ Skips("email", "events")
    BY <1>3, <2>1 DEF Successive
  <2> QED
    BY <1>1, <1>2, <1>5, <1>6, <1>7, <1>8, <1>9, <2>1 DEF GNext

-----------------------------------------------------------------------------
(***************************************************************************)
(* The files.                                                              *)
(***************************************************************************)

(* What is left to do after the first of it. *)
LEMMA TodoTail ==
  ASSUME NEW S, todo \in Seq(S), todo # <<>>, todo' = Tail(todo)
  PROVE  /\ Head(todo) \in S /\ todo' \in Seq(S)
         /\ TodoSet = {Head(todo)} \cup TodoSet'
         /\ NoRepeats => NoRepeats' /\ Head(todo) \notin TodoSet'
         /\ todo' = <<>> => TodoSet' = {}
<1>1. /\ Head(todo) \in S /\ todo' \in Seq(S) /\ Len(todo') = Len(todo) - 1
      /\ \A k \in 1 .. Len(todo') : todo'[k] = todo[k + 1]
      /\ Head(todo) = todo[1]
  BY HeadTailProperties
<1>2. /\ Len(todo) \in Nat \ {0} /\ DOMAIN todo = 1 .. Len(todo)
      /\ DOMAIN todo' = 1 .. Len(todo') /\ Len(todo') \in Nat
  BY <1>1, LenProperties, EmptySeq
<1>3. TodoSet = {Head(todo)} \cup TodoSet'
  <2>1. \A k \in 1 .. Len(todo) : k = 1 \/ k - 1 \in 1 .. Len(todo')
    BY <1>1, <1>2
  <2>2. \A k \in 1 .. Len(todo) : todo[k] = Head(todo) \/ todo[k] = todo'[k - 1]
    BY <1>1, <1>2, <2>1
  <2>3. \A k \in 1 .. Len(todo') : k + 1 \in 1 .. Len(todo)
    BY <1>1, <1>2
  <2>4. TodoSet = {todo[k] : k \in 1 .. Len(todo)} /\ TodoSet' = {todo'[k] : k \in 1 .. Len(todo')}
    BY <1>2 DEF TodoSet
  <2>5. TodoSet \subseteq {Head(todo)} \cup TodoSet'
    BY <2>1, <2>2, <2>4
  <2>6. Head(todo) \in TodoSet
    <3>1. 1 \in 1 .. Len(todo)
      BY <1>2
    <3> QED
      BY <1>1, <2>4, <3>1
  <2>7. TodoSet' \subseteq TodoSet
    <3>1. \A k \in 1 .. Len(todo') : todo'[k] \in TodoSet
      BY <1>1, <2>3, <2>4
    <3> QED
      BY <2>4, <3>1
  <2> QED
    BY <2>5, <2>6, <2>7
<1>4. ASSUME NoRepeats
      PROVE  NoRepeats' /\ Head(todo) \notin TodoSet'
  <2>1. \A k \in 1 .. Len(todo') : k + 1 \in DOMAIN todo /\ k + 1 # 1 /\ 1 \in DOMAIN todo
    BY <1>1, <1>2
  <2>2. \A k, l \in 1 .. Len(todo') : todo'[k] = todo'[l] => k = l
    BY <1>1, <1>2, <1>4, <2>1 DEF NoRepeats
  <2>3. \A k \in 1 .. Len(todo') : todo'[k] # Head(todo)
    BY <1>1, <1>4, <2>1 DEF NoRepeats
  <2> QED
    BY <1>2, <2>2, <2>3 DEF NoRepeats, TodoSet
<1>5. todo' = <<>> => TodoSet' = {}
  BY DEF TodoSet
<1> QED
  BY <1>1, <1>3, <1>4, <1>5

(* The files of a kind carry its name and the number of the generation.     *)
LEMMA NewFilesShape ==
  ASSUME NEW kind \in Kinds, NEW f \in DOMAIN NewFiles(kind)
  PROVE  f.kind = kind /\ NewFiles(kind)[f].gen = gen
BY DEF NewFiles, Batched, Kinds

LEMMA NewFilesStay ==
  ASSUME UNCHANGED <<gen, emitted>>
  PROVE  \A kind : NewFiles(kind)' = NewFiles(kind)
BY DEF NewFiles, Rows, Written, ZipColumn, MonthOf, emitted

(* The writing puts the files of one more kind beside the others.           *)
LEMMA WriteOne ==
  ASSUME DiskInv, WriteFiles
  PROVE  DiskInv'
<1> DEFINE kind == Head(todo)
<1>1. /\ pc = "write" /\ disk' = Over(NewFiles(kind)) /\ todo' = Tail(todo)
      /\ pc' = IF todo' = <<>> THEN "done" ELSE pc
      /\ UNCHANGED <<gen, emitted>>
  BY DEF WriteFiles
<1>2. /\ todo \in Seq(Kinds) /\ todo # <<>> /\ NoRepeats
      /\ DOMAIN disk = UNION {DOMAIN NewFiles(k) : k \in Kinds \ TodoSet}
      /\ \A f \in DOMAIN disk : disk[f] = NewFiles(f.kind)[f]
  BY <1>1 DEF DiskInv
<1>3. /\ kind \in Kinds /\ todo' \in Seq(Kinds) /\ NoRepeats'
      /\ TodoSet = {kind} \cup TodoSet' /\ kind \notin TodoSet'
      /\ todo' = <<>> => TodoSet' = {}
  BY <1>1, <1>2, TodoTail
<1>4. Kinds \ TodoSet' = (Kinds \ TodoSet) \cup {kind}
  BY <1>3
<1>5. \A k : NewFiles(k)' = NewFiles(k)
  BY <1>1, NewFilesStay
<1> HIDE DEF kind
<1>6. DOMAIN disk' = DOMAIN NewFiles(kind) \cup DOMAIN disk
  BY <1>1 DEF Over
<1>7. DOMAIN disk' = UNION {DOMAIN NewFiles(k) : k \in Kinds \ TodoSet'}
  BY <1>2, <1>4, <1>6
<1>8. ASSUME NEW f \in DOMAIN disk'
      PROVE  f.kind \in Kinds /\ disk'[f] = NewFiles(f.kind)[f] /\ disk'[f].gen = gen
  <2>1. CASE f \in DOMAIN NewFiles(kind)
    <3>1. disk'[f] = NewFiles(kind)[f]
      BY <1>1, <2>1 DEF Over
    <3> QED
      BY <1>3, <2>1, <3>1, NewFilesShape
  <2>2. CASE f \notin DOMAIN NewFiles(kind)
    <3>1. f \in DOMAIN disk /\ disk'[f] = disk[f]
      BY <1>1, <1>6, <1>8, <2>2 DEF Over
    <3>2. PICK k \in Kinds : f \in DOMAIN NewFiles(k)
      BY <1>2, <3>1
    <3>3. f.kind = k /\ NewFiles(k)[f].gen = gen
      BY <3>2, NewFilesShape
    <3> QED
      BY <1>2, <3>1, <3>3
  <2> QED
    BY <2>1, <2>2
<1>9. \A f \in DOMAIN disk' : disk'[f] = NewFiles(f.kind)'[f]
  BY <1>5, <1>8
<1>10. DOMAIN disk' = UNION {DOMAIN NewFiles(k)' : k \in Kinds \ TodoSet'}
  BY <1>5, <1>7
<1>11. (\A f \in DOMAIN disk : disk[f] = NewFiles(f.kind)[f])'
  BY <1>9
<1>12. (DOMAIN disk = UNION {DOMAIN NewFiles(k) : k \in Kinds \ TodoSet})'
  BY <1>10
<1>13. pc' \in {"write", "done"} /\ (pc' = "write" => todo' # <<>>) /\ (pc' = "done" => todo' = <<>>)
  BY <1>1
<1> QED
  BY <1>3, <1>8, <1>11, <1>12, <1>13 DEF DiskInv, Systems

LEMMA NextDisk ==
  ASSUME ~StuckFiles, FansInv, DiskInv, [GNext]_gvars
  PROVE  DiskInv'
<1>1. CASE Generate
  <2>1. /\ pc' = "clear" /\ disk' = disk /\ todo' = <<"dropzone", "sfmock", "truth">>
    BY <1>1 DEF Generate
  <2>2. todo' \in Seq({"dropzone", "sfmock", "truth"}) /\ todo' # <<>>
    BY <2>1
  <2>3. {"dropzone", "sfmock", "truth"} \subseteq TodoSet'
    <3>1. /\ 1 \in DOMAIN todo' /\ 2 \in DOMAIN todo' /\ 3 \in DOMAIN todo'
          /\ todo'[1] = "dropzone" /\ todo'[2] = "sfmock" /\ todo'[3] = "truth"
      BY <2>1
    <3> QED
      BY <3>1 DEF TodoSet
  <2>4. \A f \in DOMAIN disk : DirOf(f.kind) \in TodoSet'
    BY <2>3 DEF DiskInv, DirOf
  <2> QED
    BY <2>1, <2>2, <2>4 DEF DiskInv, Systems
<1>2. CASE ClearDir
  <2>1. /\ pc = "clear" /\ todo' = Tail(todo) /\ disk' = Cleared(Head(todo), {})
        /\ pc' = IF todo' = <<>> THEN "population" ELSE pc
    BY <1>2 DEF ClearDir, Stuck
  <2>2. /\ todo' \in Seq({"dropzone", "sfmock", "truth"})
        /\ TodoSet = {Head(todo)} \cup TodoSet' /\ (todo' = <<>> => TodoSet' = {})
    BY <2>1, TodoTail DEF DiskInv
  <2>3. \A f \in DOMAIN disk' : /\ f \in DOMAIN disk /\ disk'[f] = disk[f]
                                /\ DirOf(f.kind) # Head(todo)
    BY <2>1 DEF Cleared
  <2>4. \A f \in DOMAIN disk' : DirOf(f.kind) \in TodoSet'
    BY <2>1, <2>2, <2>3 DEF DiskInv
  <2>5. todo' = <<>> => DOMAIN disk' = {}
    BY <2>2, <2>4
  <2> QED
    BY <2>1, <2>2, <2>3, <2>4, <2>5 DEF DiskInv, Systems
<1>3. CASE Kill
  BY <1>3 DEF Kill, DiskInv, Systems
<1>4. CASE WriteFiles
  BY <1>4, WriteOne
<1>5. CASE EventsDone
  <2>1. /\ pc = "events" /\ pc' = "write" /\ disk' = disk
        /\ todo' = <<"contacts", "opportunities", "ticketing", "merch", "subscribers", "events",
                     "fixtures", "record_map">>
    BY <1>5 DEF EventsDone
  <2>2. todo' \in Seq(Kinds) /\ todo' # <<>> /\ DOMAIN todo' = 1 .. 8
    BY <2>1 DEF Kinds
  <2>3. NoRepeats' /\ Kinds \subseteq TodoSet'
    BY <2>1, <2>2 DEF NoRepeats, TodoSet, Kinds
  <2>4. DOMAIN disk = {}
    BY <2>1 DEF DiskInv
  <2>5. Kinds \ TodoSet' = {}
    BY <2>3
  <2>6. (DOMAIN disk = UNION {DOMAIN NewFiles(k) : k \in Kinds \ TodoSet})'
    BY <2>1, <2>4, <2>5
  <2> QED
    BY <2>1, <2>2, <2>3, <2>4, <2>6 DEF DiskInv, Systems
<1>6. CASE /\ pc \in {"population", "events"} \cup Systems
           /\ pc' \in {"population", "events"} \cup Systems /\ disk' = disk
  BY <1>6 DEF DiskInv, Systems
<1>7. CASE UNCHANGED gvars
  <2>1. \A k : NewFiles(k)' = NewFiles(k)
    BY <1>7, NewFilesStay DEF gvars
  <2>2. UNCHANGED <<pc, todo, disk>> /\ TodoSet' = TodoSet /\ (NoRepeats <=> NoRepeats')
    BY <1>7 DEF gvars, TodoSet, NoRepeats
  <2> QED
    BY <2>1, <2>2 DEF DiskInv
<1> QED
  <2>1. ASSUME NEW source \in Systems, NEW next \in {"ticketing", "merch", "email", "events"},
               pc = source, NextFan(next) \/ UNCHANGED pc, disk' = disk
        PROVE  DiskInv'
    BY <1>6, <2>1 DEF NextFan, Systems
  <2>2. CASE \/ Skips("crm", "ticketing") \/ Skips("ticketing", "merch")
             \/ Skips("merch", "email") \/ Skips("email", "events")
    BY <2>1, <2>2 DEF Skips, Systems
  <2>3. CASE EmitCrm \/ EmitTicketing \/ EmitMerch \/ EmitEmail
    BY <2>1, <2>3 DEF EmitCrm, EmitTicketing, EmitMerch, EmitEmail, NextOrder, Systems
  <2>4. CASE BuildPopulation \/ EmitFixtures \/ EmitEvents
    BY <1>6, <2>4 DEF BuildPopulation, EmitFixtures, EmitEvents, Systems
  <2> QED
    BY <1>1, <1>2, <1>3, <1>4, <1>5, <1>7, <2>2, <2>3, <2>4 DEF GNext

(* When all is written, the files of a kind hold its rows, each in one.     *)
LEMMA AllWritten ==
  ASSUME DiskInv, ZipsFit, pc = "done", NEW kind \in Kinds
  PROVE  /\ OnDisk(kind) = Rows(kind)
         /\ \A f, g \in DOMAIN disk :
              f.kind = kind /\ g.kind = kind /\ f # g => disk[f].rows \cap disk[g].rows = {}
<1> DEFINE files == DOMAIN NewFiles(kind)
<1>1. {g \in DOMAIN disk : g.kind = kind} = files
  <2>1. TodoSet = {}
    BY DEF DiskInv, TodoSet
  <2>2. DOMAIN disk = UNION {DOMAIN NewFiles(k) : k \in Kinds}
    BY <2>1 DEF DiskInv
  <2>3. \A k \in Kinds : \A f \in DOMAIN NewFiles(k) : f.kind = k
    BY NewFilesShape
  <2> QED
    BY <2>2, <2>3
<1>2. \A f \in files : disk[f] = NewFiles(kind)[f]
  BY <1>1 DEF DiskInv
<1>3. \A r \in Rows(kind) : Written(kind, r) = r
  BY DEF Written, ZipsFit, Rows
<1>4. CASE kind \in Batched
  <2>1. files = {[kind |-> kind, month |-> r.month] : r \in Rows(kind)}
    BY <1>4 DEF NewFiles
  <2>2. \A f \in files : disk[f].rows =
          {Written(kind, r) : r \in {q \in Rows(kind) : q.month = f.month}}
    <3> DEFINE FileRows(f) == {Written(kind, r) : r \in {q \in Rows(kind) : q.month = f.month}}
    <3>1. NewFiles(kind) = [f \in files |-> [gen |-> gen, rows |-> FileRows(f)]]
      BY <1>4, <2>1 DEF NewFiles
    <3> HIDE DEF files, FileRows
    <3>2. \A f \in files : NewFiles(kind)[f].rows = FileRows(f)
      BY <3>1
    <3>3. \A f \in files : disk[f].rows = FileRows(f)
      BY <1>2, <3>2
    <3> QED
      BY <3>3 DEF FileRows
  <2>3. \A f \in files : disk[f].rows = {q \in Rows(kind) : q.month = f.month}
    BY <1>3, <2>2
  <2>4. \A f, g \in files : f # g => f.month # g.month
    BY <2>1
  <2>5. \A r \in Rows(kind) : \E f \in files : f.month = r.month
    <3>1. \A r \in Rows(kind) : [kind |-> kind, month |-> r.month] \in files
      BY <2>1
    <3> HIDE DEF files
    <3>2. \A r \in Rows(kind) : [kind |-> kind, month |-> r.month].month = r.month
      OBVIOUS
    <3> QED
      BY <3>1, <3>2
  <2>6. OnDisk(kind) = UNION {disk[f].rows : f \in files}
    BY <1>1 DEF OnDisk
  <2> HIDE DEF files
  <2>7. OnDisk(kind) = Rows(kind)
    BY <2>3, <2>5, <2>6
  <2>8. \A f, g \in files : f # g => disk[f].rows \cap disk[g].rows = {}
    BY <2>3, <2>4
  <2> QED
    BY <1>1, <2>7, <2>8
<1>5. CASE kind \notin Batched
  <2>1. files = {[kind |-> kind, month |-> 0]}
    BY <1>5 DEF NewFiles
  <2>2. \A f \in files : disk[f].rows = Rows(kind)
    BY <1>2, <1>5 DEF NewFiles
  <2>3. OnDisk(kind) = UNION {disk[f].rows : f \in files}
    BY <1>1 DEF OnDisk
  <2> QED
    BY <1>1, <2>1, <2>2, <2>3
<1> QED
  BY <1>4, <1>5

LEMMA DiskIsOneGeneration ==
  ASSUME DiskInv, ZipsFit
  PROVE  OneGeneration
BY AllWritten DEF OneGeneration, DiskInv, Kinds

(* What holds in memory holds of the files, once they are all written.      *)
LEMMA DoneIsCovered ==
  ASSUME FansInv, RecordsInv, FansCovered, Referred, ZipsFit, DiskInv
  PROVE  TruthCoversRecords
<1> SUFFICES ASSUME pc = "done"
             PROVE  TruthCoversRecords
  BY DEF TruthCoversRecords
<1>1. /\ OnDisk("record_map") = truth /\ OnDisk("contacts") = contacts
      /\ OnDisk("opportunities") = opportunities /\ OnDisk("ticketing") = orders
      /\ OnDisk("merch") = items /\ OnDisk("subscribers") = subscribers
      /\ OnDisk("events") = events /\ OnDisk("fixtures") = fixtures
  BY AllWritten DEF Rows, Kinds
<1>2. /\ TruthIds("crm") = {c.id : c \in contacts}
      /\ TruthIds("ticketing") = {o.id : o \in orders}
      /\ TruthIds("merch") = {i.order : i \in items}
      /\ TruthIds("email") = {s.id : s \in subscribers}
  BY DEF RecordsInv, Numbered, OrdersOf
<1>3. ASSUME fixtures # {}
      PROVE  {t.entity : t \in truth} = 1 .. Len(fans)
  <2>1. \A t \in truth : t.entity \in 1 .. Len(fans)
    BY DEF FansCovered
  <2>2. ASSUME NEW k \in 1 .. Len(fans)
        PROVE  \E t \in truth : t.entity = k
    <3>1. fans[k] \in Fan /\ fans[k].systems # {}
      BY ElementOfSeq, LenProperties DEF FansInv, FansOK
    <3>2. PICK s \in fans[k].systems : s \in Systems
      BY <3>1 DEF Fan
    <3>3. Past(s, k)
      BY <3>2 DEF Past, Rank, Systems
    <3> QED
      BY <1>3, <3>2, <3>3 DEF FansCovered
  <2> QED
    BY <2>1, <2>2
<1>4. \A t, u \in truth : t.source = u.source /\ t.id = u.id => t = u
  BY DEF RecordsInv, OnePerId
<1> QED
  BY <1>1, <1>2, <1>3, <1>4 DEF TruthCoversRecords, TruthIds, IdsIn, Referred

-----------------------------------------------------------------------------
(***************************************************************************)
(* The theorems.                                                           *)
(***************************************************************************)

LEMMA AssumptionsHold == Assumptions
BY DriftAssumption, PeopleAssumption, DrawAssumption DEF Assumptions

(* Before the first call there is nothing in memory and nothing on disk.    *)
LEMMA InitGenerator ==
  GInit => /\ FansInv /\ UpdatesAreStamped /\ Tagged /\ RecordsInv /\ FansCovered
           /\ Referred /\ ZipsFit /\ DiskInv
<1> SUFFICES ASSUME GInit
             PROVE  /\ FansInv /\ UpdatesAreStamped /\ Tagged /\ RecordsInv /\ FansCovered
                    /\ Referred /\ ZipsFit /\ DiskInv
  OBVIOUS
<1>1. FansInv
  BY InitFans, AssumptionsHold
<1>2. NothingEmitted /\ Len(fans) = 0 /\ DOMAIN disk = {} /\ pc = "idle"
  BY DEF GInit, NothingEmitted
<1>3. IsFiniteSet({}) /\ Cardinality({}) = 0 /\ 1 .. 0 = {}
  BY FS_EmptySet
<1>4. Numbered({}) /\ OrdersOf({}) = {} /\ (\A s : IdsIn({}, s) = {}) /\ OnePerId({})
  BY <1>3 DEF Numbered, OrdersOf, IdsIn, OnePerId
<1>5. RecordsInv
  BY <1>2, <1>3, <1>4 DEF NothingEmitted, RecordsInv, TruthIds
<1>6. UpdatesAreStamped /\ Tagged /\ Referred /\ ZipsFit
  BY <1>2 DEF NothingEmitted, UpdatesAreStamped, Tagged, Referred, ZipsFit
<1>7. FansCovered
  BY <1>2 DEF NothingEmitted, FansCovered
<1>8. DiskInv
  BY <1>2 DEF DiskInv, Systems
<1> QED
  BY <1>1, <1>5, <1>6, <1>7, <1>8

(* A contact that shows a later address was stamped on the day its fan got   *)
(* it, or after that, for every population and window: what an incremental   *)
(* extract of the mock keys on (sources.py, emit_crm).                      *)
THEOREM UpdatesStamped == GSpec => []UpdatesAreStamped
<1>1. FansInv /\ UpdatesAreStamped /\ [GNext]_gvars => (FansInv /\ UpdatesAreStamped)'
  BY NextFans, NextStamps, AssumptionsHold
<1> QED
  BY <1>1, InitGenerator, PTL DEF GSpec

(* What a record shows is in the tags of its row, whatever is drawn, and a   *)
(* row is tagged for an old address only where the record shows it or that   *)
(* of the household (mess.py, person_view; sources.py).                     *)
THEOREM MessTagged == GSpec => []MessIsTagged
<1>1. FansInv /\ Tagged /\ [GNext]_gvars => (FansInv /\ Tagged)'
  BY NextFans, NextTagged, AssumptionsHold
<1> QED
  BY <1>1, InitGenerator, TaggedIsMess, PTL DEF GSpec

(* The files are those of one generation, and at the end all of it, wherever *)
(* earlier calls were killed, if rmtree removes what it is given (run.py,   *)
(* generate).                                                               *)
THEOREM OneGenerationKept ==
  ASSUME ~StuckFiles
  PROVE  GSpec => []OneGeneration
<1>1. FansInv /\ ZipsFit /\ DiskInv /\ [GNext]_gvars => (FansInv /\ ZipsFit /\ DiskInv)'
  BY NextFans, NextZips, NextDisk, AssumptionsHold
<1>2. ZipsFit /\ DiskInv => OneGeneration
  BY DiskIsOneGeneration
<1> QED
  BY <1>1, <1>2, InitGenerator, PTL DEF GSpec

(* The files of a finished call map every record to its fan, and each fan   *)
(* has one, if rmtree removes what it is given (run.py, generate;           *)
(* sources.py, the emitters).                                               *)
THEOREM TruthCovers ==
  ASSUME ~StuckFiles
  PROVE  GSpec => []TruthCoversRecords
<1> DEFINE Inv == /\ FansInv /\ RecordsInv /\ FansCovered /\ Referred /\ ZipsFit /\ DiskInv
<1>1. Inv /\ [GNext]_gvars => Inv'
  BY NextFans, NextRecords, NextCovered, NextReferred, NextZips, NextDisk, AssumptionsHold
<1>2. Inv => TruthCoversRecords
  BY DoneIsCovered
<1>3. GInit => Inv
  BY InitGenerator
<1> QED
  BY <1>1, <1>2, <1>3, PTL DEF GSpec
=============================================================================
