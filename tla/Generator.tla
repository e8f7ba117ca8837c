----------------------------- MODULE Generator -----------------------------
(***************************************************************************)
(* src/fanuni/generator: the source files and their ground truth.          *)
(*                                                                         *)
(* generate clears its output directories, draws the fans, emits the       *)
(* records of each source fan by fan, and writes file after file, the      *)
(* truth last; it may be killed anywhere and called again with another     *)
(* configuration.  A draw of the seeded random numbers is any value the    *)
(* code can draw.  Days are numbers.  A timestamp is its day: the time of   *)
(* day is drawn for each on its own (sources.py _ts) and nothing here is    *)
(* about it.  Of a person a record holds which of the addresses it shows    *)
(* and where it has a typo; names, prices and the other mess touch nothing  *)
(* else and are left out.                                                   *)
(***************************************************************************)
EXTENDS Integers, Sequences, FiniteSets

CONSTANTS
  NFans,        \* GenConfig.fans
  People,       \* the fans that may be drawn: [since, change, systems]
  WindowStart, WindowEnd, MonthDays, DriftFrom,
  Typos,        \* where a typo may be: "none", "name", "email"
  MatchDays,    \* the days a match may be on
  Lates,        \* the delays of a late delivery
  EventDays,    \* an event occurs so many days after its campaign at most
  SaleDays,     \* an order is made so many days before the match at most
  ItemCounts,   \* the rows of a merch order
  StuckFiles,   \* rmtree may leave files behind
  MaxRecords, MaxHousehold, MaxReached, MaxGenerations

Window == WindowStart .. WindowEnd
MonthOf(d) == d \div MonthDays  \* month_key
Months == {MonthOf(d) : d \in Window}
FirstDay(m) == m * MonthDays

(* merch_drift_from is "the month (inclusive) from which the merch export  *)
(* schema drifts" (model.py), so it is the first day of one.               *)
ASSUME DriftAssumption ==
  /\ MonthDays \in Nat \ {0} /\ MonthOf(WindowStart) = 1
  /\ DriftFrom \in Nat /\ DriftFrom % MonthDays = 0

(* TrueFan: a fan has a first system, has been a fan since some day up to   *)
(* the end of the window, and changes the address in it or never (0).       *)
Systems == {"crm", "ticketing", "merch", "email"}

ASSUME PeopleAssumption ==
  \A p \in People : /\ p.systems \subseteq Systems /\ p.systems # {}
                    /\ p.since \in 0 .. WindowEnd /\ p.change \in Window \cup {0}

ASSUME DrawAssumption ==
  /\ WindowStart \in Nat /\ WindowEnd \in Nat
  /\ NFans \in Nat \ {0} /\ MaxHousehold \in Nat /\ SaleDays \in Nat
  /\ MatchDays \subseteq Nat /\ Lates \subseteq Nat /\ ItemCounts \subseteq Nat \ {0}
  /\ StuckFiles \in BOOLEAN

VARIABLES
  pc,         \* what generate does next; "idle" before and after a kill
  gen,        \* how often it was called
  fans,       \* build_population
  households, \* the number of households
  at,         \* the fan, or the month, whose records are emitted next
  fixtures,   \* the match days
  contacts, opportunities, orders, items, subscribers, events,
  truth,      \* the rows of record_map.csv
  todo,       \* the directories to clear, or the kinds of file to write
  disk        \* the files: [kind, month] -> [gen, rows]

emitted ==
  <<fixtures, contacts, opportunities, orders, items, subscribers, events, truth>>
gvars == <<pc, gen, fans, households, at, emitted, todo, disk>>

-----------------------------------------------------------------------------
(* How a record sees a fan (mess.py person_view). *)

(* email_at: the address in force on a day. *)
EmailAt(fan, on) == IF fan.change # 0 /\ fan.change <= on THEN "new" ELSE "first"
CurrentEmail(fan) == IF fan.change # 0 THEN "new" ELSE "first"

Tag(tag, applies) == IF applies THEN {tag} ELSE {}

BugTags(stale, shared, typo) ==
  IF shared THEN {"shared_email"} ELSE Tag("stale_email", stale)

Tags(stale, shared, typo) ==
  Tag("stale_email", stale) \cup Tag("shared_email", shared)
    \cup Tag("typo", typo # "none")

(* typo may give a name or an address back as it was -- one of less than    *)
(* four letters, two equal letters swapped --; the tag is there all the     *)
(* same.                                                                    *)
PersonViews(fan, on, household) ==
  {[address |-> IF shared THEN "household" ELSE EmailAt(fan, on),
    typo |-> IF seen THEN typo ELSE "none",
    tags |-> Tags(EmailAt(fan, on) # CurrentEmail(fan), shared, typo)] :
     shared \in {FALSE} \cup {h \in {TRUE} : household /\ fan.household # 0},
     typo \in Typos, seen \in BOOLEAN}

RandDates(start, end) == IF end < start THEN {start} ELSE start .. end

Later(d, e) == IF d < e THEN e ELSE d
Earlier(d, e) == IF d < e THEN d ELSE e

TruthRow(source, id, tags) ==
  [source |-> source, id |-> id, entity |-> at, tags |-> tags]

(* A fan gets one record more in a source only while there are few, so that *)
(* TLC ends.                                                                *)
Few == Cardinality(truth) + 2 <= MaxRecords

-----------------------------------------------------------------------------
(* The beginning: clear, and draw the fans and the fixtures. *)

Blank ==
  /\ fans' = <<>> /\ households' = 0 /\ at' = 1
  /\ fixtures' = {} /\ contacts' = {} /\ opportunities' = {} /\ orders' = {}
  /\ items' = {} /\ subscribers' = {} /\ events' = {} /\ truth' = {}

GInit ==
  /\ pc = "idle" /\ gen = 0
  /\ fans = <<>> /\ households = 0 /\ at = 1
  /\ fixtures = {} /\ contacts = {} /\ opportunities = {} /\ orders = {}
  /\ items = {} /\ subscribers = {} /\ events = {} /\ truth = {}
  /\ todo = <<>> /\ disk = [f \in {} |-> 0]

Generate ==
  /\ pc \in {"idle", "done"} /\ gen < MaxGenerations
  /\ gen' = gen + 1
  /\ Blank
  /\ todo' = <<"dropzone", "sfmock", "truth">>
  /\ pc' = "clear"
  /\ UNCHANGED disk

DirOf(kind) ==
  CASE kind \in {"contacts", "opportunities"} -> "sfmock"
    [] kind = "record_map" -> "truth"
    [] OTHER -> "dropzone"

(* The files of the dropzone are in directories of their own, which rmtree  *)
(* removes without a word about what it could not.                          *)
Stuck(dir) == {f \in DOMAIN disk : StuckFiles /\ dir = "dropzone" /\ DirOf(f.kind) = dir}

Cleared(dir, kept) ==
  [f \in {g \in DOMAIN disk : DirOf(g.kind) # dir \/ g \in kept} |-> disk[f]]

ClearDir ==
  /\ pc = "clear"
  /\ \E kept \in SUBSET Stuck(Head(todo)) : disk' = Cleared(Head(todo), kept)
  /\ todo' = Tail(todo)
  /\ pc' = IF todo' = <<>> THEN "population" ELSE pc
  /\ UNCHANGED <<gen, fans, households, at, emitted>>

(* A household of two or three, or a fan on their own. *)
BuildPopulation ==
  /\ pc = "population" /\ Len(fans) < NFans
  /\ \E size \in {1} \cup {k \in 2 .. MaxHousehold : Len(fans) + 2 <= NFans} :
       \E members \in [1 .. size -> People] :
         /\ fans' = fans \o [k \in 1 .. size |->
              [since |-> members[k].since, change |-> members[k].change,
               systems |-> members[k].systems,
               household |-> IF size = 1 THEN 0 ELSE households + 1]]
         /\ households' = households + (IF size = 1 THEN 0 ELSE 1)
  /\ UNCHANGED <<pc, gen, at, emitted, todo, disk>>

EmitFixtures ==
  /\ pc = "population" /\ Len(fans) >= NFans
  /\ fixtures' \in SUBSET MatchDays
  /\ pc' = "crm"
  /\ UNCHANGED <<gen, fans, households, at, contacts, opportunities, orders, items,
                 subscribers, events, truth, todo, disk>>

(* The loop over the fans: the next one, or the next source. *)
NextFan(source) ==
  IF at < Len(fans) THEN at' = at + 1 /\ UNCHANGED pc ELSE at' = 1 /\ pc' = source

In(source) == source \in fans[at].systems

Skips(source, next) ==
  /\ pc = source
  /\ ~In(source) \/ (source = "ticketing" /\ fixtures = {})
  /\ NextFan(next)
  /\ UNCHANGED <<gen, fans, households, emitted, todo, disk>>

-----------------------------------------------------------------------------
(* The sources. *)

(* The CRM contact, perhaps with a duplicate, and its memberships and       *)
(* donations, all of the first one.  createdOn and stampedOn are the days   *)
(* of CreatedDate and SystemModstamp: on one day the stamp may come first.  *)
BugModstamp(created, updates, change) == created

Modstamp(created, updates, change) ==
  IF updates /\ change > created THEN change ELSE created

EmitCrm ==
  LET fan == fans[at]
      n == Cardinality(contacts)
  IN /\ pc = "crm" /\ In("crm")
     /\ \E created \in RandDates(Later(fan.since, WindowStart), WindowEnd),
           updates \in {FALSE} \cup {u \in {TRUE} : fan.change # 0},
           dup \in {FALSE} \cup {d \in {TRUE} : Few} :
        LET on == IF updates THEN WindowEnd ELSE created
            stamp == Modstamp(created, updates, fan.change)
            Contact(id, view, day) ==
              [id |-> id, address |-> view.address, typo |-> view.typo,
               createdOn |-> day, stampedOn |-> Later(stamp, day)]
        IN \E view, again \in PersonViews(fan, on, FALSE),
              day \in RandDates(created, WindowEnd) :
             /\ ~dup => again = view /\ day = created
             /\ contacts' = contacts \cup {Contact(n + 1, view, created)}
                  \cup (IF dup THEN {Contact(n + 2, again, day)} ELSE {})
             /\ truth' = truth \cup {TruthRow("crm", n + 1, view.tags)}
                  \cup (IF dup THEN {TruthRow("crm", n + 2,
                                       again.tags \cup {"within_source_dup"})} ELSE {})
     /\ \E given \in BOOLEAN :
          opportunities' = opportunities \cup (IF given THEN {[contact |-> n + 1]} ELSE {})
     /\ NextFan("ticketing")
     /\ UNCHANGED <<gen, fans, households, fixtures, orders, items, subscribers, events,
                    todo, disk>>

(* A fan makes one order or more: the next order is theirs as well, or the  *)
(* next fan's.                                                              *)
NextOrder(next) ==
  \/ Few /\ UNCHANGED <<pc, at>>
  \/ NextFan(next)

EmitTicketing ==
  LET n == Cardinality(orders)
  IN /\ pc = "ticketing" /\ In("ticketing")
     /\ \E match \in fixtures, late \in {0} \cup Lates :
        \E day \in Later(WindowStart, match - SaleDays) .. match :
        \E view \in PersonViews(fans[at], day, TRUE) :
          /\ orders' = orders \cup {[id |-> n + 1, match |-> match, address |-> view.address,
                                    typo |-> view.typo, month |-> MonthOf(day + late)]}
          /\ truth' = truth \cup {TruthRow("ticketing", n + 1,
                                    view.tags \cup Tag("late_arrival", late # 0))}
     /\ NextOrder("merch")
     /\ UNCHANGED <<gen, fans, households, fixtures, contacts, opportunities, items,
                    subscribers, events, todo, disk>>

(* A merch order is several rows; their zip has a column by the day.        *)
EmitMerch ==
  LET n == Cardinality({i.order : i \in items})
  IN /\ pc = "merch" /\ In("merch")
     /\ \E day \in Window, rows \in ItemCounts : \E view \in PersonViews(fans[at], day, TRUE) :
          /\ items' = items \cup
               {[order |-> n + 1, item |-> k, address |-> view.address, typo |-> view.typo,
                 month |-> MonthOf(day),
                 zip |-> IF day >= DriftFrom THEN "billing_postal_code" ELSE "billing_zip"]
                  : k \in 1 .. rows}
          /\ truth' = truth \cup {TruthRow("merch", n + 1, view.tags)}
     /\ NextOrder("email")
     /\ UNCHANGED <<gen, fans, households, fixtures, contacts, opportunities, orders,
                    subscribers, events, todo, disk>>

(* The subscriber, and perhaps a second one after an email change, whose    *)
(* record shows the new address whatever the view has.                      *)
EmitEmail ==
  LET fan == fans[at]
      n == Cardinality(subscribers)
      Subscriber(id, view, day, on) ==
        [id |-> id, address |-> view.address, typo |-> view.typo, signup |-> day,
         subscribed |-> on, month |-> MonthOf(Later(day, WindowStart))]
  IN /\ pc = "email" /\ In("email")
     /\ \E signup \in RandDates(fan.since, WindowEnd), on \in BOOLEAN :
        \E view \in PersonViews(fan, signup, FALSE) :
        \E again \in {{}} \cup {{d} : d \in {d \in RandDates(fan.change, WindowEnd) :
                                              Few /\ fan.change > signup}} :
        \E on2 \in BOOLEAN, views \in [again -> UNION {PersonViews(fan, d, FALSE) : d \in Window}] :
          /\ again = {} => on2 = on
          /\ \A d \in again : views[d] \in PersonViews(fan, d, FALSE)
          /\ subscribers' = subscribers \cup {Subscriber(n + 1, view, signup, on)}
               \cup {Subscriber(n + 2, [views[d] EXCEPT !.address = "new",
                        !.typo = IF @ = "email" THEN "none" ELSE @], d, on2) : d \in again}
          /\ truth' = truth \cup {TruthRow("email", n + 1, view.tags)}
               \cup {TruthRow("email", n + 2, views[d].tags \cup {"resubscribed_new_email"})
                       : d \in again}
     /\ NextFan("events")
     /\ UNCHANGED <<gen, fans, households, fixtures, contacts, opportunities, orders, items,
                    events, todo, disk>>

(* One campaign a month, to some of the subscribers of its day; an event    *)
(* occurs a few days later, perhaps in another month.                       *)
BugReached(s, sent) == s.subscribed
Reached(s, sent) == s.subscribed /\ s.signup <= sent

EmitEvents ==
  /\ pc = "events" /\ at \in Months
  /\ \E sent \in RandDates(FirstDay(at), Earlier(FirstDay(at + 1) - 1, WindowEnd)) :
     \E S \in {S \in SUBSET {s \in subscribers : Reached(s, sent)} :
                 Cardinality(S) <= MaxReached} :
     \E lag \in [S -> 0 .. EventDays] :
       events' = events \cup
         {[subscriber |-> s.id, campaign |-> at, sent |-> sent,
           month |-> MonthOf(sent + lag[s])] : s \in S}
  /\ at' = at + 1
  /\ UNCHANGED <<pc, gen, fans, households, fixtures, contacts, opportunities, orders,
                 items, subscribers, truth, todo, disk>>

-----------------------------------------------------------------------------
(* Writing. *)

EventsDone ==
  /\ pc = "events" /\ at \notin Months
  /\ todo' = <<"contacts", "opportunities", "ticketing", "merch", "subscribers", "events",
               "fixtures", "record_map">>
  /\ pc' = "write"
  /\ UNCHANGED <<gen, fans, households, at, emitted, disk>>

(* The rows of a kind, and the month of the file each belongs in. *)
Rows(kind) ==
  CASE kind = "contacts" -> contacts
    [] kind = "opportunities" -> opportunities
    [] kind = "ticketing" -> orders
    [] kind = "merch" -> items
    [] kind = "subscribers" -> subscribers
    [] kind = "events" -> events
    [] kind = "fixtures" -> fixtures
    [] kind = "record_map" -> truth

Batched == {"ticketing", "merch", "subscribers", "events"}

(* MERCH_COLUMNS_PRE_DRIFT and MERCH_COLUMNS_POST_DRIFT: the zip column of  *)
(* a file; DictWriter is given the value of that column only.               *)
BugZipColumn(month) ==
  IF month > MonthOf(DriftFrom) THEN "billing_postal_code" ELSE "billing_zip"

ZipColumn(month) ==
  IF month >= MonthOf(DriftFrom) THEN "billing_postal_code" ELSE "billing_zip"

Written(kind, row) ==
  IF kind = "merch" /\ row.zip # ZipColumn(row.month) THEN [row EXCEPT !.zip = "none"] ELSE row

NewFiles(kind) ==
  IF kind \in Batched
  THEN [f \in {[kind |-> kind, month |-> r.month] : r \in Rows(kind)} |->
          [gen |-> gen, rows |-> {Written(kind, r) : r \in {q \in Rows(kind) : q.month = f.month}}]]
  ELSE [f \in {[kind |-> kind, month |-> 0]} |-> [gen |-> gen, rows |-> Rows(kind)]]

(* A file is opened for writing: what it held is gone. *)
Over(new) ==
  [f \in DOMAIN new \cup DOMAIN disk |-> IF f \in DOMAIN new THEN new[f] ELSE disk[f]]

WriteFiles ==
  /\ pc = "write"
  /\ disk' = Over(NewFiles(Head(todo)))
  /\ todo' = Tail(todo)
  /\ pc' = IF todo' = <<>> THEN "done" ELSE pc
  /\ UNCHANGED <<gen, fans, households, at, emitted>>

Kill ==
  /\ pc \notin {"idle", "done"}
  /\ pc' = "idle" /\ todo' = <<>>
  /\ Blank
  /\ UNCHANGED <<gen, disk>>

GNext ==
  \/ Generate \/ ClearDir \/ BuildPopulation \/ EmitFixtures
  \/ EmitCrm \/ EmitTicketing \/ EmitMerch \/ EmitEmail
  \/ Skips("crm", "ticketing") \/ Skips("ticketing", "merch")
  \/ Skips("merch", "email") \/ Skips("email", "events")
  \/ EmitEvents \/ EventsDone \/ WriteFiles \/ Kill

GSpec == GInit /\ [][GNext]_gvars

-----------------------------------------------------------------------------
(* Correctness. *)

OnDisk(kind) == UNION {disk[f].rows : f \in {g \in DOMAIN disk : g.kind = kind}}

(* The directories never hold files of two generations side by side, and    *)
(* when generate is done they hold what it emitted, each row once and with  *)
(* its zip in a column of its file: the stale months of a larger earlier    *)
(* generation are gone (run.py:84), whatever was killed in between.         *)
OneGeneration ==
  /\ \A f, g \in DOMAIN disk : disk[f].gen = disk[g].gen
  /\ pc = "done" =>
       /\ \A kind \in {"contacts", "opportunities", "ticketing", "merch", "subscribers",
                        "events", "fixtures", "record_map"} :
            /\ OnDisk(kind) = Rows(kind)
            /\ \A f, g \in DOMAIN disk :
                 f.kind = kind /\ g.kind = kind /\ f # g => disk[f].rows \cap disk[g].rows = {}

(* "Every identity-bearing record gets a TruthRecord mapping it back to its *)
(* entity" (sources.py), exactly one, and there is no other; every entity   *)
(* has one, unless there is no match to buy a ticket for; and the rows that *)
(* carry no identity refer to records that were written.                    *)
TruthCoversRecords ==
  pc = "done" =>
    LET map == OnDisk("record_map")
        Ids(source) == {t.id : t \in {u \in map : u.source = source}}
    IN /\ \A t, u \in map : t.source = u.source /\ t.id = u.id => t = u
       /\ Ids("crm") = {c.id : c \in OnDisk("contacts")}
       /\ Ids("ticketing") = {o.id : o \in OnDisk("ticketing")}
       /\ Ids("merch") = {i.order : i \in OnDisk("merch")}
       /\ Ids("email") = {s.id : s \in OnDisk("subscribers")}
       /\ fixtures # {} => {t.entity : t \in map} = 1 .. Len(fans)
       /\ \A o \in OnDisk("opportunities") : o.contact \in Ids("crm")
       /\ \A o \in OnDisk("ticketing") : o.match \in OnDisk("fixtures")
       /\ \A e \in OnDisk("events") : \E s \in OnDisk("subscribers") :
            s.id = e.subscriber /\ s.subscribed /\ s.signup <= e.sent

(* The tags are what the accuracy is broken down by (mess.py): a record     *)
(* that shows an old address, the one of the household or a typo has the    *)
(* tag, and one with the tag of an old address shows it or that of the      *)
(* household.  A typo may be tagged and not show.                           *)
MessIsTagged ==
  LET Shown == {<<"crm", c.id, c>> : c \in contacts}
                 \cup {<<"ticketing", o.id, o>> : o \in orders}
                 \cup {<<"merch", i.order, i>> : i \in items}
                 \cup {<<"email", s.id, s>> : s \in subscribers}
  IN \A r \in Shown : \E t \in truth :
       /\ t.source = r[1] /\ t.id = r[2]
       /\ r[3].address = "first" /\ fans[t.entity].change # 0 => "stale_email" \in t.tags
       /\ r[3].address = "household" <=> "shared_email" \in t.tags
       /\ r[3].typo # "none" => "typo" \in t.tags
       /\ "stale_email" \in t.tags => r[3].address = "first" \/ "shared_email" \in t.tags

(* A contact that shows an address its fan did not have when it was created *)
(* was stamped on the day the fan got it or later -- what an incremental    *)
(* extract keys on -- and none on a day before the one it was created; the  *)
(* time of day of a stamp tells nothing.                                    *)
UpdatesAreStamped ==
  \A c \in contacts : \E t \in truth :
    /\ t.source = "crm" /\ t.id = c.id /\ c.stampedOn >= c.createdOn
    /\ c.address = "new" => c.stampedOn >= fans[t.entity].change
=============================================================================
