-------------------------- MODULE SalesforcePaging --------------------------
(***************************************************************************)
(* One extract of one object, page by page: salesforce.py query_all inside *)
(* flows.py fetch_sobject, against salesforce_mock/app.py _query_page.     *)
(*                                                                         *)
(* The server keeps no result set.  It evaluates the query anew for every  *)
(* page and cuts the page out by offset, while the org goes on changing.   *)
(* CrmIngest takes a fetch to be one look at the org; FetchIsSnapshot says *)
(* when that is right.                                                     *)
(*                                                                         *)
(* Here every record has a stamp (CrmIngest has those that do not), and    *)
(* authentication is part of a page request that may fail.  Definitions    *)
(* named Bug... serve the mutation runs only.                              *)
(***************************************************************************)
EXTENDS Integers, Sequences, FiniteSets

CONSTANTS
  Ids,       \* record Ids, in the order Python compares the strings
  MaxClock,  \* bound: seconds of wall clock
  PageSize,  \* PAGE_SIZE
  Retries,   \* retries of the fetch task
  Reedits    \* may the org restamp a record that a fetch has already read?

ASSUME PagingAssumption ==
  /\ IsFiniteSet(Ids) /\ Ids \subseteq Nat
  /\ MaxClock \in Nat \ {0} /\ PageSize \in Nat \ {0} /\ Retries \in Nat
  /\ Reedits \in BOOLEAN

VARIABLES
  clock, closed,  \* as in CrmIngest: now, and the last second a page showed
  org,            \* org[i]: the SystemModstamp of record i; 0 when there is none
  pc,
  after,          \* the watermark in the query
  offset,         \* the offset in the cursor
  pages,          \* the pages of this attempt
  tries           \* the attempts that failed

vars == <<clock, closed, org, pc, after, offset, pages, tries>>

Record == [id : Ids, stamp : 1 .. MaxClock]

TypeOK ==
  /\ clock \in 1 .. MaxClock /\ closed \in 0 .. MaxClock
  /\ org \in [Ids -> 0 .. MaxClock]
  /\ pc \in {"idle", "page", "done", "failed"}
  /\ after \in 0 .. MaxClock
  /\ offset \in Nat
  /\ pages \in Seq(SUBSET Record)
  /\ tries \in 0 .. Retries

Init ==
  /\ clock = 1 /\ closed = 0
  /\ org = [i \in Ids |-> 0]
  /\ pc = "idle"
  /\ after = 0 /\ offset = 0 /\ pages = <<>> /\ tries = 0

-----------------------------------------------------------------------------
(* The server. *)

BugServed(from) == {i \in Ids : org[i] >= from}

Served(from) == {i \in Ids : org[i] > from}

(* ORDER BY SystemModstamp, then Id. *)
Before(i, j) == org[i] < org[j] \/ (org[i] = org[j] /\ i < j)
Position(i, from) == Cardinality({j \in Served(from) : Before(j, i)})

Version(i) == [id |-> i, stamp |-> org[i]]
Page(from, off) ==
  {Version(i) : i \in {j \in Served(from) : Position(j, from) \in off .. off + PageSize - 1}}

BugDone(from, off) == off + PageSize + 1 >= Cardinality(Served(from))

Done(from, off) == off + PageSize >= Cardinality(Served(from))

-----------------------------------------------------------------------------
(* The org. *)

Tick ==
  /\ clock < MaxClock
  /\ clock' = clock + 1
  /\ UNCHANGED <<closed, org, pc, after, offset, pages, tries>>

Got == UNION {pages[k] : k \in DOMAIN pages}

Write(i) ==
  /\ clock > closed
  /\ Reedits \/ ~\E g \in Got : g.id = i
  /\ org' = [org EXCEPT ![i] = clock]
  /\ UNCHANGED <<clock, closed, pc, after, offset, pages, tries>>

-----------------------------------------------------------------------------
(* The extractor. *)

(* build_soql: the watermark is a stamp some earlier fetch was shown. *)
Query(from) ==
  /\ pc = "idle"
  /\ after' = from
  /\ pc' = "page"
  /\ UNCHANGED <<clock, closed, org, offset, pages, tries>>

GetPage ==
  /\ pc = "page"
  /\ closed' = clock
  /\ pages' = Append(pages, Page(after, offset))
  /\ IF Done(after, offset)
       THEN pc' = "done" /\ UNCHANGED offset
       ELSE offset' = offset + PageSize /\ UNCHANGED pc
  /\ UNCHANGED <<clock, org, after, tries>>

(* raise_for_status or the connection raises; the task starts over with a  *)
(* new client and the first page.                                          *)
BugRetry ==
  /\ pc = "page"
  /\ tries < Retries
  /\ tries' = tries + 1
  /\ offset' = 0
  /\ UNCHANGED <<clock, closed, org, pc, after, pages>>

Retry ==
  /\ pc = "page"
  /\ tries < Retries
  /\ tries' = tries + 1
  /\ offset' = 0 /\ pages' = <<>>
  /\ UNCHANGED <<clock, closed, org, pc, after>>

GiveUp ==
  /\ pc = "page"
  /\ tries = Retries
  /\ pc' = "failed"
  /\ UNCHANGED <<clock, closed, org, after, offset, pages, tries>>

(* The run has taken the records, or failed; a later one asks again. *)
Leave ==
  /\ pc \in {"done", "failed"}
  /\ pc' = "idle"
  /\ after' = 0 /\ offset' = 0 /\ pages' = <<>> /\ tries' = 0
  /\ UNCHANGED <<clock, closed, org>>

Next ==
  \/ Tick
  \/ \E i \in Ids : Write(i)
  \/ \E from \in 0 .. closed : Query(from)
  \/ GetPage \/ Retry \/ GiveUp \/ Leave

Spec == Init /\ [][Next]_vars

-----------------------------------------------------------------------------
(* Correctness. *)

(* query_all: as long as no record is restamped between the page that held *)
(* it and the last page, the pages together are what one look at the org   *)
(* at the moment of the last page would have shown: records that are       *)
(* created meanwhile included, none skipped, none in an old version, and   *)
(* whatever earlier attempts had read forgotten.                           *)
FetchIsSnapshot ==
  [][pc = "page" /\ pc' = "done" => Got' = {Version(i) : i \in Served(after)}]_vars

(* test_query_paginates_like_an_extractor_would: no record comes twice, on *)
(* two pages or left over from an attempt that failed.                     *)
NoRecordTwice ==
  \A k, l \in DOMAIN pages :
    k # l => ~\E g \in pages[k], h \in pages[l] : g.id = h.id
=============================================================================
