----------------------------- MODULE AuditQueries ----------------------------
(***************************************************************************)
(* The read side of the audit service: clients walk the log page by page,  *)
(* newest first, with keyset cursors (auditv1.Server.QueryEvents); a page  *)
(* comes from a Redis cache shared by the replicas, or from the database,  *)
(* where identical concurrent queries of one replica collapse into one     *)
(* (audit.QueryService).  New events, late ones among them, are inserted   *)
(* while clients walk.                                                     *)
(*                                                                         *)
(* An event is the position of its key (occurred_at, id) in the order of   *)
(* the log.  Every client uses the same filter, so the cursor is the cache *)
(* key; another filter is another set of events.  Redis is external.       *)
(***************************************************************************)
EXTENDS FiniteSets, Integers, Sequences, SequencesExt

CONSTANTS LogKey,     \* keys of the events, a finite set of positive numbers
          Reader,     \* clients
          NoCursor,   \* the first page has none: everything is below it
          HomeOf,     \* the replica that serves a client
          PageLimit,  \* AuditFilter.Limit, after Query's default
          PageTTL,    \* how long a page stays cached, in ticks
          MaxRead,    \* longest time from a database read to the cached page
          None        \* no entry, no query, not inserted

ASSUME QueriesAssumption ==
    /\ LogKey \subseteq Nat \ {0} /\ IsFiniteSet(LogKey)
    /\ NoCursor \in Nat /\ \A k \in LogKey : k < NoCursor
    /\ PageLimit \in Nat \ {0} /\ PageTTL \in Nat \ {0} /\ MaxRead \in Nat
    /\ None \notin Nat

Cursor   == LogKey \cup {NoCursor}
Replicas == {HomeOf[c] : c \in Reader}

VARIABLES clock,     \* ticks
          inserted,  \* inserted[k]: when the event k was committed, or None
          cache,     \* cache[cur]: the cached page and its expiry, or None
          flight,    \* flight[<<r, cur>>]: the callers and result of the query, or None
          reader     \* reader[c]: what the client is doing and what it has seen
queryVars == <<clock, inserted, cache, flight, reader>>

Log == {k \in LogKey : inserted[k] # None}

-----------------------------------------------------------------------------
QueriesInit ==
    /\ clock = 0
    /\ inserted \in [LogKey -> {None, 0}]
    /\ cache = [cur \in Cursor |-> None]
    /\ flight = [key \in Replicas \X Cursor |-> None]
    /\ reader = [c \in Reader |-> [at |-> "away", cursor |-> NoCursor,
                                   seen |-> <<>>, since |-> 0]]

(* The ingestor commits an event whose key may be older than what has been *)
(* read: producers stamp their events.                                     *)
Insert(k) ==
    /\ inserted[k] = None
    /\ inserted' = [inserted EXCEPT ![k] = clock]
    /\ UNCHANGED <<clock, cache, flight, reader>>

NewestFirst(keys) == \A i, j \in DOMAIN keys : i < j => keys[i] > keys[j]

(* ORDER BY occurred_at DESC, id DESC LIMIT n: a row that qualifies is     *)
(* missing from a full page only, and only if the page ends before it.     *)
PageOf(keys) ==
    {page \in BoundedSeq(keys, PageLimit) :
        /\ NewestFirst(page)
        /\ \A k \in keys \ ToSet(page) : Len(page) = PageLimit /\ k < Last(page)}

(* QueryAuditEvents: WHERE (occurred_at, id) < cursor.                     *)
PageBelowByTime(cur) ==   \* compares timestamps only: two keys share one
    PageOf({k \in Log : k \div 2 < cur \div 2})

PageBelow(cur) == PageOf({k \in Log : k < cur})

-----------------------------------------------------------------------------
(* A client opens the log: its first request has no cursor.                *)
Open(c) ==
    /\ reader[c].at = "away"
    /\ reader' = [reader EXCEPT ![c] = [at |-> "request", cursor |-> NoCursor,
                                        seen |-> <<>>, since |-> clock]]
    /\ UNCHANGED <<clock, inserted, cache, flight>>

(* Server.QueryEvents sends the page with the key of its last event as the *)
(* next cursor; an empty page has none and ends the walk.                  *)
Answered(rd, page) ==
    IF page = <<>> THEN [rd EXCEPT !.at = "done"]
    ELSE [rd EXCEPT !.at = "request", !.cursor = Last(page), !.seen = @ \o page]

(* An error ends the walk; what it had shown no longer matters.            *)
Refused(rd) == [rd EXCEPT !.at = "failed", !.cursor = NoCursor, !.seen = <<>>]

(* cache.Get found an entry.                                               *)
Hit(c) ==
    LET cur == reader[c].cursor
    IN  /\ reader[c].at = "request"
        /\ cache[cur] # None
        /\ reader' = [reader EXCEPT ![c] = Answered(@, cache[cur].page)]
        /\ UNCHANGED <<clock, inserted, cache, flight>>

(* cache.Get found nothing, or Redis failed: both are a miss.  What is     *)
(* decided here is used only after the next step: the cache may be filled  *)
(* in between.                                                             *)
Miss(c) ==
    /\ reader[c].at = "request"
    /\ reader' = [reader EXCEPT ![c].at = "missed"]
    /\ UNCHANGED <<clock, inserted, cache, flight>>

(* singleflight.Do: the first caller of a key leads, the others wait.      *)
Join(c) ==
    LET key == <<HomeOf[c], reader[c].cursor>>
    IN  /\ reader[c].at = "missed"
        /\ flight' = [flight EXCEPT ![key] =
                        IF @ = None
                        THEN [waiting |-> {c}, read |-> None, page |-> <<>>]
                        ELSE [flight[key] EXCEPT !.waiting = @ \cup {c}]]
        /\ reader' = [reader EXCEPT ![c].at = "waiting"]
        /\ UNCHANGED <<clock, inserted, cache>>

(* The leader's query.                                                     *)
ReadPage(r, cur) ==
    /\ flight[<<r, cur>>] # None /\ flight[<<r, cur>>].read = None
    /\ \E page \in PageBelow(cur) :
          flight' = [flight EXCEPT ![<<r, cur>>] = [@ EXCEPT !.read = clock, !.page = page]]
    /\ UNCHANGED <<clock, inserted, cache, reader>>

(* cache.Set, best effort, then every waiting caller gets the page.        *)
Land(r, cur) ==
    /\ flight[<<r, cur>>] # None /\ flight[<<r, cur>>].read # None
    /\ \/ cache' = [cache EXCEPT ![cur] = [page |-> flight[<<r, cur>>].page,
                                           until |-> clock + PageTTL]]
       \/ UNCHANGED cache
    /\ reader' = [c \in Reader |-> IF c \in flight[<<r, cur>>].waiting
                                   THEN Answered(reader[c], flight[<<r, cur>>].page)
                                   ELSE reader[c]]
    /\ flight' = [flight EXCEPT ![<<r, cur>>] = None]
    /\ UNCHANGED <<clock, inserted>>

(* The query failed, or the LEADER's client went away: its context runs    *)
(* the query, so every caller that joined shares the error.                *)
Abort(r, cur) ==
    /\ flight[<<r, cur>>] # None /\ flight[<<r, cur>>].read = None
    /\ reader' = [c \in Reader |-> IF c \in flight[<<r, cur>>].waiting
                                   THEN Refused(reader[c]) ELSE reader[c]]
    /\ flight' = [flight EXCEPT ![<<r, cur>>] = None]
    /\ UNCHANGED <<clock, inserted, cache>>

(* Redis drops what has expired.  A page is read and cached within MaxRead.*)
ClockTick ==
    /\ \A r \in Replicas, cur \in Cursor :
          flight[<<r, cur>>] # None /\ flight[<<r, cur>>].read # None
             => clock < flight[<<r, cur>>].read + MaxRead
    /\ clock' = clock + 1
    /\ cache' = [cur \in Cursor |->
                    IF cache[cur] # None /\ clock' < cache[cur].until
                    THEN cache[cur] ELSE None]
    /\ UNCHANGED <<inserted, flight, reader>>

QueriesNext ==
    \/ \E k \in LogKey : Insert(k)
    \/ \E c \in Reader : Open(c) \/ Hit(c) \/ Miss(c) \/ Join(c)
    \/ \E r \in Replicas, cur \in Cursor :
          ReadPage(r, cur) \/ Land(r, cur) \/ Abort(r, cur)
    \/ ClockTick

QueriesSpec == QueriesInit /\ [][QueriesNext]_queryVars

-----------------------------------------------------------------------------
(* A walk that runs to its end shows every event that was in the log one   *)
(* cache lifetime before it began, newest first and exactly once, although *)
(* its pages were read at different times, by other clients' queries, from *)
(* a cache other replicas fill, and while events are inserted on both      *)
(* sides of its cursors.  Nothing the walk shows is missing from the log.  *)
WalkComplete ==
    \A c \in Reader : reader[c].at = "done" =>
        /\ \A k \in Log : inserted[k] <= reader[c].since - PageTTL - MaxRead
                             => k \in ToSet(reader[c].seen)
        /\ ToSet(reader[c].seen) \subseteq Log
        /\ NewestFirst(reader[c].seen)
=============================================================================
