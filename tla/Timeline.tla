------------------------------ MODULE Timeline ------------------------------
(***************************************************************************)
(* The timeline service (src/timeline): one read-only feed over two tables  *)
(* other services write, the conversation messages and the observation      *)
(* events, ordered by (occurred_at, source rank, numeric id).  A client     *)
(* follows the feed of a scope over a stream that polls: each poll sends    *)
(* what lies after a cursor, at most `limit` items at a time, and moves the *)
(* cursor to the last of them.  A connection may break between two items;   *)
(* the client then opens a new stream after the last item it received.      *)
(*                                                                         *)
(* Rows take their time and their number when they are written and become  *)
(* visible when their transaction commits, so a row may turn up behind a    *)
(* cursor.  The writers are external; a deleted message leaves the feed.    *)
(***************************************************************************)
EXTENDS Naturals, FiniteSets, Sequences

CONSTANTS
    MaxInstant,       \* bound: times run from 1 to MaxInstant
    MaxRows,        \* bound: rows each source writes
    Limits,         \* the page sizes a client asks for
    MaxLimit,       \* configuration: the largest page the service serves
    MaxStreams      \* bound: streams the client opens

ASSUME TimelineAssumption ==
    /\ MaxInstant \in Nat \ {0} /\ MaxRows \in Nat \ {0}
    /\ MaxLimit \in Nat \ {0} /\ MaxStreams \in Nat \ {0}
    /\ Limits \subseteq Nat

VARIABLES
    instant,    \* the clock the writers take occurred_at from
    serial,     \* the last number each table has drawn
    unseen,     \* rows written by transactions that have not committed
    feed,       \* the rows both tables hold
    follower,   \* the stream: state, cursor, page size, debug flag, streams opened
    received,   \* what the client got, over all its streams
    offered     \* rows that were in reach of a poll: visible and after its cursor

timelineVars == <<instant, serial, unseen, feed, follower, received, offered>>

Domains == {"msg", "obs"}

\* The rank that orders two sources at one instant (types.go: sourceRank).
sourceRank(source) == IF source = "msg" THEN 1 ELSE 2

\* The place of an item in the feed; it is also what its cursor says.
Place(i) == [at |-> i.at, source |-> i.source, id |-> i.id]
NoCursor == [at |-> 0, source |-> "msg", id |-> 0]
Malformed == [at |-> 0, source |-> "obs", id |-> 0]

\* compareTimelineItems(left, right) < 0
Earlier(l, r) ==
    \/ l.at < r.at
    \/ l.at = r.at /\ sourceRank(l.source) < sourceRank(r.source)
    \/ l.at = r.at /\ l.source = r.source /\ l.id < r.id

itemAfterCursor(i, cursor) == Earlier(cursor, i)

\* TimelineCursor.Validate, applied to a cursor a client sends back.
ValidCursor(c) == c.at > 0 /\ c.id > 0

-----------------------------------------------------------------------------
(* The union the store selects from *)

\* An observation without a channel of its own shows in the channel of the
\* message it is linked to, as long as that message is there.
InChannel(i) ==
    \/ i.channel
    \/ i.source = "obs" /\ \E m \in feed : m.source = "msg" /\ m.id = i.link /\ m.channel

Shown(debug) == { i \in feed : InChannel(i) /\ (debug \/ ~i.debug) }

\* The k-th item is the one that k items, itself included, do not follow; the
\* sorting of the library is recursive.
Rank(i, items) == Cardinality({ j \in items : ~Earlier(i, j) })
Ordered(items) == [k \in 1 .. Cardinality(items) |-> CHOOSE i \in items : Rank(i, items) = k]
NewestRows(items, limit) ==
    LET s == Ordered(items)
    IN  IF Len(s) <= limit THEN s ELSE SubSeq(s, Len(s) - limit + 1, Len(s))
Oldest(items, limit) ==
    LET s == Ordered(items) IN IF Len(s) <= limit THEN s ELSE SubSeq(s, 1, limit)

\* Mutant of StoreItems: the rows next to the end of the feed, cursor or not.
StoreNewestAfter(cursor, limit, debug) ==
    NewestRows({ i \in Shown(debug) : cursor = NoCursor \/ itemAfterCursor(i, cursor) }, limit)

\* Store.ListItems: without a cursor the newest rows, with one the first rows
\* that follow it.
StoreItems(cursor, limit, debug) ==
    IF cursor = NoCursor
    THEN NewestRows(Shown(debug), limit)
    ELSE Oldest({ i \in Shown(debug) : itemAfterCursor(i, cursor) }, limit)

\* The service filters, orders and cuts once more what the store returned.
orderAndLimitItems(items, cursor, limit) ==
    LET kept == { items[k] : k \in DOMAIN items }
    IN  IF cursor = NoCursor THEN NewestRows(kept, limit)
        ELSE Oldest({ i \in kept : itemAfterCursor(i, cursor) }, limit)

\* Service.ListItems: the page of a request; an empty page has no next cursor.
ListItems(cursor, limit, debug) ==
    orderAndLimitItems(StoreItems(cursor, limit, debug), cursor, limit)
NextCursor(page, cursor) == IF page = << >> THEN cursor ELSE Place(page[Len(page)])

-----------------------------------------------------------------------------
(* The rows, the clock they take their times from and the stream. *)
TimelineTypeOK ==
    /\ instant \in 1 .. MaxInstant
    /\ serial \in [Domains -> 0 .. MaxRows]
    /\ \A i \in feed \cup unseen : i.at \in 1 .. MaxInstant /\ i.source \in Domains
    /\ follower.state \in {"closed", "open", "error"}
    /\ follower.opened \in 0 .. MaxStreams

TimelineInit ==
    /\ instant = 1 /\ serial = [source \in Domains |-> 0]
    /\ unseen = {} /\ feed = {} /\ received = << >> /\ offered = {}
    /\ follower = [state |-> "closed", cursor |-> NoCursor, limit |-> 1,
                   debug |-> FALSE, opened |-> 0]

(* The writers *)

\* A message or an observation is written: it draws its time and its number.
WriteRow(source) ==
    /\ serial[source] < MaxRows
    /\ serial' = [serial EXCEPT ![source] = @ + 1]
    /\ \E channel, debug \in BOOLEAN, link \in 0 .. MaxRows :
          /\ source = "msg" => ~debug /\ link = 0
          /\ channel => link = 0
          /\ unseen' = unseen \cup
                {[at |-> instant, source |-> source, id |-> serial'[source],
                  channel |-> channel, debug |-> debug, link |-> link]}
    /\ UNCHANGED <<instant, feed, follower, received, offered>>

CommitRow(i) ==
    /\ i \in unseen
    /\ unseen' = unseen \ {i}
    /\ feed' = feed \cup {i}
    /\ UNCHANGED <<instant, serial, follower, received, offered>>

\* A message is marked deleted; what was linked to it loses the channel.
DeleteMessage(i) ==
    /\ i \in feed /\ i.source = "msg"
    /\ feed' = feed \ {i}
    /\ UNCHANGED <<instant, serial, unseen, follower, received, offered>>

TimePasses ==
    /\ instant < MaxInstant
    /\ instant' = instant + 1
    /\ UNCHANGED <<serial, unseen, feed, follower, received, offered>>

-----------------------------------------------------------------------------
(* The stream (sse.go) *)

\* Where the client resumes: after the last item it received.
Resume == IF received = << >> THEN NoCursor ELSE Place(received[Len(received)])

\* writeStream: a page size outside 1..MaxLimit opens nothing.
channelStream(limit, debug, after) ==
    /\ follower.state # "open" /\ follower.opened < MaxStreams
    /\ limit \in 1 .. MaxLimit
    /\ follower' = [state |-> "open", cursor |-> after, limit |-> limit,
                    debug |-> debug, opened |-> follower.opened + 1]
    /\ UNCHANGED <<instant, serial, unseen, feed, received, offered>>

\* One round of the loop: a page is sent, as a whole or up to the point where
\* the connection breaks.
emitTimelineItems(sent) ==
    LET page == ListItems(follower.cursor, follower.limit, follower.debug)
    IN  /\ follower.state = "open"
        /\ follower.cursor = NoCursor \/ ValidCursor(follower.cursor)
        /\ sent \in 0 .. Len(page)
        /\ received' = received \o SubSeq(page, 1, sent)
        /\ follower' = IF sent = Len(page)
                       THEN [follower EXCEPT !.cursor = NextCursor(page, @)]
                       ELSE [follower EXCEPT !.state = "closed"]
        /\ offered' = offered \cup
              IF follower.cursor = NoCursor THEN {}
              ELSE { i \in Shown(follower.debug) : itemAfterCursor(i, follower.cursor) }
        /\ UNCHANGED <<instant, serial, unseen, feed>>

\* A cursor that does not decode, or a store that fails, ends the stream with
\* stream_error; the client may leave at any time.
streamError ==
    /\ follower.state = "open"
    /\ follower' = [follower EXCEPT !.state = "error"]
    /\ UNCHANGED <<instant, serial, unseen, feed, received, offered>>
clientLeaves ==
    /\ follower.state = "open"
    /\ follower' = [follower EXCEPT !.state = "closed"]
    /\ UNCHANGED <<instant, serial, unseen, feed, received, offered>>

TimelineNext ==
    \/ \E source \in Domains : WriteRow(source)
    \/ \E i \in unseen : CommitRow(i)
    \/ \E i \in feed : DeleteMessage(i)
    \/ TimePasses
    \/ \E limit \in Limits, debug \in BOOLEAN :
          channelStream(limit, debug, Resume) \/ channelStream(limit, debug, Malformed)
    \/ \E sent \in 0 .. MaxLimit : emitTimelineItems(sent)
    \/ streamError
    \/ clientLeaves

TimelineSpec == TimelineInit /\ [][TimelineNext]_timelineVars

-----------------------------------------------------------------------------
\* Over however many streams, a client gets every item at most once and in the
\* order of the feed, and no item that was within reach of a poll is passed
\* over: once the client is past it, it was sent (unless its row is gone, or
\* the client now hides debug rows).  Only a row that becomes visible behind
\* the cursor is missed.  Behaviour of streamTimeline, emitTimelineItems and
\* orderAndLimitItems (src/timeline/internal/sse.go, service.go).
StreamSkipsNothing ==
    /\ TimelineTypeOK
    /\ \A j, k \in DOMAIN received : j < k => Earlier(received[j], received[k])
    /\ \A i \in offered \cap feed :
          /\ InChannel(i) /\ ~i.debug
          /\ received # << >> /\ ~Earlier(received[Len(received)], i)
          => i \in { received[k] : k \in DOMAIN received }
=============================================================================
