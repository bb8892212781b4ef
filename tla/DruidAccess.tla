----------------------------- MODULE DruidAccess -----------------------------
(***************************************************************************)
(* The queries a worker's goroutines run against Druid (druid.go, limits.  *)
(* go): a range cut into windows, one request per window, each under a     *)
(* slot of the semaphore and a token of the rate limiter, with retries     *)
(* that keep the slot, under one context that a shutdown cancels.          *)
(*                                                                         *)
(* A channel of Go queues what blocks on it and serves it first come first *)
(* served: a slot that is given back goes to the sender that waits         *)
(* longest, a tick to the receiver that waits longest.                     *)
(***************************************************************************)
EXTENDS Integers, Sequences, FiniteSets

CONSTANTS
  Callers,      \* goroutines that query: the tick's scan and the fits
  Spans,        \* lengths of the ranges they ask for, in minutes
  Points,       \* the minutes that Druid has a row of
  MaxRange,     \* DRUID_MAX_RANGE, 0 for one request per range
  MaxWindows,   \* maxDruidWindows
  Inflight,     \* DRUID_MAX_INFLIGHT
  Retries       \* DRUID_RETRIES

ASSUME RangeAssumption ==
  /\ Spans \subseteq Nat /\ Points \subseteq Nat
  /\ MaxRange \in Nat /\ MaxWindows \in Nat \ {0}
ASSUME LimitAssumption ==
  /\ IsFiniteSet(Callers)
  /\ Inflight \in Nat \ {0}
  /\ Retries \in Nat

VARIABLES
  pc,           \* where each caller is
  query,        \* the span of its range, the start of its window, the rows it
                \* has stitched and, as history, the windows it asked for
  attempt,      \* retries of the current window
  failed,       \* history: whether one of the query's requests failed
  result,       \* what its last query returned
  held,         \* elements in the semaphore's channel
  slotQueue,    \* callers that block on sending to it
  token,        \* ticks buffered in the ticker's channel
  tokenQueue,   \* callers that block on receiving from it
  taken,        \* history: tokens taken since the ticker fired last
  cancelled     \* the context

caller == <<pc, query, attempt, failed, result>>
semaphore == <<held, slotQueue>>
rateLimiter == <<token, tokenQueue, taken>>
vars == <<caller, semaphore, rateLimiter, cancelled>>

-------------------------------------------------------------------------------
(* Windows of a range *)

MutWindowCount(span) == IF MaxRange = 0 \/ span = 0 THEN 1 ELSE span \div MaxRange

WindowCount(span) ==
  IF MaxRange = 0 \/ span = 0 THEN 1
  ELSE span \div MaxRange + (IF span % MaxRange = 0 THEN 0 ELSE 1)

(* One request alone is never counted against the bound. *)
TooMany(span) == MaxRange > 0 /\ span > 0 /\ WindowCount(span) > MaxWindows

(* Where the window that starts at lo ends: windows are half-open. *)
End(q) == IF MaxRange = 0 \/ q.lo + MaxRange > q.span THEN q.span ELSE q.lo + MaxRange

NextStart(q) == End(q)

MutRows(q) == {m \in Points : q.lo <= m /\ m <= End(q)}

Rows(q) == {m \in Points : q.lo <= m /\ m < End(q)}

(* Concat refuses a part that does not come after what it has. *)
Stitches(got, rows) == \A a \in got, b \in rows : a < b

-------------------------------------------------------------------------------

(* granted: has the slot, and turns to the rate limiter *)
Places == {"idle", "between", "acquire", "granted", "token", "request", "backoff"}

Holding == {c \in Callers : pc[c] \in {"granted", "token", "request", "backoff"}}

TypeOK ==
  /\ pc \in [Callers -> Places]
  /\ query \in [Callers -> [span : Nat, lo : Nat, got : SUBSET Points, asked : Nat]]
  /\ attempt \in [Callers -> 0 .. Retries]
  /\ failed \in [Callers -> BOOLEAN]
  /\ result \in [Callers -> {"none", "ok", "error"}]
  /\ held \in 0 .. Inflight
  /\ slotQueue \in Seq(Callers)
  /\ token \in 0 .. 1
  /\ tokenQueue \in Seq(Callers)
  /\ taken \in Nat
  /\ cancelled \in BOOLEAN

(* The queue when its i-th caller leaves it. *)
WithoutAt(q, i) == [j \in 1 .. Len(q) - 1 |-> IF j < i THEN q[j] ELSE q[j + 1]]

(***************************************************************************)
(* A caller goes to a place and keeps its slot, if it has one, or gives it *)
(* back, which hands it to the caller that waits longest.                  *)
(***************************************************************************)
Keeps(c, place) ==
  /\ pc' = [pc EXCEPT ![c] = place]
  /\ UNCHANGED semaphore

GivesBack(c, place) ==
  IF slotQueue = <<>>
  THEN /\ pc' = [pc EXCEPT ![c] = place]
       /\ held' = held - 1
       /\ UNCHANGED slotQueue
  ELSE /\ pc' = [pc EXCEPT ![c] = place, ![Head(slotQueue)] = "granted"]
       /\ slotQueue' = Tail(slotQueue)
       /\ UNCHANGED held

(* acquire, as one more caller comes to it. *)
Acquires(c) ==
  IF held < Inflight
  THEN /\ pc' = [pc EXCEPT ![c] = "granted"]
       /\ held' = held + 1
       /\ UNCHANGED slotQueue
  ELSE /\ pc' = [pc EXCEPT ![c] = "acquire"]
       /\ slotQueue' = Append(slotQueue, c)
       /\ UNCHANGED held

-------------------------------------------------------------------------------
(* A query *)

(* Too many windows are refused before Druid is asked anything. *)
Call(c) ==
  /\ pc[c] = "idle"
  /\ \E span \in Spans :
       /\ query' = [query EXCEPT ![c] = [span |-> span, lo |-> 0, got |-> {}, asked |-> 0]]
       /\ \/ /\ TooMany(span)
             /\ result' = [result EXCEPT ![c] = "error"]
             /\ Keeps(c, "idle")
          \/ /\ ~TooMany(span)
             /\ result' = [result EXCEPT ![c] = "none"]
             /\ Acquires(c)
  /\ attempt' = [attempt EXCEPT ![c] = 0]
  /\ failed' = [failed EXCEPT ![c] = FALSE]
  /\ UNCHANGED <<rateLimiter, cancelled>>

NextWindow(c) ==
  /\ pc[c] = "between"
  /\ attempt' = [attempt EXCEPT ![c] = 0]
  /\ Acquires(c)
  /\ UNCHANGED <<query, failed, result, rateLimiter, cancelled>>

(* wait: a buffered tick is taken, or the caller blocks until one comes. *)
Await(c) ==
  /\ pc[c] = "granted"
  /\ \/ /\ token > 0
        /\ token' = token - 1
        /\ taken' = taken + 1
        /\ Keeps(c, "request")
        /\ UNCHANGED tokenQueue
     \/ /\ token = 0
        /\ tokenQueue' = Append(tokenQueue, c)
        /\ Keeps(c, "token")
        /\ UNCHANGED <<token, taken>>
  /\ UNCHANGED <<query, attempt, failed, result, cancelled>>

MutBuffered(n) == n + 1

(* A tick that finds its channel full is dropped. *)
Buffered(n) == 1

Tick ==
  /\ \/ /\ tokenQueue = <<>>
        /\ token' = Buffered(token)
        /\ taken' = 0
        /\ UNCHANGED <<pc, tokenQueue>>
     \/ /\ tokenQueue # <<>>
        /\ pc' = [pc EXCEPT ![Head(tokenQueue)] = "request"]
        /\ tokenQueue' = Tail(tokenQueue)
        /\ taken' = 1
        /\ UNCHANGED token
  /\ UNCHANGED <<query, attempt, failed, result, semaphore, cancelled>>

(* The query ends in an error, and the slot it may hold is given back. *)
MutGivesUp(c) == Keeps(c, "idle")

GivesUp(c) == GivesBack(c, "idle")

Fails(c) ==
  /\ result' = [result EXCEPT ![c] = "error"]
  /\ failed' = [failed EXCEPT ![c] = TRUE]
  /\ UNCHANGED <<query, attempt>>

(***************************************************************************)
(* Rows come: the slot is given back before they are stitched.  A          *)
(* cancelled request fails in the transport.                               *)
(***************************************************************************)
Answered(c) ==
  /\ pc[c] = "request" /\ ~cancelled
  /\ LET q    == query[c]
         rows == Rows(q)
         last == NextStart(q) >= q.span
     IN  \/ /\ ~Stitches(q.got, rows)
            /\ result' = [result EXCEPT ![c] = "error"]
            /\ GivesBack(c, "idle")
            /\ UNCHANGED query
         \/ /\ Stitches(q.got, rows)
            /\ query' = [query EXCEPT ![c].got = q.got \cup rows, ![c].lo = NextStart(q),
                                      ![c].asked = @ + 1]
            /\ result' = [result EXCEPT ![c] = IF last THEN "ok" ELSE @]
            /\ GivesBack(c, IF last THEN "idle" ELSE "between")
  /\ UNCHANGED <<attempt, failed, rateLimiter, cancelled>>

(* A transport error or a 5xx, which is retried while retries are left. *)
Retryable(c) ==
  /\ pc[c] = "request"
  /\ \/ /\ attempt[c] < Retries
        /\ attempt' = [attempt EXCEPT ![c] = @ + 1]
        /\ failed' = [failed EXCEPT ![c] = TRUE]
        /\ Keeps(c, "backoff")
        /\ UNCHANGED <<query, result>>
     \/ /\ attempt[c] = Retries
        /\ Fails(c)
        /\ GivesUp(c)
  /\ UNCHANGED <<rateLimiter, cancelled>>

(* A 3xx or 4xx, an oversized reply, or one that does not decode. *)
Final(c) ==
  /\ pc[c] = "request" /\ ~cancelled
  /\ Fails(c)
  /\ GivesUp(c)
  /\ UNCHANGED <<rateLimiter, cancelled>>

(* sleepCtx: the timer fires and the next attempt waits for a token. *)
Wake(c) ==
  /\ pc[c] = "backoff"
  /\ Keeps(c, "granted")
  /\ UNCHANGED <<query, attempt, failed, result, rateLimiter, cancelled>>

(***************************************************************************)
(* Each wait of a query also ends when the context is done: for a slot,    *)
(* for a token, for the backoff.  Where the awaited value is there too,    *)
(* the select takes either.                                                *)
(***************************************************************************)
CancelAcquire(c) ==
  /\ pc[c] = "between"
  /\ Keeps(c, "idle")
  /\ UNCHANGED rateLimiter

CancelSlot(c) ==
  \E i \in 1 .. Len(slotQueue) :
    /\ slotQueue[i] = c
    /\ slotQueue' = WithoutAt(slotQueue, i)
    /\ pc' = [pc EXCEPT ![c] = "idle"]
    /\ UNCHANGED <<held, rateLimiter>>

CancelToken(c) ==
  \E i \in 1 .. Len(tokenQueue) :
    /\ tokenQueue[i] = c
    /\ tokenQueue' = WithoutAt(tokenQueue, i)
    /\ GivesUp(c)
    /\ UNCHANGED <<token, taken>>

CancelPause(c) ==
  /\ pc[c] \in {"granted", "backoff"}
  /\ GivesUp(c)
  /\ UNCHANGED rateLimiter

Cancelled(c) ==
  /\ cancelled
  /\ CancelAcquire(c) \/ CancelSlot(c) \/ CancelToken(c) \/ CancelPause(c)
  /\ Fails(c)
  /\ UNCHANGED cancelled

(* The worker shuts down. *)
Shutdown ==
  /\ ~cancelled
  /\ cancelled' = TRUE
  /\ UNCHANGED <<caller, semaphore, rateLimiter>>

-------------------------------------------------------------------------------

Init ==
  /\ pc = [c \in Callers |-> "idle"]
  /\ query = [c \in Callers |-> [span |-> 0, lo |-> 0, got |-> {}, asked |-> 0]]
  /\ attempt = [c \in Callers |-> 0]
  /\ failed = [c \in Callers |-> FALSE]
  /\ result = [c \in Callers |-> "none"]
  /\ held = 0
  /\ slotQueue = <<>>
  /\ token = 0
  /\ tokenQueue = <<>>
  /\ taken = 0
  /\ cancelled = FALSE

Step(c) ==
  NextWindow(c) \/ Await(c) \/ Answered(c) \/ Retryable(c) \/ Final(c) \/ Wake(c) \/ Cancelled(c)

Next == (\E c \in Callers : Call(c) \/ Step(c)) \/ Tick \/ Shutdown

Spec == Init /\ [][Next]_vars

-------------------------------------------------------------------------------
(* The limits *)

(***************************************************************************)
(* Every slot that is taken has one query behind it, at most Inflight of   *)
(* them, and a query waits for a slot only while all of them are taken: no *)
(* path out of a query loses its slot, returns it twice or leaves it idle  *)
(* before a waiter (druid.go sql, limits.go acquire).                      *)
(***************************************************************************)
SlotsAreHeld ==
  /\ held = Cardinality(Holding)
  /\ held <= Inflight
  /\ slotQueue # <<>> => held = Inflight

(***************************************************************************)
(* Between two ticks at most one request is let through, however long the  *)
(* limiter was idle before and however many queries start at once, and a   *)
(* caller waits only while no tick is buffered (limits.go: "Tokens are not *)
(* banked").  It counts by ticks: the one that is buffered still lets two  *)
(* requests be closer together than a period.                              *)
(***************************************************************************)
OnePerPeriod ==
  /\ taken + token <= 1
  /\ tokenQueue # <<>> => token = 0

(***************************************************************************)
(* A query returns every row of its range once and in order, whichever of  *)
(* its windows were retried and whatever other queries were doing, or an   *)
(* error; and an error only when a request failed, the context was done or *)
(* the windows were too many (druid.go Series, windows: "no row can be     *)
(* returned twice").                                                       *)
(***************************************************************************)
AnswerIsWhole ==
  \A c \in Callers :
    /\ result[c] = "ok" => query[c].got = {m \in Points : m < query[c].span}
    /\ result[c] = "error" => failed[c] \/ TooMany(query[c].span)

(***************************************************************************)
(* A query that was let in is answered at most MaxWindows windows, and an  *)
(* answer took as many as were counted beforehand (druid.go windows: "one  *)
(* query is then at most maxDruidWindows requests").  Retries of a window  *)
(* come on top of that and are not counted.                                *)
(***************************************************************************)
WindowsAreCounted ==
  \A c \in Callers :
    /\ MaxRange > 0 => query[c].asked <= MaxWindows
    /\ result[c] = "ok" => query[c].asked = WindowCount(query[c].span)

-------------------------------------------------------------------------------
(* Liveness *)

(***************************************************************************)
(* The ticker fires, a request ends by DRUID_TIMEOUT, a timer fires, and a *)
(* goroutine that can go on does.  Whether requests fail is left open.     *)
(***************************************************************************)
Fairness == WF_vars(Tick) /\ \A c \in Callers : WF_vars(Step(c))

FairSpec == Spec /\ Fairness

(***************************************************************************)
(* Every query returns, whichever requests fail and for how long, with     *)
(* more queries than slots and slots that are kept through the backoff,    *)
(* and also when the context is cancelled at any of its waits (druid.go    *)
(* sql).                                                                   *)
(***************************************************************************)
EveryQueryEnds == \A c \in Callers : pc[c] # "idle" ~> pc[c] = "idle"
=============================================================================
