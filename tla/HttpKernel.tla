------------------------------ MODULE HttpKernel ------------------------------
(***************************************************************************)
(* HttpKernel.fetchJson: the one way the connectors reach Jira and Swagger *)
(* servers, shared by every turn.  A call looks in the cache, then makes   *)
(* up to MaxRetries + 1 attempts; each attempt passes the throttle, which  *)
(* reads and writes lastRequestAt around an await, and every kind of error *)
(* is retried after a backoff.  A request has no timeout: a call may wait  *)
(* for ever.  Servers and timers are external: an answer or an error comes *)
(* at any time, and a timer fires when it is due or later.                 *)
(***************************************************************************)
EXTENDS Integers, Sequences, FiniteSets

CONSTANTS
  Calls,          \* the calls of fetchJson
  Keys,           \* cache keys: method, URL and body; headers are not part
  MaxRetries, BaseBackoffMs, CacheTtlMs, MinIntervalMs,
  MaxMs           \* bound on the time

ASSUME HttpAssumption ==
  /\ MaxRetries \in Nat /\ BaseBackoffMs \in Nat /\ CacheTtlMs \in Nat
  /\ MinIntervalMs \in Nat /\ MaxMs \in Nat
  /\ MinIntervalMs <= MaxMs /\ Keys # {}

Never == -1

VARIABLES
  ms,             \* Date.now()
  cache,          \* key -> answer and the time it expires, Never if there is none
  lastRequestAt,
  calls,          \* call -> where it stands
  sends           \* history: the requests sent, with their times and how many
                  \* had been sent when the call came to the throttle

httpVars == <<ms, cache, lastRequestAt, calls, sends>>

\* An answer is told apart by the request that got it, 0 when there is none.
NotCalled ==
  [phase |-> "new", key |-> CHOOSE k \in Keys : TRUE, attempt |-> 0,
   due |-> 0, came |-> 0, answer |-> 0, hit |-> FALSE]

Uncached == [answer |-> 0, expiresAt |-> Never]

HttpInit ==
  /\ ms = MinIntervalMs
  /\ cache = [k \in Keys |-> Uncached]
  /\ lastRequestAt = 0
  /\ calls = [c \in Calls |-> NotCalled]
  /\ sends = <<>>

HttpTypeOK ==
  /\ ms \in MinIntervalMs .. MaxMs
  /\ cache \in [Keys -> [answer : 0 .. Len(sends),
                         expiresAt : {Never} \cup 0 .. MaxMs + CacheTtlMs]]
  /\ lastRequestAt \in 0 .. ms
  /\ calls \in [Calls ->
       [phase : {"new", "throttled", "backoff", "sent", "done", "failed"},
        key : Keys, attempt : 0 .. MaxRetries + 1, due : Nat,
        came : 0 .. Len(sends), answer : 0 .. Len(sends), hit : BOOLEAN]]
  /\ \A i \in DOMAIN sends :
       sends[i] \in [time : 0 .. ms, call : Calls, after : 0 .. i - 1]

-----------------------------------------------------------------------------
(* The throttle: an attempt waits once, for what was left of the interval  *)
(* when it came, and is not delayed again by what was sent meanwhile.      *)

Sent(c, call) ==
  /\ lastRequestAt' = ms
  /\ sends' = Append(sends, [time |-> ms, call |-> c, after |-> call.came])
  /\ calls' = [calls EXCEPT ![c] = [call EXCEPT !.phase = "sent"]]

\* Mutant: the wait is one short.
WaitsShort(c, call) ==
  LET came == [call EXCEPT !.came = Len(sends), !.attempt = @ + 1] IN
  IF ms - lastRequestAt < MinIntervalMs - 1
  THEN /\ calls' = [calls EXCEPT ![c] =
            [came EXCEPT !.phase = "throttled",
                         !.due = lastRequestAt + MinIntervalMs - 1]]
       /\ UNCHANGED <<lastRequestAt, sends>>
  ELSE Sent(c, came)

Throttle(c, call) ==
  LET came == [call EXCEPT !.came = Len(sends), !.attempt = @ + 1] IN
  IF ms - lastRequestAt < MinIntervalMs
  THEN /\ calls' = [calls EXCEPT ![c] =
            [came EXCEPT !.phase = "throttled",
                         !.due = lastRequestAt + MinIntervalMs]]
       /\ UNCHANGED <<lastRequestAt, sends>>
  ELSE Sent(c, came)

-----------------------------------------------------------------------------
(* fetchJson.                                                              *)

Cached(key) == cache[key].expiresAt > ms

FetchCached(c, key) ==
  /\ calls[c].phase = "new"
  /\ Cached(key)
  /\ calls' = [calls EXCEPT ![c] =
       [@ EXCEPT !.phase = "done", !.key = key, !.hit = TRUE,
                 !.answer = cache[key].answer]]
  /\ UNCHANGED <<ms, cache, lastRequestAt, sends>>

FetchRemote(c, key) ==
  /\ calls[c].phase = "new"
  /\ ~Cached(key)
  /\ Throttle(c, [calls[c] EXCEPT !.key = key])
  /\ UNCHANGED <<ms, cache>>

ThrottleWaited(c) ==
  /\ calls[c].phase = "throttled"
  /\ calls[c].due <= ms
  /\ Sent(c, calls[c])
  /\ UNCHANGED <<ms, cache>>

\* The request of the call's attempt.
RequestOf(c) ==
  CHOOSE i \in DOMAIN sends :
    /\ sends[i].call = c
    /\ \A j \in i + 1 .. Len(sends) : sends[j].call # c

\* Mutant: the URL is not part of the cache key.
CachesForEveryKey(c) ==
  cache' = [k \in Keys |-> [answer |-> RequestOf(c), expiresAt |-> ms + CacheTtlMs]]

\* Whichever answer comes last is the one that stays.
CachesAnswer(c) ==
  cache' = [cache EXCEPT ![calls[c].key] =
    [answer |-> RequestOf(c), expiresAt |-> ms + CacheTtlMs]]

Answered(c) ==
  /\ calls[c].phase = "sent"
  /\ CachesAnswer(c)
  /\ calls' = [calls EXCEPT ![c].phase = "done", ![c].answer = RequestOf(c)]
  /\ UNCHANGED <<ms, lastRequestAt, sends>>

\* Mutant: the limit is compared with one attempt too few.
AttemptFailsEarly(c) ==
  /\ calls[c].phase = "sent"
  /\ IF calls[c].attempt > MaxRetries + 1
     THEN calls' = [calls EXCEPT ![c].phase = "failed"]
     ELSE calls' = [calls EXCEPT ![c].phase = "backoff",
                      ![c].due = ms + BaseBackoffMs * calls[c].attempt]
  /\ UNCHANGED <<ms, cache, lastRequestAt, sends>>

\* A status, a network error or a body that is not JSON: all are retried.
AttemptFails(c) ==
  /\ calls[c].phase = "sent"
  /\ IF calls[c].attempt > MaxRetries
     THEN calls' = [calls EXCEPT ![c].phase = "failed"]
     ELSE calls' = [calls EXCEPT ![c].phase = "backoff",
                      ![c].due = ms + BaseBackoffMs * calls[c].attempt]
  /\ UNCHANGED <<ms, cache, lastRequestAt, sends>>

Retry(c) ==
  /\ calls[c].phase = "backoff"
  /\ calls[c].due <= ms
  /\ Throttle(c, calls[c])
  /\ UNCHANGED <<ms, cache>>

TimePasses ==
  /\ ms < MaxMs
  /\ ms' = ms + 1
  /\ UNCHANGED <<cache, lastRequestAt, calls, sends>>

HttpNext ==
  \/ TimePasses
  \/ \E c \in Calls :
       \/ ThrottleWaited(c) \/ Answered(c) \/ AttemptFails(c) \/ Retry(c)
       \/ \E key \in Keys : FetchCached(c, key) \/ FetchRemote(c, key)

HttpSpec == HttpInit /\ [][HttpNext]_httpVars

-----------------------------------------------------------------------------
(* What the kernel promises.                                               *)

\* The throttle lets two requests pass closer than the interval only when the
\* later one was already waiting in it before the earlier one was sent; so one
\* call's own attempts, and calls that do not overlap, are always spaced
\* (throttle).
SpacedUnlessTogether ==
  \A i, j \in DOMAIN sends :
    (i < j /\ sends[j].time - sends[i].time < MinIntervalMs) =>
      sends[j].after < i

\* A call that did not send a request has the answer of an earlier request for
\* its own key, and a call that did has the answer of its last attempt; at most
\* MaxRetries + 1 requests are sent for a call (fetchJson).
AnswerOfOwnKey ==
  \A c \in Calls :
    /\ calls[c].phase = "done" =>
         /\ calls[sends[calls[c].answer].call].key = calls[c].key
         /\ calls[c].hit <=> sends[calls[c].answer].call # c
    /\ Cardinality({i \in DOMAIN sends : sends[i].call = c}) <= MaxRetries + 1
=============================================================================
