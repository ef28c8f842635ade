--------------------------- MODULE ConnectionProofs ---------------------------
(***************************************************************************)
(* Proofs about the two components that work over a connection, and about  *)
(* the seed files one of them reads.  The HTTP kernel, for any number of   *)
(* calls and keys and for every interval, backoff and time to live: the    *)
(* spacing of the requests, and that a call gets an answer for its own key *)
(* within its attempts.  The graph, for any seeds and constraints and any  *)
(* interleaving of the processes and their failures: that a completed sync *)
(* leaves no node out of the next exports, and that it leaves the graph of *)
(* one seed, with each entity once.  The seed command, for any source      *)
(* files, whatever is edited between its passes and wherever it dies: that *)
(* the edges of a whole command lead to rows it wrote.                     *)
(***************************************************************************)
EXTENDS HttpKernel, GraphSync, SeedFacts, FiniteSetTheorems,
        WellFoundedInduction, TLAPS

Phases == {"new", "throttled", "backoff", "sent", "done", "failed"}

CallRecords ==
  [phase : Phases, key : Keys, attempt : 0 .. MaxRetries + 1, due : Nat,
   came : Nat, answer : Nat, hit : BOOLEAN]

SendRecords == [time : Nat, call : Calls, after : Nat]

\* The requests sent for a call.
RequestsOf(c) == {i \in DOMAIN sends : sends[i].call = c}

IsLastOf(i, c) ==
  /\ i \in DOMAIN sends
  /\ sends[i].call = c
  /\ \A j \in i + 1 .. Len(sends) : sends[j].call # c

\* What holds of the record of a call in each of its phases.
CallSound(c, call) ==
  /\ call.came <= Len(sends)
  /\ call.answer <= Len(sends)
  /\ Cardinality(RequestsOf(c)) <= call.attempt
  /\ call.phase = "new" => RequestsOf(c) = {} /\ call.attempt = 0
  /\ call.phase = "throttled" =>
       /\ Cardinality(RequestsOf(c)) + 1 <= call.attempt
       /\ \A i \in 1 .. call.came : sends[i].time + MinIntervalMs <= call.due
  /\ call.phase = "backoff" => call.attempt <= MaxRetries
  /\ call.phase = "sent" => \E i \in DOMAIN sends : IsLastOf(i, c)
  /\ call.phase # "done" => ~call.hit
  /\ call.phase = "done" =>
       /\ call.answer \in DOMAIN sends
       /\ calls[sends[call.answer].call].key = call.key
       /\ call.hit <=> sends[call.answer].call # c

TypeInv ==
  /\ ms \in MinIntervalMs .. MaxMs
  /\ lastRequestAt \in 0 .. ms
  /\ calls \in [Calls -> CallRecords]
  /\ cache \in [Keys -> [answer : Nat, expiresAt : {Never} \cup 0 .. MaxMs + CacheTtlMs]]
  /\ sends \in Seq(SendRecords)

\* Every request came to the throttle after fewer requests than precede it,
\* and none is later than the last request that the throttle knows.
SendsInv ==
  /\ \A i \in DOMAIN sends :
       sends[i].time <= lastRequestAt /\ sends[i].after <= i - 1
  /\ SpacedUnlessTogether

CacheInv ==
  \A k \in Keys :
    /\ cache[k].answer <= Len(sends)
    /\ cache[k].expiresAt # Never =>
         /\ cache[k].answer \in DOMAIN sends
         /\ calls[sends[cache[k].answer].call].key = k

HttpInv ==
  /\ TypeInv
  /\ SendsInv
  /\ CacheInv
  /\ \A c \in Calls : CallSound(c, calls[c])

-----------------------------------------------------------------------------
(* Requests.                                                               *)

\* A request is a request of one call, and a call without any has no last one.
LEMMA RequestCall ==
  ASSUME TypeInv, NEW i \in DOMAIN sends
  PROVE  sends[i].call \in Calls /\ i \in RequestsOf(sends[i].call)
<1>1. sends[i] \in SendRecords
  BY DEF TypeInv
<1> QED
  BY <1>1 DEF SendRecords, RequestsOf

\* Sending adds one request to those of the call and none to the others'.
LEMMA RequestsGrow ==
  ASSUME TypeInv, NEW c \in Calls, NEW e \in SendRecords, e.call = c,
         sends' = Append(sends, e)
  PROVE  /\ Len(sends') = Len(sends) + 1
         /\ sends' \in Seq(SendRecords)
         /\ sends'[Len(sends) + 1] = e
         /\ \A i \in DOMAIN sends : i \in DOMAIN sends' /\ sends'[i] = sends[i]
         /\ DOMAIN sends' = DOMAIN sends \cup {Len(sends) + 1}
         /\ RequestsOf(c)' = RequestsOf(c) \cup {Len(sends) + 1}
         /\ \A d \in Calls : d # c => RequestsOf(d)' = RequestsOf(d)
<1>1. sends \in Seq(SendRecords)
  BY DEF TypeInv
<1>2. /\ Len(sends') = Len(sends) + 1
      /\ sends' \in Seq(SendRecords)
      /\ sends'[Len(sends) + 1] = e
      /\ \A i \in DOMAIN sends : i \in DOMAIN sends' /\ sends'[i] = sends[i]
      /\ DOMAIN sends' = DOMAIN sends \cup {Len(sends) + 1}
  BY <1>1
<1>3. RequestsOf(c)' = RequestsOf(c) \cup {Len(sends) + 1}
  BY <1>2 DEF RequestsOf
<1>4. ASSUME NEW d \in Calls, d # c
      PROVE  RequestsOf(d)' = RequestsOf(d)
  BY <1>2, <1>4 DEF RequestsOf
<1> QED
  BY <1>2, <1>3, <1>4

\* The requests of a call are finitely many.
LEMMA RequestsFinite ==
  ASSUME TypeInv, NEW c \in Calls
  PROVE  /\ IsFiniteSet(RequestsOf(c))
         /\ Cardinality(RequestsOf(c)) \in Nat
         /\ Len(sends) + 1 \notin RequestsOf(c)
<1>1. DOMAIN sends = 1 .. Len(sends) /\ Len(sends) \in Nat
  BY DEF TypeInv
<1>2. IsFiniteSet(1 .. Len(sends))
  BY <1>1, FS_Interval
<1>3. RequestsOf(c) \subseteq 1 .. Len(sends)
  BY <1>1 DEF RequestsOf
<1>4. IsFiniteSet(RequestsOf(c))
  BY <1>2, <1>3, FS_Subset
<1>5. Cardinality(RequestsOf(c)) \in Nat
  BY <1>4, FS_CardinalityType
<1>6. Len(sends) + 1 \notin RequestsOf(c)
  BY <1>1, <1>3
<1> QED
  BY <1>4, <1>5, <1>6

\* The request of a call that waits for its answer is its last one.
LEMMA RequestOfIsLast ==
  ASSUME TypeInv, NEW c \in Calls, \E i \in DOMAIN sends : IsLastOf(i, c)
  PROVE  RequestOf(c) \in DOMAIN sends /\ sends[RequestOf(c)].call = c
BY DEF IsLastOf, RequestOf

\* A step that leaves the calls and the requests alone leaves them sound.
LEMMA CallsUntouched ==
  ASSUME \A c \in Calls : CallSound(c, calls[c]), calls' = calls, sends' = sends
  PROVE  \A c \in Calls : CallSound(c, calls[c])'
<1> SUFFICES ASSUME NEW c \in Calls PROVE CallSound(c, calls[c])'
  OBVIOUS
<1>1. RequestsOf(c)' = RequestsOf(c) /\ \A i : IsLastOf(i, c)' <=> IsLastOf(i, c)
  BY DEF RequestsOf, IsLastOf
<1> QED
  BY <1>1 DEF CallSound

-----------------------------------------------------------------------------
(* The two ways a step changes a call.                                     *)

\* A step that sends nothing preserves the invariant if the new record is
\* sound and a call only chooses its key while it is new.
LEMMA MoveSound ==
  ASSUME HttpInv, NEW c \in Calls, NEW call \in CallRecords,
         calls' = [calls EXCEPT ![c] = call],
         UNCHANGED <<ms, lastRequestAt, sends>>,
         TypeInv', calls[c].phase = "new" \/ call.key = calls[c].key,
         CallSound(c, call),
         \A k \in Keys :
           \/ cache'[k] = cache[k]
           \/ /\ cache'[k].answer \in DOMAIN sends
              /\ calls[sends[cache'[k].answer].call].key = k
  PROVE  HttpInv'
<1> USE DEF HttpInv
<1>1. sends' = sends /\ lastRequestAt' = lastRequestAt /\ ms' = ms
  OBVIOUS
<1>2. calls \in [Calls -> CallRecords] /\ sends \in Seq(SendRecords)
  BY DEF TypeInv
<1>3. calls'[c] = call /\ \A d \in Calls : d # c => calls'[d] = calls[d]
  BY <1>2
<1>4. \A i \in DOMAIN sends :
        /\ sends[i].call \in Calls
        /\ calls'[sends[i].call].key = calls[sends[i].call].key
  <2> SUFFICES ASSUME NEW i \in DOMAIN sends
               PROVE  /\ sends[i].call \in Calls
                      /\ calls'[sends[i].call].key = calls[sends[i].call].key
    OBVIOUS
  <2>1. sends[i].call \in Calls /\ i \in RequestsOf(sends[i].call)
    BY RequestCall
  <2>2. sends[i].call = c => calls[c].phase # "new"
    BY <2>1 DEF CallSound
  <2> QED
    BY <1>3, <2>1, <2>2
<1>5. SendsInv'
  BY <1>1 DEF SendsInv, SpacedUnlessTogether
<1>6. CacheInv'
  <2> SUFFICES ASSUME NEW k \in Keys
               PROVE  /\ cache'[k].answer <= Len(sends)
                      /\ cache'[k].expiresAt # Never =>
                           /\ cache'[k].answer \in DOMAIN sends
                           /\ calls'[sends[cache'[k].answer].call].key = k
    BY <1>1 DEF CacheInv
  <2>1. CASE cache'[k] = cache[k]
    BY <2>1, <1>4 DEF CacheInv
  <2>2. CASE /\ cache'[k].answer \in DOMAIN sends
             /\ calls[sends[cache'[k].answer].call].key = k
    BY <2>2, <1>2, <1>4
  <2> QED
    BY <2>1, <2>2
<1>7. ASSUME NEW d \in Calls, NEW r \in CallRecords, CallSound(d, r)
      PROVE  CallSound(d, r)'
  <2>1. RequestsOf(d)' = RequestsOf(d)
    BY <1>1 DEF RequestsOf
  <2>2. \A i : IsLastOf(i, d)' <=> IsLastOf(i, d)
    BY <1>1 DEF IsLastOf
  <2>3. r.phase = "done" => calls'[sends[r.answer].call].key = r.key
    BY <1>4, <1>7 DEF CallSound
  <2> QED
    BY <1>1, <1>7, <2>1, <2>2, <2>3 DEF CallSound
<1>8. \A d \in Calls : CallSound(d, calls[d])'
  <2> SUFFICES ASSUME NEW d \in Calls PROVE CallSound(d, calls[d])'
    OBVIOUS
  <2>1. calls'[d] \in CallRecords /\ CallSound(d, calls'[d])
    BY <1>2, <1>3
  <2> QED
    BY <1>7, <2>1 DEF CallSound, RequestsOf, IsLastOf
<1> QED
  BY <1>5, <1>6, <1>8
\* A request sent at the end of an attempt preserves the invariant if those
\* closer to it than the interval were sent while its call waited.
LEMMA SentSound ==
  ASSUME HttpInv, NEW c \in Calls, NEW call \in CallRecords,
         Sent(c, call), UNCHANGED <<ms, cache>>,
         calls[c].phase = "new" \/ call.key = calls[c].key,
         calls[c].phase # "done", call.came <= Len(sends),
         call.answer <= Len(sends), ~call.hit,
         Cardinality(RequestsOf(c)) + 1 <= call.attempt,
         \A i \in DOMAIN sends :
           ms - sends[i].time < MinIntervalMs => call.came < i
  PROVE  HttpInv'
<1> USE DEF HttpInv
<1> DEFINE e == [time |-> ms, call |-> c, after |-> call.came]
<1> DEFINE new == [call EXCEPT !.phase = "sent"]
<1>1. /\ calls \in [Calls -> CallRecords] /\ sends \in Seq(SendRecords)
      /\ ms \in Nat /\ lastRequestAt \in 0 .. ms
  BY HttpAssumption DEF TypeInv
<1>2. /\ e \in SendRecords /\ sends' = Append(sends, e)
      /\ e.time = ms /\ e.call = c /\ e.after = call.came
  BY <1>1 DEF Sent, SendRecords, CallRecords
<1>3. /\ new \in CallRecords /\ calls' = [calls EXCEPT ![c] = new]
      /\ new.phase = "sent" /\ new.key = call.key /\ new.came = call.came
      /\ new.answer = call.answer /\ new.attempt = call.attempt
      /\ new.hit = call.hit
  BY DEF Sent, CallRecords, Phases
<1> HIDE DEF e, new
<1>4. /\ Len(sends') = Len(sends) + 1
      /\ sends' \in Seq(SendRecords)
      /\ sends'[Len(sends) + 1] = e
      /\ \A i \in DOMAIN sends : i \in DOMAIN sends' /\ sends'[i] = sends[i]
      /\ DOMAIN sends' = DOMAIN sends \cup {Len(sends) + 1}
      /\ RequestsOf(c)' = RequestsOf(c) \cup {Len(sends) + 1}
      /\ \A d \in Calls : d # c => RequestsOf(d)' = RequestsOf(d)
  BY <1>2, RequestsGrow
<1>5. /\ Len(sends) \in Nat /\ DOMAIN sends = 1 .. Len(sends)
      /\ \A i \in DOMAIN sends : sends[i] \in SendRecords
  BY <1>1
<1>6. calls'[c] = new /\ \A d \in Calls : d # c => calls'[d] = calls[d]
  BY <1>1, <1>3
<1>7. \A i \in DOMAIN sends :
        /\ sends[i].call \in Calls
        /\ calls'[sends[i].call].key = calls[sends[i].call].key
  <2> SUFFICES ASSUME NEW i \in DOMAIN sends
               PROVE  /\ sends[i].call \in Calls
                      /\ calls'[sends[i].call].key = calls[sends[i].call].key
    OBVIOUS
  <2>1. sends[i].call \in Calls /\ i \in RequestsOf(sends[i].call)
    BY RequestCall
  <2>2. sends[i].call = c => calls[c].phase # "new"
    BY <2>1 DEF CallSound
  <2> QED
    BY <1>3, <1>6, <2>1, <2>2
<1>8. TypeInv'
  <2>1. calls' \in [Calls -> CallRecords]
    BY <1>1, <1>3
  <2>2. lastRequestAt' = ms /\ ms' = ms /\ cache' = cache
    BY DEF Sent
  <2> QED
    BY <1>1, <1>4, <2>1, <2>2 DEF TypeInv
<1>9. SendsInv'
  <2>1. \A i \in DOMAIN sends : sends[i].time <= ms /\ sends[i].after <= i - 1
    BY <1>1, <1>5 DEF SendsInv, SendRecords
  <2>2. \A i \in DOMAIN sends' :
          sends'[i].time <= lastRequestAt' /\ sends'[i].after <= i - 1
    <3>1. lastRequestAt' = ms
      BY DEF Sent
    <3>2. e.time <= ms /\ e.after <= Len(sends) + 1 - 1
      BY <1>1, <1>2, <1>5
    <3> QED
      BY <1>4, <2>1, <3>1, <3>2
  <2>3. SpacedUnlessTogether'
    <3> SUFFICES ASSUME NEW i \in DOMAIN sends', NEW j \in DOMAIN sends', i < j,
                        sends'[j].time - sends'[i].time < MinIntervalMs
                 PROVE  sends'[j].after < i
      BY DEF SpacedUnlessTogether
    <3>1. i \in DOMAIN sends
      BY <1>4, <1>5
    <3>2. CASE j \in DOMAIN sends
      BY <1>4, <3>1, <3>2 DEF SendsInv, SpacedUnlessTogether
    <3>3. CASE j = Len(sends) + 1
      BY <1>2, <1>4, <3>1, <3>3
    <3> QED
      BY <1>4, <3>2, <3>3
  <2> QED
    BY <2>2, <2>3 DEF SendsInv
<1>10. CacheInv'
  <2> SUFFICES ASSUME NEW k \in Keys
               PROVE  /\ cache'[k].answer <= Len(sends')
                      /\ cache'[k].expiresAt # Never =>
                           /\ cache'[k].answer \in DOMAIN sends'
                           /\ calls'[sends'[cache'[k].answer].call].key = k
    BY DEF CacheInv
  <2>1. cache'[k] = cache[k] /\ cache[k].answer \in Nat
    BY DEF TypeInv
  <2> QED
    BY <1>4, <1>5, <1>7, <2>1 DEF CacheInv
<1>11. CallSound(c, calls[c])'
  <2>1. Cardinality(RequestsOf(c)') = Cardinality(RequestsOf(c)) + 1
    <3>1. IsFiniteSet(RequestsOf(c)) /\ Len(sends) + 1 \notin RequestsOf(c)
      BY RequestsFinite
    <3>2. Cardinality(RequestsOf(c) \cup {Len(sends) + 1}) =
            Cardinality(RequestsOf(c)) + 1
      BY <3>1, FS_AddElement
    <3> QED
      BY <1>4, <3>2
  <2>2. \E i \in DOMAIN sends' : IsLastOf(i, c)'
    <3>1. PICK n \in Nat : n = Len(sends) + 1
      BY <1>5
    <3>2. n \in DOMAIN sends' /\ sends'[n].call = c
      BY <1>2, <1>4, <3>1
    <3>3. \A j \in n + 1 .. Len(sends') : sends'[j].call # c
      BY <1>4, <1>5, <3>1
    <3> QED
      BY <3>2, <3>3 DEF IsLastOf
  <2>3. new.came \in Nat /\ new.answer \in Nat
    BY <1>3 DEF CallRecords
  <2> QED
    BY <1>3, <1>4, <1>5, <1>6, <2>1, <2>2, <2>3 DEF CallSound
<1>12. ASSUME NEW d \in Calls, d # c
       PROVE  CallSound(d, calls[d])'
  <2>1. CallSound(d, calls[d]) /\ calls'[d] = calls[d] /\ calls[d] \in CallRecords
    BY <1>1, <1>6, <1>12
  <2>2. RequestsOf(d)' = RequestsOf(d)
    BY <1>4, <1>12
  <2>3. calls[d].came \in Nat /\ calls[d].answer \in Nat
    BY <2>1 DEF CallRecords
  <2>4. ASSUME calls[d].phase = "throttled"
        PROVE  \A i \in 1 .. calls[d].came :
                 sends'[i].time + MinIntervalMs <= calls[d].due
    BY <1>4, <1>5, <2>1, <2>3, <2>4 DEF CallSound
  <2>5. ASSUME calls[d].phase = "sent"
        PROVE  \E i \in DOMAIN sends' : IsLastOf(i, d)'
    <3>1. PICK i \in DOMAIN sends : IsLastOf(i, d)
      BY <2>1, <2>5 DEF CallSound
    <3>2. i \in DOMAIN sends' /\ sends'[i].call = d
      BY <1>4, <3>1 DEF IsLastOf
    <3>3. \A j \in i + 1 .. Len(sends') : sends'[j].call # d
      BY <1>2, <1>4, <1>5, <1>12, <3>1 DEF IsLastOf
    <3> QED
      BY <3>2, <3>3 DEF IsLastOf
  <2>6. ASSUME calls[d].phase = "done"
        PROVE  /\ calls[d].answer \in DOMAIN sends'
               /\ calls'[sends'[calls[d].answer].call].key = calls[d].key
               /\ calls[d].hit <=> sends'[calls[d].answer].call # d
    BY <1>4, <1>7, <2>1, <2>6 DEF CallSound
  <2> QED
    BY <1>4, <1>5, <2>1, <2>2, <2>3, <2>4, <2>5, <2>6 DEF CallSound
<1> QED
  BY <1>8, <1>9, <1>10, <1>11, <1>12
-----------------------------------------------------------------------------
(* The steps.                                                              *)

\* An attempt that comes to the throttle waits or sends.
LEMMA ThrottleSound ==
  ASSUME HttpInv, NEW c \in Calls, NEW call \in CallRecords,
         Throttle(c, call), UNCHANGED <<ms, cache>>,
         calls[c].phase = "new" \/ call.key = calls[c].key,
         calls[c].phase \in {"new", "backoff"},
         call.answer <= Len(sends), call.attempt <= MaxRetries, ~call.hit,
         Cardinality(RequestsOf(c)) <= call.attempt
  PROVE  HttpInv'
<1> DEFINE came == [call EXCEPT !.came = Len(sends), !.attempt = @ + 1]
<1> DEFINE waiting == [came EXCEPT !.phase = "throttled",
                                   !.due = lastRequestAt + MinIntervalMs]
<1>1. /\ calls \in [Calls -> CallRecords] /\ Len(sends) \in Nat
      /\ DOMAIN sends = 1 .. Len(sends) /\ ms \in Nat /\ lastRequestAt \in Nat
      /\ MaxRetries \in Nat /\ MinIntervalMs \in Nat
      /\ \A i \in DOMAIN sends : sends[i] \in SendRecords
  BY HttpAssumption DEF HttpInv, TypeInv
<1>2. /\ came \in CallRecords /\ came.key = call.key /\ came.answer = call.answer
      /\ came.came = Len(sends) /\ came.attempt = call.attempt + 1
      /\ came.hit = call.hit
  <2>1. call.attempt + 1 \in 0 .. MaxRetries + 1
    BY <1>1 DEF CallRecords
  <2> QED
    BY <1>1, <2>1 DEF CallRecords
<1>3. /\ waiting \in CallRecords /\ waiting.key = call.key
      /\ waiting.answer = call.answer /\ waiting.came = Len(sends)
      /\ waiting.attempt = call.attempt + 1 /\ waiting.phase = "throttled"
      /\ waiting.due = lastRequestAt + MinIntervalMs /\ waiting.hit = call.hit
  <2> HIDE DEF came
  <2>1. lastRequestAt + MinIntervalMs \in Nat /\ "throttled" \in Phases
    BY <1>1 DEF Phases
  <2> QED
    BY <1>2, <2>1 DEF CallRecords
<1>4. Cardinality(RequestsOf(c)) \in Nat /\ call.attempt \in Nat
  BY <1>1, RequestsFinite DEF HttpInv, CallRecords
<1>5. \A i \in DOMAIN sends : sends[i].time \in Nat /\ sends[i].time <= lastRequestAt
  BY <1>1 DEF HttpInv, SendsInv, SendRecords
<1>6. CASE ms - lastRequestAt < MinIntervalMs
  <2>1. calls' = [calls EXCEPT ![c] = waiting] /\ UNCHANGED <<lastRequestAt, sends>>
    BY <1>6 DEF Throttle
  <2> HIDE DEF waiting
  <2>2. CallSound(c, waiting)
    <3>1. /\ waiting.came <= Len(sends) /\ waiting.answer <= Len(sends)
          /\ Cardinality(RequestsOf(c)) + 1 <= waiting.attempt
          /\ Cardinality(RequestsOf(c)) <= waiting.attempt
      BY <1>1, <1>3, <1>4
    <3>2. \A i \in 1 .. waiting.came : sends[i].time + MinIntervalMs <= waiting.due
      BY <1>1, <1>3, <1>5
    <3> QED
      BY <1>3, <3>1, <3>2 DEF CallSound
  <2>3. TypeInv'
    BY <1>1, <1>3, <2>1 DEF HttpInv, TypeInv
  <2> QED
    BY <1>3, <2>1, <2>2, <2>3, MoveSound
<1>7. CASE ~(ms - lastRequestAt < MinIntervalMs)
  <2>1. Sent(c, came)
    BY <1>7 DEF Throttle
  <2> HIDE DEF came
  <2>2. \A i \in DOMAIN sends : ~(ms - sends[i].time < MinIntervalMs)
    BY <1>1, <1>5, <1>7
  <2>3. Cardinality(RequestsOf(c)) + 1 <= came.attempt /\ came.came <= Len(sends)
    BY <1>1, <1>2, <1>4
  <2> QED
    BY <1>2, <2>1, <2>2, <2>3, SentSound
<1> QED
  BY <1>6, <1>7

LEMMA FetchSound ==
  ASSUME HttpInv, NEW c \in Calls, NEW key \in Keys,
         FetchCached(c, key) \/ FetchRemote(c, key)
  PROVE  HttpInv'
<1>1. /\ calls \in [Calls -> CallRecords] /\ Len(sends) \in Nat
      /\ DOMAIN sends = 1 .. Len(sends) /\ ms \in Nat /\ MaxRetries \in Nat
  BY HttpAssumption DEF HttpInv, TypeInv
<1>2. /\ calls[c] \in CallRecords /\ CallSound(c, calls[c])
      /\ calls[c].phase = "new"
  BY <1>1 DEF HttpInv, FetchCached, FetchRemote
<1>3. RequestsOf(c) = {} /\ calls[c].attempt = 0 /\ calls[c].answer <= Len(sends)
  BY <1>2 DEF CallSound
<1>4. CASE FetchCached(c, key)
  <2> DEFINE call == [calls[c] EXCEPT !.phase = "done", !.key = key, !.hit = TRUE,
                                      !.answer = cache[key].answer]
  <2>1. /\ calls' = [calls EXCEPT ![c] = call]
        /\ UNCHANGED <<ms, cache, lastRequestAt, sends>>
    BY <1>4 DEF FetchCached
  <2>2. /\ cache[key].answer \in DOMAIN sends
        /\ calls[sends[cache[key].answer].call].key = key
    BY <1>1, <1>4 DEF FetchCached, Cached, HttpInv, CacheInv, Never
  <2>3. sends[cache[key].answer].call # c
    BY <1>3, <2>2 DEF RequestsOf
  <2>4. /\ call \in CallRecords /\ call.phase = "done" /\ call.key = key
        /\ call.hit = TRUE /\ call.answer = cache[key].answer
        /\ call.came = calls[c].came /\ call.attempt = calls[c].attempt
    <3>1. cache[key].answer \in Nat /\ "done" \in Phases
      BY <1>1, <2>2 DEF Phases
    <3> QED
      BY <1>2, <3>1 DEF CallRecords
  <2> HIDE DEF call
  <2>5. CallSound(c, call)
    BY <1>1, <1>2, <2>2, <2>3, <2>4 DEF CallSound
  <2>6. TypeInv'
    BY <1>1, <2>1, <2>4 DEF HttpInv, TypeInv
  <2> QED
    BY <1>2, <2>1, <2>4, <2>5, <2>6, MoveSound
<1>5. CASE FetchRemote(c, key)
  <2> DEFINE call == [calls[c] EXCEPT !.key = key]
  <2>1. Throttle(c, call) /\ UNCHANGED <<ms, cache>>
    BY <1>5 DEF FetchRemote
  <2>2. /\ call \in CallRecords /\ call.answer = calls[c].answer
        /\ call.attempt = 0 /\ call.hit = calls[c].hit
    BY <1>2, <1>3 DEF CallRecords
  <2> HIDE DEF call
  <2>4. call.attempt <= MaxRetries /\ call.answer <= Len(sends) /\ ~call.hit
    BY <1>1, <1>2, <1>3, <2>2 DEF CallSound
  <2>3. Cardinality(RequestsOf(c)) <= call.attempt
    BY <1>3, <2>2, FS_EmptySet
  <2> QED
    BY <1>2, <2>1, <2>2, <2>3, <2>4, ThrottleSound
<1> QED
  BY <1>4, <1>5

LEMMA WaitedSound ==
  ASSUME HttpInv, NEW c \in Calls, ThrottleWaited(c)
  PROVE  HttpInv'
<1>1. /\ calls[c] \in CallRecords /\ CallSound(c, calls[c])
      /\ calls[c].phase = "throttled" /\ calls[c].due <= ms
      /\ Sent(c, calls[c]) /\ UNCHANGED <<ms, cache>>
  BY DEF HttpInv, TypeInv, ThrottleWaited
<1>2. /\ ms \in Nat /\ MinIntervalMs \in Nat /\ Len(sends) \in Nat
      /\ DOMAIN sends = 1 .. Len(sends)
      /\ \A i \in DOMAIN sends : sends[i] \in SendRecords
  BY HttpAssumption DEF HttpInv, TypeInv
<1>3. ASSUME NEW i \in DOMAIN sends, ms - sends[i].time < MinIntervalMs
      PROVE  calls[c].came < i
  <2>1. sends[i].time \in Nat /\ i \in Nat /\ i >= 1
    BY <1>2 DEF SendRecords
  <2>2. calls[c].came \in Nat /\ calls[c].due \in Nat
    BY <1>1 DEF CallRecords
  <2>3. i \in 1 .. calls[c].came => sends[i].time + MinIntervalMs <= calls[c].due
    BY <1>1 DEF CallSound
  <2> QED
    BY <1>1, <1>2, <1>3, <2>1, <2>2, <2>3
<1> QED
  BY <1>1, <1>3, SentSound DEF CallSound

LEMMA AnsweredSound ==
  ASSUME HttpInv, NEW c \in Calls, Answered(c)
  PROVE  HttpInv'
<1> DEFINE call == [calls[c] EXCEPT !.phase = "done", !.answer = RequestOf(c)]
<1> DEFINE entry == [answer |-> RequestOf(c), expiresAt |-> ms + CacheTtlMs]
<1>1. /\ calls \in [Calls -> CallRecords] /\ calls[c] \in CallRecords
      /\ CallSound(c, calls[c]) /\ calls[c].phase = "sent"
      /\ ms \in Nat /\ ms <= MaxMs /\ Len(sends) \in Nat
      /\ DOMAIN sends = 1 .. Len(sends) /\ CacheTtlMs \in Nat /\ MaxMs \in Nat
      /\ calls[c].key \in Keys
  <2>1. calls \in [Calls -> CallRecords] /\ calls[c] \in CallRecords
    BY DEF HttpInv, TypeInv
  <2>2. calls[c].key \in Keys
    BY <2>1 DEF CallRecords
  <2>3. ms \in Nat /\ ms <= MaxMs /\ MaxMs \in Nat /\ CacheTtlMs \in Nat
    BY HttpAssumption DEF HttpInv, TypeInv
  <2> QED
    BY <2>1, <2>2, <2>3 DEF HttpInv, TypeInv, Answered
<1>2. RequestOf(c) \in DOMAIN sends /\ sends[RequestOf(c)].call = c
  BY <1>1, RequestOfIsLast DEF HttpInv, CallSound
<1>3. calls' = [calls EXCEPT ![c] = call] /\ UNCHANGED <<ms, lastRequestAt, sends>>
  BY <1>1 DEF Answered
<1>4. cache' = [cache EXCEPT ![calls[c].key] = entry]
  BY DEF Answered, CachesAnswer
<1>5. /\ call \in CallRecords /\ call.phase = "done" /\ call.key = calls[c].key
      /\ call.hit = calls[c].hit /\ call.answer = RequestOf(c)
      /\ call.came = calls[c].came /\ call.attempt = calls[c].attempt
  <2>1. RequestOf(c) \in Nat /\ "done" \in Phases
    BY <1>1, <1>2 DEF Phases
  <2> QED
    BY <1>1, <2>1 DEF CallRecords
<1>6. /\ entry \in [answer : Nat, expiresAt : {Never} \cup 0 .. MaxMs + CacheTtlMs]
      /\ entry.answer = RequestOf(c)
  BY <1>1, <1>2
<1> HIDE DEF call, entry
<1>7. TypeInv'
  <2>1. calls' \in [Calls -> CallRecords]
    BY <1>1, <1>3, <1>5
  <2>2. cache' \in [Keys -> [answer : Nat, expiresAt : {Never} \cup 0 .. MaxMs + CacheTtlMs]]
    BY <1>4, <1>6 DEF HttpInv, TypeInv
  <2> QED
    BY <1>3, <2>1, <2>2 DEF HttpInv, TypeInv
<1>8. CallSound(c, call)
  BY <1>1, <1>2, <1>5 DEF CallSound
<1>9. ASSUME NEW k \in Keys
      PROVE  \/ cache'[k] = cache[k]
             \/ /\ cache'[k].answer \in DOMAIN sends
                /\ calls[sends[cache'[k].answer].call].key = k
  BY <1>2, <1>4, <1>6 DEF HttpInv, TypeInv
<1> QED
  BY <1>3, <1>5, <1>7, <1>8, <1>9, MoveSound

LEMMA FailsSound ==
  ASSUME HttpInv, NEW c \in Calls, AttemptFails(c)
  PROVE  HttpInv'
<1>1. /\ calls \in [Calls -> CallRecords] /\ calls[c] \in CallRecords
      /\ CallSound(c, calls[c]) /\ calls[c].phase = "sent"
      /\ ms \in Nat /\ MaxRetries \in Nat /\ BaseBackoffMs \in Nat
      /\ UNCHANGED <<ms, cache, lastRequestAt, sends>>
  BY HttpAssumption DEF HttpInv, TypeInv, AttemptFails
<1>2. ASSUME NEW call \in CallRecords, calls' = [calls EXCEPT ![c] = call],
             call.key = calls[c].key, CallSound(c, call)
      PROVE  HttpInv'
  <2>1. TypeInv'
    BY <1>1, <1>2 DEF HttpInv, TypeInv
  <2> QED
    BY <1>1, <1>2, <2>1, MoveSound
<1>3. CASE calls[c].attempt > MaxRetries
  <2> DEFINE call == [calls[c] EXCEPT !.phase = "failed"]
  <2>1. calls' = [calls EXCEPT ![c] = call]
    BY <1>1, <1>3 DEF AttemptFails
  <2>2. /\ call \in CallRecords /\ call.phase = "failed" /\ call.key = calls[c].key
        /\ call.came = calls[c].came /\ call.answer = calls[c].answer
        /\ call.attempt = calls[c].attempt /\ call.hit = calls[c].hit
    BY <1>1 DEF CallRecords, Phases
  <2> HIDE DEF call
  <2>3. CallSound(c, call)
    BY <1>1, <2>2 DEF CallSound
  <2> QED
    BY <1>2, <2>1, <2>2, <2>3
<1>4. CASE ~(calls[c].attempt > MaxRetries)
  <2> DEFINE call == [calls[c] EXCEPT !.phase = "backoff",
                                      !.due = ms + BaseBackoffMs * calls[c].attempt]
  <2>1. calls' = [calls EXCEPT ![c] = call]
    BY <1>1, <1>4 DEF AttemptFails
  <2>2. calls[c].attempt \in Nat /\ calls[c].attempt <= MaxRetries
    BY <1>1, <1>4 DEF CallRecords
  <2>3. ms + BaseBackoffMs * calls[c].attempt \in Nat
    BY <1>1, <2>2
  <2>4. /\ call \in CallRecords /\ call.phase = "backoff" /\ call.key = calls[c].key
        /\ call.came = calls[c].came /\ call.answer = calls[c].answer
        /\ call.attempt = calls[c].attempt /\ call.hit = calls[c].hit
    BY <1>1, <2>3 DEF CallRecords, Phases
  <2> HIDE DEF call
  <2>5. CallSound(c, call)
    BY <1>1, <2>2, <2>4 DEF CallSound
  <2> QED
    BY <1>2, <2>1, <2>4, <2>5
<1> QED
  BY <1>3, <1>4

LEMMA RetrySound ==
  ASSUME HttpInv, NEW c \in Calls, Retry(c)
  PROVE  HttpInv'
<1>1. /\ calls[c] \in CallRecords /\ CallSound(c, calls[c])
      /\ calls[c].phase = "backoff" /\ Throttle(c, calls[c])
      /\ UNCHANGED <<ms, cache>>
  BY DEF HttpInv, TypeInv, Retry
<1> QED
  BY <1>1, ThrottleSound DEF CallSound

LEMMA TimeSound ==
  ASSUME HttpInv, TimePasses
  PROVE  HttpInv'
<1>1. /\ ms' = ms + 1 /\ ms < MaxMs /\ cache' = cache
      /\ lastRequestAt' = lastRequestAt /\ calls' = calls /\ sends' = sends
  BY DEF TimePasses
<1>2. TypeInv'
  BY <1>1, HttpAssumption DEF HttpInv, TypeInv
<1>3. SendsInv'
  BY <1>1 DEF HttpInv, SendsInv, SpacedUnlessTogether
<1>4. CacheInv'
  BY <1>1 DEF HttpInv, CacheInv, Never
<1>5. \A c \in Calls : CallSound(c, calls[c])'
  BY <1>1, CallsUntouched DEF HttpInv
<1> QED
  BY <1>2, <1>3, <1>4, <1>5 DEF HttpInv

-----------------------------------------------------------------------------
(* The theorems about the HTTP kernel.                                     *)

LEMMA InitSound == HttpInit => HttpInv
<1> SUFFICES ASSUME HttpInit PROVE HttpInv
  OBVIOUS
<1>1. sends = <<>> /\ Len(sends) = 0 /\ DOMAIN sends = {}
  BY DEF HttpInit
<1>2. TypeInv
  <2>2. calls \in [Calls -> CallRecords]
    BY HttpAssumption DEF HttpInit, NotCalled, CallRecords, Phases
  <2>3. cache \in [Keys -> [answer : Nat, expiresAt : {Never} \cup 0 .. MaxMs + CacheTtlMs]]
    BY DEF HttpInit, Uncached
  <2> QED
    BY <2>2, <2>3, HttpAssumption DEF HttpInit, TypeInv
<1>3. SendsInv
  BY <1>1 DEF SendsInv, SpacedUnlessTogether
<1>4. CacheInv
  BY <1>1 DEF HttpInit, Uncached, CacheInv
<1>5. ASSUME NEW c \in Calls PROVE CallSound(c, calls[c])
  <2>1. RequestsOf(c) = {}
    BY <1>1 DEF RequestsOf
  <2>2. Cardinality(RequestsOf(c)) = 0
    BY <2>1, FS_EmptySet
  <2> QED
    BY <1>1, <2>1, <2>2 DEF HttpInit, NotCalled, CallSound
<1> QED
  BY <1>2, <1>3, <1>4, <1>5 DEF HttpInv

LEMMA StepSound == HttpInv /\ [HttpNext]_httpVars => HttpInv'
<1> SUFFICES ASSUME HttpInv, [HttpNext]_httpVars PROVE HttpInv'
  OBVIOUS
<1>1. CASE TimePasses
  BY <1>1, TimeSound
<1>2. ASSUME NEW c \in Calls,
             \/ ThrottleWaited(c) \/ Answered(c) \/ AttemptFails(c) \/ Retry(c)
             \/ \E key \in Keys : FetchCached(c, key) \/ FetchRemote(c, key)
      PROVE  HttpInv'
  BY <1>2, WaitedSound, AnsweredSound, FailsSound, RetrySound, FetchSound
<1>3. CASE UNCHANGED httpVars
  <2>1. /\ ms' = ms /\ cache' = cache /\ lastRequestAt' = lastRequestAt
        /\ calls' = calls /\ sends' = sends
    BY <1>3 DEF httpVars
  <2>2. TypeInv'
    BY <2>1 DEF HttpInv, TypeInv
  <2>3. SendsInv'
    BY <2>1 DEF HttpInv, SendsInv, SpacedUnlessTogether
  <2>4. CacheInv'
    BY <2>1 DEF HttpInv, CacheInv, Never
  <2>5. \A c \in Calls : CallSound(c, calls[c])'
    BY <2>1, CallsUntouched DEF HttpInv
  <2> QED
    BY <2>2, <2>3, <2>4, <2>5 DEF HttpInv
<1> QED
  BY <1>1, <1>2, <1>3 DEF HttpNext

LEMMA HttpInvariant == HttpSpec => []HttpInv
BY InitSound, StepSound, PTL DEF HttpSpec

\* The throttle spaces the requests, whatever calls there are and whenever they
\* come: two requests are closer than the interval only if the later one was
\* already waiting when the earlier one was sent (throttle).
THEOREM RequestsSpaced == HttpSpec => []SpacedUnlessTogether
<1>1. HttpInv => SpacedUnlessTogether
  BY DEF HttpInv, SendsInv
<1> QED
  BY <1>1, HttpInvariant, PTL

\* For any number of calls and keys, a call is answered with an answer for its
\* own key, its own or a cached one, and sends at most MaxRetries + 1 requests
\* (fetchJson).
THEOREM AnswersOwnKey == HttpSpec => []AnswerOfOwnKey
<1>1. HttpInv => AnswerOfOwnKey
  <2> SUFFICES ASSUME HttpInv, NEW c \in Calls
               PROVE  /\ calls[c].phase = "done" =>
                           /\ calls[sends[calls[c].answer].call].key = calls[c].key
                           /\ calls[c].hit <=> sends[calls[c].answer].call # c
                      /\ Cardinality(RequestsOf(c)) <= MaxRetries + 1
    BY DEF AnswerOfOwnKey, RequestsOf
  <2>1. CallSound(c, calls[c]) /\ calls[c] \in CallRecords
    BY DEF HttpInv, TypeInv
  <2>2. Cardinality(RequestsOf(c)) \in Nat
    BY RequestsFinite DEF HttpInv
  <2> QED
    BY <2>1, <2>2, HttpAssumption DEF CallSound, CallRecords
<1> QED
  BY <1>1, HttpInvariant, PTL

-----------------------------------------------------------------------------
(* GraphSync: what holds of a graph that the last sync filled.             *)

Settled ==
  /\ outcome.ended = "ok" /\ outcome.overlapped = FALSE
  /\ syncing.phase \in {"idle", "connected"}

\* A node was exported, or an export since this time will have it.
Due(n, since) ==
  n.id \in exported \/ since = NeverSynced \/ n.updated > since

\* What an export has done of its work.
ExportInv ==
  /\ exporting.phase = "querying" => exporting.since = watermark
  /\ exporting.phase = "writing" =>
       \A n \in graph.nodes : n.id \in exported \cup exporting.ids
  /\ exporting.phase = "marking" => \A n \in graph.nodes : n.id \in exported

SyncShape ==
  /\ outcome = [ended |-> outcome.ended, overlapped |-> outcome.overlapped]
  /\ outcome.overlapped \in BOOLEAN
  /\ syncing = NotSyncing \/ DOMAIN syncing = {"phase", "seed", "rows", "time"}
  /\ syncing.phase \in {"idle", "connected", "dropped", "applying"}
  /\ syncing.phase = "idle" <=> syncing = NotSyncing
  /\ exporting = NotExporting \/ DOMAIN exporting = {"phase", "since", "time", "ids"}
  /\ exporting.phase \in {"idle", "querying", "writing", "marking"}
  /\ exporting.phase = "idle" <=> exporting = NotExporting

\* While the graph is being filled, no export runs, or it is remembered that
\* one did.
FillInv ==
  syncing.phase \in {"dropped", "applying"} =>
    outcome.ended = "none" /\ (outcome.overlapped = FALSE => exporting = NotExporting)

SyncInv ==
  /\ SyncShape
  /\ FillInv
  /\ Settled => ExportInv /\ \A n \in graph.nodes : Due(n, watermark)

-----------------------------------------------------------------------------
(* The steps of a sync.                                                    *)

\* A step between the drop and the end of a sync.
LEMMA FillStep ==
  ASSUME SyncInv, DropAll \/ ReadSeed \/ UpsertRow
  PROVE  SyncInv'
<1>1. /\ syncing.phase \in {"connected", "dropped", "applying"}
      /\ syncing # NotSyncing /\ DOMAIN syncing = {"phase", "seed", "rows", "time"}
      /\ exporting' = exporting
  BY DEF SyncInv, SyncShape, DropAll, ReadSeed, UpsertRow
<1>2. /\ syncing'.phase \in {"dropped", "applying"}
      /\ DOMAIN syncing' = {"phase", "seed", "rows", "time"}
      /\ syncing' # NotSyncing
  <2>1. CASE DropAll
    BY <1>1, <2>1 DEF DropAll, NotSyncing
  <2>2. CASE ReadSeed
    BY <1>1, <2>2 DEF ReadSeed, NotSyncing
  <2>3. CASE UpsertRow
    BY <1>1, <2>3 DEF UpsertRow, NotSyncing
  <2> QED
    BY <2>1, <2>2, <2>3
<1>3. /\ outcome' = [ended |-> outcome'.ended, overlapped |-> outcome'.overlapped]
      /\ outcome'.ended = "none" /\ outcome'.overlapped \in BOOLEAN
      /\ outcome'.overlapped = FALSE => exporting = NotExporting
  <2>1. CASE DropAll
    BY <2>1 DEF DropAll
  <2>2. CASE ReadSeed \/ UpsertRow
    BY <2>2 DEF ReadSeed, UpsertRow, SyncInv, SyncShape, FillInv
  <2> QED
    BY <2>1, <2>2
<1>4. SyncShape'
  BY <1>1, <1>2, <1>3 DEF SyncInv, SyncShape
<1> QED
  BY <1>1, <1>2, <1>3, <1>4 DEF SyncInv, FillInv, Settled

LEMMA SyncConnectsStep ==
  ASSUME SyncInv, SyncConnects
  PROVE  SyncInv'
<1>1. /\ syncing = NotSyncing /\ syncing'.phase = "connected"
      /\ DOMAIN syncing' = {"phase", "seed", "rows", "time"}
      /\ syncing' # NotSyncing
  BY DEF SyncConnects, NotSyncing
<1>2. UNCHANGED <<graph, watermark, exporting, exported, outcome>>
  BY DEF SyncConnects
<1>3. SyncShape'
  BY <1>1, <1>2 DEF SyncInv, SyncShape
<1>4. FillInv'
  BY <1>1 DEF FillInv
<1>5. Settled' => Settled
  BY <1>1, <1>2 DEF Settled, NotSyncing
<1> QED
  BY <1>2, <1>3, <1>4, <1>5 DEF SyncInv, ExportInv, Due

LEMMA SyncEndsStep ==
  ASSUME SyncInv, SyncEnds
  PROVE  SyncInv'
<1>1. /\ syncing.phase = "applying" /\ syncing' = NotSyncing
      /\ syncing'.phase = "idle" /\ watermark' = NeverSynced
      /\ UNCHANGED <<graph, exporting, exported>>
      /\ outcome' = [outcome EXCEPT !.ended = "ok"]
  BY DEF SyncEnds, NotSyncing
<1>2. outcome' = [ended |-> "ok", overlapped |-> outcome.overlapped]
  BY <1>1 DEF SyncInv, SyncShape
<1>3. SyncShape' /\ FillInv'
  BY <1>1, <1>2 DEF SyncInv, SyncShape, FillInv
<1>4. Settled' => exporting = NotExporting
  BY <1>1, <1>2 DEF SyncInv, FillInv, Settled
<1>5. Settled' => ExportInv' /\ \A n \in graph'.nodes : Due(n, watermark)'
  BY <1>1, <1>4 DEF ExportInv, Due, NotExporting
<1> QED
  BY <1>3, <1>5 DEF SyncInv

\* A sync that fails before it drops the graph leaves what the last one did.
LEMMA SyncFailsStep ==
  ASSUME SyncInv, SyncFails
  PROVE  SyncInv'
<1>1. /\ syncing' = NotSyncing /\ syncing'.phase = "idle"
      /\ UNCHANGED <<graph, watermark, exporting, exported>>
      /\ outcome' = [outcome EXCEPT !.ended =
           IF syncing.phase = "connected" THEN @ ELSE "failed"]
  BY DEF SyncFails, NotSyncing
<1>2. outcome' = [ended |-> IF syncing.phase = "connected" THEN outcome.ended
                            ELSE "failed",
                  overlapped |-> outcome.overlapped]
  BY <1>1 DEF SyncInv, SyncShape
<1>3. SyncShape' /\ FillInv'
  BY <1>1, <1>2 DEF SyncInv, SyncShape, FillInv
<1>4. Settled' => Settled
  BY <1>1, <1>2 DEF Settled
<1> QED
  BY <1>1, <1>3, <1>4 DEF SyncInv, ExportInv, Due

-----------------------------------------------------------------------------
(* The steps of an export.                                                 *)

LEMMA ExportStartsStep ==
  ASSUME SyncInv, ExportStarts
  PROVE  SyncInv'
<1>1. /\ exporting' = [phase |-> "querying", since |-> watermark, time |-> now + 1,
                       ids |-> {}]
      /\ UNCHANGED <<graph, watermark, syncing, exported>>
      /\ outcome' = [outcome EXCEPT !.overlapped = @ \/ syncing # NotSyncing]
  BY DEF ExportStarts
<1>2. /\ exporting'.phase = "querying" /\ exporting'.since = watermark
      /\ DOMAIN exporting' = {"phase", "since", "time", "ids"}
      /\ exporting' # NotExporting
  BY <1>1 DEF NotExporting
<1>3. outcome' = [ended |-> outcome.ended,
                  overlapped |-> outcome.overlapped \/ syncing # NotSyncing]
  BY <1>1 DEF SyncInv, SyncShape
<1>4. SyncShape'
  BY <1>1, <1>2, <1>3 DEF SyncInv, SyncShape
<1>5. outcome'.overlapped = FALSE => outcome.overlapped = FALSE /\ syncing = NotSyncing
  BY <1>3 DEF SyncInv, SyncShape
<1>6. FillInv'
  BY <1>1, <1>3, <1>5 DEF SyncInv, SyncShape, FillInv
<1>7. Settled' => Settled
  BY <1>1, <1>3, <1>5 DEF Settled
<1>8. Settled' => ExportInv' /\ \A n \in graph'.nodes : Due(n, watermark)'
  BY <1>1, <1>2, <1>7 DEF SyncInv, ExportInv, Due
<1> QED
  BY <1>4, <1>6, <1>8 DEF SyncInv

\* An export that reads, writes, marks or fails.
LEMMA ExportStep ==
  ASSUME SyncInv, ReadNodes \/ WriteExport \/ ExportEnds \/ ExportFails
  PROVE  SyncInv'
<1>1. /\ exporting # NotExporting
      /\ DOMAIN exporting = {"phase", "since", "time", "ids"}
      /\ UNCHANGED <<graph, syncing, outcome>>
  BY DEF SyncInv, SyncShape, ReadNodes, WriteExport, ExportEnds, ExportFails,
         NotExporting
<1>2. \/ exporting' = NotExporting /\ exporting'.phase = "idle"
      \/ /\ exporting' # NotExporting
         /\ DOMAIN exporting' = {"phase", "since", "time", "ids"}
         /\ exporting'.phase \in {"writing", "marking"}
  <2>1. CASE ReadNodes
    BY <1>1, <2>1 DEF ReadNodes, NotExporting
  <2>2. CASE WriteExport
    BY <1>1, <2>2 DEF WriteExport, NotExporting
  <2>3. CASE ExportEnds \/ ExportFails
    BY <2>3 DEF ExportEnds, ExportFails, NotExporting
  <2> QED
    BY <2>1, <2>2, <2>3
<1>3. SyncShape'
  BY <1>1, <1>2 DEF SyncInv, SyncShape, NotExporting
<1>4. FillInv'
  BY <1>1 DEF SyncInv, FillInv
<1>5. ASSUME Settled'
      PROVE  ExportInv' /\ \A n \in graph'.nodes : Due(n, watermark)'
  <2>1. Settled /\ ExportInv /\ \A n \in graph.nodes : Due(n, watermark)
    BY <1>1, <1>5 DEF SyncInv, Settled
  <2>2. CASE ReadNodes
    <3>1. /\ exporting'.phase = "writing" /\ exporting.phase = "querying"
          /\ exporting'.ids = {n.id : n \in {m \in graph.nodes :
               exporting.since = NeverSynced \/ m.updated > exporting.since}}
      BY <1>1, <2>2 DEF ReadNodes
    <3>2. exported' = exported /\ watermark' = watermark
      BY <2>2 DEF ReadNodes
    <3>3. \A n \in graph.nodes : n.id \in exported \cup exporting'.ids
      BY <2>1, <3>1 DEF ExportInv, Due
    <3> QED
      BY <1>1, <2>1, <3>1, <3>2, <3>3 DEF ExportInv, Due
  <2>3. CASE WriteExport
    <3>1. /\ exporting'.phase = "marking" /\ exporting.phase = "writing"
          /\ exported' = exported \cup exporting.ids /\ watermark' = watermark
      BY <1>1, <2>3 DEF WriteExport
    <3> QED
      BY <1>1, <2>1, <3>1 DEF ExportInv, Due
  <2>4. CASE ExportEnds
    <3>1. exporting'.phase = "idle" /\ exporting.phase = "marking" /\ exported' = exported
      BY <2>4 DEF ExportEnds, NotExporting
    <3> QED
      BY <1>1, <2>1, <3>1 DEF ExportInv, Due
  <2>5. CASE ExportFails
    <3>1. exporting'.phase = "idle" /\ exported' = exported /\ watermark' = watermark
      BY <2>5 DEF ExportFails, NotExporting
    <3> QED
      BY <1>1, <2>1, <3>1 DEF ExportInv, Due
  <2> QED
    BY <2>2, <2>3, <2>4, <2>5
<1> QED
  BY <1>3, <1>4, <1>5 DEF SyncInv

-----------------------------------------------------------------------------
(* The theorem about the graph.                                            *)

LEMMA SyncInvariant == GraphSpec => []SyncInv
<1>1. GraphInit => SyncInv
  BY DEF GraphInit, SyncInv, SyncShape, FillInv, Settled, NotSyncing, NotExporting
<1>2. SyncInv /\ [GraphNext]_graphVars => SyncInv'
  <2> SUFFICES ASSUME SyncInv, [GraphNext]_graphVars PROVE SyncInv'
    OBVIOUS
  <2>1. CASE UNCHANGED graphVars
    <3>1. UNCHANGED <<graph, watermark, syncing, exporting, exported, outcome>>
      BY <2>1 DEF graphVars
    <3> QED
      BY <3>1 DEF SyncInv, SyncShape, FillInv, Settled, ExportInv, Due
  <2> QED
    BY <2>1, FillStep, SyncConnectsStep, SyncEndsStep, SyncFailsStep,
       ExportStartsStep, ExportStep DEF GraphNext
<1> QED
  BY <1>1, <1>2, PTL DEF GraphSpec

\* Whatever processes run, fail and overlap otherwise: after a sync that ended
\* well and that no export ran into, every node has been exported or will be
\* in the next export (sync, exportSnapshot).
THEOREM NoDeltaLost == GraphSpec => []NothingLeftOut
<1>1. SyncInv => NothingLeftOut
  BY DEF SyncInv, SyncShape, Settled, Due, NothingLeftOut
<1> QED
  BY <1>1, SyncInvariant, PTL
-----------------------------------------------------------------------------
(* The rows of a seed that are kept.                                       *)

LEMMA LeastElement ==
  ASSUME NEW S, S \subseteq Nat, S # {}
  PROVE  \E m \in S : \A n \in S : m <= n
<1>1. PICK m \in S : \A n \in S : <<n, m>> \notin OpToRel(<, Nat)
  BY WFMin, NatLessThanWellFounded, Zenon
<1>2. \A n \in S : ~ (n < m) BY <1>1 DEF OpToRel
<1> QED
  BY <1>2

KeyedOf(seed) == {row \in ToSet(seed) : IsKeyed(row)}

KeysOf(rows) == {row.key : row \in rows}

\* A row more leaves a list of keyed rows, and adds its key and no other.
LEMMA WithRowSound ==
  ASSUME NEW R, NEW rows \in Seq(R), NEW row \in R, IsKeyed(row)
  PROVE  /\ WithRow(rows, row) \in Seq(R)
         /\ KeysOf(ToSet(WithRow(rows, row))) = KeysOf(ToSet(rows)) \cup {row.key}
<1>1. /\ DOMAIN rows = 1 .. Len(rows) /\ Len(rows) \in Nat
      /\ \A i \in 1 .. Len(rows) : rows[i] \in R
  OBVIOUS
<1>2. CASE \A i \in DOMAIN rows : rows[i].key # row.key
  <2>1. WithRow(rows, row) = Append(rows, row)
    BY <1>2 DEF WithRow
  <2>2. PICK kept : kept = Append(rows, row)
    OBVIOUS
  <2>3. /\ kept \in Seq(R) /\ Len(kept) = Len(rows) + 1
        /\ DOMAIN kept = 1 .. Len(rows) + 1
        /\ \A i \in 1 .. Len(rows) : kept[i] = rows[i]
        /\ kept[Len(rows) + 1] = row
    BY <2>2
  <2>4. ToSet(kept) = ToSet(rows) \cup {row}
    BY <1>1, <2>3 DEF ToSet
  <2> QED
    BY <2>1, <2>2, <2>3, <2>4 DEF KeysOf
<1>3. CASE \E i \in DOMAIN rows : rows[i].key = row.key
  <2>1. PICK kept : kept = WithRow(rows, row)
    OBVIOUS
  <2>2. kept = [i \in DOMAIN rows |->
                  IF rows[i].key = row.key THEN ResolveConflict(rows[i], row)
                  ELSE rows[i]]
    BY <1>3, <2>1 DEF WithRow
  <2>3. \A i \in 1 .. Len(rows) : kept[i] \in R /\ kept[i].key = rows[i].key
    <3> TAKE i \in 1 .. Len(rows)
    <3>1. \/ kept[i] = rows[i]
          \/ kept[i] = row /\ rows[i].key = row.key
      BY <1>1, <2>2 DEF ResolveConflict
    <3> QED
      BY <1>1, <3>1
  <2>4. kept \in Seq(R) /\ DOMAIN kept = 1 .. Len(rows)
    BY <1>1, <2>2, <2>3
  <2>5. ToSet(kept) = {kept[i] : i \in 1 .. Len(rows)}
    BY <2>4 DEF ToSet
  <2>6. ToSet(rows) = {rows[i] : i \in 1 .. Len(rows)}
    BY <1>1 DEF ToSet
  <2>7. KeysOf(ToSet(kept)) = KeysOf(ToSet(rows))
    BY <2>3, <2>5, <2>6 DEF KeysOf
  <2>8. row.key \in KeysOf(ToSet(rows))
    BY <1>1, <1>3, <2>6 DEF KeysOf
  <2> QED
    BY <2>1, <2>4, <2>7, <2>8
<1> QED
  BY <1>2, <1>3

KeyedUpTo(K, seed, n) ==
  K = [i \in 0 .. n |-> IF i = 0 THEN <<>> ELSE WithRow(K[i - 1], seed[i])]

LEMMA KeyedExists ==
  ASSUME NEW seed, NEW n \in Nat
  PROVE  \E K : KeyedUpTo(K, seed, n)
<1> DEFINE Step(K, i) == IF i = 0 THEN <<>> ELSE WithRow(K[i - 1], seed[i])
           Bad == {k \in Nat : ~\E K : KeyedUpTo(K, seed, k)}
<1> SUFFICES ASSUME Bad # {} PROVE FALSE
  OBVIOUS
<1>1. PICK m \in Bad : \A k \in Bad : m <= k
  BY LeastElement
<1>2. m # 0
  <2>1. PICK K : K = [i \in 0 .. 0 |-> <<>>]
    OBVIOUS
  <2>2. K = [i \in 0 .. 0 |-> IF i = 0 THEN <<>> ELSE WithRow(K[i - 1], seed[i])]
    BY <2>1
  <2> QED
    BY <1>1, <2>2 DEF KeyedUpTo
<1>3. m - 1 \in Nat /\ m \in Nat /\ \E K : KeyedUpTo(K, seed, m - 1)
  BY <1>1, <1>2
<1>4. PICK K : K = [i \in 0 .. (m - 1) |-> Step(K, i)]
  BY <1>3 DEF KeyedUpTo
<1>5. PICK L : L = [i \in 0 .. m |-> Step(K, i)]
  OBVIOUS
<1>6. \A i \in 0 .. (m - 1) : L[i] = K[i]
  <2> HIDE DEF Step
  <2> TAKE i \in 0 .. (m - 1)
  <2>1. i \in 0 .. m
    BY <1>3
  <2>2. K[i] = Step(K, i)
    BY <1>4, Zenon
  <2>3. L[i] = Step(K, i)
    BY <1>5, <2>1, Zenon
  <2> QED
    BY <2>2, <2>3
<1>7. \A i \in 0 .. m : Step(K, i) = Step(L, i)
  <2> TAKE i \in 0 .. m
  <2>1. CASE i = 0
    BY <2>1
  <2>2. CASE i # 0
    <3>1. i - 1 \in 0 .. (m - 1)
      BY <2>2, <1>3
    <3>2. L[i - 1] = K[i - 1]
      BY <3>1, <1>6
    <3> QED
      BY <3>2, <2>2
  <2> QED
    BY <2>1, <2>2
<1>8. L = [i \in 0 .. m |-> Step(L, i)]
  <2> HIDE DEF Step
  <2> QED
    BY <1>5, <1>7
<1> QED
  BY <1>1, <1>8 DEF KeyedUpTo

LEMMA KeyedDefined ==
  ASSUME NEW seed, Len(seed) \in Nat
  PROVE  KeyedUpTo(Keyed(seed), seed, Len(seed))
<1>1. PICK n : n = Len(seed)
  OBVIOUS
<1>2. \E K : KeyedUpTo(K, seed, n)
  BY <1>1, KeyedExists
<1>3. \E K : K = [i \in 0 .. n |-> IF i = 0 THEN <<>> ELSE WithRow(K[i - 1], seed[i])]
  BY <1>2, Zenon DEF KeyedUpTo
<1>4. Keyed(seed) = CHOOSE K : K = [i \in 0 .. n |->
                      IF i = 0 THEN <<>> ELSE WithRow(K[i - 1], seed[i])]
  BY <1>1, Zenon DEF Keyed
<1> QED
  BY <1>1, <1>3, <1>4, Zenon DEF KeyedUpTo

\* The rows that are applied are keyed rows of the seed, one for each key.
LEMMA KeyedSound ==
  ASSUME NEW seed \in Seeds
  PROVE  /\ KeyedRows(seed) \in Seq(KeyedOf(seed))
         /\ KeysOf(ToSet(KeyedRows(seed))) = KeysOf(KeyedOf(seed))
<1> DEFINE N == Len(seed)
           R == KeyedOf(seed)
           Upto(i) == {seed[j].key : j \in {k \in 1 .. i : IsKeyed(seed[k])}}
<1>1. /\ N \in Nat /\ DOMAIN seed = 1 .. N
      /\ \A i \in 1 .. N : seed[i] \in ToSet(seed)
  <2>1. seed \in Seq(ToSet(seed))
    BY RowsAssumption
  <2> QED
    BY <2>1
<1>2. PICK K : K = Keyed(seed)
  OBVIOUS
<1>3. /\ K[0] = <<>>
      /\ \A i \in 1 .. N : K[i] = WithRow(K[i - 1], seed[i])
  <2>1. KeyedUpTo(K, seed, N)
    BY <1>1, <1>2, KeyedDefined
  <2> HIDE DEF N
  <2>2. K = [i \in 0 .. N |-> IF i = 0 THEN <<>> ELSE WithRow(K[i - 1], seed[i])]
    BY <2>1, Zenon DEF KeyedUpTo
  <2>3. \A i \in 0 .. N : K[i] = IF i = 0 THEN <<>> ELSE WithRow(K[i - 1], seed[i])
    BY <2>2
  <2>4. 0 \in 0 .. N /\ \A i \in 1 .. N : i \in 0 .. N /\ i # 0
    BY <1>1
  <2> QED
    BY <2>3, <2>4
<1> DEFINE Good(i) == K[i] \in Seq(R) /\ KeysOf(ToSet(K[i])) = Upto(i)
           Bad == {i \in 0 .. N : ~Good(i)}
<1> HIDE DEF N, R
<1>4. Bad = {}
  <2> SUFFICES ASSUME Bad # {} PROVE FALSE
    OBVIOUS
  <2>1. PICK m \in Bad : \A k \in Bad : m <= k
    <3>1. Bad \subseteq Nat
      BY <1>1
    <3> QED
      BY <3>1, LeastElement
  <2>2. m # 0
    <3>1. K[0] \in Seq(R) /\ ToSet(K[0]) = {}
      BY <1>3 DEF ToSet
    <3>2. KeysOf({}) = {} /\ Upto(0) = {}
      BY DEF KeysOf
    <3> QED
      BY <3>1, <3>2, <2>1
  <2>3. m \in 1 .. N /\ m - 1 \in 0 .. N
    BY <2>1, <2>2, <1>1
  <2>4. Good(m - 1)
    <3>1. m \in Nat /\ ~(m <= m - 1)
      BY <2>3, <1>1
    <3> QED
      BY <2>1, <2>3, <3>1
  <2>5. PICK rows, row : rows = K[m - 1] /\ row = seed[m]
    OBVIOUS
  <2>6. K[m] = WithRow(rows, row) /\ rows \in Seq(R) /\ KeysOf(ToSet(rows)) = Upto(m - 1)
    BY <1>3, <2>3, <2>4, <2>5
  <2>7. 1 .. m = (1 .. (m - 1)) \cup {m}
    BY <2>3, <1>1
  <2>8. CASE IsKeyed(row)
    <3>1. row \in R
      BY <1>1, <2>3, <2>5, <2>8 DEF R, KeyedOf
    <3>2. K[m] \in Seq(R) /\ KeysOf(ToSet(K[m])) = Upto(m - 1) \cup {row.key}
      BY <2>6, <2>8, <3>1, WithRowSound
    <3>3. Upto(m) = Upto(m - 1) \cup {row.key}
      BY <2>5, <2>7, <2>8
    <3> QED
      BY <2>1, <3>2, <3>3
  <2>9. CASE ~IsKeyed(row)
    <3>1. K[m] = rows
      BY <2>6, <2>9 DEF WithRow
    <3>2. Upto(m) = Upto(m - 1)
      BY <2>5, <2>7, <2>9
    <3> QED
      BY <2>1, <2>6, <3>1, <3>2
  <2> QED
    BY <2>8, <2>9
<1>5. Good(N)
  <2>1. N \in 0 .. N
    BY <1>1
  <2> QED
    BY <2>1, <1>4
<1>6. Upto(N) = KeysOf(R)
  BY <1>1 DEF KeysOf, R, KeyedOf, ToSet
<1> QED
  BY <1>2, <1>5, <1>6 DEF KeyedRows, N, R

-----------------------------------------------------------------------------
(* What the graph holds of the rows that were applied.                     *)

MentionsOf(rows) == UNION {Mentions(row) : row \in rows}

RelsOf(rows) ==
  {[from |-> row.from, to |-> row.to] : row \in {r \in rows : r.kind = "rel"}}

\* One node for each entity the mentions are of, with the labels of one of
\* them, that every other is found by.
Holds(nodes, mentions) ==
  /\ {n.id : n \in nodes} = {m.id : m \in mentions}
  /\ \A m, n \in nodes : m.id = n.id => m = n
  /\ \A n \in nodes : \E m \in mentions : m.id = n.id /\ m.labels = n.labels
  /\ \A m \in mentions : \E n \in nodes : n.id = m.id /\ m.labels \subseteq n.labels

\* Mentions of one entity agree, or share a label with a constraint.
Agree(mentions) ==
  \A m, n \in mentions :
    m.id = n.id => m.labels = n.labels \/ m.labels \cap n.labels \cap Constrained # {}

LEMMA SeedAgrees ==
  ASSUME NEW seed \in Seeds
  PROVE  Agree(MentionsOf(KeyedOf(seed)))
BY RowsAssumption DEF Agree, MentionsOf, KeyedOf

\* An entity spoken of by one label, or by labels that clash with none, is
\* found if it is there at all.
LEMMA FoundIfThere ==
  ASSUME NEW mentions, NEW m \in mentions, NEW M, M \subseteq mentions,
         Agree(mentions), Holds(graph.nodes, M),
         \/ \E label : m.labels = {label}
         \/ Clashing(m.id, m.labels) = {},
         Matching(m.id, m.labels) = {}
  PROVE  \A n \in graph.nodes : n.id # m.id
<1> SUFFICES ASSUME NEW n \in graph.nodes, n.id = m.id PROVE FALSE
  OBVIOUS
<1>1. PICK k \in M : k.id = n.id /\ k.labels = n.labels
  BY DEF Holds
<1>2. \/ m.labels = n.labels
      \/ m.labels \cap n.labels \cap Constrained # {}
  BY <1>1 DEF Agree
<1>3. ~(m.labels \subseteq n.labels)
  BY DEF Matching
<1>4. n \in Clashing(m.id, m.labels)
  BY <1>2, <1>3 DEF Clashing
<1>5. PICK label : m.labels = {label}
  BY <1>4
<1> QED
  BY <1>2, <1>3, <1>5

\* A node with the labels of the first mention of a new entity.
LEMMA HoldsNew ==
  ASSUME NEW nodes, NEW M, Holds(nodes, M), NEW m, NEW node,
         node.id = m.id, node.labels = m.labels, \A n \in nodes : n.id # m.id
  PROVE  Holds(nodes \cup {node}, M \cup {m})
<1>1. {n.id : n \in nodes \cup {node}} = {k.id : k \in M \cup {m}}
  <2>1. {n.id : n \in nodes \cup {node}} = {n.id : n \in nodes} \cup {node.id}
    OBVIOUS
  <2>2. {k.id : k \in M \cup {m}} = {k.id : k \in M} \cup {m.id}
    OBVIOUS
  <2> QED
    BY <2>1, <2>2 DEF Holds
<1>2. \A k, n \in nodes \cup {node} : k.id = n.id => k = n
  BY DEF Holds
<1>3. \A n \in nodes \cup {node} : \E k \in M \cup {m} : k.id = n.id /\ k.labels = n.labels
  BY DEF Holds
<1>4. \A k \in M \cup {m} :
        \E n \in nodes \cup {node} : n.id = k.id /\ k.labels \subseteq n.labels
  BY DEF Holds
<1> QED
  BY <1>1, <1>2, <1>3, <1>4 DEF Holds

\* A mention that a node is found by.
LEMMA HoldsFound ==
  ASSUME NEW nodes, NEW M, Holds(nodes, M), NEW m,
         \E n \in nodes : n.id = m.id /\ m.labels \subseteq n.labels
  PROVE  Holds(nodes, M \cup {m})
<1>1. {k.id : k \in M \cup {m}} = {k.id : k \in M} \cup {m.id}
  OBVIOUS
<1>2. m.id \in {n.id : n \in nodes}
  OBVIOUS
<1> QED
  BY <1>1, <1>2 DEF Holds

\* Only the time of a node changes.
LEMMA HoldsTouched ==
  ASSUME NEW nodes, NEW M, Holds(nodes, M), NEW n \in nodes, NEW node,
         node.id = n.id, node.labels = n.labels
  PROVE  Holds((nodes \ {n}) \cup {node}, M)
<1> DEFINE after == (nodes \ {n}) \cup {node}
<1>1. {k.id : k \in after} = {k.id : k \in nodes}
  <2>1. {k.id : k \in after} = {k.id : k \in nodes \ {n}} \cup {node.id}
    OBVIOUS
  <2>2. {k.id : k \in nodes} = {k.id : k \in nodes \ {n}} \cup {n.id}
    OBVIOUS
  <2> QED
    BY <2>1, <2>2
<1>2. \A k, l \in after : k.id = l.id => k = l
  BY DEF Holds
<1>3. \A k \in after : \E m \in M : m.id = k.id /\ m.labels = k.labels
  BY DEF Holds
<1>4. \A m \in M : \E k \in after : k.id = m.id /\ m.labels \subseteq k.labels
  <2> TAKE m \in M
  <2>1. PICK k \in nodes : k.id = m.id /\ m.labels \subseteq k.labels
    BY DEF Holds
  <2> QED
    BY <2>1
<1> QED
  BY <1>1, <1>2, <1>3, <1>4 DEF Holds

LEMMA MergeNodeHolds ==
  ASSUME NEW row, row.kind = "node", NEW time, NEW mentions, NEW M,
         Mentions(row) \subseteq mentions, M \subseteq mentions, Agree(mentions),
         Holds(graph.nodes, M), ~Violates(row), DOMAIN graph = {"nodes", "rels"}
  PROVE  /\ Holds(MergeNode(row, time).nodes, M \cup Mentions(row))
         /\ MergeNode(row, time).rels = graph.rels
         /\ DOMAIN MergeNode(row, time) = {"nodes", "rels"}
<1> DEFINE m == [id |-> row.id, labels |-> row.labels]
           found == Matching(row.id, row.labels)
<1>1. Mentions(row) = {m} /\ m \in mentions /\ m.id = row.id /\ m.labels = row.labels
  BY DEF Mentions
<1>2. /\ MergeNode(row, time).rels = graph.rels
      /\ DOMAIN MergeNode(row, time) = {"nodes", "rels"}
      /\ MergeNode(row, time).nodes =
           (graph.nodes \ found)
             \cup {[id |-> row.id, labels |-> n.labels, updated |-> time] : n \in found}
             \cup IF found # {} THEN {}
                  ELSE {[id |-> row.id, labels |-> row.labels, updated |-> time]}
  BY DEF MergeNode
<1>3. CASE found = {}
  <2> DEFINE node == [id |-> row.id, labels |-> row.labels, updated |-> time]
  <2>1. \A n \in graph.nodes : n.id # m.id
    BY <1>1, <1>3, FoundIfThere DEF Violates
  <2>2. MergeNode(row, time).nodes = graph.nodes \cup {node}
    BY <1>2, <1>3
  <2>3. node.id = m.id /\ node.labels = m.labels
    OBVIOUS
  <2> HIDE DEF node, m
  <2> QED
    BY <1>1, <1>2, <2>1, <2>2, <2>3, HoldsNew
<1>4. CASE found # {}
  <2>1. PICK n \in graph.nodes : n.id = row.id /\ row.labels \subseteq n.labels
    BY <1>4 DEF Matching
  <2>2. found = {n}
    BY <2>1 DEF Matching, Holds
  <2> DEFINE node == [id |-> row.id, labels |-> n.labels, updated |-> time]
  <2>3. MergeNode(row, time).nodes = (graph.nodes \ {n}) \cup {node}
    BY <1>2, <1>4, <2>2
  <2>4. node.id = n.id /\ node.labels = n.labels
    BY <2>1
  <2> HIDE DEF node, m
  <2>5. Holds(graph.nodes, M \cup {m})
    BY <1>1, <2>1, HoldsFound
  <2> QED
    BY <1>1, <1>2, <2>1, <2>3, <2>4, <2>5, HoldsTouched
<1> QED
  BY <1>3, <1>4

\* One end of a relationship: found, or made.
EndNodes(id, label) ==
  IF Matching(id, {label}) # {} THEN {}
  ELSE {[id |-> id, labels |-> {label}, updated |-> NeverSynced]}

LEMMA MergeRelHolds ==
  ASSUME NEW row, row.kind = "rel", NEW mentions, NEW M,
         Mentions(row) \subseteq mentions, M \subseteq mentions, Agree(mentions),
         Holds(graph.nodes, M)
  PROVE  /\ Holds(MergeRel(row).nodes, M \cup Mentions(row))
         /\ MergeRel(row).rels = graph.rels \cup {[from |-> row.from, to |-> row.to]}
         /\ DOMAIN MergeRel(row) = {"nodes", "rels"}
<1>1. PICK from, to : /\ from = [id |-> row.from, labels |-> {row.fromLabel}]
                      /\ to = [id |-> row.to, labels |-> {row.toLabel}]
  OBVIOUS
<1>2. Mentions(row) = {from, to} /\ from \in mentions /\ to \in mentions
  BY <1>1 DEF Mentions
<1>3. /\ MergeRel(row).rels = graph.rels \cup {[from |-> row.from, to |-> row.to]}
      /\ DOMAIN MergeRel(row) = {"nodes", "rels"}
      /\ MergeRel(row).nodes = graph.nodes \cup EndNodes(row.from, row.fromLabel)
                                           \cup EndNodes(row.to, row.toLabel)
  BY DEF MergeRel, EndNodes
<1>4. ASSUME NEW m \in {from, to}, NEW label, m.labels = {label}
      PROVE  \/ /\ EndNodes(m.id, label) = {}
                /\ \E n \in graph.nodes : n.id = m.id /\ m.labels \subseteq n.labels
             \/ /\ \A n \in graph.nodes : n.id # m.id
                /\ \E node : /\ EndNodes(m.id, label) = {node}
                             /\ node.id = m.id /\ node.labels = m.labels
  <2>1. CASE Matching(m.id, {label}) # {}
    BY <1>4, <2>1 DEF EndNodes, Matching
  <2>2. CASE Matching(m.id, {label}) = {}
    <3>1. m \in mentions
      BY <1>2
    <3>2. \A n \in graph.nodes : n.id # m.id
      BY <1>4, <2>2, <3>1, FoundIfThere
    <3>3. PICK node : node = [id |-> m.id, labels |-> {label}, updated |-> NeverSynced]
      OBVIOUS
    <3>4. EndNodes(m.id, label) = {node} /\ node.id = m.id /\ node.labels = m.labels
      BY <1>4, <2>2, <3>3 DEF EndNodes
    <3> QED
      BY <3>2, <3>4
  <2> QED
    BY <2>1, <2>2
<1>5. PICK A, B : A = EndNodes(row.from, row.fromLabel) /\ B = EndNodes(row.to, row.toLabel)
  OBVIOUS
<1>6. \/ A = {} /\ \E n \in graph.nodes : n.id = from.id /\ from.labels \subseteq n.labels
      \/ /\ \A n \in graph.nodes : n.id # from.id
         /\ \E node : A = {node} /\ node.id = from.id /\ node.labels = from.labels
  <2>1. from.id = row.from /\ from.labels = {row.fromLabel}
    BY <1>1
  <2> QED
    BY <1>4, <1>5, <2>1
<1>7. \/ B = {} /\ \E n \in graph.nodes : n.id = to.id /\ to.labels \subseteq n.labels
      \/ /\ \A n \in graph.nodes : n.id # to.id
         /\ \E node : B = {node} /\ node.id = to.id /\ node.labels = to.labels
  <2>1. to.id = row.to /\ to.labels = {row.toLabel}
    BY <1>1
  <2> QED
    BY <1>4, <1>5, <2>1
<1>8. Holds(graph.nodes \cup A, M \cup {from})
  <2>1. CASE A = {}
    <3>1. \E n \in graph.nodes : n.id = from.id /\ from.labels \subseteq n.labels
      BY <1>6, <2>1
    <3>2. graph.nodes \cup A = graph.nodes
      BY <2>1
    <3> QED
      BY <3>1, <3>2, HoldsFound
  <2>2. CASE A # {}
    <3>1. PICK node : A = {node} /\ node.id = from.id /\ node.labels = from.labels
      BY <1>6, <2>2
    <3>2. \A n \in graph.nodes : n.id # from.id
      BY <1>6, <2>2
    <3> QED
      BY <3>1, <3>2, HoldsNew
  <2> QED
    BY <2>1, <2>2
<1>9. Holds(graph.nodes \cup A \cup B, M \cup {from} \cup {to})
  <2>1. CASE B = {}
    <3>1. \E n \in graph.nodes \cup A : n.id = to.id /\ to.labels \subseteq n.labels
      BY <1>7, <2>1
    <3>2. graph.nodes \cup A \cup B = graph.nodes \cup A
      BY <2>1
    <3> QED
      BY <1>8, <3>1, <3>2, HoldsFound
  <2>2. CASE B # {} /\ from.id = to.id
    <3>1. \A n \in graph.nodes : n.id # from.id
      BY <1>7, <2>2
    <3>2. A # {}
      BY <1>6, <3>1
    <3>3. from.labels = to.labels
      BY <1>1, <1>2, <2>2 DEF Agree
    <3>4. from = to
      BY <1>1, <2>2, <3>3
    <3>5. A = B
      BY <1>1, <1>5, <3>4
    <3>6. graph.nodes \cup A \cup B = graph.nodes \cup A /\ M \cup {from} \cup {to} = M \cup {from}
      BY <3>4, <3>5
    <3> QED
      BY <1>8, <3>6
  <2>3. CASE B # {} /\ from.id # to.id
    <3>1. PICK node : B = {node} /\ node.id = to.id /\ node.labels = to.labels
      BY <1>7, <2>3
    <3>2. \A n \in graph.nodes : n.id # to.id
      BY <1>7, <2>3
    <3>3. \A n \in A : n.id = from.id
      BY <1>6
    <3>4. \A n \in graph.nodes \cup A : n.id # to.id
      BY <2>3, <3>2, <3>3
    <3> QED
      BY <1>8, <3>1, <3>4, HoldsNew
  <2> QED
    BY <2>1, <2>2, <2>3
<1>10. M \cup {from} \cup {to} = M \cup Mentions(row)
  BY <1>2
<1> QED
  BY <1>3, <1>5, <1>9, <1>10

-----------------------------------------------------------------------------
\* The rows that are applied speak of what the seed speaks of.
LEMMA AppliedSpeakOfAll ==
  ASSUME NEW seed \in Seeds
  PROVE  /\ ToSet(KeyedRows(seed)) \subseteq KeyedOf(seed)
         /\ MentionsOf(ToSet(KeyedRows(seed))) = MentionsOf(KeyedOf(seed))
         /\ RelsOf(ToSet(KeyedRows(seed))) = RelsOf(KeyedOf(seed))
<1>1. PICK kept : kept = ToSet(KeyedRows(seed))
  OBVIOUS
<1>2. kept \subseteq KeyedOf(seed)
  <2>1. PICK rows \in Seq(KeyedOf(seed)) : rows = KeyedRows(seed)
    BY KeyedSound
  <2> QED
    BY <1>1, <2>1 DEF ToSet
<1>3. \A r \in KeyedOf(seed) : \E s \in kept : s.key = r.key
  BY <1>1, KeyedSound DEF KeysOf
<1>4. ASSUME NEW r \in KeyedOf(seed), NEW s \in KeyedOf(seed), s.key = r.key
      PROVE  /\ Mentions(r) = Mentions(s)
             /\ r.kind = s.kind
             /\ r.kind = "rel" => r.from = s.from /\ r.to = s.to
  <2>1. /\ r.kind = s.kind
        /\ r.kind = "node" => r.id = s.id /\ r.labels = s.labels
        /\ r.kind = "rel" => r.from = s.from /\ r.to = s.to
    BY <1>4, RowsAssumption DEF KeyedOf
  <2>2. CASE r.kind = "node"
    BY <2>1, <2>2 DEF Mentions
  <2>3. CASE r.kind = "rel"
    <3> DEFINE End(id, label) == [id |-> id, labels |-> {label}]
    <3>1. /\ Mentions(r) = {End(r.from, r.fromLabel), End(r.to, r.toLabel)}
          /\ Mentions(s) = {End(r.from, s.fromLabel), End(r.to, s.toLabel)}
      BY <2>1, <2>3 DEF Mentions
    <3>2. \A m \in Mentions(r), n \in Mentions(s) :
            m.id = n.id =>
              m.labels = n.labels \/ m.labels \cap n.labels \cap Constrained # {}
      BY RowsAssumption DEF KeyedOf
    <3>3. End(r.from, r.fromLabel) = End(r.from, s.fromLabel)
      <4>1. \/ {r.fromLabel} = {s.fromLabel}
            \/ {r.fromLabel} \cap {s.fromLabel} \cap Constrained # {}
        BY <3>1, <3>2
      <4> QED
        BY <4>1
    <3>4. End(r.to, r.toLabel) = End(r.to, s.toLabel)
      <4>1. \/ {r.toLabel} = {s.toLabel}
            \/ {r.toLabel} \cap {s.toLabel} \cap Constrained # {}
        BY <3>1, <3>2
      <4> QED
        BY <4>1
    <3> QED
      BY <2>1, <3>1, <3>3, <3>4
  <2> QED
    BY <2>2, <2>3 DEF KeyedOf, IsKeyed
<1>5. \A r \in KeyedOf(seed) : \E s \in kept : Mentions(s) = Mentions(r)
  BY <1>2, <1>3, <1>4
<1>6. MentionsOf(kept) = MentionsOf(KeyedOf(seed))
  BY <1>2, <1>5 DEF MentionsOf
<1>7. \A r \in KeyedOf(seed) :
        r.kind = "rel" => \E s \in kept : s.kind = "rel" /\ s.from = r.from /\ s.to = r.to
  BY <1>2, <1>3, <1>4
<1>8. RelsOf(kept) = RelsOf(KeyedOf(seed))
  BY <1>2, <1>7 DEF RelsOf
<1> QED
  BY <1>1, <1>2, <1>6, <1>8

-----------------------------------------------------------------------------
(* The invariant of a sync that its result rests on.                       *)

HoldsRows(rows) ==
  Holds(graph.nodes, MentionsOf(rows)) /\ graph.rels = RelsOf(rows)

\* The rows that were applied and those to apply are those of the seed.
Applied ==
  /\ syncing.rows \in Seq(KeyedOf(syncing.seed))
  /\ \E done \in SUBSET KeyedOf(syncing.seed) :
       /\ done \cup ToSet(syncing.rows) = ToSet(KeyedRows(syncing.seed))
       /\ HoldsRows(done)

SeedInv ==
  /\ DOMAIN graph = {"nodes", "rels"}
  /\ syncing # NotSyncing => syncing.seed \in Seeds
  /\ syncing.phase = "dropped" => graph.nodes = {} /\ graph.rels = {}
  /\ syncing.phase = "applying" => ~Refused(syncing.seed) /\ Applied
  /\ (outcome.ended = "ok" /\ syncing.phase \in {"idle", "connected"}) =>
       \E seed \in Seeds : ~Refused(seed) /\ HoldsRows(ToSet(KeyedRows(seed)))

LEMMA UpsertRowApplied ==
  ASSUME SyncInv, SeedInv, UpsertRow
  PROVE  Applied' /\ DOMAIN graph' = {"nodes", "rels"}
<1>1. /\ syncing.phase = "applying" /\ syncing.rows # <<>>
      /\ ~Violates(Head(syncing.rows))
      /\ graph' = Upserted(Head(syncing.rows), syncing.time)
      /\ syncing # NotSyncing
      /\ DOMAIN syncing = {"phase", "seed", "rows", "time"}
  BY DEF UpsertRow, SyncInv, SyncShape, NotSyncing
<1>2. syncing' = [syncing EXCEPT !.rows = Tail(syncing.rows)]
  BY DEF UpsertRow
<1>3. PICK seed \in Seeds : seed = syncing.seed /\ syncing'.seed = seed
  BY <1>1, <1>2 DEF SeedInv
<1>4. PICK rows \in Seq(KeyedOf(seed)) :
        rows = syncing.rows /\ rows # <<>> /\ syncing'.rows = Tail(rows)
  BY <1>1, <1>2, <1>3 DEF SeedInv, Applied
<1>5. PICK done \in SUBSET KeyedOf(seed) :
        done \cup ToSet(rows) = ToSet(KeyedRows(seed)) /\ HoldsRows(done)
  BY <1>1, <1>3, <1>4 DEF SeedInv, Applied
<1>6. PICK row, rest : row = Head(rows) /\ rest = Tail(rows)
  OBVIOUS
<1>7. row \in KeyedOf(seed) /\ rest \in Seq(KeyedOf(seed))
  BY <1>4, <1>6
<1>8. ToSet(rows) = {row} \cup ToSet(rest)
  <2>1. /\ DOMAIN rows = 1 .. Len(rows) /\ Len(rows) \in Nat /\ Len(rows) # 0
        /\ DOMAIN rest = 1 .. Len(rows) - 1
        /\ row = rows[1]
        /\ \A i \in 1 .. Len(rows) - 1 : rest[i] = rows[i + 1]
    BY <1>4, <1>6
  <2>2. \A i \in 1 .. Len(rows) : i = 1 \/ \E j \in 1 .. Len(rows) - 1 : i = j + 1
    <3> TAKE i \in 1 .. Len(rows)
    <3>1. i # 1 => i - 1 \in 1 .. Len(rows) - 1 /\ i = (i - 1) + 1
      BY <2>1
    <3> QED
      BY <3>1
  <2>3. \A i \in 1 .. Len(rows) - 1 : i + 1 \in 1 .. Len(rows)
    BY <2>1
  <2>4. 1 \in 1 .. Len(rows)
    BY <2>1
  <2>5. /\ ToSet(rows) = {rows[i] : i \in 1 .. Len(rows)}
        /\ ToSet(rest) = {rest[i] : i \in 1 .. Len(rows) - 1}
    BY <2>1 DEF ToSet
  <2>6. \A i \in 1 .. Len(rows) : rows[i] \in {row} \cup ToSet(rest)
    <3> TAKE i \in 1 .. Len(rows)
    <3>1. CASE i = 1
      BY <2>1, <3>1
    <3>2. CASE i # 1
      <4>1. PICK j \in 1 .. Len(rows) - 1 : i = j + 1
        BY <2>2, <3>2
      <4>2. rows[i] = rest[j]
        BY <2>1, <4>1
      <4> QED
        BY <2>5, <4>1, <4>2
    <3> QED
      BY <3>1, <3>2
  <2>7. row \in ToSet(rows) /\ \A i \in 1 .. Len(rows) - 1 : rest[i] \in ToSet(rows)
    BY <2>1, <2>3, <2>4, <2>5
  <2> QED
    BY <2>5, <2>6, <2>7
<1>9. HoldsRows(done \cup {row})' /\ DOMAIN graph' = {"nodes", "rels"}
  <2>1. /\ MentionsOf(done \cup {row}) = MentionsOf(done) \cup Mentions(row)
        /\ Mentions(row) \subseteq MentionsOf(KeyedOf(seed))
        /\ MentionsOf(done) \subseteq MentionsOf(KeyedOf(seed))
    BY <1>7 DEF MentionsOf
  <2>2. Agree(MentionsOf(KeyedOf(seed)))
    BY SeedAgrees
  <2>3. Holds(graph.nodes, MentionsOf(done)) /\ graph.rels = RelsOf(done)
    BY <1>5 DEF HoldsRows
  <2>4. CASE row.kind = "node"
    <3>1. PICK time : graph' = MergeNode(row, time)
      BY <1>1, <1>4, <1>6, <2>4 DEF Upserted
    <3>2. /\ Holds(graph'.nodes, MentionsOf(done) \cup Mentions(row))
          /\ graph'.rels = graph.rels /\ DOMAIN graph' = {"nodes", "rels"}
      BY <1>1, <1>4, <1>6, <2>1, <2>2, <2>3, <2>4, <3>1, MergeNodeHolds DEF SeedInv
    <3>3. RelsOf(done \cup {row}) = RelsOf(done)
      BY <2>4 DEF RelsOf
    <3> QED
      BY <2>1, <2>3, <3>2, <3>3 DEF HoldsRows
  <2>5. CASE row.kind = "rel"
    <3>1. graph' = MergeRel(row)
      BY <1>1, <1>4, <1>6, <2>5 DEF Upserted
    <3>2. /\ Holds(graph'.nodes, MentionsOf(done) \cup Mentions(row))
          /\ graph'.rels = graph.rels \cup {[from |-> row.from, to |-> row.to]}
          /\ DOMAIN graph' = {"nodes", "rels"}
      BY <2>1, <2>2, <2>3, <2>5, <3>1, MergeRelHolds
    <3>3. RelsOf(done \cup {row}) = RelsOf(done) \cup {[from |-> row.from, to |-> row.to]}
      BY <2>5 DEF RelsOf
    <3> QED
      BY <2>1, <2>3, <3>2, <3>3 DEF HoldsRows
  <2> QED
    BY <1>7, <2>4, <2>5 DEF KeyedOf, IsKeyed
<1>10. (done \cup {row}) \cup ToSet(rest) = ToSet(KeyedRows(seed))
  BY <1>5, <1>8
<1> QED
  BY <1>3, <1>4, <1>6, <1>7, <1>9, <1>10 DEF Applied

\* Other than by a row, what the graph holds changes in no step of a sync.
LEMMA SeedStep ==
  ASSUME SyncInv, SeedInv, GraphNext
  PROVE  SeedInv'
<1>1. CASE SyncConnects
  <2>1. /\ syncing = NotSyncing /\ syncing'.phase = "connected"
        /\ syncing'.seed \in Seeds /\ syncing.phase = "idle"
        /\ UNCHANGED <<graph, outcome>>
    BY <1>1 DEF SyncConnects, NotSyncing
  <2> QED
    BY <2>1 DEF SeedInv, HoldsRows
<1>2. CASE DropAll
  <2>1. /\ syncing.phase = "connected" /\ syncing # NotSyncing
        /\ syncing' = [syncing EXCEPT !.phase = "dropped"]
        /\ DOMAIN syncing = {"phase", "seed", "rows", "time"}
        /\ graph' = [nodes |-> {}, rels |-> {}] /\ outcome'.ended = "none"
    BY <1>2 DEF DropAll, SyncInv, SyncShape, NotSyncing
  <2>2. /\ syncing'.phase = "dropped" /\ syncing'.seed = syncing.seed
        /\ graph'.nodes = {} /\ graph'.rels = {} /\ DOMAIN graph' = {"nodes", "rels"}
    BY <2>1
  <2> QED
    BY <2>1, <2>2 DEF SeedInv
<1>3. CASE ReadSeed
  <2>1. /\ syncing.phase = "dropped" /\ syncing # NotSyncing /\ ~Refused(syncing.seed)
        /\ DOMAIN syncing = {"phase", "seed", "rows", "time"}
        /\ syncing' = [syncing EXCEPT !.phase = "applying",
                                      !.rows = KeyedRows(syncing.seed)]
        /\ UNCHANGED <<graph, outcome>>
    BY <1>3 DEF ReadSeed, SyncInv, SyncShape, NotSyncing
  <2>2. /\ syncing'.phase = "applying" /\ syncing'.seed = syncing.seed
        /\ syncing'.rows = KeyedRows(syncing.seed)
    BY <2>1
  <2>3. syncing.seed \in Seeds /\ graph.nodes = {} /\ graph.rels = {}
    BY <2>1 DEF SeedInv
  <2>4. KeyedRows(syncing.seed) \in Seq(KeyedOf(syncing.seed))
    BY <2>3, KeyedSound
  <2>5. MentionsOf({}) = {} /\ RelsOf({}) = {} /\ Holds({}, {})
    BY DEF MentionsOf, RelsOf, Holds
  <2>6. HoldsRows({})'
    BY <2>1, <2>3, <2>5 DEF HoldsRows
  <2>7. Applied'
    BY <2>2, <2>4, <2>6 DEF Applied
  <2> QED
    BY <2>1, <2>2, <2>3, <2>7 DEF SeedInv
<1>4. CASE UpsertRow
  <2>1. /\ syncing.phase = "applying" /\ syncing # NotSyncing
        /\ DOMAIN syncing = {"phase", "seed", "rows", "time"}
        /\ syncing' = [syncing EXCEPT !.rows = Tail(syncing.rows)]
    BY <1>4 DEF UpsertRow, SyncInv, SyncShape, NotSyncing
  <2>2. syncing'.phase = "applying" /\ syncing'.seed = syncing.seed
    BY <2>1
  <2> QED
    BY <1>4, <2>1, <2>2, UpsertRowApplied DEF SeedInv
<1>5. CASE SyncEnds
  <2>1. /\ syncing.phase = "applying" /\ syncing.rows = <<>> /\ syncing # NotSyncing
        /\ syncing' = NotSyncing /\ syncing'.phase = "idle" /\ graph' = graph
    BY <1>5 DEF SyncEnds, NotSyncing, SyncInv, SyncShape
  <2>2. syncing.seed \in Seeds /\ ~Refused(syncing.seed) /\ Applied
    BY <2>1 DEF SeedInv
  <2>3. ToSet(syncing.rows) = {}
    BY <2>1 DEF ToSet
  <2>4. HoldsRows(ToSet(KeyedRows(syncing.seed)))
    BY <2>2, <2>3 DEF Applied
  <2> QED
    BY <2>1, <2>2, <2>4 DEF SeedInv, HoldsRows
<1>6. CASE SyncFails
  <2>1. /\ syncing' = NotSyncing /\ syncing'.phase = "idle" /\ graph' = graph
        /\ syncing.phase = "connected" \/ outcome'.ended = "failed"
        /\ syncing.phase = "connected" => outcome'.ended = outcome.ended
    <3>1. outcome'.ended = IF syncing.phase = "connected" THEN outcome.ended ELSE "failed"
      BY <1>6 DEF SyncFails, SyncInv, SyncShape
    <3> QED
      BY <1>6, <3>1 DEF SyncFails, NotSyncing
  <2> QED
    BY <2>1 DEF SeedInv, HoldsRows
<1>7. CASE ExportStarts \/ ReadNodes \/ WriteExport \/ ExportEnds \/ ExportFails
  <2>1. UNCHANGED <<graph, syncing>> /\ outcome'.ended = outcome.ended
    BY <1>7 DEF ExportStarts, ReadNodes, WriteExport, ExportEnds, ExportFails,
                SyncInv, SyncShape
  <2> QED
    BY <2>1 DEF SeedInv, HoldsRows, Applied
<1> QED
  BY <1>1, <1>2, <1>3, <1>4, <1>5, <1>6, <1>7 DEF GraphNext

LEMMA SeedInvariant == GraphSpec => []SeedInv
<1>1. GraphInit => SeedInv
  BY DEF GraphInit, SeedInv, NotSyncing
<1>2. SyncInv /\ SeedInv /\ [GraphNext]_graphVars => SeedInv'
  <2> SUFFICES ASSUME SyncInv, SeedInv, [GraphNext]_graphVars PROVE SeedInv'
    OBVIOUS
  <2>1. CASE UNCHANGED graphVars
    <3>1. UNCHANGED <<graph, syncing, outcome>>
      BY <2>1 DEF graphVars
    <3> QED
      BY <3>1 DEF SeedInv, HoldsRows, Applied
  <2> QED
    BY <2>1, SeedStep
<1> QED
  BY <1>1, <1>2, SyncInvariant, PTL DEF GraphSpec

\* Whatever seeds are synchronised, fail or are exported in between: a graph
\* that a sync left well is that of one seed, with each entity once, provided
\* the seed files label an entity alike or by a label with a constraint (sync,
\* upsertSeed).
THEOREM GraphIsSeed == GraphSpec => []SyncedIsSeed
<1>1. ASSUME SeedInv, outcome.ended = "ok", syncing = NotSyncing
      PROVE  SyncedIsSeed
  <2>1. syncing.phase = "idle"
    BY <1>1 DEF NotSyncing
  <2>2. PICK seed \in Seeds : ~Refused(seed) /\ HoldsRows(ToSet(KeyedRows(seed)))
    BY <1>1, <2>1 DEF SeedInv
  <2>3. /\ Holds(graph.nodes, MentionsOf(KeyedOf(seed)))
        /\ graph.rels = RelsOf(KeyedOf(seed))
    BY <2>2, AppliedSpeakOfAll DEF HoldsRows
  <2> QED
    BY <2>2, <2>3 DEF SyncedIsSeed, Holds, MentionsOf, RelsOf, KeyedOf
<1>2. SeedInv => SyncedIsSeed
  BY <1>1 DEF SyncedIsSeed
<1> QED
  BY <1>2, SeedInvariant, PTL

-----------------------------------------------------------------------------
(* SeedFacts: lists, and what is chosen of them.                           *)

FlatUpTo(flat, lists, n) ==
  flat = [i \in 1 .. n |-> IF i = 1 THEN lists[i] ELSE flat[i - 1] \o lists[i]]

LEMMA FlatExists ==
  ASSUME NEW lists, NEW n \in Nat
  PROVE  \E flat : FlatUpTo(flat, lists, n)
<1> DEFINE Step(K, i) == IF i = 1 THEN lists[i] ELSE K[i - 1] \o lists[i]
           Bad == {k \in Nat : ~\E K : FlatUpTo(K, lists, k)}
<1> SUFFICES ASSUME Bad # {} PROVE FALSE
  OBVIOUS
<1>1. PICK m \in Bad : \A k \in Bad : m <= k
  BY LeastElement
<1>2. m # 0
  <2>1. PICK K : K = [i \in 1 .. 0 |-> lists]
    OBVIOUS
  <2>2. K = [i \in 1 .. 0 |-> Step(K, i)]
    <3> HIDE DEF Step
    <3> QED
      BY <2>1
  <2>3. FlatUpTo(K, lists, 0)
    BY <2>2, Zenon DEF FlatUpTo
  <2> QED
    BY <1>1, <2>3
<1>3. m - 1 \in Nat /\ m \in Nat /\ \E K : FlatUpTo(K, lists, m - 1)
  BY <1>1, <1>2
<1>4. PICK K : K = [i \in 1 .. (m - 1) |-> Step(K, i)]
  BY <1>3 DEF FlatUpTo
<1>5. PICK L : L = [i \in 1 .. m |-> Step(K, i)]
  OBVIOUS
<1>6. \A i \in 1 .. (m - 1) : L[i] = K[i]
  <2> HIDE DEF Step
  <2> TAKE i \in 1 .. (m - 1)
  <2>1. i \in 1 .. m
    BY <1>3
  <2>2. K[i] = Step(K, i)
    BY <1>4, Zenon
  <2>3. L[i] = Step(K, i)
    BY <1>5, <2>1, Zenon
  <2> QED
    BY <2>2, <2>3
<1>7. \A i \in 1 .. m : Step(K, i) = Step(L, i)
  <2> TAKE i \in 1 .. m
  <2>1. CASE i = 1
    BY <2>1
  <2>2. CASE i # 1
    <3>1. i - 1 \in 1 .. (m - 1)
      BY <2>2, <1>3
    <3>2. L[i - 1] = K[i - 1]
      BY <3>1, <1>6
    <3> QED
      BY <3>2, <2>2
  <2> QED
    BY <2>1, <2>2
<1>8. L = [i \in 1 .. m |-> Step(L, i)]
  <2> HIDE DEF Step
  <2> QED
    BY <1>5, <1>7
<1> QED
  BY <1>1, <1>8 DEF FlatUpTo

LEMMA FlatDefined ==
  ASSUME NEW lists, Len(lists) \in Nat \ {0}
  PROVE  \E flat : /\ FlattenSeq(lists) = flat[Len(lists)]
                   /\ flat[1] = lists[1]
                   /\ \A i \in 2 .. Len(lists) : flat[i] = flat[i - 1] \o lists[i]
<1>1. PICK n : n = Len(lists)
  OBVIOUS
<1>2. \E K : K = [i \in 1 .. n |-> IF i = 1 THEN lists[i] ELSE K[i - 1] \o lists[i]]
  <2>1. \E K : FlatUpTo(K, lists, n)
    BY <1>1, FlatExists
  <2> QED
    BY <2>1, Zenon DEF FlatUpTo
<1>3. PICK A : A = CHOOSE K : K = [i \in 1 .. n |->
                     IF i = 1 THEN lists[i] ELSE K[i - 1] \o lists[i]]
  OBVIOUS
<1>4. FlattenSeq(lists) = A[n]
  <2>1. n # 0
    BY <1>1
  <2> QED
    BY <1>1, <1>3, <2>1, Zenon DEF FlattenSeq
<1>5. A = [i \in 1 .. n |-> IF i = 1 THEN lists[i] ELSE A[i - 1] \o lists[i]]
  BY <1>2, <1>3, Zenon
<1>6. \A i \in 1 .. n : A[i] = IF i = 1 THEN lists[i] ELSE A[i - 1] \o lists[i]
  BY <1>5
<1>7. 1 \in 1 .. n /\ \A i \in 2 .. n : i \in 1 .. n /\ i # 1
  BY <1>1
<1> QED
  BY <1>1, <1>4, <1>6, <1>7

\* A flattened list holds what the lists in it hold.
LEMMA Flat ==
  ASSUME NEW T, NEW lists \in Seq(Seq(T))
  PROVE  /\ FlattenSeq(lists) \in Seq(T)
         /\ \A x : x \in ToSet(FlattenSeq(lists)) <=>
                     \E i \in DOMAIN lists : x \in ToSet(lists[i])
<1>1. PICK n \in Nat : n = Len(lists) /\ DOMAIN lists = 1 .. n
  OBVIOUS
<1>2. CASE n = 0
  <2>1. FlattenSeq(lists) = lists /\ lists = <<>>
    BY <1>1, <1>2 DEF FlattenSeq
  <2>2. ToSet(lists) = {}
    BY <1>1, <1>2 DEF ToSet
  <2> QED
    BY <1>1, <1>2, <2>1, <2>2
<1>3. CASE n # 0
  <2>1. PICK flat : /\ FlattenSeq(lists) = flat[n]
                    /\ flat[1] = lists[1]
                    /\ \A i \in 2 .. n : flat[i] = flat[i - 1] \o lists[i]
    BY <1>1, <1>3, FlatDefined
  <2> DEFINE P(k) == /\ flat[k] \in Seq(T)
                     /\ \A x : x \in ToSet(flat[k]) <=> \E i \in 1 .. k : x \in ToSet(lists[i])
             Bad == {k \in 1 .. n : ~P(k)}
  <2>2. 1 \in 1 .. n /\ \A i \in 1 .. n : lists[i] \in Seq(T)
    BY <1>1, <1>3
  <2>3. P(1)
    <3>1. \A i \in 1 .. 1 : i = 1
      OBVIOUS
    <3> QED
      BY <2>1, <2>2, <3>1
  <2>4. ASSUME NEW k \in 2 .. n, P(k - 1)
        PROVE  P(k)
    <3>1. PICK a \in Seq(T), b \in Seq(T) : a = flat[k - 1] /\ b = lists[k]
      BY <2>2, <2>4
    <3>2. flat[k] = a \o b
      BY <2>1, <3>1
    <3>3. \A x : x \in ToSet(a \o b) <=> x \in ToSet(a) \/ x \in ToSet(b)
      <4>1. PICK l \in Nat, m \in Nat : l = Len(a) /\ m = Len(b)
        OBVIOUS
      <4>2. PICK c : c = a \o b
        OBVIOUS
      <4>3. /\ DOMAIN a = 1 .. l /\ DOMAIN b = 1 .. m /\ DOMAIN c = 1 .. (l + m)
            /\ \A i \in 1 .. l : c[i] = a[i]
            /\ \A i \in 1 .. m : c[l + i] = b[i]
        BY <4>1, <4>2
      <4>4. ASSUME NEW x \in ToSet(c)
            PROVE  x \in ToSet(a) \/ x \in ToSet(b)
        <5>1. PICK i \in 1 .. (l + m) : x = c[i]
          BY <4>3 DEF ToSet
        <5>2. CASE i <= l
          <6>1. i \in 1 .. l
            BY <4>1, <5>1, <5>2
          <6>2. x = a[i]
            BY <4>3, <5>1, <6>1
          <6> QED
            BY <4>3, <6>1, <6>2 DEF ToSet
        <5>3. CASE i > l
          <6>1. i - l \in 1 .. m /\ l + (i - l) = i
            BY <4>1, <5>1, <5>3
          <6>2. c[i] = b[i - l]
            BY <4>3, <6>1
          <6> QED
            BY <4>3, <5>1, <6>1, <6>2 DEF ToSet
        <5>4. i \in Int /\ l \in Int /\ (i <= l \/ i > l)
          BY <4>1, <5>1
        <5> QED
          BY <5>2, <5>3, <5>4
      <4>5. ASSUME NEW x \in ToSet(a)
            PROVE  x \in ToSet(c)
        <5>1. PICK i \in 1 .. l : x = a[i]
          BY <4>3 DEF ToSet
        <5>2. i \in 1 .. (l + m) /\ x = c[i]
          BY <4>1, <4>3, <5>1
        <5> QED
          BY <4>3, <5>2 DEF ToSet
      <4>6. ASSUME NEW x \in ToSet(b)
            PROVE  x \in ToSet(c)
        <5>1. PICK i \in 1 .. m : x = b[i]
          BY <4>3 DEF ToSet
        <5>2. l + i \in 1 .. (l + m) /\ x = c[l + i]
          BY <4>1, <4>3, <5>1
        <5> QED
          BY <4>3, <5>2 DEF ToSet
      <4> QED
        BY <4>2, <4>4, <4>5, <4>6
    <3>4. \A i \in 1 .. k : i \in 1 .. (k - 1) \/ i = k
      OBVIOUS
    <3>5. \A x : x \in ToSet(a \o b) <=> \E i \in 1 .. k : x \in ToSet(lists[i])
      <4>1. \A x : x \in ToSet(a) <=> \E i \in 1 .. (k - 1) : x \in ToSet(lists[i])
        BY <2>4, <3>1
      <4>2. (k - 1) \in Nat /\ k \in 1 .. k /\ \A i \in 1 .. (k - 1) : i \in 1 .. k
        OBVIOUS
      <4> QED
        BY <3>1, <3>3, <3>4, <4>1, <4>2
    <3> QED
      BY <3>1, <3>2, <3>5
  <2>5. P(n)
    <3> HIDE DEF P
    <3>1. Bad \subseteq Nat
      BY <1>1
    <3>2. CASE Bad # {}
      <4>1. PICK m \in Bad : \A k \in Bad : m <= k
        <5> HIDE DEF Bad
        <5> QED
          BY <3>1, <3>2, LeastElement
      <4>2. m \in 2 .. n
        BY <1>1, <2>3, <4>1
      <4>3. m - 1 \in 1 .. n /\ m - 1 < m
        BY <1>1, <4>2
      <4>4. P(m - 1)
        BY <1>1, <4>1, <4>2, <4>3
      <4> QED
        BY <2>4, <4>1, <4>2, <4>4
    <3>3. CASE Bad = {}
      BY <1>1, <1>3, <3>3
    <3> QED
      BY <3>2, <3>3
  <2> QED
    BY <1>1, <2>1, <2>5
<1> QED
  BY <1>2, <1>3

\* What is chosen of a list are the elements at the positions.
LEMMA ChosenElements ==
  ASSUME NEW T, NEW list \in Seq(T), NEW at
  PROVE  /\ Chosen(list, at) \in Seq(T)
         /\ \A x : x \in ToSet(Chosen(list, at)) <=>
                     \E i \in DOMAIN list \cap at : x = list[i]
<1>1. PICK n \in Nat : n = Len(list) /\ DOMAIN list = 1 .. n
  OBVIOUS
<1>2. PICK lists : lists = [i \in DOMAIN list |-> IF i \in at THEN <<list[i]>> ELSE <<>>]
  OBVIOUS
<1>3. \A i \in 1 .. n : (IF i \in at THEN <<list[i]>> ELSE <<>>) \in Seq(T)
  <2>1. \A i \in 1 .. n : list[i] \in T
    BY <1>1
  <2> QED
    BY <2>1
<1>4. lists \in Seq(Seq(T)) /\ DOMAIN lists = 1 .. n
  BY <1>1, <1>2, <1>3
<1>5. ASSUME NEW i \in 1 .. n
      PROVE  /\ i \in at => ToSet(lists[i]) = {list[i]}
             /\ i \notin at => ToSet(lists[i]) = {}
  <2>1. lists[i] = IF i \in at THEN <<list[i]>> ELSE <<>>
    BY <1>1, <1>2
  <2> QED
    BY <2>1 DEF ToSet
<1>6. PICK flat : flat = FlattenSeq(lists)
  OBVIOUS
<1>7. /\ flat \in Seq(T)
      /\ \A x : x \in ToSet(flat) <=> \E i \in 1 .. n : x \in ToSet(lists[i])
  BY <1>4, <1>6, Flat
<1>8. Chosen(list, at) = flat
  BY <1>2, <1>6 DEF Chosen
<1>9. ASSUME NEW x
      PROVE  (\E i \in 1 .. n : x \in ToSet(lists[i]))
               <=> \E i \in DOMAIN list \cap at : x = list[i]
  <2>1. ASSUME NEW i \in 1 .. n, x \in ToSet(lists[i])
        PROVE  i \in DOMAIN list \cap at /\ x = list[i]
    BY <1>1, <1>5, <2>1
  <2>2. ASSUME NEW i \in DOMAIN list \cap at, x = list[i]
        PROVE  i \in 1 .. n /\ x \in ToSet(lists[i])
    BY <1>1, <1>5, <2>2
  <2> QED
    BY <2>1, <2>2
<1> QED
  BY <1>7, <1>8, <1>9

IsList(q) == q \in Seq(ToSet(q))

\* A list is one of its own elements.
LEMMA ListOf ==
  ASSUME NEW T, NEW q \in Seq(T)
  PROVE  IsList(q) /\ ToSet(q) \subseteq T
<1>1. PICK n \in Nat : DOMAIN q = 1 .. n /\ n = Len(q)
  OBVIOUS
<1>2. \A i \in 1 .. n : q[i] \in T /\ q[i] \in ToSet(q)
  BY <1>1 DEF ToSet
<1>3. q = [i \in 1 .. n |-> q[i]]
  BY <1>1
<1>4. q \in [1 .. n -> ToSet(q)]
  <2>1. PICK S : S = ToSet(q)
    OBVIOUS
  <2> QED
    BY <1>2, <1>3, <2>1
<1>5. q \in Seq(ToSet(q))
  <2>1. PICK S : S = ToSet(q)
    OBVIOUS
  <2> QED
    BY <1>4, <2>1
<1> QED
  BY <1>1, <1>5 DEF IsList, ToSet

\* The hits of a key are those that have it, in lower case.
LEMMA NamedHits ==
  ASSUME NEW T, NEW hits \in Seq(T), NEW key
  PROVE  /\ Named(hits, key) \in Seq(T)
         /\ \A x : x \in ToSet(Named(hits, key)) <=>
                     \E i \in DOMAIN hits : Lower(hits[i].name) = key /\ x = hits[i]
<1>1. PICK at : at = {i \in DOMAIN hits : Lower(hits[i].name) = key}
  OBVIOUS
<1>2. Named(hits, key) = Chosen(hits, at)
  BY <1>1 DEF Named
<1>3. PICK chosen : chosen = Chosen(hits, at)
  OBVIOUS
<1>4. /\ chosen \in Seq(T)
      /\ \A x : x \in ToSet(chosen) <=> \E i \in DOMAIN hits \cap at : x = hits[i]
  BY <1>3, ChosenElements
<1>5. \A i : i \in DOMAIN hits \cap at <=> i \in DOMAIN hits /\ Lower(hits[i].name) = key
  BY <1>1
<1> QED
  BY <1>2, <1>3, <1>4, <1>5

\* The entries of the symbol map are the hits, in another order.
LEMMA EntriesAreHits ==
  ASSUME NEW T, NEW hits \in Seq(T)
  PROVE  Entries(hits) \in Seq(T) /\ ToSet(Entries(hits)) = ToSet(hits)
<1>1. PICK n \in Nat : n = Len(hits) /\ DOMAIN hits = 1 .. n
  OBVIOUS
<1> DEFINE Seen(i) == \E j \in 1 .. i - 1 : Lower(hits[j].name) = Lower(hits[i].name)
           Group(i) == IF Seen(i) THEN <<>> ELSE Named(hits, Lower(hits[i].name))
<1>2. PICK lists : lists = [i \in DOMAIN hits |-> Group(i)]
  OBVIOUS
<1>3. \A i \in 1 .. n : Group(i) \in Seq(T)
  <2> TAKE i \in 1 .. n
  <2>1. Named(hits, Lower(hits[i].name)) \in Seq(T)
    BY NamedHits
  <2> HIDE DEF Seen
  <2> QED
    BY <2>1
<1>4. lists \in Seq(Seq(T)) /\ DOMAIN lists = 1 .. n /\ \A i \in 1 .. n : lists[i] = Group(i)
  <2> HIDE DEF Group
  <2> QED
    BY <1>1, <1>2, <1>3
<1>5. Entries(hits) = FlattenSeq(lists)
  BY <1>2, Zenon DEF Entries
<1>6. PICK flat : flat = FlattenSeq(lists)
  OBVIOUS
<1>7. /\ flat \in Seq(T)
      /\ \A x : x \in ToSet(flat) <=> \E i \in 1 .. n : x \in ToSet(lists[i])
  BY <1>4, <1>6, Flat
<1>8. ASSUME NEW i \in 1 .. n, NEW x \in ToSet(lists[i])
      PROVE  x \in ToSet(hits)
  <2>1. CASE Seen(i)
    <3>1. lists[i] = <<>>
      <4> HIDE DEF Seen
      <4> QED
        BY <1>4, <2>1
    <3> QED
      BY <1>8, <3>1 DEF ToSet
  <2>2. CASE ~Seen(i)
    <3>1. lists[i] = Named(hits, Lower(hits[i].name))
      <4> HIDE DEF Seen
      <4> QED
        BY <1>4, <2>2
    <3>2. \E k \in DOMAIN hits : x = hits[k]
      BY <1>8, <3>1, NamedHits
    <3> QED
      BY <3>2 DEF ToSet
  <2> QED
    BY <2>1, <2>2
<1>9. ASSUME NEW k \in 1 .. n
      PROVE  \E i \in 1 .. n : hits[k] \in ToSet(lists[i])
  <2> DEFINE Same == {i \in 1 .. n : Lower(hits[i].name) = Lower(hits[k].name)}
  <2>1. Same \subseteq Nat /\ Same # {}
    BY <1>1
  <2>2. PICK m \in Same : \A i \in Same : m <= i
    <3> HIDE DEF Same
    <3> QED
      BY <2>1, LeastElement
  <2>3. m \in 1 .. n /\ Lower(hits[m].name) = Lower(hits[k].name)
    BY <2>2
  <2>4. ~Seen(m)
    <3>1. SUFFICES ASSUME NEW j \in 1 .. m - 1, Lower(hits[j].name) = Lower(hits[m].name)
                   PROVE  FALSE
      OBVIOUS
    <3>2. j \in 1 .. n /\ j < m
      BY <1>1, <2>3
    <3>3. j \in Same
      BY <2>3, <3>1, <3>2
    <3>4. m <= j /\ m \in Int /\ j \in Int
      BY <1>1, <2>2, <2>3, <3>2, <3>3
    <3> QED
      BY <3>2, <3>4
  <2>5. lists[m] = Named(hits, Lower(hits[m].name))
    <3> HIDE DEF Seen, Same
    <3> QED
      BY <1>4, <2>3, <2>4
  <2>6. hits[k] \in ToSet(Named(hits, Lower(hits[m].name)))
    <3>1. k \in DOMAIN hits
      BY <1>1
    <3> QED
      BY <2>3, <3>1, NamedHits
  <2> QED
    BY <2>3, <2>5, <2>6
<1>10. \A x : x \in ToSet(flat) <=> x \in ToSet(hits)
  <2>1. ASSUME NEW x \in ToSet(hits)
        PROVE  x \in ToSet(flat)
    <3>1. PICK k \in 1 .. n : x = hits[k]
      BY <1>1 DEF ToSet
    <3> QED
      BY <1>7, <1>9, <3>1
  <2> QED
    BY <1>7, <1>8, <2>1
<1> QED
  BY <1>5, <1>6, <1>7, <1>10

\* A list that is cut holds the first of its elements.
LEMMA CutList ==
  ASSUME NEW T, NEW q \in Seq(T), NEW limit \in Nat
  PROVE  /\ UpTo(limit, q) \in Seq(T)
         /\ ToSet(UpTo(limit, q)) \subseteq ToSet(q)
         /\ UpTo(limit, q) # <<>> => /\ q # <<>> /\ UpTo(limit, q)[1] = q[1]
         /\ Len(q) <= limit => UpTo(limit, q) = q
<1>1. PICK n \in Nat : n = Len(q) /\ DOMAIN q = 1 .. n
  OBVIOUS
<1>2. PICK m \in 0 .. n : m = (IF Len(q) < limit THEN Len(q) ELSE limit)
  BY <1>1
<1>3. PICK p : p = SubSeq(q, 1, m)
  OBVIOUS
<1>4. UpTo(limit, q) = p
  BY <1>2, <1>3, Zenon DEF UpTo
<1>5. /\ p \in Seq(T) /\ Len(p) = m /\ DOMAIN p = 1 .. m
      /\ \A i \in 1 .. m : p[i] = q[i]
  BY <1>1, <1>2, <1>3
<1>6. ToSet(p) \subseteq ToSet(q)
  <2>1. SUFFICES ASSUME NEW i \in 1 .. m PROVE p[i] \in ToSet(q)
    BY <1>5 DEF ToSet
  <2>2. i \in 1 .. n
    BY <1>1, <1>2
  <2> QED
    BY <1>1, <1>5, <2>2 DEF ToSet
<1>7. ASSUME p # <<>>
      PROVE  q # <<>> /\ p[1] = q[1]
  <2>1. m # 0
    BY <1>5, <1>7
  <2>2. 1 \in 1 .. m /\ n # 0
    BY <1>1, <1>2, <2>1
  <2> QED
    BY <1>1, <1>5, <2>2
<1>8. ASSUME Len(q) <= limit
      PROVE  p = q
  <2>1. m = n
    BY <1>1, <1>2, <1>8
  <2> QED
    BY <1>1, <1>3, <2>1
<1> QED
  BY <1>4, <1>5, <1>6, <1>7, <1>8

\* A search returns hits, and first one of the name in some case of letters if
\* there is any.
LEMMA SearchReturnsHits ==
  ASSUME NEW T, NEW hits \in Seq(T), NEW query, SearchLimit \in Nat
  PROVE  LET found == SearchSymbol(hits, query, SearchLimit)
         IN /\ found \in Seq(T)
            /\ ToSet(found) \subseteq ToSet(hits)
            /\ /\ found # <<>>
               /\ \E i \in DOMAIN hits : Lower(hits[i].name) = Lower(query)
               => Lower(found[1].name) = Lower(query)
<1>0. PICK key : key = Lower(query)
  OBVIOUS
<1>1. PICK entries : entries = Entries(hits)
  OBVIOUS
<1>2. entries \in Seq(T) /\ ToSet(entries) = ToSet(hits)
  BY <1>1, EntriesAreHits
<1>3. PICK others : others = {i \in DOMAIN entries :
                          /\ Lower(entries[i].name) # key
                          /\ OccursIn(key, Lower(entries[i].name))}
  OBVIOUS
<1>4. PICK a, b : a = Named(hits, key) /\ b = Chosen(entries, others)
  OBVIOUS
<1>5. /\ a \in Seq(T)
      /\ \A x : x \in ToSet(a) <=> \E i \in DOMAIN hits : Lower(hits[i].name) = key /\ x = hits[i]
  BY <1>4, NamedHits
<1>6. /\ b \in Seq(T)
      /\ \A x : x \in ToSet(b) => \E i \in DOMAIN entries : x = entries[i]
  BY <1>2, <1>4, ChosenElements
<1>7. PICK c : c = a \o b
  OBVIOUS
<1>8. PICK found : found = UpTo(SearchLimit, c)
  OBVIOUS
<1>9. SearchSymbol(hits, query, SearchLimit) = found
  BY <1>0, <1>1, <1>3, <1>4, <1>7, <1>8, Zenon DEF SearchSymbol
<1>10. PICK l \in Nat, m \in Nat :
         /\ l = Len(a) /\ DOMAIN a = 1 .. l /\ m = Len(b) /\ DOMAIN b = 1 .. m
  BY <1>5, <1>6
<1>11. /\ c \in Seq(T) /\ DOMAIN c = 1 .. (l + m)
       /\ \A i \in 1 .. l : c[i] = a[i]
       /\ \A i \in 1 .. m : c[l + i] = b[i]
  BY <1>5, <1>6, <1>7, <1>10
<1>12. ToSet(c) \subseteq ToSet(hits)
  <2>1. SUFFICES ASSUME NEW i \in 1 .. (l + m)
                 PROVE  c[i] \in ToSet(hits)
    BY <1>11 DEF ToSet
  <2>2. CASE i <= l
    <3>1. i \in 1 .. l
      BY <1>10, <2>1, <2>2
    <3>2. c[i] \in ToSet(a)
      BY <1>10, <1>11, <3>1 DEF ToSet
    <3> QED
      BY <1>5, <3>2 DEF ToSet
  <2>3. CASE i > l
    <3>1. i - l \in 1 .. m /\ l + (i - l) = i
      BY <1>10, <2>1, <2>3
    <3>2. c[i] \in ToSet(b)
      <4>1. c[i] = b[i - l]
        BY <1>11, <3>1
      <4> QED
        BY <1>10, <3>1, <4>1 DEF ToSet
    <3>3. c[i] \in ToSet(entries)
      BY <1>6, <3>2 DEF ToSet
    <3> QED
      BY <1>2, <3>3
  <2>4. i \in Int /\ l \in Int
    BY <1>10, <2>1
  <2> QED
    BY <2>2, <2>3, <2>4
<1>13. /\ found \in Seq(T) /\ ToSet(found) \subseteq ToSet(c)
       /\ found # <<>> => c # <<>> /\ found[1] = c[1]
  BY <1>8, <1>11, CutList
<1>14. ASSUME found # <<>>, NEW i \in DOMAIN hits, Lower(hits[i].name) = key
       PROVE  Lower(found[1].name) = key
  <2>1. hits[i] \in ToSet(a)
    BY <1>5, <1>14
  <2>2. l # 0
    BY <1>10, <2>1 DEF ToSet
  <2>3. 1 \in 1 .. l
    BY <1>10, <2>2
  <2>4. c[1] = a[1] /\ a[1] \in ToSet(a)
    BY <1>10, <1>11, <2>3 DEF ToSet
  <2>5. Lower(c[1].name) = key
    BY <1>5, <2>4
  <2> QED
    BY <1>13, <1>14, <2>5
<1> QED
  BY <1>0, <1>9, <1>12, <1>13, <1>14

-----------------------------------------------------------------------------
(* What the index and the walk of the folders give the rows.               *)

\* The first route of an id is kept, so every id of a route has a row.
LEMMA RouteKept ==
  ASSUME IsList(index.routes), NEW i \in DOMAIN index.routes
  PROVE  \E route \in Routes :
           RouteId(route.path, route.file)
             = RouteId(index.routes[i].path, index.routes[i].file)
<1>1. PICK q : q = index.routes
  OBVIOUS
<1>2. PICK n \in Nat : DOMAIN q = 1 .. n
  <2>1. q \in Seq(ToSet(q))
    BY <1>1 DEF IsList
  <2> QED
    BY <2>1
<1> DEFINE Id(k) == RouteId(q[k].path, q[k].file)
           Same == {k \in 1 .. n : Id(k) = Id(i)}
<1>3. Same \subseteq Nat /\ Same # {}
  BY <1>1, <1>2
<1>4. PICK m \in Same : \A k \in Same : m <= k
  <2> HIDE DEF Same
  <2> QED
    BY <1>3, LeastElement
<1>5. m \in 1 .. n /\ Id(m) = Id(i)
  BY <1>4
<1>6. \A k \in 1 .. m - 1 : Id(k) # Id(m)
  <2>1. SUFFICES ASSUME NEW k \in 1 .. m - 1, Id(k) = Id(m)
                 PROVE  FALSE
    OBVIOUS
  <2>2. k \in 1 .. n /\ k < m
    BY <1>2, <1>5
  <2>3. k \in Same
    BY <1>5, <2>1, <2>2
  <2>4. m <= k /\ m \in Int /\ k \in Int
    BY <1>4, <1>5, <2>2, <2>3
  <2> QED
    BY <2>2, <2>4
<1>7. q[m] \in Routes
  <2>1. m \in {j \in DOMAIN q : \A k \in 1 .. j - 1 :
                  RouteId(q[k].path, q[k].file) # RouteId(q[j].path, q[j].file)}
    BY <1>2, <1>5, <1>6
  <2> QED
    BY <1>1, <2>1, Zenon DEF Routes
<1> QED
  BY <1>1, <1>5, <1>7

\* The walk goes down: a folder it reached was entered from one it reached.
LEMMA WalkedFromParent ==
  ASSUME SeedAssumption, NEW folder \in Walked, Len(folder) > 1
  PROVE  Front(folder) \in Walked
<1>1. folder \in Folders /\ folder # <<>> /\ Len(folder) <= AnchorDepth + 1
  BY DEF Walked
<1>2. PICK T : T = ToSet(folder)
  OBVIOUS
<1>3. folder \in Seq(T) /\ Front(folder) \in Folders /\ AnchorDepth \in Nat
  BY <1>1, <1>2 DEF SeedAssumption
<1>4. PICK n \in Nat : n = Len(folder) /\ n > 1
  BY <1>3
<1>5. PICK front : front = SubSeq(folder, 1, n - 1)
  OBVIOUS
<1>6. Front(folder) = front
  BY <1>4, <1>5 DEF Front
<1>7. /\ front \in Seq(T) /\ Len(front) = n - 1
      /\ \A i \in 1 .. n - 1 : front[i] = folder[i]
  BY <1>3, <1>4, <1>5
<1>8. front # <<>> /\ Len(front) <= AnchorDepth + 1
  BY <1>1, <1>3, <1>4, <1>7
<1>9. ASSUME NEW out \in IgnoredFolders \cup UnanchoredFolders, Within(out, front)
      PROVE  Within(out, folder)
  <2>1. out \in Folders
    BY DEF SeedAssumption
  <2>2. PICK O : O = ToSet(out)
    OBVIOUS
  <2>3. out \in Seq(O)
    BY <2>1, <2>2 DEF SeedAssumption
  <2>4. PICK k \in Nat : k = Len(out)
    BY <2>3
  <2>5. k <= n - 1 /\ SubSeq(out, 1, k) = SubSeq(front, 1, k)
    BY <1>7, <1>9, <2>4 DEF Within, IsPrefix
  <2>6. SubSeq(front, 1, k) = SubSeq(folder, 1, k)
    BY <1>3, <1>4, <1>7, <2>4, <2>5
  <2>7. k <= n
    BY <1>4, <2>4, <2>5
  <2> QED
    BY <1>4, <2>4, <2>5, <2>6, <2>7 DEF Within, IsPrefix
<1>10. \A out \in IgnoredFolders \cup UnanchoredFolders : ~Within(out, folder)
  BY DEF Walked
<1>11. \A out \in IgnoredFolders \cup UnanchoredFolders : ~Within(out, front)
  BY <1>9, <1>10
<1> QED
  BY <1>3, <1>6, <1>8, <1>11 DEF Walked

\* What a whole command writes.
Written == UNION {Rows(file) : file \in ToSet(SeedFileOrder)}

LEMMA SeedFileNames ==
  ToSet(SeedFileOrder)
    = {"anchors", "symbols", "components", "routes", "directives", "edges"}
<1>1. DOMAIN SeedFileOrder = 1 .. 6
  BY DEF SeedFileOrder
<1>2. 1 .. 6 = {1, 2, 3, 4, 5, 6}
  OBVIOUS
<1> QED
  BY <1>1, <1>2 DEF ToSet, SeedFileOrder

LEMMA WrittenRows ==
  ASSUME NEW file \in {"anchors", "symbols", "components", "routes", "directives", "edges"},
         NEW row \in Rows(file)
  PROVE  row \in Written
BY SeedFileNames DEF Written

LEMMA NodesWritten ==
  /\ \A folder \in AnchorFolders : Node(AnchorId(folder)) \in Written
  /\ \A hit \in Headers : Node(HitId(hit)) \in Written
  /\ \A usage \in index.usages : /\ Node(ComponentId(usage.tag)) \in Written
                                 /\ Node(UsageId(usage)) \in Written
  /\ \A route \in Routes : Node(RouteId(route.path, route.file)) \in Written
  /\ \A name \in Guards : Node(GuardId(name)) \in Written
  /\ \A name \in DirectivesUsed : Node(DirectiveId(name)) \in Written
<1>1. Rows("anchors") = AnchorRows
  BY DEF Rows
<1>2. Rows("symbols") = {Node(HitId(hit)) : hit \in Headers}
  BY DEF Rows
<1>3. Rows("components") =
         {Node(ComponentId(usage.tag)) : usage \in index.usages}
         \cup {Node(UsageId(usage)) : usage \in index.usages}
  BY DEF Rows
<1>4. Rows("routes") =
         {Node(RouteId(route.path, route.file)) : route \in Routes}
         \cup {Node(GuardId(name)) : name \in Guards}
  BY DEF Rows
<1>5. Rows("directives") = {Node(DirectiveId(name)) : name \in DirectivesUsed}
  BY DEF Rows
<1>6. \A folder \in AnchorFolders : Node(AnchorId(folder)) \in Written
  <2>1. \A folder \in AnchorFolders : Node(AnchorId(folder)) \in Rows("anchors")
    BY <1>1, Zenon DEF AnchorRows
  <2> QED
    BY <2>1, WrittenRows
<1>7. \A hit \in Headers : Node(HitId(hit)) \in Written
  BY <1>2, WrittenRows
<1>8. \A usage \in index.usages : /\ Node(ComponentId(usage.tag)) \in Written
                                  /\ Node(UsageId(usage)) \in Written
  BY <1>3, WrittenRows
<1>9. /\ \A route \in Routes : Node(RouteId(route.path, route.file)) \in Written
      /\ \A name \in Guards : Node(GuardId(name)) \in Written
  BY <1>4, WrittenRows
<1>10. \A name \in DirectivesUsed : Node(DirectiveId(name)) \in Written
  BY <1>5, WrittenRows
<1> QED
  BY <1>6, <1>7, <1>8, <1>9, <1>10

LEMMA AnchorAboveWritten ==
  ASSUME NEW id, NEW path, NEW edge \in InAnchor(id, path)
  PROVE  edge.from = id /\ Node(edge.to) \in Written
<1>1. PICK anchor \in AnchorsAbove(path) : edge = Edge("IN_ANCHOR", id, anchor)
  BY DEF InAnchor
<1>2. edge.from = id /\ edge.to = anchor
  BY <1>1 DEF Edge
<1>3. PICK folder \in AnchorFolders : anchor = AnchorId(folder)
  BY <1>1 DEF AnchorsAbove
<1> QED
  BY <1>2, <1>3, NodesWritten

-----------------------------------------------------------------------------
(* Both ends of every edge, kind by kind.                                  *)

EndResolves(edge, id) ==
  \/ id[1] = "file"
  \/ Node(id) \in Written
  \/ /\ edge.type = "GUARD_DEFINED_IN"
     /\ \/ \A row \in Rows("symbols") : row.id[4] # id[4]
        \/ \E row \in Rows("symbols") :
             row.id[4] # id[4] /\ Lower(row.id[4]) = Lower(id[4])
  \/ /\ edge.type = "CONTAINS" /\ id = edge.from
     /\ edge.to[2] \in ForcedAnchors \ Walked

Resolves(edge) == EndResolves(edge, edge.from) /\ EndResolves(edge, edge.to)

\* Every parent of a route is the path of a route of the same file.
ParentsListed(routes) ==
  \A i \in DOMAIN routes : \A parent \in routes[i].parents :
    \E k \in DOMAIN routes :
      routes[k].path = parent /\ routes[k].file = routes[i].file

LEMMA AllHeaders ==
  ASSUME SeedAssumption, IsList(index.hits), Len(Entries(index.hits)) <= HeaderLimit
  PROVE  Headers = ToSet(index.hits)
<1>1. PICK hits, T : hits = index.hits /\ T = ToSet(index.hits)
  OBVIOUS
<1>2. hits \in Seq(T)
  BY <1>1 DEF IsList
<1>3. PICK entries : entries = Entries(hits)
  OBVIOUS
<1>4. entries \in Seq(T) /\ ToSet(entries) = ToSet(hits)
  BY <1>2, <1>3, EntriesAreHits
<1>5. Len(entries) <= HeaderLimit /\ HeaderLimit \in Nat
  BY <1>1, <1>3 DEF SeedAssumption
<1>6. UpTo(HeaderLimit, entries) = entries
  BY <1>4, <1>5, CutList
<1> QED
  BY <1>1, <1>3, <1>4, <1>6, Zenon DEF Headers, SymbolHeaders

LEMMA AnchorEdgesResolve ==
  ASSUME SeedAssumption, NEW edge \in AnchorRows, "type" \in DOMAIN edge
  PROVE  Resolves(edge)
<1>1. PICK folder \in AnchorFolders :
        /\ Len(folder) > 1
        /\ edge = Edge("CONTAINS", AnchorId(Front(folder)), AnchorId(folder))
  BY DEF AnchorRows, Node
<1>2. /\ edge.type = "CONTAINS" /\ edge.from = AnchorId(Front(folder))
      /\ edge.to = AnchorId(folder)
  BY <1>1 DEF Edge
<1>3. EndResolves(edge, edge.to)
  BY <1>1, <1>2, NodesWritten DEF EndResolves
<1>4. CASE folder \in Walked
  <2>1. Front(folder) \in AnchorFolders
    BY <1>1, <1>4, WalkedFromParent DEF AnchorFolders
  <2> QED
    BY <1>2, <1>3, <2>1, NodesWritten DEF Resolves, EndResolves
<1>5. CASE folder \notin Walked
  <2>1. folder \in ForcedAnchors \ Walked
    BY <1>1, <1>5 DEF AnchorFolders
  <2>2. edge.to[2] = folder
    BY <1>2 DEF AnchorId
  <2> QED
    BY <1>2, <1>3, <2>1, <2>2 DEF Resolves, EndResolves
<1> QED
  BY <1>4, <1>5

LEMMA AnchoredResolves ==
  ASSUME NEW id, NEW path, NEW edge \in InAnchor(id, path), Node(id) \in Written
  PROVE  Resolves(edge)
BY AnchorAboveWritten DEF Resolves, EndResolves

LEMMA SymbolEdgesResolve ==
  ASSUME NEW edge \in SymbolEdges
  PROVE  Resolves(edge)
<1>1. PICK hit \in Headers :
        edge \in {Edge("DECLARES", FileId(hit.file), HitId(hit))}
                   \cup InAnchor(HitId(hit), hit.file)
  BY DEF SymbolEdges
<1>2. Node(HitId(hit)) \in Written
  BY NodesWritten
<1>3. CASE edge = Edge("DECLARES", FileId(hit.file), HitId(hit))
  <2>1. edge.from = FileId(hit.file) /\ edge.to = HitId(hit)
    BY <1>3 DEF Edge
  <2>2. FileId(hit.file)[1] = "file"
    BY DEF FileId
  <2> QED
    BY <1>2, <2>1, <2>2 DEF Resolves, EndResolves
<1>4. CASE edge \in InAnchor(HitId(hit), hit.file)
  BY <1>2, <1>4, AnchoredResolves
<1> QED
  BY <1>1, <1>3, <1>4

LEMMA UsageEdgesResolve ==
  ASSUME NEW edge \in UsageEdges
  PROVE  Resolves(edge)
<1>1. PICK usage \in index.usages :
        edge \in {Edge("HAS_USAGE", ComponentId(usage.tag), UsageId(usage))}
                   \cup InAnchor(UsageId(usage), usage.file)
  BY DEF UsageEdges
<1>2. Node(ComponentId(usage.tag)) \in Written /\ Node(UsageId(usage)) \in Written
  BY NodesWritten
<1>3. CASE edge = Edge("HAS_USAGE", ComponentId(usage.tag), UsageId(usage))
  <2>1. edge.from = ComponentId(usage.tag) /\ edge.to = UsageId(usage)
    BY <1>3 DEF Edge
  <2> QED
    BY <1>2, <2>1 DEF Resolves, EndResolves
<1>4. CASE edge \in InAnchor(UsageId(usage), usage.file)
  BY <1>2, <1>4, AnchoredResolves
<1> QED
  BY <1>1, <1>3, <1>4

\* What a guard leads to is a hit: one of its very name, or, when a hit has that
\* name, one of the name in another case of letters.
LEMMA GuardHit ==
  ASSUME NEW T, NEW hits \in Seq(T), SearchLimit \in Nat, hits = index.hits,
         NEW name, NEW hit \in ToSet(ResolvedGuard(name))
  PROVE  /\ hit \in ToSet(hits)
         /\ \/ hit.name = name
            \/ ~\E i \in DOMAIN hits : hits[i].name = name
            \/ Lower(hit.name) = Lower(name)
<1>1. PICK found : found = SearchSymbol(hits, name, SearchLimit)
  OBVIOUS
<1>2. /\ found \in Seq(T) /\ ToSet(found) \subseteq ToSet(hits)
      /\ /\ found # <<>>
         /\ \E i \in DOMAIN hits : Lower(hits[i].name) = Lower(name)
         => Lower(found[1].name) = Lower(name)
  BY <1>1, SearchReturnsHits
<1>3. PICK at : at = {i \in DOMAIN found : found[i].name = name}
  OBVIOUS
<1>4. PICK own : own = Chosen(found, at)
  OBVIOUS
<1>5. /\ own \in Seq(T)
      /\ \A x : x \in ToSet(own) <=> \E i \in DOMAIN found \cap at : x = found[i]
  BY <1>2, <1>4, ChosenElements
<1>6. PICK c : c = own \o found
  OBVIOUS
<1>7. PICK first : first = UpTo(1, c)
  OBVIOUS
<1>8. hit \in ToSet(first)
  BY <1>1, <1>3, <1>4, <1>6, <1>7, Zenon DEF ResolvedGuard
<1>9. PICK l \in Nat, m \in Nat :
        /\ l = Len(own) /\ DOMAIN own = 1 .. l /\ m = Len(found) /\ DOMAIN found = 1 .. m
  BY <1>2, <1>5
<1>10. /\ c \in Seq(T) /\ DOMAIN c = 1 .. (l + m) /\ Len(c) = l + m
       /\ \A i \in 1 .. l : c[i] = own[i]
       /\ \A i \in 1 .. m : c[l + i] = found[i]
  BY <1>2, <1>5, <1>6, <1>9
<1>11. l + m # 0 /\ hit = c[1]
  <2>1. first = SubSeq(c, 1, IF l + m < 1 THEN l + m ELSE 1)
    BY <1>7, <1>10 DEF UpTo
  <2>2. /\ first \in Seq(T) /\ DOMAIN first = 1 .. (IF l + m < 1 THEN l + m ELSE 1)
        /\ \A i \in DOMAIN first : first[i] = c[i]
    BY <1>9, <1>10, <2>1
  <2>3. PICK i \in DOMAIN first : hit = first[i]
    BY <1>8 DEF ToSet
  <2>4. i = 1 /\ l + m # 0
    BY <1>9, <2>2, <2>3
  <2> QED
    BY <2>2, <2>3, <2>4
<1>12. CASE l # 0
  <2>1. hit = own[1] /\ own[1] \in ToSet(own)
    <3>1. 1 \in 1 .. l
      BY <1>9, <1>12
    <3> QED
      BY <1>9, <1>10, <1>11, <3>1 DEF ToSet
  <2>2. PICK i \in DOMAIN found \cap at : hit = found[i]
    BY <1>5, <2>1
  <2>3. hit.name = name /\ hit \in ToSet(found)
    BY <1>3, <2>2 DEF ToSet
  <2> QED
    BY <1>2, <2>3
<1>13. CASE l = 0
  <2>1. 1 \in 1 .. m /\ l + 1 = 1
    BY <1>9, <1>11, <1>13
  <2>2. hit = found[1]
    BY <1>10, <1>11, <2>1
  <2>3. found # <<>> /\ hit \in ToSet(found)
    BY <1>9, <2>1, <2>2 DEF ToSet
  <2> QED
    BY <1>2, <2>2, <2>3
<1> QED
  BY <1>12, <1>13

\* A guard leads to the symbol of its name, or no symbol has that name, or the
\* one it was resolved by has it in another case of letters.
LEMMA GuardEdgesResolve ==
  ASSUME SeedAssumption, IsList(index.hits), Headers = ToSet(index.hits),
         NEW edge \in GuardEdges
  PROVE  Resolves(edge)
<1>1. PICK name \in Guards : \E hit \in ToSet(ResolvedGuard(name)) :
        edge = Edge("GUARD_DEFINED_IN", GuardId(name),
                    SymbolId(hit.kind, hit.file, name))
  BY DEF GuardEdges
<1>2. PICK hit \in ToSet(ResolvedGuard(name)) :
        edge = Edge("GUARD_DEFINED_IN", GuardId(name),
                    SymbolId(hit.kind, hit.file, name))
  BY <1>1
<1>3. /\ edge.type = "GUARD_DEFINED_IN" /\ edge.from = GuardId(name)
      /\ edge.to = SymbolId(hit.kind, hit.file, name) /\ edge.to[4] = name
  BY <1>2 DEF Edge, SymbolId
<1>4. EndResolves(edge, edge.from)
  BY <1>1, <1>3, NodesWritten DEF EndResolves
<1>5. PICK hits, T : hits = index.hits /\ T = ToSet(index.hits)
  OBVIOUS
<1>6. hits \in Seq(T) /\ SearchLimit \in Nat
  BY <1>5 DEF IsList, SeedAssumption
<1>7. /\ hit \in Headers
      /\ \/ hit.name = name
         \/ ~\E i \in DOMAIN hits : hits[i].name = name
         \/ Lower(hit.name) = Lower(name)
  BY <1>5, <1>6, GuardHit
<1>8. CASE hit.name = name
  <2>1. edge.to = HitId(hit)
    BY <1>3, <1>8 DEF HitId
  <2> QED
    BY <1>4, <1>7, <2>1, NodesWritten DEF Resolves, EndResolves
<1>9. CASE ~\E i \in DOMAIN hits : hits[i].name = name
  <2>1. ASSUME NEW row \in Rows("symbols")
        PROVE  row.id[4] # edge.to[4]
    <3>1. PICK other \in Headers : row = Node(HitId(other))
      BY DEF Rows
    <3>2. other.name # name
      BY <1>5, <1>9 DEF ToSet
    <3>3. row.id[4] = other.name
      BY <3>1 DEF Node, HitId, SymbolId
    <3> QED
      BY <1>3, <3>2, <3>3
  <2> QED
    BY <1>3, <1>4, <2>1 DEF Resolves, EndResolves
<1>10. CASE hit.name # name /\ Lower(hit.name) = Lower(name)
  <2>1. PICK row : row = Node(HitId(hit))
    OBVIOUS
  <2>2. row \in Rows("symbols") /\ row.id[4] = hit.name
    BY <1>7, <2>1 DEF Rows, Node, HitId, SymbolId
  <2> QED
    BY <1>3, <1>4, <1>10, <2>2 DEF Resolves, EndResolves
<1> QED
  BY <1>7, <1>8, <1>9, <1>10

LEMMA RouteEdgesResolve ==
  ASSUME IsList(index.routes), ParentsListed(index.routes), NEW edge \in RouteEdges
  PROVE  Resolves(edge)
<1>1. ASSUME NEW route \in Routes, edge \in EdgesOfRoute(route)
      PROVE  Resolves(edge)
  <2>1. PICK id : id = RouteId(route.path, route.file)
    OBVIOUS
  <2>2. Node(id) \in Written
    BY <1>1, <2>1, NodesWritten
  <2>3. edge \in {Edge("GUARDED_BY", id, GuardId(name)) : name \in route.guards}
                \cup {Edge("CHILD_OF", id, RouteId(parent, route.file)) :
                        parent \in route.parents}
                \cup {Edge("LOADS", id, FileId(path)) : path \in route.loads}
                \cup InAnchor(id, route.file)
    BY <1>1, <2>1, Zenon DEF EdgesOfRoute
  <2>4. ASSUME NEW name \in route.guards, edge = Edge("GUARDED_BY", id, GuardId(name))
        PROVE  Resolves(edge)
    <3>1. name \in Guards
      BY <1>1, <2>4 DEF Guards
    <3>2. edge.from = id /\ edge.to = GuardId(name)
      BY <2>4 DEF Edge
    <3> QED
      BY <2>2, <3>1, <3>2, NodesWritten DEF Resolves, EndResolves
  <2>5. ASSUME NEW parent \in route.parents,
               edge = Edge("CHILD_OF", id, RouteId(parent, route.file))
        PROVE  Resolves(edge)
    <3>1. PICK i \in DOMAIN index.routes : route = index.routes[i]
      BY <1>1 DEF Routes
    <3>2. PICK k \in DOMAIN index.routes :
            index.routes[k].path = parent /\ index.routes[k].file = route.file
      BY <2>5, <3>1 DEF ParentsListed
    <3>3. PICK kept \in Routes : RouteId(kept.path, kept.file) = RouteId(parent, route.file)
      BY <3>2, RouteKept
    <3>4. Node(RouteId(parent, route.file)) \in Written
      BY <3>3, NodesWritten
    <3>5. edge.from = id /\ edge.to = RouteId(parent, route.file)
      BY <2>5 DEF Edge
    <3> QED
      BY <2>2, <3>4, <3>5 DEF Resolves, EndResolves
  <2>6. ASSUME NEW path \in route.loads, edge = Edge("LOADS", id, FileId(path))
        PROVE  Resolves(edge)
    <3>1. edge.from = id /\ edge.to[1] = "file"
      BY <2>6 DEF Edge, FileId
    <3> QED
      BY <2>2, <3>1 DEF Resolves, EndResolves
  <2>7. CASE edge \in InAnchor(id, route.file)
    BY <2>2, <2>7, AnchoredResolves
  <2> QED
    BY <2>3, <2>4, <2>5, <2>6, <2>7
<1>2. ASSUME NEW link \in index.links, edge \in EdgesOfLink(link)
      PROVE  Resolves(edge)
  <2>1. PICK id \in LinkedRoutes(link) :
          edge = Edge("REFERENCES_ROUTE", FileId(link.file), id)
    BY <1>2 DEF EdgesOfLink
  <2>2. PICK i \in DOMAIN index.routes :
          id = RouteId(index.routes[i].path, index.routes[i].file)
    BY <2>1 DEF LinkedRoutes
  <2>3. Node(id) \in Written
    BY <2>2, RouteKept, NodesWritten
  <2>4. edge.from[1] = "file" /\ edge.to = id
    BY <2>1 DEF Edge, FileId
  <2> QED
    BY <2>3, <2>4 DEF Resolves, EndResolves
<1> QED
  BY <1>1, <1>2 DEF RouteEdges

LEMMA DirectiveEdgesResolve ==
  ASSUME SeedAssumption, IsList(index.hits), Headers = ToSet(index.hits),
         NEW edge \in DirectiveEdges
  PROVE  Resolves(edge)
<1>1. CASE edge \in {Edge("USES_DIRECTIVE", FileId(use.file), DirectiveId(use.name)) :
                       use \in ToSet(index.directives)}
  <2>1. PICK use \in ToSet(index.directives) :
          edge = Edge("USES_DIRECTIVE", FileId(use.file), DirectiveId(use.name))
    BY <1>1
  <2>2. edge.from[1] = "file" /\ edge.to = DirectiveId(use.name)
    BY <2>1 DEF Edge, FileId
  <2>3. use.name \in DirectivesUsed
    BY DEF DirectivesUsed
  <2> QED
    BY <2>2, <2>3, NodesWritten DEF Resolves, EndResolves
<1>2. CASE edge \in UNION {DefinedIn(name) : name \in DirectivesUsed}
  <2>1. PICK name \in DirectivesUsed : edge \in DefinedIn(name)
    BY <1>2
  <2>2. PICK hit \in ToSet(UpTo(1, ResolvedDirective(name))) :
          edge = Edge("DIRECTIVE_DEFINED_IN", DirectiveId(name), HitId(hit))
    BY <2>1 DEF DefinedIn
  <2>3. edge.from = DirectiveId(name) /\ edge.to = HitId(hit)
    BY <2>2 DEF Edge
  <2>4. PICK hits, T : hits = index.hits /\ T = ToSet(index.hits)
    OBVIOUS
  <2>5. hits \in Seq(T) /\ SearchLimit \in Nat /\ 1 \in Nat
    BY <2>4 DEF IsList, SeedAssumption
  <2>6. PICK suffixed, plain :
          /\ suffixed = SearchSymbol(hits, name \o <<"Directive">>, SearchLimit)
          /\ plain = SearchSymbol(hits, name, SearchLimit)
    OBVIOUS
  <2>7. /\ suffixed \in Seq(T) /\ ToSet(suffixed) \subseteq ToSet(hits)
        /\ plain \in Seq(T) /\ ToSet(plain) \subseteq ToSet(hits)
    BY <2>5, <2>6, SearchReturnsHits
  <2>8. PICK found : found = ResolvedDirective(name)
    OBVIOUS
  <2>9. found = suffixed \/ found = plain
    <3>1. PICK class : class = name \o <<"Directive">>
      OBVIOUS
    <3>2. found = CASE suffixed # <<>> /\ Lower(suffixed[1].name) = Lower(class) -> suffixed
                    [] plain # <<>> /\ Lower(plain[1].name) = Lower(name) -> plain
                    [] suffixed # <<>> -> suffixed
                    [] OTHER -> plain
      BY <2>4, <2>6, <2>8, <3>1, Zenon DEF ResolvedDirective
    <3>3. PICK e1 \in BOOLEAN, e2 \in BOOLEAN, e3 \in BOOLEAN :
            /\ e1 = (suffixed # <<>> /\ Lower(suffixed[1].name) = Lower(class))
            /\ e2 = (plain # <<>> /\ Lower(plain[1].name) = Lower(name))
            /\ e3 = (suffixed # <<>>)
      OBVIOUS
    <3>4. found = CASE e1 -> suffixed [] e2 -> plain [] e3 -> suffixed [] OTHER -> plain
      BY <3>2, <3>3
    <3> QED
      BY <3>4
  <2>10. found \in Seq(T) /\ ToSet(found) \subseteq ToSet(hits)
    BY <2>7, <2>9
  <2>11. ToSet(UpTo(1, found)) \subseteq ToSet(found)
    BY <2>5, <2>10, CutList
  <2>12. hit \in Headers
    BY <2>2, <2>4, <2>8, <2>10, <2>11
  <2> QED
    BY <2>3, <2>12, NodesWritten DEF Resolves, EndResolves
<1> QED
  BY <1>1, <1>2 DEF DirectiveEdges

\* What a command writes of a whole index resolves.
LEMMA WrittenResolves ==
  ASSUME SeedAssumption, IsList(index.hits), IsList(index.routes),
         ParentsListed(index.routes), Len(Entries(index.hits)) <= HeaderLimit,
         NEW edge \in Written, "type" \in DOMAIN edge
  PROVE  Resolves(edge)
<1>1. Headers = ToSet(index.hits)
  BY AllHeaders
<1>2. PICK file \in {"anchors", "symbols", "components", "routes", "directives", "edges"} :
        edge \in Rows(file)
  BY SeedFileNames DEF Written
<1>3. CASE file = "anchors"
  <2>1. edge \in AnchorRows
    BY <1>2, <1>3 DEF Rows
  <2> QED
    BY <2>1, AnchorEdgesResolve
<1>4. CASE file = "edges"
  <2>1. edge \in SymbolEdges \cup UsageEdges \cup GuardEdges
                   \cup RouteEdges \cup DirectiveEdges
    BY <1>2, <1>4 DEF Rows
  <2> QED
    BY <1>1, <2>1, SymbolEdgesResolve, UsageEdgesResolve, GuardEdgesResolve,
       RouteEdgesResolve, DirectiveEdgesResolve
<1>5. CASE file \in {"symbols", "components", "routes", "directives"}
  <2>1. \E id : edge = Node(id)
    BY <1>2, <1>5 DEF Rows
  <2> QED
    BY <2>1 DEF Node
<1> QED
  BY <1>2, <1>3, <1>4, <1>5

-----------------------------------------------------------------------------
(* The steps of the command, and the theorem about its rows.               *)

IndexFields == {"files", "hits", "usages", "links", "directives", "routes"}

IndexInv ==
  /\ DOMAIN index = IndexFields
  /\ index.files \in Seq(ToSet(SourceFiles))
  /\ IsList(index.hits)
  /\ IsList(index.routes)
  /\ ParentsListed(index.routes)

PassInv ==
  /\ pass \in [name : {"idle", "templates", "symbols", "routes", "writing"}, next : Nat]
  /\ pass.next >= 1
  /\ pass.name = "writing" => pass.next <= Len(SeedFileOrder)

\* The files written so far are of the index that is being written.
WritingInv ==
  /\ DOMAIN seedFiles = ToSet(SeedFileOrder)
  /\ pass.name # "idle" => ~fresh
  /\ pass.name = "writing" =>
       \A k \in 1 .. pass.next - 1 :
         seedFiles[SeedFileOrder[k]] = Rows(SeedFileOrder[k])

SeedsInv ==
  /\ tree \in [ToSet(SourceFiles) -> FileContents]
  /\ PassInv
  /\ IndexInv
  /\ WritingInv
  /\ EdgesResolve

LEMMA ParentListed ==
  ASSUME NEW routes, ParentsListed(routes),
         NEW i \in DOMAIN routes, NEW parent \in routes[i].parents
  PROVE  \E k \in DOMAIN routes :
           routes[k].path = parent /\ routes[k].file = routes[i].file
BY Zenon DEF ParentsListed

LEMMA EmptyLists == IsList(<<>>) /\ ParentsListed(<<>>)
<1>1. PICK none : none = <<>>
  OBVIOUS
<1>2. none \in Seq(ToSet(none)) /\ DOMAIN none = {}
  <2>1. PICK T : T = ToSet(none)
    OBVIOUS
  <2>2. none \in Seq(T)
    BY <1>1
  <2> QED
    BY <1>1, <2>1, <2>2
<1>3. IsList(none) /\ ParentsListed(none)
  BY <1>2 DEF IsList, ParentsListed
<1> QED
  BY <1>1, <1>3

LEMMA EmptyIndexListed ==
  ASSUME index = EmptyIndex
  PROVE  IndexInv
<1>1. /\ DOMAIN index = IndexFields /\ index.files = <<>>
      /\ index.hits = <<>> /\ index.routes = <<>>
  BY DEF EmptyIndex, IndexFields
<1>2. index.files \in Seq(ToSet(SourceFiles))
  <2>1. PICK T : T = ToSet(SourceFiles)
    OBVIOUS
  <2> QED
    BY <1>1, <2>1
<1> QED
  BY <1>1, <1>2, EmptyLists DEF IndexInv

LEMMA SeedOrderLength ==
  /\ Len(SeedFileOrder) = 6
  /\ \A k \in 1 .. 6 : SeedFileOrder[k] \in ToSet(SeedFileOrder)
  /\ \A file \in ToSet(SeedFileOrder) : \E k \in 1 .. 6 : file = SeedFileOrder[k]
<1>1. DOMAIN SeedFileOrder = 1 .. 6 /\ Len(SeedFileOrder) = 6
  BY DEF SeedFileOrder
<1> QED
  BY <1>1 DEF ToSet

LEMMA SeedsInit ==
  ASSUME SeedInit
  PROVE  SeedsInv
<1>1. PassInv
  BY DEF SeedInit, PassInv, Idle
<1>2. IndexInv
  BY EmptyIndexListed DEF SeedInit
<1>3. pass.name = "idle" /\ ~fresh
  BY DEF SeedInit, Idle
<1>4. WritingInv
  BY <1>3 DEF SeedInit, WritingInv
<1>5. EdgesResolve
  BY <1>3 DEF EdgesResolve
<1> QED
  BY <1>1, <1>2, <1>4, <1>5 DEF SeedsInv, SeedInit

\* A step that leaves the rows alone and does not finish a command.
LEMMA ResolvesKept ==
  ASSUME EdgesResolve, seedFiles' = seedFiles, fresh' = fresh \/ fresh' = FALSE
  PROVE  EdgesResolve'
<1>1. CASE fresh' = FALSE
  BY <1>1 DEF EdgesResolve
<1>2. CASE fresh' = fresh
  BY <1>2 DEF EdgesResolve, EdgesOnDisk, RowsOnDisk
<1> QED
  BY <1>1, <1>2

LEMMA EditKeeps ==
  ASSUME SeedsInv, EditFile
  PROVE  SeedsInv'
<1>1. tree' \in [ToSet(SourceFiles) -> FileContents]
  BY DEF SeedsInv, EditFile
<1>2. PassInv' /\ IndexInv'
  BY DEF SeedsInv, EditFile, PassInv, IndexInv
<1>3. \A file : Rows(file)' = Rows(file)
  BY DEF EditFile, Rows, AnchorRows, Headers, SymbolHeaders, Guards, Routes,
     DirectivesUsed, SymbolEdges, UsageEdges, GuardEdges, RouteEdges, DirectiveEdges,
     ResolvedGuard, ResolvedDirective, DefinedIn, LinkedRoutes, EdgesOfLink
<1>4. WritingInv'
  BY <1>3 DEF SeedsInv, EditFile, WritingInv
<1>5. EdgesResolve'
  BY ResolvesKept DEF SeedsInv, EditFile
<1> QED
  BY <1>1, <1>2, <1>4, <1>5 DEF SeedsInv

LEMMA StartKeeps ==
  ASSUME ContentsAssumption, SeedsInv, StartSeeding
  PROVE  SeedsInv'
<1>1. PassInv' /\ pass'.name = "templates"
  BY DEF StartSeeding, PassInv
<1>2. Collected \in Seq(ToSet(SourceFiles))
  <2>1. PICK T : T = ToSet(SourceFiles)
    OBVIOUS
  <2>2. SourceFiles \in Seq(T)
    BY <2>1 DEF ContentsAssumption
  <2>3. \A at : Chosen(SourceFiles, at) \in Seq(T)
    BY <2>2, ChosenElements
  <2> QED
    BY <2>1, <2>3 DEF Collected
<1>3. /\ DOMAIN index' = IndexFields /\ index'.files = Collected
      /\ index'.hits = <<>> /\ index'.routes = <<>>
  BY DEF StartSeeding, EmptyIndex, IndexFields
<1>4. IndexInv'
  BY <1>2, <1>3, EmptyLists DEF IndexInv
<1>5. WritingInv' /\ fresh' = FALSE
  BY <1>1 DEF SeedsInv, StartSeeding, WritingInv
<1>6. EdgesResolve'
  BY <1>5, ResolvesKept DEF SeedsInv, StartSeeding
<1> QED
  BY <1>1, <1>4, <1>5, <1>6 DEF SeedsInv, StartSeeding

LEMMA TemplatesKeep ==
  ASSUME SeedsInv, ReadTemplates
  PROVE  SeedsInv'
<1>1. pass' = [pass EXCEPT !.next = @ + 1]
  BY DEF ReadTemplates, Advance
<1>2. PassInv' /\ pass'.name = "templates"
  BY <1>1 DEF SeedsInv, ReadTemplates, PassInv
<1>3. /\ DOMAIN index' = DOMAIN index /\ index'.files = index.files
      /\ index'.hits = index.hits /\ index'.routes = index.routes
  BY DEF SeedsInv, IndexInv, IndexFields, ReadTemplates
<1>4. IndexInv'
  BY <1>3 DEF SeedsInv, IndexInv
<1>5. WritingInv'
  BY <1>2 DEF SeedsInv, ReadTemplates, WritingInv
<1>6. EdgesResolve'
  BY ResolvesKept DEF SeedsInv, ReadTemplates
<1> QED
  BY <1>2, <1>4, <1>5, <1>6 DEF SeedsInv, ReadTemplates

\* What a source file holds, of one that exists, is listed.
LEMMA ContentListed ==
  ASSUME ContentsAssumption, SeedsInv, NEW i \in DOMAIN index.files,
         tree[index.files[i]].exists
  PROVE  /\ IsList(tree[index.files[i]].symbols)
         /\ IsList(tree[index.files[i]].routes)
<1>1. PICK T : T = ToSet(SourceFiles)
  OBVIOUS
<1>2. index.files \in Seq(T)
  BY <1>1 DEF SeedsInv, IndexInv
<1>3. index.files[i] \in T
  BY <1>2
<1>4. tree[index.files[i]] \in FileContents
  BY <1>1, <1>3 DEF SeedsInv
<1>5. tree[index.files[i]] # Gone
  BY DEF Gone
<1> QED
  BY <1>4, <1>5 DEF ContentsAssumption, IsList

LEMMA SymbolsKeep ==
  ASSUME ContentsAssumption, SeedsInv, ReadSymbols
  PROVE  SeedsInv'
<1>1. pass' = [pass EXCEPT !.next = @ + 1] /\ pass.name = "symbols"
  BY DEF ReadSymbols, Advance
<1>2. PassInv' /\ pass'.name = "symbols"
  BY <1>1 DEF SeedsInv, PassInv
<1>3. PICK a, file, symbols :
        a = index.hits /\ file = Current /\ symbols = tree[Current].symbols
  OBVIOUS
<1> DEFINE Hit(s) == [name |-> symbols[s].name, file |-> file,
                      kind |-> symbols[s].kind]
<1>4. PICK b : b = [s \in DOMAIN symbols |-> Hit(s)]
  OBVIOUS
<1>5. IsList(a)
  BY <1>3 DEF SeedsInv, IndexInv
<1>6. /\ DOMAIN index' = DOMAIN index /\ index'.files = index.files
      /\ index'.routes = index.routes
      /\ index'.hits = IF tree[Current].exists THEN a \o b ELSE a
  BY <1>3, <1>4 DEF SeedsInv, IndexInv, IndexFields, ReadSymbols
<1>7. ASSUME tree[Current].exists
      PROVE  IsList(a \o b)
  <2>1. pass.next \in DOMAIN index.files
    <3>1. PICK S : S = ToSet(SourceFiles)
      OBVIOUS
    <3>2. index.files \in Seq(S)
      BY <3>1 DEF SeedsInv, IndexInv
    <3> QED
      BY <3>2 DEF SeedsInv, PassInv, ReadSymbols
  <2>2. IsList(symbols)
    BY <1>3, <1>7, <2>1, ContentListed DEF Current
  <2>3. PICK n \in Nat : DOMAIN symbols = 1 .. n
    <3>1. PICK S : S = ToSet(symbols)
      OBVIOUS
    <3>2. symbols \in Seq(S)
      BY <2>2, <3>1 DEF IsList
    <3> QED
      BY <3>2
  <2>4. PICK B : B = {Hit(s) : s \in 1 .. n}
    OBVIOUS
  <2>5. b \in Seq(B)
    <3> HIDE DEF Hit
    <3>1. \A s \in 1 .. n : Hit(s) \in B
      BY <2>4
    <3> QED
      BY <1>4, <2>3, <3>1
  <2>6. PICK A : A = ToSet(a)
    OBVIOUS
  <2>7. a \in Seq(A)
    BY <1>5, <2>6 DEF IsList
  <2>8. a \o b \in Seq(A \cup B)
    BY <2>5, <2>7
  <2> QED
    BY <2>8, ListOf
<1>8. IndexInv'
  <2>1. IsList(index'.hits)
    BY <1>5, <1>6, <1>7
  <2> QED
    BY <1>6, <2>1 DEF SeedsInv, IndexInv
<1>9. WritingInv'
  BY <1>1, <1>2 DEF SeedsInv, ReadSymbols, WritingInv
<1>10. EdgesResolve'
  BY ResolvesKept DEF SeedsInv, ReadSymbols
<1> QED
  BY <1>2, <1>8, <1>9, <1>10 DEF SeedsInv, ReadSymbols

\* The parents of the routes of a file are routes of the file.
LEMMA FlattenedListed ==
  ASSUME NEW routes, IsList(routes), NEW file
  PROVE  /\ IsList(Flattened(routes, file))
         /\ ParentsListed(Flattened(routes, file))
<1> DEFINE IsFull(f) == f = [i \in DOMAIN routes |->
             IF Above(routes, i) = {} THEN routes[i].segment
             ELSE f[CHOOSE j \in Above(routes, i) : TRUE] \o routes[i].segment]
<1>1. PICK full : full = CHOOSE f : IsFull(f)
  OBVIOUS
<1> DEFINE Listing(i) == [path |-> full[i], file |-> file,
                        parents |-> {full[j] : j \in Above(routes, i)},
                        guards |-> routes[i].guards, loads |-> routes[i].loads]
<1>2. Flattened(routes, file) = [i \in DOMAIN routes |-> Listing(i)]
  BY <1>1, Zenon DEF Flattened
<1>3. PICK n \in Nat : DOMAIN routes = 1 .. n
  <2>1. PICK T : T = ToSet(routes)
    OBVIOUS
  <2>2. routes \in Seq(T)
    BY <2>1 DEF IsList
  <2> QED
    BY <2>2
<1>4. PICK q : q = [i \in 1 .. n |-> Listing(i)]
  OBVIOUS
<1>5. Flattened(routes, file) = q
  BY <1>2, <1>3, <1>4
<1>6. IsList(q)
  <2> HIDE DEF Listing
  <2>1. q \in Seq({Listing(i) : i \in 1 .. n})
    BY <1>4
  <2> QED
    BY <2>1, ListOf
<1>7. ParentsListed(q)
  <2>0. DOMAIN q = 1 .. n
    BY <1>4
  <2>1. SUFFICES ASSUME NEW i \in 1 .. n, NEW parent \in q[i].parents
                 PROVE  \E k \in 1 .. n : q[k].path = parent /\ q[k].file = q[i].file
    <3> HIDE DEF Listing
    <3> QED
      BY <2>0 DEF ParentsListed
  <2>2. q[i].parents = {full[j] : j \in Above(routes, i)} /\ q[i].file = file
    BY <1>4
  <2>3. PICK j \in Above(routes, i) : parent = full[j]
    BY <2>1, <2>2
  <2>4. j \in 1 .. n
    BY <1>3, <2>3 DEF Above
  <2>5. q[j].path = parent /\ q[j].file = file
    BY <1>4, <2>3, <2>4
  <2> QED
    BY <2>2, <2>4, <2>5
<1> QED
  BY <1>5, <1>6, <1>7

LEMMA RoutesKeep ==
  ASSUME ContentsAssumption, SeedsInv, ReadRoutes
  PROVE  SeedsInv'
<1>1. pass' = [pass EXCEPT !.next = @ + 1] /\ pass.name = "routes"
  BY DEF ReadRoutes, Advance
<1>2. PassInv' /\ pass'.name = "routes"
  BY <1>1 DEF SeedsInv, PassInv
<1>3. PICK a, b : a = index.routes /\ b = Flattened(tree[Current].routes, Current)
  OBVIOUS
<1>4. IsList(a) /\ ParentsListed(a)
  BY <1>3 DEF SeedsInv, IndexInv
<1>5. /\ DOMAIN index' = DOMAIN index /\ index'.files = index.files
      /\ index'.hits = index.hits
      /\ index'.routes = IF tree[Current].exists THEN a \o b ELSE a
  BY <1>3 DEF SeedsInv, IndexInv, IndexFields, ReadRoutes
<1>6. ASSUME tree[Current].exists
      PROVE  IsList(a \o b) /\ ParentsListed(a \o b)
  <2>1. pass.next \in DOMAIN index.files
    <3>1. PICK S : S = ToSet(SourceFiles)
      OBVIOUS
    <3>2. index.files \in Seq(S)
      BY <3>1 DEF SeedsInv, IndexInv
    <3> QED
      BY <3>2 DEF SeedsInv, PassInv, ReadRoutes
  <2>2. IsList(tree[Current].routes)
    BY <1>6, <2>1, ContentListed DEF Current
  <2>3. IsList(b) /\ ParentsListed(b)
    BY <1>3, <2>2, FlattenedListed
  <2>4. PICK A, B : A = ToSet(a) /\ B = ToSet(b)
    OBVIOUS
  <2>5. a \in Seq(A) /\ b \in Seq(B)
    BY <1>4, <2>3, <2>4 DEF IsList
  <2>6. PICK l \in Nat, m \in Nat :
          /\ l = Len(a) /\ DOMAIN a = 1 .. l /\ m = Len(b) /\ DOMAIN b = 1 .. m
    BY <2>5
  <2>7. PICK c : c = a \o b
    OBVIOUS
  <2>8. /\ c \in Seq(A \cup B) /\ DOMAIN c = 1 .. (l + m)
        /\ \A i \in 1 .. l : c[i] = a[i]
        /\ \A i \in 1 .. m : c[l + i] = b[i]
    BY <2>5, <2>6, <2>7
  <2>9. IsList(c)
    BY <2>8, ListOf
  <2>10. ASSUME NEW i \in 1 .. (l + m), NEW parent \in c[i].parents
         PROVE  \E k \in 1 .. (l + m) : c[k].path = parent /\ c[k].file = c[i].file
    <3>1. CASE i <= l
      <4>1. i \in 1 .. l
        BY <2>6, <2>10, <3>1
      <4>2. c[i] = a[i]
        BY <2>8, <4>1
      <4>3. PICK k \in 1 .. l : a[k].path = parent /\ a[k].file = a[i].file
        BY <1>4, <2>6, <2>10, <4>1, <4>2 DEF ParentsListed
      <4>4. c[k] = a[k] /\ k \in 1 .. (l + m)
        BY <2>6, <2>8, <4>3
      <4> QED
        BY <4>2, <4>3, <4>4
    <3>2. CASE i > l
      <4>1. PICK j : j = i - l
        OBVIOUS
      <4>2. j \in 1 .. m /\ l + j = i
        BY <2>6, <2>10, <3>2, <4>1
      <4>3. c[i] = b[j]
        BY <2>8, <4>2
      <4>4. j \in DOMAIN b /\ parent \in b[j].parents
        BY <2>6, <2>10, <4>2, <4>3
      <4>5. PICK k \in DOMAIN b : b[k].path = parent /\ b[k].file = b[j].file
        BY <2>3, <4>4, ParentListed
      <4>6. k \in 1 .. m
        BY <2>6, <4>5
      <4>7. c[l + k] = b[k]
        BY <2>8, <4>6
      <4>8. l + k \in 1 .. (l + m)
        BY <2>6, <4>6
      <4> QED
        BY <4>3, <4>5, <4>7, <4>8
    <3>3. i \in Int /\ l \in Int
      BY <2>6, <2>10
    <3> QED
      BY <3>1, <3>2, <3>3
  <2>11. ParentsListed(c)
    BY <2>8, <2>10 DEF ParentsListed
  <2> QED
    BY <2>7, <2>9, <2>11
<1>7. IsList(index'.routes) /\ ParentsListed(index'.routes)
  BY <1>4, <1>5, <1>6
<1>8. IndexInv'
  BY <1>5, <1>7 DEF SeedsInv, IndexInv
<1>9. WritingInv'
  BY <1>2, <1>1 DEF SeedsInv, ReadRoutes, WritingInv
<1>10. EdgesResolve'
  BY ResolvesKept DEF SeedsInv, ReadRoutes
<1> QED
  BY <1>2, <1>8, <1>9, <1>10 DEF SeedsInv, ReadRoutes

LEMMA EndPassKeeps ==
  ASSUME SeedsInv, EndPass
  PROVE  SeedsInv'
<1>1. /\ pass'.name \in {"symbols", "routes", "writing"} /\ pass'.next = 1
      /\ pass' = [name |-> pass'.name, next |-> 1] /\ pass.name # "idle"
  BY DEF EndPass
<1>2. PassInv'
  BY <1>1, SeedOrderLength DEF PassInv
<1>3. IndexInv'
  BY DEF SeedsInv, IndexInv, EndPass
<1>4. WritingInv'
  BY <1>1 DEF SeedsInv, EndPass, WritingInv
<1>5. EdgesResolve'
  BY ResolvesKept DEF SeedsInv, EndPass
<1> QED
  BY <1>2, <1>3, <1>4, <1>5 DEF SeedsInv, EndPass

LEMMA WriteKeeps ==
  ASSUME SeedAssumption, SeedsInv, WriteSeedFile
  PROVE  SeedsInv'
<1>1. PICK n, file : n = pass.next /\ file = SeedFileOrder[n]
  OBVIOUS
<1>2. n \in 1 .. 6 /\ pass.name = "writing" /\ ~fresh
  BY <1>1, SeedOrderLength DEF SeedsInv, PassInv, WritingInv, WriteSeedFile
<1>3. seedFiles' = [seedFiles EXCEPT ![file] = Rows(file)]
  BY <1>1 DEF WriteSeedFile
<1>4. /\ DOMAIN seedFiles' = ToSet(SeedFileOrder)
      /\ \A k \in 1 .. n : seedFiles'[SeedFileOrder[k]] = Rows(SeedFileOrder[k])
  <2>1. DOMAIN seedFiles = ToSet(SeedFileOrder) /\ file \in ToSet(SeedFileOrder)
    BY <1>1, <1>2, SeedOrderLength DEF SeedsInv, WritingInv
  <2>2. \A k \in 1 .. n : k \in 1 .. 6 /\ (k = n \/ k \in 1 .. n - 1)
    BY <1>2
  <2>3. \A k \in 1 .. n - 1 : seedFiles[SeedFileOrder[k]] = Rows(SeedFileOrder[k])
    BY <1>1, <1>2 DEF SeedsInv, WritingInv
  <2> HIDE DEF ToSet
  <2>4. ASSUME NEW k \in 1 .. n
        PROVE  seedFiles'[SeedFileOrder[k]] = Rows(SeedFileOrder[k])
    <3>1. SeedFileOrder[k] \in DOMAIN seedFiles
      BY <2>1, <2>2, SeedOrderLength
    <3>2. CASE SeedFileOrder[k] = file
      BY <1>3, <2>1, <3>2
    <3>3. CASE SeedFileOrder[k] # file
      <4>1. seedFiles'[SeedFileOrder[k]] = seedFiles[SeedFileOrder[k]]
        BY <1>3, <3>1, <3>3
      <4> QED
        BY <1>1, <2>2, <2>3, <3>3, <4>1
    <3> QED
      BY <3>2, <3>3
  <2> QED
    BY <1>3, <2>1, <2>4
<1>5. tree' = tree
  BY DEF WriteSeedFile
<1>6. CASE n # 6
  <2>1. pass' = [pass EXCEPT !.next = @ + 1] /\ fresh' = fresh /\ index' = index
    BY <1>1, <1>6, SeedOrderLength DEF WriteSeedFile, Advance
  <2>2. pass'.name = "writing" /\ pass'.next = n + 1 /\ PassInv'
    BY <1>1, <1>2, <1>6, <2>1, SeedOrderLength DEF SeedsInv, PassInv
  <2>3. IndexInv'
    BY <2>1 DEF SeedsInv, IndexInv
  <2>4. \A f : Rows(f)' = Rows(f)
    BY <2>1 DEF Rows, AnchorRows, Headers, SymbolHeaders, Guards, Routes,
       DirectivesUsed, SymbolEdges, UsageEdges, GuardEdges, RouteEdges, DirectiveEdges,
       ResolvedGuard, ResolvedDirective, DefinedIn, LinkedRoutes, EdgesOfLink
  <2>5. WritingInv'
    <3>1. (n + 1) - 1 = n
      BY <1>2
    <3> QED
      BY <1>2, <1>4, <2>1, <2>2, <2>4, <3>1 DEF WritingInv
  <2>6. EdgesResolve'
    BY <1>2, <2>1 DEF EdgesResolve
  <2> QED
    BY <1>5, <2>2, <2>3, <2>5, <2>6 DEF SeedsInv
<1>7. CASE n = 6
  <2>1. /\ pass' = Idle /\ index' = EmptyIndex
        /\ fresh' = (Len(Entries(index.hits)) <= HeaderLimit)
    BY <1>1, <1>7, SeedOrderLength DEF WriteSeedFile
  <2>2. PassInv' /\ pass'.name = "idle"
    BY <2>1 DEF PassInv, Idle
  <2>3. IndexInv'
    <3>1. (index = EmptyIndex => IndexInv)'
      BY EmptyIndexListed, PTL
    <3> QED
      BY <2>1, <3>1 DEF EmptyIndex
  <2>4. WritingInv'
    BY <1>4, <2>2 DEF WritingInv
  <2>5. \A f \in ToSet(SeedFileOrder) : seedFiles'[f] = Rows(f)
    BY <1>4, <1>7, SeedOrderLength
  <2>6. RowsOnDisk' = Written
    BY <1>4, <2>5 DEF RowsOnDisk, Written, Range
  <2>7. seedFiles'["symbols"] = Rows("symbols")
    BY <2>5, SeedFileNames
  <2>8. ASSUME fresh', NEW edge \in EdgesOnDisk'
        PROVE  Resolves(edge)
    <3>1. edge \in Written /\ "type" \in DOMAIN edge
      BY <2>6, <2>8 DEF EdgesOnDisk
    <3>2. Len(Entries(index.hits)) <= HeaderLimit
      BY <2>1, <2>8
    <3> QED
      BY <3>1, <3>2, WrittenResolves DEF SeedsInv, IndexInv
  <2>9. EdgesResolve'
    BY <2>6, <2>7, <2>8 DEF EdgesResolve, Resolves, EndResolves
  <2> QED
    BY <1>5, <2>2, <2>3, <2>4, <2>9 DEF SeedsInv
<1> QED
  BY <1>6, <1>7

LEMMA DeathKeeps ==
  ASSUME SeedsInv, SeedingDies
  PROVE  SeedsInv'
<1>1. PassInv' /\ pass'.name = "idle" /\ index' = EmptyIndex
  BY DEF SeedingDies, PassInv, Idle
<1>2. IndexInv'
  <2>1. (index = EmptyIndex => IndexInv)'
    BY EmptyIndexListed, PTL
  <2> QED
    BY <1>1, <2>1 DEF EmptyIndex
<1>3. WritingInv'
  BY <1>1 DEF SeedsInv, SeedingDies, WritingInv
<1>4. EdgesResolve'
  BY ResolvesKept DEF SeedsInv, SeedingDies
<1> QED
  BY <1>1, <1>2, <1>3, <1>4 DEF SeedsInv, SeedingDies

LEMMA SeedsInvariant == SeedSpec => []SeedsInv
<1>1. SeedInit => SeedsInv
  BY SeedsInit
<1>2. SeedsInv /\ [SeedNext]_seedVars => SeedsInv'
  <2> SUFFICES ASSUME SeedsInv, [SeedNext]_seedVars
               PROVE  SeedsInv'
    OBVIOUS
  <2>1. CASE UNCHANGED seedVars
    <3>1. tree' = tree /\ pass' = pass /\ index' = index /\ seedFiles' = seedFiles /\ fresh' = fresh
      BY <2>1 DEF seedVars
    <3>2. \A file : Rows(file)' = Rows(file)
      BY <3>1 DEF Rows, AnchorRows, Headers, SymbolHeaders, Guards, Routes,
         DirectivesUsed, SymbolEdges, UsageEdges, GuardEdges, RouteEdges, DirectiveEdges,
         ResolvedGuard, ResolvedDirective, DefinedIn, LinkedRoutes, EdgesOfLink
    <3>3. WritingInv'
      BY <3>1, <3>2 DEF SeedsInv, WritingInv
    <3>4. EdgesResolve'
      BY <3>1, ResolvesKept DEF SeedsInv
    <3> QED
      BY <3>1, <3>3, <3>4 DEF SeedsInv, PassInv, IndexInv
  <2> QED
    BY <2>1, SeedAssumption, ContentsAssumption, EditKeeps, StartKeeps, TemplatesKeep,
       SymbolsKeep, RoutesKeep, EndPassKeeps, WriteKeeps, DeathKeeps DEF SeedNext
<1> QED
  BY <1>1, <1>2, PTL DEF SeedSpec

\* Edges refer to ids that were resolved: when a command wrote all its files,
\* both ends of every edge are rows, whatever was edited between its passes and
\* whichever commands died before (the generator writes six files in turn).
THEOREM SeedEdgesResolve == SeedSpec => []EdgesResolve
<1>1. SeedsInv => EdgesResolve
  BY DEF SeedsInv
<1> QED
  BY <1>1, SeedsInvariant, PTL

-----------------------------------------------------------------------------
(* Types.                                                                  *)

\* The clock, the cache, the calls and the history of requests keep their types,
\* and nothing refers to a request that was not sent.
THEOREM HttpTyped == HttpSpec => []HttpTypeOK
<1>1. HttpInv => HttpTypeOK
  <2> SUFFICES ASSUME HttpInv PROVE HttpTypeOK
    OBVIOUS
  <2>1. PICK n \in Nat : n = Len(sends) /\ DOMAIN sends = 1 .. n
    BY DEF HttpInv, TypeInv
  <2>2. ASSUME NEW k \in Keys
        PROVE  cache[k] \in [answer : 0 .. n,
                             expiresAt : {Never} \cup 0 .. MaxMs + CacheTtlMs]
    <3>1. cache[k] \in [answer : Nat, expiresAt : {Never} \cup 0 .. MaxMs + CacheTtlMs]
      BY DEF HttpInv, TypeInv
    <3>2. cache[k].answer <= n
      BY <2>1 DEF HttpInv, CacheInv
    <3> QED
      BY <3>1, <3>2
  <2>3. cache \in [Keys -> [answer : 0 .. n,
                            expiresAt : {Never} \cup 0 .. MaxMs + CacheTtlMs]]
    <3>1. cache = [k \in Keys |-> cache[k]]
      BY DEF HttpInv, TypeInv
    <3> QED
      BY <2>2, <3>1
  <2>4. ASSUME NEW c \in Calls
        PROVE  calls[c] \in
                 [phase : {"new", "throttled", "backoff", "sent", "done", "failed"},
                  key : Keys, attempt : 0 .. MaxRetries + 1, due : Nat,
                  came : 0 .. n, answer : 0 .. n, hit : BOOLEAN]
    <3>1. calls[c] \in CallRecords
      BY DEF HttpInv, TypeInv
    <3>2. calls[c].came <= n /\ calls[c].answer <= n
      BY <2>1 DEF HttpInv, CallSound
    <3>3. PICK phase \in Phases, key \in Keys, attempt \in 0 .. MaxRetries + 1,
               due \in Nat, came \in Nat, answer \in Nat, hit \in BOOLEAN :
            calls[c] = [phase |-> phase, key |-> key, attempt |-> attempt, due |-> due,
                        came |-> came, answer |-> answer, hit |-> hit]
      BY <3>1 DEF CallRecords
    <3>4. came \in 0 .. n /\ answer \in 0 .. n
      BY <2>1, <3>2, <3>3
    <3> QED
      BY <3>3, <3>4 DEF Phases
  <2>5. calls \in [Calls ->
          [phase : {"new", "throttled", "backoff", "sent", "done", "failed"},
           key : Keys, attempt : 0 .. MaxRetries + 1, due : Nat,
           came : 0 .. n, answer : 0 .. n, hit : BOOLEAN]]
    <3>1. calls = [c \in Calls |-> calls[c]]
      BY DEF HttpInv, TypeInv
    <3> QED
      BY <2>4, <3>1
  <2>6. ASSUME NEW i \in DOMAIN sends
        PROVE  sends[i] \in [time : 0 .. ms, call : Calls, after : 0 .. i - 1]
    <3>1. sends[i] \in SendRecords /\ i \in Nat
      BY <2>1, <2>6 DEF HttpInv, TypeInv
    <3>2. /\ sends[i].time <= lastRequestAt /\ sends[i].after <= i - 1
          /\ lastRequestAt \in Nat /\ ms \in Nat /\ lastRequestAt <= ms
      BY HttpAssumption DEF HttpInv, TypeInv, SendsInv
    <3>3. PICK time \in Nat, call \in Calls, after \in Nat :
            sends[i] = [time |-> time, call |-> call, after |-> after]
      BY <3>1 DEF SendRecords
    <3>4. time \in 0 .. ms /\ after \in 0 .. i - 1
      BY <3>1, <3>2, <3>3
    <3> QED
      BY <3>3, <3>4
  <2> QED
    BY <2>1, <2>3, <2>5, <2>6 DEF HttpTypeOK, HttpInv, TypeInv
<1> QED
  BY <1>1, HttpInvariant, PTL

\* Times are of processes that have started, and ids stay while there are
\* relationships.
GraphTypes ==
  /\ now \in Nat
  /\ syncing # NotSyncing => syncing.time \in Nat
  /\ exporting # NotExporting => exporting.time \in 0 .. now
  /\ GraphTypeOK

LEMMA UpsertTyped ==
  ASSUME SyncInv, SeedInv, GraphTypes, UpsertRow
  PROVE  /\ \A n \in graph'.nodes : n.labels # {} /\ n.updated \in Nat
         /\ \A r \in graph'.rels : \E n \in graph'.nodes : n.id = r.from
<1>1. /\ syncing.phase = "applying" /\ syncing.rows # <<>> /\ syncing # NotSyncing
      /\ graph' = Upserted(Head(syncing.rows), syncing.time)
  BY DEF UpsertRow, NotSyncing
<1>2. PICK seed \in Seeds : seed = syncing.seed BY <1>1 DEF SeedInv
<1>3. PICK row : row = Head(syncing.rows) OBVIOUS
<1>4. syncing.rows \in Seq(KeyedOf(seed)) BY <1>1, <1>2 DEF SeedInv, Applied
<1>5. PICK rows \in Seq(KeyedOf(seed)) : rows = syncing.rows BY <1>4
<1>6. row \in KeyedOf(seed) BY <1>1, <1>3, <1>5
<1>7. row \in ToSet(seed) /\ row.kind \in {"node", "rel"}
  BY <1>6 DEF KeyedOf, IsKeyed
<1>8. PICK time : time = Updated(row, syncing.time) OBVIOUS
<1>9. DOMAIN graph = {"nodes", "rels"} BY DEF SeedInv
<1>10. CASE row.kind = "node"
  <2>1. row.labels # {} /\ row.updated \in Nat BY <1>7, <1>10, RowsAssumption
  <2>2. time \in Nat BY <2>1, <1>1, <1>8 DEF Updated, GraphTypes
  <2>3. graph' = MergeNode(row, time) BY <1>1, <1>3, <1>8, <1>10 DEF Upserted
  <2>4. PICK match : match = Matching(row.id, row.labels) OBVIOUS
  <2>5. match \subseteq graph.nodes /\ \A n \in match : n.id = row.id
    BY <2>4 DEF Matching
  <2>6. /\ graph'.rels = graph.rels
        /\ graph'.nodes = (graph.nodes \ match)
             \cup {[id |-> row.id, labels |-> n.labels, updated |-> time] : n \in match}
             \cup IF match # {} THEN {}
                  ELSE {[id |-> row.id, labels |-> row.labels, updated |-> time]}
    BY <2>3, <2>4, <1>9 DEF MergeNode
  <2>7. \A n \in graph'.nodes : n.labels # {} /\ n.updated \in Nat
    BY <2>1, <2>2, <2>5, <2>6 DEF GraphTypes, GraphTypeOK
  <2>8. \A n \in graph.nodes : \E m \in graph'.nodes : m.id = n.id
    <3>. TAKE n \in graph.nodes
    <3>1. CASE n \in match
      <4>1. PICK m : m = [id |-> row.id, labels |-> n.labels, updated |-> time] OBVIOUS
      <4>2. m \in graph'.nodes /\ m.id = n.id BY <3>1, <4>1, <2>5, <2>6
      <4>. QED BY <4>2
    <3>2. CASE n \notin match BY <3>2, <2>6
    <3>. QED BY <3>1, <3>2
  <2>. QED BY <2>6, <2>7, <2>8 DEF GraphTypes, GraphTypeOK
<1>11. CASE row.kind = "rel"
  <2>. DEFINE End(id, label) ==
         IF Matching(id, {label}) # {} THEN {}
         ELSE {[id |-> id, labels |-> {label}, updated |-> NeverSynced]}
  <2>1. graph' = MergeRel(row) BY <1>1, <1>3, <1>11 DEF Upserted
  <2>2. /\ graph'.nodes = graph.nodes \cup End(row.from, row.fromLabel)
                                      \cup End(row.to, row.toLabel)
        /\ graph'.rels = graph.rels \cup {[from |-> row.from, to |-> row.to]}
    BY <2>1 DEF MergeRel
  <2>3. ASSUME NEW id, NEW label, NEW n \in End(id, label)
        PROVE  n.labels # {} /\ n.updated \in Nat
    <3>1. n = [id |-> id, labels |-> {label}, updated |-> NeverSynced] OBVIOUS
    <3>. QED BY <3>1 DEF NeverSynced
  <2>4. \E n \in graph'.nodes : n.id = row.from
    <3>1. CASE Matching(row.from, {row.fromLabel}) # {}
      BY <3>1, <2>2 DEF Matching
    <3>2. CASE Matching(row.from, {row.fromLabel}) = {}
      <4>1. [id |-> row.from, labels |-> {row.fromLabel}, updated |-> NeverSynced]
              \in graph'.nodes
        BY <3>2, <2>2
      <4>. QED BY <4>1
    <3>. QED BY <3>1, <3>2
  <2>. HIDE DEF End
  <2>5. \A n \in graph'.nodes : n.labels # {} /\ n.updated \in Nat
    BY <2>2, <2>3 DEF GraphTypes, GraphTypeOK
  <2>6. \A r \in graph'.rels : \E n \in graph'.nodes : n.id = r.from
    <3>. TAKE r \in graph'.rels
    <3>1. CASE r \in graph.rels BY <3>1, <2>2 DEF GraphTypes, GraphTypeOK
    <3>2. CASE r = [from |-> row.from, to |-> row.to] BY <3>2, <2>4
    <3>. QED BY <3>1, <3>2, <2>2
  <2>. QED BY <2>5, <2>6
<1>. QED BY <1>7, <1>10, <1>11

LEMMA SyncTyped ==
  ASSUME SyncInv, SeedInv, GraphTypes,
         SyncConnects \/ DropAll \/ ReadSeed \/ UpsertRow \/ SyncEnds \/ SyncFails
  PROVE  GraphTypes'
<1>1. /\ now' \in Nat /\ now' >= now /\ exporting' = exporting
      /\ watermark' \in {watermark, 0}
  BY DEF SyncConnects, DropAll, ReadSeed, UpsertRow, SyncEnds, SyncFails, GraphTypes,
         NeverSynced
<1>2. /\ now \in Nat /\ watermark \in 0 .. now
      /\ exporting # NotExporting => exporting.time \in 0 .. now
  BY DEF GraphTypes, GraphTypeOK
<1>3. watermark' \in 0 .. now' BY <1>1, <1>2
<1>4. exporting' # NotExporting => exporting'.time \in 0 .. now'
  BY <1>1, <1>2
<1>5. syncing' # NotSyncing => syncing'.time \in Nat
  <2>1. CASE SyncConnects BY <2>1, <1>2 DEF SyncConnects
  <2>2. CASE DropAll \/ ReadSeed \/ UpsertRow
    <3>1. syncing # NotSyncing /\ DOMAIN syncing = {"phase", "seed", "rows", "time"}
      BY <2>2 DEF DropAll, ReadSeed, UpsertRow, SyncInv, SyncShape, NotSyncing
    <3>2. syncing'.time = syncing.time
      BY <2>2, <3>1 DEF DropAll, ReadSeed, UpsertRow
    <3>. QED BY <3>1, <3>2 DEF GraphTypes
  <2>3. CASE SyncEnds \/ SyncFails BY <2>3 DEF SyncEnds, SyncFails
  <2>. QED BY <2>1, <2>2, <2>3
<1>6. outcome'.ended \in {"none", "ok", "failed"}
  <2>1. outcome = [ended |-> outcome.ended, overlapped |-> outcome.overlapped]
    BY DEF SyncInv, SyncShape
  <2>2. outcome' = outcome \/ outcome'.ended \in {"none", "ok", "failed"}
    <3>1. CASE DropAll BY <3>1 DEF DropAll
    <3>2. CASE SyncEnds BY <3>2, <2>1 DEF SyncEnds
    <3>3. CASE SyncFails
      <4>1. outcome' = [outcome EXCEPT !.ended =
              IF syncing.phase = "connected" THEN outcome.ended ELSE "failed"]
        BY <3>3 DEF SyncFails
      <4>2. outcome'.ended = IF syncing.phase = "connected" THEN outcome.ended ELSE "failed"
        BY <4>1, <2>1
      <4>. QED BY <4>2 DEF GraphTypes, GraphTypeOK
    <3>4. CASE SyncConnects \/ ReadSeed \/ UpsertRow
      BY <3>4 DEF SyncConnects, ReadSeed, UpsertRow
    <3>. QED BY <3>1, <3>2, <3>3, <3>4
  <2>. QED BY <2>2 DEF GraphTypes, GraphTypeOK
<1>7. /\ \A n \in graph'.nodes : n.labels # {} /\ n.updated \in Nat
      /\ \A r \in graph'.rels : \E n \in graph'.nodes : n.id = r.from
  <2>1. CASE UpsertRow BY <2>1, UpsertTyped
  <2>2. CASE DropAll BY <2>2 DEF DropAll
  <2>3. CASE SyncConnects \/ ReadSeed \/ SyncEnds \/ SyncFails
    BY <2>3 DEF SyncConnects, ReadSeed, SyncEnds, SyncFails, GraphTypes, GraphTypeOK
  <2>. QED BY <2>1, <2>2, <2>3
<1>. QED BY <1>1, <1>3, <1>4, <1>5, <1>6, <1>7 DEF GraphTypes, GraphTypeOK

LEMMA ExportTyped ==
  ASSUME SyncInv, GraphTypes,
         ExportStarts \/ ReadNodes \/ WriteExport \/ ExportEnds \/ ExportFails
  PROVE  GraphTypes'
<1>1. /\ now \in Nat /\ watermark \in 0 .. now
      /\ exporting # NotExporting => exporting.time \in 0 .. now
  BY DEF GraphTypes, GraphTypeOK
<1>2. UNCHANGED <<graph, syncing>>
  BY DEF ExportStarts, ReadNodes, WriteExport, ExportEnds, ExportFails
<1>3. outcome'.ended = outcome.ended
  BY DEF ExportStarts, ReadNodes, WriteExport, ExportEnds, ExportFails, SyncInv, SyncShape
<1>4. /\ now' \in Nat /\ watermark' \in 0 .. now'
      /\ exporting' # NotExporting => exporting'.time \in 0 .. now'
  <2>1. CASE ExportStarts BY <2>1, <1>1 DEF ExportStarts
  <2>2. CASE ReadNodes \/ WriteExport
    <3>1. exporting # NotExporting /\ DOMAIN exporting = {"phase", "since", "time", "ids"}
      BY <2>2 DEF ReadNodes, WriteExport, SyncInv, SyncShape, NotExporting
    <3>2. exporting'.time = exporting.time /\ UNCHANGED <<now, watermark>>
      BY <2>2, <3>1 DEF ReadNodes, WriteExport
    <3>. QED BY <3>1, <3>2, <1>1
  <2>3. CASE ExportEnds
    <3>1. exporting # NotExporting BY <2>3 DEF ExportEnds, NotExporting
    <3>. QED BY <3>1, <2>3, <1>1 DEF ExportEnds
  <2>4. CASE ExportFails BY <2>4, <1>1 DEF ExportFails
  <2>. QED BY <2>1, <2>2, <2>3, <2>4
<1>. QED BY <1>2, <1>3, <1>4 DEF GraphTypes, GraphTypeOK

\* Every relationship leaves a node that is in the graph, every node has a label
\* to be found by, and the watermark is never ahead of the processes that ran.
THEOREM GraphTyped == GraphSpec => []GraphTypeOK
<1>1. GraphInit => GraphTypes
  BY DEF GraphInit, GraphTypes, GraphTypeOK, NeverSynced
<1>2. SyncInv /\ SeedInv /\ GraphTypes /\ [GraphNext]_graphVars => GraphTypes'
  <2>. SUFFICES ASSUME SyncInv, SeedInv, GraphTypes, [GraphNext]_graphVars
                PROVE  GraphTypes'
    OBVIOUS
  <2>1. CASE UNCHANGED graphVars BY <2>1 DEF graphVars, GraphTypes, GraphTypeOK
  <2>. QED BY <2>1, SyncTyped, ExportTyped DEF GraphNext
<1>3. GraphTypes => GraphTypeOK BY DEF GraphTypes
<1>. QED BY <1>1, <1>2, <1>3, SyncInvariant, SeedInvariant, PTL DEF GraphSpec

\* The passes end with the files of the index.
SeedTyping ==
  /\ SeedTypeOK
  /\ pass.name \in {"templates", "symbols", "routes"} => pass.next <= Len(index.files) + 1

\* The tree, the passes and the index keep their types, and no pass goes further
\* than the files it was given.
THEOREM SeedTyped == SeedSpec => []SeedTypeOK
<1>1. SeedInit => SeedTyping
  <2>. SUFFICES ASSUME SeedInit PROVE SeedTyping OBVIOUS
  <2>1. pass = [name |-> "idle", next |-> 1] BY DEF SeedInit, Idle
  <2>2. index.files = <<>> BY DEF SeedInit, EmptyIndex
  <2>3. ToSet(index.files) = {} /\ Len(index.files) = 0 BY <2>2 DEF ToSet
  <2>4. pass \in [name : {"idle", "templates", "symbols", "routes", "writing"}, next : 1 .. 0 + 6 + 1]
    BY <2>1
  <2>5. edits \in 0 .. MaxEdits BY SeedAssumption DEF SeedInit
  <2>6. /\ tree \in [ToSet(SourceFiles) -> FileContents] /\ fresh \in BOOLEAN
        /\ DOMAIN seedFiles = ToSet(SeedFileOrder)
    BY DEF SeedInit
  <2>. HIDE DEF SeedInit
  <2>. QED BY <2>1, <2>3, <2>4, <2>5, <2>6, SeedOrderLength DEF SeedTyping, SeedTypeOK
<1>2. ASSUME SeedTyping, SeedsInv, SeedsInv', [SeedNext]_seedVars PROVE SeedTyping'
  <2>1. PICK n \in Nat : n = Len(index.files)
    <3>1. PICK T : T = ToSet(SourceFiles) OBVIOUS
    <3>2. index.files \in Seq(T) BY <1>2, <3>1 DEF SeedsInv, IndexInv
    <3>. QED BY <3>2
  <2>2. PICK m \in Nat : m = Len(index.files)'
    <3>1. PICK T : T = ToSet(SourceFiles) OBVIOUS
    <3>2. index'.files \in Seq(T) BY <1>2, <3>1 DEF SeedsInv, IndexInv
    <3>. QED BY <3>2
  <2>3. ToSet(index.files)' \subseteq ToSet(SourceFiles)
    <3>1. PICK T : T = ToSet(SourceFiles) OBVIOUS
    <3>2. index'.files \in Seq(T) BY <1>2, <3>1 DEF SeedsInv, IndexInv
    <3>3. ToSet(index'.files) \subseteq T BY <3>2 DEF ToSet
    <3>. QED BY <3>1, <3>3
  <2>4. /\ tree' \in [ToSet(SourceFiles) -> FileContents]
        /\ DOMAIN seedFiles' = ToSet(SeedFileOrder)
        /\ pass' \in [name : {"idle", "templates", "symbols", "routes", "writing"}, next : Nat]
        /\ pass'.next >= 1
        /\ pass'.name = "writing" => pass'.next <= 6
    BY <1>2, SeedOrderLength DEF SeedsInv, WritingInv, PassInv
  <2>5. edits' \in 0 .. MaxEdits /\ fresh' \in BOOLEAN
    <3>1. edits \in 0 .. MaxEdits /\ fresh \in BOOLEAN /\ MaxEdits \in Nat
      BY <1>2, SeedAssumption DEF SeedTyping, SeedTypeOK
    <3>2. CASE EditFile
      <4>1. edits < MaxEdits /\ edits' = edits + 1 /\ fresh' = fresh BY <3>2 DEF EditFile
      <4>. QED BY <3>1, <4>1
    <3>3. CASE WriteSeedFile
      <4>1. edits' = edits BY <3>3 DEF WriteSeedFile
      <4>2. fresh' \in BOOLEAN
        <5>1. PICK number : number = Len(Entries(index.hits)) OBVIOUS
        <5>2. fresh' = fresh \/ fresh' = (number <= HeaderLimit)
          BY <3>3, <5>1 DEF WriteSeedFile
        <5>3. HeaderLimit \in Nat BY SeedAssumption
        <5>4. ASSUME fresh' = (number <= HeaderLimit) PROVE fresh' = TRUE \/ fresh' = FALSE
          BY <5>3, <5>4
        <5>. QED BY <3>1, <5>2, <5>4
      <4>. QED BY <3>1, <4>1, <4>2
    <3>4. CASE \/ StartSeeding \/ ReadTemplates \/ ReadSymbols \/ ReadRoutes
               \/ EndPass \/ SeedingDies \/ UNCHANGED seedVars
      <4>1. edits' = edits /\ (fresh' = fresh \/ fresh' = FALSE)
        BY <3>4 DEF StartSeeding, ReadTemplates, ReadSymbols, ReadRoutes, EndPass,
           SeedingDies, seedVars
      <4>. QED BY <3>1, <4>1
    <3>. QED BY <1>2, <3>2, <3>3, <3>4 DEF SeedNext
  <2>7. pass'.next <= m + 7 /\ (pass'.name \in {"templates", "symbols", "routes"} => pass'.next <= m + 1)
    <3>1. CASE EditFile \/ UNCHANGED seedVars
      <4>1. pass' = pass /\ index' = index BY <3>1 DEF EditFile, seedVars
      <4>. QED BY <1>2, <2>2, <4>1, SeedOrderLength DEF SeedTyping, SeedTypeOK
    <3>2. CASE StartSeeding \/ EndPass
      <4>1. pass'.next = 1 BY <3>2 DEF StartSeeding, EndPass
      <4>. QED BY <2>2, <4>1
    <3>3. CASE ReadTemplates \/ ReadSymbols \/ ReadRoutes
      <4>1. /\ pass' = [pass EXCEPT !.next = @ + 1] /\ pass.next <= n
        BY <2>1, <3>3 DEF ReadTemplates, ReadSymbols, ReadRoutes, Advance
      <4>2. index'.files = index.files
        BY <1>2, <3>3 DEF SeedsInv, IndexInv, IndexFields, ReadTemplates, ReadSymbols,
           ReadRoutes
      <4>3. pass'.next = pass.next + 1 /\ pass.next \in Nat
        BY <1>2, <4>1 DEF SeedsInv, PassInv
      <4>. QED BY <2>1, <2>2, <4>1, <4>2, <4>3
    <3>4. CASE WriteSeedFile
      <4>1. pass'.name \in {"writing", "idle"} /\ (pass'.name = "idle" => pass'.next = 1)
        BY <1>2, <3>4 DEF WriteSeedFile, Advance, Idle, SeedsInv, PassInv
      <4>. QED BY <2>2, <2>4, <4>1
    <3>5. CASE SeedingDies
      <4>1. pass'.name = "idle" /\ pass'.next = 1 BY <3>5 DEF SeedingDies, Idle
      <4>. QED BY <2>2, <4>1
    <3>. QED BY <1>2, <3>1, <3>2, <3>3, <3>4, <3>5 DEF SeedNext
  <2>6. pass' \in [name : {"idle", "templates", "symbols", "routes", "writing"},
                   next : 1 .. m + 6 + 1]
    BY <2>2, <2>4, <2>7
  <2>. QED BY <2>2, <2>3, <2>4, <2>5, <2>6, <2>7, SeedOrderLength
           DEF SeedTyping, SeedTypeOK
<1>3. SeedTyping => SeedTypeOK BY DEF SeedTyping
<1>. QED BY <1>1, <1>2, <1>3, SeedsInvariant, PTL DEF SeedSpec
=============================================================================
