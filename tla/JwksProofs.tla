----------------------------- MODULE JwksProofs -----------------------------
(* What the key cache promises, for any number of requests and keys and any *)
(* ttl, throttle and timeout.                                               *)
EXTENDS JwksCache, TLAPS

(* Type correctness.                                                        *)
LEMMA JwksTypes == Spec => []TypeOK
<1>1. Init => TypeOK
  BY DEF Init, TypeOK, TaskState, Idle, Never
<1>2. TypeOK /\ [Next]_vars => TypeOK'
  <2> SUFFICES ASSUME TypeOK, [Next]_vars PROVE TypeOK'
    OBVIOUS
  <2> USE DEF TypeOK
  <2>1. CASE \E t \in Verifiers, k \in Keys :
                CacheHit(t, k) \/ CacheMiss(t, k) \/ BeginFetch(t, k)
    BY <2>1 DEF CacheHit, CacheMiss, BeginFetch, Answer, StartFetch, TaskState, provider
  <2>2. CASE \E t \in Verifiers : Fetched(t)
    <3>1. PICK t \in Verifiers : Fetched(t)
      BY <2>2
    <3>2. task[t].kid \in Keys /\ task[t].found \in Nat \cup {Never}
      BY <3>1 DEF Fetched, TaskState, Idle
    <3>3. Published \in SUBSET Keys
      BY DEF Published
    <3> QED
      BY <3>1, <3>2, <3>3 DEF Fetched, TaskState, provider
  <2>3. CASE \E t \in Verifiers : FetchFails(t) \/ Dropped(t) \/ Answered(t)
    BY <2>3 DEF FetchFails, Dropped, Answered, Answer, TaskState, Idle, provider
  <2>4. CASE \E t \in Verifiers : Store(t)
    <3>1. PICK t \in Verifiers : Store(t)
      BY <2>4
    <3>2. task[t].kid \in Keys /\ task[t].keys \in SUBSET Keys
      BY <3>1 DEF Store, TaskState, Idle
    <3> QED
      BY <3>1, <3>2 DEF Store, Answer, TaskState, provider
  <2>5. CASE \E k \in Keys : Publish(k) \/ Withdraw(k)
    BY <2>5 DEF Publish, Withdraw
  <2>6. CASE Tick
    BY <2>6 DEF Tick, provider
  <2>7. CASE UNCHANGED vars
    BY <2>7 DEF vars, provider
  <2> QED
    BY <2>1, <2>2, <2>3, <2>4, <2>5, <2>6, <2>7 DEF Next
<1> QED
  BY <1>1, <1>2, PTL DEF Spec

(* A task that fetches has a kid and the time of the entry it found, and in *)
(* "store" it has what the provider sent.                                   *)
LEMMA FetchFields ==
    ASSUME TypeOK, NEW t \in Verifiers, task[t].pc \in {"fetch", "store"}
    PROVE  task[t].kid \in Keys /\ task[t].found \in Nat \cup {Never}
  BY DEF TypeOK, TaskState, Idle

LEMMA StoreFields ==
    ASSUME TypeOK, NEW t \in Verifiers, task[t].pc = "store"
    PROVE  /\ task[t].kid \in Keys
           /\ task[t].keys \in SUBSET Keys
           /\ task[t].read \in Nat
  BY DEF TypeOK, TaskState, Idle

(* What was published at a time says less of an earlier time. *)
LEMMA EarlierIsWeaker ==
    ASSUME TypeOK, NEW keys \in SUBSET Keys, NEW r \in Int, NEW q \in Int, q <= r,
           PublishedAt(keys, r)
    PROVE  PublishedAt(keys, q)
  BY DEF TypeOK, PublishedAt, Published, Never

(* A step that leaves the entry and the provider alone keeps EntryInv; one   *)
(* that leaves a task, the clock and the provider alone keeps its AnswerInv. *)
LEMMA EntryUntouched ==
    ASSUME TypeOK, EntryInv, clock' \in {clock, clock + 1},
           cache' = cache, since' = since, until' = until
    PROVE  EntryInv'
  BY DEF TypeOK, EntryInv, PublishedAt, Published, Never

LEMMA AnswerUntouched ==
    ASSUME TypeOK, NEW t \in Verifiers, AnswerInv(t), clock' = clock,
           task'[t] = task[t] \/ task'[t].pc # "store", since' = since, until' = until
    PROVE  AnswerInv(t)'
  BY DEF TypeOK, AnswerInv, PublishedAt, Published

(* A cause to fetch stays one, as time passes and keys come and go.          *)
LEMMA CauseStays ==
    ASSUME TypeOK, NEW t \in Verifiers, FetchInv(t), clock' \in {clock, clock + 1},
           task'[t] = task[t] \/ task'[t].pc \notin {"fetch", "store"},
           \/ since' = since /\ until' = until
           \/ clock' = clock /\ \E k \in Keys : Publish(k) \/ Withdraw(k)
    PROVE  FetchInv(t)'
<1>1. CASE task'[t].pc \notin {"fetch", "store"}
  BY <1>1 DEF FetchInv
<1>2. CASE task'[t] = task[t] /\ task[t].pc \in {"fetch", "store"}
  <2> DEFINE k == task[t].kid  found == task[t].found
  <2>1. k \in Keys /\ found \in Nat \cup {Never}
    BY <1>2, FetchFields
  <2>2. CauseToFetch(t)
    BY <1>2 DEF FetchInv
  <2>3. found <= clock'
    BY <1>2, <2>1 DEF FetchInv, TypeOK, Never
  <2>4. CASE found = Never \/ clock - found >= Ttl
    <3>1. found = Never \/ clock' - found >= Ttl
      BY <2>1, <2>4, JwksAssumption DEF TypeOK, Never
    <3> QED
      BY <1>2, <2>3, <3>1 DEF FetchInv, CauseToFetch
  <2>5. CASE k \in Published => since[k] >= found - Timeout
    <3>1. CASE since' = since /\ until' = until
      BY <1>2, <2>3, <2>5, <3>1 DEF FetchInv, CauseToFetch, Published
    <3>2. CASE clock' = clock /\ \E j \in Keys : Publish(j) \/ Withdraw(j)
      <4>1. PICK j \in Keys : Publish(j) \/ Withdraw(j)
        BY <3>2
      <4>2. CASE j # k \/ Withdraw(j)
        <5>1. k \in Published' => k \in Published /\ since'[k] = since[k]
          BY <2>1, <4>1, <4>2 DEF Published, Publish, Withdraw, TypeOK, Never
        <5> QED
          BY <1>2, <2>3, <2>5, <5>1 DEF FetchInv, CauseToFetch
      <4>3. CASE j = k /\ Publish(j)
        <5>1. since'[k] = clock
          BY <2>1, <4>3 DEF Publish, TypeOK
        <5>2. found <= clock
          BY <1>2 DEF FetchInv
        <5>3. since'[k] >= found - Timeout
          BY <2>1, <5>1, <5>2, JwksAssumption DEF TypeOK, Never
        <5> QED
          BY <1>2, <2>3, <5>3 DEF FetchInv, CauseToFetch
      <4> QED
        BY <4>1, <4>2, <4>3
    <3> QED
      BY <3>1, <3>2
  <2> QED
    BY <2>2, <2>4, <2>5 DEF CauseToFetch
<1>3. CASE task'[t] = task[t] /\ task[t].pc \notin {"fetch", "store"}
  BY <1>3 DEF FetchInv
<1> QED
  BY <1>1, <1>2, <1>3

LEMMA CacheStep ==
    ASSUME TypeOK, CacheInv, [Next]_vars
    PROVE  CacheInv'
<1> USE JwksAssumption
<1>a. EntryInv /\ \A t \in Verifiers : AnswerInv(t) /\ FetchInv(t)
  BY DEF CacheInv
<1> SUFFICES EntryInv' /\ \A t \in Verifiers : AnswerInv(t)' /\ FetchInv(t)'
  BY DEF CacheInv
<1>1. CASE \E t \in Verifiers, k \in Keys : CacheHit(t, k) \/ CacheMiss(t, k)
  <2>1. clock' = clock /\ cache' = cache /\ since' = since /\ until' = until
    BY <1>1 DEF CacheHit, CacheMiss, provider
  <2>2. \A t \in Verifiers : task'[t] = task[t] \/ task'[t].pc \notin {"fetch", "store"}
    BY <1>1 DEF CacheHit, CacheMiss, Answer, TypeOK
  <2> QED
    BY <1>a, <2>1, <2>2, EntryUntouched, AnswerUntouched, CauseStays
<1>2. CASE \E t \in Verifiers, k \in Keys : BeginFetch(t, k)
  <2>1. PICK t \in Verifiers, k \in Keys : BeginFetch(t, k)
    BY <1>2
  <2>2. clock' = clock /\ cache' = cache /\ since' = since /\ until' = until
    BY <2>1 DEF BeginFetch, provider
  <2>3. \A u \in Verifiers : u # t => task'[u] = task[u]
    BY <2>1 DEF BeginFetch, StartFetch, TypeOK
  <2>4. task'[t] = [pc |-> "fetch", kid |-> k, found |-> cache.at]
    BY <2>1 DEF BeginFetch, StartFetch, TypeOK
  <2>5. \/ cache.at = Never
        \/ clock - cache.at >= Ttl
        \/ k \in Published => since[k] >= cache.at - Timeout
    <3>1. CASE ~Fresh
      BY <3>1, JwksAssumption DEF Fresh, TypeOK, Never
    <3>2. CASE cache.at # Never /\ k \notin cache.keys
      <4>1. PublishedAt(cache.keys, cache.at - Timeout)
        BY <1>a, <3>2 DEF EntryInv
      <4> QED
        BY <3>2, <4>1 DEF PublishedAt
    <3> QED
      BY <2>1, <3>1, <3>2 DEF BeginFetch, Fresh
  <2>6. FetchInv(t)'
    <3>1. cache.at <= clock'
      BY <1>a, <2>2 DEF EntryInv
    <3> QED
      BY <2>2, <2>4, <2>5, <3>1 DEF FetchInv, CauseToFetch, Published
  <2>7. \A u \in Verifiers : task'[u] = task[u] \/ task'[u].pc # "store"
    BY <2>3, <2>4
  <2> QED
    BY <1>a, <2>2, <2>3, <2>6, <2>7, EntryUntouched, AnswerUntouched, CauseStays
<1>3. CASE \E t \in Verifiers : Fetched(t)
  <2>1. PICK t \in Verifiers : Fetched(t)
    BY <1>3
  <2>2. clock' = clock /\ cache' = cache /\ since' = since /\ until' = until
    BY <2>1 DEF Fetched, provider
  <2>3. \A u \in Verifiers : u # t => task'[u] = task[u]
    BY <2>1 DEF Fetched, TypeOK
  <2>4. AnswerInv(t)'
    BY <2>1, <2>2 DEF Fetched, TypeOK, AnswerInv, PublishedAt, Published
  <2>5. FetchInv(t)'
    <3>1. task'[t].kid = task[t].kid /\ task'[t].found = task[t].found
      BY <2>1 DEF Fetched, TypeOK
    <3>2. FetchInv(t) /\ task[t].pc = "fetch"
      BY <1>a, <2>1 DEF Fetched
    <3> QED
      BY <2>2, <3>1, <3>2 DEF FetchInv, CauseToFetch, Published
  <2> QED
    BY <1>a, <2>2, <2>3, <2>4, <2>5, EntryUntouched, AnswerUntouched, CauseStays
<1>4. CASE \E t \in Verifiers : FetchFails(t) \/ Dropped(t) \/ Answered(t)
  <2>1. clock' = clock /\ cache' = cache /\ since' = since /\ until' = until
    BY <1>4 DEF FetchFails, Dropped, Answered, provider
  <2>2. \A t \in Verifiers : task'[t] = task[t] \/ task'[t].pc \notin {"fetch", "store"}
    BY <1>4 DEF FetchFails, Dropped, Answered, Answer, Idle, TypeOK
  <2> QED
    BY <1>a, <2>1, <2>2, EntryUntouched, AnswerUntouched, CauseStays
<1>5. CASE \E t \in Verifiers : Store(t)
  <2>1. PICK t \in Verifiers : Store(t)
    BY <1>5
  <2>2. /\ task[t].pc = "store"
        /\ clock' = clock /\ since' = since /\ until' = until
        /\ cache' = [keys |-> task[t].keys, at |-> clock]
    BY <2>1 DEF Store, provider
  <2>3. PublishedAt(task[t].keys, clock - Timeout)
    <3>1. task[t].keys \in SUBSET Keys /\ task[t].read \in Nat
      BY <2>2, StoreFields
    <3>2. PublishedAt(task[t].keys, task[t].read) /\ clock - task[t].read <= Timeout
      BY <1>a, <2>2 DEF AnswerInv
    <3> QED
      BY <3>1, <3>2, EarlierIsWeaker DEF TypeOK
  <2>4. EntryInv'
    BY <2>2, <2>3 DEF TypeOK, EntryInv, PublishedAt, Published
  <2>5. \A u \in Verifiers : task'[u] = task[u] \/ task'[u].pc \notin {"fetch", "store"}
    BY <2>1 DEF Store, Answer, TypeOK
  <2> QED
    BY <1>a, <2>2, <2>4, <2>5, AnswerUntouched, CauseStays
<1>6. CASE \E k \in Keys : Publish(k) \/ Withdraw(k)
  <2>1. PICK k \in Keys : Publish(k) \/ Withdraw(k)
    BY <1>6
  <2>2. clock' = clock /\ cache' = cache /\ task' = task
    BY <2>1 DEF Publish, Withdraw
  <2>3. EntryInv'
    <3>1. /\ cache.keys \in SUBSET Keys
          /\ cache.at \in Int
          /\ cache.at - Timeout <= clock
      BY <1>a DEF TypeOK, EntryInv, Never
    <3>2. CASE cache.at = Never
      BY <1>a, <2>2, <3>2 DEF EntryInv
    <3>3. CASE cache.at # Never
      <4>1. PublishedAt(cache.keys, cache.at - Timeout)
        BY <1>a, <3>3 DEF EntryInv
      <4> QED
        BY <1>a, <2>1, <2>2, <3>1, <4>1
           DEF TypeOK, EntryInv, PublishedAt, Published, Publish, Withdraw, Never
    <3> QED
      BY <3>2, <3>3
  <2>4. ASSUME NEW t \in Verifiers
        PROVE  AnswerInv(t)'
    <3>1. CASE task[t].pc = "store"
      <4>1. task[t].keys \in SUBSET Keys /\ task[t].read \in Nat
        BY <3>1, StoreFields
      <4>2. /\ task[t].read <= clock
            /\ clock - task[t].read <= Timeout
            /\ PublishedAt(task[t].keys, task[t].read)
        BY <1>a, <3>1 DEF AnswerInv
      <4> QED
        BY <2>1, <2>2, <4>1, <4>2
           DEF TypeOK, AnswerInv, PublishedAt, Published, Publish, Withdraw, Never
    <3>2. CASE task[t].pc # "store"
      BY <2>2, <3>2 DEF AnswerInv
    <3> QED
      BY <3>1, <3>2
  <2>5. \A t \in Verifiers : FetchInv(t)'
    BY <1>a, <2>1, <2>2, CauseStays
  <2> QED
    BY <2>3, <2>4, <2>5
<1>7. CASE Tick
  <2>1. /\ clock' = clock + 1 /\ since' = since /\ until' = until
        /\ cache' = cache /\ task' = task
        /\ \A t \in Verifiers : task[t].pc = "store" => clock - task[t].read < Timeout
    BY <1>7 DEF Tick, provider
  <2>2. EntryInv'
    BY <1>a, <2>1, EntryUntouched
  <2>3. ASSUME NEW t \in Verifiers
        PROVE  AnswerInv(t)'
    BY <1>a, <2>1, StoreFields DEF TypeOK, AnswerInv, PublishedAt, Published
  <2>4. \A t \in Verifiers : FetchInv(t)'
    BY <1>a, <2>1, CauseStays
  <2> QED
    BY <2>2, <2>3, <2>4
<1>8. CASE UNCHANGED vars
  <2>1. /\ clock' = clock /\ cache' = cache /\ since' = since /\ until' = until
        /\ task' = task
    BY <1>8 DEF vars, provider
  <2> QED
    BY <1>a, <2>1, EntryUntouched, AnswerUntouched, CauseStays
<1> QED
  BY <1>1, <1>2, <1>3, <1>4, <1>5, <1>6, <1>7, <1>8 DEF Next

(* The cached entry, and every answer under way, says what the provider     *)
(* published no earlier than a timeout before the time it is stamped with   *)
(* or was read at, and whoever fetches has cause to: CacheInv is inductive. *)
THEOREM CacheCorrect == Spec => [](TypeOK /\ CacheInv)
<1>1. Init => CacheInv
  BY DEF Init, CacheInv, EntryInv, AnswerInv, FetchInv, Idle, Never
<1>2. TypeOK /\ CacheInv /\ [Next]_vars => CacheInv'
  BY CacheStep
<1> QED
  BY <1>1, <1>2, JwksTypes, PTL DEF Spec

(* A step that accepts a key, or refuses one, is a hit, a miss, or the end   *)
(* of a fetch.                                                              *)
LEMMA WhoAnswers ==
    ASSUME TypeOK, Next, NEW t \in Verifiers, NEW k \in Keys
    PROVE  /\ (task'[t] = [pc |-> "accepted", kid |-> k] /\ task[t].pc # "accepted")
                => \/ Fresh /\ k \in cache.keys
                   \/ task[t].pc = "store" /\ k \in task[t].keys
           /\ (task'[t] = [pc |-> "unknown", kid |-> k] /\ task[t].pc # "unknown")
                => \/ Fresh /\ k \notin cache.keys /\ Throttled
                   \/ task[t].pc = "store" /\ k \notin task[t].keys
           /\ (task'[t] = [pc |-> "failed", kid |-> k] /\ task[t].pc # "failed")
                => task[t].pc \in {"fetch", "store"} /\ task[t].kid = k
<1>1. CASE \E u \in Verifiers, j \in Keys : CacheHit(u, j) \/ CacheMiss(u, j)
  BY <1>1 DEF TypeOK, CacheHit, CacheMiss, Answer
<1>2. CASE \E u \in Verifiers, j \in Keys : BeginFetch(u, j)
  BY <1>2 DEF TypeOK, BeginFetch, StartFetch
<1>3. CASE \E u \in Verifiers : Fetched(u) \/ Dropped(u) \/ Answered(u)
  BY <1>3 DEF TypeOK, Fetched, Dropped, Answered, Idle
<1>4. CASE \E u \in Verifiers : FetchFails(u)
  BY <1>4 DEF TypeOK, FetchFails, Answer
<1>5. CASE \E u \in Verifiers : Store(u)
  <2>1. PICK u \in Verifiers : Store(u)
    BY <1>5
  <2>2. CASE u = t
    BY <2>1, <2>2 DEF TypeOK, Store, Answer
  <2>3. CASE u # t
    BY <2>1, <2>3 DEF TypeOK, Store, Answer
  <2> QED
    BY <2>2, <2>3
<1>6. CASE (\E j \in Keys : Publish(j) \/ Withdraw(j)) \/ Tick
  BY <1>6 DEF Publish, Withdraw, Tick
<1> QED
  BY <1>1, <1>2, <1>3, <1>4, <1>5, <1>6 DEF Next

(* Who is refused by a failed fetch of a published key had cause to fetch.   *)
LEMMA FailedHadCause ==
    ASSUME TypeOK, CacheInv, Next, NEW t \in Verifiers, NEW k \in Published,
           task'[t] = [pc |-> "failed", kid |-> k], task[t].pc # "failed"
    PROVE  \/ task[t].found = Never
           \/ clock - task[t].found >= Ttl
           \/ since[k] >= task[t].found - Timeout
<1>1. task[t].pc \in {"fetch", "store"} /\ task[t].kid = k
  BY WhoAnswers DEF Published
<1>2. CauseToFetch(t)
  BY <1>1 DEF CacheInv, FetchInv
<1> QED
  BY <1>1, <1>2 DEF CauseToFetch

(* A withdrawn key is accepted no longer than a ttl and a timeout after its *)
(* withdrawal, and a key never published is never accepted, by however many *)
(* requests that fetch at once.                                             *)
THEOREM WithdrawnRunOut == Spec => WithdrawnKeysRunOut
<1>1. ASSUME TypeOK, CacheInv, [Next]_vars
      PROVE  \A t \in Verifiers, k \in Keys :
                (task'[t] = [pc |-> "accepted", kid |-> k] /\ task[t].pc # "accepted")
                  => /\ since[k] # Never
                     /\ \/ until[k] = Never
                        \/ clock - until[k] < Ttl + Timeout
                        \/ clock - until[k] <= Timeout
  <2> SUFFICES ASSUME NEW t \in Verifiers, NEW k \in Keys,
                      task'[t] = [pc |-> "accepted", kid |-> k], task[t].pc # "accepted"
               PROVE  /\ since[k] # Never
                      /\ \/ until[k] = Never
                         \/ clock - until[k] < Ttl + Timeout
                         \/ clock - until[k] <= Timeout
    OBVIOUS
  <2>1. Next
    BY <1>1 DEF vars
  <2>2. until[k] \in Int /\ clock \in Int /\ Ttl \in Nat /\ Timeout \in Nat
    BY <1>1, JwksAssumption DEF TypeOK, Never
  <2>3. CASE Fresh /\ k \in cache.keys
    BY <1>1, <2>2, <2>3 DEF CacheInv, EntryInv, PublishedAt, Fresh, TypeOK, Never
  <2>4. CASE task[t].pc = "store" /\ k \in task[t].keys
    BY <1>1, <2>2, <2>4, StoreFields DEF CacheInv, AnswerInv, PublishedAt
  <2> QED
    BY <1>1, <2>1, <2>3, <2>4, WhoAnswers
<1> QED
  BY <1>1, CacheCorrect, PTL DEF Spec, WithdrawnKeysRunOut

(* A published key is refused as unknown only within the throttle's interval *)
(* and one timeout of its publication, and by a failed fetch only if the     *)
(* entry that the request found has run out or is older than the key, but    *)
(* for a timeout.                                                            *)
THEOREM OnlyNewRefused == Spec => OnlyNewKeysRefused
<1>1. ASSUME TypeOK, CacheInv, [Next]_vars
      PROVE  \A t \in Verifiers, k \in Published :
          /\ (task'[t] = [pc |-> "unknown", kid |-> k] /\ task[t].pc # "unknown")
               => clock - since[k] < MinRefresh + Timeout
          /\ (task'[t] = [pc |-> "failed", kid |-> k] /\ task[t].pc # "failed")
               => \/ task[t].found = Never
                  \/ clock - task[t].found >= Ttl
                  \/ since[k] >= task[t].found - Timeout
  <2> TAKE t \in Verifiers, k \in Published
  <2>1. CASE UNCHANGED vars
    BY <2>1 DEF vars
  <2>2. CASE Next
    <3>1. k \in Keys /\ since[k] \in Int /\ clock \in Int /\ MinRefresh \in Nat \ {0}
            /\ Timeout \in Nat
      BY <1>1, JwksAssumption DEF TypeOK, Never, Published
    <3>2. CASE Fresh /\ k \notin cache.keys /\ Throttled
      <4>1. clock - since[k] < MinRefresh + Timeout
        BY <1>1, <3>1, <3>2
           DEF CacheInv, EntryInv, PublishedAt, Fresh, Throttled, TypeOK, Never
      <4> QED
        BY <1>1, <2>2, <3>1, <4>1, FailedHadCause
    <3>3. CASE task[t].pc = "store" /\ k \notin task[t].keys
      <4>1. clock - since[k] < MinRefresh + Timeout
        BY <1>1, <3>1, <3>3, StoreFields DEF CacheInv, AnswerInv, PublishedAt
      <4> QED
        BY <1>1, <2>2, <3>1, <4>1, FailedHadCause
    <3> QED
      BY <1>1, <2>2, <3>1, <3>2, <3>3, WhoAnswers, FailedHadCause
  <2> QED
    BY <1>1, <2>1, <2>2
<1> QED
  BY <1>1, CacheCorrect, PTL DEF Spec, OnlyNewKeysRefused
=============================================================================
