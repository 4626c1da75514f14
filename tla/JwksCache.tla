------------------------------ MODULE JwksCache ------------------------------
(***************************************************************************)
(* JwksCache::key_for: the key cache behind the verification of tokens.    *)
(* Any number of requests ask for a key by its kid; a request whose key is *)
(* not in a fresh entry fetches the provider's key set without holding the *)
(* lock and writes the entry afterwards.  The provider publishes and       *)
(* withdraws keys at any time.                                             *)
(*                                                                         *)
(* Entries of different issuers share nothing, so there is one issuer, and *)
(* it is on the allow-list.                                                *)
(***************************************************************************)
EXTENDS Integers

CONSTANTS
    Verifiers,  \* the requests that can ask at once
    Keys,       \* kids, the published ones and others
    Ttl,        \* auth.jwks_ttl_seconds, in ticks
    MinRefresh, \* MIN_REFRESH_INTERVAL, in ticks
    Timeout,    \* the HTTP client's timeout, in ticks
    MaxClock    \* bound: the last value of the clock

ASSUME JwksAssumption ==
    /\ {Ttl, Timeout, MaxClock} \subseteq Nat
    /\ MinRefresh \in Nat \ {0}

VARIABLES
    clock,
    since,  \* since[k]: when the provider published k, or Never
    until,  \* until[k]: when it withdrew k, or Never
    cache,  \* the issuer's entry; at = Never while there is none
    task    \* task[t]: where request t stands; while it fetches, found is the
            \* time of the entry that it found, read when the provider answered

provider == <<since, until>>
vars     == <<clock, provider, cache, task>>

Never == -1

Published == {k \in Keys : since[k] # Never /\ until[k] = Never}

Idle == [pc |-> "idle"]

TaskState ==
    {Idle}
        \cup [pc: {"accepted", "unknown", "failed"}, kid: Keys]
        \cup [pc: {"fetch"}, kid: Keys, found: Nat \cup {Never}]
        \cup [pc: {"store"}, kid: Keys, found: Nat \cup {Never}, keys: SUBSET Keys, read: Nat]

TypeOK ==
    /\ clock \in Nat
    /\ since \in [Keys -> Nat \cup {Never}]
    /\ until \in [Keys -> Nat \cup {Never}]
    /\ cache \in [keys: SUBSET Keys, at: Nat \cup {Never}]
    /\ task \in [Verifiers -> TaskState]

Init ==
    /\ clock = 0
    /\ since \in [Keys -> {0, Never}]
    /\ until = [k \in Keys |-> Never]
    /\ cache = [keys |-> {}, at |-> Never]
    /\ task = [t \in Verifiers |-> Idle]

-----------------------------------------------------------------------------
Fresh_Inclusive == cache.at # Never /\ clock - cache.at <= Ttl

Fresh == cache.at # Never /\ clock - cache.at < Ttl

Throttled_Inclusive == clock - cache.at <= MinRefresh

(* A fresh entry without the kid is fetched again, but not so soon. *)
Throttled == clock - cache.at < MinRefresh

Answer(t, k, pc) == task' = [task EXCEPT ![t] = [pc |-> pc, kid |-> k]]

CacheHit_Touches(t, k) ==
    /\ task[t] = Idle
    /\ Fresh
    /\ k \in cache.keys
    /\ cache' = [cache EXCEPT !.at = clock]
    /\ Answer(t, k, "accepted")
    /\ UNCHANGED <<clock, provider>>

CacheHit(t, k) ==
    /\ task[t] = Idle
    /\ Fresh
    /\ k \in cache.keys
    /\ Answer(t, k, "accepted")
    /\ UNCHANGED <<clock, provider, cache>>

CacheMiss(t, k) ==
    /\ task[t] = Idle
    /\ Fresh
    /\ k \notin cache.keys
    /\ Throttled
    /\ Answer(t, k, "unknown")
    /\ UNCHANGED <<clock, provider, cache>>

StartFetch(t, k) ==
    task' = [task EXCEPT ![t] = [pc |-> "fetch", kid |-> k, found |-> cache.at]]

BeginFetch_Eager(t, k) ==
    /\ task[t] = Idle
    /\ ~Fresh \/ ~Throttled
    /\ StartFetch(t, k)
    /\ UNCHANGED <<clock, provider, cache>>

BeginFetch(t, k) ==
    /\ task[t] = Idle
    /\ ~Fresh \/ (k \notin cache.keys /\ ~Throttled)
    /\ StartFetch(t, k)
    /\ UNCHANGED <<clock, provider, cache>>

(* The provider answers; the answer is still on its way. *)
Fetched(t) ==
    /\ task[t].pc = "fetch"
    /\ task' = [task EXCEPT ![t] =
                   [pc |-> "store", kid |-> task[t].kid, found |-> task[t].found,
                    keys |-> Published, read |-> clock]]
    /\ UNCHANGED <<clock, provider, cache>>

(* The discovery or the fetch failed or timed out: nothing is written, and  *)
(* the request is refused like one with an unknown key, whatever an expired *)
(* entry says of it.                                                        *)
FetchFails(t) ==
    /\ task[t].pc \in {"fetch", "store"}
    /\ Answer(t, task[t].kid, "failed")
    /\ UNCHANGED <<clock, provider, cache>>

(* The client went away before the entry was written. *)
Dropped(t) ==
    /\ task[t].pc \in {"fetch", "store"}
    /\ task' = [task EXCEPT ![t] = Idle]
    /\ UNCHANGED <<clock, provider, cache>>

(* The entry is replaced, whatever it has become in the meantime. *)
Store(t) ==
    /\ task[t].pc = "store"
    /\ cache' = [keys |-> task[t].keys, at |-> clock]
    /\ Answer(t, task[t].kid,
              IF task[t].kid \in task[t].keys THEN "accepted" ELSE "unknown")
    /\ UNCHANGED <<clock, provider>>

(* The request goes on, and its task is free for another. *)
Answered(t) ==
    /\ task[t].pc \in {"accepted", "unknown", "failed"}
    /\ task' = [task EXCEPT ![t] = Idle]
    /\ UNCHANGED <<clock, provider, cache>>

(* The provider: a kid is published once and withdrawn once. *)
Publish(k) ==
    /\ since[k] = Never
    /\ since' = [since EXCEPT ![k] = clock]
    /\ UNCHANGED <<clock, until, cache, task>>

Withdraw(k) ==
    /\ k \in Published
    /\ until' = [until EXCEPT ![k] = clock]
    /\ UNCHANGED <<clock, since, cache, task>>

(* An answer that takes longer than the timeout fails, so time does not go  *)
(* past that before the task does.                                          *)
Tick ==
    /\ clock < MaxClock
    /\ \A t \in Verifiers : task[t].pc = "store" => clock - task[t].read < Timeout
    /\ clock' = clock + 1
    /\ UNCHANGED <<provider, cache, task>>

Next ==
    \/ \E t \in Verifiers, k \in Keys : CacheHit(t, k) \/ CacheMiss(t, k) \/ BeginFetch(t, k)
    \/ \E t \in Verifiers : Fetched(t) \/ FetchFails(t) \/ Dropped(t) \/ Store(t) \/ Answered(t)
    \/ \E k \in Keys : Publish(k) \/ Withdraw(k)
    \/ Tick

Spec == Init /\ [][Next]_vars

-----------------------------------------------------------------------------
(* keys is what the provider published at time r, as far as it can be told  *)
(* now: no key in it had been withdrawn before r, and every key that is     *)
(* published and not in it was published no earlier than r.                 *)
PublishedAt(keys, r) ==
    /\ \A k \in keys : since[k] # Never /\ (until[k] = Never \/ until[k] >= r)
    /\ \A k \in Published \ keys : since[k] >= r

EntryInv ==
    /\ cache.at <= clock
    /\ cache.at # Never => PublishedAt(cache.keys, cache.at - Timeout)

AnswerInv(t) ==
    task[t].pc = "store" =>
        /\ task[t].read <= clock
        /\ clock - task[t].read <= Timeout
        /\ PublishedAt(task[t].keys, task[t].read)

(* A request fetches a published key because the entry it found has run out *)
(* (or there was none), or says nothing of the key, which then is newer     *)
(* than the entry.                                                          *)
CauseToFetch(t) ==
    LET k == task[t].kid  found == task[t].found IN
    \/ found = Never
    \/ clock - found >= Ttl
    \/ k \in Published => since[k] >= found - Timeout

FetchInv(t) ==
    task[t].pc \in {"fetch", "store"} => task[t].found <= clock /\ CauseToFetch(t)

(* The entry is never older, in what it says, than its age and the timeout  *)
(* of a fetch, although a slow fetch may write an older set over a newer    *)
(* one; and no request fetches without cause.                               *)
CacheInv == EntryInv /\ \A t \in Verifiers : AnswerInv(t) /\ FetchInv(t)

(* A key that the provider never published is not accepted, and one that it *)
(* withdrew is accepted less than the cache's ttl and one fetch after (only *)
(* the fetch counts where the ttl is 0): neither hits nor slow fetches      *)
(* stretch that ("keys are cached for ttl and refreshed on expiry", jwks.rs).*)
WithdrawnKeysRunOut ==
    [][\A t \in Verifiers, k \in Keys :
          (task'[t] = [pc |-> "accepted", kid |-> k] /\ task[t].pc # "accepted")
            => /\ since[k] # Never
               /\ \/ until[k] = Never
                  \/ clock - until[k] < Ttl + Timeout
                  \/ clock - until[k] <= Timeout]_vars

(* "A short throttle is harmless" (jwks.rs): a published key is refused as   *)
(* unknown only in the first interval (and one fetch) after it was           *)
(* published, even when an older key set has been written over one that had  *)
(* it.  A fetch that fails refuses a published key too, however long ago it  *)
(* was published; but only when the entry that the request found had run     *)
(* out by then, or was written before the key was published (or less than    *)
(* a fetch after).  A provider that is down disturbs no key in an entry      *)
(* that has not run out.                                                     *)
OnlyNewKeysRefused ==
    [][\A t \in Verifiers, k \in Published :
          /\ (task'[t] = [pc |-> "unknown", kid |-> k] /\ task[t].pc # "unknown")
               => clock - since[k] < MinRefresh + Timeout
          /\ (task'[t] = [pc |-> "failed", kid |-> k] /\ task[t].pc # "failed")
               => \/ task[t].found = Never
                  \/ clock - task[t].found >= Ttl
                  \/ since[k] >= task[t].found - Timeout]_vars
=============================================================================
