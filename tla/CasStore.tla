------------------------------- MODULE CasStore -------------------------------
(***************************************************************************)
(* What an openxet server keeps between requests: the object store (xorbs  *)
(* and shards, each with the time it was last written) and the index (file *)
(* rows, ownership claims, chunk entries, xorb layouts).  Every operation  *)
(* below is one call of the storage or index interface, and is atomic: the *)
(* object store writes an object whole and the index backends wrap each of *)
(* their multi-statement calls in one transaction.  The handlers that      *)
(* string these calls together are in the modules that extend this one.    *)
(*                                                                         *)
(* Hashes are model values, and an object's content is a function of its   *)
(* hash (that is what content addressing means): Terms[s][f] is the set of *)
(* xorbs that the reconstruction terms of file f name in shard s, empty    *)
(* when s does not describe f, and CasInfo[s] the set of xorbs whose       *)
(* chunks the shard's CAS-info section lists.                              *)
(***************************************************************************)
EXTENDS Integers, FiniteSets

CONSTANTS
    Xorbs,     \* xorb hashes
    Shards,    \* shard hashes
    Files,     \* file hashes
    Owners,    \* identities that hold claims (the token's subject)
    NoShard,   \* "this file has no row"
    Terms,     \* Terms[s][f]: xorbs of f's terms in shard s
    CasInfo,   \* CasInfo[s]: xorbs of the CAS-info section of s
    HeadsFail, \* whether a HEAD of a stored object may fail
    MaxClock   \* bound: the last value of the clock

ASSUME StoreAssumption ==
    /\ NoShard \notin Shards
    /\ Terms \in [Shards -> [Files -> SUBSET Xorbs]]
    /\ CasInfo \in [Shards -> SUBSET Xorbs]
    /\ HeadsFail \in BOOLEAN
    /\ MaxClock \in Nat

VARIABLES
    clock,       \* SystemTime::now(), in units of any size
    xorbs,       \* xorbs[x]: when blob x was written, or Absent
    shards,      \* shards[s]: when blob s was written, or Absent
    fileIndex,   \* fileIndex[f]: the shard f resolves to, or NoShard
    claims,      \* set of <<owner, file>>
    chunkIndex,  \* xorbs that some chunk entry (chunk, xorb, index) names
    layouts      \* xorbs that have a recorded layout

storageVars == <<xorbs, shards>>
indexVars   == <<fileIndex, claims, chunkIndex, layouts>>
storeVars   == <<clock, xorbs, shards, fileIndex, claims, chunkIndex, layouts>>

Absent == -1

StoreTypeOK ==
    /\ clock \in Nat
    /\ xorbs \in [Xorbs -> Nat \cup {Absent}]
    /\ shards \in [Shards -> Nat \cup {Absent}]
    /\ fileIndex \in [Files -> Shards \cup {NoShard}]
    /\ claims \subseteq Owners \X Files
    /\ chunkIndex \subseteq Xorbs
    /\ layouts \subseteq Xorbs

StoreInit ==
    /\ clock = 0
    /\ xorbs = [x \in Xorbs |-> Absent]
    /\ shards = [s \in Shards |-> Absent]
    /\ fileIndex = [f \in Files |-> NoShard]
    /\ claims = {}
    /\ chunkIndex = {}
    /\ layouts = {}

(* Time passes between any two steps of the server. *)
Tick ==
    /\ clock < MaxClock
    /\ clock' = clock + 1
    /\ UNCHANGED <<storageVars, indexVars>>

-----------------------------------------------------------------------------
(* The object store.                                                        *)

XorbStored(x)  == xorbs[x] # Absent
ShardStored(s) == shards[s] # Absent

(* put_xorb and put_shard HEAD the object before they write it, and take a  *)
(* HEAD that fails, for whatever reason, for "not there".                   *)
MayLookAbsent(stored) == stored => HeadsFail

StoreXorb(x)  == xorbs' = [xorbs EXCEPT ![x] = clock]
StoreShard(s) == shards' = [shards EXCEPT ![s] = clock]

(* Deleting an object that is not there is not an error. *)
DropXorb(x)  == xorbs' = [xorbs EXCEPT ![x] = Absent]
DropShard(s) == shards' = [shards EXCEPT ![s] = Absent]

-----------------------------------------------------------------------------
(* The file index: rows and claims.                                         *)

(* A shard that a validated upload describes f in has terms for it: a file  *)
(* block with no entries is refused.                                        *)
FilesOf(s) == {f \in Files : Terms[s][f] # {}}

PutFile(f, s) == fileIndex' = [fileIndex EXCEPT ![f] = s]

Claim(o, f) == claims' = claims \cup {<<o, f>>}

Claimants(f) == {o \in Owners : <<o, f>> \in claims}

Release(o, f) == claims' = claims \ {<<o, f>>}

(* One transaction: the row and whatever claims it has at this moment. *)
RemoveFile(f) ==
    /\ fileIndex' = [fileIndex EXCEPT ![f] = NoShard]
    /\ claims' = {c \in claims : c[2] # f}

-----------------------------------------------------------------------------
(* The chunk index.                                                         *)

PutBatch(X) == chunkIndex' = chunkIndex \cup X

PutLayout(x) == layouts' = layouts \cup {x}

(* One transaction: every entry that points at x, and its layout. *)
PurgeXorb(x) ==
    /\ chunkIndex' = chunkIndex \ {x}
    /\ layouts' = layouts \ {x}

(* get_dedup for a chunk that the index finds in the xorbs X, at a moment:  *)
(* the block of each is made from its layout or, if it has none, from the   *)
(* blob, and the request fails if one of them has neither.                  *)
DedupNames(X) ==
    IF \A x \in X : x \in layouts \/ XorbStored(x) THEN X ELSE {}

-----------------------------------------------------------------------------
(* Derived state.                                                           *)

Live(f) == fileIndex[f] # NoShard

(* get_reconstruction answers for f: its row leads to a stored shard whose  *)
(* terms all name stored xorbs.                                             *)
Intact(f) ==
    /\ Live(f)
    /\ ShardStored(fileIndex[f])
    /\ \A x \in Terms[fileIndex[f]][f] : XorbStored(x)

(* Some live file's terms, in the shard it resolves to, name x. *)
Referenced(x) == \E f \in Files : Live(f) /\ x \in Terms[fileIndex[f]][f]

ShardReferenced(s) == \E f \in Files : fileIndex[f] = s
=============================================================================
