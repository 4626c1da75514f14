--------------------------- MODULE ShardRegistration ---------------------------
(***************************************************************************)
(* register_shard, behind POST /v1/shards and /v2/shards.  The task reads  *)
(* every xorb the shard's terms name, stores the shard, then writes the    *)
(* row and the claim of each file, and last the chunk entries of the       *)
(* CAS-info section.  Shards that the content checks refuse (chunk ranges, *)
(* verification hashes, lengths, file hashes) change no state; a member of *)
(* Shards is one they accept once its xorbs can be read.                   *)
(***************************************************************************)
EXTENDS CasStore

CONSTANT Registrars  \* the register_shard tasks that can run at once

VARIABLE reg         \* reg[t]: where task t stands and what it has left

RegIdle == [pc |-> "idle"]

RegBusy ==
    [pc: {"validate", "put", "index", "claim"},
     owner: Owners,
     shard: Shards,
     unread: SUBSET Xorbs,    \* term xorbs not read yet
     files: SUBSET Files,     \* files with no row written yet
     file: SUBSET Files]      \* the file whose row is written, claim pending

RegState == {RegIdle} \cup RegBusy

RegTypeOK == reg \in [Registrars -> RegState]

RegInit == reg = [t \in Registrars |-> RegIdle]

TermXorbs_None(s) == {}

TermXorbs(s) == UNION {Terms[s][f] : f \in Files}

RegAt(t, pc) == reg[t].pc = pc

RegGoto(t, pc) == reg' = [reg EXCEPT ![t].pc = pc]

RegDone(t) == reg' = [reg EXCEPT ![t] = RegIdle]

BeginRegister(t, o, s) ==
    /\ RegAt(t, "idle")
    /\ reg' = [reg EXCEPT ![t] =
                  [pc |-> "validate", owner |-> o, shard |-> s,
                   unread |-> TermXorbs(s), files |-> FilesOf(s), file |-> {}]]
    /\ UNCHANGED storeVars

(* Each xorb is fetched once and its footer cached, so a xorb that goes     *)
(* away afterwards is not noticed.                                          *)
ReadTermXorb(t, x) ==
    /\ RegAt(t, "validate")
    /\ x \in reg[t].unread
    /\ XorbStored(x)
    /\ reg' = [reg EXCEPT ![t].unread = @ \ {x}]
    /\ UNCHANGED storeVars

(* "referenced xorb not found": the request ends with an error.             *)
TermXorbMissing(t, x) ==
    /\ RegAt(t, "validate")
    /\ x \in reg[t].unread
    /\ ~XorbStored(x)
    /\ RegDone(t)
    /\ UNCHANGED storeVars

(* Everything validated: put_shard looks for the shard.  One that is found  *)
(* is not written again, and keeps the time it was first written.           *)
ShardHead(t) ==
    /\ RegAt(t, "validate")
    /\ reg[t].unread = {}
    /\ \/ ShardStored(reg[t].shard) /\ RegGoto(t, "index")
       \/ MayLookAbsent(ShardStored(reg[t].shard)) /\ RegGoto(t, "put")
    /\ UNCHANGED storeVars

ShardPut(t) ==
    /\ RegAt(t, "put")
    /\ StoreShard(reg[t].shard)
    /\ RegGoto(t, "index")
    /\ UNCHANGED <<clock, xorbs, indexVars>>

IndexFile(t, f) ==
    /\ RegAt(t, "index")
    /\ f \in reg[t].files
    /\ PutFile(f, reg[t].shard)
    /\ reg' = [reg EXCEPT ![t] = [reg[t] EXCEPT !.pc = "claim", !.file = {f},
                                           !.files = @ \ {f}]]
    /\ UNCHANGED <<clock, storageVars, claims, chunkIndex, layouts>>

ClaimFile(t, f) ==
    /\ RegAt(t, "claim")
    /\ f \in reg[t].file
    /\ Claim(reg[t].owner, f)
    /\ reg' = [reg EXCEPT ![t] = [reg[t] EXCEPT !.pc = "index", !.file = {}]]
    /\ UNCHANGED <<clock, storageVars, fileIndex, chunkIndex, layouts>>

(* The CAS-info section is indexed as it came: its xorbs were not looked up.*)
IndexChunks(t) ==
    /\ RegAt(t, "index")
    /\ reg[t].files = {}
    /\ PutBatch(CasInfo[reg[t].shard])
    /\ RegDone(t)
    /\ UNCHANGED <<clock, storageVars, fileIndex, claims, layouts>>

(* A call failed, the client went away, or the server stopped. *)
RegAbort(t) ==
    /\ ~RegAt(t, "idle")
    /\ RegDone(t)
    /\ UNCHANGED storeVars

RegStep(t) ==
    \/ \E o \in Owners, s \in Shards : BeginRegister(t, o, s)
    \/ \E x \in Xorbs : ReadTermXorb(t, x) \/ TermXorbMissing(t, x)
    \/ ShardHead(t)
    \/ ShardPut(t)
    \/ \E f \in Files : IndexFile(t, f) \/ ClaimFile(t, f)
    \/ IndexChunks(t)
    \/ RegAbort(t)
=============================================================================
