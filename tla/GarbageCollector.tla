--------------------------- MODULE GarbageCollector ---------------------------
(***************************************************************************)
(* run_gc: one mark-and-sweep pass, started by POST /v1/gc or by the       *)
(* background loop of main.rs.  Nothing keeps two passes from running at   *)
(* once: the loop and the endpoint share no lock, and every replica has    *)
(* its own loop.  A pass is a task of Passes; between two of its storage   *)
(* or index calls anything else may run.                                   *)
(***************************************************************************)
EXTENDS CasStore

CONSTANTS
    Passes,     \* the run_gc tasks that can run at once
    Grace,      \* gc.grace_seconds, in ticks of the clock
    MinGrace,   \* gc.min_grace_seconds
    Overrides   \* what callers of POST /v1/gc pass as ?grace_seconds=

(* AppConfig::load refuses a configuration with grace below the floor.      *)
ASSUME GraceAssumption ==
    /\ {Grace, MinGrace} \cup Overrides \subseteq Nat
    /\ MinGrace <= Grace

VARIABLE pass    \* pass[p]: the local state of pass p

PassIdle == [pc |-> "idle"]

PassBusy ==
    [pc: {"mark", "list", "purge", "drop", "shards"},
     grace: Nat,                              \* the grace of this pass
     snap: [Files -> Shards \cup {NoShard}],  \* file_to_shard
     live: SUBSET Shards,                     \* live_shards
     unread: SUBSET Shards,                   \* live shards not read yet
     reachable: SUBSET Xorbs,                 \* reachable_xorbs
     now: Nat,                                \* now_unix
     xorbs: SUBSET Xorbs,                     \* listed xorbs still to delete
     purged: SUBSET Xorbs,                    \* index purged, blob not deleted
     shards: SUBSET Shards]                   \* listed shards still to delete

PassState == {PassIdle} \cup PassBusy

PassTypeOK == pass \in [Passes -> PassState]

PassInit == pass = [p \in Passes |-> PassIdle]

PassAt(p, pc) == pass[p].pc = pc

PassDone(p) == pass' = [pass EXCEPT ![p] = PassIdle]

NoSnap == [f \in Files |-> NoShard]

Marked_Early(q) == [q EXCEPT !.pc = "list", !.now = clock, !.snap = NoSnap]

(* The time is taken once, when the last live shard has been read.  A field *)
(* is emptied as soon as no later step of the pass reads it.                *)
Marked(q) ==
    IF q.unread = {} THEN [q EXCEPT !.pc = "list", !.now = clock, !.snap = NoSnap]
                     ELSE q

LiveShards_WithNone == {fileIndex[f] : f \in Files}

(* live_shards: the shards that files resolve to.                           *)
LiveShards == {fileIndex[f] : f \in Files} \ {NoShard}

Accepted_Any == {Grace} \cup Overrides

(* The loop, and a call without an override, use the configured grace;      *)
(* post_gc refuses an override below the floor.                             *)
Accepted == {Grace} \cup {g \in Overrides : g >= MinGrace}

(* list_all: the root set, read once.                                       *)
BeginPass(p) ==
    /\ PassAt(p, "idle")
    /\ \E g \in Accepted : pass' = [pass EXCEPT ![p] = Marked(
                   [pc |-> "mark", grace |-> g, snap |-> fileIndex,
                    live |-> LiveShards, unread |-> LiveShards, reachable |-> {},
                    now |-> 0, xorbs |-> {}, purged |-> {}, shards |-> {}])]
    /\ UNCHANGED storeVars

MarkedBy_StaleEntries(snap, s) == UNION {Terms[s][f] : f \in Files}

(* What shard s keeps alive: the terms of the files that resolve to s.      *)
MarkedBy(snap, s) == UNION {Terms[s][f] : f \in {g \in Files : snap[g] = s}}

ReadShard(p, s) ==
    /\ PassAt(p, "mark")
    /\ s \in pass[p].unread
    /\ ShardStored(s)
    /\ pass' = [pass EXCEPT ![p] = Marked(
                   [pass[p] EXCEPT !.unread = @ \ {s},
                             !.reachable = @ \cup MarkedBy(pass[p].snap, s)])]
    /\ UNCHANGED storeVars

(* A dangling row: warn, mark nothing, go on.                               *)
SkipMissingShard(p, s) ==
    /\ PassAt(p, "mark")
    /\ s \in pass[p].unread
    /\ ~ShardStored(s)
    /\ pass' = [pass EXCEPT ![p] = Marked([pass[p] EXCEPT !.unread = @ \ {s}])]
    /\ UNCHANGED storeVars

InGrace_TooShort(grace, now, written) == now - written < grace - 1


InGrace(grace, now, written) == now - written < grace

(* list_xorbs, then the two conditions that spare a xorb.                   *)
ListXorbs(p) ==
    /\ PassAt(p, "list")
    /\ pass' = [pass EXCEPT ![p] =
                   [pass[p] EXCEPT !.pc = "purge",
                             !.reachable = {},
                             !.xorbs = {x \in Xorbs :
                                          /\ XorbStored(x)
                                          /\ x \notin pass[p].reachable
                                          /\ ~InGrace(pass[p].grace, pass[p].now, xorbs[x])}]]
    /\ UNCHANGED storeVars

(* remove_xorb first, delete_xorb next.                                     *)
PurgeIndex(p, x) ==
    /\ PassAt(p, "purge")
    /\ x \in pass[p].xorbs
    /\ PurgeXorb(x)
    /\ pass' = [pass EXCEPT ![p] = [pass[p] EXCEPT !.pc = "drop", !.purged = {x},
                                              !.xorbs = @ \ {x}]]
    /\ UNCHANGED <<clock, storageVars, fileIndex, claims>>

DeleteXorb(p, x) ==
    /\ PassAt(p, "drop")
    /\ x \in pass[p].purged
    /\ DropXorb(x)
    /\ pass' = [pass EXCEPT ![p] = [pass[p] EXCEPT !.pc = "purge", !.purged = {}]]
    /\ UNCHANGED <<clock, shards, indexVars>>

(* The shards to spare are those of the snapshot, not of the index now.     *)
ListShards(p) ==
    /\ PassAt(p, "purge")
    /\ pass[p].xorbs = {}
    /\ pass' = [pass EXCEPT ![p] =
                   [pass[p] EXCEPT !.pc = "shards",
                             !.live = {},
                             !.grace = 0,
                             !.now = 0,
                             !.shards = {s \in Shards :
                                           /\ ShardStored(s)
                                           /\ s \notin pass[p].live
                                           /\ ~InGrace(pass[p].grace, pass[p].now, shards[s])}]]
    /\ UNCHANGED storeVars

DeleteShard(p, s) ==
    /\ PassAt(p, "shards")
    /\ s \in pass[p].shards
    /\ DropShard(s)
    /\ pass' = [pass EXCEPT ![p].shards = @ \ {s}]
    /\ UNCHANGED <<clock, xorbs, indexVars>>

EndPass(p) ==
    /\ PassAt(p, "shards")
    /\ pass[p].shards = {}
    /\ PassDone(p)
    /\ UNCHANGED storeVars

(* A storage or index call failed, a stored shard did not parse, the admin's *)
(* request went away, or the server stopped: the pass ends where it stands.  *)
AbortPass(p) ==
    /\ ~PassAt(p, "idle")
    /\ PassDone(p)
    /\ UNCHANGED storeVars

(* The steps of a pass in which every call succeeds. *)
PassProgress(p) ==
    \/ BeginPass(p)
    \/ \E s \in Shards : ReadShard(p, s) \/ SkipMissingShard(p, s)
    \/ ListXorbs(p)
    \/ \E x \in Xorbs : PurgeIndex(p, x) \/ DeleteXorb(p, x)
    \/ ListShards(p)
    \/ \E s \in Shards : DeleteShard(p, s)
    \/ EndPass(p)

PassStep(p) == PassProgress(p) \/ AbortPass(p)
=============================================================================
