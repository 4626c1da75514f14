------------------------------- MODULE SqlIndex -------------------------------
(***************************************************************************)
(* The index as the SQL that is sent: postgres_index.rs and                *)
(* sqlite_index.rs, which send the same statements.  db is what is         *)
(* committed, a set of table rows.  A call of one statement commits with   *)
(* it.  remove and remove_xorb are transactions of two DELETEs, and what a *)
(* transaction has deleted stays visible, and locked, until it commits.    *)
(*                                                                         *)
(* SQLite has one writer at a time: whoever has written holds the lock     *)
(* until it commits, and a call that waits for it fails after the busy     *)
(* timeout.  Postgres, at its default isolation (read committed), locks    *)
(* the deleted rows only, and each statement sees what is committed when   *)
(* it runs.  A DELETE that waits for a row is taken to run when it gets    *)
(* it; rows that came meanwhile it may leave, which Index allows of rows   *)
(* that were not there throughout.                                         *)
(***************************************************************************)
EXTENDS Integers, FiniteSets

CONSTANTS Xorbs, Shards, Files, Owners, NoShard,
    Chunks,     \* Chunks[x]: what x's entries are keyed by
    Removers    \* the remove and remove_xorb calls that can run at once

ASSUME SqlAssumption ==
    /\ NoShard \notin Shards
    /\ \A x \in Xorbs : Chunks[x] # {}

VARIABLES
    backend,    \* the backend build_index made
    db,         \* committed rows: <<table, key, the rest>>
    tx,         \* tx[t]: the transaction of call t
    since       \* history: what of t's target was there ever since t began

vars == <<backend, db, tx, since>>

Backends == {"sqlite", "postgres"}

FileRow(f, s) == <<"file_index", f, s>>
Ownership(f, o) == <<"file_ownership", f, o>>
ChunkRow(x, c) == <<"chunk_index", x, c>>
LayoutRow(x) == <<"xorb_layout", x, x>>

Entries(x) == {ChunkRow(x, c) : c \in Chunks[x]}

Rows ==
    {FileRow(f, s) : f \in Files, s \in Shards}
      \cup {Ownership(f, o) : f \in Files, o \in Owners}
      \cup (UNION {Entries(x) : x \in Xorbs})
      \cup {LayoutRow(x) : x \in Xorbs}

(* The rows of a table with a given value in their first key column. *)
Where(table, key) == {r \in db : r[1] = table /\ r[2] = key}

(* What the two DELETEs of a call range over. *)
RemoveFile(f) == [children |-> "file_ownership", head |-> "file_index", key |-> f]
RemoveXorb(x) == [children |-> "chunk_index", head |-> "xorb_layout", key |-> x]

Targets == {RemoveFile(f) : f \in Files} \cup {RemoveXorb(x) : x \in Xorbs}

(* Rows as the callers count them: entries of a xorb are one item.           *)
ItemOf(r) ==
    CASE r[1] = "file_index"     -> <<"row", r[2]>>
      [] r[1] = "file_ownership" -> <<"claim", r[2], r[3]>>
      [] r[1] = "chunk_index"    -> <<"entries", r[2]>>
      [] r[1] = "xorb_layout"    -> <<"layout", r[2]>>

ItemsOf(target) ==
    IF target.head = "file_index"
      THEN {<<"row", target.key>>} \cup {<<"claim", target.key, o>> : o \in Owners}
      ELSE {<<"entries", target.key>>, <<"layout", target.key>>}

Items == {ItemOf(r) : r \in db}

Idle == [pc |-> "idle", target |-> <<>>, doomed |-> {}]

Init ==
    /\ backend \in Backends
    /\ db = {}
    /\ tx = [t \in Removers |-> Idle]
    /\ since = [t \in Removers |-> {}]

-----------------------------------------------------------------------------
(* Locks.                                                                   *)

At(t, pc) == tx[t].pc = pc

(* Transactions that have written, so hold the write lock of SQLite. *)
Writing == {t \in Removers : tx[t].pc \in {"head", "commit"}}

Doomed(T) == UNION {tx[t].doomed : t \in T}

(* Whether a statement that touches these rows may run, T being the other   *)
(* transactions.                                                            *)
MayWrite(T, rows) ==
    IF backend = "sqlite" THEN T \cap Writing = {} ELSE rows \cap Doomed(T) = {}

-----------------------------------------------------------------------------
(* Calls of one statement.                                                  *)

(* INSERT ... ON CONFLICT (file_hash) DO UPDATE. *)
Put(f, s) ==
    LET old == Where("file_index", f)
    IN  /\ MayWrite(Removers, old)
        /\ db' = (db \ old) \cup {FileRow(f, s)}

(* INSERT ... ON CONFLICT (file_hash, owner_id) DO UPDATE. *)
Claim(o, f) ==
    /\ MayWrite(Removers, {Ownership(f, o)})
    /\ db' = db \cup {Ownership(f, o)}

(* DELETE ... WHERE file_hash AND owner_id. *)
Release(o, f) ==
    /\ MayWrite(Removers, {Ownership(f, o)})
    /\ db' = db \ {Ownership(f, o)}

(* INSERT ... ON CONFLICT DO NOTHING, all entries of a xorb. *)
PutBatch(x) ==
    /\ MayWrite(Removers, Entries(x))
    /\ db' = db \cup Entries(x)

(* INSERT ... ON CONFLICT (xorb_hash) DO UPDATE. *)
PutXorbLayout(x) ==
    /\ MayWrite(Removers, {LayoutRow(x)})
    /\ db' = db \cup {LayoutRow(x)}

Statement ==
    /\ \/ \E f \in Files, s \in Shards : Put(f, s)
       \/ \E o \in Owners, f \in Files : Claim(o, f) \/ Release(o, f)
       \/ \E x \in Xorbs : PutBatch(x) \/ PutXorbLayout(x)
    /\ UNCHANGED tx

-----------------------------------------------------------------------------
(* remove and remove_xorb.                                                  *)

Begin(t, target) ==
    /\ At(t, "idle")
    /\ tx' = [tx EXCEPT ![t] = [pc |-> "children", target |-> target, doomed |-> {}]]
    /\ UNCHANGED db

Delete_NoTransaction(t, table, pc) ==
    /\ MayWrite(Removers \ {t}, Where(table, tx[t].target.key))
    /\ tx' = [tx EXCEPT ![t].pc = pc]
    /\ db' = db \ Where(table, tx[t].target.key)

Delete(t, table, pc) ==
    LET doomed == Where(table, tx[t].target.key)
    IN  /\ MayWrite(Removers \ {t}, doomed)
        /\ tx' = [tx EXCEPT ![t] = [pc |-> pc, target |-> tx[t].target,
                                   doomed |-> tx[t].doomed \cup doomed]]
        /\ UNCHANGED db

(* The claims of the file, or the entries of the xorb. *)
DeleteChildren(t) ==
    At(t, "children") /\ Delete(t, tx[t].target.children, "head")

(* Its row, or its layout. *)
DeleteHead(t) ==
    At(t, "head") /\ Delete(t, tx[t].target.head, "commit")

Ended_KeepsLocks(t) == tx' = [tx EXCEPT ![t].pc = "idle"]

Ended(t) == tx' = [tx EXCEPT ![t] = Idle]

Commit(t) ==
    /\ At(t, "commit")
    /\ db' = db \ tx[t].doomed
    /\ Ended(t)

(* A statement failed, or the call was dropped: the transaction rolls back.  *)
Rollback(t) ==
    /\ ~At(t, "idle")
    /\ Ended(t)
    /\ UNCHANGED db

(* SQLite: the write lock did not come free within the busy timeout. *)
BusyTimeout(t) ==
    /\ backend = "sqlite"
    /\ At(t, "children")
    /\ ~MayWrite(Removers \ {t}, {})
    /\ Ended(t)
    /\ UNCHANGED db

Removal(t) ==
    \/ \E target \in Targets : Begin(t, target)
    \/ DeleteChildren(t)
    \/ DeleteHead(t)
    \/ Commit(t)
    \/ Rollback(t)
    \/ BusyTimeout(t)

-----------------------------------------------------------------------------
Observe ==
    since' = [t \in Removers |->
        IF tx'[t].pc = "idle" THEN {}
        ELSE IF At(t, "idle") THEN ItemsOf(tx'[t].target) \cap Items'
        ELSE since[t] \cap Items']

Next ==
    /\ Statement \/ \E t \in Removers : Removal(t)
    /\ Observe
    /\ UNCHANGED backend

Spec == Init /\ [][Next]_vars

(* A call's future is polled while its statement is under way.  Postgres    *)
(* hands a lock to the call that waits for it; SQLite's waiters poll until  *)
(* they get it or time out.                                                 *)
Fairness ==
    \A t \in Removers :
        /\ SF_vars(DeleteChildren(t) /\ Observe /\ UNCHANGED backend)
        /\ SF_vars(DeleteHead(t) /\ Observe /\ UNCHANGED backend)
        /\ WF_vars(Commit(t) /\ Observe /\ UNCHANGED backend)
        /\ WF_vars(BusyTimeout(t) /\ Observe /\ UNCHANGED backend)

FairSpec == Spec /\ Fairness

-----------------------------------------------------------------------------
(* The refinement: the tables as CasStore sees them.                        *)

RowOf(f) ==
    IF \E s \in Shards : FileRow(f, s) \in db
      THEN CHOOSE s \in Shards : FileRow(f, s) \in db
      ELSE NoShard

Promise == INSTANCE Index WITH
    Terms <- [s \in Shards |-> [f \in Files |-> {}]],
    CasInfo <- [s \in Shards |-> {}],
    HeadsFail <- FALSE,
    MaxClock <- 0,
    clock <- 0,
    xorbs <- [x \in Xorbs |-> -1],
    shards <- [s \in Shards |-> -1],
    fileIndex <- [f \in Files |-> RowOf(f)],
    claims <- {c \in Owners \X Files : Ownership(c[2], c[1]) \in db},
    chunkIndex <- {x \in Xorbs : <<"entries", x>> \in Items},
    layouts <- {x \in Xorbs : LayoutRow(x) \in db},
    under <- [t \in Removers |->
                 IF At(t, "idle") THEN [items |-> {}, throughout |-> {}]
                 ELSE [items |-> ItemsOf(tx[t].target),
                       throughout |-> since[t]]]

(* Statement by statement, the SQL keeps what the index interfaces promise  *)
(* (index/mod.rs, "Remove a file's index entry and any remaining ownership  *)
(* claims on it"; remove_xorb, "its layout and every entry pointing at it"):*)
(* calls are atomic, a removal takes all that was there throughout, a       *)
(* failed one takes nothing, and with SQLite nothing arrives in between.    *)
KeepsPromise == Promise!IndexSpec

TypeOK ==
    /\ db \subseteq Rows
    /\ tx \in [Removers -> [pc : {"idle", "children", "head", "commit"},
                            target : Targets \cup {<<>>},
                            doomed : SUBSET Rows]]
    /\ \A t \in Removers : IF At(t, "idle") THEN tx[t] = Idle ELSE tx[t].target \in Targets

(* No removal waits for ever, for a lock of another one or of a call that   *)
(* failed half way: each ends, whatever is committed around it.             *)
RemovalsEnd == \A t \in Removers : ~At(t, "idle") ~> At(t, "idle")
=============================================================================
