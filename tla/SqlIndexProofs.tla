----------------------------- MODULE SqlIndexProofs -----------------------------
(***************************************************************************)
(* The SQL of the index implements the promise of its interfaces, for any  *)
(* number of files, xorbs, owners and removals at once.                    *)
(***************************************************************************)
EXTENDS SqlIndex, TLAPS

(* The primary key of file_index: a file has one row. *)
OneRowEach ==
    \A f \in Files, s, u \in Shards : {FileRow(f, s), FileRow(f, u)} \subseteq db => s = u

(* The rows a transaction has deleted are still there, are of its target    *)
(* and are its own: no other transaction is about to delete them, and with  *)
(* SQLite no other has written at all.                                      *)
LocksHeld ==
    \A t \in Removers :
        /\ t \notin Writing => tx[t].doomed = {}
        /\ tx[t].doomed \subseteq db
        /\ \A r \in tx[t].doomed :
              r[1] \in {tx[t].target.children, tx[t].target.head} /\ r[2] = tx[t].target.key
        /\ \A u \in Removers \ {t} :
              /\ tx[t].doomed \cap tx[u].doomed = {}
              /\ backend = "sqlite" => ~{t, u} \subseteq Writing

(* The table a row belongs to is behind the transaction. *)
Passed(t, r) ==
    \/ r[1] = tx[t].target.children /\ t \in Writing
    \/ r[1] = tx[t].target.head /\ At(t, "commit")

(* What was there since before the call is among what it has deleted, table *)
(* by table; with SQLite, so is all that is there.                          *)
NothingLeft ==
    \A t \in Removers : ~At(t, "idle") =>
        /\ since[t] \subseteq ItemsOf(tx[t].target) \cap Items
        /\ \A r \in db :
              /\ r[2] = tx[t].target.key /\ Passed(t, r)
              /\ backend = "sqlite" \/ ItemOf(r) \in since[t]
              => r \in tx[t].doomed

(* The inductive invariant under the refinement: when a removal commits, the *)
(* rows it has deleted are its own, and they are all that was there          *)
(* throughout.                                                               *)
IndexInv ==
    /\ TypeOK
    /\ OneRowEach
    /\ LocksHeld
    /\ NothingLeft

-----------------------------------------------------------------------------

(* Rows and items.                                                          *)

LEMMA RowKinds ==
    ASSUME NEW r \in Rows
    PROVE  \/ \E f \in Files, s \in Shards : r = FileRow(f, s)
           \/ \E f \in Files, o \in Owners : r = Ownership(f, o)
           \/ \E x \in Xorbs : \E c \in Chunks[x] : r = ChunkRow(x, c)
           \/ \E x \in Xorbs : r = LayoutRow(x)
<1>1. CASE r \in {FileRow(f, s) : f \in Files, s \in Shards}
  BY <1>1
<1>2. CASE r \in {Ownership(f, o) : f \in Files, o \in Owners}
  BY <1>2
<1>3. CASE r \in UNION {Entries(x) : x \in Xorbs}
  BY <1>3 DEF Entries
<1>4. CASE r \in {LayoutRow(x) : x \in Xorbs}
  BY <1>4
<1> QED
  BY <1>1, <1>2, <1>3, <1>4 DEF Rows

LEMMA RowFields ==
    /\ \A f, s : FileRow(f, s)[1] = "file_index" /\ FileRow(f, s)[2] = f /\ FileRow(f, s)[3] = s
    /\ \A f, o : /\ Ownership(f, o)[1] = "file_ownership" /\ Ownership(f, o)[2] = f
                 /\ Ownership(f, o)[3] = o
    /\ \A x, c : ChunkRow(x, c)[1] = "chunk_index" /\ ChunkRow(x, c)[2] = x
    /\ \A x : LayoutRow(x)[1] = "xorb_layout" /\ LayoutRow(x)[2] = x
  BY DEF FileRow, Ownership, ChunkRow, LayoutRow

LEMMA ItemOfRow ==
    /\ \A f, s : ItemOf(FileRow(f, s)) = <<"row", f>>
    /\ \A f, o : ItemOf(Ownership(f, o)) = <<"claim", f, o>>
    /\ \A x, c : ItemOf(ChunkRow(x, c)) = <<"entries", x>>
    /\ \A x : ItemOf(LayoutRow(x)) = <<"layout", x>>
  BY RowFields DEF ItemOf

(* Rows of one item are of one table and have one key.                      *)
LEMMA SameItem ==
    ASSUME NEW r \in Rows, NEW q \in Rows, ItemOf(q) = ItemOf(r)
    PROVE  /\ q[1] = r[1] /\ q[2] = r[2]
           /\ r[1] \in {"file_ownership", "xorb_layout"} => q = r
<1>1. CASE \E f \in Files, s \in Shards : r = FileRow(f, s)
  BY <1>1, RowKinds, RowFields, ItemOfRow
<1>2. CASE \E f \in Files, o \in Owners : r = Ownership(f, o)
  BY <1>2, RowKinds, RowFields, ItemOfRow
<1>3. CASE \E x \in Xorbs : \E c \in Chunks[x] : r = ChunkRow(x, c)
  BY <1>3, RowKinds, RowFields, ItemOfRow
<1>4. CASE \E x \in Xorbs : r = LayoutRow(x)
  BY <1>4, RowKinds, RowFields, ItemOfRow
<1> QED
  BY <1>1, <1>2, <1>3, <1>4, RowKinds

LEMMA TargetFields ==
    ASSUME NEW target \in Targets
    PROVE  \/ /\ \E f \in Files : target.key = f /\ target = RemoveFile(f)
              /\ target.children = "file_ownership" /\ target.head = "file_index"
           \/ /\ \E x \in Xorbs : target.key = x /\ target = RemoveXorb(x)
              /\ target.children = "chunk_index" /\ target.head = "xorb_layout"
  BY DEF Targets, RemoveFile, RemoveXorb

(* A row counts for a removal when one of its two DELETEs reaches it.       *)
LEMMA InTarget ==
    ASSUME NEW target \in Targets, NEW r \in Rows
    PROVE  ItemOf(r) \in ItemsOf(target)
             <=> r[2] = target.key /\ r[1] \in {target.children, target.head}
<1>1. CASE \E f \in Files : target = RemoveFile(f)
  BY <1>1, RowKinds, RowFields, ItemOfRow DEF ItemsOf, RemoveFile
<1>2. CASE \E x \in Xorbs : target = RemoveXorb(x)
  BY <1>2, RowKinds, RowFields, ItemOfRow DEF ItemsOf, RemoveXorb
<1> QED
  BY <1>1, <1>2, TargetFields

-----------------------------------------------------------------------------
(* The statements.                                                          *)

(* A statement takes the rows W, gives them up or replaces them, and adds    *)
(* rows to no item but those of W and new ones.                              *)
Writes(W) ==
    /\ MayWrite(Removers, W)
    /\ db' \subseteq Rows
    /\ db \ W \subseteq db'
    /\ \A r \in db' \ db, q \in db : ItemOf(q) = ItemOf(r) => q \in W

LEMMA PutWrites ==
    ASSUME IndexInv, NEW f \in Files, NEW s \in Shards, Put(f, s)
    PROVE  Writes(Where("file_index", f)) /\ OneRowEach'
<1> DEFINE old == Where("file_index", f)
<1>1. MayWrite(Removers, old) /\ db' = (db \ old) \cup {FileRow(f, s)}
  BY DEF Put
<1>2. db \subseteq Rows /\ FileRow(f, s) \in Rows
  BY DEF IndexInv, TypeOK, Rows
<1>3. \A q \in db : ItemOf(q) = ItemOf(FileRow(f, s)) => q \in old
  BY <1>2, SameItem, RowFields DEF Where
<1>4. \A g \in Files, u \in Shards :
         FileRow(g, u) \in db' => (FileRow(g, u) \in db /\ g # f) \/ (g = f /\ u = s)
  BY <1>1, RowFields DEF Where
<1>5. OneRowEach'
  BY <1>4 DEF IndexInv, OneRowEach
<1> QED
  BY <1>1, <1>2, <1>3, <1>5 DEF Writes

LEMMA StatementWrites ==
    ASSUME IndexInv, Statement
    PROVE  (\E W : Writes(W)) /\ OneRowEach' /\ tx' = tx
<1>1. tx' = tx
  BY DEF Statement
<1>2. CASE \E f \in Files, s \in Shards : Put(f, s)
  BY <1>1, <1>2, PutWrites
<1>3. ASSUME NEW W, MayWrite(Removers, W), db' = db \ W \/ db' = db \cup W, W \subseteq Rows,
             \A f \in Files, s \in Shards : FileRow(f, s) \notin W,
             \A r \in W, q \in db : ItemOf(q) = ItemOf(r) => q \in W
      PROVE  Writes(W) /\ OneRowEach'
  <2>1. db' \subseteq Rows
    BY <1>3 DEF IndexInv, TypeOK
  <2>2. \A f \in Files, s \in Shards : FileRow(f, s) \in db' => FileRow(f, s) \in db
    BY <1>3
  <2>3. OneRowEach'
    BY <2>2 DEF IndexInv, OneRowEach
  <2> QED
    BY <1>3, <2>1, <2>3 DEF Writes
<1>4. ASSUME NEW o \in Owners, NEW f \in Files, Claim(o, f) \/ Release(o, f)
      PROVE  Writes({Ownership(f, o)}) /\ OneRowEach'
  <2>1. Ownership(f, o) \in Rows /\ db \subseteq Rows
    BY DEF Rows, IndexInv, TypeOK
  <2>2. \A q \in db : ItemOf(q) = ItemOf(Ownership(f, o)) => q = Ownership(f, o)
    BY <2>1, SameItem, RowFields
  <2>3. \A g \in Files, s \in Shards : FileRow(g, s) # Ownership(f, o)
    BY RowFields
  <2> QED
    BY <1>3, <1>4, <2>1, <2>2, <2>3 DEF Claim, Release
<1>5. ASSUME NEW x \in Xorbs, PutBatch(x)
      PROVE  Writes(Entries(x)) /\ OneRowEach'
  <2> DEFINE W == Entries(x)
  <2>1. W \subseteq Rows /\ db \subseteq Rows
    BY DEF Rows, IndexInv, TypeOK
  <2>2. \A r \in W, q \in db : ItemOf(q) = ItemOf(r) => q \in W
    BY <2>1, RowKinds, SameItem, RowFields DEF Entries
  <2>3. \A g \in Files, s \in Shards : FileRow(g, s) \notin W
    BY RowFields DEF Entries
  <2>4. MayWrite(Removers, W) /\ db' = db \cup W
    BY <1>5 DEF PutBatch
  <2> QED
    BY <1>3, <2>1, <2>2, <2>3, <2>4
<1>6. ASSUME NEW x \in Xorbs, PutXorbLayout(x)
      PROVE  Writes({LayoutRow(x)}) /\ OneRowEach'
  <2>1. LayoutRow(x) \in Rows /\ db \subseteq Rows
    BY DEF Rows, IndexInv, TypeOK
  <2>2. \A q \in db : ItemOf(q) = ItemOf(LayoutRow(x)) => q = LayoutRow(x)
    BY <2>1, SameItem, RowFields
  <2>3. \A g \in Files, s \in Shards : FileRow(g, s) # LayoutRow(x)
    BY RowFields
  <2> QED
    BY <1>3, <1>6, <2>1, <2>2, <2>3 DEF PutXorbLayout
<1> QED
  BY <1>1, <1>2, <1>4, <1>5, <1>6 DEF Statement

-----------------------------------------------------------------------------
(* The invariant.                                                           *)

(* What the rows db lose and gain leaves to a removal that does not move.    *)
LEMMA Undisturbed ==
    ASSUME IndexInv, NEW u \in Removers, tx'[u] = tx[u], ~At(u, "idle"),
           NEW W, db' \subseteq Rows, db \ W \subseteq db', W \cap tx[u].doomed = {},
           \A r \in db' \ db, q \in db : ItemOf(q) = ItemOf(r) => q \in W,
           backend = "sqlite" => u \notin Writing \/ db' \subseteq db,
           backend' = backend, Observe
    PROVE  /\ since'[u] = since[u] \cap Items'
           /\ since'[u] \subseteq ItemsOf(tx[u].target) \cap Items'
           /\ tx[u].doomed \subseteq db'
           /\ \A r \in db' :
                 /\ r[2] = tx[u].target.key /\ Passed(u, r)
                 /\ backend = "sqlite" \/ ItemOf(r) \in since'[u]
                 => r \in tx[u].doomed
<1>1. since'[u] = since[u] \cap Items'
  BY DEF Observe, At
<1>2. since[u] \subseteq ItemsOf(tx[u].target) \cap Items
  BY DEF IndexInv, NothingLeft
<1>3. tx[u].doomed \subseteq db /\ db \subseteq Rows
  BY DEF IndexInv, LocksHeld, TypeOK
<1>4. ASSUME NEW r \in db', r[2] = tx[u].target.key, Passed(u, r),
             backend = "sqlite" \/ ItemOf(r) \in since'[u]
      PROVE  r \in tx[u].doomed
  <2>1. CASE r \in db
    BY <1>1, <1>4, <2>1 DEF IndexInv, NothingLeft
  <2>2. CASE r \notin db
    <3>1. u \in Writing
      BY <1>4 DEF Passed, Writing, At
    <3>2. backend # "sqlite"
      BY <2>2, <3>1
    <3>3. PICK q \in db : ItemOf(q) = ItemOf(r)
      BY <1>1, <1>2, <1>4, <3>2 DEF Items
    <3>4. q \in W
      BY <2>2, <3>3
    <3>5. q[1] = r[1] /\ q[2] = r[2]
      BY <1>3, <3>3, SameItem
    <3>6. q \in tx[u].doomed
      BY <1>1, <1>4, <3>2, <3>3, <3>5 DEF IndexInv, NothingLeft, Passed
    <3> QED
      BY <3>4, <3>6
  <2> QED
    BY <2>1, <2>2
<1> QED
  BY <1>1, <1>2, <1>3, <1>4

LEMMA StatementKeeps ==
    ASSUME IndexInv, Statement, Observe, backend' = backend
    PROVE  IndexInv'
<1>1. PICK W : Writes(W)
  BY StatementWrites
<1>2. tx' = tx /\ OneRowEach'
  BY StatementWrites
<1>3. TypeOK'
  BY <1>1, <1>2 DEF IndexInv, TypeOK, Writes, At
<1>4. ASSUME NEW u \in Removers
      PROVE  W \cap tx[u].doomed = {} /\ (backend = "sqlite" => u \notin Writing)
  BY <1>1 DEF Writes, MayWrite, Doomed, IndexInv, LocksHeld
<1>5. LocksHeld'
  <2> SUFFICES ASSUME NEW u \in Removers PROVE tx[u].doomed \subseteq db'
    BY <1>2 DEF IndexInv, LocksHeld, Writing
  <2> QED
    BY <1>1, <1>4 DEF Writes, IndexInv, LocksHeld
<1>6. ASSUME NEW u \in Removers, ~At(u, "idle")
      PROVE  /\ since'[u] \subseteq ItemsOf(tx[u].target) \cap Items'
             /\ \A r \in db' :
                   /\ r[2] = tx[u].target.key /\ Passed(u, r)
                   /\ backend = "sqlite" \/ ItemOf(r) \in since'[u]
                   => r \in tx[u].doomed
  BY <1>1, <1>2, <1>4, <1>6, Undisturbed DEF Writes
<1>7. NothingLeft'
  BY <1>2, <1>6 DEF NothingLeft, At, Passed, Writing
<1> QED
  BY <1>2, <1>3, <1>5, <1>7 DEF IndexInv

(* A removal that ends, or takes its next step, as the record new says.     *)
Reached(new, r) ==
    \/ r[1] = new.target.children /\ new.pc \in {"head", "commit"}
    \/ r[1] = new.target.head /\ new.pc = "commit"

Moves(t, new, W) ==
    /\ tx' = [tx EXCEPT ![t] = new]
    /\ db' = db \ W /\ W \subseteq tx[t].doomed
    /\ new \in [pc : {"idle", "children", "head", "commit"},
                target : Targets \cup {<<>>}, doomed : SUBSET Rows]
    /\ IF new.pc = "idle" THEN new = Idle ELSE new.target \in Targets

Locks(t, new) ==
    /\ new.pc \notin {"head", "commit"} => new.doomed = {}
    /\ new.doomed \subseteq db'
    /\ \A r \in new.doomed :
          r[1] \in {new.target.children, new.target.head} /\ r[2] = new.target.key
    /\ \A u \in Removers \ {t} :
          /\ new.doomed \cap tx[u].doomed = {}
          /\ backend = "sqlite" /\ new.pc \in {"head", "commit"} => u \notin Writing

Takes(t, new) ==
    new.pc # "idle" =>
        /\ since'[t] \subseteq ItemsOf(new.target) \cap Items'
        /\ \A r \in db' :
              /\ r[2] = new.target.key /\ Reached(new, r)
              /\ backend = "sqlite" \/ ItemOf(r) \in since'[t]
              => r \in new.doomed

LEMMA MoveKeeps ==
    ASSUME IndexInv, Observe, backend' = backend,
           NEW t \in Removers, NEW new, NEW W, Moves(t, new, W), Locks(t, new), Takes(t, new)
    PROVE  IndexInv'
<1>1. tx'[t] = new /\ \A u \in Removers \ {t} : tx'[u] = tx[u]
  BY DEF Moves, IndexInv, TypeOK
<1>2. TypeOK'
  BY <1>1 DEF Moves, IndexInv, TypeOK, At
<1>3. OneRowEach'
  BY DEF Moves, IndexInv, OneRowEach
<1>4. t \in Writing' <=> new.pc \in {"head", "commit"}
  BY <1>1 DEF Writing
<1>5. \A u \in Removers \ {t} : u \in Writing' <=> u \in Writing
  BY <1>1 DEF Writing
<1>6. \A u \in Removers \ {t} : W \cap tx[u].doomed = {}
  BY DEF Moves, IndexInv, LocksHeld
<1>7. \A u \in Removers \ {t} : tx[u].doomed \subseteq db'
  BY <1>6 DEF Moves, IndexInv, LocksHeld
<1>8. LocksHeld'
  <2> SUFFICES ASSUME NEW v \in Removers
               PROVE  /\ v \notin Writing' => tx'[v].doomed = {}
                      /\ tx'[v].doomed \subseteq db'
                      /\ \A r \in tx'[v].doomed :
                            /\ r[1] \in {tx'[v].target.children, tx'[v].target.head}
                            /\ r[2] = tx'[v].target.key
                      /\ \A u \in Removers \ {v} :
                            /\ tx'[v].doomed \cap tx'[u].doomed = {}
                            /\ backend' = "sqlite" => ~{v, u} \subseteq Writing'
    BY DEF LocksHeld
  <2>1. CASE v = t
    BY <1>1, <1>4, <1>5, <2>1 DEF Locks
  <2>2. CASE v # t
    <3>1. /\ v \notin Writing' => tx'[v].doomed = {}
          /\ tx'[v].doomed \subseteq db'
          /\ \A r \in tx'[v].doomed :
                /\ r[1] \in {tx'[v].target.children, tx'[v].target.head}
                /\ r[2] = tx'[v].target.key
      BY <1>1, <1>5, <1>7, <2>2 DEF IndexInv, LocksHeld
    <3>2. ASSUME NEW u \in Removers \ {v}
          PROVE  /\ tx'[v].doomed \cap tx'[u].doomed = {}
                 /\ backend' = "sqlite" => ~{v, u} \subseteq Writing'
      <4>1. CASE u = t
        BY <1>1, <1>4, <1>5, <2>2, <4>1 DEF Locks
      <4>2. CASE u # t
        BY <1>1, <1>5, <2>2, <4>2 DEF IndexInv, LocksHeld
      <4> QED
        BY <4>1, <4>2
    <3> QED
      BY <3>1, <3>2
  <2> QED
    BY <2>1, <2>2
<1>9. ASSUME NEW u \in Removers, ~At(u, "idle")'
      PROVE  /\ since'[u] \subseteq ItemsOf(tx'[u].target) \cap Items'
             /\ \A r \in db' :
                   /\ r[2] = tx'[u].target.key /\ Passed(u, r)'
                   /\ backend' = "sqlite" \/ ItemOf(r) \in since'[u]
                   => r \in tx'[u].doomed
  <2>1. CASE u = t
    BY <1>1, <1>9, <2>1 DEF Takes, Reached, Passed, At, Writing
  <2>2. CASE u # t
    <3>1. ~At(u, "idle") /\ \A r : Passed(u, r)' <=> Passed(u, r)
      BY <1>1, <1>9, <2>2 DEF At, Passed, Writing
    <3>2. db' \subseteq db /\ db \ W \subseteq db' /\ db \subseteq Rows
      BY DEF Moves, IndexInv, TypeOK
    <3>3. /\ since'[u] \subseteq ItemsOf(tx[u].target) \cap Items'
          /\ \A r \in db' :
                /\ r[2] = tx[u].target.key /\ Passed(u, r)
                /\ backend = "sqlite" \/ ItemOf(r) \in since'[u]
                => r \in tx[u].doomed
      BY <1>1, <1>6, <2>2, <3>1, <3>2, Undisturbed
    <3> QED
      BY <1>1, <2>2, <3>1, <3>3
  <2> QED
    BY <2>1, <2>2
<1>10. NothingLeft'
  BY <1>9 DEF NothingLeft
<1> QED
  BY <1>2, <1>3, <1>8, <1>10 DEF IndexInv

LEMMA DeleteKeeps ==
    ASSUME IndexInv, Observe, backend' = backend, NEW t \in Removers,
           DeleteChildren(t) \/ DeleteHead(t)
    PROVE  IndexInv'
<1> DEFINE target == tx[t].target
           table == IF At(t, "children") THEN target.children ELSE target.head
           pc == IF At(t, "children") THEN "head" ELSE "commit"
           new == [pc |-> pc, target |-> target,
                   doomed |-> tx[t].doomed \cup Where(table, target.key)]
<1>1. /\ At(t, "children") \/ At(t, "head")
      /\ MayWrite(Removers \ {t}, Where(table, target.key))
      /\ tx' = [tx EXCEPT ![t] = new]
      /\ db' = db
  BY DEF DeleteChildren, DeleteHead, Delete, At
<1>2. tx[t].target \in Targets /\ tx[t].doomed \subseteq db /\ db \subseteq Rows
  BY <1>1 DEF IndexInv, TypeOK, LocksHeld, At
<1>3. Where(table, target.key) \subseteq db
  BY DEF Where
<1>4. Moves(t, new, {})
  BY <1>1, <1>2, <1>3 DEF Moves
<1>5. Locks(t, new)
  <2>1. \A r \in new.doomed :
           r[1] \in {new.target.children, new.target.head} /\ r[2] = new.target.key
    BY <1>1 DEF IndexInv, LocksHeld, Where
  <2>2. ASSUME NEW u \in Removers \ {t}
        PROVE  /\ new.doomed \cap tx[u].doomed = {}
               /\ backend = "sqlite" => u \notin Writing
    <3>1. tx[t].doomed \cap tx[u].doomed = {}
      BY DEF IndexInv, LocksHeld
    <3>2. CASE backend = "sqlite"
      <4>1. u \notin Writing
        BY <1>1, <3>2 DEF MayWrite
      <4>2. tx[u].doomed = {}
        BY <4>1 DEF IndexInv, LocksHeld
      <4> QED
        BY <4>1, <4>2
    <3>3. CASE backend # "sqlite"
      BY <1>1, <3>1, <3>3 DEF MayWrite, Doomed
    <3> QED
      BY <3>2, <3>3
  <2> QED
    BY <1>1, <1>2, <1>3, <2>1, <2>2 DEF Locks
<1>6. Items' = Items
  BY <1>1 DEF Items
<1>7. since'[t] = since[t] /\ since[t] \subseteq ItemsOf(target) \cap Items
  <2>1. ~At(t, "idle") /\ tx'[t].pc # "idle"
    BY <1>1 DEF At, IndexInv, TypeOK
  <2>2. since'[t] = since[t] \cap Items'
    BY <2>1 DEF Observe
  <2>3. since[t] \subseteq ItemsOf(target) \cap Items
    BY <2>1 DEF IndexInv, NothingLeft
  <2> QED
    BY <1>6, <2>2, <2>3
<1>8. Takes(t, new)
  <2>1. ASSUME NEW r \in db', r[2] = target.key, Reached(new, r),
               backend = "sqlite" \/ ItemOf(r) \in since'[t]
        PROVE  r \in new.doomed
    <3>1. CASE r[1] = table
      BY <1>1, <2>1, <3>1 DEF Where
    <3>2. CASE r[1] # table
      <4>1. At(t, "head") /\ r[1] = target.children
        BY <1>1, <2>1, <3>2 DEF Reached, At
      <4>2. Passed(t, r)
        BY <4>1 DEF Passed, Writing, At
      <4>3. ~At(t, "idle")
        BY <4>1 DEF At
      <4> QED
        BY <1>1, <1>7, <2>1, <4>2, <4>3 DEF IndexInv, NothingLeft
    <3> QED
      BY <3>1, <3>2
  <2> QED
    BY <1>6, <1>7, <2>1 DEF Takes
<1> QED
  BY <1>4, <1>5, <1>8, MoveKeeps

LEMMA RemovalKeeps ==
    ASSUME IndexInv, Observe, backend' = backend, NEW t \in Removers, Removal(t)
    PROVE  IndexInv'
<1>1. ASSUME NEW W, db' = db \ W, W \subseteq tx[t].doomed, Ended(t)
      PROVE  IndexInv'
  <2>1. Moves(t, Idle, W) /\ Locks(t, Idle) /\ Takes(t, Idle)
    BY <1>1 DEF Ended, Moves, Locks, Takes, Idle
  <2> QED
    BY <2>1, MoveKeeps
<1>2. ASSUME NEW target \in Targets, Begin(t, target)
      PROVE  IndexInv'
  <2> DEFINE new == [pc |-> "children", target |-> target, doomed |-> {}]
  <2>1. tx' = [tx EXCEPT ![t] = new] /\ db' = db /\ At(t, "idle")
    BY <1>2 DEF Begin
  <2>2. tx'[t] = new
    BY <2>1 DEF IndexInv, TypeOK
  <2>3. since'[t] = ItemsOf(target) \cap Items'
    BY <2>1, <2>2 DEF Observe
  <2>4. Moves(t, new, {}) /\ Locks(t, new) /\ Takes(t, new)
    BY <2>1, <2>3 DEF Moves, Locks, Takes, Reached
  <2> QED
    BY <2>4, MoveKeeps
<1>3. CASE DeleteChildren(t) \/ DeleteHead(t)
  BY <1>3, DeleteKeeps
<1>4. CASE Commit(t)
  BY <1>1, <1>4 DEF Commit
<1>5. CASE Rollback(t) \/ BusyTimeout(t)
  <2>1. db' = db \ {} /\ Ended(t)
    BY <1>5 DEF Rollback, BusyTimeout
  <2> QED
    BY <1>1, <2>1
<1> QED
  BY <1>2, <1>3, <1>4, <1>5 DEF Removal

(* A removal that commits takes all that was there throughout and nothing   *)
(* that another has deleted.                                                *)
LEMMA Isolated == Spec => []IndexInv
<1>1. Init => IndexInv
  BY DEF Init, Idle, At, IndexInv, TypeOK, OneRowEach, LocksHeld, NothingLeft, Writing
<1>2. IndexInv /\ [Next]_vars => IndexInv'
  <2> SUFFICES ASSUME IndexInv, [Next]_vars
               PROVE  IndexInv'
    OBVIOUS
  <2>1. CASE Next
    BY <2>1, StatementKeeps, RemovalKeeps DEF Next
  <2>2. CASE UNCHANGED vars
    BY <2>2 DEF vars, At, Items, Passed, Writing, IndexInv, TypeOK, OneRowEach,
                LocksHeld, NothingLeft
  <2> QED
    BY <2>1, <2>2
<1> QED
  BY <1>1, <1>2, PTL DEF Spec

-----------------------------------------------------------------------------
(* The refinement.                                                          *)

LEMMA RowOfRow ==
    ASSUME IndexInv, NEW f \in Files
    PROVE  /\ \A s \in Shards : FileRow(f, s) \in db => RowOf(f) = s
           /\ (\A s \in Shards : FileRow(f, s) \notin db) => RowOf(f) = NoShard
           /\ RowOf(f) \in Shards => FileRow(f, RowOf(f)) \in db
           /\ RowOf(f) = NoShard \/ RowOf(f) \in Shards
  BY SqlAssumption DEF RowOf, IndexInv, OneRowEach

(* The items of the tables are those the promise is about.                  *)
LEMMA PresentItems ==
    ASSUME IndexInv
    PROVE  Promise!Present = Items
<1>1. db \subseteq Rows
  BY DEF IndexInv, TypeOK
<1>2. {<<"row", f>> : f \in {g \in Files : Promise!Live(g)}}
        = {i \in Items : \E r \in db : i = ItemOf(r) /\ r[1] = "file_index"}
  <2>1. \A f \in Files : Promise!Live(f) <=> \E s \in Shards : FileRow(f, s) \in db
    BY RowOfRow, SqlAssumption DEF Promise!Live
  <2>2. \A r \in db : r[1] = "file_index" => \E f \in Files, s \in Shards : r = FileRow(f, s)
    BY <1>1, RowKinds, RowFields
  <2> QED
    BY <2>1, <2>2, ItemOfRow, RowFields DEF Items
<1>3. {<<"claim", c[2], c[1]>> : c \in {d \in Owners \X Files : Ownership(d[2], d[1]) \in db}}
        = {i \in Items : \E r \in db : i = ItemOf(r) /\ r[1] = "file_ownership"}
  <2>1. \A r \in db : r[1] = "file_ownership" =>
           \E f \in Files, o \in Owners : r = Ownership(f, o)
    BY <1>1, RowKinds, RowFields
  <2> DEFINE held == {d \in Owners \X Files : Ownership(d[2], d[1]) \in db}
  <2>2. ASSUME NEW c \in held
        PROVE  \E r \in db : <<"claim", c[2], c[1]>> = ItemOf(r) /\ r[1] = "file_ownership"
    BY ItemOfRow, RowFields
  <2>3. ASSUME NEW r \in db, r[1] = "file_ownership"
        PROVE  \E c \in held : ItemOf(r) = <<"claim", c[2], c[1]>>
    <3>1. PICK f \in Files, o \in Owners : r = Ownership(f, o)
      BY <2>1, <2>3
    <3>2. <<o, f>> \in held
      BY <3>1
    <3> QED
      BY <3>1, <3>2, ItemOfRow
  <2> QED
    BY <2>2, <2>3 DEF Items
<1>4. {<<"entries", x>> : x \in {y \in Xorbs : <<"entries", y>> \in Items}}
        = {i \in Items : \E r \in db : i = ItemOf(r) /\ r[1] = "chunk_index"}
  <2>1. \A r \in db : /\ r[1] = "chunk_index" => \E x \in Xorbs : ItemOf(r) = <<"entries", x>>
                      /\ \A x : ItemOf(r) = <<"entries", x>> => r[1] = "chunk_index"
    BY <1>1, RowKinds, RowFields, ItemOfRow
  <2> QED
    BY <2>1 DEF Items
<1>5. {<<"layout", x>> : x \in {y \in Xorbs : LayoutRow(y) \in db}}
        = {i \in Items : \E r \in db : i = ItemOf(r) /\ r[1] = "xorb_layout"}
  <2>1. \A r \in db : r[1] = "xorb_layout" => \E x \in Xorbs : r = LayoutRow(x)
    BY <1>1, RowKinds, RowFields
  <2> QED
    BY <2>1, ItemOfRow, RowFields DEF Items
<1>6. \A r \in db :
         r[1] \in {"file_index", "file_ownership", "chunk_index", "xorb_layout"}
  BY <1>1, RowKinds, RowFields
<1>7. Items = {i \in Items : \E r \in db : i = ItemOf(r) /\ r[1] = "file_index"}
                \cup {i \in Items : \E r \in db : i = ItemOf(r) /\ r[1] = "file_ownership"}
                \cup {i \in Items : \E r \in db : i = ItemOf(r) /\ r[1] = "chunk_index"}
                \cup {i \in Items : \E r \in db : i = ItemOf(r) /\ r[1] = "xorb_layout"}
  BY <1>6 DEF Items
<1> QED
  BY <1>2, <1>3, <1>4, <1>5, <1>7 DEF Promise!Present

(* The same of the state after a step.                                      *)
LEMMA PresentItemsNext == IndexInv' => Promise!Present' = Items'
<1>1. IndexInv => Promise!Present = Items
  BY PresentItems
<1>2. (IndexInv => Promise!Present = Items)'
  BY <1>1, PTL
<1> QED
  BY <1>2

LEMMA RowOfRowNext ==
    ASSUME IndexInv', NEW f \in Files
    PROVE  /\ \A s \in Shards : FileRow(f, s) \in db' => RowOf(f)' = s
           /\ (\A s \in Shards : FileRow(f, s) \notin db') => RowOf(f)' = NoShard
  BY SqlAssumption DEF RowOf, IndexInv, OneRowEach

(* Where the rows of a file stay, so does what it resolves to.              *)
LEMMA RowOfSame ==
    ASSUME IndexInv, IndexInv', NEW f \in Files,
           \A s \in Shards : FileRow(f, s) \in db' <=> FileRow(f, s) \in db
    PROVE  RowOf(f)' = RowOf(f)
  BY RowOfRow, RowOfRowNext

(* What a removal is under, and how it changes with a step of others.       *)
UnderOf(t) ==
    IF At(t, "idle") THEN [items |-> {}, throughout |-> {}]
    ELSE [items |-> ItemsOf(tx[t].target), throughout |-> since[t]]

LEMMA OthersStillThere ==
    ASSUME IndexInv', Observe, NEW u \in Removers, tx'[u] = tx[u]
    PROVE  Promise!StillThere(u) = UnderOf(u)'
<1>1. Promise!StillThere(u) = [UnderOf(u) EXCEPT !.throughout = @ \cap Items']
  BY PresentItemsNext DEF Promise!StillThere, UnderOf
<1>2. CASE At(u, "idle")
  BY <1>1, <1>2 DEF UnderOf, At
<1>3. CASE ~At(u, "idle")
  <2>1. since'[u] = since[u] \cap Items'
    BY <1>3 DEF Observe, At
  <2> QED
    BY <1>1, <1>3, <2>1 DEF UnderOf, At
<1> QED
  BY <1>2, <1>3

(* A call of one statement is the call of the same name.                    *)
LEMMA StatementRefines ==
    ASSUME IndexInv, IndexInv', Statement, Observe, backend' = backend
    PROVE  Promise!IndexNext
<1> DEFINE held == {c \in Owners \X Files : Ownership(c[2], c[1]) \in db}
           indexed == {x \in Xorbs : <<"entries", x>> \in Items}
           laid == {x \in Xorbs : LayoutRow(x) \in db}
           row == [f \in Files |-> RowOf(f)]
           under == [t \in Removers |-> UnderOf(t)]
<1>1. tx' = tx /\ db \subseteq Rows
  BY DEF Statement, IndexInv, TypeOK
<1>2. under' = [t \in Removers |-> Promise!StillThere(t)]
  BY <1>1, OthersStillThere
<1>3. \A x \in Xorbs : <<"entries", x>> \in Items <=> \E c \in Chunks[x] : ChunkRow(x, c) \in db
  <2>1. \A r \in db : \A x : ItemOf(r) = <<"entries", x>>
           => x \in Xorbs /\ \E c \in Chunks[x] : r = ChunkRow(x, c)
    BY <1>1, RowKinds, ItemOfRow
  <2> QED
    BY <2>1, ItemOfRow DEF Items
<1>4. \A x \in Xorbs :
         <<"entries", x>> \in Items' <=> \E c \in Chunks[x] : ChunkRow(x, c) \in db'
  <2>1. db' \subseteq Rows
    BY DEF IndexInv, TypeOK
  <2>2. \A r \in db' : \A x : ItemOf(r) = <<"entries", x>>
           => x \in Xorbs /\ \E c \in Chunks[x] : r = ChunkRow(x, c)
    BY <2>1, RowKinds, ItemOfRow
  <2> QED
    BY <2>2, ItemOfRow DEF Items
<1>5. ASSUME NEW f \in Files, NEW s \in Shards, Put(f, s)
      PROVE  /\ row' = [row EXCEPT ![f] = s]
             /\ held' = held /\ indexed' = indexed /\ laid' = laid
  <2>1. db' = (db \ Where("file_index", f)) \cup {FileRow(f, s)}
    BY <1>5 DEF Put
  <2>2. \A r : r[1] # "file_index" => (r \in db' <=> r \in db)
    BY <2>1, RowFields DEF Where
  <2>3. held' = held /\ laid' = laid
    BY <2>2, RowFields
  <2>4. \A x \in Xorbs : <<"entries", x>> \in Items' <=> <<"entries", x>> \in Items
    BY <1>3, <1>4, <2>2, RowFields
  <2>5. RowOf(f)' = s
    BY <2>1, RowOfRowNext
  <2>6. ASSUME NEW g \in Files, g # f
        PROVE  RowOf(g)' = RowOf(g)
    BY <2>1, <2>6, RowFields, RowOfSame DEF Where
  <2> QED
    BY <2>3, <2>4, <2>5, <2>6
<1>6. ASSUME \A f \in Files, s \in Shards : FileRow(f, s) \in db' <=> FileRow(f, s) \in db
      PROVE  row' = row
  BY <1>6, RowOfSame
<1>7. ASSUME NEW o \in Owners, NEW f \in Files, Claim(o, f) \/ Release(o, f)
      PROVE  /\ held' = held \cup {<<o, f>>} \/ held' = held \ {<<o, f>>}
             /\ row' = row /\ indexed' = indexed /\ laid' = laid
  <2>1. db' = db \cup {Ownership(f, o)} \/ db' = db \ {Ownership(f, o)}
    BY <1>7 DEF Claim, Release
  <2>2. \A r : r[1] # "file_ownership" => (r \in db' <=> r \in db)
    BY <2>1, RowFields
  <2>3. row' = row /\ laid' = laid
    BY <1>6, <2>2, RowFields
  <2>4. \A x \in Xorbs : <<"entries", x>> \in Items' <=> <<"entries", x>> \in Items
    BY <1>3, <1>4, <2>2, RowFields
  <2>5. \A c \in Owners \X Files :
           Ownership(c[2], c[1]) = Ownership(f, o) <=> c = <<o, f>>
    BY RowFields
  <2>6. held' = held \cup {<<o, f>>} \/ held' = held \ {<<o, f>>}
    BY <2>1, <2>5
  <2> QED
    BY <2>3, <2>4, <2>6
<1>8. ASSUME NEW x \in Xorbs, PutBatch(x)
      PROVE  /\ indexed' = indexed \cup {x}
             /\ row' = row /\ held' = held /\ laid' = laid
  <2>1. db' = db \cup Entries(x)
    BY <1>8 DEF PutBatch
  <2>2. \A r : r[1] # "chunk_index" => (r \in db' <=> r \in db)
    BY <2>1, RowFields DEF Entries
  <2>3. row' = row /\ held' = held /\ laid' = laid
    BY <1>6, <2>2, RowFields
  <2>4. \A y \in Xorbs : \A c : ChunkRow(y, c) \in db' /\ y # x => ChunkRow(y, c) \in db
    BY <2>1, RowFields DEF Entries
  <2>5. \E c \in Chunks[x] : ChunkRow(x, c) \in db'
    BY <2>1, SqlAssumption DEF Entries
  <2>6. \A y \in Xorbs : <<"entries", y>> \in Items' <=> y = x \/ <<"entries", y>> \in Items
    BY <1>3, <1>4, <2>1, <2>4, <2>5
  <2> QED
    BY <2>3, <2>6
<1>9. ASSUME NEW x \in Xorbs, PutXorbLayout(x)
      PROVE  /\ laid' = laid \cup {x}
             /\ row' = row /\ held' = held /\ indexed' = indexed
  <2>1. db' = db \cup {LayoutRow(x)}
    BY <1>9 DEF PutXorbLayout
  <2>2. \A r : r[1] # "xorb_layout" => (r \in db' <=> r \in db)
    BY <2>1, RowFields
  <2>3. row' = row /\ held' = held
    BY <1>6, <2>2, RowFields
  <2>4. \A y \in Xorbs : <<"entries", y>> \in Items' <=> <<"entries", y>> \in Items
    BY <1>3, <1>4, <2>2, RowFields
  <2>5. \A y \in Xorbs : LayoutRow(y) = LayoutRow(x) <=> y = x
    BY RowFields
  <2> QED
    BY <2>1, <2>3, <2>4, <2>5
<1>10. under' = [t \in Removers |-> Promise!StillThere(t)] /\ backend' = backend
  BY <1>2
<1>11. Promise!RowCall \/ Promise!ClaimCall \/ Promise!ChunkCall \/ Promise!LayoutCall
         => Promise!IndexNext
  BY <1>10 DEF Promise!IndexNext, Promise!storageVars, UnderOf
<1>12. CASE \E f \in Files, s \in Shards : Put(f, s)
  BY <1>5, <1>11, <1>12 DEF Promise!RowCall, Promise!PutFile
<1>13. CASE \E o \in Owners, f \in Files : Claim(o, f) \/ Release(o, f)
  BY <1>7, <1>11, <1>13 DEF Promise!ClaimCall, Promise!Claim, Promise!Release
<1>14. CASE \E x \in Xorbs : PutBatch(x)
  BY <1>8, <1>11, <1>14 DEF Promise!ChunkCall, Promise!PutBatch
<1>15. CASE \E x \in Xorbs : PutXorbLayout(x)
  BY <1>9, <1>11, <1>15 DEF Promise!LayoutCall, Promise!PutLayout
<1> QED
  BY <1>12, <1>13, <1>14, <1>15 DEF Statement

(* A step that commits nothing changes nothing of what the others are under. *)
LEMMA OthersUnder ==
    ASSUME IndexInv, Observe, db' = db, NEW u \in Removers, tx'[u] = tx[u]
    PROVE  UnderOf(u)' = UnderOf(u)
<1>1. CASE At(u, "idle")
  BY <1>1 DEF UnderOf, At
<1>2. CASE ~At(u, "idle")
  <2>1. since'[u] = since[u] \cap Items'
    BY <1>2 DEF Observe, At
  <2>2. since[u] \subseteq Items /\ Items' = Items
    BY <1>2 DEF IndexInv, NothingLeft, Items
  <2> QED
    BY <1>2, <2>1, <2>2 DEF UnderOf, At
<1> QED
  BY <1>1, <1>2

SameTables ==
    /\ [f \in Files |-> RowOf(f)]' = [f \in Files |-> RowOf(f)]
    /\ {c \in Owners \X Files : Ownership(c[2], c[1]) \in db}'
          = {c \in Owners \X Files : Ownership(c[2], c[1]) \in db}
    /\ {x \in Xorbs : <<"entries", x>> \in Items}' = {x \in Xorbs : <<"entries", x>> \in Items}
    /\ {x \in Xorbs : LayoutRow(x) \in db}' = {x \in Xorbs : LayoutRow(x) \in db}

LEMMA NothingCommitted ==
    ASSUME db' = db
    PROVE  SameTables
  BY DEF SameTables, RowOf, Items

(* What a removal is under is not nothing.                                  *)
LEMMA SomethingUnder ==
    ASSUME NEW target \in Targets
    PROVE  ItemsOf(target) # {} /\ ItemsOf(target) \in Promise!Removable
<1>1. CASE \E f \in Files : target = RemoveFile(f)
  <2>1. PICK f \in Files : target = RemoveFile(f)
    BY <1>1
  <2>2. ItemsOf(target) = Promise!FileItems(f)
    BY <2>1 DEF RemoveFile, ItemsOf, Promise!FileItems
  <2>3. Promise!FileItems(f) \in Promise!Removable
    BY DEF Promise!Removable
  <2>4. <<"row", f>> \in Promise!FileItems(f)
    BY DEF Promise!FileItems
  <2> QED
    BY <2>2, <2>3, <2>4
<1>2. CASE \E x \in Xorbs : target = RemoveXorb(x)
  <2>1. PICK x \in Xorbs : target = RemoveXorb(x)
    BY <1>2
  <2>2. ItemsOf(target) = Promise!XorbItems(x)
    BY <2>1 DEF RemoveXorb, ItemsOf, Promise!XorbItems
  <2>3. Promise!XorbItems(x) \in Promise!Removable
    BY DEF Promise!Removable
  <2>4. <<"layout", x>> \in Promise!XorbItems(x)
    BY DEF Promise!XorbItems
  <2> QED
    BY <2>2, <2>3, <2>4
<1> QED
  BY <1>1, <1>2, TargetFields

LEMMA BeginRefines ==
    ASSUME IndexInv, IndexInv', Observe, backend' = backend,
           NEW t \in Removers, NEW target \in Targets, Begin(t, target)
    PROVE  Promise!IndexNext
<1> DEFINE under == [u \in Removers |-> UnderOf(u)]
           begun == [items |-> ItemsOf(target), throughout |-> ItemsOf(target) \cap Items]
<1>1. /\ At(t, "idle") /\ db' = db
      /\ tx' = [tx EXCEPT ![t] = [pc |-> "children", target |-> target, doomed |-> {}]]
  BY DEF Begin
<1>2. /\ tx'[t] = [pc |-> "children", target |-> target, doomed |-> {}]
      /\ \A u \in Removers \ {t} : tx'[u] = tx[u]
  BY <1>1 DEF IndexInv, TypeOK
<1>3. UnderOf(t)' = begun
  <2>1. Items' = Items
    BY <1>1 DEF Items
  <2>2. tx'[t].pc = "children" /\ tx'[t].target = target
    BY <1>2
  <2>3. since'[t] = ItemsOf(target) \cap Items
    BY <1>1, <2>1, <2>2 DEF Observe
  <2> QED
    BY <2>2, <2>3 DEF UnderOf, At
<1>4. under' = [under EXCEPT ![t] = begun]
  BY <1>1, <1>2, <1>3, OthersUnder
<1>5. under[t] = Promise!NotRemoving
  BY <1>1 DEF UnderOf, Promise!NotRemoving
<1>6. begun = [items |-> ItemsOf(target), throughout |-> ItemsOf(target) \cap Promise!Present]
  BY PresentItems
<1>7. Promise!BeginRemoval(t)
  BY <1>1, <1>4, <1>5, <1>6, NothingCommitted, SomethingUnder
     DEF Promise!BeginRemoval, SameTables, UnderOf
<1> QED
  BY <1>7 DEF Promise!IndexNext, Promise!storageVars

LEMMA DeleteRefines ==
    ASSUME IndexInv, Observe, backend' = backend,
           NEW t \in Removers, DeleteChildren(t) \/ DeleteHead(t)
    PROVE  UNCHANGED Promise!indexSpecVars
<1> DEFINE under == [u \in Removers |-> UnderOf(u)]
<1>1. db' = db /\ ~At(t, "idle") /\ \A u \in Removers \ {t} : tx'[u] = tx[u]
  BY DEF DeleteChildren, DeleteHead, Delete, At, IndexInv, TypeOK
<1>2. tx'[t].target = tx[t].target /\ tx'[t].pc # "idle"
  BY DEF DeleteChildren, DeleteHead, Delete, At, IndexInv, TypeOK
<1>3. UnderOf(t)' = UnderOf(t)
  <2>1. since'[t] = since[t] \cap Items'
    BY <1>1, <1>2 DEF Observe
  <2>2. since[t] \subseteq Items /\ Items' = Items
    BY <1>1 DEF IndexInv, NothingLeft, Items
  <2> QED
    BY <1>1, <1>2, <2>1, <2>2 DEF UnderOf, At
<1>4. under' = under
  BY <1>1, <1>3, OthersUnder
<1> QED
  BY <1>1, <1>4, NothingCommitted
     DEF SameTables, UnderOf, Promise!indexSpecVars, Promise!storeVars

LEMMA FailRefines ==
    ASSUME IndexInv, Observe, backend' = backend,
           NEW t \in Removers, Rollback(t) \/ BusyTimeout(t)
    PROVE  Promise!IndexNext
<1> DEFINE under == [u \in Removers |-> UnderOf(u)]
<1>1. ~At(t, "idle") /\ db' = db /\ tx' = [tx EXCEPT ![t] = Idle]
  BY DEF Rollback, BusyTimeout, Ended, At
<1>2. tx'[t] = Idle /\ \A u \in Removers \ {t} : tx'[u] = tx[u]
  BY <1>1 DEF IndexInv, TypeOK
<1>3. UnderOf(t)' = Promise!NotRemoving
  BY <1>2 DEF UnderOf, At, Idle, Promise!NotRemoving
<1>4. under' = [under EXCEPT ![t] = Promise!NotRemoving]
  BY <1>1, <1>2, <1>3, OthersUnder
<1>5. under[t] # Promise!NotRemoving
  <2>1. tx[t].target \in Targets
    BY <1>1 DEF IndexInv, TypeOK
  <2> QED
    BY <1>1, <2>1, SomethingUnder DEF UnderOf, Promise!NotRemoving
<1>6. Promise!FailRemoval(t)
  BY <1>1, <1>4, <1>5, NothingCommitted DEF Promise!FailRemoval, SameTables, UnderOf
<1> QED
  BY <1>6 DEF Promise!IndexNext, Promise!storageVars

(* The tables, read off their items.                                        *)
TablesAsItems ==
    /\ \A f \in Files, o \in Owners : Ownership(f, o) \in db <=> <<"claim", f, o>> \in Items
    /\ \A x \in Xorbs : LayoutRow(x) \in db <=> <<"layout", x>> \in Items
    /\ \A f \in Files :
          <<"row", f>> \notin Items => \A s \in Shards : FileRow(f, s) \notin db

LEMMA Tables == IndexInv => TablesAsItems
<1> SUFFICES ASSUME IndexInv PROVE TablesAsItems
  OBVIOUS
<1>1. db \subseteq Rows
  BY DEF IndexInv, TypeOK
<1>2. \A r \in db : \A f, o : ItemOf(r) = <<"claim", f, o>> => r = Ownership(f, o)
  BY <1>1, RowKinds, ItemOfRow
<1>3. \A r \in db : \A x : ItemOf(r) = <<"layout", x>> => r = LayoutRow(x)
  BY <1>1, RowKinds, ItemOfRow
<1> QED
  BY <1>2, <1>3, ItemOfRow DEF TablesAsItems, Items

LEMMA TablesNext == IndexInv' => TablesAsItems'
<1>1. (IndexInv => TablesAsItems)'
  BY Tables, PTL
<1> QED
  BY <1>1

(* A removal that commits ends, with what came in the meantime spared.      *)
LEMMA CommitRefines ==
    ASSUME IndexInv, IndexInv', Observe, backend' = backend,
           NEW t \in Removers, Commit(t)
    PROVE  Promise!IndexNext
<1> DEFINE under == [u \in Removers |-> UnderOf(u)]
           held == {c \in Owners \X Files : Ownership(c[2], c[1]) \in db}
           indexed == {x \in Xorbs : <<"entries", x>> \in Items}
           laid == {x \in Xorbs : LayoutRow(x) \in db}
           row == [f \in Files |-> RowOf(f)]
           items == ItemsOf(tx[t].target)
           spared == items \cap Items'
           gone == items \ spared
<1>1. /\ At(t, "commit") /\ ~At(t, "idle")
      /\ db' = db \ tx[t].doomed
      /\ tx' = [tx EXCEPT ![t] = Idle]
  BY DEF Commit, Ended, At
<1>2. tx'[t] = Idle /\ \A u \in Removers \ {t} : tx'[u] = tx[u]
  BY <1>1 DEF IndexInv, TypeOK
<1>3. tx[t].target \in Targets /\ tx[t].doomed \subseteq db /\ db \subseteq Rows
  BY <1>1 DEF IndexInv, TypeOK, LocksHeld
<1>4. \A r \in tx[t].doomed : ItemOf(r) \in items
  BY <1>3, InTarget DEF IndexInv, LocksHeld
<1>5. Items' \subseteq Items
  BY <1>1 DEF Items
<1>6. \A i \in Items : i \in Items' <=> i \notin gone
  BY <1>1, <1>4 DEF Items
<1>7. ASSUME NEW i \in spared
      PROVE  backend # "sqlite" /\ i \notin since[t]
  <2>1. PICK r \in db' : i = ItemOf(r)
    BY DEF Items
  <2>2. r \in db /\ r \notin tx[t].doomed
    BY <1>1, <2>1
  <2>3. r[2] = tx[t].target.key /\ r[1] \in {tx[t].target.children, tx[t].target.head}
    BY <1>3, <2>1, <2>2, InTarget
  <2>4. Passed(t, r)
    BY <1>1, <2>3 DEF Passed, Writing, At
  <2> QED
    BY <1>1, <2>1, <2>2, <2>3, <2>4 DEF IndexInv, NothingLeft
<1>8. row' = [f \in Files |-> IF <<"row", f>> \in gone THEN NoShard ELSE row[f]]
  <2>1. ASSUME NEW f \in Files, <<"row", f>> \in gone
        PROVE  RowOf(f)' = NoShard
    <3>1. \A s \in Shards : FileRow(f, s) \notin db'
      BY <2>1, TablesNext DEF TablesAsItems
    <3> QED
      BY <3>1, RowOfRowNext
  <2>2. ASSUME NEW f \in Files, <<"row", f>> \notin gone
        PROVE  RowOf(f)' = RowOf(f)
    <3>1. ASSUME NEW s \in Shards, FileRow(f, s) \in db
          PROVE  \E u \in Shards : FileRow(f, u) \in db'
      <4>1. <<"row", f>> \in Items
        BY <3>1, ItemOfRow DEF Items
      <4>2. <<"row", f>> \in Items'
        BY <1>6, <2>2, <4>1
      <4>3. PICK r \in db' : ItemOf(r) = <<"row", f>>
        BY <4>2 DEF Items
      <4>4. r \in Rows
        BY <1>1, <1>3, <4>3
      <4> QED
        BY <4>3, <4>4, RowKinds, ItemOfRow
    <3>2. \A s \in Shards : FileRow(f, s) \in db' <=> FileRow(f, s) \in db
      BY <1>1, <3>1 DEF IndexInv, OneRowEach
    <3> QED
      BY <3>2, RowOfSame
  <2> QED
    BY <2>1, <2>2
<1>9. held' = {c \in held : <<"claim", c[2], c[1]>> \notin gone}
  BY <1>5, <1>6, Tables, TablesNext DEF TablesAsItems
<1>10. indexed' = {x \in indexed : <<"entries", x>> \notin gone}
  BY <1>5, <1>6
<1>11. laid' = {x \in laid : <<"layout", x>> \notin gone}
  BY <1>5, <1>6, Tables, TablesNext DEF TablesAsItems
<1>12. under[t] = [items |-> items, throughout |-> since[t]] /\ under[t] # Promise!NotRemoving
  BY <1>1, <1>3, SomethingUnder DEF UnderOf, Promise!NotRemoving
<1>13. under' = [r \in Removers |->
                    IF r = t THEN Promise!NotRemoving ELSE Promise!StillThere(r)]
  <2>1. UnderOf(t)' = Promise!NotRemoving
    BY <1>2 DEF UnderOf, Promise!NotRemoving, Idle, At
  <2>2. \A r \in Removers \ {t} : UnderOf(r)' = Promise!StillThere(r)
    BY <1>2, OthersStillThere
  <2> QED
    BY <2>1, <2>2
<1>14. \E S \in SUBSET (under[t].items \ under[t].throughout) :
          (backend = "sqlite" => S = {}) /\ Promise!Without(under[t].items \ S)
  <2>1. backend = "sqlite" => spared = {}
    BY <1>7
  <2>2. under[t].items = items
    BY <1>12
  <2>3. Promise!Without(under[t].items \ spared)
    BY <1>8, <1>9, <1>10, <1>11, <2>2 DEF Promise!Without
  <2>4. \E S \in SUBSET (items \ since[t]) : S = spared
    BY <1>7
  <2> QED
    BY <1>12, <2>1, <2>3, <2>4 DEF Promise!Without
<1>15. Promise!EndRemoval(t)
  BY <1>12, <1>13, <1>14 DEF Promise!EndRemoval, Promise!Without, UnderOf
<1> QED
  BY <1>15 DEF Promise!IndexNext, Promise!storageVars

(* The SQL of both backends, statement by statement and with any number of  *)
(* removals at once, implements what the index interfaces promise.          *)
THEOREM Kept == Spec => KeepsPromise
<1>1. Init => Promise!IndexInit
  <2> SUFFICES ASSUME Init PROVE Promise!IndexInit
    OBVIOUS
  <2>1. db = {} /\ tx = [t \in Removers |-> Idle] /\ backend \in Backends
    BY DEF Init
  <2>2. \A f \in Files : RowOf(f) = NoShard
    BY <2>1 DEF RowOf
  <2>3. Items = {}
    BY <2>1 DEF Items
  <2>4. \A t \in Removers : UnderOf(t) = Promise!NotRemoving
    BY <2>1 DEF UnderOf, At, Idle, Promise!NotRemoving
  <2>5. Promise!StoreInit
    BY <2>1, <2>2, <2>3 DEF Promise!StoreInit, Promise!Absent
  <2> QED
    BY <2>1, <2>4, <2>5 DEF Promise!IndexInit, Promise!Backends, Backends, UnderOf
<1>2. IndexInv /\ IndexInv' /\ [Next]_vars
        => [Promise!IndexNext]_(Promise!indexSpecVars)
  <2> SUFFICES ASSUME IndexInv, IndexInv', [Next]_vars
               PROVE  Promise!IndexNext \/ UNCHANGED Promise!indexSpecVars
    OBVIOUS
  <2>1. CASE Statement /\ Observe /\ UNCHANGED backend
    BY <2>1, StatementRefines
  <2>2. ASSUME NEW t \in Removers, Removal(t), Observe, UNCHANGED backend
        PROVE  Promise!IndexNext \/ UNCHANGED Promise!indexSpecVars
    BY <2>2, BeginRefines, DeleteRefines, CommitRefines, FailRefines DEF Removal
  <2>3. CASE UNCHANGED vars
    <3>1. db' = db /\ tx' = tx /\ since' = since /\ backend' = backend
      BY <2>3 DEF vars
    <3>2. [u \in Removers |-> UnderOf(u)]' = [u \in Removers |-> UnderOf(u)]
      BY <3>1 DEF UnderOf, At
    <3> QED
      BY <3>1, <3>2, NothingCommitted
         DEF SameTables, UnderOf, Promise!indexSpecVars, Promise!storeVars
  <2> QED
    BY <2>1, <2>2, <2>3 DEF Next
<1> QED
  BY <1>1, <1>2, Isolated, PTL DEF Spec, KeepsPromise, Promise!IndexSpec
=============================================================================
