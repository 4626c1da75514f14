---------------------------- MODULE CasServerProofs ----------------------------
(***************************************************************************)
(* Theorems about CasServer and FreshUploads, for every value of their     *)
(* constants: any number of files, xorbs, shards, owners and concurrent    *)
(* tasks.  The last part is about what a collection deletes: all that was  *)
(* garbage when it began (SweptGarbageGone), and nothing that is younger   *)
(* than the grace floor (GraceProtects, FreshFilesIntact).                 *)
(***************************************************************************)
EXTENDS FreshUploads, FiniteSetTheorems, TLAPS

USE StoreAssumption, AdminAssumption, GraceAssumption

-----------------------------------------------------------------------------
(* Type correctness, one lemma per kind of task.  A task's state is idle or  *)
(* a record of its Busy set; every step either ends the task or leads from   *)
(* one record of that set to another.                                        *)

LEMMA PostTypes ==
    ASSUME StoreTypeOK, PostTypeOK, NEW t \in Posters, PostStep(t)
    PROVE  StoreTypeOK' /\ PostTypeOK'
<1> USE DEF StoreTypeOK, PostTypeOK, PostState, PostIdle, PostBusy, PostAt, PostGoto,
            PostDone, storeVars, storageVars, indexVars
<1>1. CASE \E x \in Xorbs : BeginPost(t, x)
  BY <1>1 DEF BeginPost
<1>2. CASE \E x \in Xorbs : PostAlreadyStored(t, x)
  BY <1>2 DEF PostAlreadyStored
<1>3. CASE PostHead(t)
  <2>1. /\ post[t] \in PostBusy
        /\ \E c \in {"index", "put"} : post' = [post EXCEPT ![t] = [post[t] EXCEPT !.pc = c]]
    BY <1>3 DEF PostHead
  <2>2. PICK c \in {"index", "put"} : post' = [post EXCEPT ![t] = [post[t] EXCEPT !.pc = c]]
    BY <2>1
  <2>3. [post[t] EXCEPT !.pc = c] \in PostState
    BY <2>1
  <2> QED
    BY <1>3, <2>2, <2>3 DEF PostHead
<1>4. CASE PostPut(t)
  BY <1>4 DEF PostPut, StoreXorb
<1>5. CASE PostIndex(t)
  BY <1>5 DEF PostIndex, PutBatch
<1>6. CASE PostLayout(t)
  <2>1. post[t].xorb \in Xorbs
    BY <1>6 DEF PostLayout
  <2>2. layouts' \subseteq Xorbs
    BY <1>6, <2>1 DEF PostLayout, PutLayout
  <2> QED
    BY <1>6, <2>2 DEF PostLayout
<1>7. CASE PostAbort(t)
  BY <1>7 DEF PostAbort
<1> QED
  BY <1>1, <1>2, <1>3, <1>4, <1>5, <1>6, <1>7 DEF PostStep

LEMMA RegTypes ==
    ASSUME StoreTypeOK, RegTypeOK, NEW t \in Registrars, RegStep(t)
    PROVE  StoreTypeOK' /\ RegTypeOK'
<1> DEFINE q == reg[t]
<1> SUFFICES /\ StoreTypeOK'
             /\ \E r \in RegState : reg' = [reg EXCEPT ![t] = r]
  BY DEF RegTypeOK
<1>b. ~RegAt(t, "idle") => q \in RegBusy
  BY DEF RegTypeOK, RegState, RegAt, RegIdle
<1>i. RegIdle \in RegState /\ RegBusy \subseteq RegState
  BY DEF RegState
<1>u. ASSUME UNCHANGED storeVars PROVE StoreTypeOK'
  BY <1>u DEF storeVars, StoreTypeOK
<1>1. CASE \E o \in Owners, s \in Shards : BeginRegister(t, o, s)
  <2>1. PICK o \in Owners, s \in Shards : BeginRegister(t, o, s)
    BY <1>1
  <2> DEFINE r == [pc |-> "validate", owner |-> o, shard |-> s,
                   unread |-> TermXorbs(s), files |-> FilesOf(s), file |-> {}]
  <2>2. r \in RegBusy
    BY DEF RegBusy, TermXorbs, FilesOf
  <2> QED
    BY <2>1, <2>2, <1>i, <1>u DEF BeginRegister
<1>2. CASE \E x \in Xorbs : ReadTermXorb(t, x)
  <2>1. PICK x \in Xorbs : ReadTermXorb(t, x)
    BY <1>2
  <2>2. q \in RegBusy
    BY <2>1, <1>b DEF ReadTermXorb, RegAt
  <2>3. reg' = [reg EXCEPT ![t] = [q EXCEPT !.unread = @ \ {x}]]
    BY <2>1 DEF ReadTermXorb
  <2> HIDE DEF q
  <2>4. [q EXCEPT !.unread = @ \ {x}] \in RegBusy
    BY <2>2 DEF RegBusy
  <2> QED
    BY <2>1, <2>3, <2>4, <1>i, <1>u DEF ReadTermXorb
<1>3. CASE \E x \in Xorbs : TermXorbMissing(t, x)
  BY <1>3, <1>i, <1>u DEF TermXorbMissing, RegDone
<1>4. CASE ShardHead(t)
  <2>1. q \in RegBusy
    BY <1>4, <1>b DEF ShardHead, RegAt
  <2>2. PICK c \in {"index", "put"} : reg' = [reg EXCEPT ![t] = [q EXCEPT !.pc = c]]
    BY <1>4 DEF ShardHead, RegGoto
  <2> HIDE DEF q
  <2>4. [q EXCEPT !.pc = c] \in RegBusy
    BY <2>1 DEF RegBusy
  <2> QED
    BY <1>4, <2>2, <2>4, <1>i, <1>u DEF ShardHead
<1>5. CASE ShardPut(t)
  <2>1. q \in RegBusy
    BY <1>5, <1>b DEF ShardPut, RegAt
  <2>2. reg' = [reg EXCEPT ![t] = [q EXCEPT !.pc = "index"]]
    BY <1>5 DEF ShardPut, RegGoto
  <2>3. StoreTypeOK'
    BY <1>5, <2>1 DEF ShardPut, StoreShard, StoreTypeOK, indexVars
  <2> HIDE DEF q
  <2>4. [q EXCEPT !.pc = "index"] \in RegBusy
    BY <2>1 DEF RegBusy
  <2> QED
    BY <2>2, <2>3, <2>4, <1>i
<1>6. CASE \E f \in Files : IndexFile(t, f)
  <2>1. PICK f \in Files : IndexFile(t, f)
    BY <1>6
  <2> DEFINE r == [q EXCEPT !.pc = "claim", !.file = {f}, !.files = @ \ {f}]
  <2>2. q \in RegBusy
    BY <2>1, <1>b DEF IndexFile, RegAt
  <2>3. reg' = [reg EXCEPT ![t] = r]
    BY <2>1 DEF IndexFile
  <2>4. q.shard \in Shards
    BY <2>2 DEF RegBusy
  <2>5. StoreTypeOK'
    BY <2>1, <2>4 DEF IndexFile, PutFile, StoreTypeOK, storageVars
  <2> HIDE DEF q
  <2>6. r \in RegBusy
    BY <2>2 DEF RegBusy
  <2> HIDE DEF r
  <2> QED
    BY <2>3, <2>5, <2>6, <1>i
<1>7. CASE \E f \in Files : ClaimFile(t, f)
  <2>1. PICK f \in Files : ClaimFile(t, f)
    BY <1>7
  <2> DEFINE r == [q EXCEPT !.pc = "index", !.file = {}]
  <2>2. q \in RegBusy
    BY <2>1, <1>b DEF ClaimFile, RegAt
  <2>3. reg' = [reg EXCEPT ![t] = r]
    BY <2>1 DEF ClaimFile
  <2>4. q.owner \in Owners
    BY <2>2 DEF RegBusy
  <2>5. StoreTypeOK'
    BY <2>1, <2>4 DEF ClaimFile, Claim, StoreTypeOK, storageVars
  <2> HIDE DEF q
  <2>6. r \in RegBusy
    BY <2>2 DEF RegBusy
  <2> HIDE DEF r
  <2> QED
    BY <2>3, <2>5, <2>6, <1>i
<1>8. CASE IndexChunks(t)
  <2>1. q \in RegBusy
    BY <1>8, <1>b DEF IndexChunks, RegAt
  <2>2. CasInfo[q.shard] \subseteq Xorbs
    BY <2>1 DEF RegBusy
  <2> QED
    BY <1>8, <2>2, <1>i DEF IndexChunks, PutBatch, RegDone, StoreTypeOK, storageVars
<1>9. CASE RegAbort(t)
  BY <1>9, <1>i, <1>u DEF RegAbort, RegDone
<1> QED
  BY <1>1, <1>2, <1>3, <1>4, <1>5, <1>6, <1>7, <1>8, <1>9 DEF RegStep

LEMMA DelTypes ==
    ASSUME StoreTypeOK, DelTypeOK, NEW t \in Deleters, DelStep(t)
    PROVE  StoreTypeOK' /\ DelTypeOK'
<1> DEFINE q == del[t]
<1> SUFFICES /\ StoreTypeOK'
             /\ \E r \in DelState : del' = [del EXCEPT ![t] = r]
  BY DEF DelTypeOK
<1>b. ~DelAt(t, "idle") => q \in DelBusy
  BY DEF DelTypeOK, DelState, DelAt, DelIdle
<1>i. DelIdle \in DelState /\ DelBusy \subseteq DelState
  BY DEF DelState
<1>u. ASSUME UNCHANGED storeVars PROVE StoreTypeOK'
  BY <1>u DEF storeVars, StoreTypeOK
<1>1. CASE \E o \in Owners, f \in Files : BeginDelete(t, o, f)
  <2>1. PICK o \in Owners, f \in Files : BeginDelete(t, o, f)
    BY <1>1
  <2> DEFINE r == [pc |-> "claims", owner |-> o, file |-> f, seen |-> {}]
  <2>2. r \in DelBusy
    BY DEF DelBusy
  <2> QED
    BY <2>1, <2>2, <1>i, <1>u DEF BeginDelete
<1>2. CASE \E f \in Files : UnknownFile(t, f)
  <2>1. del' = [del EXCEPT ![t] = del[t]]
    BY <1>2 DEF UnknownFile, DelTypeOK
  <2> QED
    BY <1>2, <2>1, <1>u DEF UnknownFile, DelTypeOK
<1>3. CASE ReadClaims(t)
  <2> DEFINE S == Claimants(q.file)
             c == IF S = {} THEN "remove" ELSE "release"
             r == [q EXCEPT !.pc = c, !.seen = S]
  <2>1. q \in DelBusy
    BY <1>3, <1>b DEF ReadClaims, DelAt
  <2>2. S \subseteq Owners /\ c \in {"remove", "release"}
    BY DEF Claimants
  <2>3. \/ del' = [del EXCEPT ![t] = DelIdle]
        \/ del' = [del EXCEPT ![t] = r]
    BY <1>3 DEF ReadClaims, DelDone
  <2> HIDE DEF S, c, q
  <2>4. r \in DelBusy
    BY <2>1, <2>2 DEF DelBusy
  <2> HIDE DEF r
  <2> QED
    BY <1>3, <2>3, <2>4, <1>i, <1>u DEF ReadClaims
<1>4. CASE ReleaseClaim(t)
  <2> DEFINE r == [q EXCEPT !.pc = "remove"]
  <2>1. q \in DelBusy
    BY <1>4, <1>b DEF ReleaseClaim, DelAt
  <2>2. \/ del' = [del EXCEPT ![t] = DelIdle]
        \/ del' = [del EXCEPT ![t] = r]
    BY <1>4 DEF ReleaseClaim, DelDone, DelGoto
  <2>3. StoreTypeOK'
    BY <1>4 DEF ReleaseClaim, Release, StoreTypeOK, storageVars
  <2> HIDE DEF q
  <2>4. r \in DelBusy
    BY <2>1 DEF DelBusy
  <2> HIDE DEF r
  <2> QED
    BY <2>2, <2>3, <2>4, <1>i
<1>5. CASE NoClaim(t)
  BY <1>5, <1>i, <1>u DEF NoClaim, DelDone
<1>6. CASE RemoveRow(t)
  <2>1. StoreTypeOK'
    BY <1>6 DEF RemoveRow, RemoveFile, StoreTypeOK, storageVars
  <2> QED
    BY <1>6, <2>1, <1>i DEF RemoveRow, DelDone
<1>7. CASE DelAbort(t)
  BY <1>7, <1>i, <1>u DEF DelAbort, DelDone
<1> QED
  BY <1>1, <1>2, <1>3, <1>4, <1>5, <1>6, <1>7 DEF DelStep

LEMMA BusyPass ==
    ASSUME PassTypeOK, NEW p \in Passes, ~PassAt(p, "idle")
    PROVE  pass[p] \in PassBusy
  BY DEF PassTypeOK, PassState, PassAt, PassIdle

LEMMA MarkedType ==
    ASSUME NEW q \in PassBusy, clock \in Nat
    PROVE  Marked(q) \in PassBusy
  BY DEF PassBusy, Marked, NoSnap

LEMMA PassTypes ==
    ASSUME StoreTypeOK, PassTypeOK, NEW p \in Passes, PassStep(p)
    PROVE  StoreTypeOK' /\ PassTypeOK'
<1> DEFINE q == pass[p]
<1> SUFFICES /\ StoreTypeOK'
             /\ \E r \in PassState : pass' = [pass EXCEPT ![p] = r]
  BY DEF PassTypeOK
<1>b. ~PassAt(p, "idle") => q \in PassBusy
  BY BusyPass
<1>m. \A r \in PassBusy : Marked(r) \in PassBusy
  BY MarkedType DEF StoreTypeOK
<1>i. PassIdle \in PassState /\ PassBusy \subseteq PassState
  BY DEF PassState
<1>u. ASSUME UNCHANGED storeVars PROVE StoreTypeOK'
  BY <1>u DEF storeVars, StoreTypeOK
<1>1. CASE BeginPass(p)
  <2>g. PICK g \in Accepted : pass' = [pass EXCEPT ![p] = Marked(
                   [pc |-> "mark", grace |-> g, snap |-> fileIndex,
                    live |-> LiveShards, unread |-> LiveShards, reachable |-> {},
                    now |-> 0, xorbs |-> {}, purged |-> {}, shards |-> {}])]
    BY <1>1 DEF BeginPass
  <2> DEFINE r == [pc |-> "mark", grace |-> g, snap |-> fileIndex,
                   live |-> LiveShards, unread |-> LiveShards, reachable |-> {},
                   now |-> 0, xorbs |-> {}, purged |-> {}, shards |-> {}]
  <2>1. LiveShards \subseteq Shards
    BY DEF LiveShards, StoreTypeOK
  <2>2. r \in PassBusy
    BY <2>1 DEF PassBusy, StoreTypeOK, Accepted
  <2> QED
    BY <1>1, <1>m, <1>i, <1>u, <2>g, <2>2 DEF BeginPass
<1>2. CASE \E s \in Shards : ReadShard(p, s)
  <2>1. PICK s \in Shards : ReadShard(p, s)
    BY <1>2
  <2> DEFINE R == MarkedBy(q.snap, s)
             r == [q EXCEPT !.unread = @ \ {s}, !.reachable = @ \cup R]
  <2>2. R \in SUBSET Xorbs
    BY DEF MarkedBy
  <2>3. q \in PassBusy
    BY <2>1, <1>b DEF ReadShard, PassAt
  <2>4. pass' = [pass EXCEPT ![p] = Marked(r)]
    BY <2>1 DEF ReadShard
  <2> HIDE DEF R, q
  <2>5. r \in PassBusy
    BY <2>2, <2>3 DEF PassBusy
  <2> HIDE DEF r
  <2> QED
    BY <2>1, <1>m, <1>i, <1>u, <2>4, <2>5 DEF ReadShard
<1>3. CASE \E s \in Shards : SkipMissingShard(p, s)
  <2>1. PICK s \in Shards : SkipMissingShard(p, s)
    BY <1>3
  <2> DEFINE r == [q EXCEPT !.unread = @ \ {s}]
  <2>2. q \in PassBusy
    BY <2>1, <1>b DEF SkipMissingShard, PassAt
  <2>3. pass' = [pass EXCEPT ![p] = Marked(r)]
    BY <2>1 DEF SkipMissingShard
  <2> HIDE DEF q
  <2>4. r \in PassBusy
    BY <2>2 DEF PassBusy
  <2> HIDE DEF r
  <2> QED
    BY <2>1, <1>m, <1>i, <1>u, <2>3, <2>4 DEF SkipMissingShard
<1>4. CASE ListXorbs(p)
  <2> DEFINE X == {x \in Xorbs : /\ XorbStored(x)
                                 /\ x \notin q.reachable
                                 /\ ~InGrace(q.grace, q.now, xorbs[x])}
             r == [q EXCEPT !.pc = "purge", !.reachable = {}, !.xorbs = X]
  <2>1. q \in PassBusy
    BY <1>4, <1>b DEF ListXorbs, PassAt
  <2>2. X \in SUBSET Xorbs
    OBVIOUS
  <2>3. pass' = [pass EXCEPT ![p] = r]
    BY <1>4 DEF ListXorbs
  <2> HIDE DEF X, q
  <2>4. r \in PassBusy
    BY <2>1, <2>2 DEF PassBusy
  <2> HIDE DEF r
  <2> QED
    BY <1>4, <1>i, <1>u, <2>3, <2>4 DEF ListXorbs
<1>5. CASE \E x \in Xorbs : PurgeIndex(p, x)
  <2>1. PICK x \in Xorbs : PurgeIndex(p, x)
    BY <1>5
  <2> DEFINE r == [q EXCEPT !.pc = "drop", !.purged = {x}, !.xorbs = @ \ {x}]
  <2>2. q \in PassBusy
    BY <2>1, <1>b DEF PurgeIndex, PassAt
  <2>3. pass' = [pass EXCEPT ![p] = r]
    BY <2>1 DEF PurgeIndex
  <2>4. StoreTypeOK'
    BY <2>1 DEF PurgeIndex, PurgeXorb, StoreTypeOK, storageVars
  <2> HIDE DEF q
  <2>5. r \in PassBusy
    BY <2>2 DEF PassBusy
  <2> HIDE DEF r
  <2> QED
    BY <1>i, <2>3, <2>4, <2>5
<1>6. CASE \E x \in Xorbs : DeleteXorb(p, x)
  <2>1. PICK x \in Xorbs : DeleteXorb(p, x)
    BY <1>6
  <2> DEFINE r == [q EXCEPT !.pc = "purge", !.purged = {}]
  <2>2. q \in PassBusy
    BY <2>1, <1>b DEF DeleteXorb, PassAt
  <2>3. pass' = [pass EXCEPT ![p] = r]
    BY <2>1 DEF DeleteXorb
  <2>4. StoreTypeOK'
    BY <2>1 DEF DeleteXorb, DropXorb, StoreTypeOK, indexVars
  <2> HIDE DEF q
  <2>5. r \in PassBusy
    BY <2>2 DEF PassBusy
  <2> HIDE DEF r
  <2> QED
    BY <1>i, <2>3, <2>4, <2>5
<1>7. CASE ListShards(p)
  <2> DEFINE S == {s \in Shards : /\ ShardStored(s)
                                  /\ s \notin q.live
                                  /\ ~InGrace(q.grace, q.now, shards[s])}
             r == [q EXCEPT !.pc = "shards", !.live = {}, !.grace = 0, !.now = 0, !.shards = S]
  <2>1. q \in PassBusy
    BY <1>7, <1>b DEF ListShards, PassAt
  <2>2. S \in SUBSET Shards
    OBVIOUS
  <2>3. pass' = [pass EXCEPT ![p] = r]
    BY <1>7 DEF ListShards
  <2> HIDE DEF S, q
  <2>4. r \in PassBusy
    BY <2>1, <2>2 DEF PassBusy
  <2> HIDE DEF r
  <2> QED
    BY <1>7, <1>i, <1>u, <2>3, <2>4 DEF ListShards
<1>8. CASE \E s \in Shards : DeleteShard(p, s)
  <2>1. PICK s \in Shards : DeleteShard(p, s)
    BY <1>8
  <2> DEFINE r == [q EXCEPT !.shards = @ \ {s}]
  <2>2. q \in PassBusy
    BY <2>1, <1>b DEF DeleteShard, PassAt
  <2>3. pass' = [pass EXCEPT ![p] = r]
    BY <2>1 DEF DeleteShard
  <2>4. StoreTypeOK'
    BY <2>1 DEF DeleteShard, DropShard, StoreTypeOK, indexVars
  <2> HIDE DEF q
  <2>5. r \in PassBusy
    BY <2>2 DEF PassBusy
  <2> HIDE DEF r
  <2> QED
    BY <1>i, <2>3, <2>4, <2>5
<1>9. CASE EndPass(p)
  BY <1>9, <1>i, <1>u DEF EndPass, PassDone
<1>10. CASE AbortPass(p)
  BY <1>10, <1>i, <1>u DEF AbortPass, PassDone
<1> QED
  BY <1>1, <1>2, <1>3, <1>4, <1>5, <1>6, <1>7, <1>8, <1>9, <1>10
  DEF PassStep, PassProgress

LEMMA ObserveTypes ==
    ASSUME TypeOK, Observe
    PROVE  /\ stable' \in [Passes -> SUBSET Files]
           /\ garbage' \in [Passes -> SUBSET Xorbs]
           /\ held' \in [Deleters -> SUBSET Owners]
<1>1. \A p \in Passes : ObserveStable(p) \subseteq Files
  BY DEF ObserveStable, TypeOK
<1>2. \A p \in Passes : ObserveGarbage(p) \subseteq Xorbs
  BY DEF ObserveGarbage, TypeOK
<1>3. \A t \in Deleters : ObserveHeld(t) \subseteq Owners
  BY DEF ObserveHeld, TypeOK
<1> HIDE DEF ObserveStable, ObserveGarbage, ObserveHeld
<1> QED
  BY <1>1, <1>2, <1>3 DEF Observe

(* Every variable keeps its type: the store, the index, the local state of   *)
(* every task and the history variables.                                     *)
THEOREM TypeCorrect == Spec => []TypeOK
<1>1. Init => TypeOK
  BY DEF Init, TypeOK, StoreInit, StoreTypeOK, PostInit, PostTypeOK, PostState, RegInit,
         RegTypeOK, RegState, DelInit, DelTypeOK, DelState, PassInit, PassTypeOK,
         PassState, HistoryInit
<1>2. TypeOK /\ [Next]_vars => TypeOK'
  <2> SUFFICES ASSUME TypeOK, [Next]_vars PROVE TypeOK'
    OBVIOUS
  <2>1. CASE UNCHANGED vars
    BY <2>1 DEF vars, storeVars, taskVars, history, TypeOK, StoreTypeOK, PostTypeOK,
                RegTypeOK, DelTypeOK, PassTypeOK
  <2>2. CASE Next
    <3>1. /\ stable' \in [Passes -> SUBSET Files]
          /\ garbage' \in [Passes -> SUBSET Xorbs]
          /\ held' \in [Deleters -> SUBSET Owners]
      BY <2>2, ObserveTypes DEF Next
    <3>2. CASE \E t \in Posters : Post(t)
      <4>1. PICK t \in Posters : PostStep(t) /\ UNCHANGED <<reg, del, pass>>
        BY <3>2 DEF Post
      <4>2. StoreTypeOK' /\ PostTypeOK'
        BY <4>1, PostTypes DEF TypeOK
      <4> QED
        BY <3>1, <4>1, <4>2 DEF TypeOK, RegTypeOK, DelTypeOK, PassTypeOK
    <3>3. CASE \E t \in Registrars : Register(t)
      <4>1. PICK t \in Registrars : RegStep(t) /\ UNCHANGED <<post, del, pass>>
        BY <3>3 DEF Register
      <4>2. StoreTypeOK' /\ RegTypeOK'
        BY <4>1, RegTypes DEF TypeOK
      <4> QED
        BY <3>1, <4>1, <4>2 DEF TypeOK, PostTypeOK, DelTypeOK, PassTypeOK
    <3>4. CASE \E t \in Deleters : Delete(t)
      <4>1. PICK t \in Deleters : DelStep(t) /\ UNCHANGED <<post, reg, pass>>
        BY <3>4 DEF Delete
      <4>2. StoreTypeOK' /\ DelTypeOK'
        BY <4>1, DelTypes DEF TypeOK
      <4> QED
        BY <3>1, <4>1, <4>2 DEF TypeOK, PostTypeOK, RegTypeOK, PassTypeOK
    <3>5. CASE \E p \in Passes : Collect(p)
      <4>1. PICK p \in Passes : PassStep(p) /\ UNCHANGED <<post, reg, del>>
        BY <3>5 DEF Collect
      <4>2. StoreTypeOK' /\ PassTypeOK'
        BY <4>1, PassTypes DEF TypeOK
      <4> QED
        BY <3>1, <4>1, <4>2 DEF TypeOK, PostTypeOK, RegTypeOK, DelTypeOK
    <3>6. CASE TimePasses
      BY <3>1, <3>6 DEF TimePasses, Tick, taskVars, storageVars, indexVars, TypeOK,
                        StoreTypeOK, PostTypeOK, RegTypeOK, DelTypeOK, PassTypeOK
    <3> QED
      BY <2>2, <3>2, <3>3, <3>4, <3>5, <3>6 DEF Next, Step
  <2> QED
    BY <2>1, <2>2
<1> QED
  BY <1>1, <1>2, PTL DEF Spec

-----------------------------------------------------------------------------
(* What a step changes, and who takes it.                                   *)

LEMMA PostChange ==
    ASSUME TypeOK, Step, NEW t \in Posters
    PROVE  post'[t] = post[t] \/ PostStep(t)
<1>1. ASSUME NEW u \in Posters, Post(u), u # t
      PROVE  post'[t] = post[t]
  <2>1. PostStep(u)
    BY <1>1 DEF Post
  <2>2. (\E r : post' = [post EXCEPT ![u] = r]) \/ post' = post
    BY <2>1 DEF PostStep, BeginPost, PostAlreadyStored, PostHead, PostPut, PostIndex,
                PostLayout, PostAbort, PostDone, PostGoto
  <2> QED
    BY <1>1, <2>2 DEF TypeOK, PostTypeOK
<1> QED
  BY <1>1 DEF Step, Post, Register, Delete, Collect, TimePasses, taskVars

LEMMA RegChange ==
    ASSUME TypeOK, Step, NEW t \in Registrars
    PROVE  reg'[t] = reg[t] \/ RegStep(t)
<1>1. ASSUME NEW u \in Registrars, Register(u), u # t
      PROVE  reg'[t] = reg[t]
  <2>1. RegStep(u)
    BY <1>1 DEF Register
  <2>2. \E r : reg' = [reg EXCEPT ![u] = r]
    BY <2>1 DEF RegStep, BeginRegister, ReadTermXorb, TermXorbMissing, ShardHead, ShardPut,
                IndexFile, ClaimFile, IndexChunks, RegAbort, RegDone, RegGoto
  <2> QED
    BY <1>1, <2>2 DEF TypeOK, RegTypeOK
<1> QED
  BY <1>1 DEF Step, Post, Register, Delete, Collect, TimePasses, taskVars

(* Objects are written by the two put steps and deleted by the two delete    *)
(* steps, rows are written by IndexFile and deleted by RemoveRow, and time   *)
(* passes alone.                                                             *)
LEMMA WhoWrites ==
    ASSUME TypeOK, Step
    PROVE  /\ clock' # clock => TimePasses
           /\ \A x \in Xorbs : xorbs'[x] # xorbs[x] =>
                \/ \E t \in Posters : Post(t) /\ PostPut(t) /\ post[t].xorb = x
                \/ \E p \in Passes : Collect(p) /\ DeleteXorb(p, x)
           /\ \A s \in Shards : shards'[s] # shards[s] =>
                \/ \E t \in Registrars : Register(t) /\ ShardPut(t) /\ reg[t].shard = s
                \/ \E p \in Passes : Collect(p) /\ DeleteShard(p, s)
           /\ \A f \in Files : fileIndex'[f] # fileIndex[f] =>
                \/ \E t \in Registrars : Register(t) /\ IndexFile(t, f)
                \/ \E t \in Deleters : Delete(t) /\ RemoveRow(t) /\ fileIndex'[f] = NoShard
<1> USE DEF TypeOK, StoreTypeOK
<1>1. CASE \E t \in Posters : Post(t)
  <2>1. PICK t \in Posters : Post(t)
    BY <1>1
  <2>2. UNCHANGED <<clock, shards, fileIndex>> /\ (xorbs' = xorbs \/ PostPut(t))
    BY <2>1 DEF Post, PostStep, BeginPost, PostAlreadyStored, PostHead, PostPut, PostIndex,
                PostLayout, PostAbort, storeVars, storageVars, indexVars
  <2>3. PostPut(t) => \A x \in Xorbs : x # post[t].xorb => xorbs'[x] = xorbs[x]
    BY DEF PostPut, StoreXorb
  <2> QED
    BY <2>1, <2>2, <2>3
<1>2. CASE \E t \in Registrars : Register(t)
  <2>1. PICK t \in Registrars : Register(t)
    BY <1>2
  <2>2. /\ UNCHANGED <<clock, xorbs>>
        /\ shards' = shards \/ ShardPut(t)
        /\ fileIndex' = fileIndex \/ \E f \in Files : IndexFile(t, f)
    BY <2>1 DEF Register, RegStep, BeginRegister, ReadTermXorb, TermXorbMissing, ShardHead,
                ShardPut, IndexFile, ClaimFile, IndexChunks, RegAbort, storeVars,
                storageVars, indexVars
  <2>3. ShardPut(t) => \A s \in Shards : s # reg[t].shard => shards'[s] = shards[s]
    BY DEF ShardPut, StoreShard
  <2>4. \A f, g \in Files : IndexFile(t, f) /\ g # f => fileIndex'[g] = fileIndex[g]
    BY DEF IndexFile, PutFile
  <2> QED
    BY <2>1, <2>2, <2>3, <2>4
<1>3. CASE \E t \in Deleters : Delete(t)
  <2>1. PICK t \in Deleters : Delete(t)
    BY <1>3
  <2>2. UNCHANGED <<clock, xorbs, shards>> /\ (fileIndex' = fileIndex \/ RemoveRow(t))
    BY <2>1 DEF Delete, DelStep, BeginDelete, UnknownFile, ReadClaims, ReleaseClaim,
                NoClaim, RemoveRow, DelAbort, storeVars, storageVars
  <2>3. RemoveRow(t) => \A f \in Files : fileIndex'[f] \in {fileIndex[f], NoShard}
    BY DEF RemoveRow, RemoveFile
  <2> QED
    BY <2>1, <2>2, <2>3
<1>4. CASE \E p \in Passes : Collect(p)
  <2>1. PICK p \in Passes : Collect(p)
    BY <1>4
  <2>2. /\ UNCHANGED <<clock, fileIndex>>
        /\ xorbs' = xorbs \/ \E x \in Xorbs : DeleteXorb(p, x)
        /\ shards' = shards \/ \E s \in Shards : DeleteShard(p, s)
    BY <2>1 DEF Collect, PassStep, PassProgress, BeginPass, ReadShard, SkipMissingShard,
                ListXorbs, PurgeIndex, DeleteXorb, ListShards, DeleteShard, EndPass,
                AbortPass, storeVars, storageVars, indexVars
  <2>3. \A x, y \in Xorbs : DeleteXorb(p, x) /\ y # x => xorbs'[y] = xorbs[y]
    BY DEF DeleteXorb, DropXorb
  <2>4. \A s, u \in Shards : DeleteShard(p, s) /\ u # s => shards'[u] = shards[u]
    BY DEF DeleteShard, DropShard
  <2> QED
    BY <2>1, <2>2, <2>3, <2>4
<1>5. CASE TimePasses
  BY <1>5 DEF TimePasses, Tick, storageVars, indexVars
<1> QED
  BY <1>1, <1>2, <1>3, <1>4, <1>5 DEF Step

-----------------------------------------------------------------------------
(* Collection.                                                              *)

LEMMA MarkedProtects ==
    ASSUME NEW q \in PassBusy, NEW f \in Files, NEW s \in Shards,
           Terms[s][f] \cap q.purged = {},
           q.pc = "mark", q.snap[f] = s, s \in q.live,
           s \in q.unread \/ Terms[s][f] \subseteq q.reachable
    PROVE  ProtectedBy(Marked(q), f, s)
<1>1. CASE q.unread = {}
  BY <1>1 DEF Marked, ProtectedBy, PassBusy
<1>2. CASE q.unread # {}
  BY <1>2 DEF Marked, ProtectedBy
<1> QED
  BY <1>1, <1>2

(* A pass that begins protects every file that has a row.                    *)
LEMMA BeginProtects ==
    ASSUME StoreTypeOK, NEW p \in Passes, pass \in [Passes -> PassState], BeginPass(p),
           NEW f \in Files, Live(f)
    PROVE  ProtectedBy(pass'[p], f, fileIndex'[f])
<1>g. PICK g \in Accepted : pass' = [pass EXCEPT ![p] = Marked(
                 [pc |-> "mark", grace |-> g, snap |-> fileIndex,
                  live |-> LiveShards, unread |-> LiveShards, reachable |-> {},
                  now |-> 0, xorbs |-> {}, purged |-> {}, shards |-> {}])]
  BY DEF BeginPass
<1> DEFINE r == [pc |-> "mark", grace |-> g, snap |-> fileIndex,
                 live |-> LiveShards, unread |-> LiveShards, reachable |-> {},
                 now |-> 0, xorbs |-> {}, purged |-> {}, shards |-> {}]
           s == fileIndex[f]
<1>1. s \in Shards /\ s \in LiveShards /\ LiveShards \subseteq Shards
  BY DEF LiveShards, Live, StoreTypeOK
<1>2. r \in PassBusy
  BY <1>1 DEF PassBusy, StoreTypeOK, Accepted
<1>3. r.pc = "mark" /\ r.snap[f] = s /\ s \in r.live /\ s \in r.unread /\ r.purged = {}
  BY <1>1
<1>4. pass'[p] = Marked(r) /\ fileIndex'[f] = s
  BY <1>g DEF BeginPass, storeVars
<1> HIDE DEF r, s
<1> QED
  BY <1>1, <1>2, <1>3, <1>4, MarkedProtects

(* Every later step of a pass goes on protecting what the pass protects.     *)
LEMMA PassProtects ==
    ASSUME StoreTypeOK, PassTypeOK, NEW p \in Passes, PassStep(p),
           p \in Running, p \in Running',
           NEW f \in Files, Intact(f), fileIndex'[f] = fileIndex[f],
           ProtectedBy(pass[p], f, fileIndex[f])
    PROVE  ProtectedBy(pass'[p], f, fileIndex'[f])
<1> DEFINE q == pass[p]
           s == fileIndex[f]
<1>b. q \in PassBusy
  BY BusyPass DEF Running
<1>s. s \in Shards
  BY DEF Intact, Live, StoreTypeOK
<1>p. ProtectedBy(q, f, s) /\ fileIndex'[f] = s
  OBVIOUS
<1>d. Terms[s][f] \cap q.purged = {}
  BY <1>p DEF ProtectedBy
<1>1. CASE BeginPass(p)
  BY <1>1 DEF BeginPass, Running
<1>2. CASE \E t \in Shards : ReadShard(p, t)
  <2>1. PICK t \in Shards : ReadShard(p, t)
    BY <1>2
  <2> DEFINE R == MarkedBy(q.snap, t)
             r == [q EXCEPT !.unread = @ \ {t}, !.reachable = @ \cup R]
  <2>2. R \in SUBSET Xorbs
    BY DEF MarkedBy
  <2>3. pass'[p] = Marked(r) /\ q.pc = "mark"
    BY <2>1 DEF ReadShard, PassTypeOK, PassAt
  <2>4. /\ q.snap[f] = s
        /\ s \in q.live
        /\ s \in q.unread \/ Terms[s][f] \subseteq q.reachable
    BY <1>p, <2>3 DEF ProtectedBy
  <2>5. t = s => Terms[s][f] \subseteq R
    BY <2>4 DEF MarkedBy
  <2> HIDE DEF q, R, s
  <2>6. r \in PassBusy
    BY <1>b, <2>2 DEF PassBusy
  <2>7. r.pc = "mark" /\ r.snap[f] = s /\ s \in r.live /\ r.purged = q.purged
    BY <1>b, <2>3, <2>4 DEF PassBusy
  <2>8. r.unread = q.unread \ {t} /\ r.reachable = q.reachable \cup R
    BY <1>b DEF PassBusy
  <2>9. s \in r.unread \/ Terms[s][f] \subseteq r.reachable
    BY <2>4, <2>5, <2>8
  <2> HIDE DEF r
  <2> QED
    BY <1>s, <1>p, <1>d, <2>3, <2>6, <2>7, <2>9, MarkedProtects
<1>3. CASE \E t \in Shards : SkipMissingShard(p, t)
  <2>1. PICK t \in Shards : SkipMissingShard(p, t)
    BY <1>3
  <2> DEFINE r == [q EXCEPT !.unread = @ \ {t}]
  <2>2. t # s
    BY <2>1 DEF SkipMissingShard, Intact
  <2>3. pass'[p] = Marked(r) /\ q.pc = "mark"
    BY <2>1 DEF SkipMissingShard, PassTypeOK, PassAt
  <2>4. /\ q.snap[f] = s
        /\ s \in q.live
        /\ s \in q.unread \/ Terms[s][f] \subseteq q.reachable
    BY <1>p, <2>3 DEF ProtectedBy
  <2> HIDE DEF q, s
  <2>5. r \in PassBusy
    BY <1>b DEF PassBusy
  <2>6. r.pc = "mark" /\ r.snap[f] = s /\ s \in r.live /\ r.purged = q.purged
    BY <1>b, <2>3, <2>4 DEF PassBusy
  <2>7. r.unread = q.unread \ {t} /\ r.reachable = q.reachable
    BY <1>b DEF PassBusy
  <2>8. s \in r.unread \/ Terms[s][f] \subseteq r.reachable
    BY <2>2, <2>4, <2>7
  <2> HIDE DEF r
  <2> QED
    BY <1>s, <1>p, <1>d, <2>3, <2>5, <2>6, <2>8, MarkedProtects
<1>4. CASE ListXorbs(p)
  <2> DEFINE X == {x \in Xorbs : /\ XorbStored(x)
                                 /\ x \notin q.reachable
                                 /\ ~InGrace(q.grace, q.now, xorbs[x])}
             r == [q EXCEPT !.pc = "purge", !.reachable = {}, !.xorbs = X]
  <2>1. pass'[p] = r /\ q.pc = "list"
    BY <1>4 DEF ListXorbs, PassTypeOK, PassAt
  <2>2. s \in q.live /\ Terms[s][f] \subseteq q.reachable
    BY <1>p, <2>1 DEF ProtectedBy
  <2>3. Terms[s][f] \cap X = {}
    BY <2>2
  <2> HIDE DEF q, s, X
  <2>4. r.pc = "purge" /\ r.live = q.live /\ r.xorbs = X /\ r.purged = q.purged
    BY <1>b DEF PassBusy
  <2> HIDE DEF r
  <2> QED
    BY <1>p, <1>d, <2>1, <2>2, <2>3, <2>4 DEF ProtectedBy
<1>5. CASE \E x \in Xorbs : PurgeIndex(p, x)
  <2>1. PICK x \in Xorbs : PurgeIndex(p, x)
    BY <1>5
  <2> DEFINE r == [q EXCEPT !.pc = "drop", !.purged = {x}, !.xorbs = @ \ {x}]
  <2>2. pass'[p] = r /\ q.pc = "purge" /\ x \in q.xorbs
    BY <2>1 DEF PurgeIndex, PassTypeOK, PassAt
  <2>3. s \in q.live /\ Terms[s][f] \cap q.xorbs = {}
    BY <1>p, <2>2 DEF ProtectedBy
  <2> HIDE DEF q, s
  <2>4. r.pc = "drop" /\ r.live = q.live /\ r.purged = {x} /\ r.xorbs = q.xorbs \ {x}
    BY <1>b DEF PassBusy
  <2>5. Terms[s][f] \cap r.xorbs = {} /\ Terms[s][f] \cap r.purged = {}
    BY <2>2, <2>3, <2>4
  <2> HIDE DEF r
  <2> QED
    BY <1>p, <2>2, <2>3, <2>4, <2>5 DEF ProtectedBy
<1>6. CASE \E x \in Xorbs : DeleteXorb(p, x)
  <2> DEFINE r == [q EXCEPT !.pc = "purge", !.purged = {}]
  <2>1. pass'[p] = r /\ q.pc = "drop"
    BY <1>6 DEF DeleteXorb, PassTypeOK, PassAt
  <2>2. s \in q.live /\ Terms[s][f] \cap q.xorbs = {}
    BY <1>p, <2>1 DEF ProtectedBy
  <2> HIDE DEF q, s
  <2>3. r.pc = "purge" /\ r.live = q.live /\ r.purged = {} /\ r.xorbs = q.xorbs
    BY <1>b DEF PassBusy
  <2>4. Terms[s][f] \cap r.xorbs = {} /\ Terms[s][f] \cap r.purged = {}
    BY <2>2, <2>3
  <2> HIDE DEF r
  <2> QED
    BY <1>p, <2>1, <2>2, <2>3, <2>4 DEF ProtectedBy
<1>7. CASE ListShards(p)
  <2> DEFINE S == {t \in Shards : /\ ShardStored(t)
                                  /\ t \notin q.live
                                  /\ ~InGrace(q.grace, q.now, shards[t])}
             r == [q EXCEPT !.pc = "shards", !.live = {}, !.grace = 0, !.now = 0, !.shards = S]
  <2>1. pass'[p] = r /\ q.pc = "purge"
    BY <1>7 DEF ListShards, PassTypeOK, PassAt
  <2>2. s \in q.live
    BY <1>p, <2>1 DEF ProtectedBy
  <2>3. s \notin S
    BY <2>2
  <2> HIDE DEF q, s, S
  <2>4. r.pc = "shards" /\ r.shards = S
    BY <1>b DEF PassBusy
  <2>5. r.purged = q.purged
    BY <1>b DEF PassBusy
  <2> HIDE DEF r
  <2> QED
    BY <1>p, <1>d, <2>1, <2>3, <2>4, <2>5 DEF ProtectedBy
<1>8. CASE \E t \in Shards : DeleteShard(p, t)
  <2>1. PICK t \in Shards : DeleteShard(p, t)
    BY <1>8
  <2> DEFINE r == [q EXCEPT !.shards = @ \ {t}]
  <2>2. pass'[p] = r /\ q.pc = "shards"
    BY <2>1 DEF DeleteShard, PassTypeOK, PassAt
  <2>3. s \notin q.shards
    BY <1>p, <2>2 DEF ProtectedBy
  <2> HIDE DEF q, s
  <2>4. r.pc = "shards" /\ r.shards = q.shards \ {t} /\ r.purged = q.purged
    BY <1>b, <2>2 DEF PassBusy
  <2> HIDE DEF r
  <2> QED
    BY <1>p, <1>d, <2>2, <2>3, <2>4 DEF ProtectedBy
<1>9. CASE EndPass(p)
  BY <1>9 DEF EndPass, PassDone, PassIdle, PassAt, PassTypeOK, Running
<1>10. CASE AbortPass(p)
  BY <1>10 DEF AbortPass, PassDone, PassIdle, PassAt, PassTypeOK, Running
<1> QED
  BY <1>1, <1>2, <1>3, <1>4, <1>5, <1>6, <1>7, <1>8, <1>9, <1>10
  DEF PassStep, PassProgress

LEMMA PassChange ==
    ASSUME TypeOK, Step, NEW p \in Passes
    PROVE  pass'[p] = pass[p] \/ PassStep(p)
<1>1. CASE \E t \in Posters : Post(t)
  BY <1>1 DEF Post
<1>2. CASE \E t \in Registrars : Register(t)
  BY <1>2 DEF Register
<1>3. CASE \E t \in Deleters : Delete(t)
  BY <1>3 DEF Delete
<1>4. ASSUME NEW q \in Passes, Collect(q), q # p
      PROVE  pass'[p] = pass[p]
  <2>1. PassStep(q)
    BY <1>4 DEF Collect
  <2>2. \E r : pass' = [pass EXCEPT ![q] = r]
    BY <2>1 DEF PassStep, PassProgress, BeginPass, ReadShard, SkipMissingShard, ListXorbs,
                PurgeIndex, DeleteXorb, ListShards, DeleteShard, EndPass, AbortPass, PassDone
  <2> QED
    BY <1>4, <2>2 DEF TypeOK, PassTypeOK
<1>5. CASE TimePasses
  BY <1>5 DEF TimePasses, taskVars
<1> QED
  BY <1>1, <1>2, <1>3, <1>4, <1>5 DEF Step, Collect

LEMMA StableStep ==
    ASSUME TypeOK, StableInv, Next
    PROVE  StableInv'
<1> SUFFICES ASSUME NEW p \in Passes, NEW f \in stable'[p]
             PROVE  /\ p \in Running'
                    /\ Intact(f)'
                    /\ ProtectedBy(pass'[p], f, fileIndex'[f])
  BY DEF StableInv
<1>0. f \in ObserveStable(p)
  BY DEF Next, Observe
<1>1. p \in Running' /\ Intact(f)' /\ f \in Files
  BY <1>0 DEF ObserveStable, TypeOK
<1>2. pass'[p] = pass[p] \/ PassStep(p)
  BY PassChange DEF Next
<1>3. CASE p \in Running
  <2>1. f \in stable[p] /\ fileIndex'[f] = fileIndex[f]
    BY <1>0, <1>1, <1>3 DEF ObserveStable
  <2>2. Intact(f) /\ ProtectedBy(pass[p], f, fileIndex[f])
    BY <2>1 DEF StableInv
  <2>3. CASE pass'[p] = pass[p]
    BY <1>1, <2>1, <2>2, <2>3
  <2>4. CASE PassStep(p)
    BY <1>1, <1>3, <2>1, <2>2, <2>4, PassProtects DEF TypeOK
  <2> QED
    BY <1>2, <2>3, <2>4
<1>4. CASE p \notin Running
  <2>1. BeginPass(p)
    BY <1>1, <1>2, <1>4 DEF Running, PassAt, PassStep, PassProgress, ReadShard,
       SkipMissingShard, ListXorbs, PurgeIndex, DeleteXorb, ListShards, DeleteShard,
       EndPass, AbortPass
  <2>2. Live(f)
    BY <1>1, <2>1 DEF BeginPass, Intact, Live, storeVars
  <2> QED
    BY <1>1, <2>1, <2>2, BeginProtects DEF TypeOK, PassTypeOK
<1> QED
  BY <1>3, <1>4

(* Only the two delete steps of a pass take an object away. *)
LEMMA Deletions ==
    ASSUME TypeOK, Step
    PROVE  /\ \A x \in Xorbs : (XorbStored(x) /\ ~XorbStored(x)')
                                 => \E p \in Passes : DeleteXorb(p, x)
           /\ \A s \in Shards : (ShardStored(s) /\ ~ShardStored(s)')
                                 => \E p \in Passes : DeleteShard(p, s)
<1> USE DEF TypeOK, StoreTypeOK, XorbStored, ShardStored, Absent
<1>1. CASE \E t \in Posters : Post(t)
  BY <1>1 DEF Post, PostStep, BeginPost, PostAlreadyStored, PostHead, PostPut, PostIndex,
              PostLayout, PostAbort, StoreXorb, storeVars, storageVars
<1>2. CASE \E t \in Registrars : Register(t)
  <2>1. PICK t \in Registrars : RegStep(t)
    BY <1>2 DEF Register
  <2>2. UNCHANGED storageVars \/ ShardPut(t)
    BY <2>1 DEF RegStep, BeginRegister, ReadTermXorb, TermXorbMissing, ShardHead, IndexFile,
                ClaimFile, IndexChunks, RegAbort, storeVars, storageVars
  <2>3. ShardPut(t) => xorbs' = xorbs /\ \A s \in Shards : shards'[s] \in {shards[s], clock}
    BY DEF ShardPut, StoreShard
  <2> QED
    BY <2>2, <2>3 DEF storageVars
<1>3. CASE \E t \in Deleters : Delete(t)
  BY <1>3 DEF Delete, DelStep, BeginDelete, UnknownFile, ReadClaims, ReleaseClaim, NoClaim,
              RemoveRow, DelAbort, storeVars, storageVars
<1>4. ASSUME NEW p \in Passes, Collect(p)
      PROVE  \/ UNCHANGED storageVars
             \/ \E x \in Xorbs : DeleteXorb(p, x)
             \/ \E s \in Shards : DeleteShard(p, s)
  BY <1>4 DEF Collect, PassStep, PassProgress, BeginPass, ReadShard, SkipMissingShard,
              ListXorbs, PurgeIndex, ListShards, EndPass, AbortPass, storeVars, storageVars
<1>5. ASSUME NEW p \in Passes, NEW x \in Xorbs, DeleteXorb(p, x)
      PROVE  shards' = shards /\ \A y \in Xorbs : y # x => xorbs'[y] = xorbs[y]
  BY <1>5 DEF DeleteXorb, DropXorb
<1>6. ASSUME NEW p \in Passes, NEW s \in Shards, DeleteShard(p, s)
      PROVE  xorbs' = xorbs /\ \A t \in Shards : t # s => shards'[t] = shards[t]
  BY <1>6 DEF DeleteShard, DropShard
<1>7. CASE TimePasses
  BY <1>7 DEF TimePasses, Tick, storageVars
<1>8. CASE \E p \in Passes : Collect(p)
  BY <1>4, <1>5, <1>6, <1>8 DEF storageVars
<1> QED
  BY <1>1, <1>2, <1>3, <1>7, <1>8 DEF Step

LEMMA SparesStep ==
    ASSUME TypeOK, StableInv, Step,
           NEW f \in Files, Intact(f), \A p \in Running : f \in stable[p],
           fileIndex'[f] = fileIndex[f]
    PROVE  Intact(f)'
<1> DEFINE s == fileIndex[f]
<1>s. s \in Shards /\ Terms[s][f] \subseteq Xorbs
  BY DEF Intact, Live, TypeOK, StoreTypeOK
<1>1. ASSUME NEW p \in Passes, NEW x \in Terms[s][f], DeleteXorb(p, x) PROVE FALSE
  <2>1. p \in Running /\ x \in pass[p].purged
    BY <1>1 DEF DeleteXorb, Running, PassAt
  <2> QED
    BY <2>1 DEF StableInv, ProtectedBy
<1>2. ASSUME NEW p \in Passes, DeleteShard(p, s) PROVE FALSE
  <2>1. p \in Running /\ pass[p].pc = "shards" /\ s \in pass[p].shards
    BY <1>2 DEF DeleteShard, Running, PassAt
  <2> QED
    BY <2>1 DEF StableInv, ProtectedBy
<1>3. ShardStored(s)'
  BY <1>s, <1>2, Deletions DEF Intact, ShardStored
<1>4. \A x \in Terms[s][f] : XorbStored(x)'
  BY <1>s, <1>1, Deletions DEF Intact, XorbStored
<1> QED
  BY <1>3, <1>4 DEF Intact, Live, ShardStored, XorbStored

(* What every running pass has found intact ever since it began is intact,   *)
(* and out of reach of what is left of each of those passes.                 *)
THEOREM StableCorrect == Spec => [](TypeOK /\ StableInv)
<1>1. Init => StableInv
  BY DEF Init, HistoryInit, StableInv
<1>2. TypeOK /\ StableInv /\ [Next]_vars => StableInv'
  <2>1. TypeOK /\ StableInv /\ Next => StableInv'
    BY StableStep
  <2>2. StableInv /\ UNCHANGED vars => StableInv'
    BY DEF vars, storeVars, taskVars, history, StableInv, Running, PassAt, Intact, Live,
           ShardStored, XorbStored
  <2> QED
    BY <2>1, <2>2
<1> QED
  BY <1>1, <1>2, TypeCorrect, PTL DEF Spec

(* A file that every running pass has found intact since it began keeps its  *)
(* shard and every xorb its terms name, whatever the server's tasks do,      *)
(* until its own row changes: for any number of passes, uploads,             *)
(* registrations and deletions at once, and for every grace period.          *)
THEOREM CollectionIsSafe == Spec => GcSparesStableFiles
<1>1. ASSUME TypeOK, StableInv, [Next]_vars
      PROVE  \A f \in Files :
                (Intact(f) /\ \A p \in Running : f \in stable[p])
                  => (Intact(f)' \/ fileIndex'[f] # fileIndex[f])
  <2>1. CASE Next
    BY <1>1, <2>1, SparesStep DEF Next
  <2>2. CASE UNCHANGED vars
    BY <2>2 DEF vars, storeVars, Intact, Live, ShardStored, XorbStored
  <2> QED
    BY <1>1, <2>1, <2>2
<1> QED
  BY <1>1, StableCorrect, PTL DEF Spec, GcSparesStableFiles

-----------------------------------------------------------------------------
(* The deletion of a file and the claims of others, for any number of       *)
(* owners and of concurrent registrations and deletions.                    *)

(* A list of claims that leaves nobody when one is taken off, and that has o *)
(* on it, is o alone.                                                        *)
LEMMA LastOne ==
    ASSUME NEW S \in SUBSET Owners, NEW o \in S, Cardinality(S) - 1 = 0
    PROVE  S = {o}
<1>1. IsFiniteSet(S)
  BY OwnersAssumption, FS_Subset
<1>2. Cardinality(S) = 1
  BY <1>1, FS_CardinalityType
<1> QED
  BY <1>1, <1>2, FS_Singleton

LEMMA DelChange ==
    ASSUME TypeOK, Step, NEW t \in Deleters
    PROVE  del'[t] = del[t] \/ DelStep(t)
<1>1. CASE \E u \in Posters : Post(u)
  BY <1>1 DEF Post
<1>2. CASE \E u \in Registrars : Register(u)
  BY <1>2 DEF Register
<1>3. ASSUME NEW u \in Deleters, Delete(u), u # t
      PROVE  del'[t] = del[t]
  <2>1. DelStep(u)
    BY <1>3 DEF Delete
  <2>2. (\E r : del' = [del EXCEPT ![u] = r]) \/ del' = del
    BY <2>1 DEF DelStep, BeginDelete, UnknownFile, ReadClaims, ReleaseClaim, NoClaim,
                RemoveRow, DelAbort, DelDone, DelGoto
  <2> QED
    BY <1>3, <2>2 DEF TypeOK, DelTypeOK
<1>4. CASE \E p \in Passes : Collect(p)
  BY <1>4 DEF Collect
<1>5. CASE TimePasses
  BY <1>5 DEF TimePasses, taskVars
<1> QED
  BY <1>1, <1>2, <1>3, <1>4, <1>5 DEF Step, Delete

LEMMA HeldStep ==
    ASSUME TypeOK, TypeOK', HeldInv, Next
    PROVE  HeldInv'
<1> SUFFICES ASSUME NEW t \in Deleters
             PROVE  /\ DelAt(t, "release")' => held'[t] \subseteq del'[t].seen
                    /\ DelAt(t, "remove")'
                         => held'[t] \subseteq {del'[t].owner} \/ ClaimedLate(t)'
  BY DEF HeldInv
<1> DEFINE q == del[t]
<1>0. held'[t] = ObserveHeld(t)
  BY DEF Next, Observe
<1>1. del'[t] = del[t] \/ DelStep(t)
  BY DelChange DEF Next
<1>2. CASE del'[t] = del[t] /\ ~DelAt(t, "idle")
  <2>1. held'[t] \subseteq held[t]
    BY <1>0, <1>2 DEF ObserveHeld, Deleting, DelAt
  <2> QED
    BY <1>2, <2>1 DEF HeldInv, DelAt, ClaimedLate
<1>3. CASE del'[t] = del[t] /\ DelAt(t, "idle")
  BY <1>3 DEF DelAt
<1>4. CASE DelStep(t)
  <2>1. CASE ReadClaims(t)
    <3>1. claims' = claims /\ DelAt(t, "claims") /\ q \in DelBusy
      BY <2>1 DEF ReadClaims, storeVars, TypeOK, DelTypeOK, DelState, DelAt, DelIdle
    <3> DEFINE S == Claimants(q.file)
    <3>2. CASE del'[t] = DelIdle
      BY <3>2 DEF DelIdle, DelAt
    <3>3. CASE del'[t] # DelIdle
      <4>1. del'[t] = [q EXCEPT !.pc = IF S = {} THEN "remove" ELSE "release", !.seen = S]
        BY <2>1, <3>3 DEF ReadClaims, DelDone, TypeOK, DelTypeOK
      <4>2. /\ del'[t].owner = q.owner
            /\ del'[t].file = q.file
            /\ del'[t].seen = S
            /\ del'[t].pc = IF S = {} THEN "remove" ELSE "release"
        BY <3>1, <4>1 DEF DelBusy
      <4>3. held'[t] \subseteq S
        BY <1>0, <3>1, <4>2 DEF ObserveHeld, Deleting, DelAt, Claimants, TypeOK
      <4> QED
        BY <4>2, <4>3 DEF DelAt
    <3> QED
      BY <3>2, <3>3
  <2>2. CASE ReleaseClaim(t)
    <3>1. DelAt(t, "release") /\ q \in DelBusy /\ <<q.owner, q.file>> \in claims
      BY <2>2 DEF ReleaseClaim, TypeOK, DelTypeOK, DelState, DelAt, DelIdle
    <3>2. CASE LastClaim(t)
      <4>1. del'[t] = [q EXCEPT !.pc = "remove"]
        BY <2>2, <3>2 DEF ReleaseClaim, DelGoto, TypeOK, DelTypeOK
      <4>2. /\ del'[t].pc = "remove"
            /\ del'[t].owner = q.owner
            /\ del'[t].seen = q.seen
        BY <3>1, <4>1 DEF DelBusy
      <4>3. held'[t] \subseteq q.seen
        <5>1. held'[t] \subseteq held[t]
          BY <1>0, <3>1, <4>2 DEF ObserveHeld, Deleting, DelAt
        <5> QED
          BY <3>1, <5>1 DEF HeldInv
      <4>4. q.seen \in SUBSET Owners
        BY <3>1 DEF DelBusy
      <4>5. CASE q.owner \in q.seen
        <5>1. q.seen = {q.owner}
          BY <3>2, <4>4, <4>5, LastOne DEF LastClaim
        <5> QED
          BY <4>2, <4>3, <5>1 DEF DelAt
      <4>6. CASE q.owner \notin q.seen
        <5>1. q.seen # {}
          <6> SUFFICES ASSUME q.seen = {} PROVE FALSE
            OBVIOUS
          <6>1. Cardinality(q.seen) = 0
            BY FS_EmptySet
          <6> QED
            BY <3>2, <6>1 DEF LastClaim
        <5> QED
          BY <4>2, <4>6, <5>1 DEF DelAt, ClaimedLate
      <4> QED
        BY <4>5, <4>6
    <3>3. CASE ~LastClaim(t)
      BY <2>2, <3>3 DEF ReleaseClaim, DelDone, DelIdle, DelAt, TypeOK, DelTypeOK
    <3> QED
      BY <3>2, <3>3
  <2>3. CASE \E o \in Owners, f \in Files : BeginDelete(t, o, f)
    BY <2>3 DEF BeginDelete, DelAt, TypeOK, DelTypeOK
  <2>4. CASE \E f \in Files : UnknownFile(t, f)
    BY <2>4 DEF UnknownFile, DelAt
  <2>5. CASE NoClaim(t) \/ RemoveRow(t) \/ DelAbort(t)
    BY <2>5 DEF NoClaim, RemoveRow, DelAbort, DelDone, DelIdle, DelAt, TypeOK, DelTypeOK
  <2> QED
    BY <1>4, <2>1, <2>2, <2>3, <2>4, <2>5 DEF DelStep
<1> QED
  BY <1>1, <1>2, <1>3, <1>4

(* A deletion about to remove a row takes no claim with it that another      *)
(* owner held ever since that deletion began, unless its own sender claimed  *)
(* the file only after it had read the list.                                 *)
THEOREM RemovalIsSafe == Spec => []RemovalSparesHeldClaims
<1>1. Init => HeldInv
  BY DEF Init, DelInit, DelIdle, DelAt, HeldInv
<1>2. TypeOK /\ TypeOK' /\ HeldInv /\ [Next]_vars => HeldInv'
  <2>1. CASE UNCHANGED vars
    BY <2>1 DEF vars, taskVars, history, HeldInv, DelAt, ClaimedLate
  <2> QED
    BY <2>1, HeldStep
<1>3. HeldInv => RemovalSparesHeldClaims
  BY DEF HeldInv, RemovalSparesHeldClaims
<1> QED
  BY <1>1, <1>2, <1>3, TypeCorrect, PTL DEF Spec

-----------------------------------------------------------------------------
(* Rows and bytes.                                                          *)

(* What a registration has made sure of by the time it stands where it does: *)
(* the xorbs it has read are stored, all of them once it has validated, and  *)
(* so is the shard once rows are written.                                    *)
ReadInv(t) ==
    ~RegAt(t, "idle") =>
        /\ \A x \in TermXorbs(reg[t].shard) \ reg[t].unread : XorbStored(x)
        /\ ~RegAt(t, "validate") => reg[t].unread = {}
        /\ reg[t].pc \in {"index", "claim"} => ShardStored(reg[t].shard)

RowsInv == LiveFilesIntact /\ \A t \in Registrars : ReadInv(t)

LEMMA NothingGoes ==
    ASSUME TypeOK, Step, Running = {}
    PROVE  /\ \A x \in Xorbs : XorbStored(x) => XorbStored(x)'
           /\ \A s \in Shards : ShardStored(s) => ShardStored(s)'
<1>1. \A p \in Passes : PassAt(p, "idle")
  BY DEF Running
<1> QED
  BY <1>1, Deletions DEF DeleteXorb, DeleteShard, PassAt

(* A registration's own step: what it goes on with, it has read or written.  *)
LEMMA ReadStep ==
    ASSUME TypeOK, Step, Running = {}, NEW t \in Registrars, ReadInv(t), RegStep(t)
    PROVE  ReadInv(t)'
<1> DEFINE q == reg[t]
<1>b. ~RegAt(t, "idle") => q \in RegBusy
  BY DEF TypeOK, RegTypeOK, RegState, RegAt, RegIdle
<1>x. \A s \in Shards : TermXorbs(s) \in SUBSET Xorbs
  BY StoreAssumption DEF TermXorbs
<1>k. /\ \A x \in Xorbs : XorbStored(x) => XorbStored(x)'
      /\ \A s \in Shards : ShardStored(s) => ShardStored(s)'
  BY NothingGoes
<1>e. \A r : reg' = [reg EXCEPT ![t] = r] => reg'[t] = r
  BY DEF TypeOK, RegTypeOK
(* It is enough that the new local state is idle or keeps the shard, leaves  *)
(* nothing unread that is not stored, and has put what it indexes.           *)
<1>1. ASSUME NEW r, reg'[t] = r, r.shard \in Shards, q \in RegBusy,
             r.shard = q.shard,
             \A x \in TermXorbs(q.shard) \ r.unread : x \in q.unread => XorbStored(x),
             r.pc # "validate" => r.unread = {},
             r.pc \in {"index", "claim"} => shards'[r.shard] # Absent
      PROVE  ReadInv(t)'
  <2>1. ~RegAt(t, "idle")
    BY <1>1 DEF RegAt, RegBusy
  <2>2. \A x \in TermXorbs(q.shard) \ r.unread : XorbStored(x)'
    BY <1>1, <1>x, <1>k, <2>1 DEF ReadInv
  <2>3. TermXorbs(q.shard)' = TermXorbs(r.shard)
    BY <1>1, <2>2 DEF TermXorbs
  <2> QED
    BY <1>1, <2>2, <2>3 DEF ReadInv, RegAt, TermXorbs, ShardStored
<1>2. reg'[t] = RegIdle => ReadInv(t)'
  BY DEF ReadInv, RegAt, RegIdle
<1>3. CASE \E o \in Owners, s \in Shards : BeginRegister(t, o, s)
  <2>1. PICK o \in Owners, s \in Shards : BeginRegister(t, o, s)
    BY <1>3
  <2>2. /\ reg'[t].pc = "validate"
        /\ reg'[t].shard = s
        /\ reg'[t].unread = TermXorbs(s)
    BY <2>1, <1>e DEF BeginRegister
  <2> QED
    BY <2>2 DEF ReadInv, RegAt, TermXorbs
<1>4. CASE \E x \in Xorbs : ReadTermXorb(t, x)
  <2>1. PICK x \in Xorbs : ReadTermXorb(t, x)
    BY <1>4
  <2>2. q \in RegBusy /\ q.pc = "validate" /\ XorbStored(x)
    BY <2>1, <1>b DEF ReadTermXorb, RegAt
  <2> DEFINE r == [q EXCEPT !.unread = @ \ {x}]
  <2>3. reg'[t] = r
    BY <2>1, <1>e DEF ReadTermXorb
  <2>4. r.pc = "validate" /\ r.shard = q.shard /\ r.unread = q.unread \ {x}
    BY <2>2 DEF RegBusy
  <2>5. q.shard \in Shards
    BY <2>2 DEF RegBusy
  <2> HIDE DEF r, q
  <2> QED
    BY <1>1, <2>2, <2>3, <2>4, <2>5
<1>5. CASE \E x \in Xorbs : TermXorbMissing(t, x)
  BY <1>5, <1>2, <1>e DEF TermXorbMissing, RegDone
<1>6. CASE ShardHead(t)
  <2>1. q \in RegBusy /\ q.pc = "validate" /\ q.unread = {}
    BY <1>6, <1>b DEF ShardHead, RegAt
  <2>2. PICK c \in {"index", "put"} : /\ reg'[t] = [q EXCEPT !.pc = c]
                                      /\ c = "index" => ShardStored(q.shard)
    BY <1>6, <1>e DEF ShardHead, RegGoto
  <2> DEFINE r == [q EXCEPT !.pc = c]
  <2>3. r.pc = c /\ r.shard = q.shard /\ r.unread = {}
    BY <2>1 DEF RegBusy
  <2>4. q.shard \in Shards
    BY <2>1 DEF RegBusy
  <2>5. reg'[t] = r
    BY <2>2
  <2> HIDE DEF r, q
  <2> QED
    BY <1>1, <1>k, <2>1, <2>2, <2>3, <2>4, <2>5 DEF ShardStored
<1>7. CASE ShardPut(t)
  <2>1. q \in RegBusy /\ q.pc = "put"
    BY <1>7, <1>b DEF ShardPut, RegAt
  <2>2. q.unread = {}
    BY <2>1 DEF ReadInv, RegAt
  <2> DEFINE r == [q EXCEPT !.pc = "index"]
  <2>3. reg'[t] = r
    BY <1>7, <1>e DEF ShardPut, RegGoto
  <2>4. r.pc = "index" /\ r.shard = q.shard /\ r.unread = {}
    BY <2>1, <2>2 DEF RegBusy
  <2>5. q.shard \in Shards
    BY <2>1 DEF RegBusy
  <2>6. shards'[q.shard] # Absent
    <3>1. shards'[q.shard] = clock
      BY <1>7, <2>5 DEF ShardPut, StoreShard, TypeOK, StoreTypeOK
    <3> QED
      BY <3>1 DEF Absent, TypeOK, StoreTypeOK
  <2> HIDE DEF r, q
  <2> QED
    BY <1>1, <2>1, <2>2, <2>3, <2>4, <2>5, <2>6
<1>8. CASE \E f \in Files : IndexFile(t, f) \/ ClaimFile(t, f)
  <2>1. PICK f \in Files : IndexFile(t, f) \/ ClaimFile(t, f)
    BY <1>8
  <2>2. q \in RegBusy /\ q.pc \in {"index", "claim"}
    BY <2>1, <1>b DEF IndexFile, ClaimFile, RegAt
  <2>3. q.unread = {} /\ ShardStored(q.shard)
    BY <2>2 DEF ReadInv, RegAt
  <2>4. /\ reg'[t].shard = q.shard
        /\ reg'[t].unread = q.unread
        /\ reg'[t].pc \in {"index", "claim"}
    <3>1. CASE IndexFile(t, f)
      <4>1. reg'[t] = [q EXCEPT !.pc = "claim", !.file = {f}, !.files = @ \ {f}]
        BY <3>1, <1>e DEF IndexFile
      <4> HIDE DEF q
      <4> QED
        BY <2>2, <4>1 DEF RegBusy
    <3>2. CASE ClaimFile(t, f)
      <4>1. reg'[t] = [q EXCEPT !.pc = "index", !.file = {}]
        BY <3>2, <1>e DEF ClaimFile
      <4> HIDE DEF q
      <4> QED
        BY <2>2, <4>1 DEF RegBusy
    <3> QED
      BY <2>1, <3>1, <3>2
  <2>5. q.shard \in Shards
    BY <2>2 DEF RegBusy
  <2> HIDE DEF q
  <2> QED
    BY <1>1, <1>k, <2>2, <2>3, <2>4, <2>5 DEF ShardStored
<1>9. CASE IndexChunks(t) \/ RegAbort(t)
  BY <1>9, <1>2, <1>e DEF IndexChunks, RegAbort, RegDone
<1> QED
  BY <1>3, <1>4, <1>5, <1>6, <1>7, <1>8, <1>9 DEF RegStep

LEMMA RowsStep ==
    ASSUME TypeOK, Running = {}, RowsInv, Step
    PROVE  RowsInv'
<1>k. /\ \A x \in Xorbs : XorbStored(x) => XorbStored(x)'
      /\ \A s \in Shards : ShardStored(s) => ShardStored(s)'
  BY NothingGoes
<1>1. ASSUME NEW f \in Files, Live(f)'
      PROVE  Intact(f)'
  <2> DEFINE s == fileIndex'[f]
  <2>1. /\ s \in Shards
        /\ ShardStored(s)
        /\ \A x \in Terms[s][f] : XorbStored(x)
    <3>1. CASE fileIndex'[f] = fileIndex[f]
      BY <1>1, <3>1 DEF RowsInv, LiveFilesIntact, Live, Intact, TypeOK, StoreTypeOK
    <3>2. CASE fileIndex'[f] # fileIndex[f]
      <4>1. PICK t \in Registrars : IndexFile(t, f)
        BY <1>1, <3>2, WhoWrites DEF Live
      <4>2. reg[t] \in RegBusy /\ reg[t].pc = "index"
        BY <4>1 DEF IndexFile, RegAt, TypeOK, RegTypeOK, RegState, RegIdle
      <4>3. reg[t].shard \in Shards /\ s = reg[t].shard
        BY <4>1, <4>2 DEF IndexFile, PutFile, RegBusy, TypeOK, StoreTypeOK
      <4>4. /\ ShardStored(reg[t].shard)
            /\ \A x \in TermXorbs(reg[t].shard) : XorbStored(x)
        BY <4>2 DEF RowsInv, ReadInv, RegAt
      <4> QED
        BY <4>3, <4>4 DEF TermXorbs
    <3> QED
      BY <3>1, <3>2
  <2>2. \A x \in Terms[s][f] : x \in Xorbs
    BY <2>1, StoreAssumption
  <2> QED
    BY <1>1, <1>k, <2>1, <2>2 DEF Intact, ShardStored, XorbStored
<1>2. ASSUME NEW t \in Registrars
      PROVE  ReadInv(t)'
  <2>1. CASE RegStep(t)
    BY <2>1, ReadStep DEF RowsInv
  <2>2. CASE reg'[t] = reg[t]
    <3>1. CASE RegAt(t, "idle")
      BY <2>2, <3>1 DEF ReadInv, RegAt
    <3>2. CASE ~RegAt(t, "idle")
      <4>1. reg[t].shard \in Shards
        BY <3>2 DEF RegAt, TypeOK, RegTypeOK, RegState, RegIdle, RegBusy
      <4>2. TermXorbs(reg[t].shard) \subseteq Xorbs
        BY <4>1, StoreAssumption DEF TermXorbs
      <4>3. ReadInv(t)
        BY DEF RowsInv
      <4> QED
        BY <1>k, <2>2, <3>2, <4>1, <4>2, <4>3 DEF ReadInv, RegAt, TermXorbs
    <3> QED
      BY <3>1, <3>2
  <2> QED
    BY <2>1, <2>2, RegChange
<1> QED
  BY <1>1, <1>2 DEF RowsInv, LiveFilesIntact

(* As long as no collection runs, every row leads to a stored shard whose    *)
(* terms all name stored xorbs, for any number of uploads, registrations and *)
(* deletions at once, wherever they fail, and although a HEAD may lie.       *)
THEOREM RowsLeadToBytes == Spec /\ [](Running = {}) => []LiveFilesIntact
<1>1. Init => RowsInv
  BY DEF Init, StoreInit, RegInit, RegIdle, RegAt, Live, RowsInv, ReadInv, LiveFilesIntact
<1>2. TypeOK /\ Running = {} /\ RowsInv /\ [Next]_vars => RowsInv'
  <2>1. TypeOK /\ Running = {} /\ RowsInv /\ Next => RowsInv'
    BY RowsStep DEF Next
  <2>2. RowsInv /\ UNCHANGED vars => RowsInv'
    BY DEF vars, storeVars, taskVars, RowsInv, ReadInv, LiveFilesIntact, RegAt, Intact, Live,
           ShardStored, XorbStored
  <2> QED
    BY <2>1, <2>2
<1>3. RowsInv => LiveFilesIntact
  BY DEF RowsInv
<1> QED
  BY <1>1, <1>2, <1>3, TypeCorrect, PTL DEF Spec

-----------------------------------------------------------------------------
(* The steps of a pass, by what they do to its local state q, which becomes  *)
(* r, and to the store.                                                      *)

Begins(r) ==
    /\ UNCHANGED storeVars
    /\ r.grace \in Accepted
    /\ r.xorbs = {} /\ r.purged = {} /\ r.shards = {} /\ r.reachable = {}
    /\ \/ r.pc = "mark" /\ r.snap = fileIndex /\ r.now = 0
       \/ r.pc = "list" /\ r.now = clock

Marks(q, r) ==
    /\ UNCHANGED storeVars
    /\ q.pc = "mark"
    /\ r.grace = q.grace
    /\ r.xorbs = q.xorbs /\ r.purged = q.purged /\ r.shards = q.shards
    /\ \E s \in Shards : r.reachable \subseteq q.reachable \cup MarkedBy(q.snap, s)
    /\ \/ r.pc = "mark" /\ r.snap = q.snap /\ r.now = q.now
       \/ r.pc = "list" /\ r.now = clock

Lists(q, r) ==
    /\ UNCHANGED storeVars
    /\ q.pc = "list" /\ r.pc = "purge"
    /\ r.grace = q.grace /\ r.now = q.now
    /\ r.purged = q.purged /\ r.shards = q.shards
    /\ r.xorbs = {x \in Xorbs : /\ XorbStored(x)
                                /\ x \notin q.reachable
                                /\ ~InGrace(q.grace, q.now, xorbs[x])}

Purges(q, r, x) ==
    /\ UNCHANGED <<clock, storageVars, fileIndex>>
    /\ q.pc = "purge" /\ r.pc = "drop"
    /\ r.grace = q.grace /\ r.now = q.now /\ r.shards = q.shards
    /\ x \in q.xorbs
    /\ r.xorbs = q.xorbs \ {x} /\ r.purged = {x}

Drops(q, r, x) ==
    /\ DropXorb(x)
    /\ UNCHANGED <<clock, shards, fileIndex>>
    /\ q.pc = "drop" /\ r.pc = "purge"
    /\ r.grace = q.grace /\ r.now = q.now /\ r.shards = q.shards
    /\ x \in q.purged
    /\ r.xorbs = q.xorbs /\ r.purged = {}

Turns(q, r) ==
    /\ UNCHANGED storeVars
    /\ q.pc = "purge" /\ r.pc = "shards"
    /\ q.xorbs = {} /\ r.xorbs = {} /\ r.purged = q.purged /\ r.now = 0
    /\ r.shards \subseteq {s \in Shards : /\ ShardStored(s)
                                          /\ ~InGrace(q.grace, q.now, shards[s])}

Deletes(q, r, s) ==
    /\ DropShard(s)
    /\ UNCHANGED <<clock, xorbs, fileIndex>>
    /\ q.pc = "shards" /\ r.pc = "shards"
    /\ r.now = q.now /\ r.xorbs = q.xorbs /\ r.purged = q.purged
    /\ s \in q.shards
    /\ r.shards = q.shards \ {s}

GoesOn(q, r) ==
    \/ Marks(q, r)
    \/ Lists(q, r)
    \/ \E x \in Xorbs : Purges(q, r, x) \/ Drops(q, r, x)
    \/ Turns(q, r)
    \/ \E s \in Shards : Deletes(q, r, s)

LEMMA MarkedMarks ==
    ASSUME NEW q \in PassBusy, NEW r \in PassBusy, NEW s \in Shards,
           UNCHANGED storeVars, q.pc = "mark", r.pc = "mark", r.grace = q.grace,
           r.xorbs = q.xorbs, r.purged = q.purged, r.shards = q.shards,
           r.snap = q.snap, r.now = q.now,
           r.reachable \subseteq q.reachable \cup MarkedBy(q.snap, s)
    PROVE  Marks(q, Marked(r))
<1>1. CASE r.unread = {}
  <2> DEFINE m == [r EXCEPT !.pc = "list", !.now = clock, !.snap = NoSnap]
  <2>1. Marked(r) = m
    BY <1>1 DEF Marked
  <2>2. /\ m.pc = "list" /\ m.now = clock /\ m.grace = r.grace /\ m.xorbs = r.xorbs
        /\ m.purged = r.purged /\ m.shards = r.shards /\ m.reachable = r.reachable
    BY DEF PassBusy
  <2> HIDE DEF m
  <2> QED
    BY <2>1, <2>2 DEF Marks
<1>2. CASE r.unread # {}
  BY <1>2 DEF Marked, Marks
<1> QED
  BY <1>1, <1>2

LEMMA PassBegins ==
    ASSUME TypeOK, NEW p \in Passes, BeginPass(p)
    PROVE  Begins(pass'[p])
<1>g. PICK g \in Accepted : pass' = [pass EXCEPT ![p] = Marked(
                 [pc |-> "mark", grace |-> g, snap |-> fileIndex,
                  live |-> LiveShards, unread |-> LiveShards, reachable |-> {},
                  now |-> 0, xorbs |-> {}, purged |-> {}, shards |-> {}])]
  BY DEF BeginPass
<1> DEFINE r == [pc |-> "mark", grace |-> g, snap |-> fileIndex,
                 live |-> LiveShards, unread |-> LiveShards, reachable |-> {},
                 now |-> 0, xorbs |-> {}, purged |-> {}, shards |-> {}]
           m == [r EXCEPT !.pc = "list", !.now = clock, !.snap = NoSnap]
<1>1. pass'[p] = r \/ pass'[p] = m
  BY <1>g DEF Marked, TypeOK, PassTypeOK
<1>2. Begins(r)
  BY DEF Begins, BeginPass
<1>3. Begins(m)
  BY DEF Begins, BeginPass
<1> QED
  BY <1>1, <1>2, <1>3

LEMMA PassGoesOn ==
    ASSUME TypeOK, NEW p \in Passes, PassStep(p), p \in Running, p \in Running'
    PROVE  GoesOn(pass[p], pass'[p])
<1> DEFINE q == pass[p]
<1>b. q \in PassBusy
  BY BusyPass DEF Running, TypeOK
<1>e. \A r : pass' = [pass EXCEPT ![p] = r] => pass'[p] = r
  BY DEF TypeOK, PassTypeOK
<1>1. CASE BeginPass(p)
  BY <1>1 DEF BeginPass, Running
<1>2. CASE \E s \in Shards : ReadShard(p, s)
  <2>1. PICK s \in Shards : ReadShard(p, s)
    BY <1>2
  <2> DEFINE R == MarkedBy(q.snap, s)
             r == [q EXCEPT !.unread = @ \ {s}, !.reachable = @ \cup R]
  <2>2. pass'[p] = Marked(r) /\ q.pc = "mark" /\ UNCHANGED storeVars
    BY <2>1, <1>e DEF ReadShard, PassAt
  <2>3. R \in SUBSET Xorbs
    BY DEF MarkedBy
  <2>r. R = MarkedBy(q.snap, s)
    OBVIOUS
  <2> HIDE DEF q, R
  <2>4. r \in PassBusy
    BY <1>b, <2>3 DEF PassBusy
  <2>5. /\ r.pc = q.pc /\ r.grace = q.grace /\ r.xorbs = q.xorbs /\ r.purged = q.purged
        /\ r.shards = q.shards /\ r.snap = q.snap /\ r.now = q.now
        /\ r.reachable = q.reachable \cup R
    BY <1>b DEF PassBusy
  <2> HIDE DEF r
  <2>6. Marks(q, Marked(r))
    BY <1>b, <2>2, <2>4, <2>5, <2>r, MarkedMarks
  <2> QED
    BY <2>2, <2>6 DEF GoesOn, q
<1>3. CASE \E s \in Shards : SkipMissingShard(p, s)
  <2>1. PICK s \in Shards : SkipMissingShard(p, s)
    BY <1>3
  <2> DEFINE r == [q EXCEPT !.unread = @ \ {s}]
  <2>2. pass'[p] = Marked(r) /\ q.pc = "mark" /\ UNCHANGED storeVars
    BY <2>1, <1>e DEF SkipMissingShard, PassAt
  <2> HIDE DEF q
  <2>4. r \in PassBusy
    BY <1>b DEF PassBusy
  <2>5. /\ r.pc = q.pc /\ r.grace = q.grace /\ r.xorbs = q.xorbs /\ r.purged = q.purged
        /\ r.shards = q.shards /\ r.snap = q.snap /\ r.now = q.now
        /\ r.reachable = q.reachable
    BY <1>b DEF PassBusy
  <2> HIDE DEF r
  <2>6. Marks(q, Marked(r))
    BY <1>b, <2>2, <2>4, <2>5, MarkedMarks
  <2> QED
    BY <2>2, <2>6 DEF GoesOn, q
<1>4. CASE ListXorbs(p)
  <2> DEFINE X == {x \in Xorbs : /\ XorbStored(x)
                                 /\ x \notin q.reachable
                                 /\ ~InGrace(q.grace, q.now, xorbs[x])}
             r == [q EXCEPT !.pc = "purge", !.reachable = {}, !.xorbs = X]
  <2>1. pass'[p] = r /\ q.pc = "list" /\ UNCHANGED storeVars
    BY <1>4, <1>e DEF ListXorbs, PassAt
  <2>x. X = {x \in Xorbs : /\ XorbStored(x)
                           /\ x \notin q.reachable
                           /\ ~InGrace(q.grace, q.now, xorbs[x])}
    OBVIOUS
  <2> HIDE DEF q, X
  <2>2. /\ r.pc = "purge" /\ r.grace = q.grace /\ r.now = q.now /\ r.purged = q.purged
        /\ r.shards = q.shards /\ r.xorbs = X
    BY <1>b DEF PassBusy
  <2> HIDE DEF r
  <2>3. Lists(q, r)
    BY <2>1, <2>2, <2>x DEF Lists
  <2> QED
    BY <2>1, <2>3 DEF GoesOn, q
<1>5. CASE \E x \in Xorbs : PurgeIndex(p, x)
  <2>1. PICK x \in Xorbs : PurgeIndex(p, x)
    BY <1>5
  <2> DEFINE r == [q EXCEPT !.pc = "drop", !.purged = {x}, !.xorbs = @ \ {x}]
  <2>2. /\ pass'[p] = r /\ q.pc = "purge" /\ x \in q.xorbs
        /\ UNCHANGED <<clock, storageVars, fileIndex>>
    BY <2>1, <1>e DEF PurgeIndex, PassAt
  <2> HIDE DEF q
  <2>3. /\ r.pc = "drop" /\ r.grace = q.grace /\ r.now = q.now /\ r.shards = q.shards
        /\ r.purged = {x} /\ r.xorbs = q.xorbs \ {x}
    BY <1>b DEF PassBusy
  <2> HIDE DEF r
  <2>4. Purges(q, r, x)
    BY <2>2, <2>3 DEF Purges
  <2> QED
    BY <2>2, <2>4 DEF GoesOn, q
<1>6. CASE \E x \in Xorbs : DeleteXorb(p, x)
  <2>1. PICK x \in Xorbs : DeleteXorb(p, x)
    BY <1>6
  <2> DEFINE r == [q EXCEPT !.pc = "purge", !.purged = {}]
  <2>2. /\ pass'[p] = r /\ q.pc = "drop" /\ x \in q.purged /\ DropXorb(x)
        /\ UNCHANGED <<clock, shards, fileIndex>>
    BY <2>1, <1>e DEF DeleteXorb, PassAt, indexVars
  <2> HIDE DEF q
  <2>3. /\ r.pc = "purge" /\ r.grace = q.grace /\ r.now = q.now /\ r.shards = q.shards
        /\ r.purged = {} /\ r.xorbs = q.xorbs
    BY <1>b DEF PassBusy
  <2> HIDE DEF r
  <2>4. Drops(q, r, x)
    BY <2>2, <2>3 DEF Drops
  <2> QED
    BY <2>2, <2>4 DEF GoesOn, q
<1>7. CASE ListShards(p)
  <2> DEFINE S == {s \in Shards : /\ ShardStored(s)
                                  /\ s \notin q.live
                                  /\ ~InGrace(q.grace, q.now, shards[s])}
             r == [q EXCEPT !.pc = "shards", !.live = {}, !.grace = 0, !.now = 0, !.shards = S]
  <2>1. pass'[p] = r /\ q.pc = "purge" /\ q.xorbs = {} /\ UNCHANGED storeVars
    BY <1>7, <1>e DEF ListShards, PassAt
  <2>2. S \subseteq {s \in Shards : /\ ShardStored(s)
                                    /\ ~InGrace(q.grace, q.now, shards[s])}
    OBVIOUS
  <2> HIDE DEF q, S
  <2>3. /\ r.pc = "shards" /\ r.xorbs = q.xorbs /\ r.purged = q.purged /\ r.now = 0
        /\ r.shards = S
    BY <1>b DEF PassBusy
  <2> HIDE DEF r
  <2>4. Turns(q, r)
    BY <2>1, <2>2, <2>3 DEF Turns
  <2> QED
    BY <2>1, <2>4 DEF GoesOn, q
<1>8. CASE \E s \in Shards : DeleteShard(p, s)
  <2>1. PICK s \in Shards : DeleteShard(p, s)
    BY <1>8
  <2> DEFINE r == [q EXCEPT !.shards = @ \ {s}]
  <2>2. /\ pass'[p] = r /\ q.pc = "shards" /\ s \in q.shards /\ DropShard(s)
        /\ UNCHANGED <<clock, xorbs, fileIndex>>
    BY <2>1, <1>e DEF DeleteShard, PassAt, indexVars
  <2> HIDE DEF q
  <2>3. /\ r.pc = q.pc /\ r.now = q.now /\ r.xorbs = q.xorbs /\ r.purged = q.purged
        /\ r.shards = q.shards \ {s}
    BY <1>b DEF PassBusy
  <2> HIDE DEF r
  <2>4. Deletes(q, r, s)
    BY <2>2, <2>3 DEF Deletes
  <2> QED
    BY <2>2, <2>4 DEF GoesOn, q
<1>9. CASE EndPass(p) \/ AbortPass(p)
  <2>1. pass'[p] = PassIdle
    BY <1>9, <1>e DEF EndPass, AbortPass, PassDone
  <2> QED
    BY <2>1 DEF PassIdle, PassAt, Running
<1> QED
  BY <1>1, <1>2, <1>3, <1>4, <1>5, <1>6, <1>7, <1>8, <1>9 DEF PassStep, PassProgress

-----------------------------------------------------------------------------
(* All that was garbage is swept.                                           *)

(* A pass deletes a xorb's blob before it purges the index of the next.      *)
OneAtATime(q) ==
    IF q.pc = "drop" THEN \E x \in Xorbs : q.purged = {x}
                     ELSE q.pc # "idle" => q.purged = {}

(* What keeps a xorb that no live file has named since pass q began on its   *)
(* way out: no shard of the snapshot marks it, it is past grace at the time  *)
(* of the listing, and it stays listed until its blob is gone.               *)
SweptBy(q, x) ==
    /\ q.pc = "mark" => /\ \A s \in Shards : x \notin MarkedBy(q.snap, s)
                        /\ XorbStored(x) => ~InGrace(q.grace, clock, xorbs[x])
    /\ q.pc = "list" => (XorbStored(x) => ~InGrace(q.grace, q.now, xorbs[x]))
    /\ q.pc \in {"mark", "list"} => x \notin q.reachable
    /\ q.pc \in {"purge", "drop"} => (XorbStored(x) => x \in q.xorbs \cup q.purged)
    /\ q.pc = "shards" => ~XorbStored(x)

GarbageInv ==
    \A p \in Passes :
        /\ OneAtATime(pass[p])
        /\ \A x \in garbage[p] : p \in Running /\ ~Referenced(x) /\ SweptBy(pass[p], x)

LEMMA Begun ==
    ASSUME TypeOK, Step, NEW p \in Passes, p \notin Running, p \in Running'
    PROVE  Begins(pass'[p])
<1>1. pass'[p] # pass[p]
  BY DEF Running, PassAt
<1>2. BeginPass(p)
  BY <1>1, PassChange DEF Running, PassAt, PassStep, PassProgress, ReadShard,
     SkipMissingShard, ListXorbs, PurgeIndex, DeleteXorb, ListShards, DeleteShard,
     EndPass, AbortPass
<1> QED
  BY <1>2, PassBegins

LEMMA TimeGoesOn ==
    ASSUME TypeOK, Step
    PROVE  clock \in Nat /\ clock' \in Nat /\ clock <= clock'
  BY WhoWrites DEF TimePasses, Tick, TypeOK, StoreTypeOK

LEMMA OneAtATimeStep ==
    ASSUME TypeOK, Step, NEW p \in Passes, OneAtATime(pass[p])
    PROVE  OneAtATime(pass'[p])
<1>1. CASE pass'[p] = pass[p]
  BY <1>1
<1>2. CASE p \notin Running'
  BY <1>2 DEF Running, PassAt, OneAtATime
<1>3. CASE p \in Running' /\ p \notin Running
  BY <1>3, Begun DEF Begins, OneAtATime
<1>4. CASE p \in Running' /\ p \in Running /\ PassStep(p)
  <2> DEFINE q == pass[p]
             r == pass'[p]
  <2>1. GoesOn(q, r)
    BY <1>4, PassGoesOn
  <2> HIDE DEF q, r
  <2>2. OneAtATime(q) => OneAtATime(r)
    BY <2>1 DEF GoesOn, Marks, Lists, Purges, Drops, Turns, Deletes, OneAtATime
  <2> QED
    BY <2>2 DEF q, r
<1> QED
  BY <1>1, <1>2, <1>3, <1>4, PassChange

(* Every step of a pass that is under way takes the garbage one step on.     *)
LEMMA SweptStep ==
    ASSUME TypeOK, Step, NEW p \in Passes, PassStep(p), p \in Running, p \in Running',
           NEW x \in Xorbs, OneAtATime(pass[p]), SweptBy(pass[p], x),
           xorbs'[x] \in {xorbs[x], Absent}
    PROVE  SweptBy(pass[p], x)'
<1> DEFINE q == pass[p]
           r == pass'[p]
<1>1. GoesOn(q, r)
  BY PassGoesOn
<1>2. OneAtATime(q) /\ SweptBy(q, x)
  OBVIOUS
<1>3. XorbStored(x)' => XorbStored(x) /\ xorbs'[x] = xorbs[x]
  BY DEF XorbStored
<1>t. clock \in Nat /\ clock' \in Nat /\ clock <= clock'
  BY TimeGoesOn
<1> SUFFICES /\ r.pc = "mark" => /\ \A s \in Shards : x \notin MarkedBy(r.snap, s)
                                 /\ XorbStored(x)' => ~InGrace(r.grace, clock', xorbs'[x])
             /\ r.pc = "list" => (XorbStored(x)' => ~InGrace(r.grace, r.now, xorbs'[x]))
             /\ r.pc \in {"mark", "list"} => x \notin r.reachable
             /\ r.pc \in {"purge", "drop"} => (XorbStored(x)' => x \in r.xorbs \cup r.purged)
             /\ r.pc = "shards" => ~XorbStored(x)'
  BY DEF SweptBy, MarkedBy, InGrace
<1> HIDE DEF q, r
<1>4. CASE Marks(q, r)
  BY <1>2, <1>3, <1>4 DEF Marks, SweptBy, storeVars
<1>5. CASE Lists(q, r)
  BY <1>2, <1>3, <1>5 DEF Lists, SweptBy
<1>6. ASSUME NEW y \in Xorbs, Purges(q, r, y)
      PROVE  r.pc = "drop" /\ (XorbStored(x)' => x \in r.xorbs \cup r.purged)
  BY <1>2, <1>3, <1>6 DEF Purges, SweptBy, OneAtATime
<1>7. ASSUME NEW y \in Xorbs, Drops(q, r, y)
      PROVE  r.pc = "purge" /\ (XorbStored(x)' => x \in r.xorbs \cup r.purged)
  <2>1. q.purged = {y}
    BY <1>2, <1>7 DEF Drops, OneAtATime
  <2>2. x = y => ~XorbStored(x)'
    BY <1>7 DEF Drops, DropXorb, XorbStored, TypeOK, StoreTypeOK
  <2> QED
    BY <1>2, <1>3, <1>7, <2>1, <2>2 DEF Drops, SweptBy
<1>8. CASE Turns(q, r)
  BY <1>2, <1>3, <1>8 DEF Turns, SweptBy, OneAtATime
<1>9. ASSUME NEW s \in Shards, Deletes(q, r, s)
      PROVE  r.pc = "shards" /\ ~XorbStored(x)'
  BY <1>2, <1>3, <1>9 DEF Deletes, SweptBy
<1> QED
  BY <1>1, <1>4, <1>5, <1>6, <1>7, <1>8, <1>9 DEF GoesOn

LEMMA GarbageStep ==
    ASSUME TypeOK, GarbageInv, Next
    PROVE  GarbageInv'
<1>s. Step
  BY DEF Next
<1>1. ASSUME NEW p \in Passes
      PROVE  OneAtATime(pass'[p])
  BY <1>s, OneAtATimeStep DEF GarbageInv
<1>2. ASSUME NEW p \in Passes, NEW x \in garbage'[p]
      PROVE  p \in Running' /\ ~Referenced(x)' /\ SweptBy(pass[p], x)'
  <2>0. x \in ObserveGarbage(p)
    BY <1>2 DEF Next, Observe
  <2>1. p \in Running' /\ ~Referenced(x)'
    BY <2>0 DEF ObserveGarbage, Collectable
  <2>2. CASE p \in Running
    <3>1. x \in garbage[p] /\ xorbs'[x] \in {xorbs[x], Absent}
      BY <2>0, <2>1, <2>2 DEF ObserveGarbage
    <3>2. x \in Xorbs /\ OneAtATime(pass[p]) /\ SweptBy(pass[p], x)
      BY <3>1 DEF GarbageInv, TypeOK
    <3>3. CASE PassStep(p)
      BY <1>s, <2>1, <2>2, <3>1, <3>2, <3>3, SweptStep
    <3>4. CASE pass'[p] = pass[p]
      <4>1. clock \in Nat /\ clock' \in Nat /\ clock <= clock'
        BY <1>s, TimeGoesOn
      <4>2. XorbStored(x)' => XorbStored(x) /\ xorbs'[x] = xorbs[x] /\ xorbs[x] \in Nat
        BY <3>1, <3>2 DEF XorbStored, TypeOK, StoreTypeOK
      <4>3. pass[p].grace \in Nat
        BY <2>2, BusyPass DEF Running, TypeOK, PassBusy
      <4> QED
        BY <2>1, <3>2, <3>4, <4>1, <4>2, <4>3 DEF SweptBy, InGrace, MarkedBy
    <3> QED
      BY <1>s, <2>1, <3>3, <3>4, PassChange
  <2>3. CASE p \notin Running
    <3> DEFINE r == pass'[p]
    <3>1. Begins(r)
      BY <1>s, <2>1, <2>3, Begun
    <3>2. x \in Xorbs /\ Collectable(p, x)'
      BY <2>0, <2>1, <2>3 DEF ObserveGarbage
    <3>3. XorbStored(x)' /\ ~InGrace(r.grace, clock', xorbs'[x])
      BY <3>2 DEF Collectable, InGrace
    <3>4. \A s \in Shards : x \notin MarkedBy(fileIndex, s)
      <4>1. fileIndex' = fileIndex
        BY <3>1 DEF Begins, storeVars
      <4> QED
        BY <2>1, <4>1 DEF MarkedBy, Referenced, Live
    <3>5. clock' = clock
      BY <3>1 DEF Begins, storeVars
    <3> HIDE DEF r
    <3>6. /\ r.pc = "mark" => \A s \in Shards : x \notin MarkedBy(r.snap, s)
          /\ r.pc = "list" => r.now = clock'
          /\ x \notin r.reachable
          /\ r.pc \in {"mark", "list"}
      BY <3>1, <3>4, <3>5 DEF Begins
    <3> QED
      BY <2>1, <3>3, <3>6 DEF SweptBy, InGrace, MarkedBy, r
  <2> QED
    BY <2>2, <2>3
<1> QED
  BY <1>1, <1>2 DEF GarbageInv, OneAtATime

(* A pass that has come to its last sweep has deleted every xorb that no     *)
(* live file named, and that was past the pass's grace, from the moment the  *)
(* pass read the root set: for any number of passes, uploads, registrations  *)
(* and deletions at once, and for every grace period.                        *)
THEOREM GarbageIsSwept == Spec => []SweptGarbageGone
<1>1. Init => GarbageInv
  BY DEF Init, HistoryInit, PassInit, PassIdle, GarbageInv, OneAtATime
<1>2. TypeOK /\ GarbageInv /\ [Next]_vars => GarbageInv'
  <2>1. TypeOK /\ GarbageInv /\ Next => GarbageInv'
    BY GarbageStep
  <2>2. GarbageInv /\ UNCHANGED vars => GarbageInv'
    BY DEF vars, storeVars, taskVars, history, GarbageInv, OneAtATime, SweptBy, Running,
           PassAt, Referenced, Live, XorbStored, InGrace, MarkedBy
  <2> QED
    BY <2>1, <2>2
<1>3. GarbageInv => SweptGarbageGone
  BY DEF GarbageInv, SweptBy, SweptGarbageGone, PassAt
<1> QED
  BY <1>1, <1>2, <1>3, TypeCorrect, PTL DEF Spec

-----------------------------------------------------------------------------
(* Nothing young is deleted.                                                *)

(* One collection at a time, and no two uploads of one object at once.       *)
NoRivals ==
    /\ \A p, q \in Running : p = q
    /\ \A t, u \in Posters :
          (~PostAt(t, "idle") /\ ~PostAt(u, "idle") /\ post[t].xorb = post[u].xorb) => t = u
    /\ \A t, u \in Registrars :
          (~RegAt(t, "idle") /\ ~RegAt(u, "idle") /\ reg[t].shard = reg[u].shard) => t = u

(* What a task is about to write is not there.                               *)
PutInv ==
    /\ \A t \in Posters : PostAt(t, "put") => ~XorbStored(post[t].xorb)
    /\ \A t \in Registrars : RegAt(t, "put") => ~ShardStored(reg[t].shard)

Old(written) == written # Absent /\ clock - written >= MinGrace

(* What a pass has listed for deletion is still stored, as old as the floor  *)
(* demands, and listed once.                                                 *)
ListedBy(q) ==
    /\ q.now <= clock
    /\ q.pc # "shards" => q.grace >= MinGrace /\ q.shards = {}
    /\ q.pc \in {"mark", "list"} => q.xorbs = {} /\ q.purged = {}
    /\ q.purged \cap q.xorbs = {}
    /\ \A x \in q.xorbs \cup q.purged : Old(xorbs[x])
    /\ \A s \in q.shards : Old(shards[s])

ListedInv == \A p \in Running : ListedBy(pass[p])

(* A stored object is not written again; it can only be deleted.             *)
LEMMA Unwritten ==
    ASSUME TypeOK, PutInv, Step
    PROVE  /\ \A x \in Xorbs : XorbStored(x) /\ xorbs'[x] # xorbs[x]
                => \E p \in Running : DeleteXorb(p, x)
           /\ \A s \in Shards : ShardStored(s) /\ shards'[s] # shards[s]
                => \E p \in Running : DeleteShard(p, s)
<1>1. \A t \in Posters : PostPut(t) => ~XorbStored(post[t].xorb)
  BY DEF PutInv, PostPut
<1>2. \A t \in Registrars : ShardPut(t) => ~ShardStored(reg[t].shard)
  BY DEF PutInv, ShardPut
<1>3. \A p \in Passes : /\ \A x \in Xorbs : DeleteXorb(p, x) => p \in Running
                        /\ \A s \in Shards : DeleteShard(p, s) => p \in Running
  BY DEF DeleteXorb, DeleteShard, Running, PassAt
<1> QED
  BY <1>1, <1>2, <1>3, WhoWrites

LEMMA PutStep ==
    ASSUME HeadsFail = FALSE, TypeOK, NoRivals, PutInv, Step
    PROVE  PutInv'
<1>1. ASSUME NEW t \in Posters, PostAt(t, "put")'
      PROVE  ~XorbStored(post[t].xorb)'
  <2>1. CASE post'[t] = post[t]
    <3> DEFINE x == post[t].xorb
    <3>1. PostAt(t, "put") /\ x \in Xorbs /\ ~XorbStored(x)
      BY <1>1, <2>1 DEF PutInv, PostAt, TypeOK, PostTypeOK, PostState, PostIdle, PostBusy
    <3>2. ASSUME NEW u \in Posters, PostPut(u), post[u].xorb = x PROVE FALSE
      <4>1. u = t
        BY <3>1, <3>2 DEF NoRivals, PostPut, PostAt
      <4>2. post' = [post EXCEPT ![t].pc = "index"]
        BY <3>2, <4>1 DEF PostPut, PostGoto
      <4>3. post[t] \in PostBusy
        BY <3>1 DEF PostAt, TypeOK, PostTypeOK, PostState, PostIdle
      <4>4. post'[t].pc = "index"
        BY <4>2, <4>3 DEF PostBusy, TypeOK, PostTypeOK
      <4> QED
        BY <1>1, <4>4 DEF PostAt
    <3>3. xorbs'[x] # xorbs[x] => \E p \in Passes : DeleteXorb(p, x)
      BY <3>1, <3>2, WhoWrites
    <3>4. \A p \in Passes : DeleteXorb(p, x) => xorbs'[x] = Absent
      BY <3>1 DEF DeleteXorb, DropXorb, TypeOK, StoreTypeOK
    <3> QED
      BY <2>1, <3>1, <3>3, <3>4 DEF XorbStored
  <2>2. CASE PostStep(t) /\ post'[t] # post[t]
    <3>1. PostHead(t)
      BY <1>1, <2>2 DEF PostStep, BeginPost, PostAlreadyStored, PostPut, PostIndex,
         PostLayout, PostAbort, PostAt, PostGoto, PostDone, PostIdle, TypeOK, PostTypeOK,
         PostState, PostBusy
    <3>2. post[t] \in PostBusy /\ UNCHANGED storeVars
      BY <3>1 DEF PostHead, PostAt, TypeOK, PostTypeOK, PostState, PostIdle
    <3>3. PICK c \in {"index", "put"} :
            /\ post' = [post EXCEPT ![t].pc = c]
            /\ c = "put" => ~XorbStored(post[t].xorb)
      BY <3>1 DEF PostHead, PostGoto, MayLookAbsent
    <3>4. post'[t].pc = c /\ post'[t].xorb = post[t].xorb
      BY <3>2, <3>3 DEF PostBusy, TypeOK, PostTypeOK
    <3> QED
      BY <1>1, <3>2, <3>3, <3>4 DEF PostAt, XorbStored, storeVars
  <2> QED
    BY <2>1, <2>2, PostChange
<1>2. ASSUME NEW t \in Registrars, RegAt(t, "put")'
      PROVE  ~ShardStored(reg[t].shard)'
  <2>1. CASE reg'[t] = reg[t]
    <3> DEFINE s == reg[t].shard
    <3>1. RegAt(t, "put") /\ s \in Shards /\ ~ShardStored(s)
      BY <1>2, <2>1 DEF PutInv, RegAt, TypeOK, RegTypeOK, RegState, RegIdle, RegBusy
    <3>2. ASSUME NEW u \in Registrars, ShardPut(u), reg[u].shard = s PROVE FALSE
      <4>1. u = t
        BY <3>1, <3>2 DEF NoRivals, ShardPut, RegAt
      <4>2. reg' = [reg EXCEPT ![t].pc = "index"]
        BY <3>2, <4>1 DEF ShardPut, RegGoto
      <4>3. reg[t] \in RegBusy
        BY <3>1 DEF RegAt, TypeOK, RegTypeOK, RegState, RegIdle
      <4>4. reg'[t].pc = "index"
        BY <4>2, <4>3 DEF RegBusy, TypeOK, RegTypeOK
      <4> QED
        BY <1>2, <4>4 DEF RegAt
    <3>3. shards'[s] # shards[s] => \E p \in Passes : DeleteShard(p, s)
      BY <3>1, <3>2, WhoWrites
    <3>4. \A p \in Passes : DeleteShard(p, s) => shards'[s] = Absent
      BY <3>1 DEF DeleteShard, DropShard, TypeOK, StoreTypeOK
    <3> QED
      BY <2>1, <3>1, <3>3, <3>4 DEF ShardStored
  <2>2. CASE RegStep(t) /\ reg'[t] # reg[t]
    <3>b. ~RegAt(t, "idle") => reg[t] \in RegBusy
      BY DEF RegAt, TypeOK, RegTypeOK, RegState, RegIdle
    <3>1. ShardHead(t)
      <4>1. ASSUME NEW r, reg' = [reg EXCEPT ![t] = r], r.pc # "put" PROVE FALSE
        BY <1>2, <4>1 DEF RegAt, TypeOK, RegTypeOK
      <4>i. RegIdle.pc # "put"
        BY DEF RegIdle
      <4>2. ASSUME NEW o \in Owners, NEW s \in Shards, BeginRegister(t, o, s) PROVE FALSE
        <5> DEFINE r == [pc |-> "validate", owner |-> o, shard |-> s,
                         unread |-> TermXorbs(s), files |-> FilesOf(s), file |-> {}]
        <5>1. r.pc # "put"
          OBVIOUS
        <5> HIDE DEF r
        <5> QED
          BY <4>1, <4>2, <5>1 DEF BeginRegister, r
      <4>3. ASSUME NEW x \in Xorbs, ReadTermXorb(t, x) PROVE FALSE
        <5>1. reg[t] \in RegBusy /\ reg[t].pc = "validate"
          BY <3>b, <4>3 DEF ReadTermXorb, RegAt
        <5>2. reg'[t].pc = "validate"
          BY <4>3, <5>1 DEF ReadTermXorb, RegBusy, TypeOK, RegTypeOK
        <5> QED
          BY <1>2, <5>2 DEF RegAt
      <4>4. ASSUME NEW x \in Xorbs, TermXorbMissing(t, x) PROVE FALSE
        BY <4>1, <4>i, <4>4 DEF TermXorbMissing, RegDone
      <4>5. ASSUME ShardPut(t) PROVE FALSE
        <5>1. reg[t] \in RegBusy
          BY <3>b, <4>5 DEF ShardPut, RegAt
        <5>2. reg'[t].pc = "index"
          BY <4>5, <5>1 DEF ShardPut, RegGoto, RegBusy, TypeOK, RegTypeOK
        <5> QED
          BY <1>2, <5>2 DEF RegAt
      <4>6. ASSUME NEW f \in Files, IndexFile(t, f) PROVE FALSE
        <5> DEFINE r == [reg[t] EXCEPT !.pc = "claim", !.file = {f}, !.files = @ \ {f}]
        <5>1. reg[t] \in RegBusy
          BY <3>b, <4>6 DEF IndexFile, RegAt
        <5>2. r.pc = "claim"
          BY <5>1 DEF RegBusy
        <5> HIDE DEF r
        <5> QED
          BY <4>1, <4>6, <5>2 DEF IndexFile, r
      <4>7. ASSUME NEW f \in Files, ClaimFile(t, f) PROVE FALSE
        <5> DEFINE r == [reg[t] EXCEPT !.pc = "index", !.file = {}]
        <5>1. reg[t] \in RegBusy
          BY <3>b, <4>7 DEF ClaimFile, RegAt
        <5>2. r.pc = "index"
          BY <5>1 DEF RegBusy
        <5> HIDE DEF r
        <5> QED
          BY <4>1, <4>7, <5>2 DEF ClaimFile, r
      <4>8. ASSUME IndexChunks(t) \/ RegAbort(t) PROVE FALSE
        BY <4>1, <4>i, <4>8 DEF IndexChunks, RegAbort, RegDone
      <4> QED
        BY <2>2, <4>2, <4>3, <4>4, <4>5, <4>6, <4>7, <4>8 DEF RegStep
    <3>2. reg[t] \in RegBusy /\ UNCHANGED storeVars
      BY <3>1, <3>b DEF ShardHead, RegAt
    <3>3. PICK c \in {"index", "put"} :
            /\ reg' = [reg EXCEPT ![t].pc = c]
            /\ c = "put" => ~ShardStored(reg[t].shard)
      BY <3>1 DEF ShardHead, RegGoto, MayLookAbsent
    <3>4. reg'[t].pc = c /\ reg'[t].shard = reg[t].shard
      BY <3>2, <3>3 DEF RegBusy, TypeOK, RegTypeOK
    <3> QED
      BY <1>2, <3>2, <3>3, <3>4 DEF RegAt, ShardStored, storeVars
  <2> QED
    BY <2>1, <2>2, RegChange
<1> QED
  BY <1>1, <1>2 DEF PutInv, PostAt, RegAt

LEMMA OlderStill ==
    ASSUME NEW a \in Nat, NEW b \in Nat, a <= b, NEW w \in Int, NEW m \in Nat, a - w >= m
    PROVE  b - w >= m
  OBVIOUS

(* One step of pass p itself.                                                *)
LEMMA ListedGoesOn ==
    ASSUME TypeOK, Step, NEW p \in Passes, PassStep(p), p \in Running, p \in Running',
           ListedBy(pass[p])
    PROVE  ListedBy(pass[p])'
<1> DEFINE q == pass[p]
           r == pass'[p]
           OldNext(w) == w # Absent /\ clock' - w >= MinGrace
<1>1. GoesOn(q, r)
  BY PassGoesOn
<1>2. ListedBy(q)
  OBVIOUS
<1>t. clock \in Nat /\ clock' \in Nat /\ clock <= clock' /\ MinGrace \in Nat
  BY TimeGoesOn
<1>y. /\ xorbs \in [Xorbs -> Nat \cup {Absent}]
      /\ shards \in [Shards -> Nat \cup {Absent}]
  BY DEF TypeOK, StoreTypeOK
<1>z. /\ q.grace \in Nat /\ q.now \in Nat
      /\ q.xorbs \subseteq Xorbs /\ q.purged \subseteq Xorbs /\ q.shards \subseteq Shards
  BY BusyPass DEF Running, TypeOK, PassBusy
<1> SUFFICES /\ r.now <= clock'
             /\ r.pc # "shards" => r.grace >= MinGrace /\ r.shards = {}
             /\ r.pc \in {"mark", "list"} => r.xorbs = {} /\ r.purged = {}
             /\ r.purged \cap r.xorbs = {}
             /\ \A x \in r.xorbs \cup r.purged : OldNext(xorbs'[x])
             /\ \A s \in r.shards : OldNext(shards'[s])
  BY DEF ListedBy, Old
<1> HIDE DEF q, r
<1>k. ASSUME NEW w \in Int, Old(w)
      PROVE  OldNext(w)
  <2>1. w # Absent /\ clock - w >= MinGrace
    BY <1>k DEF Old
  <2>2. clock' - w >= MinGrace
    BY <1>t, <2>1, OlderStill
  <2> QED
    BY <2>1, <2>2
<1>w. /\ \A x \in Xorbs : xorbs[x] \in Int
      /\ \A s \in Shards : shards[s] \in Int
  BY <1>y DEF Absent
<1>3. CASE Marks(q, r)
  BY <1>2, <1>3, <1>t DEF Marks, ListedBy, storeVars
<1>4. CASE Lists(q, r)
  <2>1. q.grace >= MinGrace /\ q.now <= clock /\ q.purged = {} /\ q.shards = {}
    BY <1>2, <1>4 DEF Lists, ListedBy
  <2>2. \A x \in r.xorbs : Old(xorbs[x])
    BY <1>4, <1>t, <1>w, <1>z, <2>1 DEF Lists, XorbStored, InGrace, Old
  <2>3. /\ r.pc = "purge" /\ r.now = q.now /\ r.grace = q.grace /\ r.purged = {}
        /\ r.shards = {} /\ r.xorbs \subseteq Xorbs /\ xorbs' = xorbs /\ clock' = clock
    BY <1>4, <2>1 DEF Lists, storeVars
  <2> HIDE DEF OldNext
  <2> QED
    BY <1>k, <1>w, <2>1, <2>2, <2>3
<1>5. ASSUME NEW x \in Xorbs, Purges(q, r, x)
      PROVE  /\ r.pc = "drop" /\ r.now <= clock' /\ r.grace >= MinGrace /\ r.shards = {}
             /\ r.purged \cap r.xorbs = {}
             /\ \A y \in r.xorbs \cup r.purged : OldNext(xorbs'[y])
  BY <1>2, <1>5 DEF Purges, ListedBy, Old, storageVars
<1>6. ASSUME NEW x \in Xorbs, Drops(q, r, x)
      PROVE  /\ r.pc = "purge" /\ r.now <= clock' /\ r.grace >= MinGrace /\ r.shards = {}
             /\ r.purged = {}
             /\ \A y \in r.xorbs : OldNext(xorbs'[y])
  <2>1. x \notin q.xorbs /\ r.xorbs = q.xorbs
    BY <1>2, <1>6 DEF Drops, ListedBy
  <2>2. \A y \in q.xorbs : xorbs'[y] = xorbs[y]
    BY <1>6, <1>y, <1>z, <2>1 DEF Drops, DropXorb
  <2> QED
    BY <1>2, <1>6, <2>1, <2>2 DEF Drops, ListedBy, Old
<1>7. CASE Turns(q, r)
  <2>1. q.grace >= MinGrace /\ q.now <= clock
    BY <1>2, <1>7 DEF Turns, ListedBy
  <2>2. \A s \in r.shards : s \in Shards /\ Old(shards[s])
    BY <1>7, <1>t, <1>w, <1>z, <2>1 DEF Turns, ShardStored, InGrace, Old
  <2>3. /\ r.pc = "shards" /\ r.xorbs = {} /\ r.now = 0 /\ r.purged = q.purged
        /\ xorbs' = xorbs /\ shards' = shards /\ clock' = clock
    BY <1>7 DEF Turns, storeVars
  <2>4. \A x \in q.purged : Old(xorbs[x])
    BY <1>2 DEF ListedBy
  <2> HIDE DEF OldNext
  <2> QED
    BY <1>k, <1>t, <1>w, <1>z, <2>2, <2>3, <2>4
<1>8. ASSUME NEW s \in Shards, Deletes(q, r, s)
      PROVE  /\ r.pc = "shards" /\ r.now <= clock' /\ r.purged \cap r.xorbs = {}
             /\ \A x \in r.xorbs \cup r.purged : OldNext(xorbs'[x])
             /\ \A u \in r.shards : OldNext(shards'[u])
  <2>1. \A u \in r.shards : u \in q.shards /\ shards'[u] = shards[u]
    BY <1>8, <1>y, <1>z DEF Deletes, DropShard
  <2> QED
    BY <1>2, <1>8, <2>1 DEF Deletes, ListedBy, Old
<1> HIDE DEF OldNext
<1> QED
  BY <1>1, <1>3, <1>4, <1>5, <1>6, <1>7, <1>8 DEF GoesOn

LEMMA ListedStep ==
    ASSUME TypeOK, NoRivals, PutInv, ListedInv, Step
    PROVE  ListedInv'
<1> SUFFICES ASSUME NEW p \in Running'
             PROVE  ListedBy(pass[p])'
  BY DEF ListedInv
<1>p. p \in Passes
  BY DEF Running
<1>t. clock \in Nat /\ clock' \in Nat /\ clock <= clock' /\ MinGrace \in Nat
  BY TimeGoesOn
<1>1. CASE p \in Running /\ PassStep(p)
  BY <1>p, <1>1, ListedGoesOn DEF ListedInv
<1>2. CASE p \in Running /\ pass'[p] = pass[p]
  <2> DEFINE q == pass[p]
  <2>1. ListedBy(q)
    BY <1>2 DEF ListedInv
  <2>2. /\ q.now \in Nat /\ q.xorbs \subseteq Xorbs /\ q.purged \subseteq Xorbs
        /\ q.shards \subseteq Shards
    BY <1>p, <1>2, BusyPass DEF Running, TypeOK, PassBusy
  <2>3. \A o \in Running : o = p
    BY <1>2 DEF NoRivals
  <2>4. /\ \A x \in Xorbs : ~DeleteXorb(p, x)
        /\ \A s \in q.shards : ~DeleteShard(p, s)
    <3>1. ASSUME NEW x \in Xorbs, DeleteXorb(p, x) PROVE FALSE
      <4>1. q \in PassBusy /\ q.pc = "drop"
        BY <1>p, <1>2, <3>1, BusyPass DEF DeleteXorb, PassAt, Running, TypeOK
      <4>2. pass'[p] = [q EXCEPT !.pc = "purge", !.purged = {}]
        BY <1>p, <3>1 DEF DeleteXorb, TypeOK, PassTypeOK
      <4> HIDE DEF q
      <4>3. [q EXCEPT !.pc = "purge", !.purged = {}].pc = "purge"
        BY <4>1 DEF PassBusy
      <4> QED
        BY <1>2, <4>1, <4>2, <4>3 DEF q
    <3>2. ASSUME NEW s \in q.shards, DeleteShard(p, s) PROVE FALSE
      <4>1. q \in PassBusy
        BY <1>p, <1>2, BusyPass DEF Running, TypeOK
      <4>2. pass'[p].shards = q.shards \ {s}
        BY <1>p, <3>2, <4>1 DEF DeleteShard, TypeOK, PassTypeOK, PassBusy
      <4> QED
        BY <1>2, <3>2, <4>2
    <3> QED
      BY <3>1, <3>2
  <2>5. \A x \in q.xorbs \cup q.purged : xorbs'[x] = xorbs[x] /\ xorbs[x] \in Int
    BY <2>1, <2>2, <2>3, <2>4, Unwritten
    DEF ListedBy, Old, XorbStored, TypeOK, StoreTypeOK, Absent
  <2>6. \A s \in q.shards : shards'[s] = shards[s] /\ shards[s] \in Int
    BY <2>1, <2>2, <2>3, <2>4, Unwritten
    DEF ListedBy, Old, ShardStored, TypeOK, StoreTypeOK, Absent
  <2> QED
    BY <1>2, <1>t, <2>1, <2>2, <2>5, <2>6 DEF ListedBy, Old
<1>3. CASE p \notin Running
  <2> DEFINE r == pass'[p]
  <2>1. Begins(r)
    BY <1>p, <1>3, Begun
  <2>2. r.grace >= MinGrace
    BY <2>1 DEF Begins, Accepted
  <2>3. clock' = clock
    BY <2>1 DEF Begins, storeVars
  <2> QED
    BY <1>t, <2>1, <2>2, <2>3 DEF Begins, ListedBy
<1> QED
  BY <1>p, <1>1, <1>2, <1>3, PassChange

LEMMA ListedCorrect ==
    ASSUME HeadsFail = FALSE
    PROVE  Spec /\ []NoRivals => [](TypeOK /\ PutInv /\ ListedInv)
<1>1. Init => PutInv /\ ListedInv
  BY DEF Init, PostInit, PostIdle, PostAt, RegInit, RegIdle, RegAt, PassInit, PassIdle,
         PassAt, Running, PutInv, ListedInv
<1>2. TypeOK /\ NoRivals /\ PutInv /\ ListedInv /\ [Next]_vars => PutInv' /\ ListedInv'
  <2>1. TypeOK /\ NoRivals /\ PutInv /\ ListedInv /\ Next => PutInv' /\ ListedInv'
    BY PutStep, ListedStep DEF Next
  <2>2. PutInv /\ ListedInv /\ UNCHANGED vars => PutInv' /\ ListedInv'
    BY DEF vars, storeVars, taskVars, PutInv, ListedInv, ListedBy, Old, Running, PassAt,
           PostAt, RegAt, XorbStored, ShardStored
  <2> QED
    BY <2>1, <2>2
<1> QED
  BY <1>1, <1>2, TypeCorrect, PTL DEF Spec

(* Where HEADs of stored objects succeed, no two collections run at once and *)
(* no two requests upload the same object at once, a collection deletes no   *)
(* xorb and no shard younger than the grace floor: for every configured      *)
(* grace, every override a caller may choose and every interleaving.         *)
THEOREM GraceIsKept ==
    ASSUME HeadsFail = FALSE
    PROVE  Spec /\ []NoRivals => GraceProtects
<1>1. ASSUME TypeOK, ListedInv, [Next]_vars
      PROVE  /\ \A x \in Xorbs : (XorbStored(x) /\ ~XorbStored(x)')
                                      => clock - xorbs[x] >= MinGrace
             /\ \A s \in Shards : (ShardStored(s) /\ ~ShardStored(s)')
                                      => clock - shards[s] >= MinGrace
  <2>1. CASE UNCHANGED vars
    BY <2>1 DEF vars, storeVars, XorbStored, ShardStored
  <2>2. CASE Next
    <3>1. \A p \in Passes, x \in Xorbs : DeleteXorb(p, x) => clock - xorbs[x] >= MinGrace
      BY <1>1 DEF DeleteXorb, PassAt, Running, ListedInv, ListedBy, Old
    <3>2. \A p \in Passes, s \in Shards : DeleteShard(p, s) => clock - shards[s] >= MinGrace
      BY <1>1 DEF DeleteShard, PassAt, Running, ListedInv, ListedBy, Old
    <3> QED
      BY <1>1, <2>2, <3>1, <3>2, Deletions DEF Next
  <2> QED
    BY <1>1, <2>1, <2>2
<1> QED
  BY <1>1, ListedCorrect, PTL DEF Spec, GraceProtects

-----------------------------------------------------------------------------
(* What the grace period buys.                                              *)

(* The objects of file f, in shard s, are young at time t. *)
YoungAt(t, f, s) ==
    /\ t - shards[s] < MinGrace
    /\ \A x \in Terms[s][f] : t - xorbs[x] < MinGrace

(* How pass state q, which began at time b, spares file f, which was         *)
(* registered through shard s after that: its objects are too young for the  *)
(* listing to come, or are not on the list that was made.                    *)
Spared(q, b, f, s) ==
    /\ q.pc = "mark" => YoungAt(b + MarkTicks, f, s)
    /\ q.pc = "list" => YoungAt(q.now, f, s)
    /\ q.pc \in {"purge", "drop"} => /\ Terms[s][f] \cap (q.xorbs \cup q.purged) = {}
                                     /\ q.now - shards[s] < MinGrace
    /\ q.pc = "shards" => s \notin q.shards

BeganInv ==
    /\ began \in [Passes -> Nat]
    /\ \A p \in Passes : began[p] <= clock

FreshInv ==
    \A f \in fresh :
        /\ f \in Files
        /\ Intact(f)
        /\ \A p \in Running : \/ f \in stable[p]
                               \/ Spared(pass[p], began[p], f, fileIndex[f])

LEMMA BeganStep ==
    ASSUME TypeOK, BeganInv, Step, ObserveFresh
    PROVE  BeganInv'
<1>1. clock \in Nat /\ clock' \in Nat /\ clock <= clock'
  BY TimeGoesOn
<1>2. \A p \in Passes : began'[p] \in {began[p], clock, 0}
  BY DEF ObserveFresh
<1>3. \A p \in Passes : began[p] \in Nat /\ began[p] <= clock
  BY DEF BeganInv
<1>4. \A p \in Passes : began'[p] \in Nat /\ began'[p] <= clock'
  BY <1>1, <1>2, <1>3
<1>5. began' = [p \in Passes |-> began'[p]]
  BY DEF ObserveFresh
<1> QED
  BY <1>4, <1>5 DEF BeganInv

(* Nothing that an intact file needs is deleted or written while the running *)
(* passes have found it stable or spare it.                                  *)
LEMMA FreshObjects ==
    ASSUME TypeOK, StableInv, PutInv, FreshInv, Step, NEW f \in fresh
    PROVE  /\ shards'[fileIndex[f]] = shards[fileIndex[f]]
           /\ \A x \in Terms[fileIndex[f]][f] : xorbs'[x] = xorbs[x]
<1> DEFINE s == fileIndex[f]
<1>1. f \in Files /\ Intact(f)
  BY DEF FreshInv
<1>2. s \in Shards /\ ShardStored(s)
  BY <1>1 DEF Intact, Live, TypeOK, StoreTypeOK
<1>3. \A x \in Terms[s][f] : x \in Xorbs /\ XorbStored(x)
  BY <1>1, <1>2 DEF Intact
<1>4. ASSUME NEW p \in Running, DeleteShard(p, s) PROVE FALSE
  <2>1. pass[p].pc = "shards" /\ s \in pass[p].shards
    BY <1>4 DEF DeleteShard, PassAt
  <2> QED
    BY <1>4, <2>1 DEF FreshInv, Spared, StableInv, ProtectedBy, Running
<1>5. ASSUME NEW p \in Running, NEW x \in Terms[s][f], DeleteXorb(p, x) PROVE FALSE
  <2>1. pass[p].pc = "drop" /\ x \in pass[p].purged
    BY <1>5 DEF DeleteXorb, PassAt
  <2> QED
    BY <1>5, <2>1 DEF FreshInv, Spared, StableInv, ProtectedBy, Running
<1> QED
  BY <1>2, <1>3, <1>4, <1>5, Unwritten

(* One step of a pass that spares the file.                                  *)
LEMMA SparedStep ==
    ASSUME TypeOK, Step, NEW p \in Passes, p \in Running, p \in Running', PassStep(p),
           ListedBy(pass[p]), BeganInv,
           PassAt(p, "mark") => clock - began[p] <= MarkTicks,
           NEW f \in Files, NEW s \in Shards,
           shards'[s] = shards[s], \A x \in Terms[s][f] : xorbs'[x] = xorbs[x],
           Spared(pass[p], began[p], f, s)
    PROVE  Spared(pass'[p], began[p], f, s)
<1> USE MarkAssumption
<1> DEFINE q == pass[p]
           r == pass'[p]
           b == began[p]
<1> SUFFICES Spared(r, b, f, s)
  OBVIOUS
<1>1. GoesOn(q, r)
  BY PassGoesOn
<1>2. ListedBy(q) /\ Spared(q, b, f, s)
  OBVIOUS
<1>3. q.pc = "mark" => clock - b <= MarkTicks
  BY DEF PassAt
<1>t. /\ clock \in Nat /\ b \in Nat /\ MinGrace \in Nat
      /\ shards[s] \in Int
      /\ \A x \in Terms[s][f] : x \in Xorbs /\ xorbs[x] \in Int
  BY DEF TypeOK, StoreTypeOK, BeganInv, Absent
<1>z. /\ q.grace \in Nat /\ q.now \in Nat
      /\ q.xorbs \subseteq Xorbs /\ q.purged \subseteq Xorbs /\ q.shards \subseteq Shards
  BY BusyPass DEF Running, TypeOK, PassBusy
<1> HIDE DEF q, r, b
<1>4. CASE Marks(q, r)
  <2>1. q.pc = "mark" /\ YoungAt(b + MarkTicks, f, s)
    BY <1>2, <1>4 DEF Marks, Spared
  <2>2. CASE r.pc = "mark"
    BY <2>1, <2>2 DEF Spared
  <2>3. CASE r.pc = "list" /\ r.now = clock
    <3>1. clock <= b + MarkTicks
      BY <1>3, <1>t, <2>1
    <3>2. clock - shards[s] < MinGrace
      BY <1>t, <2>1, <3>1 DEF YoungAt
    <3>3. \A x \in Terms[s][f] : clock - xorbs[x] < MinGrace
      BY <1>t, <2>1, <3>1 DEF YoungAt
    <3> QED
      BY <2>3, <3>2, <3>3 DEF Spared, YoungAt
  <2> QED
    BY <1>4, <2>2, <2>3 DEF Marks
<1>5. CASE Lists(q, r)
  <2>1. YoungAt(q.now, f, s) /\ q.purged = {} /\ q.grace >= MinGrace
    BY <1>2, <1>5 DEF Lists, Spared, ListedBy
  <2>2. \A x \in Terms[s][f] : x \notin r.xorbs
    BY <1>5, <1>t, <1>z, <2>1 DEF Lists, YoungAt, InGrace
  <2> QED
    BY <1>5, <2>1, <2>2 DEF Lists, YoungAt, Spared
<1>6. ASSUME NEW x \in Xorbs, Purges(q, r, x) \/ Drops(q, r, x)
      PROVE  Spared(r, b, f, s)
  BY <1>2, <1>6 DEF Purges, Drops, Spared
<1>7. CASE Turns(q, r)
  <2>1. q.now - shards[s] < MinGrace /\ q.grace >= MinGrace
    BY <1>2, <1>7 DEF Turns, Spared, ListedBy
  <2>2. s \notin r.shards
    BY <1>7, <1>t, <1>z, <2>1 DEF Turns, InGrace
  <2> QED
    BY <1>7, <2>2 DEF Turns, Spared
<1>8. ASSUME NEW u \in Shards, Deletes(q, r, u)
      PROVE  Spared(r, b, f, s)
  BY <1>2, <1>8 DEF Deletes, Spared
<1> QED
  BY <1>1, <1>4, <1>5, <1>6, <1>7, <1>8 DEF GoesOn

(* A file whose row does not change.                                         *)
LEMMA FreshStays ==
    ASSUME TypeOK, StableInv, PutInv, ListedInv, BeganInv, FreshInv, MarkIsShort,
           Next, ObserveFresh,
           NEW f \in fresh, fileIndex'[f] = fileIndex[f]
    PROVE  /\ Intact(f)'
           /\ \A p \in Running' :
                 \/ f \in stable'[p]
                 \/ Spared(pass[p], began[p], f, fileIndex[f])'
<1> DEFINE s == fileIndex[f]
<1>s. Step
  BY DEF Next
<1>1. f \in Files /\ Intact(f)
  BY DEF FreshInv
<1>2. s \in Shards
  BY <1>1 DEF Intact, Live, TypeOK, StoreTypeOK
<1>3. shards'[s] = shards[s] /\ \A x \in Terms[s][f] : xorbs'[x] = xorbs[x]
  BY <1>s, FreshObjects
<1>4. Intact(f)'
  BY <1>1, <1>3 DEF Intact, Live, ShardStored, XorbStored
<1>5. ASSUME NEW p \in Running', f \notin stable'[p]
      PROVE  Spared(pass[p], began[p], f, fileIndex[f])'
  <2>p. p \in Passes
    BY DEF Running
  <2>1. f \notin ObserveStable(p)
    BY <1>5, <2>p DEF Next, Observe
  <2>2. p \in Running /\ f \notin stable[p]
    BY <1>1, <1>4, <1>5, <2>1 DEF ObserveStable
  <2>3. Spared(pass[p], began[p], f, s)
    BY <2>2 DEF FreshInv
  <2>4. began'[p] = began[p]
    BY <1>5, <2>p, <2>2 DEF ObserveFresh
  <2>5. Spared(pass'[p], began[p], f, s)
    <3>1. CASE PassStep(p)
      BY <1>s, <1>1, <1>2, <1>3, <1>5, <2>p, <2>2, <2>3, <3>1, SparedStep
      DEF ListedInv, MarkIsShort
    <3>2. CASE pass'[p] = pass[p]
      BY <2>3, <3>2
    <3> QED
      BY <1>s, <2>p, <3>1, <3>2, PassChange
  <2> QED
    BY <1>3, <2>4, <2>5 DEF Spared, YoungAt
<1> QED
  BY <1>4, <1>5

(* A file whose row is written while all that it needs is young.             *)
LEMMA FreshComes ==
    ASSUME TypeOK, ListedInv, BeganInv, Next, ObserveFresh,
           NEW f \in Files, fileIndex'[f] # fileIndex[f], YoungFile(f)'
    PROVE  /\ Intact(f)'
           /\ \A p \in Running' : Spared(pass[p], began[p], f, fileIndex[f])'
<1> USE MarkAssumption
<1> DEFINE s == fileIndex'[f]
<1>1. PICK t \in Registrars : Register(t) /\ IndexFile(t, f)
  BY WhoWrites DEF YoungFile, Live, Next
<1>2. UNCHANGED <<clock, xorbs, shards, pass>>
  BY <1>1 DEF Register, IndexFile, storageVars
<1>3. /\ s # NoShard
      /\ shards[s] # Absent /\ clock - shards[s] + MarkTicks < MinGrace
      /\ \A x \in Terms[s][f] : xorbs[x] # Absent /\ clock - xorbs[x] + MarkTicks < MinGrace
  BY <1>2 DEF YoungFile, Young, Live
<1>4. Intact(f)'
  BY <1>2, <1>3 DEF Intact, Live, ShardStored, XorbStored
<1>5. s \in Shards
  <2>1. reg[t] \in RegBusy
    BY <1>1 DEF IndexFile, RegAt, TypeOK, RegTypeOK, RegState, RegIdle
  <2> QED
    BY <1>1, <2>1 DEF IndexFile, PutFile, RegBusy, TypeOK, StoreTypeOK
<1>t. /\ clock \in Nat /\ MinGrace \in Nat /\ MarkTicks \in Nat
      /\ shards[s] \in Int
      /\ \A x \in Terms[s][f] : x \in Xorbs /\ xorbs[x] \in Int
  BY <1>5 DEF TypeOK, StoreTypeOK, Absent
<1>6. ASSUME NEW p \in Running'
      PROVE  Spared(pass[p], began[p], f, fileIndex[f])'
  <2> DEFINE q == pass[p]
             b == began[p]
  <2>1. p \in Passes /\ p \in Running /\ pass'[p] = q
    BY <1>2 DEF Running, PassAt
  <2>2. began'[p] = b
    BY <1>6, <2>1 DEF ObserveFresh
  <2>3. ListedBy(q)
    BY <2>1 DEF ListedInv
  <2>4. b \in Nat /\ b <= clock
    BY <2>1 DEF BeganInv
  <2>5. q.now \in Nat /\ q.now <= clock
    BY <2>1, <2>3, BusyPass DEF ListedBy, Running, TypeOK, PassBusy
  <2>6. \A w \in Int : clock - w + MarkTicks < MinGrace
                         => /\ b + MarkTicks - w < MinGrace
                            /\ q.now - w < MinGrace
                            /\ ~(clock - w >= MinGrace)
    BY <1>t, <2>4, <2>5
  <2> HIDE DEF q, b, s
  <2>7. YoungAt(b + MarkTicks, f, s) /\ YoungAt(q.now, f, s)
    <3>1. b + MarkTicks - shards[s] < MinGrace /\ q.now - shards[s] < MinGrace
      BY <1>3, <1>t, <2>6
    <3>2. \A x \in Terms[s][f] :
             b + MarkTicks - xorbs[x] < MinGrace /\ q.now - xorbs[x] < MinGrace
      BY <1>3, <1>t, <2>6
    <3> QED
      BY <1>t, <2>4, <2>5, <3>1, <3>2 DEF YoungAt
  <2>8. /\ Terms[s][f] \cap (q.xorbs \cup q.purged) = {}
        /\ s \notin q.shards
    BY <1>3, <1>t, <2>3, <2>6 DEF ListedBy, Old
  <2>9. Spared(q, b, f, s)
    BY <2>7, <2>8 DEF Spared, YoungAt
  <2> QED
    BY <1>2, <2>1, <2>2, <2>9 DEF Spared, YoungAt, q, b, s
<1> QED
  BY <1>4, <1>6

LEMMA FreshStep ==
    ASSUME TypeOK, StableInv, PutInv, ListedInv, BeganInv, FreshInv, MarkIsShort, FreshNext
    PROVE  BeganInv' /\ FreshInv'
<1>1. Next /\ Step /\ ObserveFresh
  BY DEF FreshNext, Next
<1>2. BeganInv'
  BY <1>1, BeganStep
<1>3. ASSUME NEW f \in fresh'
      PROVE  /\ f \in Files
             /\ Intact(f)'
             /\ \A p \in Running' :
                   \/ f \in stable'[p]
                   \/ Spared(pass[p], began[p], f, fileIndex[f])'
  <2>1. f \in Files /\ IF fileIndex'[f] = fileIndex[f] THEN f \in fresh ELSE YoungFile(f)'
    BY <1>1, <1>3 DEF ObserveFresh
  <2>2. CASE fileIndex'[f] = fileIndex[f]
    BY <1>1, <2>1, <2>2, FreshStays
  <2>3. CASE fileIndex'[f] # fileIndex[f]
    BY <1>1, <2>1, <2>3, FreshComes
  <2> QED
    BY <2>1, <2>2, <2>3
<1> QED
  BY <1>2, <1>3 DEF FreshInv

(* Where HEADs of stored objects succeed, no two collections run at once, no *)
(* two requests upload the same object at once, and a mark takes MarkTicks   *)
(* at most: a file that was registered within the grace floor (less a mark)  *)
(* of all that it is made of can be reconstructed for as long as its row     *)
(* stands, although a pass under way then may not have seen the row.         *)
THEOREM FreshUploadsAreKept ==
    ASSUME HeadsFail = FALSE
    PROVE  FreshSpec /\ []NoRivals => []FreshFilesIntact
<1>1. FreshSpec => Spec
  <2>1. FreshInit => Init
    BY DEF FreshInit
  <2>2. [FreshNext]_freshVars => [Next]_vars
    BY DEF FreshNext, freshVars
  <2> QED
    BY <2>1, <2>2, PTL DEF FreshSpec, Spec
<1>2. FreshInit => MarkIsShort /\ BeganInv /\ FreshInv
  BY DEF FreshInit, Init, PassInit, PassIdle, PassAt, StoreInit, MarkIsShort, BeganInv, FreshInv
<1>3. MarkIsShort /\ [FreshNext]_freshVars => MarkIsShort'
  BY DEF FreshNext, freshVars, vars, storeVars, taskVars, MarkIsShort, PassAt
<1>4. ASSUME TypeOK, StableInv, PutInv, ListedInv, MarkIsShort, BeganInv, FreshInv,
             [FreshNext]_freshVars
      PROVE  BeganInv' /\ FreshInv'
  <2>1. CASE FreshNext
    BY <1>4, <2>1, FreshStep
  <2>2. CASE UNCHANGED freshVars
    BY <1>4, <2>2 DEF freshVars, vars, storeVars, taskVars, history, BeganInv, FreshInv,
       Spared, YoungAt, Intact, Live, ShardStored, XorbStored, Running, PassAt
  <2> QED
    BY <1>4, <2>1, <2>2
<1>5. FreshInv => FreshFilesIntact
  BY DEF FreshInv, FreshFilesIntact
<1> QED
  BY <1>1, <1>2, <1>3, <1>4, <1>5, StableCorrect, ListedCorrect, PTL DEF FreshSpec
=============================================================================
