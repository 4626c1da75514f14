------------------------------- MODULE CasServer -------------------------------
(***************************************************************************)
(* The server: upload, registration, deletion and collection tasks that    *)
(* run at once over one store and one index, one storage or index call at  *)
(* a time.  A crash ends tasks and loses nothing that was written, so it   *)
(* is any number of the tasks' aborts.                                     *)
(*                                                                         *)
(* stable, garbage and held are history variables: what has been so ever   *)
(* since a running pass read the root set, or a deletion began.  No action *)
(* reads them.                                                             *)
(***************************************************************************)
EXTENDS XorbUpload, ShardRegistration, FileDeletion, GarbageCollector

VARIABLES
    stable,   \* stable[p]: files intact, on an unchanged row, since p began
    garbage,  \* garbage[p]: xorbs unreferenced and past grace since p began
    held      \* held[t]: owners with a claim on t's file since t began

taskVars == <<post, reg, del, pass>>
history  == <<stable, garbage, held>>
vars     == <<storeVars, taskVars, history>>

TypeOK ==
    /\ StoreTypeOK
    /\ PostTypeOK
    /\ RegTypeOK
    /\ DelTypeOK
    /\ PassTypeOK
    /\ stable \in [Passes -> SUBSET Files]
    /\ garbage \in [Passes -> SUBSET Xorbs]
    /\ held \in [Deleters -> SUBSET Owners]

HistoryInit ==
    /\ stable = [p \in Passes |-> {}]
    /\ garbage = [p \in Passes |-> {}]
    /\ held = [t \in Deleters |-> {}]

Init ==
    /\ StoreInit
    /\ PostInit
    /\ RegInit
    /\ DelInit
    /\ PassInit
    /\ HistoryInit

Running == {p \in Passes : ~PassAt(p, "idle")}

Deleting == {t \in Deleters : ~DelAt(t, "idle")}

Collectable(p, x) ==
    /\ XorbStored(x)
    /\ ~Referenced(x)
    /\ ~InGrace(pass[p].grace, clock, xorbs[x])

(* A pass that starts records what is intact and what is garbage; from then *)
(* on a file leaves stable when it breaks or its row changes, and a xorb    *)
(* leaves garbage when a live file names it or it is written again.  A      *)
(* deletion that starts records who holds a claim; a released claim leaves. *)
ObserveStable(p) ==
    IF p \in Running'
      THEN IF p \in Running
             THEN {f \in stable[p] : Intact(f)' /\ fileIndex'[f] = fileIndex[f]}
             ELSE {f \in Files : Intact(f)'}
      ELSE {}

ObserveGarbage(p) ==
    IF p \in Running'
      THEN IF p \in Running
             THEN {x \in garbage[p] : ~Referenced(x)' /\ xorbs'[x] \in {xorbs[x], Absent}}
             ELSE {x \in Xorbs : Collectable(p, x)'}
      ELSE {}

ObserveHeld(t) ==
    IF t \in Deleting'
      THEN IF t \in Deleting
             THEN {o \in held[t] : <<o, del[t].file>> \in claims'}
             ELSE {o \in Owners : <<o, del'[t].file>> \in claims'}
      ELSE {}

Observe ==
    /\ stable' = [p \in Passes |-> ObserveStable(p)]
    /\ garbage' = [p \in Passes |-> ObserveGarbage(p)]
    /\ held' = [t \in Deleters |-> ObserveHeld(t)]

Post(t)     == PostStep(t) /\ UNCHANGED <<reg, del, pass>>
Register(t) == RegStep(t)  /\ UNCHANGED <<post, del, pass>>
Delete(t)   == DelStep(t)  /\ UNCHANGED <<post, reg, pass>>
Collect(p)  == PassStep(p) /\ UNCHANGED <<post, reg, del>>
TimePasses  == Tick /\ UNCHANGED taskVars

Step ==
    \/ \E t \in Posters : Post(t)
    \/ \E t \in Registrars : Register(t)
    \/ \E t \in Deleters : Delete(t)
    \/ \E p \in Passes : Collect(p)
    \/ TimePasses

Next == Step /\ Observe

Spec == Init /\ [][Next]_vars

-----------------------------------------------------------------------------
(* How pass state q keeps file f, whose row names shard s, from its sweeps.  *)
ProtectedBy(q, f, s) ==
    /\ Terms[s][f] \cap q.purged = {}
    /\ q.pc = "mark" => /\ q.snap[f] = s
                        /\ s \in q.live
                        /\ s \in q.unread \/ Terms[s][f] \subseteq q.reachable
    /\ q.pc = "list" => s \in q.live /\ Terms[s][f] \subseteq q.reachable
    /\ q.pc \in {"purge", "drop"} => s \in q.live /\ Terms[s][f] \cap q.xorbs = {}
    /\ q.pc = "shards" => s \notin q.shards

(* A file that a running pass has found intact ever since it began is        *)
(* intact, and out of reach of what is left of that pass (the marking and    *)
(* the two sweeps of run_gc): the inductive form of GcSparesStableFiles.     *)
StableInv ==
    \A p \in Passes : \A f \in stable[p] :
        p \in Running /\ Intact(f) /\ ProtectedBy(pass[p], f, fileIndex[f])

(* Collection never breaks a file that was intact, on the row it has now,   *)
(* ever since every running pass read the root set (gc.rs: a file with a    *)
(* row is live, and marking keeps what its terms name): whatever task steps,*)
(* such a file stays intact or its row changes.  Two passes, re-registered  *)
(* files, missing shards and aborted passes included.                       *)
GcSparesStableFiles ==
    [][\A f \in Files :
          (Intact(f) /\ \A p \in Running : f \in stable[p])
            => (Intact(f)' \/ fileIndex'[f] # fileIndex[f])]_vars

(* A pass that reached its last sweep left none of the xorbs that no live   *)
(* file named, and that were past grace, from the moment it read the root   *)
(* set: neither a shard that still lists a file under a newer row nor a     *)
(* dangling row pins storage.                                               *)
SweptGarbageGone ==
    \A p \in Passes : PassAt(p, "shards") => \A x \in garbage[p] : ~XorbStored(x)

(* "Objects newer than the grace period are never deleted." (gc.rs): none   *)
(* younger than the floor is, whatever grace a pass was started with.       *)
GraceProtects ==
    [][/\ \A x \in Xorbs : (XorbStored(x) /\ ~XorbStored(x)')
                              => clock - xorbs[x] >= MinGrace
       /\ \A s \in Shards : (ShardStored(s) /\ ~ShardStored(s)')
                              => clock - shards[s] >= MinGrace]_vars

(* Where nothing is collected, a row always leads to bytes, however         *)
(* uploads, registrations and deletions interleave and wherever they fail.  *)
LiveFilesIntact == \A f \in Files : Live(f) => Intact(f)

(* Deletion t was sent by an owner who was not on the list of claims that it *)
(* read: one that has since claimed the file, or else it will be refused.    *)
ClaimedLate(t) == del[t].seen # {} /\ del[t].owner \notin del[t].seen

(* What a deletion knows between reading the claims and removing the row:    *)
(* owners that held a claim all along are on its list, and it goes on to     *)
(* remove the row only if the list has one owner, or none.                   *)
HeldInv ==
    \A t \in Deleters :
        /\ DelAt(t, "release") => held[t] \subseteq del[t].seen
        /\ DelAt(t, "remove") => held[t] \subseteq {del[t].owner} \/ ClaimedLate(t)

(* A deletion about to remove a row removes no claim that someone else held *)
(* all along, although it decides on a list of claims it read before it     *)
(* released its own, and others register and delete meanwhile.  There is    *)
(* one exception, whose run is doc_held: its sender had no claim when the   *)
(* list was read, and has registered the file before the claim is released, *)
(* so that "owners.len() - 1" takes somebody else off the list.             *)
RemovalSparesHeldClaims ==
    \A t \in Deleters :
        DelAt(t, "remove") => held[t] \subseteq {del[t].owner} \/ ClaimedLate(t)

(* "The file stays reconstructable while other owners still claim it"       *)
(* (files.rs): no deletion takes the row of a file that somebody other than *)
(* its sender has claimed ever since it began.                              *)
FileStaysWhileClaimed ==
    [][\A t \in Deleters :
          (/\ DelAt(t, "remove") /\ DelAt(t, "idle")'
           /\ Live(del[t].file) /\ fileIndex'[del[t].file] = NoShard)
            => held[t] \subseteq {del[t].owner}]_vars

(* "The file is removed once its last claim is released" (README): a row    *)
(* without claims has a task that is still at work on it.                   *)
UnclaimedRowsGo ==
    \A f \in Files :
        (Live(f) /\ Claimants(f) = {})
          => \/ \E t \in Deleting : del[t].file = f
             \/ \E t \in Registrars : RegAt(t, "claim") /\ f \in reg[t].file

(* remove_xorb is there "so dedup responses stop directing clients to a     *)
(* xorb that no longer exists" (index/mod.rs): whatever xorbs hold a chunk, *)
(* those that the answer names are stored.                                  *)
AdvertisedXorbsStored ==
    \A X \in SUBSET chunkIndex : \A x \in DedupNames(X) : XorbStored(x)
=============================================================================
