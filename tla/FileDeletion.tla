----------------------------- MODULE FileDeletion -----------------------------
(***************************************************************************)
(* delete_file: DELETE /v1/files/{file_id}.  Four index calls in a row:    *)
(* read the row, read the claims, release the caller's claim, and, when    *)
(* the claims read in the second call leave nobody else, remove the row.   *)
(***************************************************************************)
EXTENDS CasStore

CONSTANTS
    Deleters,  \* the delete_file tasks that can run at once
    Admins     \* owners whose token has the admin scope

ASSUME AdminAssumption == Admins \subseteq Owners

(* A claim is a row of a table. *)
ASSUME OwnersAssumption == IsFiniteSet(Owners)

VARIABLE del   \* del[t]: where task t stands; seen: the claims it read

DelIdle == [pc |-> "idle"]

DelBusy ==
    [pc: {"claims", "release", "remove"},
     owner: Owners, file: Files, seen: SUBSET Owners]

DelState == {DelIdle} \cup DelBusy

DelTypeOK == del \in [Deleters -> DelState]

DelInit == del = [t \in Deleters |-> DelIdle]

DelAt(t, pc) == del[t].pc = pc

DelGoto(t, pc) == del' = [del EXCEPT ![t].pc = pc]

DelDone(t) == del' = [del EXCEPT ![t] = DelIdle]

BeginDelete(t, o, f) ==
    /\ DelAt(t, "idle")
    /\ Live(f)
    /\ del' = [del EXCEPT ![t] =
                  [pc |-> "claims", owner |-> o, file |-> f, seen |-> {}]]
    /\ UNCHANGED storeVars

(* 404. *)
UnknownFile(t, f) ==
    /\ DelAt(t, "idle")
    /\ ~Live(f)
    /\ UNCHANGED <<storeVars, del>>

(* A file without claims may be removed by an admin only. *)
ReadClaims(t) ==
    /\ DelAt(t, "claims")
    /\ LET seen == Claimants(del[t].file)
           next == IF seen = {} THEN "remove" ELSE "release"
       IN  IF seen = {} /\ del[t].owner \notin Admins
             THEN DelDone(t)
             ELSE del' = [del EXCEPT ![t] = [del[t] EXCEPT !.pc = next, !.seen = seen]]
    /\ UNCHANGED storeVars

LastClaim_OffByOne(t) == Cardinality(del[t].seen) - 1 <= 1

(* owners.len() - 1 == 0, on the list read one call ago. *)
LastClaim(t) == Cardinality(del[t].seen) - 1 = 0

ReleaseClaim(t) ==
    /\ DelAt(t, "release")
    /\ <<del[t].owner, del[t].file>> \in claims
    /\ Release(del[t].owner, del[t].file)
    /\ IF LastClaim(t) THEN DelGoto(t, "remove") ELSE DelDone(t)
    /\ UNCHANGED <<clock, storageVars, fileIndex, chunkIndex, layouts>>

(* The caller holds no claim: 403. *)
NoClaim(t) ==
    /\ DelAt(t, "release")
    /\ <<del[t].owner, del[t].file>> \notin claims
    /\ DelDone(t)
    /\ UNCHANGED storeVars

RemoveRow(t) ==
    /\ DelAt(t, "remove")
    /\ RemoveFile(del[t].file)
    /\ DelDone(t)
    /\ UNCHANGED <<clock, storageVars, chunkIndex, layouts>>

(* A call failed, the client went away, or the server stopped. *)
DelAbort(t) ==
    /\ ~DelAt(t, "idle")
    /\ DelDone(t)
    /\ UNCHANGED storeVars

DelStep(t) ==
    \/ \E o \in Owners, f \in Files : BeginDelete(t, o, f)
    \/ \E f \in Files : UnknownFile(t, f)
    \/ ReadClaims(t)
    \/ ReleaseClaim(t)
    \/ NoClaim(t)
    \/ RemoveRow(t)
    \/ DelAbort(t)
=============================================================================
