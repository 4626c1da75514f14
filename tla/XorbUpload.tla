------------------------------ MODULE XorbUpload ------------------------------
(***************************************************************************)
(* post_xorb: POST /v1/xorbs/default/{hash}.  A handler task runs the      *)
(* steps below one storage or index call at a time; anything else may run  *)
(* between two of them.  Bodies whose chunks do not hash to the URL's hash *)
(* are refused before any state changes and are not modelled.              *)
(***************************************************************************)
EXTENDS CasStore

CONSTANT Posters  \* the post_xorb tasks that can run at once

VARIABLE post     \* post[t]: where task t stands, and the xorb it uploads

PostIdle == [pc |-> "idle"]

PostBusy ==
    [pc: {"head", "put", "index", "layout"}, xorb: Xorbs]

PostState == {PostIdle} \cup PostBusy

PostTypeOK == post \in [Posters -> PostState]

PostInit == post = [t \in Posters |-> PostIdle]

PostAt(t, pc) == post[t].pc = pc

PostGoto(t, pc) == post' = [post EXCEPT ![t].pc = pc]

PostDone(t) == post' = [post EXCEPT ![t] = PostIdle]

(* The early return for a xorb that is already stored changes nothing: the *)
(* answer is was_inserted = false, and the index is not touched.           *)
BeginPost(t, x) ==
    /\ PostAt(t, "idle")
    /\ ~XorbStored(x)
    /\ post' = [post EXCEPT ![t] = [pc |-> "head", xorb |-> x]]
    /\ UNCHANGED storeVars

PostAlreadyStored(t, x) ==
    /\ PostAt(t, "idle")
    /\ XorbStored(x)
    /\ UNCHANGED <<storeVars, post>>

(* put_xorb looks once more before it writes. *)
PostHead(t) ==
    /\ PostAt(t, "head")
    /\ \/ XorbStored(post[t].xorb) /\ PostGoto(t, "index")
       \/ MayLookAbsent(XorbStored(post[t].xorb)) /\ PostGoto(t, "put")
    /\ UNCHANGED storeVars

PostPut(t) ==
    /\ PostAt(t, "put")
    /\ StoreXorb(post[t].xorb)
    /\ PostGoto(t, "index")
    /\ UNCHANGED <<clock, shards, indexVars>>

PostIndex(t) ==
    /\ PostAt(t, "index")
    /\ PutBatch({post[t].xorb})
    /\ PostGoto(t, "layout")
    /\ UNCHANGED <<clock, storageVars, fileIndex, claims, layouts>>

PostLayout(t) ==
    /\ PostAt(t, "layout")
    /\ PutLayout(post[t].xorb)
    /\ PostDone(t)
    /\ UNCHANGED <<clock, storageVars, fileIndex, claims, chunkIndex>>

(* A call failed, the client went away, or the server stopped: what was    *)
(* written stays written.                                                  *)
PostAbort(t) ==
    /\ ~PostAt(t, "idle")
    /\ PostDone(t)
    /\ UNCHANGED storeVars

PostStep(t) ==
    \/ \E x \in Xorbs : BeginPost(t, x) \/ PostAlreadyStored(t, x)
    \/ PostHead(t)
    \/ PostPut(t)
    \/ PostIndex(t)
    \/ PostLayout(t)
    \/ PostAbort(t)
=============================================================================
