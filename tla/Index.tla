--------------------------------- MODULE Index ---------------------------------
(***************************************************************************)
(* What the two index interfaces (storage/index/mod.rs, FileIndex and      *)
(* ChunkIndex) promise the handlers, whichever backend was chosen at start *)
(* up: each write is one atomic step, the operator of CasStore that bears  *)
(* its name.  The two calls that delete from two tables, remove and        *)
(* remove_xorb, promise that much with SQLite only.  With Postgres they    *)
(* delete at least what was there from the beginning of the call to its    *)
(* end, all of it in one step; what arrives in between may survive.        *)
(***************************************************************************)
EXTENDS CasStore

CONSTANT Removers   \* the remove and remove_xorb calls that can run at once

VARIABLES
    backend,   \* which backend the server was started with
    under      \* under[t]: what t is to remove, and what of it was there all along

indexSpecVars == <<storeVars, backend, under>>

Backends == {"sqlite", "postgres"}

(* What a call removes: a row and claims, or the entries and the layout.    *)
FileItems(f) == {<<"row", f>>} \cup {<<"claim", f, o>> : o \in Owners}
XorbItems(x) == {<<"entries", x>>, <<"layout", x>>}

Removable == {FileItems(f) : f \in Files} \cup {XorbItems(x) : x \in Xorbs}

Present ==
    {<<"row", f>> : f \in {g \in Files : Live(g)}}
      \cup {<<"claim", c[2], c[1]>> : c \in claims}
      \cup {<<"entries", x>> : x \in chunkIndex}
      \cup {<<"layout", x>> : x \in layouts}

NotRemoving == [items |-> {}, throughout |-> {}]

IndexInit ==
    /\ StoreInit
    /\ backend \in Backends
    /\ under = [t \in Removers |-> NotRemoving]

(* The calls that are one statement. *)
RowCall ==
    /\ \E f \in Files, s \in Shards : PutFile(f, s)
    /\ UNCHANGED <<claims, chunkIndex, layouts>>

ClaimCall ==
    /\ \E o \in Owners, f \in Files : Claim(o, f) \/ Release(o, f)
    /\ UNCHANGED <<fileIndex, chunkIndex, layouts>>

ChunkCall ==
    /\ \E x \in Xorbs : PutBatch({x})
    /\ UNCHANGED <<fileIndex, claims, layouts>>

LayoutCall ==
    /\ \E x \in Xorbs : PutLayout(x)
    /\ UNCHANGED <<fileIndex, claims, chunkIndex>>

(* What stays there all along shrinks with every call of others. *)
StillThere(t) == [under[t] EXCEPT !.throughout = @ \cap Present']

BeginRemoval(t) ==
    /\ under[t] = NotRemoving
    /\ \E items \in Removable :
          under' = [under EXCEPT ![t] =
                       [items |-> items, throughout |-> items \cap Present]]
    /\ UNCHANGED <<fileIndex, claims, chunkIndex, layouts>>

Without(gone) ==
    /\ fileIndex' = [f \in Files |->
                        IF <<"row", f>> \in gone THEN NoShard ELSE fileIndex[f]]
    /\ claims' = {c \in claims : <<"claim", c[2], c[1]>> \notin gone}
    /\ chunkIndex' = {x \in chunkIndex : <<"entries", x>> \notin gone}
    /\ layouts' = {x \in layouts : <<"layout", x>> \notin gone}

EndRemoval(t) ==
    /\ under[t] # NotRemoving
    /\ \E spared \in SUBSET (under[t].items \ under[t].throughout) :
          /\ backend = "sqlite" => spared = {}
          /\ Without(under[t].items \ spared)
    /\ under' = [r \in Removers |-> IF r = t THEN NotRemoving ELSE StillThere(r)]

(* A call that fails leaves everything as it was. *)
FailRemoval(t) ==
    /\ under[t] # NotRemoving
    /\ under' = [under EXCEPT ![t] = NotRemoving]
    /\ UNCHANGED <<fileIndex, claims, chunkIndex, layouts>>

IndexNext ==
    /\ \/ /\ RowCall \/ ClaimCall \/ ChunkCall \/ LayoutCall
          /\ under' = [t \in Removers |-> StillThere(t)]
       \/ \E t \in Removers : BeginRemoval(t) \/ EndRemoval(t) \/ FailRemoval(t)
    /\ UNCHANGED <<clock, storageVars, backend>>

IndexSpec == IndexInit /\ [][IndexNext]_indexSpecVars
=============================================================================
