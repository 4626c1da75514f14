---------------------------- MODULE UploadSession ----------------------------
(***************************************************************************)
(* One upload by the web client: uploadFile of api.ts driving an           *)
(* UploadSession of openxet-wasm.  Probe the server for chunks it knows,   *)
(* place what the answers cover in existing xorbs, pack the rest into new  *)
(* ones, post those through a small pool, then register the shard.         *)
(*                                                                         *)
(* A xorb is the sequence of its chunks (its hash is a function of them),  *)
(* so a xorb the client packs may happen to be one the server has.         *)
(***************************************************************************)
EXTENDS Integers, Sequences, FiniteSets, SequencesExt, FiniteSetsExt

CONSTANTS
    Chunks,         \* chunk hashes
    RawSize,        \* RawSize[c]: the bytes of chunk c
    Eligible,       \* chunks xet-core's predicate lets anyone probe
    Contents,       \* the files: sequences of chunks
    Known,          \* xorbs that dedup answers may name
    ProbeBatch,     \* PROBE_BATCH
    Concurrency,    \* CONCURRENCY, workers that post xorbs
    MaxXorbBytes,   \* MAX_XORB_BYTES
    MaxXorbChunks   \* MAX_XORB_CHUNKS

ASSUME SessionAssumption ==
    /\ Eligible \subseteq Chunks
    /\ RawSize \in [Chunks -> Nat \ {0}]
    /\ Contents \subseteq Seq(Chunks) \ {<<>>}
    /\ Known \subseteq Seq(Chunks) \ {<<>>}
    /\ IsFiniteSet(Known)
    /\ {ProbeBatch, Concurrency, MaxXorbChunks} \subseteq Nat \ {0}
    /\ MaxXorbBytes \in Nat

VARIABLES
    chunks,     \* the file's chunks
    phase,      \* which await of uploadFile the client stands at
    placement,  \* placement[i]: where chunk i lives, or Unplaced
    probed,     \* chunks handed out as candidates
    asking,     \* probes under way
    xorbs,      \* the plan: new xorbs
    terms,      \* the plan: the shard's terms
    next,       \* the next xorb a worker takes
    posting,    \* xorbs being posted
    stored,     \* the server's xorbs
    covered,    \* history: chunks that some answer covered
    collected   \* history: xorbs the server has collected

session == <<placement, probed, asking, covered>>
plan    == <<xorbs, terms, next, posting>>
server  == <<stored, collected>>
vars    == <<chunks, phase, session, plan, server>>

Unplaced == [xorb |-> <<>>, index |-> 0]

Placed(i) == placement[i] # Unplaced

Init ==
    /\ chunks \in Contents
    /\ phase = "probe"
    /\ placement = [i \in DOMAIN chunks |-> Unplaced]
    /\ probed = {}
    /\ asking = {}
    /\ covered = {}
    /\ xorbs = <<>>
    /\ terms = <<>>
    /\ next = 1
    /\ posting = {}
    /\ stored = Known  \* every xorb an answer may name is there to begin with
    /\ collected = {}

-----------------------------------------------------------------------------
(* The dedup pass.                                                          *)

(* The first chunk, a chunk after a placed one, and eligible chunks. *)
Candidates ==
    {i \in DOMAIN chunks \ probed :
        /\ ~Placed(i)
        /\ \/ i = 1
           \/ Placed(i - 1)
           \/ chunks[i] \in Eligible}

FirstOf(S, n) == {i \in S : Cardinality({j \in S : j < i}) < n}

HandedOut_None(batch) == {}

(* What next_query_batch notes down, so as not to hand it out again. *)
HandedOut(batch) == batch

NextBatch ==
    /\ phase = "probe"
    /\ asking = {}
    /\ Candidates # {}
    /\ LET batch == FirstOf(Candidates, ProbeBatch)
       IN  /\ probed' = probed \cup HandedOut(batch)
           /\ asking' = batch
    /\ UNCHANGED <<chunks, phase, placement, covered, plan, server>>

(* The server answers with the xorbs its index locates the chunk in: any of  *)
(* those it has ever advertised, as uploads and passes add and purge the     *)
(* entries.  It describes each from its recorded layout or, failing that,    *)
(* from the xorb itself; when one of them has neither, the whole answer is a *)
(* 404.                                                                      *)
DedupAnswer(located, recorded) ==
    IF located \subseteq recorded \cup stored THEN located ELSE {}

(* The xorbs come in any order (the server keeps them in a hash map).  A     *)
(* chunk that several of them hold goes to the last of those, and to its     *)
(* last position there, as later entries of the client's map replace earlier *)
(* ones.                                                                     *)
LastIndex(x, c) == Max({i \in DOMAIN x : x[i] = c}) - 1

Covering(answer) == UNION {ToSet(x) : x \in answer}

Home(blocks, c) == blocks[Max({k \in DOMAIN blocks : c \in ToSet(blocks[k])})]

Apply(blocks) ==
    placement' =
        [i \in DOMAIN chunks |->
            IF ~Placed(i) /\ chunks[i] \in Covering(ToSet(blocks))
              THEN [xorb |-> Home(blocks, chunks[i]),
                    index |-> LastIndex(Home(blocks, chunks[i]), chunks[i])]
              ELSE placement[i]]

(* An empty answer is a 404: the chunk stays unplaced. *)
Answer(i) ==
    /\ phase = "probe"
    /\ i \in asking
    /\ \E located \in SUBSET {x \in Known : chunks[i] \in ToSet(x)},
          recorded \in SUBSET Known :
          \E blocks \in SetToSeqs(DedupAnswer(located, recorded)) :
              /\ Apply(blocks)
              /\ covered' = covered \cup Covering(ToSet(blocks))
    /\ asking' = asking \ {i}
    /\ UNCHANGED <<chunks, phase, probed, plan, server>>

(* Any other status: Promise.all rejects, and so does uploadFile. *)
ProbeFails(i) ==
    /\ phase = "probe"
    /\ i \in asking
    /\ phase' = "failed"
    /\ UNCHANGED <<chunks, session, plan, server>>

-----------------------------------------------------------------------------
(* finish: pack and coalesce.                                               *)

RawSizes(x) == [k \in DOMAIN x |-> RawSize[x[k]]]

Bytes(x) == FoldFunction(+, 0, RawSizes(x))

(* A group is the sequence of its chunks' positions in the file. *)
Sealed(group) == [k \in DOMAIN group |-> chunks[group[k]]]

Fits_LateByOne(group, i) ==
    /\ Bytes(Sealed(group)) + RawSize[chunks[i]] <= MaxXorbBytes
    /\ Len(group) <= MaxXorbChunks

Fits(group, i) ==
    /\ Bytes(Sealed(group)) + RawSize[chunks[i]] <= MaxXorbBytes
    /\ Len(group) < MaxXorbChunks

Pack(groups, i) ==
    IF groups # <<>> /\ Fits(Last(groups), i)
      THEN [groups EXCEPT ![Len(groups)] = Append(@, i)]
      ELSE Append(groups, <<i>>)

ToPack_All(i) == TRUE

ToPack(i) == ~Placed(i)

(* The groups once the loop has been through chunks 1 to i. *)
Packed[i \in 0..Len(chunks)] ==
    IF i = 0 THEN <<>>
    ELSE IF ToPack(i) THEN Pack(Packed[i - 1], i)
    ELSE Packed[i - 1]

Groups == Packed[Len(chunks)]

(* Chunk i's place once the groups are sealed. *)
FinalPlace(i) ==
    IF Placed(i) THEN placement[i]
    ELSE LET g == CHOOSE g \in ToSet(Groups) : i \in ToSet(g)
         IN  [xorb |-> Sealed(g), index |-> LastIndex(g, i)]

Continues_AnyLater(p, q) == p.xorb = q.xorb /\ p.index < q.index

(* Neighbouring chunks of the file that are neighbours in a xorb. *)
Continues(p, q) == p.xorb = q.xorb /\ p.index + 1 = q.index

(* A chunk that continues the one before it goes to that one's term. *)
Extend(runs, i) ==
    LET place == FinalPlace(i)
    IN  IF i > 1 /\ Continues(FinalPlace(i - 1), place)
          THEN [runs EXCEPT ![Len(runs)].end = place.index + 1]
          ELSE Append(runs, [xorb |-> place.xorb, start |-> place.index,
                             end |-> place.index + 1])

(* The terms of chunks 1 to i. *)
Coalesced[i \in 0..Len(chunks)] ==
    IF i = 0 THEN <<>> ELSE Extend(Coalesced[i - 1], i)

Terms == Coalesced[Len(chunks)]

Finish ==
    /\ phase = "probe"
    /\ asking = {}
    /\ Candidates = {}
    /\ phase' = "upload"
    /\ xorbs' = [g \in DOMAIN Groups |-> Sealed(Groups[g])]
    /\ terms' = Terms
    /\ UNCHANGED <<chunks, session, next, posting, server>>

-----------------------------------------------------------------------------
(* The pool, and the registration.                                          *)

TakeXorb ==
    /\ phase = "upload"
    /\ next <= Len(xorbs)
    /\ Cardinality(posting) < Concurrency
    /\ posting' = posting \cup {next}
    /\ next' = next + 1
    /\ UNCHANGED <<chunks, phase, session, xorbs, terms, server>>

(* post_xorb, as far as the client can tell. *)
Posted(k) ==
    /\ phase = "upload"
    /\ k \in posting
    /\ posting' = posting \ {k}
    /\ stored' = stored \cup {xorbs[k]}
    /\ UNCHANGED <<chunks, phase, session, xorbs, terms, next, collected>>

PostFails(k) ==
    /\ phase = "upload"
    /\ k \in posting
    /\ phase' = "failed"
    /\ UNCHANGED <<chunks, session, plan, server>>

AllPosted_NoneLeft == next > Len(xorbs)

(* Promise.all: no worker has anything left to take or to wait for. *)
AllPosted == next > Len(xorbs) /\ posting = {}

SendShard ==
    /\ phase = "upload"
    /\ AllPosted
    /\ phase' = "register"
    /\ UNCHANGED <<chunks, session, plan, server>>

(* register_shard looks every xorb of the terms up. *)
Registered ==
    /\ phase = "register"
    /\ \A t \in ToSet(terms) : t.xorb \in stored
    /\ phase' = "done"
    /\ UNCHANGED <<chunks, session, plan, server>>

Refused ==
    /\ phase = "register"
    /\ \E t \in ToSet(terms) : t.xorb \notin stored
    /\ phase' = "refused"
    /\ UNCHANGED <<chunks, session, plan, server>>

(* A pass of the server deletes a xorb. *)
Collect(x) ==
    /\ phase \notin {"done", "refused", "failed"}
    /\ x \in stored
    /\ stored' = stored \ {x}
    /\ collected' = collected \cup {x}
    /\ UNCHANGED <<chunks, phase, session, plan>>

Progress ==
    \/ NextBatch
    \/ \E i \in asking : Answer(i)
    \/ Finish
    \/ TakeXorb
    \/ \E k \in posting : Posted(k)
    \/ SendShard
    \/ Registered
    \/ Refused

Next ==
    \/ Progress
    \/ \E i \in asking : ProbeFails(i)
    \/ \E k \in posting : PostFails(k)
    \/ \E x \in stored : Collect(x)

Underway == phase \in {"probe", "upload", "register"}

(* Responses arrive, and the browser runs what waits for them.  This is      *)
(* WF_vars(Progress), written with the condition that enables Progress.      *)
Fairness == []<>~Underway \/ []<><<Progress>>_vars

Spec == Init /\ [][Next]_vars /\ Fairness

-----------------------------------------------------------------------------
Planned == phase \in {"upload", "register", "done", "refused"}

(* The shard spells the file: the terms, read off the xorbs they name, are  *)
(* the file's chunks in order, whichever answers placed which chunks and    *)
(* wherever the packing cut; and no term could have continued the one       *)
(* before it.                                                               *)
PlanSpellsFile ==
    Planned =>
        /\ FlattenSeq([k \in DOMAIN terms |->
              SubSeq(terms[k].xorb, terms[k].start + 1, terms[k].end)]) = chunks
        /\ \A k \in 1..Len(terms) - 1 :
              ~(terms[k].xorb = terms[k + 1].xorb /\ terms[k].end = terms[k + 1].start)

(* New xorbs keep to the limits of the format, but for a chunk that is too  *)
(* big by itself.                                                           *)
XorbsWithinLimits ==
    Planned =>
        \A x \in ToSet(xorbs) :
            /\ Len(x) \in 1..MaxXorbChunks
            /\ \/ Len(x) = 1
               \/ Bytes(x) <= MaxXorbBytes

(* New xorbs hold no chunk an answer covered: what some answer placed is    *)
(* not sent again, not even where it occurs a second time.                  *)
KnownChunksNotSent ==
    Planned => \A x \in ToSet(xorbs) : ToSet(x) \cap covered = {}

(* The shard is never sent before the xorbs it needs: registration is       *)
(* refused only when a xorb was collected while the upload was under way.   *)
RefusedOnlyIfCollected ==
    phase = "refused" => \E t \in ToSet(terms) : t.xorb \in collected

(* An upload comes to an end, whatever the answers to its probes: no chunk  *)
(* is probed for ever.                                                      *)
UploadEnds == <>~Underway
=============================================================================
