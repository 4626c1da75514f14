------------------------------- MODULE Download -------------------------------
(***************************************************************************)
(* One download: the reconstruction request, call by call, then the        *)
(* client's fetches, all of which are under way at once (Promise.all in    *)
(* api.ts, asyncio.gather in client.py), and the join.  Meanwhile other    *)
(* tasks delete the file, collect its shard and its xorbs, and time passes.*)
(* The URLs are of the object store where the backend can presign.  Where  *)
(* it cannot, the server serves the xorbs itself, by URLs it signs with    *)
(* the configured secret or, without one, with a key of this process; it   *)
(* may be restarted at any time.                                           *)
(***************************************************************************)
EXTENDS Reconstruction

CONSTANTS
    Contents,  \* the files: sequences of chunk names
    WholeFile, \* a request without a Range header
    Servings,  \* how servers make URLs: of {"random", "secret", "presign"}
    UrlTtl,    \* auth.shard_key_ttl_seconds, in ticks
    MaxTerms,  \* bound: the terms of a description
    MaxClock   \* bound: the last value of the clock

ASSUME DownloadAssumption ==
    /\ {UrlTtl, MaxTerms, MaxClock} \subseteq Nat
    /\ Servings \subseteq {"random", "secret", "presign"}

VARIABLES
    clock,
    serving,  \* how this server makes URLs
    key,      \* the xorb_url_key of the process that is running
    content,  \* the content of the file
    gone,     \* what has been deleted: "row", "shard", or a xorb
    sized,    \* xorbs whose layout is in the index, with compressed sizes
    dl        \* the download

vars == <<clock, serving, key, content, gone, sized, dl>>

server == <<clock, serving, key>>

ChunkNames(terms) == FlattenSeq([k \in DOMAIN terms |-> TermChunks(terms[k])])

TermsIn(x) ==
    UNION {[xorb: {x}, start: {a}, end: (a + 1)..Len(Frames[x])] :
              a \in 0..Len(Frames[x]) - 1}

TermSet == UNION {TermsIn(x) : x \in Xorbs}

(* Every way a shard may describe a file: registration accepts the terms     *)
(* whose chunks hash to it.                                                  *)
Described ==
    LET named == {<<ChunkNames(terms), terms>> :
                     terms \in UNION {[1..n -> TermSet] : n \in 1..MaxTerms}}
    IN  [c \in Contents |-> {d[2] : d \in {e \in named : e[1] = c}}]

FileBytes == [c \in Contents |-> BytesOf(c)]

(* Requests the clients send: a range has start <= end. *)
Ranges(c) ==
    LET size == Len(FileBytes[c])
    IN  {WholeFile} \cup {r \in [first: 0..size, last: 0..size] : r.first <= r.last}

KeyOf_AlwaysDrawn(process) == process

(* main: the secret, or random bytes drawn when the process starts. *)
KeyOf(process) == IF serving = "secret" THEN "secret" ELSE process

Idle == [pc |-> "idle"]

Failed(d) ==
    [pc |-> "failed", at |-> d.pc, range |-> d.range, terms |-> d.terms, exp |-> d.exp]

Init ==
    /\ clock = 0
    /\ serving \in Servings
    /\ key = KeyOf("first")
    /\ content \in Contents
    /\ gone = {}
    /\ sized \in SUBSET Xorbs
    /\ dl = Idle

(* authorize_file_read and the lookup of the row find the file. *)
Request(r, terms) ==
    /\ dl = Idle
    /\ "row" \notin gone
    /\ dl' = [pc |-> "shard", range |-> r, terms |-> terms, exp |-> 0]
    /\ UNCHANGED <<server, content, gone, sized>>

NotFound(r) ==
    /\ dl = Idle
    /\ "row" \in gone
    /\ dl' = Failed([pc |-> "idle", range |-> r, terms |-> <<>>, exp |-> 0])
    /\ UNCHANGED <<server, content, gone, sized>>

TermXorbs(terms) == {terms[i].xorb : i \in DOMAIN terms}

(* The shard is read and the terms trimmed; the expiry of the URLs is set. *)
ReadShard ==
    /\ dl.pc = "shard"
    /\ LET satisfiable == dl.range = WholeFile \/ dl.range.first < FileSize(dl.terms)
           trim == IF dl.range = WholeFile THEN [offset |-> 0, terms |-> dl.terms]
                   ELSE Trimmed(dl.terms, dl.range.first, dl.range.last)
       IN  IF "shard" \in gone \/ ~satisfiable
             THEN dl' = Failed(dl)
             ELSE dl' = [pc |-> "plan", range |-> dl.range, terms |-> trim.terms,
                         offset |-> trim.offset, exp |-> clock + UrlTtl,
                         todo |-> TermXorbs(trim.terms), descs |-> {}]
    /\ UNCHANGED <<server, content, gone, sized>>

(* presigned_xorb_url when the backend has a signer, else sign_xorb_url.  A *)
(* presigned URL expires so long after this moment, a signed one after the  *)
(* moment all URLs of the plan share.                                       *)
UrlFor(x, span) ==
    IF serving = "presign" THEN PresignedUrl(x, clock + UrlTtl)
    ELSE SignedUrl(key, x, span, dl.exp)

WithUrl(d) ==
    [xorb |-> d.xorb, chunks |-> d.chunks, bytes |-> d.bytes,
     url |-> UrlFor(d.xorb, d.bytes)]

(* One entry of build_xorb_fetch_entries: the layout if it has sizes, else   *)
(* the xorb itself.  The last entry completes the answer.                    *)
ResolveXorb(x) ==
    /\ dl.pc = "plan"
    /\ x \in dl.todo
    /\ IF x \notin sized /\ x \in gone
         THEN dl' = Failed(dl)
         ELSE LET offsets == IF x \in sized THEN OffsetsFromLayout(x) ELSE OffsetsFromXorb(x)
                  descs == dl.descs \cup
                              {WithUrl(d) : d \in Descriptors(dl.terms, x, offsets)}
              IN  dl' = IF dl.todo # {x}
                          THEN [dl EXCEPT !.todo = @ \ {x}, !.descs = descs]
                          ELSE [pc |-> "fetch", range |-> dl.range, terms |-> dl.terms,
                                offset |-> dl.offset, exp |-> dl.exp, descs |-> descs,
                                parts |-> [i \in DOMAIN dl.terms |-> <<>>]]
    /\ UNCHANGED <<server, content, gone, sized>>

(* The descriptor whose chunks cover the term's. *)
Covers(d, term) ==
    /\ d.xorb = term.xorb
    /\ d.chunks.start <= term.start
    /\ d.chunks.end >= term.end

(* A fetch of term i that the xorb route or the store answers, and that     *)
(* decodes.                                                                 *)
Served(d, term) ==
    /\ UrlLive(d.url, key, clock)
    /\ Granted(d.url, term.xorb, d.bytes)
    /\ term.xorb \notin gone
    /\ Decodes(term.xorb, d.bytes, term.start - d.chunks.start, term.end - d.chunks.start)

FetchTerm(i) ==
    /\ dl.pc = "fetch"
    /\ dl.parts[i] = <<>>
    /\ \E d \in dl.descs :
          /\ Covers(d, dl.terms[i])
          /\ Served(d, dl.terms[i])
          /\ dl' = [dl EXCEPT !.parts[i] =
                       Decoded(dl.terms[i].xorb, d.bytes,
                               dl.terms[i].start - d.chunks.start,
                               dl.terms[i].end - d.chunks.start)]
    /\ UNCHANGED <<server, content, gone, sized>>

(* One fetch that fails fails the download. *)
FetchFails(i) ==
    /\ dl.pc = "fetch"
    /\ dl.parts[i] = <<>>
    /\ ~\E d \in dl.descs : Covers(d, dl.terms[i]) /\ Served(d, dl.terms[i])
    /\ dl' = Failed(dl)
    /\ UNCHANGED <<server, content, gone, sized>>

Clip_OneShort(joined, offset, range) ==
    SubSeq(joined, offset + 1,
           Min({offset + (range.last - range.first), Len(joined)}))

(* "Terms are chunk-aligned; trim to the exact requested byte window." *)
Clip(joined, offset, range) ==
    IF range = WholeFile THEN SubSeq(joined, offset + 1, Len(joined))
    ELSE SubSeq(joined, offset + 1,
                Min({offset + (range.last - range.first + 1), Len(joined)}))

Join ==
    /\ dl.pc = "fetch"
    /\ \A i \in DOMAIN dl.terms : dl.parts[i] # <<>>
    /\ dl' = [pc |-> "done", range |-> dl.range,
              bytes |-> Clip(FlattenSeq(dl.parts), dl.offset, dl.range)]
    /\ UNCHANGED <<server, content, gone, sized>>

(* What happens once the download has ended cannot matter to it. *)
Underway == dl.pc \notin {"done", "failed", "cut"}

(* The process stops and a new one starts.  A reconstruction request that   *)
(* is under way is cut off; fetches that are, are as if not yet sent.       *)
Restart ==
    /\ Underway /\ dl # Idle
    /\ key # "second"
    /\ key' = KeyOf("second")
    /\ dl' = IF dl.pc = "fetch" THEN dl ELSE [pc |-> "cut"]
    /\ UNCHANGED <<clock, serving, content, gone, sized>>

(* Other tasks: delete_file removes the row, passes remove shards and xorbs, *)
(* a xorb's layout before its blob.                                          *)
Lose(o) ==
    /\ Underway
    /\ o \notin gone
    /\ o \notin sized
    /\ gone' = gone \cup {o}
    /\ UNCHANGED <<server, content, sized, dl>>

PurgeLayout(x) ==
    /\ Underway
    /\ sized' = sized \ {x}
    /\ UNCHANGED <<server, content, gone, dl>>

Tick ==
    /\ Underway
    /\ clock < MaxClock
    /\ clock' = clock + 1
    /\ UNCHANGED <<serving, key, content, gone, sized, dl>>

Next ==
    \/ dl = Idle /\ \E r \in Ranges(content) :
          \/ NotFound(r)
          \/ \E terms \in Described[content] : Request(r, terms)
    \/ ReadShard
    \/ \E x \in Xorbs : ResolveXorb(x)
    \/ dl.pc = "fetch" /\ \E i \in DOMAIN dl.terms : FetchTerm(i) \/ FetchFails(i)
    \/ Join
    \/ \E o \in Xorbs \cup {"row", "shard"} : Lose(o)
    \/ \E x \in sized : PurgeLayout(x)
    \/ Restart
    \/ Tick

Spec == Init /\ [][Next]_vars

-----------------------------------------------------------------------------
Wanted(c, r) ==
    IF r = WholeFile THEN FileBytes[c]
    ELSE SubSeq(FileBytes[c], r.first + 1, Min({r.last + 1, Len(FileBytes[c])}))

(* A download that ends well has the bytes that were asked for and no other, *)
(* whatever shard describes the file, from whatever xorbs, whether a chunk's *)
(* position came from a layout or from the xorb, and whatever was deleted.   *)
DownloadCorrect == dl.pc = "done" => dl.bytes = Wanted(content, dl.range)

Needed(d, i) ==
    LET want == IF d.range = WholeFile THEN Len(FileBytes[content])
                ELSE d.range.last - d.range.first + 1
    IN  /\ TermStart(d.terms, i) < d.offset + want
        /\ TermStart(d.terms, i) + UnpackedLength(d.terms[i]) > d.offset

(* "A URL only ever unlocks the bytes its reconstruction response described"  *)
(* (fetch_url.rs), a xorb can hold other tenants' chunks: the URLs of a plan *)
(* unlock the frames of the terms (where the server signs them: a presigned  *)
(* one is for the whole xorb), every term holds a byte of the answer, and no *)
(* two descriptors of a xorb overlap or adjoin.                              *)
GrantsOnlyNeeded ==
    dl.pc = "fetch" =>
        /\ serving # "presign" =>
              UNION {{d.xorb} \X (d.url.span.first .. d.url.span.last) : d \in dl.descs}
                = UNION {{t.xorb} \X (Boundary[t.xorb][t.start] .. Boundary[t.xorb][t.end] - 1)
                            : t \in ToSet(dl.terms)}
        /\ \A i \in DOMAIN dl.terms : Needed(dl, i)
        /\ \A d, e \in dl.descs :
              (d # e /\ d.xorb = e.xorb)
                => d.bytes.last + 1 < e.bytes.first \/ e.bytes.last + 1 < d.bytes.first

(* A download that got as far as a plan fails only when a xorb of the terms  *)
(* it was given is deleted, its URLs expire, or a server without a secret is *)
(* restarted ("a restart invalidates outstanding URLs", config.rs): never    *)
(* for want of a descriptor, for a slice that does not decode, by a restart  *)
(* where there is a secret or the store signs, or because the file, its      *)
(* shard, or a xorb outside the range was deleted meanwhile.                 *)
FailsForCause ==
    (dl.pc = "failed" /\ dl.at \in {"plan", "fetch"})
        => \/ TermXorbs(dl.terms) \cap gone # {}
           \/ clock > dl.exp
           \/ serving = "random" /\ key = "second"
=============================================================================
