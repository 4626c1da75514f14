--------------------------- MODULE Reconstruction ---------------------------
(***************************************************************************)
(* What GET /v1|v2/reconstructions/{file_id} computes: the terms that      *)
(* overlap a byte range, the chunk ranges they need of each xorb, the byte *)
(* spans those occupy in the xorb, and a signed URL for each span.         *)
(*                                                                         *)
(* A xorb is a sequence of chunk frames, each a header and the compressed  *)
(* chunk; chunk indices count from 0, ranges of chunks exclude their end,  *)
(* ranges of bytes include it, as they do in the code.                     *)
(***************************************************************************)
EXTENDS Integers, Sequences, FiniteSets, SequencesExt, FiniteSetsExt

CONSTANTS
    Xorbs,
    Chunks,   \* chunk hashes
    RawSize,  \* RawSize[c]: the bytes of chunk c
    Frames,   \* Frames[x]: [chunk, packed] of each frame of x, in order
    Header    \* XORB_CHUNK_HEADER_LENGTH

ASSUME HeaderAssumption == Header \in Nat

(* packed is the compressed size of a chunk, without its header. *)
ASSUME FramesAssumption ==
    /\ RawSize \in [Chunks -> Nat \ {0}]
    /\ \A x \in Xorbs : /\ Frames[x] \in Seq([chunk: Chunks, packed: Nat \ {0}])
                        /\ Frames[x] # <<>>

(* Totals(s)[i] is the sum of the first i of s: a running offset.           *)
Totals(s) ==
    LET sum[i \in 0..Len(s)] == IF i = 0 THEN 0 ELSE sum[i - 1] + s[i]
    IN  sum

-----------------------------------------------------------------------------
(* Chunk positions.                                                         *)

(* chunk_boundary_offsets: where each frame ends, in the xorb. *)
Boundary ==
    [x \in Xorbs |->
        Totals([k \in DOMAIN Frames[x] |-> Header + Frames[x][k].packed])]

(* The layout recorded at upload has the compressed sizes, without headers. *)
CompressedSize(x, i) == Boundary[x][i] - Boundary[x][i - 1] - Header

OffsetsFromXorb(x) ==
    [i \in DOMAIN Frames[x] |-> [start |-> Boundary[x][i - 1], end |-> Boundary[x][i]]]

(* chunk_byte_offsets_from_layout *)
OffsetsFromLayout(x) ==
    LET pos == Totals([k \in DOMAIN Frames[x] |-> Header + CompressedSize(x, k)])
    IN  [i \in DOMAIN Frames[x] |-> [start |-> pos[i - 1], end |-> pos[i]]]

-----------------------------------------------------------------------------
(* Terms: [xorb, start, end].                                               *)

ChunksOf(frames) == [k \in DOMAIN frames |-> frames[k].chunk]

TermChunks(term) == SubSeq(ChunksOf(Frames[term.xorb]), term.start + 1, term.end)

RawSizes(cs) == [k \in DOMAIN cs |-> RawSize[cs[k]]]

(* The same as Boundary of the chunks before they were compressed. *)
RawBoundary == [x \in Xorbs |-> Totals(RawSizes(ChunksOf(Frames[x])))]

(* unpacked_length; registration has checked it against the xorb's chunks. *)
UnpackedLength(term) == RawBoundary[term.xorb][term.end] - RawBoundary[term.xorb][term.start]

(* byte_offset, before the first term and after each. *)
ByteOffset(terms) == Totals([k \in DOMAIN terms |-> UnpackedLength(terms[k])])

FileSize(terms) == ByteOffset(terms)[Len(terms)]

TermStart(terms, i) == ByteOffset(terms)[i - 1]

Overlapping_Touching(terms, first, last) ==
    {i \in DOMAIN terms :
        /\ TermStart(terms, i) <= last
        /\ TermStart(terms, i) + UnpackedLength(terms[i]) >= first}

(* The terms that overlap bytes first..last, last already clamped. *)
Overlapping(terms, first, last) ==
    {i \in DOMAIN terms :
        /\ TermStart(terms, i) <= last
        /\ TermStart(terms, i) + UnpackedLength(terms[i]) > first}

(* offset_into_first_range and the trimmed terms. *)
Trimmed(terms, first, last) ==
    LET kept == Overlapping(terms, first, Min({last, FileSize(terms) - 1}))
    IN  [offset |-> Max({0, first - TermStart(terms, Min(kept))}),
         terms  |-> SubSeq(terms, Min(kept), Max(kept))]

-----------------------------------------------------------------------------
(* Fetch ranges.                                                            *)

Before(r, s) == r.start < s.start \/ (r.start = s.start /\ r.end < s.end)

MergeInto_Forgets(merged, r) ==
    IF merged # <<>> /\ r.start <= Last(merged).end
      THEN [merged EXCEPT ![Len(merged)].end = r.end]
      ELSE Append(merged, r)

(* Ranges that overlap or touch the last one so far are taken into it. *)
MergeInto(merged, r) ==
    IF merged # <<>> /\ r.start <= Last(merged).end
      THEN [merged EXCEPT ![Len(merged)].end = Max({@, r.end})]
      ELSE Append(merged, r)

Sorted(ranges) ==
    CHOOSE s \in SetToSeqs(ranges) :
        \A i, j \in DOMAIN s : i < j => Before(s[i], s[j])

(* The ranges once the loop has been through the first i of s. *)
Merged(s) ==
    LET merged[i \in 0..Len(s)] ==
            IF i = 0 THEN <<>> ELSE MergeInto(merged[i - 1], s[i])
    IN  merged

RangesOf(terms, x) ==
    {[start |-> terms[i].start, end |-> terms[i].end] :
        i \in {k \in DOMAIN terms : terms[k].xorb = x}}

(* merged_chunk_ranges_per_xorb, for one xorb. *)
MergedRanges(terms, x) ==
    LET s == Sorted(RangesOf(terms, x))
    IN  ToSet(Merged(s)[Len(s)])

(* The bytes of chunks r.start..r.end - 1, the last one included. *)
ByteSpan(offsets, r) ==
    [first |-> offsets[r.start + 1].start,
     last  |-> offsets[Min({r.end, Len(offsets)})].end - 1]

(* sign_xorb_url: what the MAC covers. *)
SignedUrl(key, x, span, exp) == [key |-> key, xorb |-> x, span |-> span, exp |-> exp]

(* A URL the object store signed for itself: for all of the xorb. *)
PresignedUrl(x, exp) ==
    [key |-> "store", xorb |-> x, exp |-> exp,
     span |-> [first |-> 0, last |-> Boundary[x][Len(Frames[x])] - 1]]

(* One descriptor per merged range that starts inside the xorb. *)
Descriptors(terms, x, offsets) ==
    {[xorb |-> x, chunks |-> r, bytes |-> ByteSpan(offsets, r)] :
        r \in {m \in MergedRanges(terms, x) : m.start < Len(offsets)}}

-----------------------------------------------------------------------------
(* The xorb route and the client's decoder.                                 *)

(* verify_xorb_url, by a server whose key this is.  The object store keeps  *)
(* a key of its own.                                                        *)
UrlLive(url, key, now) == url.key \in {key, "store"} /\ now <= url.exp

(* get_xorb: a signed URL serves a range inside the signed span only. *)
Granted(url, x, span) ==
    /\ url.xorb = x
    /\ span.first >= url.span.first
    /\ span.last <= url.span.last

(* decode_chunks parses a slice frame by frame: it needs the slice to be    *)
(* whole frames.                                                            *)
FramesIn(x, span) ==
    {i \in DOMAIN Frames[x] : /\ Boundary[x][i - 1] >= span.first
                              /\ Boundary[x][i] - 1 <= span.last}

WholeFrames(x, span) ==
    LET slice == FramesIn(x, span)
    IN  /\ slice # {}
        /\ Boundary[x][Min(slice) - 1] = span.first
        /\ Boundary[x][Max(slice)] - 1 = Min({span.last, Boundary[x][Len(Frames[x])] - 1})

(* Frames start..end - 1 of the slice, when it has that many. *)
Decodes(x, span, start, end) ==
    WholeFrames(x, span) /\ start <= end /\ end <= Cardinality(FramesIn(x, span))

(* The bytes of a chunk, and of a sequence of them. *)
ChunkBytes(c) == [k \in 1..RawSize[c] |-> <<c, k>>]

BytesOf(cs) == FlattenSeq([i \in DOMAIN cs |-> ChunkBytes(cs[i])])

Unpacked == [x \in Xorbs |-> BytesOf(ChunksOf(Frames[x]))]

Decoded(x, span, start, end) ==
    LET base == Min(FramesIn(x, span)) - 1
    IN  SubSeq(Unpacked[x], RawBoundary[x][base + start] + 1, RawBoundary[x][base + end])
=============================================================================
