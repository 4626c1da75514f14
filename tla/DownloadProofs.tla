---------------------------- MODULE DownloadProofs ----------------------------
(***************************************************************************)
(* Theorems about Download, for any chunks and sizes, any xorbs and        *)
(* frames, any descriptions of any files, every range, and every order of  *)
(* deletions, restarts and fetches: the answer is exact (DownloadCorrect), *)
(* nothing but a cause fails it (FailsForCause), and no URL grants a byte  *)
(* more than the terms (GrantsOnlyNeeded).  The first part is about what   *)
(* the server computes (offsets, merged ranges, trimming) and what the     *)
(* client makes of it; the second about the steps.                         *)
(***************************************************************************)
EXTENDS Download, FoldFacts

-----------------------------------------------------------------------------
(* Totals is a CHOOSE: such a function exists, and has the running totals.  *)

LEMMA TotalsRecur ==
    ASSUME NEW s \in Seq(Nat)
    PROVE  IsTotals(Totals(s), s)
<1> DEFINE n == Len(s)
           step == [i \in 1..n |-> [k \in Nat |-> k + s[i]]]
           Is(f) == f = [i \in 0..n |-> IF i = 0 THEN 0 ELSE f[i - 1] + s[i]]
<1>1. n \in Nat /\ \A i \in 1..n : s[i] \in Nat
  OBVIOUS
<1>2. step \in [1..n -> [Nat -> Nat]]
  BY <1>1
<1>3. PICK f : Recurs(f, n, Nat, 0, step)
  <2> HIDE DEF step, n
  <2> QED
    BY <1>1, <1>2, RecursionExists
<1>4. f \in [0..n -> Nat] /\ f[0] = 0
  BY <1>3 DEF Recurs
<1>5. ASSUME NEW i \in 1..n PROVE f[i] = f[i - 1] + s[i]
  <2>1. f[i] = step[i][f[i - 1]]
    <3> HIDE DEF step, n
    <3> QED
      BY <1>3 DEF Recurs
  <2>2. f[i - 1] \in Nat
    <3> HIDE DEF n
    <3>1. i - 1 \in 0..n
      BY <1>1
    <3> QED
      BY <1>4, <3>1
  <2> QED
    BY <2>1, <2>2
<1>6. Is(f)
  <2> HIDE DEF n
  <2>1. f = [i \in 0..n |-> f[i]]
    BY <1>4
  <2>2. ASSUME NEW i \in 0..n PROVE f[i] = IF i = 0 THEN 0 ELSE f[i - 1] + s[i]
    <3>1. i # 0 => i \in 1..n
      BY <1>1
    <3> QED
      BY <1>4, <1>5, <3>1
  <2> QED
    BY <2>1, <2>2
<1>7. Is(Totals(s))
  BY <1>6 DEF Totals
<1> DEFINE g == Totals(s)
<1>8. g = [i \in 0..n |-> IF i = 0 THEN 0 ELSE g[i - 1] + s[i]]
  <2> HIDE DEF g
  <2> QED
    BY <1>7 DEF g
<1> HIDE DEF g, n, step
<1>9. g[0] = 0 /\ \A i \in 1..n : g[i] = g[i - 1] + s[i]
  <2>1. 0 \in 0..n
    BY <1>1
  <2>2. ASSUME NEW i \in 1..n PROVE g[i] = g[i - 1] + s[i]
    <3>1. i \in 0..n /\ i # 0
      BY <1>1
    <3> QED
      BY <1>8, <3>1
  <2> QED
    BY <1>8, <2>1, <2>2
<1> DEFINE D == {i \in Nat : i <= n => g[i] \in Nat}
<1>10. D = Nat
  <2>1. 0 \in D
    BY <1>9
  <2>2. ASSUME NEW i \in D PROVE i + 1 \in D
    <3> SUFFICES ASSUME i + 1 <= n PROVE g[i + 1] \in Nat
      OBVIOUS
    <3>1. i + 1 \in 1..n /\ (i + 1) - 1 = i /\ g[i] \in Nat
      BY <1>1
    <3>2. g[i + 1] = g[i] + s[i + 1]
      BY <1>9, <3>1
    <3> QED
      BY <1>1, <3>1, <3>2
  <2>3. D \in SUBSET Nat
    OBVIOUS
  <2> HIDE DEF D
  <2> QED
    BY <2>1, <2>2, <2>3, NatInd
<1>11. \A i \in 0..n : g[i] \in Nat
  BY <1>1, <1>10
<1>12. g \in [0..n -> Nat]
  <2>1. g = [i \in 0..n |-> g[i]]
    BY <1>8
  <2> QED
    BY <1>11, <2>1
<1> QED
  BY <1>9, <1>12 DEF IsTotals, g, n

-----------------------------------------------------------------------------
(* The bytes of chunks: a sequence for each chunk, one after the other.     *)

Byte == Chunks \X Nat

Parts(cs) == [i \in DOMAIN cs |-> ChunkBytes(cs[i])]

(* The bytes of cs are its parts flattened, and the sizes of the parts are  *)
(* those that the raw offsets are totals of.                                *)
LEMMA PartsFacts ==
    ASSUME NEW cs \in Seq(Chunks)
    PROVE  /\ Parts(cs) \in Seq(Seq(Byte)) /\ Len(Parts(cs)) = Len(cs)
           /\ \A k \in 1..Len(cs) : Parts(cs)[k] = ChunkBytes(cs[k])
           /\ BytesOf(cs) = FlattenSeq(Parts(cs)) /\ BytesOf(cs) \in Seq(Byte)
           /\ Lengths(Parts(cs)) = RawSizes(cs)
           /\ RawSizes(cs) \in Seq(Nat) /\ Len(RawSizes(cs)) = Len(cs)
           /\ \A k \in 1..Len(cs) : RawSizes(cs)[k] > 0
<1>1. ASSUME NEW c \in Chunks
      PROVE  /\ RawSize[c] \in Nat /\ RawSize[c] > 0
             /\ ChunkBytes(c) \in Seq(Byte) /\ Len(ChunkBytes(c)) = RawSize[c]
  <2>1. RawSize[c] \in Nat /\ RawSize[c] > 0
    BY FramesAssumption
  <2>2. ChunkBytes(c) \in [1..RawSize[c] -> Byte]
    BY <2>1 DEF ChunkBytes, Byte
  <2> QED
    BY <2>1, <2>2
<1>2. /\ Len(cs) \in Nat /\ DOMAIN cs = 1..Len(cs)
      /\ \A k \in 1..Len(cs) : cs[k] \in Chunks
  OBVIOUS
<1>3. Parts(cs) = [k \in 1..Len(cs) |-> ChunkBytes(cs[k])]
  BY <1>2 DEF Parts
<1>4. Parts(cs) \in [1..Len(cs) -> Seq(Byte)]
  BY <1>1, <1>2, <1>3
<1>5. Parts(cs) \in Seq(Seq(Byte)) /\ Len(Parts(cs)) = Len(cs)
  BY <1>2, <1>4
<1>6. BytesOf(cs) = FlattenSeq(Parts(cs))
  BY DEF BytesOf, Parts
<1>7. BytesOf(cs) \in Seq(Byte)
  <2>1. <<>> \in Seq(Seq(Byte))
    OBVIOUS
  <2> QED
    BY <1>5, <1>6, <2>1, FlattenConcat
<1>8. RawSizes(cs) = [k \in 1..Len(cs) |-> RawSize[cs[k]]]
  BY <1>2 DEF RawSizes
<1>9. \A k \in 1..Len(cs) : RawSizes(cs)[k] \in Nat /\ RawSizes(cs)[k] > 0
  BY <1>1, <1>2, <1>8
<1>10. RawSizes(cs) \in Seq(Nat) /\ Len(RawSizes(cs)) = Len(cs)
  <2>1. RawSizes(cs) \in [1..Len(cs) -> Nat]
    BY <1>8, <1>9
  <2> QED
    BY <1>2, <2>1
<1>11. Lengths(Parts(cs)) = RawSizes(cs)
  <2>1. /\ Lengths(Parts(cs)) \in Seq(Nat) /\ Len(Lengths(Parts(cs))) = Len(cs)
        /\ \A k \in 1..Len(cs) : Lengths(Parts(cs))[k] = Len(Parts(cs)[k])
    BY <1>5, LengthsOfSeq
  <2>2. \A k \in 1..Len(cs) : Lengths(Parts(cs))[k] = RawSizes(cs)[k]
    BY <1>1, <1>2, <1>3, <1>8, <2>1
  <2> QED
    BY <1>10, <2>1, <2>2, SeqEqual
<1> QED
  BY <1>3, <1>5, <1>6, <1>7, <1>9, <1>10, <1>11

(* BytesOf of two sequences of chunks, one after the other. *)
LEMMA BytesConcat ==
    ASSUME NEW a \in Seq(Chunks), NEW b \in Seq(Chunks)
    PROVE  BytesOf(a \o b) = BytesOf(a) \o BytesOf(b)
<1> DEFINE c == a \o b
           P == Parts(c)
           Q == Parts(a) \o Parts(b)
<1>1. /\ c \in Seq(Chunks) /\ Len(c) = Len(a) + Len(b)
      /\ \A i \in 1..Len(a) + Len(b) : c[i] = IF i <= Len(a) THEN a[i] ELSE b[i - Len(a)]
  BY ConcatProperties
<1>2. /\ Parts(a) \in Seq(Seq(Byte)) /\ Len(Parts(a)) = Len(a)
      /\ Parts(b) \in Seq(Seq(Byte)) /\ Len(Parts(b)) = Len(b)
      /\ \A k \in 1..Len(a) : Parts(a)[k] = ChunkBytes(a[k])
      /\ \A k \in 1..Len(b) : Parts(b)[k] = ChunkBytes(b[k])
  BY PartsFacts
<1>3. /\ Q \in Seq(Seq(Byte)) /\ Len(Q) = Len(a) + Len(b)
      /\ \A i \in 1..Len(a) + Len(b) :
            Q[i] = IF i <= Len(a) THEN Parts(a)[i] ELSE Parts(b)[i - Len(a)]
  <2> DEFINE u == Parts(a)
             v == Parts(b)
  <2>1. u \in Seq(Seq(Byte)) /\ v \in Seq(Seq(Byte))
    BY <1>2
  <2> HIDE DEF u, v, P, c
  <2>2. /\ u \o v \in Seq(Seq(Byte)) /\ Len(u \o v) = Len(u) + Len(v)
        /\ \A i \in 1..Len(u) + Len(v) : (u \o v)[i] = IF i <= Len(u) THEN u[i] ELSE v[i - Len(u)]
    BY ONLY <2>1, ConcatProperties
  <2> QED
    BY <1>2, <2>2 DEF u, v
<1> HIDE DEF c
<1>4. /\ P \in Seq(Seq(Byte)) /\ Len(P) = Len(a) + Len(b)
      /\ \A i \in 1..Len(a) + Len(b) : P[i] = ChunkBytes(c[i])
  BY <1>1, PartsFacts
<1> HIDE DEF P, Q
<1>5. ASSUME NEW i \in 1..Len(a) + Len(b) PROVE P[i] = Q[i]
  <2>0. Len(a) \in Nat /\ Len(b) \in Nat
    OBVIOUS
  <2>1. CASE i <= Len(a)
    <3>1. i \in 1..Len(a)
      BY <2>0, <2>1
    <3>2. P[i] = ChunkBytes(c[i]) /\ c[i] = a[i]
      BY <1>1, <1>4, <2>1
    <3>3. Q[i] = Parts(a)[i] /\ Parts(a)[i] = ChunkBytes(a[i])
      BY <1>2, <1>3, <2>1, <3>1
    <3> QED
      BY <3>2, <3>3
  <2>2. CASE ~(i <= Len(a))
    <3>1. i - Len(a) \in 1..Len(b)
      BY <2>0, <2>2
    <3> QED
      BY <1>1, <1>2, <1>3, <1>4, <2>2, <3>1
  <2> QED
    BY <2>1, <2>2
<1>6. P = Q
  BY <1>3, <1>4, <1>5, SeqEqual
<1>7. FlattenSeq(P) = FlattenSeq(Parts(a)) \o FlattenSeq(Parts(b))
  BY <1>2, <1>6, FlattenConcat DEF Q
<1>8. /\ BytesOf(c) = FlattenSeq(P)
      /\ BytesOf(a) = FlattenSeq(Parts(a)) /\ BytesOf(b) = FlattenSeq(Parts(b))
  BY <1>1, PartsFacts DEF P
<1> QED
  BY <1>7, <1>8 DEF c

EachBytes(css) == [k \in DOMAIN css |-> BytesOf(css[k])]

LEMMA EachBytesFacts ==
    ASSUME NEW css \in Seq(Seq(Chunks))
    PROVE  /\ EachBytes(css) \in Seq(Seq(Byte)) /\ Len(EachBytes(css)) = Len(css)
           /\ \A k \in 1..Len(css) : EachBytes(css)[k] = BytesOf(css[k])
<1>1. /\ Len(css) \in Nat /\ DOMAIN css = 1..Len(css)
      /\ \A k \in 1..Len(css) : css[k] \in Seq(Chunks)
  OBVIOUS
<1>2. \A k \in 1..Len(css) : BytesOf(css[k]) \in Seq(Byte)
  BY <1>1, PartsFacts
<1>3. EachBytes(css) = [k \in 1..Len(css) |-> BytesOf(css[k])]
  BY <1>1 DEF EachBytes
<1>4. EachBytes(css) \in [1..Len(css) -> Seq(Byte)]
  BY <1>2, <1>3
<1> QED
  BY <1>1, <1>3, <1>4

(* The bytes of a flattened sequence, as those of each of its members. *)
LEMMA BytesFlatten ==
    ASSUME NEW css \in Seq(Seq(Chunks))
    PROVE  BytesOf(FlattenSeq(css)) = FlattenSeq(EachBytes(css))
<1> DEFINE Is(ds) == BytesOf(FlattenSeq(ds)) = FlattenSeq(EachBytes(ds))
           D == {n \in Nat : \A ds \in Seq(Seq(Chunks)) : Len(ds) = n => Is(ds)}
<1>1. 0 \in D
  <2> SUFFICES ASSUME NEW ds \in Seq(Seq(Chunks)), Len(ds) = 0 PROVE Is(ds)
    OBVIOUS
  <2>1. Len(EachBytes(ds)) = 0 /\ EachBytes(ds) \in Seq(Seq(Byte))
    BY EachBytesFacts
  <2>2. ds = <<>> /\ EachBytes(ds) = <<>>
    BY <2>1, EmptySeq
  <2>3. FlattenSeq(<<>>) = <<>> /\ <<>> \in Seq(Chunks) /\ Len(<<>>) = 0
    BY DEF FlattenSeq
  <2>4. Parts(<<>>) = <<>>
    BY <2>3, PartsFacts, EmptySeq
  <2>5. BytesOf(<<>>) = <<>>
    BY <2>3, <2>4, PartsFacts
  <2> QED
    BY <2>2, <2>3, <2>5
<1>2. ASSUME NEW n \in D PROVE n + 1 \in D
  <2> SUFFICES ASSUME NEW ds \in Seq(Seq(Chunks)), Len(ds) = n + 1 PROVE Is(ds)
    OBVIOUS
  <2>0. n \in Nat
    OBVIOUS
  <2>1. ds # <<>>
    BY <2>0, EmptySeq
  <2>2. PICK es \in Seq(Seq(Chunks)), x \in Seq(Chunks) : ds = Append(es, x)
    BY <2>1, SequenceEmptyOrAppend
  <2>3. /\ Len(es) = n /\ Len(es) \in Nat
        /\ ds[n + 1] = x /\ \A k \in 1..n : ds[k] = es[k]
    <3>1. /\ Len(ds) = Len(es) + 1 /\ Len(es) \in Nat
          /\ ds[Len(es) + 1] = x /\ \A k \in 1..Len(es) : ds[k] = es[k]
      BY <2>2, AppendProperties
    <3>2. Len(es) = n
      BY <2>0, <3>1
    <3> QED
      BY <3>1, <3>2
  <2>4. Is(es)
    BY <2>3
  <2>5. EachBytes(ds) = Append(EachBytes(es), BytesOf(x))
    <3> DEFINE u == EachBytes(ds)
               v == EachBytes(es)
               w == Append(v, BytesOf(x))
    <3>1. u \in Seq(Seq(Byte)) /\ Len(u) = n + 1 /\ \A k \in 1..n + 1 : u[k] = BytesOf(ds[k])
      BY EachBytesFacts
    <3>2. v \in Seq(Seq(Byte)) /\ Len(v) = n /\ \A k \in 1..n : v[k] = BytesOf(es[k])
      BY <2>3, EachBytesFacts
    <3>3. BytesOf(x) \in Seq(Byte)
      BY PartsFacts
    <3> HIDE DEF u, v
    <3>4. /\ w \in Seq(Seq(Byte)) /\ Len(w) = n + 1
          /\ w[n + 1] = BytesOf(x) /\ \A k \in 1..n : w[k] = v[k]
      BY <3>2, <3>3, AppendProperties
    <3> HIDE DEF w
    <3>5. ASSUME NEW k \in 1..n + 1 PROVE u[k] = w[k]
      <4>1. k \in 1..n \/ k = n + 1
        BY <2>0
      <4> QED
        BY <2>3, <3>1, <3>2, <3>4, <4>1
    <3>6. u = w
      BY <3>1, <3>4, <3>5, SeqEqual
    <3> QED
      BY <3>6 DEF u, v, w
  <2>6. /\ FlattenSeq(ds) = FlattenSeq(es) \o x
        /\ FlattenSeq(es) \in Seq(Chunks)
    BY <2>2, FlattenAppend
  <2>7. FlattenSeq(EachBytes(ds)) = FlattenSeq(EachBytes(es)) \o BytesOf(x)
    <3>1. EachBytes(es) \in Seq(Seq(Byte)) /\ BytesOf(x) \in Seq(Byte)
      BY EachBytesFacts, PartsFacts
    <3> QED
      BY <2>5, <3>1, FlattenAppend
  <2>8. BytesOf(FlattenSeq(ds)) = BytesOf(FlattenSeq(es)) \o BytesOf(x)
    BY <2>6, BytesConcat
  <2> QED
    BY <2>4, <2>7, <2>8
<1>3. D \in SUBSET Nat
  OBVIOUS
<1>4. D = Nat
  <2> HIDE DEF D
  <2> QED
    BY <1>1, <1>2, <1>3, NatInd
<1>5. Len(css) \in D
  BY <1>4
<1> QED
  BY <1>5

-----------------------------------------------------------------------------
(* Xorbs and terms.  What holds of a term t is what follows from IsTerm.    *)

IsTerm(t) ==
    /\ t.xorb \in Xorbs /\ t.start \in Nat /\ t.end \in Nat
    /\ t.start < t.end /\ t.end <= Len(Frames[t.xorb])

(* Every term that a shard may hold lies in its xorb and has a chunk. *)
LEMMA TermsAreTerms == \A t \in TermSet : IsTerm(t)
<1> SUFFICES ASSUME NEW t \in TermSet PROVE IsTerm(t)
  OBVIOUS
<1>1. PICK x \in Xorbs : t \in TermsIn(x)
  BY DEF TermSet
<1>2. Len(Frames[x]) \in Nat
  BY FramesAssumption
<1>3. PICK a \in 0..Len(Frames[x]) - 1 :
          t \in [xorb: {x}, start: {a}, end: (a + 1)..Len(Frames[x])]
  BY <1>1 DEF TermsIn
<1> QED
  BY <1>2, <1>3 DEF IsTerm

FrameSizes(x) == [k \in DOMAIN Frames[x] |-> Header + Frames[x][k].packed]

(* Boundary and RawBoundary are the totals of the frames' sizes on the wire *)
(* and of the chunks' own.                                                  *)
LEMMA XorbFacts ==
    ASSUME NEW x \in Xorbs
    PROVE  /\ Len(Frames[x]) \in Nat \ {0} /\ DOMAIN Frames[x] = 1..Len(Frames[x])
           /\ ChunksOf(Frames[x]) \in Seq(Chunks)
           /\ Len(ChunksOf(Frames[x])) = Len(Frames[x])
           /\ FrameSizes(x) \in Seq(Nat) /\ Len(FrameSizes(x)) = Len(Frames[x])
           /\ \A k \in 1..Len(Frames[x]) : FrameSizes(x)[k] > 0
           /\ IsTotals(Boundary[x], FrameSizes(x))
           /\ IsTotals(RawBoundary[x], RawSizes(ChunksOf(Frames[x])))
           /\ Unpacked[x] = BytesOf(ChunksOf(Frames[x]))
<1> DEFINE n == Len(Frames[x])
<1>1. /\ n \in Nat /\ n # 0 /\ DOMAIN Frames[x] = 1..n
      /\ \A k \in 1..n : /\ Frames[x][k].chunk \in Chunks
                         /\ Frames[x][k].packed \in Nat /\ Frames[x][k].packed > 0
  <2>1. Frames[x] \in Seq([chunk: Chunks, packed: Nat \ {0}]) /\ Frames[x] # <<>>
    BY FramesAssumption
  <2>2. n \in Nat /\ n # 0 /\ DOMAIN Frames[x] = 1..n
    BY <2>1, EmptySeq
  <2>3. \A k \in 1..n : Frames[x][k] \in [chunk: Chunks, packed: Nat \ {0}]
    <3> DEFINE f == Frames[x]
               R == [chunk: Chunks, packed: Nat \ {0}]
    <3>1. f \in Seq(R) /\ n = Len(f)
      BY <2>1
    <3> HIDE DEF f, n, R
    <3>2. \A k \in 1..Len(f) : f[k] \in R
      BY <3>1, ElementOfSeq
    <3> QED
      BY <3>1, <3>2 DEF f, R
  <2> HIDE DEF n
  <2> QED
    BY <2>2, <2>3
<1> HIDE DEF n
<1>2. ChunksOf(Frames[x]) = [k \in 1..n |-> Frames[x][k].chunk]
  BY <1>1 DEF ChunksOf
<1>3. ChunksOf(Frames[x]) \in [1..n -> Chunks]
  BY <1>1, <1>2
<1>4. ChunksOf(Frames[x]) \in Seq(Chunks) /\ Len(ChunksOf(Frames[x])) = n
  BY <1>1, <1>3
<1>5. FrameSizes(x) = [k \in 1..n |-> Header + Frames[x][k].packed]
  BY <1>1 DEF FrameSizes
<1>6. \A k \in 1..n : FrameSizes(x)[k] \in Nat /\ FrameSizes(x)[k] > 0
  BY <1>1, <1>5, HeaderAssumption
<1>7. FrameSizes(x) \in Seq(Nat) /\ Len(FrameSizes(x)) = n
  <2>1. FrameSizes(x) \in [1..n -> Nat]
    BY <1>5, <1>6
  <2> QED
    BY <1>1, <2>1
<1>8. IsTotals(Boundary[x], FrameSizes(x))
  <2>1. Boundary[x] = Totals(FrameSizes(x))
    BY DEF Boundary, FrameSizes
  <2> QED
    BY <1>7, <2>1, TotalsRecur
<1>9. IsTotals(RawBoundary[x], RawSizes(ChunksOf(Frames[x])))
  <2>1. RawSizes(ChunksOf(Frames[x])) \in Seq(Nat)
    BY <1>4, PartsFacts
  <2>2. RawBoundary[x] = Totals(RawSizes(ChunksOf(Frames[x])))
    BY DEF RawBoundary
  <2> QED
    BY <2>1, <2>2, TotalsRecur
<1>10. Unpacked[x] = BytesOf(ChunksOf(Frames[x]))
  BY DEF Unpacked
<1> QED
  BY <1>1, <1>4, <1>6, <1>7, <1>8, <1>9, <1>10 DEF n

(* A slice of a xorb's parts. *)
LEMMA PartsSlice ==
    ASSUME NEW cs \in Seq(Chunks), NEW a \in 0..Len(cs), NEW b \in 0..Len(cs), a <= b
    PROVE  /\ SubSeq(cs, a + 1, b) \in Seq(Chunks)
           /\ SubSeq(Parts(cs), a + 1, b) = Parts(SubSeq(cs, a + 1, b))
<1> DEFINE ps == Parts(cs)
           lo == a + 1
           n == b - lo + 1
           u == SubSeq(ps, lo, b)
           v == SubSeq(cs, lo, b)
           w == Parts(v)
<1>1. /\ ps \in Seq(Seq(Byte)) /\ Len(ps) = Len(cs)
      /\ \A k \in 1..Len(cs) : ps[k] = ChunkBytes(cs[k])
  BY PartsFacts
<1>2. /\ lo \in Int /\ b \in Int /\ n \in Nat /\ \A k \in lo..b : k \in 1..Len(cs)
      /\ (IF lo <= b THEN n ELSE 0) = n
      /\ \A k \in 1..n : lo + k - 1 \in 1..Len(cs)
  OBVIOUS
<1> HIDE DEF ps, lo
<1>3. /\ \A k \in lo..b : ps[k] \in Seq(Byte)
      /\ \A k \in lo..b : cs[k] \in Chunks
  BY <1>1, <1>2
<1>4. /\ u \in Seq(Seq(Byte)) /\ Len(u) = n /\ \A k \in 1..n : u[k] = ps[lo + k - 1]
  BY <1>2, <1>3, SubSeqProperties
<1>5. /\ v \in Seq(Chunks) /\ Len(v) = n /\ \A k \in 1..n : v[k] = cs[lo + k - 1]
  BY <1>2, <1>3, SubSeqProperties
<1> HIDE DEF u, v, n
<1>6. w \in Seq(Seq(Byte)) /\ Len(w) = n /\ \A k \in 1..n : w[k] = ChunkBytes(v[k])
  BY <1>5, PartsFacts
<1>7. \A k \in 1..n : u[k] = w[k]
  BY <1>1, <1>2, <1>4, <1>5, <1>6
<1> HIDE DEF w
<1>8. u = w
  BY <1>4, <1>6, <1>7, SeqEqual
<1> QED
  BY <1>5, <1>8 DEF u, v, w, ps, lo

TermBytes(t) == BytesOf(TermChunks(t))

(* A term's bytes are those of the unpacked xorb between its raw boundaries,*)
(* as many as unpacked_length says.                                         *)
LEMMA TermFacts ==
    ASSUME NEW t, IsTerm(t)
    PROVE  /\ TermChunks(t) \in Seq(Chunks)
           /\ TermBytes(t) \in Seq(Byte) /\ TermBytes(t) # <<>>
           /\ Len(TermBytes(t)) = UnpackedLength(t)
           /\ UnpackedLength(t) \in Nat /\ UnpackedLength(t) > 0
           /\ SubSeq(Unpacked[t.xorb], RawBoundary[t.xorb][t.start] + 1,
                     RawBoundary[t.xorb][t.end]) = TermBytes(t)
<1> DEFINE x == t.xorb
           cs == ChunksOf(Frames[x])
           r == RawBoundary[x]
<1>1. x \in Xorbs /\ t.start \in Nat /\ t.end \in Nat /\ t.start < t.end /\ t.end <= Len(Frames[x])
  BY DEF IsTerm
<1>2. /\ cs \in Seq(Chunks) /\ Len(cs) = Len(Frames[x]) /\ Len(cs) \in Nat
      /\ IsTotals(r, RawSizes(cs)) /\ Unpacked[x] = BytesOf(cs)
  BY <1>1, XorbFacts
<1> HIDE DEF cs, r
<1>3. t.start \in 0..Len(cs) /\ t.end \in 0..Len(cs) /\ t.start <= t.end
  BY <1>1, <1>2
<1>4. /\ Parts(cs) \in Seq(Seq(Byte)) /\ Len(Parts(cs)) = Len(cs)
      /\ BytesOf(cs) = FlattenSeq(Parts(cs)) /\ Lengths(Parts(cs)) = RawSizes(cs)
      /\ RawSizes(cs) \in Seq(Nat) /\ Len(RawSizes(cs)) = Len(cs)
      /\ \A k \in 1..Len(cs) : RawSizes(cs)[k] > 0
  BY <1>2, PartsFacts
<1>5. SubSeq(cs, t.start + 1, t.end) = TermChunks(t)
  BY DEF TermChunks, cs
<1>6. /\ TermChunks(t) \in Seq(Chunks)
      /\ SubSeq(Parts(cs), t.start + 1, t.end) = Parts(TermChunks(t))
  BY <1>2, <1>3, <1>5, PartsSlice
<1>7. TermBytes(t) = FlattenSeq(Parts(TermChunks(t)))
  BY <1>6, PartsFacts DEF TermBytes
<1>8. /\ SubSeq(Unpacked[x], r[t.start] + 1, r[t.end]) = TermBytes(t)
      /\ TermBytes(t) \in Seq(Byte)
      /\ Len(TermBytes(t)) = r[t.end] - r[t.start]
  <2> DEFINE ps == Parts(cs)
             a == t.start
             b == t.end
  <2>1. /\ ps \in Seq(Seq(Byte)) /\ IsTotals(r, Lengths(ps))
        /\ a \in 0..Len(ps) /\ b \in 0..Len(ps) /\ a <= b
    BY <1>2, <1>3, <1>4
  <2>2. /\ Unpacked[x] = FlattenSeq(ps)
        /\ TermBytes(t) = FlattenSeq(SubSeq(ps, a + 1, b))
    BY <1>2, <1>4, <1>6, <1>7
  <2> HIDE DEF ps, a, b, x
  <2>3. /\ SubSeq(FlattenSeq(ps), r[a] + 1, r[b]) = FlattenSeq(SubSeq(ps, a + 1, b))
        /\ FlattenSeq(SubSeq(ps, a + 1, b)) \in Seq(Byte)
        /\ Len(FlattenSeq(SubSeq(ps, a + 1, b))) = r[b] - r[a]
    BY <2>1, FlattenSlice
  <2> QED
    BY <2>2, <2>3 DEF a, b
<1>9. UnpackedLength(t) = r[t.end] - r[t.start]
  BY DEF UnpackedLength, r
<1>10. r[t.start] < r[t.end] /\ r[t.start] \in Nat /\ r[t.end] \in Nat
  <2>1. r[t.start] < r[t.end]
    BY <1>1, <1>2, <1>3, <1>4, TotalsGrow
  <2>2. r[t.start] \in Nat /\ r[t.end] \in Nat
    BY <1>2, <1>3, <1>4, TotalsTypes
  <2> QED
    BY <2>1, <2>2
<1>11. UnpackedLength(t) \in Nat /\ UnpackedLength(t) > 0
  BY <1>9, <1>10
<1>12. TermBytes(t) # <<>>
  BY <1>8, <1>9, <1>11, EmptySeq
<1> QED
  BY <1>6, <1>8, <1>9, <1>11, <1>12 DEF r

-----------------------------------------------------------------------------
(* Files: the bodies of the terms, one after the other.                     *)

Bodies(terms) == [k \in DOMAIN terms |-> TermBytes(terms[k])]

TermSeqs == {terms \in Seq(TermSet) : terms # <<>>}

(* byte_offset in the loop over the terms is the totals of their lengths,   *)
(* and the file's chunks spell the bodies one after the other.              *)
LEMMA BodiesFacts ==
    ASSUME NEW terms \in Seq(TermSet)
    PROVE  /\ Bodies(terms) \in Seq(Seq(Byte)) /\ Len(Bodies(terms)) = Len(terms)
           /\ Len(terms) \in Nat /\ DOMAIN terms = 1..Len(terms)
           /\ \A k \in 1..Len(terms) : /\ IsTerm(terms[k])
                                       /\ Bodies(terms)[k] = TermBytes(terms[k])
           /\ Lengths(Bodies(terms)) \in Seq(Nat)
           /\ Len(Lengths(Bodies(terms))) = Len(terms)
           /\ \A k \in 1..Len(terms) :
                 /\ Lengths(Bodies(terms))[k] = UnpackedLength(terms[k])
                 /\ Lengths(Bodies(terms))[k] > 0
           /\ IsTotals(ByteOffset(terms), Lengths(Bodies(terms)))
           /\ BytesOf(ChunkNames(terms)) = FlattenSeq(Bodies(terms))
<1>1. /\ Len(terms) \in Nat /\ DOMAIN terms = 1..Len(terms)
      /\ \A k \in 1..Len(terms) : terms[k] \in TermSet
  OBVIOUS
<1>2. \A k \in 1..Len(terms) : IsTerm(terms[k])
  BY <1>1, TermsAreTerms
<1>3. Bodies(terms) = [k \in 1..Len(terms) |-> TermBytes(terms[k])]
  BY <1>1 DEF Bodies
<1>4. \A k \in 1..Len(terms) : /\ TermBytes(terms[k]) \in Seq(Byte)
                               /\ TermChunks(terms[k]) \in Seq(Chunks)
                               /\ Len(TermBytes(terms[k])) = UnpackedLength(terms[k])
                               /\ UnpackedLength(terms[k]) > 0
  BY <1>2, TermFacts
<1>5. Bodies(terms) \in Seq(Seq(Byte)) /\ Len(Bodies(terms)) = Len(terms)
  <2>1. Bodies(terms) \in [1..Len(terms) -> Seq(Byte)]
    BY <1>3, <1>4
  <2> QED
    BY <1>1, <2>1
<1>6. /\ Lengths(Bodies(terms)) \in Seq(Nat)
      /\ Len(Lengths(Bodies(terms))) = Len(terms)
      /\ \A k \in 1..Len(terms) : Lengths(Bodies(terms))[k] = Len(Bodies(terms)[k])
  BY <1>5, LengthsOfSeq
<1>7. \A k \in 1..Len(terms) : /\ Lengths(Bodies(terms))[k] = UnpackedLength(terms[k])
                               /\ Lengths(Bodies(terms))[k] > 0
  BY <1>3, <1>4, <1>6
<1>8. IsTotals(ByteOffset(terms), Lengths(Bodies(terms)))
  <2>1. Lengths(Bodies(terms)) = [k \in DOMAIN terms |-> UnpackedLength(terms[k])]
    <3>1. Lengths(Bodies(terms)) = [k \in DOMAIN Bodies(terms) |-> Len(Bodies(terms)[k])]
      BY DEF Lengths
    <3>2. DOMAIN Bodies(terms) = DOMAIN terms
      BY DEF Bodies
    <3>3. \A k \in DOMAIN terms : Len(Bodies(terms)[k]) = UnpackedLength(terms[k])
      BY <1>1, <1>3, <1>4
    <3> QED
      BY <3>1, <3>2, <3>3
  <2>2. ByteOffset(terms) = Totals(Lengths(Bodies(terms)))
    BY <2>1 DEF ByteOffset
  <2> QED
    BY <1>6, <2>2, TotalsRecur
<1>9. BytesOf(ChunkNames(terms)) = FlattenSeq(Bodies(terms))
  <2> DEFINE css == [k \in DOMAIN terms |-> TermChunks(terms[k])]
  <2>1. css \in [1..Len(terms) -> Seq(Chunks)]
    BY <1>1, <1>4
  <2>2. css \in Seq(Seq(Chunks))
    BY <1>1, <2>1
  <2>3. EachBytes(css) = Bodies(terms)
    <3>1. DOMAIN css = DOMAIN terms
      OBVIOUS
    <3>2. \A k \in DOMAIN terms : BytesOf(css[k]) = TermBytes(terms[k])
      BY DEF TermBytes
    <3> HIDE DEF css
    <3> QED
      BY <3>1, <3>2 DEF EachBytes, Bodies
  <2>4. ChunkNames(terms) = FlattenSeq(css)
    BY DEF ChunkNames
  <2> HIDE DEF css
  <2> QED
    BY <2>2, <2>3, <2>4, BytesFlatten
<1> QED
  BY <1>1, <1>2, <1>3, <1>5, <1>6, <1>7, <1>8, <1>9

(* A chunk has one position, whether it is computed from the layout in the  *)
(* index or from the headers of the xorb.                                   *)
LEMMA OffsetsAgree ==
    ASSUME NEW x \in Xorbs
    PROVE  OffsetsFromLayout(x) = OffsetsFromXorb(x)
<1>1. /\ DOMAIN Frames[x] = 1..Len(Frames[x])
      /\ FrameSizes(x) \in Seq(Nat) /\ Len(FrameSizes(x)) = Len(Frames[x])
      /\ IsTotals(Boundary[x], FrameSizes(x))
  BY XorbFacts
<1>2. \A k \in DOMAIN Frames[x] : Header + CompressedSize(x, k) = FrameSizes(x)[k]
  <2> TAKE k \in DOMAIN Frames[x]
  <2>1. /\ k \in 1..Len(FrameSizes(x)) /\ k - 1 \in 0..Len(FrameSizes(x))
        /\ k \in 0..Len(FrameSizes(x))
    BY <1>1
  <2>2. /\ Boundary[x][k] = Boundary[x][k - 1] + FrameSizes(x)[k]
        /\ Boundary[x][k] \in Nat /\ Boundary[x][k - 1] \in Nat
        /\ FrameSizes(x)[k] \in Nat
    BY <1>1, <2>1, TotalsTypes
  <2> QED
    BY <2>2, HeaderAssumption DEF CompressedSize
<1>3. [k \in DOMAIN Frames[x] |-> Header + CompressedSize(x, k)] = FrameSizes(x)
  <2>1. FrameSizes(x) = [k \in DOMAIN Frames[x] |-> FrameSizes(x)[k]]
    BY DEF FrameSizes
  <2> QED
    BY <1>2, <2>1
<1>4. Boundary[x] = Totals(FrameSizes(x))
  BY DEF Boundary, FrameSizes
<1> QED
  BY <1>3, <1>4 DEF OffsetsFromLayout, OffsetsFromXorb

-----------------------------------------------------------------------------
(* Sorting and merging ranges.                                              *)

ChunkRanges == {r \in [start: Nat, end: Nat] : r.start < r.end}

LEMMA RangeFacts ==
    ASSUME NEW r \in ChunkRanges
    PROVE  r.start \in Nat /\ r.end \in Nat /\ r.start < r.end
BY DEF ChunkRanges

(* The last range in the order there is between ranges. *)
LEMMA LastRange ==
    ASSUME NEW R \in SUBSET ChunkRanges, IsFiniteSet(R), R # {}
    PROVE  \E m \in R : \A r \in R : r = m \/ Before(r, m)
<1> DEFINE A == {r.start : r \in R}
           a == Max(A)
           T == {r \in R : r.start = a}
           B == {r.end : r \in T}
           b == Max(B)
<1>1. A \in SUBSET Nat /\ A # {} /\ IsFiniteSet(A)
  <2>1. A \in SUBSET Nat /\ A # {}
    BY RangeFacts
  <2>2. IsFiniteSet(A)
    <3> DEFINE f == [r \in R |-> r.start]
    <3>1. IsFiniteSet({f[r] : r \in R})
      BY ImageFinite
    <3> QED
      BY <3>1 DEF A
  <2> QED
    BY <2>1, <2>2
<1> HIDE DEF A
<1>2. a \in A /\ \A k \in A : k <= a
  BY <1>1, MaxIsGreatest
<1> HIDE DEF a
<1>3. T \in SUBSET R /\ T # {} /\ IsFiniteSet(T)
  <2>1. T \in SUBSET R /\ T # {}
    BY <1>2 DEF A
  <2> QED
    BY <2>1, FS_Subset
<1>4. \A r \in R : r \in T <=> r.start = a
  OBVIOUS
<1> HIDE DEF T
<1>5. B \in SUBSET Nat /\ B # {} /\ IsFiniteSet(B)
  <2>1. B \in SUBSET Nat /\ B # {}
    BY <1>3, RangeFacts
  <2>2. IsFiniteSet(B)
    <3> DEFINE f == [r \in T |-> r.end]
    <3>1. IsFiniteSet({f[r] : r \in T})
      BY <1>3, ImageFinite
    <3> QED
      BY <3>1 DEF B
  <2> QED
    BY <2>1, <2>2
<1> HIDE DEF B
<1>6. b \in B /\ \A k \in B : k <= b
  BY <1>5, MaxIsGreatest
<1> HIDE DEF b
<1>7. PICK m \in T : b = m.end
  BY <1>6 DEF B
<1>8. ASSUME NEW r \in R PROVE r = m \/ Before(r, m)
  <2>1. m \in R /\ m.start = a /\ m.end = b
    BY <1>3, <1>4, <1>7
  <2>2. /\ r \in [start: Nat, end: Nat] /\ m \in [start: Nat, end: Nat]
    BY <2>1 DEF ChunkRanges
  <2>3. r.start <= m.start
    BY <1>2, <2>1 DEF A
  <2>4. r.start = m.start => r.end <= m.end
    BY <1>4, <1>6, <2>1 DEF B
  <2> QED
    BY <2>2, <2>3, <2>4 DEF Before
<1> QED
  BY <1>3, <1>7, <1>8

InOrder(s) == \A i, j \in DOMAIN s : i < j => Before(s[i], s[j])

(* Finitely many ranges can be put in order. *)
LEMMA SortedExists ==
    ASSUME NEW R \in SUBSET ChunkRanges, IsFiniteSet(R)
    PROVE  \E s \in [1..Cardinality(R) -> R] : InOrder(s)
<1> DEFINE Has(T) == \E s \in [1..Cardinality(T) -> T] : InOrder(s)
           P == {T \in SUBSET R : Has(T)}
<1>1. {} \in P
  <2>1. Cardinality({}) = 0
    BY FS_EmptySet
  <2>2. <<>> \in [1..Cardinality({}) -> {}] /\ InOrder(<<>>)
    BY <2>1 DEF InOrder
  <2>3. Has({})
    BY <2>2
  <2> HIDE DEF Has
  <2> QED
    BY <2>3
<1>2. ASSUME NEW T \in SUBSET R, T # {}, \A r \in T : T \ {r} \in P
      PROVE  T \in P
  <2>1. IsFiniteSet(T) /\ T \in SUBSET ChunkRanges
    BY FS_Subset
  <2>2. PICK m \in T : \A r \in T : r = m \/ Before(r, m)
    BY <1>2, <2>1, LastRange
  <2> DEFINE U == T \ {m}
             n == Cardinality(U)
  <2>3. n \in Nat /\ Cardinality(T) = n + 1
    <3>1. IsFiniteSet(U) /\ n = Cardinality(T) - 1
      BY <2>1, FS_RemoveElement
    <3> QED
      BY <2>1, <3>1, FS_CardinalityType
  <2>4. Has(U)
    BY <1>2
  <2>5. PICK s \in [1..n -> U] : InOrder(s)
    BY <2>4
  <2> HIDE DEF n
  <2> DEFINE t == [k \in 1..n + 1 |-> IF k = n + 1 THEN m ELSE s[k]]
  <2>6. t \in [1..n + 1 -> T] /\ DOMAIN t = 1..n + 1 /\ DOMAIN s = 1..n
    <3>1. \A k \in 1..n + 1 : k # n + 1 => k \in 1..n
      BY <2>3
    <3>2. \A k \in 1..n : s[k] \in T
      OBVIOUS
    <3> QED
      BY <3>1, <3>2
  <2>7. t[n + 1] = m /\ \A k \in 1..n : t[k] = s[k] /\ s[k] \in U
    BY <2>3
  <2> HIDE DEF t
  <2>8. ASSUME NEW i \in 1..n + 1, NEW j \in 1..n + 1, i < j
        PROVE  Before(t[i], t[j])
    <3>1. i \in 1..n
      BY <2>3, <2>8
    <3>2. CASE j = n + 1
      BY <2>2, <2>7, <3>1, <3>2
    <3>3. CASE j # n + 1
      <4>1. j \in 1..n
        BY <2>3, <3>3
      <4> QED
        BY <2>5, <2>6, <2>7, <2>8, <3>1, <4>1 DEF InOrder
    <3> QED
      BY <3>2, <3>3
  <2>9. InOrder(t)
    BY <2>6, <2>8 DEF InOrder
  <2>10. Has(T)
    BY <2>3, <2>6, <2>9
  <2> HIDE DEF Has
  <2> QED
    BY <2>10
<1>3. P \in SUBSET SUBSET R
  OBVIOUS
<1> HIDE DEF P
<1>4. P = SUBSET R
  BY <1>1, <1>2, <1>3, SetInd
<1>5. R \in P
  BY <1>4
<1> QED
  BY <1>5 DEF P

(* Sorted is a CHOOSE: it is in order and has the given ranges, each once.  *)
LEMMA SortedFacts ==
    ASSUME NEW R \in SUBSET ChunkRanges, IsFiniteSet(R)
    PROVE  /\ Sorted(R) \in Seq(ChunkRanges) /\ InOrder(Sorted(R))
           /\ Len(Sorted(R)) = Cardinality(R) /\ Len(Sorted(R)) \in Nat
           /\ \A r : r \in R <=> \E j \in 1..Len(Sorted(R)) : Sorted(R)[j] = r
<1> DEFINE n == Cardinality(R)
           s == Sorted(R)
<1>1. n \in Nat
  BY FS_CardinalityType
<1>2. \A r \in ChunkRanges : ~Before(r, r)
  BY DEF ChunkRanges, Before
<1>3. PICK f \in [1..n -> R] : InOrder(f)
  BY SortedExists
<1>4. f \in SetToSeqs(R)
  <2> HIDE DEF n
  <2>1. DOMAIN f = 1..n
    OBVIOUS
  <2>2. ASSUME NEW i \in 1..n, NEW j \in 1..n, i # j PROVE f[i] # f[j]
    <3>1. i < j \/ j < i
      BY <1>1, <2>2
    <3>2. Before(f[i], f[j]) \/ Before(f[j], f[i])
      BY <1>3, <2>1, <3>1 DEF InOrder
    <3>3. f[i] \in ChunkRanges
      OBVIOUS
    <3> QED
      BY <1>2, <3>2, <3>3
  <2> QED
    BY <2>2 DEF SetToSeqs, n
<1>5. s \in SetToSeqs(R) /\ InOrder(s)
  BY <1>3, <1>4 DEF Sorted, InOrder
<1> HIDE DEF s
<1>6. s \in [1..n -> R] /\ \A i, j \in 1..n : i # j => s[i] # s[j]
  BY <1>5 DEF SetToSeqs
<1> HIDE DEF n
<1>7. s \in Surjection(1..n, R)
  <2>1. s \in Injection(1..n, R)
    BY <1>6 DEF Injection, IsInjective
  <2>2. Cardinality(1..n) = n
    BY <1>1, FS_Interval
  <2> QED
    BY <2>1, <2>2, FS_Injection DEF n
<1>8. s \in Seq(ChunkRanges) /\ Len(s) = n
  <2>1. s \in [1..n -> ChunkRanges]
    BY <1>6
  <2> QED
    BY <1>1, <2>1
<1>9. \A r : r \in R <=> \E j \in 1..n : s[j] = r
  BY <1>6, <1>7 DEF Surjection
<1> QED
  BY <1>1, <1>5, <1>8, <1>9 DEF s, n

(* What a range more does to the ranges so far. *)
LEMMA MergeIntoFacts ==
    ASSUME NEW m \in Seq(ChunkRanges), NEW r \in ChunkRanges
    PROVE  LET n == Len(m)
               o == MergeInto(m, r)
               into == n > 0 /\ r.start <= m[n].end
           IN  /\ n \in Nat /\ o \in Seq(ChunkRanges)
               /\ into => /\ Len(o) = n /\ \A k \in 1..n - 1 : o[k] = m[k]
                          /\ o[n].start = m[n].start
                          /\ o[n].end = IF m[n].end <= r.end THEN r.end ELSE m[n].end
               /\ ~into => /\ Len(o) = n + 1 /\ \A k \in 1..n : o[k] = m[k]
                           /\ o[n + 1] = r
<1> DEFINE n == Len(m)
           o == MergeInto(m, r)
           into == n > 0 /\ r.start <= m[n].end
           e == Max({m[n].end, r.end})
<1>1. n \in Nat /\ (n > 0 <=> m # <<>>)
  BY EmptySeq
<1>2. r.start \in Nat /\ r.end \in Nat /\ r.start < r.end
  BY RangeFacts
<1>3. CASE into
  <2>1. n \in 1..n /\ m[n] \in ChunkRanges
    BY <1>1, <1>3
  <2>2. m[n].start \in Nat /\ m[n].end \in Nat /\ m[n].start < m[n].end
    BY <2>1, RangeFacts
  <2>3. e = (IF m[n].end <= r.end THEN r.end ELSE m[n].end) /\ e \in Nat
    BY <1>2, <2>2, MinMaxOfTwo
  <2> DEFINE q == [m[n] EXCEPT !.end = e]
  <2>4. q \in ChunkRanges /\ q.start = m[n].start /\ q.end = e
    <3>1. m[n] \in [start: Nat, end: Nat]
      BY <2>1 DEF ChunkRanges
    <3> HIDE DEF e
    <3>2. q \in [start: Nat, end: Nat] /\ q.start = m[n].start /\ q.end = e
      BY <2>3, <3>1
    <3> HIDE DEF q
    <3>3. q.start < q.end
      BY <1>2, <2>2, <2>3, <3>2
    <3> QED
      BY <3>2, <3>3 DEF ChunkRanges
  <2>5. o = [m EXCEPT ![n] = q]
    BY <1>1, <1>3 DEF MergeInto, Last
  <2> HIDE DEF q, o, e
  <2>6. o \in Seq(ChunkRanges) /\ Len(o) = n /\ o[n] = q /\ \A k \in 1..n - 1 : o[k] = m[k]
    <3>1. /\ o \in Seq(ChunkRanges) /\ Len(o) = Len(m)
          /\ \A k \in 1..Len(m) : o[k] = IF k = n THEN q ELSE m[k]
      BY <2>1, <2>4, <2>5, ExceptSeq
    <3>2. \A k \in 1..n - 1 : k \in 1..n /\ k # n
      BY <1>1
    <3> QED
      BY <2>1, <3>1, <3>2
  <2> QED
    BY <1>1, <1>3, <2>3, <2>4, <2>6 DEF o
<1>4. CASE ~into
  <2>1. o = Append(m, r)
    BY <1>1, <1>4 DEF MergeInto, Last
  <2> HIDE DEF o
  <2>2. /\ o \in Seq(ChunkRanges) /\ Len(o) = n + 1 /\ o[n + 1] = r
        /\ \A k \in 1..n : o[k] = m[k]
    BY <2>1, AppendFacts
  <2> QED
    BY <1>1, <1>4, <2>2 DEF o
<1> QED
  BY <1>3, <1>4

(* Merged is a CHOOSE as well. *)
LEMMA MergedRecurs ==
    ASSUME NEW s \in Seq(ChunkRanges)
    PROVE  /\ Merged(s) \in [0..Len(s) -> Seq(ChunkRanges)]
           /\ Merged(s)[0] = <<>>
           /\ \A i \in 1..Len(s) : Merged(s)[i] = MergeInto(Merged(s)[i - 1], s[i])
<1> DEFINE n == Len(s)
           V == Seq(ChunkRanges)
           step == [i \in 1..n |-> [m \in V |-> MergeInto(m, s[i])]]
           Is(f) == f = [i \in 0..n |-> IF i = 0 THEN <<>> ELSE MergeInto(f[i - 1], s[i])]
<1>1. n \in Nat /\ <<>> \in V /\ \A i \in 1..n : s[i] \in ChunkRanges
  OBVIOUS
<1>2. step \in [1..n -> [V -> V]]
  <2>1. ASSUME NEW i \in 1..n, NEW m \in V PROVE MergeInto(m, s[i]) \in V
    BY <1>1, MergeIntoFacts
  <2> HIDE DEF V, n
  <2> QED
    BY <2>1
<1>3. PICK f : Recurs(f, n, V, <<>>, step)
  <2> HIDE DEF step, n, V
  <2> QED
    BY <1>1, <1>2, RecursionExists
<1>4. f \in [0..n -> V] /\ f[0] = <<>>
  BY <1>3 DEF Recurs
<1>5. ASSUME NEW i \in 1..n PROVE f[i] = MergeInto(f[i - 1], s[i])
  <2>1. f[i] = step[i][f[i - 1]]
    <3> HIDE DEF step, n, V
    <3> QED
      BY <1>3 DEF Recurs
  <2>2. f[i - 1] \in V
    <3> HIDE DEF n, V
    <3>1. i - 1 \in 0..n
      BY <1>1
    <3> QED
      BY <1>4, <3>1
  <2> HIDE DEF V
  <2> QED
    BY <2>1, <2>2
<1>6. Is(f)
  <2> HIDE DEF n, V
  <2>1. f = [i \in 0..n |-> f[i]]
    BY <1>4
  <2>2. ASSUME NEW i \in 0..n
        PROVE  f[i] = IF i = 0 THEN <<>> ELSE MergeInto(f[i - 1], s[i])
    <3>1. i # 0 => i \in 1..n
      BY <1>1
    <3> QED
      BY <1>4, <1>5, <3>1
  <2> QED
    BY <2>1, <2>2
<1>7. Is(Merged(s))
  BY <1>6 DEF Merged
<1> DEFINE g == Merged(s)
<1>8. g = [i \in 0..n |-> IF i = 0 THEN <<>> ELSE MergeInto(g[i - 1], s[i])]
  <2> HIDE DEF g
  <2> QED
    BY <1>7 DEF g
<1> HIDE DEF g, n, step
<1>9. g[0] = <<>> /\ \A i \in 1..n : g[i] = MergeInto(g[i - 1], s[i])
  <2>1. 0 \in 0..n
    BY <1>1
  <2>2. ASSUME NEW i \in 1..n PROVE g[i] = MergeInto(g[i - 1], s[i])
    <3>1. i \in 0..n /\ i # 0
      BY <1>1
    <3> QED
      BY <1>8, <3>1
  <2> QED
    BY <1>8, <2>1, <2>2
<1> DEFINE D == {i \in Nat : i <= n => g[i] \in V}
<1> HIDE DEF V
<1>10. D = Nat
  <2>1. 0 \in D
    BY <1>1, <1>9
  <2>2. ASSUME NEW i \in D PROVE i + 1 \in D
    <3> SUFFICES ASSUME i + 1 <= n PROVE g[i + 1] \in V
      OBVIOUS
    <3>1. i + 1 \in 1..n /\ (i + 1) - 1 = i /\ g[i] \in V
      BY <1>1
    <3>2. g[i + 1] = MergeInto(g[i], s[i + 1]) /\ s[i + 1] \in ChunkRanges
      BY <1>1, <1>9, <3>1
    <3> QED
      BY <3>1, <3>2, MergeIntoFacts DEF V
  <2>3. D \in SUBSET Nat
    OBVIOUS
  <2> HIDE DEF D
  <2> QED
    BY <2>1, <2>2, <2>3, NatInd
<1>11. \A i \in 0..n : g[i] \in V
  BY <1>1, <1>10
<1>12. g \in [0..n -> V]
  <2>1. g = [i \in 0..n |-> g[i]]
    BY <1>8
  <2> QED
    BY <1>11, <2>1
<1> QED
  BY <1>9, <1>12 DEF g, n, V

-----------------------------------------------------------------------------
(* The loop of merged_chunk_ranges_per_xorb, after i ranges.                *)

(* After i ranges: what is merged is in order with gaps between, and covers *)
(* those ranges and no other chunk.                                         *)
Apart(m) == \A k, l \in 1..Len(m) : k < l => m[k].end < m[l].start

Reaches(m, s, i) == i > 0 => Len(m) > 0 /\ m[Len(m)].start <= s[i].start

CoversAll(m, s, i) ==
    \A j \in 1..i : \E k \in 1..Len(m) : m[k].start <= s[j].start /\ s[j].end <= m[k].end

CoversOnly(m, s, i) ==
    \A k \in 1..Len(m) : \A c \in Nat :
        m[k].start <= c /\ c < m[k].end
            => \E j \in 1..i : s[j].start <= c /\ c < s[j].end

Coalesced(m, s, i) ==
    Apart(m) /\ Reaches(m, s, i) /\ CoversAll(m, s, i) /\ CoversOnly(m, s, i)

(* The step of the loop: with the ranges in order, what is merged stays     *)
(* apart, and covers the range that comes and nothing beyond.               *)
LEMMA CoalescedStep ==
    ASSUME NEW s \in Seq(ChunkRanges), InOrder(s), NEW i \in Nat, i + 1 <= Len(s),
           NEW m \in Seq(ChunkRanges), Coalesced(m, s, i)
    PROVE  Coalesced(MergeInto(m, s[i + 1]), s, i + 1)
<1> DEFINE n == Len(m)
           r == s[i + 1]
           o == MergeInto(m, r)
           into == n > 0 /\ r.start <= m[n].end
<1>1. /\ r \in ChunkRanges /\ DOMAIN s = 1..Len(s) /\ Len(s) \in Nat
      /\ i + 1 \in 1..Len(s) /\ 1..i \subseteq 1..Len(s)
  OBVIOUS
<1>2. /\ n \in Nat /\ o \in Seq(ChunkRanges)
      /\ into => /\ Len(o) = n /\ \A k \in 1..n - 1 : o[k] = m[k]
                 /\ o[n].start = m[n].start
                 /\ o[n].end = IF m[n].end <= r.end THEN r.end ELSE m[n].end
      /\ ~into => /\ Len(o) = n + 1 /\ \A k \in 1..n : o[k] = m[k]
                  /\ o[n + 1] = r
  BY <1>1, MergeIntoFacts
<1>3. /\ \A k \in 1..n : m[k].start \in Nat /\ m[k].end \in Nat /\ m[k].start < m[k].end
      /\ r.start \in Nat /\ r.end \in Nat /\ r.start < r.end
      /\ \A j \in 1..i : s[j].start \in Nat /\ s[j].end \in Nat /\ s[j].start < s[j].end
  <2>1. \A k \in 1..n : m[k] \in ChunkRanges
    OBVIOUS
  <2>2. \A j \in 1..i : s[j] \in ChunkRanges
    BY <1>1
  <2> HIDE DEF n, r
  <2> QED
    BY <1>1, <2>1, <2>2, RangeFacts
<1>4. i > 0 => s[i].start <= r.start
  <2> SUFFICES ASSUME i > 0 PROVE s[i].start <= r.start
    OBVIOUS
  <2>1. i \in 1..i /\ i \in 1..Len(s) /\ i < i + 1
    BY <1>1
  <2>2. Before(s[i], r)
    BY <1>1, <2>1 DEF InOrder
  <2> QED
    BY <1>3, <2>1, <2>2 DEF Before
<1>5. n > 0 => i > 0
  <2> SUFFICES ASSUME n > 0, ~(i > 0) PROVE FALSE
    OBVIOUS
  <2>1. 1 \in 1..n /\ 1..i = {}
    BY <1>2
  <2>2. m[1].start \in Nat /\ m[1].start <= m[1].start /\ m[1].start < m[1].end
    BY <1>3, <2>1
  <2> QED
    BY <2>1, <2>2 DEF Coalesced, CoversOnly
<1> HIDE DEF n, r, o
<1>6. /\ \A k, l \in 1..n : k < l => m[k].end < m[l].start
      /\ i > 0 => n > 0 /\ m[n].start <= s[i].start
      /\ \A j \in 1..i : \E k \in 1..n : m[k].start <= s[j].start /\ s[j].end <= m[k].end
      /\ \A k \in 1..n : \A c \in Nat :
            m[k].start <= c /\ c < m[k].end
                => \E j \in 1..i : s[j].start <= c /\ c < s[j].end
  BY DEF Coalesced, Apart, Reaches, CoversAll, CoversOnly, n
<1>7. CASE into
  <2>1. n \in 1..n /\ i > 0 /\ m[n].start <= r.start
    <3>1. n \in 1..n /\ i > 0
      BY <1>2, <1>5, <1>7
    <3>2. i \in 1..i /\ m[n].start <= s[i].start /\ s[i].start <= r.start
      BY <1>4, <1>6, <3>1
    <3> QED
      BY <1>3, <3>1, <3>2
  <2>2. \A k \in 1..n : /\ o[k].start = m[k].start /\ m[k].end <= o[k].end
                        /\ k < n => o[k].end = m[k].end
                        /\ o[k].end \in Nat
    <3> TAKE k \in 1..n
    <3>1. k = n \/ (k \in 1..n - 1 /\ k < n)
      BY <1>2
    <3> QED
      BY <1>2, <1>3, <1>7, <3>1
  <2>3. Apart(o)
    <3>1. ASSUME NEW k \in 1..n, NEW l \in 1..n, k < l PROVE o[k].end < o[l].start
      <4>1. k < n
        BY <1>2, <3>1
      <4> QED
        BY <1>6, <2>2, <3>1, <4>1
    <3> QED
      BY <1>2, <1>7, <3>1 DEF Apart
  <2>4. Reaches(o, s, i + 1)
    BY <1>2, <1>7, <2>1, <2>2 DEF Reaches, r
  <2>5. CoversAll(o, s, i + 1)
    <3>1. ASSUME NEW j \in 1..i + 1
          PROVE  \E k \in 1..n : o[k].start <= s[j].start /\ s[j].end <= o[k].end
      <4>1. CASE j \in 1..i
        <5>1. PICK k \in 1..n : m[k].start <= s[j].start /\ s[j].end <= m[k].end
          BY <1>6, <4>1
        <5>2. o[k].start <= s[j].start /\ s[j].end <= o[k].end
          BY <1>3, <2>2, <4>1, <5>1, SMTT(30)
        <5> QED
          BY <5>2
      <4>2. CASE j = i + 1
        <5>1. s[j] = r
          BY <4>2 DEF r
        <5>2. r.end <= o[n].end
          BY <1>2, <1>3, <1>7, <2>1
        <5>3. o[n].start <= s[j].start /\ s[j].end <= o[n].end
          BY <2>1, <2>2, <5>1, <5>2
        <5> QED
          BY <2>1, <5>3
      <4> QED
        BY <4>1, <4>2
    <3> QED
      BY <1>2, <1>7, <3>1 DEF CoversAll
  <2>6. CoversOnly(o, s, i + 1)
    <3>1. ASSUME NEW k \in 1..n, NEW c \in Nat, o[k].start <= c, c < o[k].end
          PROVE  \E j \in 1..i + 1 : s[j].start <= c /\ c < s[j].end
      <4>1. CASE c < m[k].end
        <5>1. PICK j \in 1..i : s[j].start <= c /\ c < s[j].end
          BY <1>6, <2>2, <3>1, <4>1
        <5>2. j \in 1..i + 1
          OBVIOUS
        <5> QED
          BY <5>1, <5>2
      <4>2. CASE ~(c < m[k].end)
        <5>1. k = n
          BY <1>2, <2>2, <3>1, <4>2
        <5>2. r.start <= c /\ c < r.end
          BY <1>2, <1>3, <1>7, <3>1, <4>2, <5>1
        <5>3. i + 1 \in 1..i + 1 /\ s[i + 1] = r
          BY DEF r
        <5> QED
          BY <5>2, <5>3
      <4> QED
        BY <4>1, <4>2
    <3> QED
      BY <1>2, <1>7, <3>1 DEF CoversOnly
  <2> QED
    BY <2>3, <2>4, <2>5, <2>6 DEF Coalesced, o, r
<1>8. CASE ~into
  <2>1. \A k \in 1..n + 1 : k \in 1..n \/ k = n + 1
    BY <1>2
  <2>2. n + 1 \in 1..n + 1 /\ 1..n \subseteq 1..n + 1
    BY <1>2
  <2>3. ASSUME NEW k \in 1..n PROVE m[k].end < r.start
    <3>1. n > 0 /\ n \in 1..n /\ (k < n \/ k = n)
      BY <1>2
    <3>2. m[n].end < r.start
      BY <1>3, <1>8, <3>1
    <3>3. m[k].end <= m[n].end
      BY <1>3, <1>6, <3>1, SMTT(30)
    <3> QED
      BY <1>3, <3>1, <3>2, <3>3
  <2>4. Apart(o)
    <3>1. ASSUME NEW k \in 1..n + 1, NEW l \in 1..n + 1, k < l PROVE o[k].end < o[l].start
      <4>1. n \in Nat
        BY <1>2
      <4>2. k \in 1..n /\ (l \in 1..n \/ l = n + 1)
        BY <3>1, <4>1
      <4> QED
        BY <1>2, <1>6, <1>8, <2>3, <3>1, <4>2
    <3> QED
      BY <1>2, <1>8, <3>1 DEF Apart
  <2>5. Reaches(o, s, i + 1)
    <3>1. Len(o) = n + 1 /\ o[n + 1] = s[i + 1] /\ n + 1 > 0
      BY <1>2, <1>8 DEF r
    <3>2. r.start <= r.start
      BY <1>3
    <3> QED
      BY <3>1, <3>2 DEF Reaches, r
  <2>6. CoversAll(o, s, i + 1)
    <3>1. ASSUME NEW j \in 1..i + 1
          PROVE  \E k \in 1..n + 1 : o[k].start <= s[j].start /\ s[j].end <= o[k].end
      <4>1. CASE j \in 1..i
        <5>1. PICK k \in 1..n : m[k].start <= s[j].start /\ s[j].end <= m[k].end
          BY <1>6, <4>1
        <5> QED
          BY <1>2, <1>8, <2>2, <5>1
      <4>2. CASE j = i + 1
        <5>1. s[j] = r /\ o[n + 1] = r
          BY <1>2, <1>8, <4>2 DEF r
        <5>2. r.start <= r.start /\ r.end <= r.end
          BY <1>3
        <5> QED
          BY <2>2, <5>1, <5>2
      <4> QED
        BY <4>1, <4>2
    <3> QED
      BY <1>2, <1>8, <3>1 DEF CoversAll
  <2>7. CoversOnly(o, s, i + 1)
    <3>1. ASSUME NEW k \in 1..n + 1, NEW c \in Nat, o[k].start <= c, c < o[k].end
          PROVE  \E j \in 1..i + 1 : s[j].start <= c /\ c < s[j].end
      <4>1. CASE k \in 1..n
        <5>1. PICK j \in 1..i : s[j].start <= c /\ c < s[j].end
          BY <1>2, <1>6, <1>8, <3>1, <4>1
        <5>2. j \in 1..i + 1
          OBVIOUS
        <5> QED
          BY <5>1, <5>2
      <4>2. CASE k = n + 1
        <5>1. r.start <= c /\ c < r.end
          BY <1>2, <1>8, <3>1, <4>2
        <5>2. i + 1 \in 1..i + 1 /\ s[i + 1] = r
          BY DEF r
        <5> QED
          BY <5>1, <5>2
      <4> QED
        BY <2>1, <4>1, <4>2
    <3> QED
      BY <1>2, <1>8, <3>1 DEF CoversOnly
  <2> QED
    BY <2>4, <2>5, <2>6, <2>7 DEF Coalesced, o, r
<1> QED
  BY <1>7, <1>8

(* M is what R is when ranges that overlap or touch are one. *)
Merges(M, R) ==
    /\ M \subseteq ChunkRanges
    /\ \A p, q \in M : p # q => p.end < q.start \/ q.end < p.start
    /\ \A r \in R : \E q \in M : q.start <= r.start /\ r.end <= q.end
    /\ \A q \in M : \A c \in Nat :
          q.start <= c /\ c < q.end => \E r \in R : r.start <= c /\ c < r.end

(* The merged ranges of a xorb are apart (no two overlap or adjoin), each   *)
(* requested range lies within one of them, and they hold no chunk that was *)
(* not requested (merged_chunk_ranges_per_xorb).                            *)
THEOREM MergingIsExact ==
    ASSUME NEW R \in SUBSET ChunkRanges, IsFiniteSet(R)
    PROVE  Merges(ToSet(Merged(Sorted(R))[Len(Sorted(R))]), R)
<1> DEFINE s == Sorted(R)
           n == Len(s)
           g == Merged(s)
           m == g[n]
           M == ToSet(m)
<1>1. /\ s \in Seq(ChunkRanges) /\ InOrder(s) /\ n \in Nat
      /\ \A r : r \in R <=> \E j \in 1..n : s[j] = r
  BY SortedFacts
<1> HIDE DEF s
<1>2. /\ g \in [0..n -> Seq(ChunkRanges)] /\ g[0] = <<>>
      /\ \A i \in 1..n : g[i] = MergeInto(g[i - 1], s[i])
  BY <1>1, MergedRecurs
<1> HIDE DEF g, n
<1>3. \A i \in 0..n : g[i] \in Seq(ChunkRanges)
  BY <1>2
<1> DEFINE D == {i \in Nat : i <= n => Coalesced(g[i], s, i)}
<1>4. 0 \in D
  <2>1. Len(<<>>) = 0 /\ 1..0 = {} /\ ~(0 > 0)
    OBVIOUS
  <2>2. Coalesced(<<>>, s, 0)
    BY <2>1 DEF Coalesced, Apart, Reaches, CoversAll, CoversOnly
  <2> QED
    BY <1>2, <2>2
<1>5. ASSUME NEW i \in D PROVE i + 1 \in D
  <2> SUFFICES ASSUME i + 1 <= n PROVE Coalesced(g[i + 1], s, i + 1)
    OBVIOUS
  <2>1. i \in Nat /\ i + 1 \in 1..n /\ (i + 1) - 1 = i /\ i \in 0..n
    BY <1>1
  <2>2. g[i] \in Seq(ChunkRanges) /\ Coalesced(g[i], s, i) /\ i + 1 <= Len(s)
    BY <1>1, <1>3, <2>1 DEF n
  <2>3. Coalesced(MergeInto(g[i], s[i + 1]), s, i + 1)
    BY <1>1, <2>1, <2>2, CoalescedStep
  <2>4. g[i + 1] = MergeInto(g[i], s[i + 1])
    BY <1>2, <2>1
  <2> QED
    BY <2>3, <2>4
<1>6. D \in SUBSET Nat
  OBVIOUS
<1>7. D = Nat
  <2> HIDE DEF D
  <2> QED
    BY <1>4, <1>5, <1>6, NatInd
<1>8. n \in 0..n /\ Coalesced(m, s, n) /\ m \in Seq(ChunkRanges)
  BY <1>1, <1>3, <1>7
<1> HIDE DEF m
<1>9. /\ DOMAIN m = 1..Len(m) /\ Len(m) \in Nat /\ M \subseteq ChunkRanges
      /\ \A q : q \in M <=> \E k \in 1..Len(m) : m[k] = q
  BY <1>8, ElementsOfSeq DEF ToSet
<1> HIDE DEF M
<1>10. ASSUME NEW p \in M, NEW q \in M, p # q PROVE p.end < q.start \/ q.end < p.start
  <2>1. PICK k \in 1..Len(m) : m[k] = p
    BY <1>9
  <2>2. PICK l \in 1..Len(m) : m[l] = q
    BY <1>9
  <2>3. k < l \/ l < k
    BY <1>9, <1>10, <2>1, <2>2
  <2> QED
    BY <1>8, <2>1, <2>2, <2>3 DEF Coalesced, Apart
<1>11. ASSUME NEW r \in R PROVE \E q \in M : q.start <= r.start /\ r.end <= q.end
  <2>1. PICK j \in 1..n : s[j] = r
    BY <1>1
  <2>2. PICK k \in 1..Len(m) : m[k].start <= s[j].start /\ s[j].end <= m[k].end
    BY <1>8 DEF Coalesced, CoversAll
  <2> QED
    BY <1>9, <2>1, <2>2
<1>12. ASSUME NEW q \in M, NEW c \in Nat, q.start <= c, c < q.end
       PROVE  \E r \in R : r.start <= c /\ c < r.end
  <2>1. PICK k \in 1..Len(m) : m[k] = q
    BY <1>9
  <2>2. PICK j \in 1..n : s[j].start <= c /\ c < s[j].end
    BY <1>8, <1>12, <2>1 DEF Coalesced, CoversOnly
  <2> QED
    BY <1>1, <2>2
<1> QED
  BY <1>9, <1>10, <1>11, <1>12 DEF Merges, M, m, n, s, g

LEMMA RangesOfFacts ==
    ASSUME NEW terms \in Seq(TermSet), NEW x \in Xorbs
    PROVE  /\ RangesOf(terms, x) \in SUBSET ChunkRanges /\ IsFiniteSet(RangesOf(terms, x))
           /\ \A r \in RangesOf(terms, x) :
                 \E i \in DOMAIN terms : /\ terms[i].xorb = x
                                         /\ r.start = terms[i].start /\ r.end = terms[i].end
           /\ \A i \in DOMAIN terms : terms[i].xorb = x =>
                 \E r \in RangesOf(terms, x) :
                    r.start = terms[i].start /\ r.end = terms[i].end
<1> DEFINE K == {k \in DOMAIN terms : terms[k].xorb = x}
           f == [i \in K |-> [start |-> terms[i].start, end |-> terms[i].end]]
           R == RangesOf(terms, x)
<1>1. DOMAIN terms = 1..Len(terms) /\ \A i \in DOMAIN terms : IsTerm(terms[i])
  BY BodiesFacts
<1>2. IsFiniteSet(K)
  <2>1. IsFiniteSet(DOMAIN terms)
    BY ElementsOfSeq
  <2> QED
    BY <2>1, FS_Subset
<1>3. R = {f[i] : i \in K}
  BY DEF RangesOf
<1>4. IsFiniteSet(R)
  <2>1. DOMAIN f = K /\ f = [i \in K |-> f[i]]
    OBVIOUS
  <2> HIDE DEF f, R, K
  <2> QED
    BY <1>2, <1>3, <2>1, ImageFinite
<1>5. \A i \in K : f[i].start = terms[i].start /\ f[i].end = terms[i].end /\ f[i] \in ChunkRanges
  BY <1>1 DEF IsTerm, ChunkRanges
<1> HIDE DEF f, R
<1> QED
  BY <1>3, <1>4, <1>5 DEF R

(* The merged ranges of a xorb lie in it. *)
LEMMA MergedRangesFacts ==
    ASSUME NEW terms \in Seq(TermSet), NEW x \in Xorbs
    PROVE  /\ Merges(MergedRanges(terms, x), RangesOf(terms, x))
           /\ \A r \in MergedRanges(terms, x) :
                 /\ r \in ChunkRanges
                 /\ r.start \in Nat /\ r.end \in Nat /\ r.start < r.end
                 /\ r.end <= Len(Frames[x])
<1>1. Merges(MergedRanges(terms, x), RangesOf(terms, x))
  BY RangesOfFacts, MergingIsExact DEF MergedRanges
<1>2. Len(Frames[x]) \in Nat
  BY XorbFacts
<1>3. ASSUME NEW r \in MergedRanges(terms, x)
      PROVE  /\ r \in ChunkRanges
             /\ r.start \in Nat /\ r.end \in Nat /\ r.start < r.end
             /\ r.end <= Len(Frames[x])
  <2>1. r \in ChunkRanges
    BY <1>1 DEF Merges
  <2>2. r.start \in Nat /\ r.end \in Nat /\ r.start < r.end
    BY <2>1, RangeFacts
  <2>3. r.end - 1 \in Nat /\ r.start <= r.end - 1 /\ r.end - 1 < r.end
    BY <2>2
  <2>4. PICK q \in RangesOf(terms, x) : q.start <= r.end - 1 /\ r.end - 1 < q.end
    BY <1>1, <2>3 DEF Merges
  <2>5. PICK i \in DOMAIN terms : terms[i].xorb = x /\ q.end = terms[i].end
    BY RangesOfFacts
  <2>6. IsTerm(terms[i])
    BY BodiesFacts
  <2>7. q.end \in Nat /\ q.end <= Len(Frames[x])
    BY <2>5, <2>6 DEF IsTerm
  <2> QED
    BY <1>2, <2>1, <2>2, <2>4, <2>7
<1> QED
  BY <1>1, <1>3

-----------------------------------------------------------------------------
(* The bytes of a range of chunks in a xorb.                                *)

SpanOf(x, r) == [first |-> Boundary[x][r.start], last |-> Boundary[x][r.end] - 1]

InXorb(x, r) ==
    /\ x \in Xorbs
    /\ r.start \in Nat /\ r.end \in Nat /\ r.start < r.end /\ r.end <= Len(Frames[x])

LEMMA BoundaryFacts ==
    ASSUME NEW x \in Xorbs
    PROVE  /\ \A i \in 0..Len(Frames[x]) : Boundary[x][i] \in Nat
           /\ \A i, j \in 0..Len(Frames[x]) : /\ i < j => Boundary[x][i] < Boundary[x][j]
                                              /\ i <= j => Boundary[x][i] <= Boundary[x][j]
<1>1. /\ FrameSizes(x) \in Seq(Nat) /\ Len(FrameSizes(x)) = Len(Frames[x])
      /\ Len(Frames[x]) \in Nat
      /\ \A k \in 1..Len(Frames[x]) : FrameSizes(x)[k] > 0
      /\ IsTotals(Boundary[x], FrameSizes(x))
  BY XorbFacts
<1>2. \A i \in 0..Len(Frames[x]) : Boundary[x][i] \in Nat
  BY <1>1, TotalsTypes
<1>3. ASSUME NEW i \in 0..Len(Frames[x]), NEW j \in 0..Len(Frames[x]), i <= j
      PROVE  /\ Boundary[x][i] <= Boundary[x][j]
             /\ i < j => Boundary[x][i] < Boundary[x][j]
  BY <1>1, <1>3, TotalsGrow
<1>4. \A i, j \in 0..Len(Frames[x]) : i < j => i <= j
  BY <1>1
<1> QED
  BY <1>2, <1>3, <1>4

(* The span of a range of chunks is whole frames, namely those of the range.*)
LEMMA SpanFacts ==
    ASSUME NEW x, NEW r, InXorb(x, r)
    PROVE  LET span == SpanOf(x, r)
           IN  /\ span.first = Boundary[x][r.start] /\ span.last = Boundary[x][r.end] - 1
               /\ span.first \in Nat /\ span.last \in Nat /\ span.first <= span.last
               /\ FramesIn(x, span) = (r.start + 1)..r.end
               /\ Min(FramesIn(x, span)) = r.start + 1
               /\ Cardinality(FramesIn(x, span)) = r.end - r.start
               /\ WholeFrames(x, span)
<1> DEFINE span == SpanOf(x, r)
           S == FramesIn(x, span)
           n == Len(Frames[x])
           B == Boundary[x]
           a == r.start
           b == r.end
<1>1. x \in Xorbs /\ a \in Nat /\ b \in Nat /\ a < b /\ b <= n
  BY DEF InXorb
<1>2. n \in Nat /\ DOMAIN Frames[x] = 1..n
  BY <1>1, XorbFacts
<1>3. /\ \A i \in 0..n : B[i] \in Nat
      /\ \A i, j \in 0..n : (i < j => B[i] < B[j]) /\ (i <= j => B[i] <= B[j])
  BY <1>1, BoundaryFacts
<1>4. span.first = B[a] /\ span.last = B[b] - 1
  BY DEF SpanOf
<1>5. S = {i \in 1..n : B[i - 1] >= span.first /\ B[i] - 1 <= span.last}
  BY <1>2 DEF FramesIn
<1> HIDE DEF S, span, n, B, a, b
<1>6. a \in 0..n /\ b \in 0..n /\ B[a] \in Nat /\ B[b] \in Nat /\ B[a] < B[b]
  <2>1. a \in 0..n /\ b \in 0..n
    BY <1>1, <1>2
  <2> QED
    BY <1>1, <1>3, <2>1
<1>7. ASSUME NEW i PROVE i \in S <=> i \in (a + 1)..b
  <2>1. ASSUME NEW j \in 1..n
        PROVE  (B[j - 1] >= B[a] /\ B[j] - 1 <= B[b] - 1) <=> (a <= j - 1 /\ j <= b)
    <3>1. j \in 0..n /\ j - 1 \in 0..n /\ B[j] \in Nat /\ B[j - 1] \in Nat
      <4>1. j \in 0..n /\ j - 1 \in 0..n
        BY <1>2
      <4> QED
        BY <1>3, <4>1
    <3>2. a <= j - 1 => B[a] <= B[j - 1]
      BY <1>3, <1>6, <3>1
    <3>3. j - 1 < a => B[j - 1] < B[a]
      BY <1>3, <1>6, <3>1
    <3>4. j <= b => B[j] <= B[b]
      BY <1>3, <1>6, <3>1
    <3>5. b < j => B[b] < B[j]
      BY <1>3, <1>6, <3>1
    <3> QED
      BY <1>1, <1>6, <3>1, <3>2, <3>3, <3>4, <3>5
  <2>2. i \in (a + 1)..b <=> i \in 1..n /\ a <= i - 1 /\ i <= b
    BY <1>1, <1>2
  <2>3. i \in S <=> i \in 1..n /\ B[i - 1] >= B[a] /\ B[i] - 1 <= B[b] - 1
    BY <1>4, <1>5
  <2> QED
    BY <2>1, <2>2, <2>3
<1>8. S = (a + 1)..b
  BY <1>7
<1>9. Min(S) = a + 1
  <2>1. S \in SUBSET Nat /\ a + 1 \in S /\ \A k \in S : a + 1 <= k
    BY <1>1, <1>8
  <2>2. Min(S) \in S /\ Min(S) <= a + 1
    BY <2>1, MinIsLeast
  <2>3. a + 1 <= Min(S) /\ Min(S) \in Nat
    BY <2>1, <2>2
  <2> QED
    BY <1>1, <2>2, <2>3
<1>10. Max(S) = b
  <2>1. S \in SUBSET Nat /\ b \in S /\ \A k \in S : k <= b
    BY <1>1, <1>8
  <2>2. IsFiniteSet(S)
    BY <1>1, <1>8, FS_Interval
  <2>3. Max(S) \in S /\ b <= Max(S)
    BY <2>1, <2>2, MaxIsGreatest
  <2>4. Max(S) <= b /\ Max(S) \in Nat
    BY <2>1, <2>3
  <2> QED
    BY <1>1, <2>3, <2>4
<1>11. Cardinality(S) = b - a
  <2>1. a + 1 \in Int /\ b \in Int /\ ~(a + 1 > b) /\ b - (a + 1) + 1 = b - a
    BY <1>1
  <2> QED
    BY <1>8, <2>1, FS_Interval
<1>12. WholeFrames(x, span)
  <2>1. a + 1 \in S /\ (a + 1) - 1 = a
    BY <1>1, <1>8
  <2>2. B[b] - 1 = Min({span.last, B[n] - 1})
    <3>1. n \in 0..n /\ B[n] \in Nat /\ B[b] <= B[n]
      BY <1>1, <1>2, <1>3, <1>6
    <3>2. B[b] - 1 \in Nat /\ B[n] - 1 \in Nat /\ B[b] - 1 <= B[n] - 1
      BY <1>6, <3>1
    <3>3. Min({B[b] - 1, B[n] - 1}) = B[b] - 1
      BY <3>2, MinMaxOfTwo
    <3> QED
      BY <1>4, <3>3
  <2> QED
    BY <1>4, <1>9, <1>10, <2>1, <2>2 DEF WholeFrames, S, B, n
<1>13. span.first \in Nat /\ span.last \in Nat /\ span.first <= span.last
  BY <1>4, <1>6
<1> QED
  BY <1>4, <1>8, <1>9, <1>11, <1>12, <1>13 DEF S, span, B, a, b

(* build_xorb_fetch_entries gives each merged range its span, from either   *)
(* source of offsets.                                                       *)
LEMMA DescriptorsFacts ==
    ASSUME NEW terms \in Seq(TermSet), NEW x \in Xorbs
    PROVE  LET described == {[xorb |-> x, chunks |-> r, bytes |-> SpanOf(x, r)] :
                                r \in MergedRanges(terms, x)}
           IN  /\ Descriptors(terms, x, OffsetsFromXorb(x)) = described
               /\ Descriptors(terms, x, OffsetsFromLayout(x)) = described
<1> DEFINE offsets == OffsetsFromXorb(x)
           n == Len(Frames[x])
           M == MergedRanges(terms, x)
<1>1. n \in Nat /\ DOMAIN Frames[x] = 1..n
  BY XorbFacts
<1>2. offsets = [i \in 1..n |-> [start |-> Boundary[x][i - 1], end |-> Boundary[x][i]]]
  BY <1>1 DEF OffsetsFromXorb
<1>3. Len(offsets) = n
  <2>1. DOMAIN offsets = 1..n
    BY <1>2
  <2>2. offsets \in Seq({offsets[i] : i \in 1..n})
    <3>1. offsets \in [1..n -> {offsets[i] : i \in 1..n}]
      BY <1>2
    <3> HIDE DEF offsets, n
    <3> QED
      BY <1>1, <3>1
  <2> HIDE DEF offsets, n
  <2> QED
    BY <1>1, <2>1, <2>2, LenProperties
<1>4. ASSUME NEW r \in M
      PROVE  r.start < n /\ ByteSpan(offsets, r) = SpanOf(x, r)
  <2>1. r.start \in Nat /\ r.end \in Nat /\ r.start < r.end /\ r.end <= n
    BY MergedRangesFacts
  <2> HIDE DEF n
  <2>2. r.start + 1 \in 1..n /\ (r.start + 1) - 1 = r.start /\ r.end \in 1..n
    BY <1>1, <2>1
  <2>3. Min({r.end, n}) = r.end
    BY <1>1, <2>1, MinMaxOfTwo
  <2>4. offsets[r.start + 1].start = Boundary[x][r.start] /\ offsets[r.end].end = Boundary[x][r.end]
    BY <1>2, <2>2
  <2> HIDE DEF offsets
  <2>5. ByteSpan(offsets, r) = SpanOf(x, r)
    BY <1>3, <2>3, <2>4 DEF ByteSpan, SpanOf
  <2> QED
    BY <1>1, <2>1, <2>5
<1> HIDE DEF offsets, n, M
<1>5. {m \in M : m.start < Len(offsets)} = M
  BY <1>3, <1>4
<1>6. Descriptors(terms, x, offsets) =
         {[xorb |-> x, chunks |-> r, bytes |-> ByteSpan(offsets, r)] : r \in M}
  BY <1>5 DEF Descriptors, M
<1>7. Descriptors(terms, x, offsets) =
         {[xorb |-> x, chunks |-> r, bytes |-> SpanOf(x, r)] : r \in M}
  BY <1>4, <1>6
<1> QED
  BY <1>7, OffsetsAgree DEF M, offsets

-----------------------------------------------------------------------------
(* What a fetch of a term decodes.                                          *)

(* A client that fetches the span of a range of chunks that covers a term,  *)
(* and decodes it frame by frame, finds the term's bytes where it looks for *)
(* them, counting chunks from the start of the range (fetch_term of         *)
(* client.py, reconstructContent).                                          *)
THEOREM SpanHoldsTerm ==
    ASSUME NEW t, IsTerm(t), NEW r, InXorb(t.xorb, r), r.start <= t.start, t.end <= r.end
    PROVE  /\ Decodes(t.xorb, SpanOf(t.xorb, r), t.start - r.start, t.end - r.start)
           /\ Decoded(t.xorb, SpanOf(t.xorb, r), t.start - r.start, t.end - r.start)
                 = TermBytes(t)
<1> DEFINE x == t.xorb
           span == SpanOf(x, r)
<1>1. /\ t.start \in Nat /\ t.end \in Nat /\ t.start < t.end
      /\ r.start \in Nat /\ r.end \in Nat
  BY DEF IsTerm, InXorb
<1>2. /\ Min(FramesIn(x, span)) = r.start + 1
      /\ Cardinality(FramesIn(x, span)) = r.end - r.start
      /\ WholeFrames(x, span)
  BY SpanFacts
<1> HIDE DEF span
<1>3. Decodes(x, span, t.start - r.start, t.end - r.start)
  BY <1>1, <1>2 DEF Decodes
<1>4. Decoded(x, span, t.start - r.start, t.end - r.start) = TermBytes(t)
  <2>1. Min(FramesIn(x, span)) - 1 = r.start
    BY <1>1, <1>2
  <2>2. r.start + (t.start - r.start) = t.start /\ r.start + (t.end - r.start) = t.end
    BY <1>1
  <2>3. Decoded(x, span, t.start - r.start, t.end - r.start) =
           SubSeq(Unpacked[x], RawBoundary[x][t.start] + 1, RawBoundary[x][t.end])
    BY <2>1, <2>2 DEF Decoded
  <2> QED
    BY <2>3, TermFacts
<1> QED
  BY <1>3, <1>4 DEF span

-----------------------------------------------------------------------------
(* Trimming a file to a range.                                              *)

FileOf(terms) == FlattenSeq(Bodies(terms))

(* The terms of a file are not empty, so their offsets grow. *)
LEMMA FileFacts ==
    ASSUME NEW terms \in TermSeqs
    PROVE  LET L == ByteOffset(terms)
               n == Len(terms)
           IN  /\ terms \in Seq(TermSet) /\ n \in Nat /\ n > 0 /\ DOMAIN terms = 1..n
               /\ L[0] = 0 /\ \A i \in 0..n : L[i] \in Nat
               /\ \A i, j \in 0..n : (i < j => L[i] < L[j]) /\ (i <= j => L[i] <= L[j])
               /\ \A i \in 1..n : L[i] = L[i - 1] + UnpackedLength(terms[i])
               /\ FileOf(terms) \in Seq(Byte)
               /\ Len(FileOf(terms)) = L[n] /\ FileSize(terms) = L[n] /\ L[n] > 0
<1> DEFINE L == ByteOffset(terms)
           n == Len(terms)
           s == Lengths(Bodies(terms))
<1>1. terms \in Seq(TermSet) /\ terms # <<>>
  BY DEF TermSeqs
<1>2. n > 0
  BY <1>1, EmptySeq
<1>3. /\ Bodies(terms) \in Seq(Seq(Byte)) /\ Len(Bodies(terms)) = n
      /\ n \in Nat /\ DOMAIN terms = 1..n
      /\ s \in Seq(Nat) /\ Len(s) = n
      /\ \A k \in 1..n : s[k] = UnpackedLength(terms[k]) /\ s[k] > 0
      /\ IsTotals(L, s)
  BY <1>1, BodiesFacts
<1>4. /\ L[0] = 0 /\ \A i \in 0..n : L[i] \in Nat
      /\ \A i \in 1..n : L[i] = L[i - 1] + s[i]
  BY <1>3, TotalsTypes
<1>5. ASSUME NEW i \in 0..n, NEW j \in 0..n, i <= j
      PROVE  L[i] <= L[j] /\ (i < j => L[i] < L[j])
  <2> HIDE DEF s, L, n
  <2> QED
    BY <1>3, <1>5, TotalsGrow
<1>6. \A i, j \in 0..n : i < j => i <= j
  BY <1>3
<1>7. FileOf(terms) \in Seq(Byte) /\ Len(FileOf(terms)) = L[n]
  <2> DEFINE ss == Bodies(terms)
  <2>1. ss \in Seq(Seq(Byte)) /\ IsTotals(L, Lengths(ss)) /\ n \in 0..Len(ss) /\ Len(ss) = n
    BY <1>3
  <2> HIDE DEF ss, L, n
  <2>2. FlattenSeq(Upto(ss, n)) \in Seq(Byte) /\ Len(FlattenSeq(Upto(ss, n))) = L[n]
    BY <2>1, FlattenLength
  <2>3. Upto(ss, n) = ss
    BY <2>1, SubSeqFull DEF Upto
  <2> QED
    BY <2>2, <2>3 DEF FileOf, ss
<1>8. FileSize(terms) = L[n]
  BY DEF FileSize
<1>9. L[n] > 0
  <2>1. 0 \in 0..n /\ n \in 0..n /\ 0 < n /\ 0 <= n
    BY <1>2, <1>3
  <2>2. L[0] < L[n]
    BY <1>5, <2>1
  <2> QED
    BY <1>4, <2>2
<1> HIDE DEF L, n
<1>10. \A i \in 1..n : L[i] = L[i - 1] + UnpackedLength(terms[i])
  BY <1>3, <1>4
<1> HIDE DEF s
<1> QED
  BY <1>1, <1>2, <1>3, <1>4, <1>5, <1>6, <1>7, <1>8, <1>9, <1>10 DEF L, n

(* The terms kept are those from the one first is in to the one last is in. *)
LEMMA KeptFacts ==
    ASSUME NEW terms \in TermSeqs, NEW first \in Nat, NEW end \in Nat,
           first <= end, end < FileSize(terms)
    PROVE  LET L == ByteOffset(terms)
               kept == Overlapping(terms, first, end)
               a == Min(kept)
               b == Max(kept)
           IN  /\ a \in 1..Len(terms) /\ b \in 1..Len(terms) /\ a <= b
               /\ L[a - 1] <= first /\ first < L[a]
               /\ L[b - 1] <= end /\ end < L[b]
<1> DEFINE L == ByteOffset(terms)
           n == Len(terms)
           kept == Overlapping(terms, first, end)
           s == Lengths(Bodies(terms))
<1>1. /\ terms \in Seq(TermSet) /\ n \in Nat /\ DOMAIN terms = 1..n
      /\ L[0] = 0 /\ \A i \in 0..n : L[i] \in Nat
      /\ \A i, j \in 0..n : (i < j => L[i] < L[j]) /\ (i <= j => L[i] <= L[j])
      /\ \A i \in 1..n : L[i] = L[i - 1] + UnpackedLength(terms[i])
      /\ FileSize(terms) = L[n]
  BY FileFacts
<1>2. s \in Seq(Nat) /\ Len(s) = n /\ IsTotals(L, s)
  BY <1>1, BodiesFacts
<1>3. kept = {i \in 1..n : L[i - 1] <= end /\ L[i - 1] + UnpackedLength(terms[i]) > first}
  BY <1>1 DEF Overlapping, TermStart
<1> HIDE DEF L, n, kept, s
<1>4. \A i : i \in kept <=> i \in 1..n /\ L[i - 1] <= end /\ first < L[i]
  <2>1. \A i \in 1..n : L[i - 1] + UnpackedLength(terms[i]) > first <=> first < L[i]
    <3> TAKE i \in 1..n
    <3>1. i \in 0..n /\ L[i] \in Nat /\ L[i] = L[i - 1] + UnpackedLength(terms[i])
      BY <1>1
    <3> QED
      BY <3>1
  <2> QED
    BY <1>3, <2>1
<1>5. 0 \in 0..Len(s) /\ n \in 0..Len(s) /\ L[0] <= first /\ L[0] <= end /\ end < L[n]
  BY <1>1, <1>2
<1>6. first < L[n] /\ L[n] \in Nat
  <2>1. L[n] \in Nat
    BY <1>1
  <2> QED
    BY <1>5, <2>1
<1>7. PICK i \in 0 + 1..n : L[i - 1] <= first /\ first < L[i]
  BY <1>2, <1>5, <1>6, PartOf
<1>8. PICK j \in 0 + 1..n : L[j - 1] <= end /\ end < L[j]
  BY <1>2, <1>5, PartOf
<1>9. /\ i \in 1..n /\ i \in 0..n /\ i - 1 \in 0..n /\ j \in 1..n /\ j \in 0..n /\ j - 1 \in 0..n
      /\ L[i] \in Nat /\ L[i - 1] \in Nat /\ L[j] \in Nat /\ L[j - 1] \in Nat
  <2>1. i \in 1..n /\ i \in 0..n /\ i - 1 \in 0..n /\ j \in 1..n /\ j \in 0..n /\ j - 1 \in 0..n
    BY <1>1
  <2> QED
    BY <1>1, <2>1
<1>10. i \in kept /\ j \in kept
  BY <1>4, <1>7, <1>8, <1>9
<1>11. ASSUME NEW k \in kept PROVE i <= k /\ k <= j
  <2>1. k \in 1..n /\ k \in 0..n /\ k - 1 \in 0..n /\ L[k - 1] <= end /\ first < L[k]
    BY <1>1, <1>4
  <2>2. L[k] \in Nat /\ L[k - 1] \in Nat
    BY <1>1, <2>1
  <2>3. CASE k < i
    <3>1. k <= i - 1
      BY <1>1, <1>9, <2>1, <2>3
    <3>2. L[k] <= L[i - 1]
      BY <1>1, <1>9, <2>1, <3>1
    <3> QED
      BY <1>7, <1>9, <2>1, <2>2, <3>2
  <2>4. CASE j < k
    <3>1. j <= k - 1
      BY <1>1, <1>9, <2>1, <2>4
    <3>2. L[j] <= L[k - 1]
      BY <1>1, <1>9, <2>1, <3>1
    <3> QED
      BY <1>8, <1>9, <2>1, <2>2, <3>2
  <2>5. k \in Int /\ i \in Int /\ j \in Int
    BY <1>1, <1>9, <2>1
  <2> QED
    BY <2>3, <2>4, <2>5
<1>12. kept \in SUBSET Nat /\ IsFiniteSet(kept) /\ kept # {}
  <2>1. kept \in SUBSET (1..n)
    BY <1>4
  <2>2. IsFiniteSet(1..n)
    BY <1>1, FS_Interval
  <2>3. IsFiniteSet(kept)
    BY <2>1, <2>2, FS_Subset
  <2>4. 1..n \in SUBSET Nat
    OBVIOUS
  <2> QED
    BY <1>10, <2>1, <2>3, <2>4
<1>13. Min(kept) = i
  <2>1. Min(kept) \in kept /\ Min(kept) <= i
    BY <1>10, <1>12, MinIsLeast
  <2>2. i <= Min(kept) /\ Min(kept) \in Nat /\ i \in Nat
    BY <1>9, <1>10, <1>11, <1>12, <2>1
  <2> QED
    BY <2>1, <2>2
<1>14. Max(kept) = j
  <2>1. Max(kept) \in kept /\ j <= Max(kept)
    BY <1>10, <1>12, MaxIsGreatest
  <2>2. Max(kept) <= j /\ Max(kept) \in Nat /\ j \in Nat
    BY <1>9, <1>10, <1>11, <1>12, <2>1
  <2> QED
    BY <2>1, <2>2
<1>15. i <= j
  BY <1>10, <1>11
<1> QED
  BY <1>7, <1>8, <1>9, <1>13, <1>14, <1>15 DEF L, n, kept

(* A slice of a file's terms: where they start, and what they hold. *)
LEMMA TermsSlice ==
    ASSUME NEW terms \in TermSeqs, NEW A \in Nat, NEW b \in Nat, A < b, b <= Len(terms)
    PROVE  LET T == SubSeq(terms, A + 1, b)
               L == ByteOffset(terms)
           IN  /\ T \in TermSeqs /\ Len(T) = b - A
               /\ \A k \in 1..b - A : T[k] = terms[A + k]
               /\ \A i \in 0..b - A : ByteOffset(T)[i] = L[A + i] - L[A]
               /\ FileOf(T) = SubSeq(FileOf(terms), L[A] + 1, L[b])
<1> DEFINE T == SubSeq(terms, A + 1, b)
           L == ByteOffset(terms)
           n == Len(terms)
           m == b - A
           P == Bodies(terms)
           Q == Bodies(T)
<1>1. terms \in Seq(TermSet) /\ n \in Nat
  BY FileFacts
<1>2. A <= b /\ b <= n /\ m \in Nat /\ m > 0 /\ A + m = b
  BY <1>1
<1>3. T \in Seq(TermSet) /\ Len(T) = m /\ \A k \in 1..m : T[k] = terms[A + k]
  BY <1>1, <1>2, SliceFacts
<1>4. T \in TermSeqs
  <2> HIDE DEF T, m
  <2>1. T # <<>>
    BY <1>2, <1>3, EmptySeq
  <2> QED
    BY <1>3, <2>1 DEF TermSeqs
<1>5. /\ P \in Seq(Seq(Byte)) /\ Len(P) = n
      /\ \A k \in 1..n : P[k] = TermBytes(terms[k])
      /\ Lengths(P) \in Seq(Nat) /\ Len(Lengths(P)) = n
      /\ \A k \in 1..n : Lengths(P)[k] = UnpackedLength(terms[k])
      /\ IsTotals(L, Lengths(P))
  BY <1>1, BodiesFacts
<1> HIDE DEF T
<1>6. /\ Q \in Seq(Seq(Byte)) /\ Len(Q) = m
      /\ \A k \in 1..m : Q[k] = TermBytes(T[k])
      /\ Lengths(Q) \in Seq(Nat) /\ Len(Lengths(Q)) = m
      /\ \A k \in 1..m : Lengths(Q)[k] = UnpackedLength(T[k])
      /\ IsTotals(ByteOffset(T), Lengths(Q))
  BY <1>3, BodiesFacts
<1> HIDE DEF n, m, L, P, Q
<1>7. \A k \in 1..m : A + k \in 1..n
  BY <1>1, <1>2
<1>8. \A i \in 0..m : ByteOffset(T)[i] = L[A + i] - L[A]
  <2> DEFINE s == Lengths(P)
             u == Lengths(Q)
             w == ByteOffset(T)
  <2>1. /\ s \in Seq(Nat) /\ IsTotals(L, s) /\ u \in Seq(Nat) /\ IsTotals(w, u)
        /\ A + Len(u) <= Len(s) /\ Len(u) = m
    BY <1>2, <1>5, <1>6
  <2>2. \A k \in 1..m : u[k] = s[A + k]
    BY <1>3, <1>5, <1>6, <1>7
  <2> HIDE DEF s, u, w
  <2>3. IsSlice(u, s, A)
    BY <2>1, <2>2 DEF IsSlice
  <2>4. \A i \in 0..Len(u) : w[i] = L[A + i] - L[A]
    BY <2>1, <2>3, TotalsSlice
  <2>5. \A i \in 0..m : w[i] = L[A + i] - L[A]
    BY <2>1, <2>4
  <2> QED
    BY <2>5 DEF w
<1>9. SubSeq(P, A + 1, b) = Q
  <2> DEFINE u == SubSeq(P, A + 1, b)
  <2>1. u \in Seq(Seq(Byte)) /\ Len(u) = m /\ \A k \in 1..m : u[k] = P[A + k]
    BY <1>2, <1>5, SliceFacts DEF m
  <2> HIDE DEF u
  <2>2. \A k \in 1..m : u[k] = Q[k]
    BY <1>3, <1>5, <1>6, <1>7, <2>1
  <2>3. u = Q
    BY <1>6, <2>1, <2>2, SeqEqual
  <2> QED
    BY <2>3 DEF u
<1>10. SubSeq(FlattenSeq(P), L[A] + 1, L[b]) = FlattenSeq(Q)
  <2>1. A \in 0..Len(P) /\ b \in 0..Len(P)
    BY <1>1, <1>2, <1>5
  <2>2. P \in Seq(Seq(Byte)) /\ IsTotals(L, Lengths(P)) /\ A <= b
    BY <1>2, <1>5
  <2>3. SubSeq(FlattenSeq(P), L[A] + 1, L[b]) = FlattenSeq(SubSeq(P, A + 1, b))
    BY <2>1, <2>2, FlattenSlice
  <2> QED
    BY <1>9, <2>3
<1> QED
  BY <1>3, <1>4, <1>8, <1>10 DEF T, L, P, Q, FileOf, m

(* The bytes that a client keeps of those it has decoded. *)
Window(bytes, offset, want) ==
    SubSeq(bytes, offset + 1, Min({offset + want, Len(bytes)}))

(* Trimming a description to first..last keeps terms each of which holds a  *)
(* byte of the range, and the window of their bytes that                    *)
(* offset_into_first_range and the length of the range cut out is the range,*)
(* clamped to the file (reconstruction_terms, and the slice in the clients).*)
THEOREM TrimmingIsExact ==
    ASSUME NEW terms \in TermSeqs, NEW first \in Nat, NEW last \in Nat,
           first <= last, first < FileSize(terms)
    PROVE  LET trim == Trimmed(terms, first, last)
               want == last - first + 1
           IN  /\ trim.terms \in TermSeqs /\ trim.offset \in Nat
               /\ Window(FileOf(trim.terms), trim.offset, want) =
                     SubSeq(FileOf(terms), first + 1, Min({last + 1, Len(FileOf(terms))}))
               /\ \A i \in DOMAIN trim.terms :
                     /\ TermStart(trim.terms, i) < trim.offset + want
                     /\ TermStart(trim.terms, i) + UnpackedLength(trim.terms[i]) > trim.offset
<1> DEFINE L == ByteOffset(terms)
           n == Len(terms)
           end == Min({last, L[n] - 1})
           kept == Overlapping(terms, first, end)
           a == Min(kept)
           b == Max(kept)
           A == a - 1
           trim == Trimmed(terms, first, last)
           T == trim.terms
           o == trim.offset
           want == last - first + 1
           F == FileOf(terms)
           G == FileOf(T)
<1>1. /\ n \in Nat /\ \A i \in 0..n : L[i] \in Nat
      /\ \A i, j \in 0..n : (i < j => L[i] < L[j]) /\ (i <= j => L[i] <= L[j])
      /\ F \in Seq(Byte) /\ Len(F) = L[n] /\ FileSize(terms) = L[n] /\ L[n] > 0
      /\ n > 0
  BY FileFacts
<1> HIDE DEF F, L
<1>2. L[n] \in Nat /\ L[n] - 1 \in Nat
  <2>1. L[n] \in Nat
    BY <1>1
  <2> QED
    BY <1>1, <2>1
<1>3. /\ end = (IF last <= L[n] - 1 THEN last ELSE L[n] - 1)
      /\ end \in Nat /\ first <= end /\ end < L[n]
  <2>1. end = (IF last <= L[n] - 1 THEN last ELSE L[n] - 1) /\ end \in Nat
    BY <1>2, MinMaxOfTwo
  <2> HIDE DEF end
  <2> QED
    BY <1>1, <1>2, <2>1
<1>4. /\ a \in 1..n /\ b \in 1..n /\ a <= b
      /\ L[a - 1] <= first /\ first < L[a]
      /\ L[b - 1] <= end /\ end < L[b]
  <2> HIDE DEF end
  <2> QED
    BY <1>1, <1>3, KeptFacts DEF L
<1>5. trim = [offset |-> Max({0, first - TermStart(terms, a)}), terms |-> SubSeq(terms, a, b)]
  BY <1>1 DEF Trimmed
<1> HIDE DEF trim, a, b, kept, end
<1>6. A \in Nat /\ A < b /\ b \in Nat /\ b <= n /\ A + 1 = a
  BY <1>1, <1>4
<1> HIDE DEF A
<1>7. /\ A \in 0..n /\ a \in 0..n /\ b \in 0..n /\ b - 1 \in 0..n /\ a - 1 = A
  BY <1>1, <1>4, <1>6
<1>8. L[A] \in Nat /\ L[a] \in Nat /\ L[b] \in Nat /\ L[b - 1] \in Nat /\ L[A] <= first /\ L[b] <= L[n]
  <2>1. L[A] \in Nat /\ L[a] \in Nat /\ L[b] \in Nat /\ L[b - 1] \in Nat
    BY <1>1, <1>7
  <2>2. L[A] <= first
    BY <1>4, <1>7
  <2>3. L[b] <= L[n]
    <3>1. n \in 0..n
      BY <1>1
    <3> QED
      BY <1>1, <1>6, <1>7, <3>1
  <2> QED
    BY <2>1, <2>2, <2>3
<1>9. o = first - L[A] /\ o \in Nat
  <2>1. TermStart(terms, a) = L[A]
    BY <1>7 DEF TermStart, L
  <2>2. first - L[A] \in Nat /\ 0 <= first - L[A]
    BY <1>8
  <2>3. Max({0, first - L[A]}) = first - L[A]
    BY <2>2, MinMaxOfTwo
  <2> QED
    BY <1>5, <2>1, <2>2, <2>3
<1>10. T = SubSeq(terms, A + 1, b)
  BY <1>5, <1>6
<1> HIDE DEF T, o
<1>11. /\ T \in TermSeqs /\ Len(T) = b - A
       /\ \A k \in 1..b - A : T[k] = terms[A + k]
       /\ \A i \in 0..b - A : ByteOffset(T)[i] = L[A + i] - L[A]
       /\ G = SubSeq(F, L[A] + 1, L[b])
  <2>1. A \in Nat /\ b \in Nat /\ A < b /\ b <= Len(terms)
    BY <1>6
  <2> DEFINE U == SubSeq(terms, A + 1, b)
  <2>2. /\ U \in TermSeqs /\ Len(U) = b - A
        /\ \A k \in 1..b - A : U[k] = terms[A + k]
        /\ \A i \in 0..b - A : ByteOffset(U)[i] = L[A + i] - L[A]
        /\ FileOf(U) = SubSeq(F, L[A] + 1, L[b])
    BY <2>1, TermsSlice, SMTT(30) DEF L, F
  <2>3. T = U
    BY <1>10
  <2> HIDE DEF U, n
  <2> QED
    BY <2>2, <2>3
<1>12. ASSUME NEW i \in DOMAIN T
       PROVE  /\ TermStart(T, i) < o + want
              /\ TermStart(T, i) + UnpackedLength(T[i]) > o
  <2>1. /\ DOMAIN T = 1..b - A
        /\ \A k \in 1..b - A : ByteOffset(T)[k] = ByteOffset(T)[k - 1] + UnpackedLength(T[k])
    BY <1>11, FileFacts
  <2> DEFINE k == A + i
  <2>2. /\ i \in 1..b - A /\ i \in 0..b - A /\ i - 1 \in 0..b - A
        /\ k \in 1..n /\ k \in 0..n /\ k - 1 \in 0..n /\ A + (i - 1) = k - 1
        /\ k - 1 <= b - 1 /\ a <= k
    <3>1. i \in 1..b - A
      BY <2>1
    <3>2. A \in Nat /\ b \in Nat /\ n \in Nat /\ b <= n /\ A + 1 = a
      BY <1>1, <1>6
    <3> HIDE DEF n
    <3> QED
      BY <3>1, <3>2
  <2>3. TermStart(T, i) = L[k - 1] - L[A]
    BY <1>11, <2>2 DEF TermStart
  <2>4. TermStart(T, i) + UnpackedLength(T[i]) = L[k] - L[A]
    <3>1. ByteOffset(T)[i] = L[k] - L[A]
      BY <1>11, <2>2
    <3> QED
      BY <2>1, <2>2, <3>1 DEF TermStart
  <2> HIDE DEF k
  <2>5. L[k - 1] <= L[b - 1] /\ L[a] <= L[k] /\ L[k] \in Nat /\ L[k - 1] \in Nat
    BY <1>1, <1>7, <2>2
  <2>6. L[k - 1] <= last /\ first < L[k]
    <3>1. end <= last
      BY <1>2, <1>3
    <3> QED
      BY <1>3, <1>4, <1>8, <2>5, <3>1, SMTT(30)
  <2>7. L[k - 1] - L[A] < o + want
    BY <1>8, <1>9, <2>5, <2>6, SMTT(30)
  <2>8. L[k] - L[A] > o
    BY <1>8, <1>9, <2>5, <2>6
  <2> QED
    BY <2>3, <2>4, <2>7, <2>8
<1>13. Window(G, o, want) = SubSeq(F, first + 1, Min({last + 1, Len(F)}))
  <2> DEFINE c == L[A]
             e == L[b]
             q == Min({o + want, e - c})
             h == Min({last + 1, Len(F)})
  <2>1. c \in Nat /\ e \in Nat /\ c <= first /\ first <= end /\ end < e /\ e <= Len(F) /\ Len(F) \in Nat
    BY <1>1, <1>2, <1>3, <1>4, <1>8
  <2>2. G \in Seq(Byte) /\ Len(G) = e - c
    <3>1. c \in Nat /\ e \in Nat /\ c <= e /\ e <= Len(F) /\ F \in Seq(Byte)
      BY <1>1, <1>3, <2>1
    <3> HIDE DEF c, e
    <3>2. SubSeq(F, c + 1, e) \in Seq(Byte) /\ Len(SubSeq(F, c + 1, e)) = e - c
      BY <3>1, SliceFacts
    <3> QED
      BY <1>11, <3>2 DEF c, e
  <2> HIDE DEF c, e
  <2>3. o = first - c
    BY <1>9 DEF c
  <2>4. o + want \in Nat /\ e - c \in Nat /\ o + want = last + 1 - c
    BY <1>3, <2>1, <2>3
  <2>5. q = IF last + 1 - c <= e - c THEN last + 1 - c ELSE e - c
    BY <2>4, MinMaxOfTwo
  <2>6. h = IF last + 1 <= Len(F) THEN last + 1 ELSE Len(F)
    <3>1. last + 1 \in Nat /\ Len(F) \in Nat
      BY <2>1
    <3> QED
      BY <3>1, MinMaxOfTwo
  <2> HIDE DEF q, h, want
  <2>7. Len(F) = L[n]
    BY <1>1
  <2>8. q \in Nat /\ c + q = h /\ o <= q /\ q <= e - c
    BY <1>3, <2>1, <2>3, <2>5, <2>6, <2>7
  <2>9. c + o = first /\ o \in Nat /\ c <= e
    BY <1>3, <1>9, <2>1, <2>3
  <2>10. SubSeq(SubSeq(F, c + 1, e), o + 1, q) = SubSeq(F, c + o + 1, c + q)
    BY <1>1, <2>1, <2>8, <2>9, SliceOfSlice
  <2>11. G = SubSeq(F, c + 1, e)
    BY <1>11 DEF c, e
  <2>12. SubSeq(G, o + 1, q) = SubSeq(F, first + 1, h)
    BY <2>8, <2>9, <2>10, <2>11
  <2> HIDE DEF G
  <2>13. Window(G, o, want) = SubSeq(G, o + 1, q)
    BY <2>2 DEF Window, q
  <2> QED
    BY <2>12, <2>13 DEF h
<1> QED
  BY <1>9, <1>11, <1>12, <1>13 DEF T, o, trim, F

-----------------------------------------------------------------------------
(* The inductive invariant, for each point of the download.                 *)

(* Needed, of the file c. *)
NeededBy(c, d, i) ==
    LET want == IF d.range = WholeFile THEN Len(FileBytes[c])
                ELSE d.range.last - d.range.first + 1
    IN  /\ TermStart(d.terms, i) < d.offset + want
        /\ TermStart(d.terms, i) + UnpackedLength(d.terms[i]) > d.offset

(* The terms of d are all that the answer needs and, cut, the answer. *)
Answers(c, d) ==
    /\ d.terms \in TermSeqs
    /\ Clip(FileOf(d.terms), d.offset, d.range) = Wanted(c, d.range)
    /\ \A i \in DOMAIN d.terms : NeededBy(c, d, i)
    /\ d.exp \in Nat

(* One descriptor for each merged range of each xorb that is not to do. *)
Resolved(terms, todo, descs) ==
    /\ \A e \in descs : /\ e.xorb \in TermXorbs(terms) \ todo
                        /\ e.chunks \in MergedRanges(terms, e.xorb)
                        /\ e.bytes = SpanOf(e.xorb, e.chunks)
    /\ \A x \in TermXorbs(terms) \ todo : \A r \in MergedRanges(terms, x) :
          \E e \in descs : e.xorb = x /\ e.chunks = r
    /\ \A e, f \in descs : e.xorb = f.xorb /\ e.chunks = f.chunks => e = f

WholeXorb(x) == [first |-> 0, last |-> Boundary[x][Len(Frames[x])] - 1]

(* A URL of a way of serving, after any restarts that led to the key. *)
UrlFits(way, now, e, exp) ==
    /\ e.url.xorb = e.xorb
    /\ e.url.exp \in Nat /\ exp <= e.url.exp
    /\ way = "presign" => e.url.key = "store" /\ e.url.span = WholeXorb(e.xorb)
    /\ way # "presign" => /\ e.url.span = e.bytes
                          /\ e.url.key = now \/ (way = "random" /\ now = "second")

UrlsFit(way, now, descs, exp) == \A e \in descs : UrlFits(way, now, e, exp)

(* The server: whoever has a secret has no other key. *)
ServerInv ==
    /\ clock \in Nat
    /\ serving \in Servings
    /\ serving = "secret" => key = "secret"
    /\ content \in Contents

(* What a request asks, of a description of the file. *)
Asked(c, d) ==
    /\ d.terms \in TermSeqs
    /\ FileOf(d.terms) = FileBytes[c]
    /\ d.range # WholeFile => /\ d.range.first \in Nat /\ d.range.last \in Nat
                              /\ d.range.first <= d.range.last

ShardInv == dl.pc = "shard" => Asked(content, dl)

(* While the descriptors are made: those made so far are right, their URLs  *)
(* will be good as long as the plan says, and are of this process unless a  *)
(* restart explains it.                                                     *)
PlanInv ==
    dl.pc = "plan" =>
        /\ dl = [pc |-> "plan", range |-> dl.range, terms |-> dl.terms,
                 offset |-> dl.offset, exp |-> dl.exp, todo |-> dl.todo, descs |-> dl.descs]
        /\ Answers(content, dl)
        /\ dl.todo \subseteq TermXorbs(dl.terms)
        /\ dl.exp <= clock + UrlTtl
        /\ Resolved(dl.terms, dl.todo, dl.descs)
        /\ UrlsFit(serving, key, dl.descs, dl.exp)

(* Each part is still to come, or is what the term stands for. *)
Fetched(terms, parts) ==
    /\ parts = [i \in DOMAIN terms |-> parts[i]]
    /\ \A i \in DOMAIN terms : parts[i] \in {<<>>, TermBytes(terms[i])}

(* While the parts are fetched: the plan is complete, and stays so whatever *)
(* is deleted.                                                              *)
FetchInv ==
    dl.pc = "fetch" =>
        /\ dl = [pc |-> "fetch", range |-> dl.range, terms |-> dl.terms,
                 offset |-> dl.offset, exp |-> dl.exp, descs |-> dl.descs,
                 parts |-> dl.parts]
        /\ Answers(content, dl)
        /\ Resolved(dl.terms, {}, dl.descs)
        /\ UrlsFit(serving, key, dl.descs, dl.exp)
        /\ Fetched(dl.terms, dl.parts)

IInv ==
    /\ ServerInv
    /\ ShardInv
    /\ PlanInv
    /\ FetchInv
    /\ DownloadCorrect
    /\ FailsForCause

(* All descriptions of a file spell its bytes. *)
LEMMA DescribedFacts ==
    ASSUME NEW c \in Contents, NEW terms \in Described[c]
    PROVE  terms \in TermSeqs /\ FileOf(terms) = FileBytes[c] /\ FileBytes[c] \in Seq(Byte)
<1>1. PICK n \in 1..MaxTerms : terms \in [1..n -> TermSet] /\ ChunkNames(terms) = c
  <2> DEFINE All == UNION {[1..n -> TermSet] : n \in 1..MaxTerms}
             named == {<<ChunkNames(t), t>> : t \in All}
  <2>1. Described[c] = {d[2] : d \in {e \in named : e[1] = c}}
    BY DEF Described
  <2>2. PICK d \in named : d[1] = c /\ d[2] = terms
    BY <2>1
  <2>3. PICK t \in All : d = <<ChunkNames(t), t>>
    BY <2>2
  <2>4. t = terms /\ ChunkNames(terms) = c
    BY <2>2, <2>3
  <2>5. PICK n \in 1..MaxTerms : terms \in [1..n -> TermSet]
    BY <2>3, <2>4
  <2> QED
    BY <2>4, <2>5
<1>2. n \in Nat /\ n > 0
  BY DownloadAssumption
<1>3. terms \in Seq(TermSet) /\ Len(terms) = n
  BY <1>1, <1>2
<1>4. terms # <<>>
  BY <1>2, <1>3, EmptySeq
<1>5. terms \in TermSeqs
  BY <1>3, <1>4 DEF TermSeqs
<1>6. BytesOf(c) = FileOf(terms)
  BY <1>1, <1>3, BodiesFacts DEF FileOf
<1>7. FileOf(terms) \in Seq(Byte)
  BY <1>5, FileFacts
<1> QED
  BY <1>5, <1>6, <1>7 DEF FileBytes

LEMMA RangesFacts ==
    ASSUME NEW c \in Contents, FileBytes[c] \in Seq(Byte), NEW r \in Ranges(c),
           r # WholeFile
    PROVE  r.first \in Nat /\ r.last \in Nat /\ r.first <= r.last
<1>1. Len(FileBytes[c]) \in Nat
  OBVIOUS
<1> QED
  BY <1>1 DEF Ranges

LEMMA TermXorbsFacts ==
    ASSUME NEW terms \in TermSeqs
    PROVE  /\ TermXorbs(terms) \subseteq Xorbs
           /\ \A i \in DOMAIN terms : terms[i].xorb \in TermXorbs(terms) /\ IsTerm(terms[i])
<1>1. terms \in Seq(TermSet) /\ DOMAIN terms = 1..Len(terms)
  BY FileFacts
<1>2. \A i \in DOMAIN terms : IsTerm(terms[i])
  BY <1>1, BodiesFacts
<1> QED
  BY <1>2 DEF TermXorbs, IsTerm

-----------------------------------------------------------------------------
(* The descriptors of a plan.                                               *)

LEMMA DescFacts ==
    ASSUME NEW terms \in TermSeqs, NEW todo, NEW descs, Resolved(terms, todo, descs),
           NEW e \in descs
    PROVE  /\ InXorb(e.xorb, e.chunks) /\ e.bytes = SpanOf(e.xorb, e.chunks)
           /\ e.xorb \in TermXorbs(terms) \ todo
           /\ e.chunks \in MergedRanges(terms, e.xorb)
<1>1. /\ e.xorb \in TermXorbs(terms) \ todo /\ e.chunks \in MergedRanges(terms, e.xorb)
      /\ e.bytes = SpanOf(e.xorb, e.chunks)
  BY DEF Resolved
<1>2. e.xorb \in Xorbs /\ terms \in Seq(TermSet)
  BY <1>1, TermXorbsFacts, FileFacts
<1>3. InXorb(e.xorb, e.chunks)
  BY <1>1, <1>2, MergedRangesFacts DEF InXorb
<1> QED
  BY <1>1, <1>3

(* No fetch is for want of a descriptor. *)
LEMMA CoveringDesc ==
    ASSUME NEW terms \in TermSeqs, NEW descs, Resolved(terms, {}, descs),
           NEW i \in DOMAIN terms
    PROVE  \E e \in descs : Covers(e, terms[i])
<1> DEFINE t == terms[i]
<1>1. t.xorb \in TermXorbs(terms) /\ IsTerm(t) /\ t.xorb \in Xorbs /\ terms \in Seq(TermSet)
  BY TermXorbsFacts, FileFacts
<1>2. PICK r \in RangesOf(terms, t.xorb) : r.start = t.start /\ r.end = t.end
  BY <1>1, RangesOfFacts
<1>3. PICK q \in MergedRanges(terms, t.xorb) : q.start <= r.start /\ r.end <= q.end
  BY <1>1, MergedRangesFacts DEF Merges
<1>4. PICK e \in descs : e.xorb = t.xorb /\ e.chunks = q
  BY <1>1 DEF Resolved
<1>5. q.end \in Nat /\ t.end \in Nat
  BY <1>1, MergedRangesFacts DEF IsTerm
<1>6. q.start <= t.start /\ q.end >= t.end
  BY <1>2, <1>3, <1>5
<1> QED
  BY <1>4, <1>6 DEF Covers

(* What covers a term decodes to it. *)
LEMMA CoveredDecodes ==
    ASSUME NEW terms \in TermSeqs, NEW descs, Resolved(terms, {}, descs),
           NEW i \in DOMAIN terms, NEW e \in descs, Covers(e, terms[i])
    PROVE  LET t == terms[i]
           IN  /\ Decodes(t.xorb, e.bytes, t.start - e.chunks.start, t.end - e.chunks.start)
               /\ Decoded(t.xorb, e.bytes, t.start - e.chunks.start, t.end - e.chunks.start)
                     = TermBytes(t)
<1> DEFINE t == terms[i]
           r == e.chunks
<1>1. IsTerm(t)
  BY TermXorbsFacts
<1>2. InXorb(e.xorb, r) /\ e.bytes = SpanOf(e.xorb, r)
  BY DescFacts
<1>3. e.xorb = t.xorb /\ r.start <= t.start /\ r.end >= t.end
  BY DEF Covers
<1>4. r.end \in Nat /\ t.end \in Nat
  BY <1>1, <1>2 DEF InXorb, IsTerm
<1>5. t.end <= r.end
  BY <1>3, <1>4
<1> HIDE DEF t, r
<1> QED
  BY <1>1, <1>2, <1>3, <1>5, SpanHoldsTerm DEF t, r

(* The URL of a descriptor grants its span. *)
LEMMA UrlGrants ==
    ASSUME NEW way, NEW now, NEW e, NEW exp, UrlFits(way, now, e, exp),
           InXorb(e.xorb, e.chunks), e.bytes = SpanOf(e.xorb, e.chunks)
    PROVE  Granted(e.url, e.xorb, e.bytes)
<1> DEFINE x == e.xorb
           n == Len(Frames[x])
           b == e.bytes
<1>1. x \in Xorbs /\ e.chunks.end \in Nat /\ e.chunks.end <= n
  BY DEF InXorb
<1>2. n \in Nat /\ e.chunks.end \in 0..n /\ n \in 0..n
  <2>1. n \in Nat
    BY <1>1, XorbFacts
  <2> QED
    BY <1>1, <2>1
<1>3. b.first \in Nat /\ b.last \in Nat /\ b.last = Boundary[x][e.chunks.end] - 1
  BY SpanFacts
<1>4. /\ Boundary[x][e.chunks.end] <= Boundary[x][n]
      /\ Boundary[x][n] \in Nat /\ Boundary[x][e.chunks.end] \in Nat
  BY <1>1, <1>2, BoundaryFacts
<1>5. e.url.xorb = x
  BY DEF UrlFits
<1>6. CASE way = "presign"
  <2>1. e.url.span.first = 0 /\ e.url.span.last = Boundary[x][n] - 1
    BY <1>6 DEF UrlFits, WholeXorb
  <2>2. b.first >= 0 /\ b.last <= Boundary[x][n] - 1
    <3> DEFINE p == Boundary[x][e.chunks.end]
               q == Boundary[x][n]
               l == b.last
    <3>1. b.first \in Nat /\ l = p - 1 /\ p <= q /\ p \in Nat /\ q \in Nat
      BY <1>3, <1>4
    <3> HIDE DEF p, q, l
    <3>2. l <= q - 1
      BY <3>1
    <3> QED
      BY <1>3, <3>2 DEF l, q
  <2> QED
    BY <1>5, <2>1, <2>2 DEF Granted
<1>7. CASE way # "presign"
  <2>1. e.url.span = b
    BY <1>7 DEF UrlFits
  <2>2. b.first >= b.first /\ b.last <= b.last
    BY <1>3
  <2> QED
    BY <1>5, <2>1, <2>2 DEF Granted
<1> QED
  BY <1>6, <1>7

(* The descriptors of one more xorb. *)
LEMMA ResolvedGrows ==
    ASSUME NEW terms \in TermSeqs, NEW todo \in SUBSET TermXorbs(terms), NEW x \in todo,
           NEW descs, Resolved(terms, todo, descs), NEW new,
           \A e \in new : /\ e.xorb = x /\ e.chunks \in MergedRanges(terms, x)
                          /\ e.bytes = SpanOf(x, e.chunks),
           \A r \in MergedRanges(terms, x) : \E e \in new : e.chunks = r,
           \A e, f \in new : e.chunks = f.chunks => e = f
    PROVE  Resolved(terms, todo \ {x}, descs \cup new)
<1>1. /\ \A e \in descs : /\ e.xorb \in TermXorbs(terms) \ todo
                          /\ e.chunks \in MergedRanges(terms, e.xorb)
                          /\ e.bytes = SpanOf(e.xorb, e.chunks)
      /\ \A y \in TermXorbs(terms) \ todo : \A r \in MergedRanges(terms, y) :
            \E e \in descs : e.xorb = y /\ e.chunks = r
      /\ \A e, f \in descs : e.xorb = f.xorb /\ e.chunks = f.chunks => e = f
  BY DEF Resolved
<1> DEFINE all == descs \cup new
           left == todo \ {x}
<1>2. ASSUME NEW e \in all
      PROVE  /\ e.xorb \in TermXorbs(terms) \ left
             /\ e.chunks \in MergedRanges(terms, e.xorb)
             /\ e.bytes = SpanOf(e.xorb, e.chunks)
  <2>1. CASE e \in descs
    BY <1>1, <2>1
  <2>2. CASE e \in new
    BY <2>2
  <2> QED
    BY <2>1, <2>2
<1>3. ASSUME NEW y \in TermXorbs(terms) \ left, NEW r \in MergedRanges(terms, y)
      PROVE  \E e \in all : e.xorb = y /\ e.chunks = r
  <2>1. CASE y = x
    BY <2>1
  <2>2. CASE y # x
    <3>1. y \in TermXorbs(terms) \ todo
      BY <2>2
    <3> QED
      BY <1>1, <3>1
  <2> QED
    BY <2>1, <2>2
<1>4. ASSUME NEW e \in all, NEW f \in all, e.xorb = f.xorb, e.chunks = f.chunks
      PROVE  e = f
  <2>1. e \in descs => e.xorb # x
    BY <1>1
  <2>2. f \in descs => f.xorb # x
    BY <1>1
  <2>3. (e \in new => e.xorb = x) /\ (f \in new => f.xorb = x)
    OBVIOUS
  <2>4. (e \in descs /\ f \in descs) \/ (e \in new /\ f \in new)
    BY <1>4, <2>1, <2>2, <2>3
  <2> QED
    BY <1>1, <1>4, <2>4
<1> HIDE DEF all, left
<1>5. Resolved(terms, left, all)
  BY <1>2, <1>3, <1>4 DEF Resolved
<1> QED
  BY <1>5 DEF left, all

-----------------------------------------------------------------------------
(* What ReadShard leaves of a description answers the request.              *)

LEMMA WholeAnswers ==
    ASSUME NEW c \in Contents, NEW d, d.terms \in TermSeqs,
           FileOf(d.terms) = FileBytes[c], d.range = WholeFile, d.offset = 0,
           d.exp \in Nat
    PROVE  Answers(c, d)
<1> DEFINE terms == d.terms
           L == ByteOffset(terms)
           n == Len(terms)
           F == FileOf(terms)
<1>1. /\ n \in Nat /\ DOMAIN terms = 1..n
      /\ L[0] = 0 /\ \A i \in 0..n : L[i] \in Nat
      /\ \A i, j \in 0..n : (i < j => L[i] < L[j]) /\ (i <= j => L[i] <= L[j])
      /\ \A i \in 1..n : L[i] = L[i - 1] + UnpackedLength(terms[i])
      /\ F \in Seq(Byte) /\ Len(F) = L[n]
  BY FileFacts
<1>2. Clip(F, d.offset, d.range) = Wanted(c, d.range)
  <2> HIDE DEF F
  <2>1. Clip(F, d.offset, d.range) = SubSeq(F, 1, Len(F))
    BY DEF Clip
  <2>2. SubSeq(F, 1, Len(F)) = F
    BY <1>1, SubSeqFull
  <2> QED
    BY <2>1, <2>2 DEF Wanted, F
<1> HIDE DEF F, L, n
<1>3. ASSUME NEW i \in DOMAIN terms PROVE NeededBy(c, d, i)
  <2>1. i \in 1..n /\ i \in 0..n /\ i - 1 \in 0..n /\ n \in 0..n /\ i - 1 < n /\ 0 \in 0..n /\ 0 < i
    BY <1>1
  <2>2. L[i - 1] < L[n] /\ L[0] < L[i] /\ L[i] = L[i - 1] + UnpackedLength(terms[i])
    BY <1>1, <2>1
  <2>3. /\ TermStart(terms, i) = L[i - 1] /\ L[i - 1] \in Nat /\ L[n] \in Nat /\ L[i] \in Nat
        /\ L[0] = 0
    BY <1>1, <2>1 DEF TermStart, L
  <2>4. L[i - 1] < 0 + L[n] /\ L[i] > 0
    BY <2>2, <2>3
  <2>5. Len(FileBytes[c]) = L[n]
    BY <1>1 DEF F
  <2> QED
    BY <2>2, <2>3, <2>4, <2>5 DEF NeededBy
<1> QED
  BY <1>2, <1>3 DEF Answers, F

LEMMA TrimmedAnswers ==
    ASSUME NEW c \in Contents, NEW terms \in TermSeqs, FileOf(terms) = FileBytes[c],
           NEW d, d.range # WholeFile,
           d.range.first \in Nat, d.range.last \in Nat, d.range.first <= d.range.last,
           d.range.first < FileSize(terms),
           d.terms = Trimmed(terms, d.range.first, d.range.last).terms,
           d.offset = Trimmed(terms, d.range.first, d.range.last).offset,
           d.exp \in Nat
    PROVE  Answers(c, d)
<1> DEFINE first == d.range.first
           last == d.range.last
           want == last - first + 1
           F == FileOf(terms)
<1>1. /\ d.terms \in TermSeqs
      /\ Window(FileOf(d.terms), d.offset, want) =
            SubSeq(F, first + 1, Min({last + 1, Len(F)}))
      /\ \A i \in DOMAIN d.terms :
            /\ TermStart(d.terms, i) < d.offset + want
            /\ TermStart(d.terms, i) + UnpackedLength(d.terms[i]) > d.offset
  <2> HIDE DEF first, last
  <2>1. first \in Nat /\ last \in Nat /\ first <= last /\ first < FileSize(terms)
    BY DEF first, last
  <2>2. d.terms = Trimmed(terms, first, last).terms /\ d.offset = Trimmed(terms, first, last).offset
    BY DEF first, last
  <2> QED
    BY <2>1, <2>2, TrimmingIsExact, ZenonT(40)
<1>2. Clip(FileOf(d.terms), d.offset, d.range) = Wanted(c, d.range)
  <2>1. Clip(FileOf(d.terms), d.offset, d.range) = Window(FileOf(d.terms), d.offset, want)
    BY DEF Clip, Window
  <2>2. Wanted(c, d.range) = SubSeq(F, first + 1, Min({last + 1, Len(F)}))
    BY DEF Wanted
  <2> QED
    BY <1>1, <2>1, <2>2
<1>3. \A i \in DOMAIN d.terms : NeededBy(c, d, i)
  BY <1>1 DEF NeededBy
<1> QED
  BY <1>1, <1>2, <1>3 DEF Answers

-----------------------------------------------------------------------------
(* The steps.                                                               *)

LEMMA IInvInit == Init => IInv
<1> SUFFICES ASSUME Init PROVE IInv
  OBVIOUS
<1>1. dl.pc = "idle"
  BY DEF Init, Idle
<1>2. ServerInv
  BY DEF Init, ServerInv, KeyOf
<1>3. ShardInv /\ PlanInv /\ FetchInv /\ DownloadCorrect /\ FailsForCause
  BY <1>1 DEF ShardInv, PlanInv, FetchInv, DownloadCorrect, FailsForCause
<1> QED
  BY <1>2, <1>3 DEF IInv

(* Steps after which nothing of the download is left to hold but what its   *)
(* outcome says.                                                            *)
LEMMA Vacuous ==
    ASSUME dl'.pc \notin {"shard", "plan", "fetch"}
    PROVE  ShardInv' /\ PlanInv' /\ FetchInv'
BY DEF ShardInv, PlanInv, FetchInv

LEMMA RequestStep ==
    ASSUME IInv, NEW r \in Ranges(content), NEW terms \in Described[content],
           Request(r, terms)
    PROVE  IInv'
<1>1. /\ dl' = [pc |-> "shard", range |-> r, terms |-> terms, exp |-> 0]
      /\ clock' = clock /\ serving' = serving /\ key' = key /\ content' = content
  BY DEF Request, server
<1>2. dl'.pc = "shard" /\ dl'.range = r /\ dl'.terms = terms
  BY <1>1
<1>3. content \in Contents
  BY DEF IInv, ServerInv
<1>4. ServerInv'
  BY <1>1 DEF IInv, ServerInv
<1>5. Asked(content, dl')
  <2>1. terms \in TermSeqs /\ FileOf(terms) = FileBytes[content] /\ FileBytes[content] \in Seq(Byte)
    BY <1>3, DescribedFacts
  <2>2. r # WholeFile => r.first \in Nat /\ r.last \in Nat /\ r.first <= r.last
    BY <1>3, <2>1, RangesFacts
  <2> QED
    BY <1>2, <2>1, <2>2 DEF Asked
<1>6. ShardInv'
  BY <1>1, <1>5 DEF ShardInv
<1>7. PlanInv' /\ FetchInv' /\ DownloadCorrect' /\ FailsForCause'
  BY <1>2 DEF PlanInv, FetchInv, DownloadCorrect, FailsForCause
<1> QED
  BY <1>4, <1>6, <1>7 DEF IInv

LEMMA NotFoundStep ==
    ASSUME IInv, NEW r, NotFound(r)
    PROVE  IInv'
<1>1. /\ dl'.pc = "failed" /\ dl'.at = "idle"
      /\ clock' = clock /\ serving' = serving /\ key' = key /\ content' = content
  BY DEF NotFound, server, Failed
<1>2. ServerInv'
  BY <1>1 DEF IInv, ServerInv
<1>3. ShardInv' /\ PlanInv' /\ FetchInv'
  BY <1>1, Vacuous
<1>4. DownloadCorrect' /\ FailsForCause'
  BY <1>1 DEF DownloadCorrect, FailsForCause
<1> QED
  BY <1>2, <1>3, <1>4 DEF IInv

LEMMA ReadShardStep ==
    ASSUME IInv, ReadShard
    PROVE  IInv'
<1> DEFINE whole == dl.range = WholeFile
           t == Trimmed(dl.terms, dl.range.first, dl.range.last)
           trim == IF whole THEN [offset |-> 0, terms |-> dl.terms] ELSE t
           satisfiable == whole \/ dl.range.first < FileSize(dl.terms)
           plan == [pc |-> "plan", range |-> dl.range, terms |-> trim.terms,
                    offset |-> trim.offset, exp |-> clock + UrlTtl,
                    todo |-> TermXorbs(trim.terms), descs |-> {}]
<1>1. /\ dl.pc = "shard"
      /\ clock' = clock /\ serving' = serving /\ key' = key /\ content' = content
      /\ \/ dl' = Failed(dl)
         \/ satisfiable /\ dl' = plan
  BY DEF ReadShard, server
<1>2. ServerInv'
  BY <1>1 DEF IInv, ServerInv
<1>3. CASE dl' = Failed(dl)
  <2>1. dl'.pc = "failed" /\ dl'.at = "shard"
    BY <1>1, <1>3 DEF Failed
  <2>2. ShardInv' /\ PlanInv' /\ FetchInv'
    BY <2>1, Vacuous
  <2>3. DownloadCorrect' /\ FailsForCause'
    BY <2>1 DEF DownloadCorrect, FailsForCause
  <2> QED
    BY <1>2, <2>2, <2>3 DEF IInv
<1>4. CASE satisfiable /\ dl' = plan
  <2>1. Asked(content, dl) /\ content \in Contents /\ clock \in Nat /\ UrlTtl \in Nat
    BY <1>1, DownloadAssumption DEF IInv, ShardInv, ServerInv
  <2>2. /\ dl'.pc = "plan" /\ dl'.range = dl.range /\ dl'.terms = trim.terms
        /\ dl'.offset = trim.offset /\ dl'.exp = clock + UrlTtl
        /\ dl'.todo = TermXorbs(trim.terms) /\ dl'.descs = {}
    BY <1>4
  <2> HIDE DEF plan
  <2>3. dl'.exp \in Nat /\ dl'.exp <= clock' + UrlTtl
    BY <1>1, <2>1, <2>2
  <2>4. Answers(content, dl')
    <3>1. CASE whole
      <4>1. trim.terms = dl.terms /\ trim.offset = 0
        BY <3>1
      <4>2. /\ dl'.terms \in TermSeqs /\ FileOf(dl'.terms) = FileBytes[content]
            /\ dl'.range = WholeFile /\ dl'.offset = 0
        BY <2>1, <2>2, <3>1, <4>1 DEF Asked
      <4> QED
        BY <2>1, <2>3, <4>2, WholeAnswers
    <3>2. CASE ~whole
      <4>1. trim = t
        BY <3>2
      <4>2. /\ dl.terms \in TermSeqs /\ FileOf(dl.terms) = FileBytes[content]
            /\ dl'.range # WholeFile
            /\ dl'.range.first \in Nat /\ dl'.range.last \in Nat
            /\ dl'.range.first <= dl'.range.last /\ dl'.range.first < FileSize(dl.terms)
        BY <1>4, <2>1, <2>2, <3>2 DEF Asked
      <4>3. /\ dl'.terms = Trimmed(dl.terms, dl'.range.first, dl'.range.last).terms
            /\ dl'.offset = Trimmed(dl.terms, dl'.range.first, dl'.range.last).offset
        BY <2>2, <4>1
      <4> QED
        BY <2>1, <2>3, <4>2, <4>3, TrimmedAnswers
    <3> QED
      BY <3>1, <3>2
  <2> HIDE DEF trim
  <2>5. Resolved(dl'.terms, dl'.todo, dl'.descs)
    BY <2>2 DEF Resolved
  <2>6. UrlsFit(serving', key', dl'.descs, dl'.exp)
    BY <2>2 DEF UrlsFit
  <2>7. dl' = [pc |-> "plan", range |-> dl'.range, terms |-> dl'.terms,
               offset |-> dl'.offset, exp |-> dl'.exp, todo |-> dl'.todo,
               descs |-> dl'.descs]
    BY <1>4, <2>2 DEF plan
  <2>8. PlanInv'
    BY <1>1, <2>2, <2>3, <2>4, <2>5, <2>6, <2>7 DEF PlanInv
  <2>9. ShardInv' /\ FetchInv' /\ DownloadCorrect' /\ FailsForCause'
    BY <2>2 DEF ShardInv, FetchInv, DownloadCorrect, FailsForCause
  <2> QED
    BY <1>2, <2>8, <2>9 DEF IInv
<1> QED
  BY <1>1, <1>3, <1>4

(* The descriptors that one entry of build_xorb_fetch_entries adds. *)
Entry(x, offsets) == {WithUrl(d) : d \in Descriptors(dl.terms, x, offsets)}

(* They are one for each merged range, from either source of offsets. *)
LEMMA EntryFacts ==
    ASSUME ServerInv, dl.terms \in TermSeqs, dl.exp \in Nat, dl.exp <= clock + UrlTtl,
           NEW x \in Xorbs, NEW offsets \in {OffsetsFromLayout(x), OffsetsFromXorb(x)}
    PROVE  LET M == MergedRanges(dl.terms, x)
               new == Entry(x, offsets)
           IN  /\ \A e \in new : /\ e.xorb = x /\ e.chunks \in M
                                 /\ e.bytes = SpanOf(x, e.chunks)
               /\ \A r \in M : \E e \in new : e.chunks = r
               /\ \A e, f \in new : e.chunks = f.chunks => e = f
               /\ UrlsFit(serving, key, new, dl.exp)
<1> DEFINE M == MergedRanges(dl.terms, x)
           new == Entry(x, offsets)
           Made(r) == [xorb |-> x, chunks |-> r, bytes |-> SpanOf(x, r),
                       url |-> UrlFor(x, SpanOf(x, r))]
<1>1. Descriptors(dl.terms, x, offsets) =
         {[xorb |-> x, chunks |-> r, bytes |-> SpanOf(x, r)] : r \in M}
  <2>1. dl.terms \in Seq(TermSet)
    BY FileFacts
  <2> QED
    BY <2>1, DescriptorsFacts
<1>2. new = {Made(r) : r \in M}
  <2> DEFINE Plain(r) == [xorb |-> x, chunks |-> r, bytes |-> SpanOf(x, r)]
  <2>1. \A r \in M : WithUrl(Plain(r)) = Made(r)
    BY DEF WithUrl
  <2>2. Descriptors(dl.terms, x, offsets) = {Plain(r) : r \in M}
    BY <1>1
  <2> HIDE DEF Plain, Made, M
  <2>3. new = {WithUrl(Plain(r)) : r \in M}
    BY <2>2 DEF Entry
  <2> QED
    BY <2>1, <2>3
<1>3. \A r \in M : Made(r).xorb = x /\ Made(r).chunks = r /\ Made(r).bytes = SpanOf(x, r)
  OBVIOUS
<1>4. ASSUME NEW r \in M PROVE UrlFits(serving, key, Made(r), dl.exp)
  <2>1. clock \in Nat /\ UrlTtl \in Nat
    BY DownloadAssumption DEF ServerInv
  <2>2. CASE serving = "presign"
    <3>1. Made(r).url = PresignedUrl(x, clock + UrlTtl)
      BY <2>2 DEF UrlFor
    <3> QED
      BY <2>1, <2>2, <3>1 DEF UrlFits, PresignedUrl, WholeXorb
  <2>3. CASE serving # "presign"
    <3>1. Made(r).url = SignedUrl(key, x, SpanOf(x, r), dl.exp)
      BY <2>3 DEF UrlFor
    <3> QED
      BY <2>3, <3>1 DEF UrlFits, SignedUrl
  <2> QED
    BY <2>2, <2>3
<1> HIDE DEF Made, new, M
<1> QED
  BY <1>2, <1>3, <1>4 DEF UrlsFit, new, M

LEMMA ResolveXorbStep ==
    ASSUME IInv, NEW x \in Xorbs, ResolveXorb(x)
    PROVE  IInv'
<1> DEFINE offsets == IF x \in sized THEN OffsetsFromLayout(x) ELSE OffsetsFromXorb(x)
           new == Entry(x, offsets)
           descs == dl.descs \cup new
           more == [dl EXCEPT !.todo = @ \ {x}, !.descs = descs]
           full == [pc |-> "fetch", range |-> dl.range, terms |-> dl.terms,
                    offset |-> dl.offset, exp |-> dl.exp, descs |-> descs,
                    parts |-> [i \in DOMAIN dl.terms |-> <<>>]]
<1>1. /\ dl.pc = "plan" /\ x \in dl.todo
      /\ clock' = clock /\ serving' = serving /\ key' = key /\ content' = content
      /\ gone' = gone
      /\ \/ x \in gone /\ dl' = Failed(dl)
         \/ dl' = IF dl.todo # {x} THEN more ELSE full
  BY DEF ResolveXorb, server, Entry
<1>2. ServerInv /\ ServerInv'
  BY <1>1 DEF IInv, ServerInv
<1>3. /\ dl = [pc |-> "plan", range |-> dl.range, terms |-> dl.terms,
               offset |-> dl.offset, exp |-> dl.exp, todo |-> dl.todo, descs |-> dl.descs]
      /\ Answers(content, dl) /\ dl.todo \subseteq TermXorbs(dl.terms)
      /\ dl.exp <= clock + UrlTtl
      /\ Resolved(dl.terms, dl.todo, dl.descs)
      /\ UrlsFit(serving, key, dl.descs, dl.exp)
  BY <1>1, Zenon DEF IInv, PlanInv
<1>4. dl.terms \in TermSeqs /\ dl.exp \in Nat
  BY <1>3 DEF Answers
<1>5. CASE x \in gone /\ dl' = Failed(dl)
  <2>1. dl'.pc = "failed" /\ dl'.at = "plan" /\ dl'.terms = dl.terms
    BY <1>1, <1>5 DEF Failed
  <2>2. ShardInv' /\ PlanInv' /\ FetchInv'
    BY <2>1, Vacuous
  <2>3. x \in TermXorbs(dl'.terms) \cap gone'
    BY <1>1, <1>3, <1>5, <2>1
  <2>4. DownloadCorrect' /\ FailsForCause'
    BY <2>1, <2>3 DEF DownloadCorrect, FailsForCause
  <2> QED
    BY <1>2, <2>2, <2>4 DEF IInv
<1>6. /\ Resolved(dl.terms, dl.todo \ {x}, descs)
      /\ UrlsFit(serving, key, descs, dl.exp)
  <2>1. offsets \in {OffsetsFromLayout(x), OffsetsFromXorb(x)}
    OBVIOUS
  <2> HIDE DEF offsets
  <2>2. /\ \A e \in new : /\ e.xorb = x /\ e.chunks \in MergedRanges(dl.terms, x)
                          /\ e.bytes = SpanOf(x, e.chunks)
        /\ \A r \in MergedRanges(dl.terms, x) : \E e \in new : e.chunks = r
        /\ \A e, f \in new : e.chunks = f.chunks => e = f
        /\ UrlsFit(serving, key, new, dl.exp)
    BY <1>2, <1>3, <1>4, <2>1, EntryFacts
  <2> HIDE DEF new
  <2>3. Resolved(dl.terms, dl.todo \ {x}, descs)
    BY <1>1, <1>3, <1>4, <2>2, ResolvedGrows
  <2>4. UrlsFit(serving, key, descs, dl.exp)
    BY <1>3, <2>2 DEF UrlsFit
  <2> QED
    BY <2>3, <2>4
<1> HIDE DEF descs
<1>7. CASE dl.todo # {x} /\ dl' = more
  <2>1. dl' = [pc |-> "plan", range |-> dl.range, terms |-> dl.terms,
               offset |-> dl.offset, exp |-> dl.exp, todo |-> dl.todo \ {x},
               descs |-> descs]
    <3> DEFINE left == dl.todo \ {x}
               d == [dl EXCEPT !.todo = left]
    <3>1. dl' = [d EXCEPT !.descs = descs]
      BY <1>3, <1>7
    <3> HIDE DEF left
    <3>2. d = [pc |-> "plan", range |-> dl.range, terms |-> dl.terms,
               offset |-> dl.offset, exp |-> dl.exp, todo |-> left, descs |-> dl.descs]
      BY <1>3
    <3> HIDE DEF d
    <3> QED
      BY <3>1, <3>2 DEF left
  <2>2. /\ dl'.pc = "plan" /\ dl'.range = dl.range /\ dl'.terms = dl.terms
        /\ dl'.offset = dl.offset /\ dl'.exp = dl.exp
        /\ dl'.todo = dl.todo \ {x} /\ dl'.descs = descs
    BY <2>1
  <2>3. Answers(content, dl')
    BY <1>3, <2>2 DEF Answers, NeededBy
  <2>4. dl' = [pc |-> "plan", range |-> dl'.range, terms |-> dl'.terms,
               offset |-> dl'.offset, exp |-> dl'.exp, todo |-> dl'.todo,
               descs |-> dl'.descs]
    BY <2>1, <2>2
  <2>5. dl'.todo \subseteq TermXorbs(dl'.terms)
    BY <1>3, <2>2
  <2>6. PlanInv'
    BY <1>1, <1>3, <1>6, <2>2, <2>3, <2>4, <2>5 DEF PlanInv
  <2>7. ShardInv' /\ FetchInv' /\ DownloadCorrect' /\ FailsForCause'
    BY <2>2 DEF ShardInv, FetchInv, DownloadCorrect, FailsForCause
  <2> QED
    BY <1>2, <2>6, <2>7 DEF IInv
<1>8. CASE dl.todo = {x} /\ dl' = full
  <2>1. /\ dl'.pc = "fetch" /\ dl'.range = dl.range /\ dl'.terms = dl.terms
        /\ dl'.offset = dl.offset /\ dl'.exp = dl.exp /\ dl'.descs = descs
        /\ dl'.parts = [i \in DOMAIN dl.terms |-> <<>>]
    BY <1>8
  <2>2. Answers(content, dl')
    BY <1>3, <2>1 DEF Answers, NeededBy
  <2>3. dl' = [pc |-> "fetch", range |-> dl'.range, terms |-> dl'.terms,
               offset |-> dl'.offset, exp |-> dl'.exp, descs |-> dl'.descs,
               parts |-> dl'.parts]
    BY <1>8, <2>1
  <2>4. dl.todo \ {x} = {}
    BY <1>8
  <2>5. Resolved(dl'.terms, {}, dl'.descs) /\ UrlsFit(serving', key', dl'.descs, dl'.exp)
    BY <1>1, <1>6, <2>1, <2>4
  <2>6. Fetched(dl'.terms, dl'.parts)
    BY <2>1 DEF Fetched
  <2>7. FetchInv'
    BY <1>1, <2>2, <2>3, <2>5, <2>6 DEF FetchInv
  <2>8. ShardInv' /\ PlanInv' /\ DownloadCorrect' /\ FailsForCause'
    BY <2>1 DEF ShardInv, PlanInv, DownloadCorrect, FailsForCause
  <2> QED
    BY <1>2, <2>7, <2>8 DEF IInv
<1> QED
  BY <1>1, <1>5, <1>7, <1>8

LEMMA FetchState ==
    ASSUME IInv, dl.pc = "fetch"
    PROVE  /\ dl = [pc |-> "fetch", range |-> dl.range, terms |-> dl.terms,
                    offset |-> dl.offset, exp |-> dl.exp, descs |-> dl.descs,
                    parts |-> dl.parts]
           /\ Answers(content, dl) /\ dl.terms \in TermSeqs /\ dl.exp \in Nat
           /\ Resolved(dl.terms, {}, dl.descs)
           /\ UrlsFit(serving, key, dl.descs, dl.exp)
           /\ Fetched(dl.terms, dl.parts)
<1>1. /\ dl = [pc |-> "fetch", range |-> dl.range, terms |-> dl.terms,
               offset |-> dl.offset, exp |-> dl.exp, descs |-> dl.descs,
               parts |-> dl.parts]
      /\ Answers(content, dl)
      /\ Resolved(dl.terms, {}, dl.descs)
      /\ UrlsFit(serving, key, dl.descs, dl.exp)
      /\ Fetched(dl.terms, dl.parts)
  BY Zenon DEF IInv, FetchInv
<1> QED
  BY <1>1 DEF Answers

LEMMA FetchTermStep ==
    ASSUME IInv, dl.pc = "fetch", NEW i \in DOMAIN dl.terms, FetchTerm(i)
    PROVE  IInv'
<1> DEFINE t == dl.terms[i]
           bytes == TermBytes(t)
<1>1. /\ clock' = clock /\ serving' = serving /\ key' = key /\ content' = content
  BY DEF FetchTerm, server
<1>2. /\ dl = [pc |-> "fetch", range |-> dl.range, terms |-> dl.terms,
               offset |-> dl.offset, exp |-> dl.exp, descs |-> dl.descs,
               parts |-> dl.parts]
      /\ Answers(content, dl) /\ dl.terms \in TermSeqs
      /\ Resolved(dl.terms, {}, dl.descs)
      /\ UrlsFit(serving, key, dl.descs, dl.exp)
      /\ Fetched(dl.terms, dl.parts)
  BY FetchState
<1>3. PICK d \in dl.descs :
         /\ Covers(d, t)
         /\ dl' = [dl EXCEPT !.parts[i] =
                      Decoded(t.xorb, d.bytes, t.start - d.chunks.start,
                              t.end - d.chunks.start)]
  BY DEF FetchTerm
<1>4. Decoded(t.xorb, d.bytes, t.start - d.chunks.start, t.end - d.chunks.start) = bytes
  BY <1>2, <1>3, CoveredDecodes
<1> HIDE DEF bytes
<1>5. dl' = [dl EXCEPT !.parts[i] = bytes]
  BY <1>3, <1>4
<1> DEFINE parts == [dl.parts EXCEPT ![i] = bytes]
<1>6. /\ dl'.pc = "fetch" /\ dl'.range = dl.range /\ dl'.terms = dl.terms
      /\ dl'.offset = dl.offset /\ dl'.exp = dl.exp /\ dl'.descs = dl.descs
      /\ dl'.parts = parts
      /\ dl' = [pc |-> "fetch", range |-> dl'.range, terms |-> dl'.terms,
                offset |-> dl'.offset, exp |-> dl'.exp, descs |-> dl'.descs,
                parts |-> dl'.parts]
  BY <1>2, <1>5
<1>7. Fetched(dl.terms, parts)
  <2>1. /\ dl.parts = [k \in DOMAIN dl.terms |-> dl.parts[k]]
        /\ \A k \in DOMAIN dl.terms : dl.parts[k] \in {<<>>, TermBytes(dl.terms[k])}
    BY <1>2 DEF Fetched
  <2>2. parts = [k \in DOMAIN dl.terms |-> IF k = i THEN bytes ELSE dl.parts[k]]
    BY <2>1
  <2>3. parts = [k \in DOMAIN dl.terms |-> parts[k]]
    BY <2>2
  <2>4. \A k \in DOMAIN dl.terms : parts[k] = IF k = i THEN bytes ELSE dl.parts[k]
    BY <2>2
  <2> HIDE DEF parts
  <2> QED
    BY <2>1, <2>3, <2>4 DEF Fetched, bytes
<1>8. Answers(content, dl')
  BY <1>2, <1>6 DEF Answers, NeededBy
<1> HIDE DEF parts
<1>9. FetchInv'
  BY <1>1, <1>2, <1>6, <1>7, <1>8 DEF FetchInv
<1>10. ServerInv'
  BY <1>1 DEF IInv, ServerInv
<1>11. ShardInv' /\ PlanInv' /\ DownloadCorrect' /\ FailsForCause'
  BY <1>6 DEF ShardInv, PlanInv, DownloadCorrect, FailsForCause
<1> QED
  BY <1>9, <1>10, <1>11 DEF IInv

(* A fetch fails for a cause: there is a descriptor that covers the term,    *)
(* its span is in what its URL grants, and decodes.                          *)
LEMMA FetchFailsStep ==
    ASSUME IInv, dl.pc = "fetch", NEW i \in DOMAIN dl.terms, FetchFails(i)
    PROVE  IInv'
<1> DEFINE t == dl.terms[i]
<1>1. /\ clock' = clock /\ serving' = serving /\ key' = key /\ content' = content
      /\ gone' = gone /\ dl' = Failed(dl)
      /\ ~\E d \in dl.descs : Covers(d, t) /\ Served(d, t)
  BY DEF FetchFails, server
<1>2. /\ dl'.pc = "failed" /\ dl'.at = "fetch" /\ dl'.terms = dl.terms /\ dl'.exp = dl.exp
  BY <1>1 DEF Failed
<1>3. /\ dl.terms \in TermSeqs /\ dl.exp \in Nat
      /\ Resolved(dl.terms, {}, dl.descs)
      /\ UrlsFit(serving, key, dl.descs, dl.exp)
  BY FetchState
<1>4. clock \in Nat /\ serving \in {"random", "secret", "presign"}
  BY DownloadAssumption DEF IInv, ServerInv
<1>5. PICK d \in dl.descs : Covers(d, t)
  BY <1>3, CoveringDesc
<1>6. /\ InXorb(d.xorb, d.chunks) /\ d.bytes = SpanOf(d.xorb, d.chunks)
      /\ UrlFits(serving, key, d, dl.exp) /\ d.xorb = t.xorb
      /\ t.xorb \in TermXorbs(dl.terms)
  BY <1>3, <1>5, DescFacts, TermXorbsFacts DEF UrlsFit, Covers
<1>7. Granted(d.url, t.xorb, d.bytes)
  BY <1>6, UrlGrants
<1>8. Decodes(t.xorb, d.bytes, t.start - d.chunks.start, t.end - d.chunks.start)
  BY <1>3, <1>5, CoveredDecodes
<1>9. ~(UrlLive(d.url, key, clock) /\ t.xorb \notin gone)
  BY <1>1, <1>5, <1>7, <1>8 DEF Served
<1>10. \/ TermXorbs(dl.terms) \cap gone # {}
       \/ clock > dl.exp
       \/ serving = "random" /\ key = "second"
  <2> SUFFICES ASSUME t.xorb \notin gone, ~(clock > dl.exp),
                      ~(serving = "random" /\ key = "second")
               PROVE  FALSE
    BY <1>6
  <2>1. d.url.exp \in Nat /\ dl.exp <= d.url.exp
    BY <1>6 DEF UrlFits
  <2>2. clock <= d.url.exp
    BY <1>3, <1>4, <2>1
  <2>3. d.url.key \in {key, "store"}
    BY <1>6 DEF UrlFits
  <2> QED
    BY <1>9, <2>2, <2>3 DEF UrlLive
<1>11. FailsForCause'
  BY <1>1, <1>2, <1>10 DEF FailsForCause
<1>12. ShardInv' /\ PlanInv' /\ FetchInv'
  BY <1>2, Vacuous
<1>13. DownloadCorrect'
  BY <1>2 DEF DownloadCorrect
<1>14. ServerInv'
  BY <1>1 DEF IInv, ServerInv
<1> QED
  BY <1>11, <1>12, <1>13, <1>14 DEF IInv

LEMMA JoinStep ==
    ASSUME IInv, Join
    PROVE  IInv'
<1>1. /\ dl.pc = "fetch" /\ \A i \in DOMAIN dl.terms : dl.parts[i] # <<>>
      /\ clock' = clock /\ serving' = serving /\ key' = key /\ content' = content
      /\ dl' = [pc |-> "done", range |-> dl.range,
                bytes |-> Clip(FlattenSeq(dl.parts), dl.offset, dl.range)]
  BY DEF Join, server
<1>2. Answers(content, dl) /\ Fetched(dl.terms, dl.parts)
  BY <1>1, FetchState
<1>3. dl.parts = Bodies(dl.terms)
  BY <1>1, <1>2 DEF Fetched, Bodies
<1>4. Clip(FlattenSeq(dl.parts), dl.offset, dl.range) = Wanted(content, dl.range)
  BY <1>2, <1>3 DEF Answers, FileOf
<1>5. dl'.pc = "done" /\ dl'.range = dl.range /\ dl'.bytes = Wanted(content, dl.range)
  BY <1>1, <1>4
<1>6. DownloadCorrect'
  BY <1>1, <1>5 DEF DownloadCorrect, Wanted
<1>7. ShardInv' /\ PlanInv' /\ FetchInv'
  BY <1>5, Vacuous
<1>8. FailsForCause'
  BY <1>5 DEF FailsForCause
<1>9. ServerInv'
  BY <1>1 DEF IInv, ServerInv
<1> QED
  BY <1>6, <1>7, <1>8, <1>9 DEF IInv

LEMMA RestartStep ==
    ASSUME IInv, Restart
    PROVE  IInv'
<1>1. /\ dl.pc \notin {"done", "failed", "cut"} /\ key' = KeyOf("second")
      /\ clock' = clock /\ serving' = serving /\ content' = content /\ gone' = gone
      /\ \/ dl.pc = "fetch" /\ dl' = dl
         \/ dl'.pc = "cut"
  BY DEF Restart, Underway
<1>2. ServerInv'
  BY <1>1 DEF IInv, ServerInv, KeyOf
<1>3. CASE dl.pc = "fetch" /\ dl' = dl
  <2>1. UrlsFit(serving, key, dl.descs, dl.exp)
    BY <1>3, FetchState
  <2>2. serving \in {"random", "secret", "presign"} /\ (serving = "secret" => key = "secret")
    BY DownloadAssumption DEF IInv, ServerInv
  <2>3. UrlsFit(serving, key', dl.descs, dl.exp)
    <3>1. ASSUME NEW e \in dl.descs PROVE UrlFits(serving, key', e, dl.exp)
      <4>1. UrlFits(serving, key, e, dl.exp)
        BY <2>1 DEF UrlsFit
      <4>2. serving = "random" => key' = "second"
        BY <1>1 DEF KeyOf
      <4>3. serving = "secret" => key' = key
        BY <1>1, <2>2 DEF KeyOf
      <4> QED
        BY <2>2, <4>1, <4>2, <4>3 DEF UrlFits
    <3> QED
      BY <3>1 DEF UrlsFit
  <2>4. FetchInv'
    <3>1. FetchInv
      BY DEF IInv
    <3> QED
      BY <1>1, <1>3, <2>3, <3>1 DEF FetchInv
  <2>5. ShardInv' /\ PlanInv' /\ DownloadCorrect' /\ FailsForCause'
    BY <1>3 DEF ShardInv, PlanInv, DownloadCorrect, FailsForCause
  <2> QED
    BY <1>2, <2>4, <2>5 DEF IInv
<1>4. CASE dl'.pc = "cut"
  <2>1. ShardInv' /\ PlanInv' /\ FetchInv'
    BY <1>4, Vacuous
  <2>2. DownloadCorrect' /\ FailsForCause'
    BY <1>4 DEF DownloadCorrect, FailsForCause
  <2> QED
    BY <1>2, <2>1, <2>2 DEF IInv
<1> QED
  BY <1>1, <1>3, <1>4

(* What other tasks delete, and time, while the download is under way. *)
LEMMA OthersStep ==
    ASSUME IInv, dl' = dl, Underway, content' = content, serving' = serving, key' = key,
           clock' \in Nat, clock <= clock'
    PROVE  IInv'
<1>1. dl.pc \notin {"done", "failed", "cut"}
  BY DEF Underway
<1>2. ServerInv'
  BY DEF IInv, ServerInv
<1>3. ShardInv' /\ FetchInv'
  BY DEF IInv, ShardInv, FetchInv
<1>4. PlanInv'
  <2> SUFFICES ASSUME dl.pc = "plan" PROVE PlanInv'
    BY DEF PlanInv
  <2>1. dl.exp \in Nat /\ dl.exp <= clock + UrlTtl
    BY DEF IInv, PlanInv, Answers
  <2>2. clock \in Nat /\ UrlTtl \in Nat
    BY DownloadAssumption DEF IInv, ServerInv
  <2>3. dl.exp <= clock' + UrlTtl
    BY <2>1, <2>2
  <2> QED
    BY <2>3 DEF IInv, PlanInv
<1>5. DownloadCorrect' /\ FailsForCause'
  BY <1>1 DEF DownloadCorrect, FailsForCause
<1> QED
  BY <1>2, <1>3, <1>4, <1>5 DEF IInv

LEMMA IInvStep == IInv /\ [Next]_vars => IInv'
<1> SUFFICES ASSUME IInv, [Next]_vars PROVE IInv'
  OBVIOUS
<1>0. clock \in Nat
  BY DEF IInv, ServerInv
<1>1. ASSUME NEW r \in Ranges(content), NotFound(r) PROVE IInv'
  BY <1>1, NotFoundStep
<1>2. ASSUME NEW r \in Ranges(content), NEW terms \in Described[content], Request(r, terms)
      PROVE  IInv'
  BY <1>2, RequestStep
<1>3. CASE ReadShard
  BY <1>3, ReadShardStep
<1>4. ASSUME NEW x \in Xorbs, ResolveXorb(x) PROVE IInv'
  BY <1>4, ResolveXorbStep
<1>5. ASSUME dl.pc = "fetch", NEW i \in DOMAIN dl.terms, FetchTerm(i) \/ FetchFails(i)
      PROVE  IInv'
  BY <1>5, FetchTermStep, FetchFailsStep
<1>6. CASE Join
  BY <1>6, JoinStep
<1>7. ASSUME NEW o \in Xorbs \cup {"row", "shard"}, Lose(o) PROVE IInv'
  <2>1. /\ Underway /\ dl' = dl /\ content' = content /\ serving' = serving
        /\ key' = key /\ clock' = clock
    BY <1>7 DEF Lose, server
  <2>2. clock' \in Nat /\ clock <= clock'
    BY <1>0, <2>1
  <2> QED
    BY <2>1, <2>2, OthersStep
<1>8. ASSUME NEW x \in sized, PurgeLayout(x) PROVE IInv'
  <2>1. /\ Underway /\ dl' = dl /\ content' = content /\ serving' = serving
        /\ key' = key /\ clock' = clock
    BY <1>8 DEF PurgeLayout, server
  <2>2. clock' \in Nat /\ clock <= clock'
    BY <1>0, <2>1
  <2> QED
    BY <2>1, <2>2, OthersStep
<1>9. CASE Restart
  BY <1>9, RestartStep
<1>10. CASE Tick
  <2>1. /\ Underway /\ dl' = dl /\ content' = content /\ serving' = serving
        /\ key' = key /\ clock' = clock + 1
    BY <1>10 DEF Tick
  <2>2. clock' \in Nat /\ clock <= clock'
    BY <1>0, <2>1
  <2> QED
    BY <2>1, <2>2, OthersStep
<1>11. CASE UNCHANGED vars
  BY <1>11 DEF vars, IInv, ServerInv, ShardInv, PlanInv, FetchInv, DownloadCorrect, Wanted,
               FailsForCause
<1> QED
  BY <1>1, <1>2, <1>3, <1>4, <1>5, <1>6, <1>7, <1>8, <1>9, <1>10, <1>11 DEF Next

-----------------------------------------------------------------------------
(* What the URLs of a plan grant.                                           *)

Unlocked(descs) ==
    UNION {{d.xorb} \X (d.url.span.first .. d.url.span.last) : d \in descs}

OfTerms(terms) ==
    UNION {{t.xorb} \X (Boundary[t.xorb][t.start] .. Boundary[t.xorb][t.end] - 1)
              : t \in ToSet(terms)}

(* The spans of the descriptors are the frames of the terms, no more. *)
LEMMA UnlockedIsOfTerms ==
    ASSUME NEW terms \in TermSeqs, NEW descs, Resolved(terms, {}, descs),
           \A d \in descs : d.url.span = d.bytes
    PROVE  Unlocked(descs) = OfTerms(terms)
<1>0. terms \in Seq(TermSet)
  BY FileFacts
<1>1. ASSUME NEW d \in descs, NEW p \in d.url.span.first .. d.url.span.last
      PROVE  <<d.xorb, p>> \in OfTerms(terms)
  <2> DEFINE x == d.xorb
             r == d.chunks
             B == Boundary[x]
             n == Len(Frames[x])
             s == FrameSizes(x)
  <2>1. InXorb(x, r) /\ d.bytes = SpanOf(x, r) /\ r \in MergedRanges(terms, x)
    BY DescFacts
  <2>2. x \in Xorbs /\ r.start \in Nat /\ r.end \in Nat /\ r.start < r.end /\ r.end <= n
    BY <2>1 DEF InXorb
  <2>3. n \in Nat /\ s \in Seq(Nat) /\ Len(s) = n /\ IsTotals(B, s)
    BY <2>2, XorbFacts
  <2>4. /\ \A i \in 0..n : B[i] \in Nat
        /\ \A i, j \in 0..n : (i < j => B[i] < B[j]) /\ (i <= j => B[i] <= B[j])
    BY <2>2, BoundaryFacts
  <2>5. r.start \in 0..n /\ r.end \in 0..n
    BY <2>2, <2>3
  <2>6. B[r.start] \in Nat /\ B[r.end] \in Nat
    BY <2>4, <2>5
  <2>7. p \in Nat /\ B[r.start] <= p /\ p < B[r.end]
    <3>1. d.url.span = SpanOf(x, r)
      BY <2>1
    <3>2. p \in B[r.start] .. B[r.end] - 1
      BY <3>1 DEF SpanOf
    <3> HIDE DEF B
    <3> QED
      BY <2>6, <3>2
  <2> HIDE DEF s, B, n
  <2>8. PICK k \in (r.start + 1)..r.end : B[k - 1] <= p /\ p < B[k]
    BY <2>3, <2>5, <2>7, PartOf
  <2>9. k - 1 \in Nat /\ r.start <= k - 1 /\ k - 1 < r.end
    BY <2>2
  <2>10. PICK q \in RangesOf(terms, x) : q.start <= k - 1 /\ k - 1 < q.end
    BY <1>0, <2>1, <2>2, <2>9, MergedRangesFacts DEF Merges
  <2>11. PICK i \in DOMAIN terms : /\ terms[i].xorb = x
                                   /\ q.start = terms[i].start /\ q.end = terms[i].end
    BY <1>0, <2>2, RangesOfFacts
  <2> DEFINE t == terms[i]
  <2>12. t.start \in Nat /\ t.end \in Nat /\ t.end <= n /\ t.start < t.end
    BY <2>11, TermXorbsFacts DEF IsTerm, n
  <2>13. /\ t.start \in 0..n /\ t.end \in 0..n /\ k \in 0..n /\ k - 1 \in 0..n
         /\ t.start <= k - 1 /\ k <= t.end
    BY <2>2, <2>3, <2>9, <2>10, <2>11, <2>12, SMTT(30)
  <2>14. B[t.start] <= B[k - 1] /\ B[k] <= B[t.end]
    BY <2>4, <2>13
  <2>15. /\ B[t.start] \in Nat /\ B[t.end] \in Nat /\ B[k] \in Nat /\ B[k - 1] \in Nat
    BY <2>4, <2>13
  <2>16. p \in B[t.start] .. B[t.end] - 1
    <3> DEFINE u == B[t.start]
               v == B[t.end]
    <3>1. u \in Nat /\ v \in Nat /\ u <= p /\ p < v
      BY <2>7, <2>8, <2>14, <2>15
    <3> HIDE DEF u, v
    <3>2. p \in u .. v - 1
      BY <2>7, <3>1
    <3> QED
      BY <3>2 DEF u, v
  <2>17. t \in ToSet(terms) /\ t.xorb = x
    BY <2>11 DEF ToSet
  <2> QED
    BY <2>16, <2>17 DEF OfTerms, B
<1>2. ASSUME NEW t \in ToSet(terms),
             NEW p \in Boundary[t.xorb][t.start] .. Boundary[t.xorb][t.end] - 1
      PROVE  <<t.xorb, p>> \in Unlocked(descs)
  <2>1. PICK i \in DOMAIN terms : t = terms[i]
    BY DEF ToSet
  <2>2. PICK e \in descs : Covers(e, t)
    BY <2>1, CoveringDesc
  <2> DEFINE x == t.xorb
             r == e.chunks
             B == Boundary[x]
             n == Len(Frames[x])
  <2>3. /\ e.xorb = x /\ r.start <= t.start /\ r.end >= t.end
        /\ InXorb(x, r) /\ e.bytes = SpanOf(x, r) /\ IsTerm(t)
    BY <2>1, <2>2, DescFacts, TermXorbsFacts DEF Covers
  <2>4. /\ x \in Xorbs /\ r.start \in Nat /\ r.end \in Nat /\ r.end <= n
        /\ t.start \in Nat /\ t.end \in Nat /\ t.end <= n
        /\ r.start < r.end /\ t.start < t.end
    BY <2>3 DEF InXorb, IsTerm
  <2>5. n \in Nat
    BY <2>4, XorbFacts
  <2> HIDE DEF n
  <2>6. r.start \in 0..n /\ r.end \in 0..n /\ t.start \in 0..n /\ t.end \in 0..n /\ t.end <= r.end
    BY <2>3, <2>4, <2>5
  <2>7. /\ B[r.start] <= B[t.start] /\ B[t.end] <= B[r.end]
        /\ B[r.start] \in Nat /\ B[r.end] \in Nat /\ B[t.start] \in Nat /\ B[t.end] \in Nat
    BY <2>3, <2>4, <2>6, BoundaryFacts DEF n
  <2>8. p \in B[r.start] .. B[r.end] - 1
    <3> DEFINE a == B[r.start]
               b == B[r.end]
               c == B[t.start]
               d == B[t.end]
    <3>1. a \in Nat /\ b \in Nat /\ c \in Nat /\ d \in Nat /\ a <= c /\ d <= b /\ p \in c .. d - 1
      BY <2>7
    <3> HIDE DEF a, b, c, d
    <3>2. p \in a .. b - 1
      BY <3>1
    <3> QED
      BY <3>2 DEF a, b
  <2>9. e.url.span.first = B[r.start] /\ e.url.span.last = B[r.end] - 1
    BY <2>3 DEF SpanOf
  <2>10. p \in e.url.span.first .. e.url.span.last
    BY <2>8, <2>9
  <2> QED
    BY <2>3, <2>10 DEF Unlocked
<1>3. Unlocked(descs) \subseteq OfTerms(terms)
  <2> SUFFICES ASSUME NEW u \in Unlocked(descs) PROVE u \in OfTerms(terms)
    OBVIOUS
  <2>1. PICK d \in descs : u \in {d.xorb} \X (d.url.span.first .. d.url.span.last)
    BY DEF Unlocked
  <2>2. PICK p \in d.url.span.first .. d.url.span.last : u = <<d.xorb, p>>
    BY <2>1
  <2> QED
    BY <1>1, <2>2
<1>4. OfTerms(terms) \subseteq Unlocked(descs)
  <2> SUFFICES ASSUME NEW u \in OfTerms(terms) PROVE u \in Unlocked(descs)
    OBVIOUS
  <2>1. PICK t \in ToSet(terms) :
           u \in {t.xorb} \X (Boundary[t.xorb][t.start] .. Boundary[t.xorb][t.end] - 1)
    BY DEF OfTerms
  <2>2. PICK p \in Boundary[t.xorb][t.start] .. Boundary[t.xorb][t.end] - 1 : u = <<t.xorb, p>>
    BY <2>1
  <2> QED
    BY <1>2, <2>2
<1> QED
  BY <1>3, <1>4

(* Two descriptors of a xorb are apart in bytes as in chunks: there is a    *)
(* chunk between them, and it is not empty.                                 *)
LEMMA SpansApart ==
    ASSUME NEW terms \in TermSeqs, NEW descs, Resolved(terms, {}, descs),
           NEW d \in descs, NEW e \in descs, d # e, d.xorb = e.xorb
    PROVE  d.bytes.last + 1 < e.bytes.first \/ e.bytes.last + 1 < d.bytes.first
<1> DEFINE x == d.xorb
           r == d.chunks
           q == e.chunks
           B == Boundary[x]
           n == Len(Frames[x])
<1>1. /\ InXorb(x, r) /\ d.bytes = SpanOf(x, r) /\ r \in MergedRanges(terms, x)
      /\ InXorb(x, q) /\ e.bytes = SpanOf(x, q) /\ q \in MergedRanges(terms, x)
  BY DescFacts
<1>2. r # q
  BY DEF Resolved
<1>3. /\ x \in Xorbs /\ r.start \in Nat /\ r.end \in Nat /\ r.start < r.end /\ r.end <= n
      /\ q.start \in Nat /\ q.end \in Nat /\ q.start < q.end /\ q.end <= n
  BY <1>1 DEF InXorb
<1>4. r.end < q.start \/ q.end < r.start
  <2>1. terms \in Seq(TermSet)
    BY FileFacts
  <2> QED
    BY <1>1, <1>2, <1>3, <2>1, MergedRangesFacts DEF Merges
<1>5. n \in Nat
  BY <1>3, XorbFacts
<1> HIDE DEF n
<1>6. r.start \in 0..n /\ r.end \in 0..n /\ q.start \in 0..n /\ q.end \in 0..n
  BY <1>3, <1>5
<1>7. /\ r.end < q.start => B[r.end] < B[q.start]
      /\ q.end < r.start => B[q.end] < B[r.start]
      /\ B[r.end] \in Nat /\ B[q.end] \in Nat
  BY <1>3, <1>6, BoundaryFacts DEF n
<1>8. /\ d.bytes.first = B[r.start] /\ d.bytes.last = B[r.end] - 1
      /\ e.bytes.first = B[q.start] /\ e.bytes.last = B[q.end] - 1
  BY <1>1 DEF SpanOf
<1>9. (B[r.end] - 1) + 1 = B[r.end] /\ (B[q.end] - 1) + 1 = B[q.end]
  <2> HIDE DEF B
  <2> QED
    BY <1>7
<1> QED
  BY <1>4, <1>7, <1>8, <1>9

LEMMA IInvGrants == IInv => GrantsOnlyNeeded
<1> SUFFICES ASSUME IInv, dl.pc = "fetch" PROVE GrantsOnlyNeeded
  BY DEF GrantsOnlyNeeded
<1>1. /\ Answers(content, dl) /\ dl.terms \in TermSeqs
      /\ Resolved(dl.terms, {}, dl.descs)
      /\ UrlsFit(serving, key, dl.descs, dl.exp)
  BY FetchState
<1>2. serving # "presign" => Unlocked(dl.descs) = OfTerms(dl.terms)
  <2> SUFFICES ASSUME serving # "presign" PROVE Unlocked(dl.descs) = OfTerms(dl.terms)
    OBVIOUS
  <2>1. \A d \in dl.descs : d.url.span = d.bytes
    BY <1>1 DEF UrlsFit, UrlFits
  <2> QED
    BY <1>1, <2>1, UnlockedIsOfTerms
<1>3. \A i \in DOMAIN dl.terms : Needed(dl, i)
  BY <1>1 DEF Answers, NeededBy, Needed
<1>4. \A d, e \in dl.descs :
         (d # e /\ d.xorb = e.xorb)
            => d.bytes.last + 1 < e.bytes.first \/ e.bytes.last + 1 < d.bytes.first
  BY <1>1, SpansApart
<1> QED
  BY <1>2, <1>3, <1>4 DEF GrantsOnlyNeeded, Unlocked, OfTerms

-----------------------------------------------------------------------------
(* The theorems.                                                            *)

(* The inductive invariant: at every point of a download, what the server   *)
(* and the client have computed so far is what the terms of the file ask for*)
(* (reconstruction_terms, build_xorb_fetch_entries, the clients' fetches).  *)
THEOREM DownloadInvariant == Spec => []IInv
<1>1. Init => IInv
  BY IInvInit
<1>2. IInv /\ [Next]_vars => IInv'
  BY IInvStep
<1> QED
  BY <1>1, <1>2, PTL DEF Spec

(* A download that ends well has exactly the bytes of the range, whichever  *)
(* shard describes the file and however its chunks are packed, and whatever *)
(* is deleted, restarted or runs out meanwhile (get_reconstruction,         *)
(* reconstructContent, download).                                           *)
THEOREM DownloadIsCorrect == Spec => []DownloadCorrect
<1>1. IInv => DownloadCorrect
  BY DEF IInv
<1> QED
  BY <1>1, DownloadInvariant, PTL

(* A plan that has been begun fails only if a xorb of its terms is deleted, *)
(* its URLs have expired, or a server that drew its key was restarted: each *)
(* term has a descriptor that covers it, decodes, and has a URL that grants *)
(* it.                                                                      *)
THEOREM DownloadFailsForCause == Spec => []FailsForCause
<1>1. IInv => FailsForCause
  BY DEF IInv
<1> QED
  BY <1>1, DownloadInvariant, PTL

(* The URLs a server signs unlock the frames of the terms and no others,    *)
(* each term holds a byte of the answer, and no two descriptors of a xorb   *)
(* overlap or adjoin (fetch_url.rs, build_xorb_fetch_entries).              *)
THEOREM UrlsGrantOnlyNeeded == Spec => []GrantsOnlyNeeded
<1>1. IInv => GrantsOnlyNeeded
  BY IInvGrants
<1> QED
  BY <1>1, DownloadInvariant, PTL

=============================================================================
