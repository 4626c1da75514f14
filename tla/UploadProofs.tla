---------------------------- MODULE UploadProofs ----------------------------
(***************************************************************************)
(* What an upload of UploadSession keeps to, for any file, any xorbs on    *)
(* the server, any answers to the probes and any limits.                   *)
(***************************************************************************)
EXTENDS UploadSession, FoldFacts

-----------------------------------------------------------------------------
(* Sequences.                                                               *)

(* The chunk is where the client's map puts it. *)
LEMMA LastIndexHolds ==
    ASSUME NEW S, NEW x \in Seq(S), NEW c \in ToSet(x)
    PROVE  /\ LastIndex(x, c) \in Nat
           /\ LastIndex(x, c) + 1 \in DOMAIN x
           /\ x[LastIndex(x, c) + 1] = c
<1> DEFINE At == {i \in DOMAIN x : x[i] = c}
<1>1. At \in SUBSET Nat /\ At # {} /\ IsFiniteSet(At) /\ At \subseteq 1..Len(x)
  BY ElementsOfSeq, FS_Subset DEF ToSet
<1>2. Max(At) \in At
  BY <1>1, MaxIsGreatest
<1>3. LastIndex(x, c) = Max(At) - 1 /\ Max(At) \in 1..Len(x)
  BY <1>1, <1>2 DEF LastIndex
<1>4. LastIndex(x, c) + 1 = Max(At) /\ LastIndex(x, c) \in Nat
  BY <1>3, ElementsOfSeq
<1> QED
  BY <1>2, <1>4

LEMMA HomeHolds ==
    ASSUME NEW answer \in SUBSET Known, NEW blocks \in SetToSeqs(answer),
           NEW c \in Covering(ToSet(blocks))
    PROVE  Home(blocks, c) \in Known /\ c \in ToSet(Home(blocks, c))
<1> DEFINE At == {k \in DOMAIN blocks : c \in ToSet(blocks[k])}
<1>1. IsFiniteSet(answer) /\ Cardinality(answer) \in Nat
  BY SessionAssumption, FS_Subset, FS_CardinalityType
<1>2. blocks \in [1..Cardinality(answer) -> answer]
  BY DEF SetToSeqs
<1>3. IsFiniteSet(DOMAIN blocks) /\ DOMAIN blocks \in SUBSET Nat
  BY <1>1, <1>2, FS_Interval
<1>4. At # {}
  BY DEF Covering, ToSet
<1>5. Max(At) \in At
  BY <1>3, <1>4, FS_Subset, MaxIsGreatest
<1> QED
  BY <1>2, <1>5 DEF Home

-----------------------------------------------------------------------------
(* The bytes of a xorb.                                                     *)

LEMMA BytesIsSum ==
    ASSUME NEW x PROVE Bytes(x) = SumOver(RawSizes(x), DOMAIN RawSizes(x))
BY DEF Bytes, FoldFunction, FoldFunctionOnSet, MapThenFoldSet, SumOver, SumIterator

LEMMA BytesAppend ==
    ASSUME NEW x \in Seq(Chunks), NEW c \in Chunks
    PROVE  Bytes(x) \in Nat /\ Bytes(Append(x, c)) = Bytes(x) + RawSize[c]
<1> DEFINE n == Len(x)
           D == 1..n
           E == 1..n + 1
           y == Append(x, c)
<1>1. /\ n \in Nat /\ y \in Seq(Chunks)
      /\ DOMAIN RawSizes(x) = D /\ DOMAIN RawSizes(y) = E
      /\ \A k \in D : RawSizes(x)[k] = RawSize[x[k]] /\ RawSizes(x)[k] \in Nat
                      /\ RawSizes(y)[k] = RawSizes(x)[k]
      /\ RawSizes(y)[n + 1] = RawSize[c] /\ RawSize[c] \in Nat
  BY SessionAssumption DEF RawSizes
<1>2. /\ IsFiniteSet(D) /\ IsFiniteSet(E)
      /\ n + 1 \in E /\ E \ {n + 1} = D /\ E = D \cup {n + 1}
  <2>1. 1 \in Int /\ n \in Int /\ n + 1 \in Int
    BY <1>1
  <2>2. IsFiniteSet(D) /\ IsFiniteSet(E)
    BY <2>1, FS_Interval
  <2> QED
    BY <1>1, <2>2
<1> DEFINE sx == RawSizes(x)
           sy == RawSizes(y)
<1>3. Summable(sx, D) /\ Summable(sy, E)
  BY <1>1, <1>2 DEF Summable
<1>4. Bytes(x) = SumOver(sx, D) /\ Bytes(y) = SumOver(sy, E)
  BY <1>1, BytesIsSum
<1>5. \A k \in D : sy[k] = sx[k]
  BY <1>1
<1>6. sy[n + 1] = RawSize[c]
  BY <1>1
<1> HIDE DEF sx, sy, D, E, y
<1>7. SumOver(sx, D) \in Nat
  BY <1>3, SumSteps
<1>8. SumOver(sy, D) = SumOver(sx, D)
  BY <1>3, <1>5, SumEqual
<1>9. SumOver(sy, E) = sy[n + 1] + SumOver(sy, D)
  BY <1>2, <1>3, SumRemoves
<1> QED
  BY <1>1, <1>4, <1>6, <1>7, <1>8, <1>9 DEF y

-----------------------------------------------------------------------------
(* The dedup pass.                                                          *)

N == Len(chunks)

Positions == 1..N

Places == [xorb : Seq(Chunks), index : Nat]

(* Chunk c is where p says. *)
Lives(p, c) == p.index + 1 \in DOMAIN p.xorb /\ p.xorb[p.index + 1] = c

TypeOK ==
    /\ chunks \in Contents
    /\ placement \in [DOMAIN chunks -> Places]
    /\ xorbs \in Seq(Seq(Chunks))
    /\ next \in Nat \ {0}

(* Only answers place a chunk, and where they place it, it is. *)
PlacedInv ==
    \A i \in DOMAIN chunks :
        Placed(i) => placement[i].xorb \in Known /\ Lives(placement[i], chunks[i])

(* An answer places whatever chunks of the file it covers, at once. *)
CoveredInv == \A i \in DOMAIN chunks : chunks[i] \in covered => Placed(i)

ProbeInv == TypeOK /\ PlacedInv /\ CoveredInv

LEMMA FileFacts ==
    ASSUME TypeOK
    PROVE  /\ chunks \in Seq(Chunks) /\ N \in Nat \ {0} /\ DOMAIN chunks = 1..N
           /\ \A i \in Positions : /\ chunks[i] \in Chunks
                                  /\ placement[i] \in Places
                                  /\ RawSize[chunks[i]] \in Nat
<1>1. chunks \in Seq(Chunks) /\ chunks # <<>>
  BY SessionAssumption DEF TypeOK
<1>2. N \in Nat \ {0} /\ DOMAIN chunks = 1..N
  BY <1>1 DEF N
<1>3. \A i \in 1..N : chunks[i] \in Chunks
  BY <1>1 DEF N
<1> QED
  BY <1>1, <1>2, <1>3, SessionAssumption DEF TypeOK, Positions

-----------------------------------------------------------------------------
(* Packing.                                                                 *)

LEMMA SealedFacts ==
    ASSUME TypeOK, NEW g \in Seq(Positions)
    PROVE  /\ Sealed(g) \in Seq(Chunks) /\ Len(Sealed(g)) = Len(g)
           /\ \A k \in DOMAIN g : Sealed(g)[k] = chunks[g[k]]
           /\ \A i \in Positions : Sealed(Append(g, i)) = Append(Sealed(g), chunks[i])
<1>1. \A i \in Positions : chunks[i] \in Chunks
  BY FileFacts
<1>2. ASSUME NEW h \in Seq(Positions)
      PROVE  /\ Sealed(h) \in Seq(Chunks) /\ Len(Sealed(h)) = Len(h)
             /\ \A k \in 1..Len(h) : Sealed(h)[k] = chunks[h[k]]
  <2>1. /\ Len(h) \in Nat /\ DOMAIN h = 1..Len(h)
        /\ \A k \in 1..Len(h) : h[k] \in Positions
    BY ElementsOfSeq
  <2>2. Sealed(h) = [k \in 1..Len(h) |-> chunks[h[k]]]
    BY <2>1 DEF Sealed
  <2>3. Sealed(h) \in [1..Len(h) -> Chunks]
    BY <1>1, <2>1, <2>2
  <2>4. Sealed(h) \in Seq(Chunks) /\ Len(Sealed(h)) = Len(h)
    BY <2>1, <2>3, IsASeq, LenProperties
  <2> QED
    BY <2>2, <2>4
<1>3. ASSUME NEW i \in Positions PROVE Sealed(Append(g, i)) = Append(Sealed(g), chunks[i])
  <2> DEFINE h == Append(g, i)
             x == Sealed(h)
             y == Append(Sealed(g), chunks[i])
  <2>1. /\ h \in Seq(Positions) /\ Len(h) = Len(g) + 1 /\ h[Len(g) + 1] = i
        /\ \A k \in 1..Len(g) : h[k] = g[k]
    BY AppendFacts
  <2>2. /\ y \in Seq(Chunks) /\ Len(y) = Len(g) + 1 /\ y[Len(g) + 1] = chunks[i]
        /\ \A k \in 1..Len(g) : y[k] = chunks[g[k]]
    BY <1>1, <1>2, AppendFacts
  <2> HIDE DEF h
  <2>3. /\ x \in Seq(Chunks) /\ Len(x) = Len(g) + 1
        /\ \A k \in 1..Len(g) + 1 : x[k] = chunks[h[k]]
    BY <1>2, <2>1
  <2> HIDE DEF x, y
  <2>4. ASSUME NEW k \in 1..Len(x) PROVE x[k] = y[k]
    <3>1. k \in 1..Len(g) \/ k = Len(g) + 1
      BY <2>3
    <3> QED
      BY <2>1, <2>2, <2>3, <3>1
  <2>5. x = y
    BY <2>2, <2>3, <2>4, SeqEqual
  <2> QED
    BY <2>5 DEF x, y, h
<1> QED
  BY <1>2, <1>3, ElementsOfSeq

(* A group that may become a xorb. *)
GoodGroup(g) ==
    /\ Len(g) \in 1..MaxXorbChunks
    /\ Len(g) = 1 \/ Bytes(Sealed(g)) <= MaxXorbBytes
    /\ \A j \in ToSet(g) : ToPack(j)

(* The groups once the loop has been through chunks 1 to i. *)
PackInv(groups, i) ==
    /\ groups \in Seq(Seq(Positions))
    /\ \A k \in DOMAIN groups : GoodGroup(groups[k])
    /\ \A j \in 1..i : ToPack(j) => \E k \in DOMAIN groups : j \in ToSet(groups[k])

LEMMA GroupGrows ==
    ASSUME TypeOK, NEW g \in Seq(Positions), GoodGroup(g), NEW i \in Positions,
           ToPack(i), Fits(g, i)
    PROVE  GoodGroup(Append(g, i)) /\ Append(g, i) \in Seq(Positions)
<1>1. Sealed(g) \in Seq(Chunks) /\ chunks[i] \in Chunks
  BY SealedFacts, FileFacts
<1>2. /\ Bytes(Sealed(Append(g, i))) = Bytes(Sealed(g)) + RawSize[chunks[i]]
      /\ Sealed(Append(g, i)) = Append(Sealed(g), chunks[i])
  BY <1>1, SealedFacts, BytesAppend
<1>3. Bytes(Sealed(Append(g, i))) <= MaxXorbBytes
  BY <1>2 DEF Fits
<1>4. /\ Append(g, i) \in Seq(Positions) /\ Len(Append(g, i)) = Len(g) + 1
      /\ \A a : a \in ToSet(Append(g, i)) <=> a \in ToSet(g) \/ a = i
  <2>1. Append(g, i) \in Seq(Positions) /\ Len(Append(g, i)) = Len(g) + 1
    BY AppendFacts
  <2>2. \A a : a \in ToSet(Append(g, i)) <=> a \in ToSet(g) \/ a = i
    BY AppendToSet
  <2> QED
    BY <2>1, <2>2
<1>5. Len(g) + 1 \in 1..MaxXorbChunks
  <2>1. Len(g) \in Nat /\ MaxXorbChunks \in Nat
    BY SessionAssumption
  <2> QED
    BY <2>1 DEF Fits
<1> QED
  BY <1>3, <1>4, <1>5 DEF GoodGroup

LEMMA GroupStarts ==
    ASSUME TypeOK, NEW i \in Positions, ToPack(i)
    PROVE  GoodGroup(<<i>>) /\ <<i>> \in Seq(Positions) /\ i \in ToSet(<<i>>)
<1>1. <<i>> \in Seq(Positions) /\ Len(<<i>>) = 1 /\ ToSet(<<i>>) = {i}
  BY DEF ToSet
<1>2. 1 \in 1..MaxXorbChunks
  BY SessionAssumption
<1> QED
  BY <1>1, <1>2 DEF GoodGroup

PackOne(groups, i) == IF ToPack(i) THEN Pack(groups, i) ELSE groups

LEMMA PackTyped ==
    ASSUME TypeOK, NEW groups \in Seq(Seq(Positions)), NEW i \in Positions
    PROVE  PackOne(groups, i) \in Seq(Seq(Positions))
<1>1. <<i>> \in Seq(Positions)
  OBVIOUS
<1>2. groups # <<>> => /\ Append(groups[Len(groups)], i) \in Seq(Positions)
                       /\ Len(groups) \in 1..Len(groups)
  BY AppendFacts
<1> QED
  BY <1>1, <1>2, ExceptSeq, AppendFacts DEF PackOne, Pack

LEMMA PackStep ==
    ASSUME TypeOK, NEW i \in Positions, NEW groups, PackInv(groups, i - 1)
    PROVE  PackInv(PackOne(groups, i), i)
<1> DEFINE n == Len(groups)
<1>0. groups \in Seq(Seq(Positions)) /\ n \in Nat /\ DOMAIN groups = 1..n
  BY DEF PackInv
<1>1. \A j \in 1..i : j \in 1..i - 1 \/ j = i
  BY FileFacts DEF Positions
<1>2. CASE ~ToPack(i)
  BY <1>1, <1>2 DEF PackInv, PackOne
<1>3. CASE ToPack(i) /\ groups # <<>> /\ Fits(Last(groups), i)
  <2> DEFINE g == Append(groups[n], i)
             new == [groups EXCEPT ![n] = g]
  <2>1. PackOne(groups, i) = new /\ n \in 1..n
    BY <1>0, <1>3 DEF PackOne, Pack, Last
  <2>2. groups[n] \in Seq(Positions) /\ GoodGroup(groups[n]) /\ Fits(groups[n], i)
    <3>1. Last(groups) = groups[n]
      BY DEF Last
    <3>2. GoodGroup(groups[n])
      BY <1>0, <2>1 DEF PackInv
    <3>3. groups[n] \in Seq(Positions)
      BY <1>0, <2>1
    <3> QED
      BY <1>3, <3>1, <3>2, <3>3
  <2>3. GoodGroup(g) /\ g \in Seq(Positions)
    BY <1>3, <2>2, GroupGrows
  <2>4. \A a : a \in ToSet(g) <=> a \in ToSet(groups[n]) \/ a = i
    BY <2>2, AppendToSet
  <2> HIDE DEF g
  <2>5. /\ new \in Seq(Seq(Positions)) /\ DOMAIN new = 1..n
        /\ new[n] = g /\ \A k \in 1..n : k # n => new[k] = groups[k]
    BY <1>0, <2>1, <2>3
  <2> HIDE DEF new
  <2>6. \A k \in 1..n : GoodGroup(new[k])
    BY <1>0, <2>3, <2>5 DEF PackInv
  <2>7. ASSUME NEW j \in 1..i, ToPack(j) PROVE \E k \in 1..n : j \in ToSet(new[k])
    <3>1. CASE j = i
      BY <2>1, <2>4, <2>5, <3>1
    <3>2. CASE j \in 1..i - 1
      <4>1. PICK k \in 1..n : j \in ToSet(groups[k])
        BY <1>0, <2>7, <3>2 DEF PackInv
      <4> QED
        BY <2>1, <2>4, <2>5, <4>1
    <3> QED
      BY <1>1, <3>1, <3>2
  <2> QED
    BY <2>1, <2>5, <2>6, <2>7 DEF PackInv
<1>4. CASE ToPack(i) /\ ~(groups # <<>> /\ Fits(Last(groups), i))
  <2> DEFINE new == Append(groups, <<i>>)
  <2>1. PackOne(groups, i) = new
    BY <1>4 DEF PackOne, Pack
  <2>2. GoodGroup(<<i>>) /\ <<i>> \in Seq(Positions) /\ i \in ToSet(<<i>>)
    BY <1>4, GroupStarts
  <2>3. /\ new \in Seq(Seq(Positions)) /\ Len(new) = n + 1 /\ new[n + 1] = <<i>>
        /\ \A k \in 1..n : new[k] = groups[k]
    BY <1>0, <2>2, AppendFacts
  <2> HIDE DEF new
  <2>4. DOMAIN new = 1..n \cup {n + 1}
    BY <1>0, <2>3
  <2>5. \A k \in DOMAIN new : GoodGroup(new[k])
    BY <1>0, <2>2, <2>3, <2>4 DEF PackInv
  <2>6. ASSUME NEW j \in 1..i, ToPack(j) PROVE \E k \in DOMAIN new : j \in ToSet(new[k])
    <3>1. CASE j = i
      BY <2>2, <2>3, <2>4, <3>1
    <3>2. CASE j \in 1..i - 1
      <4>1. PICK k \in 1..n : j \in ToSet(groups[k])
        BY <1>0, <2>6, <3>2 DEF PackInv
      <4> QED
        BY <2>3, <2>4, <4>1
    <3> QED
      BY <1>1, <3>1, <3>2
  <2> QED
    BY <2>1, <2>3, <2>5, <2>6 DEF PackInv
<1> QED
  BY <1>2, <1>3, <1>4

LEMMA PackedRecurs ==
    ASSUME TypeOK
    PROVE  /\ Packed[0] = <<>>
           /\ \A i \in Positions : Packed[i] = PackOne(Packed[i - 1], i)
<1> DEFINE V == Seq(Seq(Positions))
           step == [i \in 1..N |-> [v \in V |-> PackOne(v, i)]]
           Is(f) == f = [i \in 0..N |-> IF i = 0 THEN <<>>
                                        ELSE IF ToPack(i) THEN Pack(f[i - 1], i)
                                        ELSE f[i - 1]]
<1>1. step \in [1..N -> [V -> V]] /\ <<>> \in V /\ N \in Nat
  <2>1. ASSUME NEW i \in 1..N, NEW v \in V PROVE PackOne(v, i) \in V
    BY <2>1, PackTyped DEF Positions
  <2> QED
    BY <2>1, FileFacts
<1>2. PICK f : Recurs(f, N, V, <<>>, step)
  <2> HIDE DEF step, V
  <2> QED
    BY <1>1, RecursionExists
<1>3. ASSUME NEW i \in 1..N PROVE f[i] = PackOne(f[i - 1], i)
  <2>1. f[i - 1] \in V /\ f[i] = step[i][f[i - 1]]
    <3>1. i - 1 \in 0..N
      BY <1>1
    <3> HIDE DEF step, V
    <3> QED
      BY <1>2, <3>1 DEF Recurs
  <2> HIDE DEF V
  <2> QED
    BY <2>1
<1>4. Is(f)
  <2>1. f = [i \in 0..N |-> f[i]] /\ f[0] = <<>>
    <3> HIDE DEF step, V
    <3> QED
      BY <1>2 DEF Recurs
  <2>2. \A i \in 0..N : i # 0 => i \in 1..N
    BY <1>1
  <2> HIDE DEF step, V
  <2> QED
    BY <1>3, <2>1, <2>2 DEF PackOne
<1>5. Is(Packed)
  <2> HIDE DEF step, V
  <2> QED
    BY <1>4 DEF Packed, N
<1> HIDE DEF step, V
<1>6. \A i \in 0..N : Packed[i] = IF i = 0 THEN <<>>
                                 ELSE IF ToPack(i) THEN Pack(Packed[i - 1], i)
                                 ELSE Packed[i - 1]
  BY <1>5
<1>7. 0 \in 0..N /\ \A i \in 1..N : i \in 0..N /\ i # 0
  BY <1>1
<1> QED
  BY <1>6, <1>7 DEF PackOne, Positions

LEMMA GroupsHold == ASSUME TypeOK PROVE PackInv(Groups, N)
<1> DEFINE S == {i \in Nat : i <= N => PackInv(Packed[i], i)}
<1>1. 0 \in S
  <2>1. Packed[0] = <<>> /\ <<>> \in Seq(Seq(Positions)) /\ DOMAIN <<>> = {}
    BY PackedRecurs
  <2>2. PackInv(Packed[0], 0)
    BY <2>1 DEF PackInv
  <2> QED
    BY <2>2
<1>2. ASSUME NEW i \in S PROVE i + 1 \in S
  <2> SUFFICES ASSUME i + 1 <= N PROVE PackInv(Packed[i + 1], i + 1)
    OBVIOUS
  <2>1. i + 1 \in Positions /\ (i + 1) - 1 = i /\ PackInv(Packed[i], i)
    BY FileFacts DEF Positions
  <2> QED
    BY <2>1, PackedRecurs, PackStep
<1>3. S \in SUBSET Nat
  OBVIOUS
<1> HIDE DEF S
<1>4. N \in S
  BY <1>1, <1>2, <1>3, NatInd, FileFacts
<1> QED
  BY <1>4, FileFacts DEF S, Groups, N

-----------------------------------------------------------------------------
(* Where every chunk ends up.                                               *)

Homes == Known \cup {Sealed(g) : g \in ToSet(Groups)}

LEMMA FinalPlaceLives ==
    ASSUME ProbeInv, NEW i \in Positions
    PROVE  /\ FinalPlace(i) \in Places /\ FinalPlace(i).xorb \in Homes
           /\ Lives(FinalPlace(i), chunks[i])
<1>1. CASE Placed(i)
  <2>1. FinalPlace(i) = placement[i] /\ placement[i] \in Places
    BY <1>1, FileFacts DEF FinalPlace, ProbeInv
  <2> QED
    BY <1>1, <2>1, FileFacts DEF ProbeInv, PlacedInv, Homes, Positions
<1>2. CASE ~Placed(i)
  <2>1. \E g \in ToSet(Groups) : i \in ToSet(g)
    <3>1. i \in 1..N /\ ToPack(i)
      BY <1>2 DEF Positions, ToPack
    <3>2. PICK k \in DOMAIN Groups : i \in ToSet(Groups[k])
      BY <3>1, GroupsHold DEF PackInv, ProbeInv
    <3> QED
      BY <3>2 DEF ToSet
  <2> DEFINE g == CHOOSE g \in ToSet(Groups) : i \in ToSet(g)
  <2>2. g \in ToSet(Groups) /\ i \in ToSet(g)
    BY <2>1
  <2>3. FinalPlace(i) = [xorb |-> Sealed(g), index |-> LastIndex(g, i)]
    BY <1>2 DEF FinalPlace
  <2> HIDE DEF g
  <2>4. g \in Seq(Positions)
    <3>1. Groups \in Seq(Seq(Positions))
      BY GroupsHold DEF PackInv, ProbeInv
    <3> QED
      BY <2>2, <3>1, ElementsOfSeq
  <2> DEFINE at == LastIndex(g, i)
             x == Sealed(g)
  <2>5. at \in Nat /\ at + 1 \in DOMAIN g /\ g[at + 1] = i
    BY <2>2, <2>4, LastIndexHolds
  <2>6. x \in Seq(Chunks) /\ Len(x) = Len(g) /\ x[at + 1] = chunks[i] /\ x \in Homes
    BY <2>2, <2>4, <2>5, SealedFacts DEF ProbeInv, Homes
  <2>7. at + 1 \in DOMAIN x
    BY <2>4, <2>5, <2>6, ElementsOfSeq
  <2> HIDE DEF at, x
  <2>8. FinalPlace(i) = [xorb |-> x, index |-> at]
    BY <2>3 DEF at, x
  <2> QED
    BY <2>5, <2>6, <2>7, <2>8 DEF Places, Lives
<1> QED
  BY <1>1, <1>2

-----------------------------------------------------------------------------
(* Coalescing.                                                              *)

TermSet == [xorb : Seq(Chunks), start : Nat, end : Nat]

(* The chunks a term stands for. *)
Spelt(t) == SubSeq(t.xorb, t.start + 1, t.end)

Read(runs) == [k \in DOMAIN runs |-> Spelt(runs[k])]

GoodTerm(t) == t.xorb \in Homes /\ t.start < t.end /\ t.end <= Len(t.xorb)

Apart(t, u) == ~(t.xorb = u.xorb /\ t.end = u.start)

(* The terms of chunks 1 to i: they spell these chunks, and the last of     *)
(* them ends where chunk i is.                                              *)
TermInv(runs, i) ==
    /\ runs \in Seq(TermSet)
    /\ \A k \in DOMAIN runs : GoodTerm(runs[k])
    /\ i = 0 => runs = <<>>
    /\ i # 0 => /\ runs # <<>>
                /\ Last(runs).xorb = FinalPlace(i).xorb
                /\ Last(runs).end = FinalPlace(i).index + 1
    /\ FlattenSeq(Read(runs)) = SubSeq(chunks, 1, i)
    /\ \A k \in 1..Len(runs) - 1 : Apart(runs[k], runs[k + 1])

LEMMA SpeltTyped ==
    ASSUME NEW t \in TermSet, t.end <= Len(t.xorb)
    PROVE  Spelt(t) \in Seq(Chunks)
<1>1. t.xorb \in Seq(Chunks) /\ t.start \in Nat /\ t.end \in Nat
  BY DEF TermSet
<1>2. \A k \in t.start + 1..t.end : t.xorb[k] \in Chunks
  BY <1>1
<1> QED
  BY <1>1, <1>2 DEF Spelt

(* A term of one chunk. *)
LEMMA TermStarts ==
    ASSUME NEW p \in Places, NEW c, Lives(p, c)
    PROVE  LET t == [xorb |-> p.xorb, start |-> p.index, end |-> p.index + 1]
           IN  /\ t \in TermSet /\ t.start < t.end /\ t.end <= Len(t.xorb)
               /\ Spelt(t) = <<c>>
<1> DEFINE x == p.xorb
           n == p.index
           t == [xorb |-> x, start |-> n, end |-> n + 1]
<1>1. x \in Seq(Chunks) /\ n \in Nat /\ n + 1 \in 1..Len(x) /\ x[n + 1] = c
  BY ElementsOfSeq DEF Places, Lives
<1> HIDE DEF x, n
<1>2. t \in TermSet /\ t.start = n /\ t.end = n + 1 /\ t.xorb = x
  BY <1>1 DEF TermSet
<1>3. SubSeq(x, n + 1, n + 1) = <<c>>
  <2>1. n + 1 \in Int /\ n + 1 \in 1..Len(x)
    BY <1>1
  <2>2. /\ Len(SubSeq(x, n + 1, n + 1)) = 1 /\ SubSeq(x, n + 1, n + 1)[1] = x[n + 1]
        /\ SubSeq(x, n + 1, n + 1) \in Seq(Chunks)
    BY <1>1, <2>1
  <2> DEFINE y == SubSeq(x, n + 1, n + 1)
  <2>3. y \in Seq(Chunks) /\ Len(y) = 1 /\ y[1] = c
    BY <1>1, <2>2
  <2> HIDE DEF y
  <2>4. y = <<c>>
    BY <2>3
  <2> QED
    BY <2>4 DEF y
<1> HIDE DEF t
<1> QED
  BY <1>1, <1>2, <1>3 DEF t, x, n, Spelt

(* A term that takes one chunk more. *)
LEMMA TermExtends ==
    ASSUME NEW t \in TermSet, t.start < t.end,
           NEW p \in Places, NEW c, Lives(p, c), t.xorb = p.xorb, t.end = p.index
    PROVE  LET u == [t EXCEPT !.end = p.index + 1]
           IN  /\ u \in TermSet /\ u.xorb = t.xorb /\ u.start = t.start
               /\ u.start < u.end /\ u.end <= Len(u.xorb)
               /\ u.end = p.index + 1
               /\ Spelt(u) = Append(Spelt(t), c)
<1> DEFINE x == t.xorb
           a == t.start
           n == p.index
           u == [t EXCEPT !.end = n + 1]
<1>1. /\ x \in Seq(Chunks) /\ a \in Nat /\ n \in Nat /\ a < n
      /\ n + 1 \in 1..Len(x) /\ x[n + 1] = c /\ t.end = n
  BY ElementsOfSeq DEF Places, Lives, TermSet
<1>2. u \in TermSet /\ u.start = a /\ u.end = n + 1 /\ u.xorb = x
  <2>1. t \in [xorb : Seq(Chunks), start : Nat, end : Nat] /\ n + 1 \in Nat
    BY <1>1 DEF TermSet
  <2> HIDE DEF n
  <2> QED
    BY <2>1 DEF TermSet
<1> HIDE DEF x, a, n, u
<1>3. SubSeq(x, a + 1, n + 1) = Append(SubSeq(x, a + 1, n), c)
  <2>1. \A k \in a + 1..n + 1 : x[k] \in Chunks
    BY <1>1
  <2>2. /\ SubSeq(x, a + 1, n + 1) \in Seq(Chunks) /\ SubSeq(x, a + 1, n) \in Seq(Chunks)
        /\ Len(SubSeq(x, a + 1, n + 1)) = n + 1 - a
        /\ Len(SubSeq(x, a + 1, n)) = n - a
        /\ \A k \in 1..n + 1 - a : SubSeq(x, a + 1, n + 1)[k] = x[a + k]
        /\ \A k \in 1..n - a : SubSeq(x, a + 1, n)[k] = x[a + k]
    BY <1>1, <2>1
  <2> DEFINE y == SubSeq(x, a + 1, n + 1)
             z == SubSeq(x, a + 1, n)
             w == Append(z, c)
  <2> HIDE DEF y, z
  <2>3. c \in Chunks
    BY <1>1
  <2>4. /\ w \in Seq(Chunks) /\ Len(w) = n - a + 1 /\ w[n - a + 1] = c
        /\ \A k \in 1..n - a : w[k] = x[a + k]
    <3>1. z \in Seq(Chunks) /\ Len(z) = n - a /\ \A k \in 1..n - a : z[k] = x[a + k]
      BY <2>2 DEF z
    <3> QED
      BY <2>3, <3>1, AppendFacts
  <2>5. /\ y \in Seq(Chunks) /\ Len(y) = n + 1 - a
        /\ \A k \in 1..n + 1 - a : y[k] = x[a + k]
    BY <2>2 DEF y
  <2> HIDE DEF w
  <2>6. n + 1 - a = n - a + 1 /\ a + (n - a + 1) = n + 1 /\ n - a \in Nat
    BY <1>1
  <2>7. ASSUME NEW k \in 1..Len(y) PROVE y[k] = w[k]
    <3>1. k \in 1..n - a \/ k = n - a + 1
      BY <1>1, <2>5, <2>6
    <3> QED
      BY <1>1, <2>4, <2>5, <2>6, <3>1
  <2>8. y = w
    BY <2>4, <2>5, <2>6, <2>7, SeqEqual
  <2> QED
    BY <2>8 DEF y, z, w
<1>4. Spelt(u) = Append(Spelt(t), c)
  BY <1>1, <1>2, <1>3 DEF Spelt, x, a
<1>5. /\ u \in TermSet /\ u.xorb = t.xorb /\ u.start = t.start
      /\ u.start < u.end /\ u.end <= Len(u.xorb)
      /\ u.end = p.index + 1
  <2>1. n + 1 <= Len(x) /\ a < n + 1
    BY <1>1
  <2> QED
    BY <1>2, <2>1 DEF x, a, n
<1> QED
  BY <1>4, <1>5 DEF u, n

LEMMA ReadTyped ==
    ASSUME NEW runs \in Seq(TermSet), \A k \in DOMAIN runs : GoodTerm(runs[k])
    PROVE  /\ Read(runs) \in Seq(Seq(Chunks)) /\ Len(Read(runs)) = Len(runs)
           /\ \A k \in 1..Len(runs) : Read(runs)[k] = Spelt(runs[k])
<1>1. \A k \in 1..Len(runs) : Spelt(runs[k]) \in Seq(Chunks)
  BY ElementsOfSeq, SpeltTyped DEF GoodTerm
<1>2. Read(runs) = [k \in 1..Len(runs) |-> Spelt(runs[k])] /\ Len(runs) \in Nat
  BY ElementsOfSeq DEF Read
<1>3. Read(runs) \in [1..Len(runs) -> Seq(Chunks)]
  BY <1>1, <1>2
<1> QED
  BY <1>2, <1>3, IsASeq, LenProperties

(* A term more. *)
LEMMA ReadAppend ==
    ASSUME NEW runs \in Seq(TermSet), \A k \in DOMAIN runs : GoodTerm(runs[k]),
           NEW t \in TermSet, GoodTerm(t)
    PROVE  /\ Append(runs, t) \in Seq(TermSet)
           /\ \A k \in DOMAIN Append(runs, t) : GoodTerm(Append(runs, t)[k])
           /\ FlattenSeq(Read(runs)) \in Seq(Chunks)
           /\ FlattenSeq(Read(Append(runs, t))) = FlattenSeq(Read(runs)) \o Spelt(t)
<1> DEFINE n == Len(runs)
           more == Append(runs, t)
<1>1. /\ more \in Seq(TermSet) /\ Len(more) = n + 1 /\ n \in Nat /\ more[n + 1] = t
      /\ \A k \in 1..n : more[k] = runs[k]
  BY AppendFacts
<1> HIDE DEF more
<1>2. DOMAIN more = 1..n \cup {n + 1} /\ DOMAIN runs = 1..n
  BY <1>1
<1>3. \A k \in DOMAIN more : GoodTerm(more[k])
  BY <1>1, <1>2
<1>4. /\ Read(runs) \in Seq(Seq(Chunks)) /\ Len(Read(runs)) = n
      /\ \A k \in 1..n : Read(runs)[k] = Spelt(runs[k])
  BY ReadTyped
<1>5. /\ Read(more) \in Seq(Seq(Chunks)) /\ Len(Read(more)) = n + 1
      /\ \A k \in 1..n + 1 : Read(more)[k] = Spelt(more[k])
  BY <1>1, <1>3, ReadTyped
<1>6. Spelt(t) \in Seq(Chunks)
  BY SpeltTyped DEF GoodTerm
<1> DEFINE y == Append(Read(runs), Spelt(t))
<1>7. /\ y \in Seq(Seq(Chunks)) /\ Len(y) = n + 1 /\ y[n + 1] = Spelt(t)
      /\ \A k \in 1..n : y[k] = Spelt(runs[k])
  BY <1>4, <1>6, AppendFacts
<1> HIDE DEF y
<1>8. ASSUME NEW k \in 1..n + 1 PROVE Read(more)[k] = y[k]
  <2>1. k \in 1..n \/ k = n + 1
    BY <1>1
  <2> QED
    BY <1>1, <1>5, <1>7, <2>1
<1>9. Read(more) = y
  BY <1>5, <1>7, <1>8, SeqEqual
<1>10. /\ FlattenSeq(Read(runs)) \in Seq(Chunks)
       /\ FlattenSeq(y) = FlattenSeq(Read(runs)) \o Spelt(t)
  BY <1>4, <1>6, FlattenAppend DEF y
<1> QED
  BY <1>1, <1>3, <1>9, <1>10 DEF more

(* The last term takes one chunk more. *)
LEMMA ReadExtend ==
    ASSUME NEW runs \in Seq(TermSet), \A k \in DOMAIN runs : GoodTerm(runs[k]),
           runs # <<>>, NEW u \in TermSet, GoodTerm(u), NEW c \in Chunks,
           Spelt(u) = Append(Spelt(Last(runs)), c)
    PROVE  LET longer == [runs EXCEPT ![Len(runs)] = u]
           IN  /\ longer \in Seq(TermSet) /\ Len(longer) = Len(runs)
               /\ \A k \in DOMAIN longer : GoodTerm(longer[k])
               /\ FlattenSeq(Read(longer)) = Append(FlattenSeq(Read(runs)), c)
<1> DEFINE n == Len(runs)
           longer == [runs EXCEPT ![n] = u]
           front == SubSeq(runs, 1, n - 1)
           t == runs[n]
<1>0. n \in Nat \ {0} /\ \A k \in 1..n : k \in 1..n - 1 \/ k = n
  <2>1. n \in Nat \ {0}
    OBVIOUS
  <2> HIDE DEF n
  <2> QED
    BY <2>1
<1>1. /\ n \in Nat \ {0} /\ DOMAIN runs = 1..n /\ \A k \in 1..n : runs[k] \in TermSet
      /\ t \in TermSet /\ GoodTerm(t) /\ Last(runs) = t
  BY DEF Last
<1>2. /\ front \in Seq(TermSet) /\ Len(front) = n - 1
      /\ \A k \in 1..n - 1 : front[k] = runs[k]
  BY <1>1
<1>3. /\ longer \in Seq(TermSet) /\ Len(longer) = n /\ longer[n] = u
      /\ \A k \in 1..n - 1 : longer[k] = runs[k]
  <2>1. n \in 1..Len(runs) /\ \A k \in 1..n - 1 : k \in 1..Len(runs) /\ k # n
    BY <1>0
  <2> QED
    BY <2>1, ExceptSeq
<1> HIDE DEF longer, front, t
<1>4. \A k \in DOMAIN front : GoodTerm(front[k])
  BY <1>1, <1>2
<1>5. \A k \in DOMAIN longer : GoodTerm(longer[k])
  <2>1. DOMAIN longer = 1..n
    BY <1>3
  <2>2. GoodTerm(longer[n])
    BY <1>3
  <2>3. \A k \in 1..n - 1 : k \in DOMAIN runs /\ GoodTerm(longer[k])
    <3>1. \A k \in 1..n - 1 : k \in 1..n
      BY <1>0
    <3> HIDE DEF n
    <3> QED
      BY <1>1, <1>3, <3>1
  <2> QED
    BY <1>0, <2>1, <2>2, <2>3
<1>6. runs = Append(front, t) /\ longer = Append(front, u)
  <2>2. ASSUME NEW v \in TermSet, NEW ext \in Seq(TermSet), Len(ext) = n, ext[n] = v,
               \A k \in 1..n - 1 : ext[k] = runs[k]
        PROVE  ext = Append(front, v)
    <3> DEFINE w == Append(front, v)
    <3>1. /\ w \in Seq(TermSet) /\ Len(w) = n /\ w[n] = v
          /\ \A k \in 1..n - 1 : w[k] = runs[k]
      <4>1. (n - 1) + 1 = n
        BY <1>0
      <4> HIDE DEF n
      <4> QED
        BY <1>2, <4>1, AppendFacts
    <3> HIDE DEF w
    <3>2. ASSUME NEW k \in 1..Len(ext) PROVE ext[k] = w[k]
      <4>1. k \in 1..n
        BY <2>2
      <4> HIDE DEF n
      <4>2. CASE k \in 1..n - 1
        BY <2>2, <3>1, <4>2
      <4>3. CASE k = n
        BY <2>2, <3>1, <4>3
      <4> QED
        BY <1>0, <4>1, <4>2, <4>3
    <3>3. ext = w
      BY <2>2, <3>1, <3>2, SeqEqual
    <3> QED
      BY <3>3 DEF w
  <2> QED
    BY <1>1, <1>3, <2>2 DEF t
<1> DEFINE all == FlattenSeq(Read(front))
<1>7. /\ all \in Seq(Chunks)
      /\ FlattenSeq(Read(runs)) = all \o Spelt(t)
      /\ FlattenSeq(Read(longer)) = all \o Spelt(u)
  BY <1>1, <1>2, <1>4, <1>6, ReadAppend
<1>8. Spelt(t) \in Seq(Chunks)
  BY <1>1, SpeltTyped DEF GoodTerm
<1> HIDE DEF all
<1>9. all \o Append(Spelt(t), c) = Append(all \o Spelt(t), c)
  BY <1>7, <1>8
<1> QED
  BY <1>1, <1>3, <1>5, <1>7, <1>9 DEF longer

LEMMA TermStep ==
    ASSUME ProbeInv, NEW i \in Positions, NEW runs, TermInv(runs, i - 1)
    PROVE  TermInv(Extend(runs, i), i)
<1> DEFINE n == Len(runs)
           p == FinalPlace(i)
           c == chunks[i]
           start == SubSeq(chunks, 1, i - 1)
<1>1. /\ p \in Places /\ p.xorb \in Homes /\ Lives(p, c)
      /\ c \in Chunks /\ i \in 1..N /\ N \in Nat
      /\ chunks \in Seq(Chunks) /\ N = Len(chunks)
  BY FinalPlaceLives, FileFacts DEF ProbeInv, Positions, N
<1>2. SubSeq(chunks, 1, i) = Append(start, c) /\ start \in Seq(Chunks)
  <2>1. chunks = [k \in 1..N |-> chunks[k]] /\ \A k \in 1..i : chunks[k] \in Chunks
    BY <1>1
  <2> DEFINE y == SubSeq(chunks, 1, i)
             w == Append(start, c)
  <2>2. /\ start \in Seq(Chunks) /\ Len(start) = i - 1
        /\ \A k \in 1..i - 1 : start[k] = chunks[k]
    BY <1>1, <2>1
  <2>3. y \in Seq(Chunks) /\ Len(y) = i /\ \A k \in 1..i : y[k] = chunks[k]
    BY <1>1, <2>1
  <2> HIDE DEF start, y, c
  <2>4. /\ w \in Seq(Chunks) /\ Len(w) = i /\ w[i] = c
        /\ \A k \in 1..i - 1 : w[k] = chunks[k]
    <3>1. (i - 1) + 1 = i
      BY <1>1
    <3> QED
      BY <1>1, <2>2, <3>1, AppendFacts
  <2> HIDE DEF w
  <2>5. \A k \in 1..i : k \in 1..i - 1 \/ k = i
    BY <1>1
  <2>6. \A k \in 1..i : y[k] = w[k]
    BY <2>3, <2>4, <2>5 DEF c
  <2>7. y = w
    BY <2>3, <2>4, <2>6, SeqEqual
  <2> QED
    BY <2>2, <2>7 DEF y, w
<1>3. /\ runs \in Seq(TermSet) /\ n \in Nat /\ DOMAIN runs = 1..n
      /\ \A k \in DOMAIN runs : GoodTerm(runs[k])
      /\ FlattenSeq(Read(runs)) = start
      /\ \A k \in 1..n - 1 : Apart(runs[k], runs[k + 1])
      /\ i = 1 => runs = <<>>
      /\ i # 1 => /\ runs # <<>>
                  /\ Last(runs).xorb = FinalPlace(i - 1).xorb
                  /\ Last(runs).end = FinalPlace(i - 1).index + 1
  <2>1. i - 1 = 0 <=> i = 1
    BY <1>1
  <2> QED
    BY <2>1 DEF TermInv
<1> HIDE DEF start
<1>4. CASE i > 1 /\ Continues(FinalPlace(i - 1), p)
  <2> DEFINE t == Last(runs)
             u == [t EXCEPT !.end = p.index + 1]
             longer == [runs EXCEPT ![n] = u]
  <2>1. /\ Extend(runs, i) = longer
    BY <1>4 DEF Extend, Last
  <2>2. /\ runs # <<>> /\ n \in 1..n /\ t = runs[n] /\ t \in TermSet /\ GoodTerm(t)
        /\ t.xorb = p.xorb /\ t.end = p.index
    <3>1. runs # <<>> /\ i # 1
      BY <1>1, <1>3, <1>4
    <3>2. n \in 1..n /\ t = runs[n] /\ t \in TermSet
      BY <1>3, <3>1 DEF Last
    <3>3. t.xorb = p.xorb /\ t.end = p.index
      BY <1>3, <1>4, <3>1 DEF Continues
    <3> QED
      BY <1>3, <3>1, <3>2, <3>3
  <2> HIDE DEF p, c, t
  <2>3. /\ u \in TermSet /\ u.xorb = t.xorb /\ u.start = t.start
        /\ u.start < u.end /\ u.end <= Len(u.xorb) /\ u.end = p.index + 1
        /\ Spelt(u) = Append(Spelt(t), c)
    BY <1>1, <2>2, TermExtends DEF GoodTerm
  <2> HIDE DEF u
  <2>4. GoodTerm(u)
    BY <1>1, <2>2, <2>3 DEF GoodTerm
  <2>5. /\ longer \in Seq(TermSet) /\ Len(longer) = n
        /\ \A k \in DOMAIN longer : GoodTerm(longer[k])
        /\ FlattenSeq(Read(longer)) = Append(FlattenSeq(Read(runs)), c)
    BY <1>1, <1>3, <2>2, <2>3, <2>4, ReadExtend DEF t
  <2>6. longer[n] = u /\ \A k \in 1..n : k # n => longer[k] = runs[k]
    BY <1>3, <2>2
  <2> HIDE DEF longer
  <2>7. ASSUME NEW k \in 1..n - 1 PROVE Apart(longer[k], longer[k + 1])
    <3>1. Apart(runs[k], runs[k + 1]) /\ longer[k] = runs[k] /\ k + 1 \in 1..n
      <4>1. n \in Nat /\ Apart(runs[k], runs[k + 1])
        BY <1>3
      <4> HIDE DEF n
      <4>2. k \in 1..n /\ k # n /\ k + 1 \in 1..n
        BY <4>1
      <4> QED
        BY <2>6, <4>1, <4>2
    <3>2. longer[k + 1].start = runs[k + 1].start /\ longer[k + 1].xorb = runs[k + 1].xorb
      BY <2>2, <2>3, <2>6, <3>1
    <3> QED
      BY <3>1, <3>2 DEF Apart
  <2>8. Last(longer).xorb = p.xorb /\ Last(longer).end = p.index + 1 /\ longer # <<>>
    BY <2>2, <2>3, <2>5, <2>6 DEF Last
  <2> QED
    BY <1>1, <1>2, <1>3, <2>1, <2>5, <2>7, <2>8 DEF TermInv, p
<1>5. CASE ~(i > 1 /\ Continues(FinalPlace(i - 1), p))
  <2> DEFINE t == [xorb |-> p.xorb, start |-> p.index, end |-> p.index + 1]
             more == Append(runs, t)
  <2>1. Extend(runs, i) = more
    BY <1>5 DEF Extend
  <2>2. t.xorb = p.xorb /\ t.start = p.index /\ t.end = p.index + 1
    OBVIOUS
  <2> HIDE DEF p, c
  <2>3. t \in TermSet /\ t.start < t.end /\ t.end <= Len(t.xorb) /\ Spelt(t) = <<c>>
    BY <1>1, TermStarts
  <2> HIDE DEF t
  <2>4. GoodTerm(t)
    BY <1>1, <2>2, <2>3 DEF GoodTerm
  <2>5. /\ more \in Seq(TermSet)
        /\ \A k \in DOMAIN more : GoodTerm(more[k])
        /\ FlattenSeq(Read(more)) = start \o <<c>>
    BY <1>3, <2>3, <2>4, ReadAppend
  <2>6. start \o <<c>> = Append(start, c)
    BY <1>1, <1>2
  <2>7. /\ Len(more) = n + 1 /\ more[n + 1] = t /\ Last(more) = t
        /\ \A k \in 1..n : more[k] = runs[k]
    BY <1>3, <2>3, AppendFacts
  <2> HIDE DEF more
  <2>8. ASSUME NEW k \in 1..(n + 1) - 1 PROVE Apart(more[k], more[k + 1])
    <3>1. k \in 1..n /\ (k \in 1..n - 1 \/ k = n)
      <4>1. n \in Nat
        BY <1>3
      <4> HIDE DEF n
      <4> QED
        BY <4>1
    <3>2. CASE k \in 1..n - 1
      <4>1. k + 1 \in 1..n
        BY <1>3, <3>2
      <4> QED
        BY <1>3, <2>7, <3>1, <3>2, <4>1
    <3>3. CASE k = n
      <4>1. i # 1 /\ i > 1 /\ more[k] = Last(runs)
        BY <1>1, <1>3, <2>7, <3>1, <3>3 DEF Last
      <4>2. ~Continues(FinalPlace(i - 1), p)
        BY <1>5, <4>1 DEF p
      <4>3. Apart(Last(runs), t)
        BY <1>3, <2>2, <4>1, <4>2 DEF Apart, Continues
      <4> QED
        BY <2>7, <3>3, <4>1, <4>3
    <3> QED
      BY <3>1, <3>2, <3>3
  <2>9. more # <<>>
    BY <1>3, <2>7
  <2> QED
    <3>0. i # 0
      BY <1>1
    <3>1. FlattenSeq(Read(more)) = SubSeq(chunks, 1, i)
      BY <1>2, <2>5, <2>6, Zenon
    <3>2. Last(more).xorb = p.xorb /\ Last(more).end = p.index + 1
      BY <2>2, <2>7
    <3>3. \A k \in 1..Len(more) - 1 : Apart(more[k], more[k + 1])
      BY <2>7, <2>8
    <3>4. TermInv(more, i)
      BY <2>5, <2>9, <3>0, <3>1, <3>2, <3>3 DEF TermInv, p
    <3> QED
      BY <2>1, <3>4
<1> QED
  BY <1>4, <1>5

LEMMA CoalescedRecurs ==
    ASSUME ProbeInv
    PROVE  /\ Coalesced[0] = <<>>
           /\ \A i \in Positions : Coalesced[i] = Extend(Coalesced[i - 1], i)
<1> DEFINE V == Seq(TermSet)
           step == [i \in 1..N |-> [v \in V |-> Extend(v, i)]]
           Is(f) == f = [i \in 0..N |-> IF i = 0 THEN <<>> ELSE Extend(f[i - 1], i)]
<1>1. step \in [1..N -> [V -> V]] /\ <<>> \in V /\ N \in Nat
  <2>1. ASSUME NEW i \in 1..N, NEW v \in V PROVE Extend(v, i) \in V
    <3> DEFINE p == FinalPlace(i)
               t == [xorb |-> p.xorb, start |-> p.index, end |-> p.index + 1]
               u == [v EXCEPT ![Len(v)].end = p.index + 1]
    <3>1. p \in Places
      BY FinalPlaceLives DEF Positions
    <3> HIDE DEF p
    <3>2. p.xorb \in Seq(Chunks) /\ p.index \in Nat /\ p.index + 1 \in Nat
      BY <3>1 DEF Places
    <3>3. t \in TermSet
      BY <3>2 DEF TermSet
    <3>4. Append(v, t) \in V
      <4> HIDE DEF t
      <4> QED
        BY <3>3
    <3>5. u \in V
      <4>1. \A k \in 1..Len(v) : /\ v[k] \in TermSet
                                 /\ [v[k] EXCEPT !.end = p.index + 1] \in TermSet
        <5>1. ASSUME NEW r \in TermSet PROVE [r EXCEPT !.end = p.index + 1] \in TermSet
          BY <3>2 DEF TermSet
        <5> QED
          BY <5>1
      <4>2. u = [k \in 1..Len(v) |->
                    IF k = Len(v) THEN [v[k] EXCEPT !.end = p.index + 1] ELSE v[k]]
        BY SMTT(30)
      <4>3. u \in [1..Len(v) -> TermSet] /\ Len(v) \in Nat
        <5> HIDE DEF u
        <5> QED
          BY <4>1, <4>2
      <4> QED
        BY <4>3, IsASeq
    <3> QED
      BY <3>4, <3>5 DEF Extend, p
  <2> QED
    BY <2>1, FileFacts DEF ProbeInv
<1>2. PICK f : Recurs(f, N, V, <<>>, step)
  <2> HIDE DEF step, V
  <2> QED
    BY <1>1, RecursionExists
<1>3. ASSUME NEW i \in 1..N PROVE f[i] = Extend(f[i - 1], i)
  <2>1. f[i - 1] \in V /\ f[i] = step[i][f[i - 1]]
    <3>1. i - 1 \in 0..N
      BY <1>1
    <3> HIDE DEF step, V
    <3> QED
      BY <1>2, <3>1 DEF Recurs
  <2> HIDE DEF V
  <2> QED
    BY <2>1
<1>4. Is(f)
  <2>1. f = [i \in 0..N |-> f[i]] /\ f[0] = <<>>
    <3> HIDE DEF step, V
    <3> QED
      BY <1>2 DEF Recurs
  <2>2. \A i \in 0..N : i # 0 => i \in 1..N
    BY <1>1
  <2> HIDE DEF step, V
  <2> QED
    BY <1>3, <2>1, <2>2
<1>5. Is(Coalesced)
  <2> HIDE DEF step, V
  <2> QED
    BY <1>4 DEF Coalesced, N
<1> HIDE DEF step, V
<1>6. \A i \in 0..N : Coalesced[i] = IF i = 0 THEN <<>> ELSE Extend(Coalesced[i - 1], i)
  BY <1>5
<1>7. 0 \in 0..N /\ \A i \in 1..N : i \in 0..N /\ i # 0
  BY <1>1
<1> QED
  BY <1>6, <1>7 DEF Positions

LEMMA TermsHold == ASSUME ProbeInv PROVE TermInv(Terms, N)
<1> DEFINE S == {i \in Nat : i <= N => TermInv(Coalesced[i], i)}
<1>1. 0 \in S
  <2>1. Coalesced[0] = <<>> /\ <<>> \in Seq(TermSet) /\ DOMAIN <<>> = {} /\ Len(<<>>) = 0
    BY CoalescedRecurs
  <2>2. Read(<<>>) = <<>>
    BY DEF Read
  <2>3. FlattenSeq(<<>>) = <<>> /\ SubSeq(chunks, 1, 0) = <<>>
    BY FileFacts, SubSeqEmpty DEF FlattenSeq, ProbeInv
  <2>4. 1..Len(<<>>) - 1 = {}
    BY <2>1
  <2>5. TermInv(<<>>, 0)
    BY <2>1, <2>2, <2>3, <2>4, Zenon DEF TermInv
  <2> QED
    BY <2>1, <2>5
<1>2. ASSUME NEW i \in S PROVE i + 1 \in S
  <2> SUFFICES ASSUME i + 1 <= N PROVE TermInv(Coalesced[i + 1], i + 1)
    OBVIOUS
  <2>1. i + 1 \in Positions /\ (i + 1) - 1 = i /\ TermInv(Coalesced[i], i)
    BY FileFacts DEF Positions, ProbeInv
  <2> QED
    BY <2>1, CoalescedRecurs, TermStep
<1>3. S \in SUBSET Nat
  OBVIOUS
<1> HIDE DEF S
<1>4. N \in Nat
  BY FileFacts DEF ProbeInv
<1>5. N \in S
  BY <1>1, <1>2, <1>3, <1>4, NatInd
<1> QED
  BY <1>4, <1>5 DEF S, Terms, N

-----------------------------------------------------------------------------
(* The plan.                                                                *)

(* Every term names a xorb that was there to begin with or that is planned. *)
TermsBacked ==
    Planned => \A t \in ToSet(terms) : t.xorb \in Known \cup ToSet(xorbs)

PlanInv ==
    /\ PlanSpellsFile
    /\ XorbsWithinLimits
    /\ KnownChunksNotSent
    /\ TermsBacked

(* A xorb before the next to be taken is being posted or has arrived; what  *)
(* has arrived, like the xorbs that were there to begin with, is there      *)
(* still unless the server collected it.                                    *)
SentInv ==
    /\ Known \subseteq stored \cup collected
    /\ phase = "probe" => next = 1
    /\ \A k \in 1..Len(xorbs) :
          k < next => k \in posting \/ xorbs[k] \in stored \cup collected
    /\ phase \in {"register", "refused"} => next > Len(xorbs) /\ posting = {}

UploadInv == ProbeInv /\ PlanInv /\ SentInv /\ RefusedOnlyIfCollected

(* What the groups and the terms amount to.                                 *)
LEMMA FinishPlans ==
    ASSUME ProbeInv, Finish
    PROVE  xorbs' \in Seq(Seq(Chunks)) /\ PlanInv'
<1> DEFINE new == [g \in DOMAIN Groups |-> Sealed(Groups[g])]
<1>1. xorbs' = new /\ terms' = Terms /\ UNCHANGED <<chunks, placement, covered>>
  BY DEF Finish, session
<1>2. /\ Groups \in Seq(Seq(Positions))
      /\ \A k \in DOMAIN Groups : GoodGroup(Groups[k])
  BY GroupsHold DEF PackInv, ProbeInv
<1>3. TermInv(Terms, N)
  BY TermsHold
<1>4. ASSUME NEW g \in ToSet(Groups)
      PROVE  /\ Sealed(g) \in Seq(Chunks) /\ Len(Sealed(g)) \in 1..MaxXorbChunks
             /\ Len(Sealed(g)) = 1 \/ Bytes(Sealed(g)) <= MaxXorbBytes
             /\ ToSet(Sealed(g)) \cap covered = {}
  <2>1. g \in Seq(Positions) /\ GoodGroup(g)
    BY <1>2, <1>4, ElementsOfSeq DEF ToSet
  <2>2. /\ Sealed(g) \in Seq(Chunks) /\ Len(Sealed(g)) = Len(g)
        /\ \A k \in DOMAIN g : Sealed(g)[k] = chunks[g[k]]
    BY <2>1, SealedFacts DEF ProbeInv
  <2>3. DOMAIN Sealed(g) = DOMAIN g
    BY <2>1, <2>2, ElementsOfSeq
  <2>4. ASSUME NEW k \in DOMAIN g PROVE Sealed(g)[k] \notin covered
    <3>1. g[k] \in ToSet(g) /\ g[k] \in Positions
      BY <2>1, ElementsOfSeq
    <3>2. ~Placed(g[k]) /\ g[k] \in DOMAIN chunks
      BY <2>1, <3>1, FileFacts DEF GoodGroup, ToPack, ProbeInv, Positions
    <3> QED
      BY <2>2, <3>2 DEF ProbeInv, CoveredInv
  <2>5. ToSet(Sealed(g)) \cap covered = {}
    BY <2>3, <2>4 DEF ToSet
  <2> QED
    BY <2>1, <2>2, <2>5 DEF GoodGroup
<1>5. ToSet(new) = {Sealed(g) : g \in ToSet(Groups)}
  BY DEF ToSet
<1>6. new \in Seq(Seq(Chunks))
  <2>1. /\ Len(Groups) \in Nat /\ DOMAIN Groups = 1..Len(Groups)
        /\ \A k \in DOMAIN Groups : Groups[k] \in ToSet(Groups)
    BY <1>2, ElementsOfSeq
  <2>2. new \in [1..Len(Groups) -> Seq(Chunks)]
    BY <1>4, <2>1
  <2> HIDE DEF new
  <2> QED
    BY <2>1, <2>2, IsASeq
<1> HIDE DEF new
<1>7. XorbsWithinLimits' /\ KnownChunksNotSent'
  BY <1>1, <1>4, <1>5 DEF XorbsWithinLimits, KnownChunksNotSent
<1>8. TermsBacked'
  <2>1. \A t \in ToSet(Terms) : t.xorb \in Homes
    BY <1>3 DEF TermInv, GoodTerm, ToSet
  <2> QED
    BY <1>1, <1>5, <2>1 DEF TermsBacked, Homes
<1>9. PlanSpellsFile'
  <2>1. SubSeq(chunks, 1, N) = chunks
    BY FileFacts, SubSeqFull DEF ProbeInv, N
  <2>2. /\ FlattenSeq([k \in DOMAIN Terms |->
               SubSeq(Terms[k].xorb, Terms[k].start + 1, Terms[k].end)]) = chunks
        /\ \A k \in 1..Len(Terms) - 1 :
               ~(Terms[k].xorb = Terms[k + 1].xorb /\ Terms[k].end = Terms[k + 1].start)
    BY <1>3, <2>1 DEF TermInv, Read, Spelt, Apart
  <2> QED
    BY <1>1, <2>2 DEF PlanSpellsFile
<1> QED
  BY <1>1, <1>6, <1>7, <1>8, <1>9 DEF PlanInv

-----------------------------------------------------------------------------
(* The inductive invariant.                                                 *)

LEMMA UploadStarts == Init => UploadInv
<1> SUFFICES ASSUME Init PROVE UploadInv
  OBVIOUS
<1>1. chunks \in Contents /\ \A i \in DOMAIN chunks : placement[i] = Unplaced
  BY DEF Init
<1>2. TypeOK
  <2>1. Unplaced \in Places
    BY DEF Unplaced, Places
  <2> QED
    BY <2>1 DEF Init, TypeOK
<1>3. PlacedInv /\ CoveredInv
  BY <1>1 DEF Init, PlacedInv, CoveredInv, Placed
<1>4. ~Planned /\ phase = "probe"
  BY DEF Init, Planned
<1>5. PlanInv /\ RefusedOnlyIfCollected
  BY <1>4 DEF PlanInv, PlanSpellsFile, XorbsWithinLimits, KnownChunksNotSent, TermsBacked,
              RefusedOnlyIfCollected
<1>6. SentInv
  BY DEF Init, SentInv
<1> QED
  BY <1>2, <1>3, <1>5, <1>6 DEF UploadInv, ProbeInv

(* An answer places every unplaced chunk of the file that it covers.        *)
LEMMA AnswerPlaces ==
    ASSUME ProbeInv, NEW i \in asking, Answer(i)
    PROVE  ProbeInv'
<1>0. PICK answer \in SUBSET {x \in Known : chunks[i] \in ToSet(x)} :
         \E blocks \in SetToSeqs(answer) :
            Apply(blocks) /\ covered' = covered \cup Covering(ToSet(blocks))
  <2>1. PICK located \in SUBSET {x \in Known : chunks[i] \in ToSet(x)},
             recorded \in SUBSET Known :
           \E blocks \in SetToSeqs(DedupAnswer(located, recorded)) :
              Apply(blocks) /\ covered' = covered \cup Covering(ToSet(blocks))
    BY DEF Answer
  <2>2. DedupAnswer(located, recorded) \in SUBSET {x \in Known : chunks[i] \in ToSet(x)}
    BY DEF DedupAnswer
  <2> QED
    BY <2>1, <2>2
<1>1. PICK blocks \in SetToSeqs(answer) :
         Apply(blocks) /\ covered' = covered \cup Covering(ToSet(blocks))
  BY <1>0
<1>2. chunks' = chunks /\ xorbs' = xorbs /\ next' = next
  BY DEF Answer, plan
<1> DEFINE Found(c) == [xorb |-> Home(blocks, c), index |-> LastIndex(Home(blocks, c), c)]
           Covers(c) == c \in Covering(ToSet(blocks))
<1>3. ASSUME NEW c, Covers(c)
      PROVE  /\ Found(c) \in Places /\ Found(c).xorb \in Known
             /\ Lives(Found(c), c) /\ Found(c) # Unplaced
  <2> DEFINE x == Home(blocks, c)
             n == LastIndex(x, c)
  <2>1. x \in Known /\ c \in ToSet(x)
    BY <1>3, HomeHolds
  <2>2. x \in Seq(Chunks) /\ x # <<>>
    BY <2>1, SessionAssumption
  <2> HIDE DEF x
  <2>3. n \in Nat /\ n + 1 \in DOMAIN x /\ x[n + 1] = c
    BY <2>1, <2>2, LastIndexHolds
  <2> HIDE DEF n
  <2>4. Found(c) = [xorb |-> x, index |-> n]
    BY DEF x, n
  <2> HIDE DEF Found
  <2> QED
    BY <2>1, <2>2, <2>3, <2>4 DEF Places, Lives, Unplaced
<1>4. \A j \in DOMAIN chunks :
         placement'[j] = IF ~Placed(j) /\ Covers(chunks[j]) THEN Found(chunks[j])
                         ELSE placement[j]
  BY <1>1 DEF Apply
<1>5. /\ DOMAIN placement' = DOMAIN chunks
      /\ placement' = [j \in DOMAIN chunks |-> placement'[j]]
  BY <1>1 DEF Apply
<1> HIDE DEF Found, Covers
<1>6. placement' \in [DOMAIN chunks -> Places]
  BY <1>3, <1>4, <1>5 DEF ProbeInv, TypeOK
<1>7. TypeOK'
  BY <1>2, <1>6 DEF TypeOK, ProbeInv
<1>8. ASSUME NEW j \in DOMAIN chunks
      PROVE  /\ placement'[j] # Unplaced => /\ placement'[j].xorb \in Known
                                           /\ Lives(placement'[j], chunks[j])
             /\ chunks[j] \in covered' => placement'[j] # Unplaced
  <2>1. CASE ~Placed(j) /\ Covers(chunks[j])
    BY <1>3, <1>4, <2>1
  <2>2. CASE ~(~Placed(j) /\ Covers(chunks[j]))
    <3>1. placement'[j] = placement[j]
      BY <1>4, <2>2
    <3>2. chunks[j] \in covered' => chunks[j] \in covered \/ Covers(chunks[j])
      BY <1>1 DEF Covers
    <3> QED
      BY <2>2, <3>1, <3>2 DEF ProbeInv, PlacedInv, CoveredInv, Placed
  <2> QED
    BY <2>1, <2>2
<1> QED
  BY <1>2, <1>7, <1>8 DEF ProbeInv, PlacedInv, CoveredInv, Placed

LEMMA PlanKept ==
    ASSUME PlanInv, UNCHANGED <<chunks, covered, xorbs, terms>>, Planned' => Planned
    PROVE  PlanInv'
BY DEF PlanInv, PlanSpellsFile, XorbsWithinLimits, KnownChunksNotSent, TermsBacked

LEMMA ProbeKept ==
    ASSUME ProbeInv, UNCHANGED <<chunks, placement, covered, xorbs>>,
           next' \in Nat \ {0}
    PROVE  ProbeInv'
BY DEF ProbeInv, TypeOK, PlacedInv, CoveredInv, Placed

LEMMA UploadSteps == UploadInv /\ [Next]_vars => UploadInv'
<1> SUFFICES ASSUME UploadInv, [Next]_vars PROVE UploadInv'
  OBVIOUS
<1> USE DEF UploadInv
<1>0. next \in Nat \ {0} /\ xorbs \in Seq(Seq(Chunks)) /\ Len(xorbs) \in Nat
  BY DEF ProbeInv, TypeOK
<1>1. CASE NextBatch
  <2>1. /\ UNCHANGED <<chunks, placement, covered, xorbs, terms, next, posting,
                       stored, collected>>
        /\ UNCHANGED phase
    BY <1>1 DEF NextBatch, plan, server
  <2> QED
    BY <1>0, <2>1, PlanKept, ProbeKept DEF SentInv, RefusedOnlyIfCollected, Planned
<1>2. ASSUME NEW i \in asking, Answer(i) PROVE UploadInv'
  <2>1. /\ UNCHANGED <<chunks, xorbs, terms, next, posting, stored, collected>>
        /\ phase = "probe" /\ phase' = phase
    BY <1>2 DEF Answer, plan, server
  <2>2. ~Planned'
    BY <2>1 DEF Planned
  <2>3. PlanInv'
    BY <2>2 DEF PlanInv, PlanSpellsFile, XorbsWithinLimits, KnownChunksNotSent, TermsBacked
  <2> QED
    BY <1>2, <2>1, <2>3, AnswerPlaces DEF SentInv, RefusedOnlyIfCollected
<1>3. CASE Finish
  <2>1. /\ UNCHANGED <<chunks, placement, covered, next, posting, stored, collected>>
        /\ phase = "probe" /\ phase' = "upload"
    BY <1>3 DEF Finish, session, server
  <2>2. xorbs' \in Seq(Seq(Chunks)) /\ PlanInv'
    BY <1>3, FinishPlans
  <2>3. ProbeInv'
    BY <2>1, <2>2 DEF ProbeInv, TypeOK, PlacedInv, CoveredInv, Placed
  <2>4. SentInv'
    <3>1. Len(xorbs') \in Nat /\ next' = 1
      BY <2>1, <2>2 DEF SentInv
    <3> QED
      BY <2>1, <3>1 DEF SentInv
  <2> QED
    BY <2>1, <2>2, <2>3, <2>4 DEF RefusedOnlyIfCollected
<1>4. CASE TakeXorb
  <2>1. /\ UNCHANGED <<chunks, placement, covered, xorbs, terms, stored, collected>>
        /\ phase = "upload" /\ phase' = phase
        /\ next' = next + 1 /\ posting' = posting \cup {next}
    BY <1>4 DEF TakeXorb, session, server
  <2>2. ProbeInv' /\ PlanInv'
    BY <1>0, <2>1, PlanKept, ProbeKept DEF Planned
  <2>3. SentInv'
    <3>1. \A k \in 1..Len(xorbs) : k < next + 1 => k < next \/ k = next
      BY <1>0
    <3> QED
      BY <2>1, <3>1 DEF SentInv
  <2> QED
    BY <2>1, <2>2, <2>3 DEF RefusedOnlyIfCollected
<1>5. ASSUME NEW k \in posting, Posted(k) PROVE UploadInv'
  <2>1. /\ UNCHANGED <<chunks, placement, covered, xorbs, terms, next, collected>>
        /\ phase = "upload" /\ phase' = phase
        /\ posting' = posting \ {k} /\ stored' = stored \cup {xorbs[k]}
    BY <1>5 DEF Posted, session
  <2>2. ProbeInv' /\ PlanInv'
    BY <1>0, <2>1, PlanKept, ProbeKept DEF Planned
  <2>3. SentInv'
    BY <2>1 DEF SentInv
  <2> QED
    BY <2>1, <2>2, <2>3 DEF RefusedOnlyIfCollected
<1>6. CASE SendShard
  <2>1. /\ UNCHANGED <<chunks, placement, covered, xorbs, terms, next, posting,
                       stored, collected>>
        /\ phase = "upload" /\ phase' = "register" /\ next > Len(xorbs) /\ posting = {}
    BY <1>6 DEF SendShard, AllPosted, session, plan, server
  <2>2. ProbeInv' /\ PlanInv'
    BY <1>0, <2>1, PlanKept, ProbeKept DEF Planned
  <2> QED
    BY <2>1, <2>2 DEF SentInv, RefusedOnlyIfCollected
<1>7. CASE Registered
  <2>1. /\ UNCHANGED <<chunks, placement, covered, xorbs, terms, next, posting,
                       stored, collected>>
        /\ phase = "register" /\ phase' = "done"
    BY <1>7 DEF Registered, session, plan, server
  <2>2. ProbeInv' /\ PlanInv'
    BY <1>0, <2>1, PlanKept, ProbeKept DEF Planned
  <2> QED
    BY <2>1, <2>2 DEF SentInv, RefusedOnlyIfCollected
<1>8. CASE Refused
  <2>1. /\ UNCHANGED <<chunks, placement, covered, xorbs, terms, next, posting,
                       stored, collected>>
        /\ phase = "register" /\ phase' = "refused"
    BY <1>8 DEF Refused, session, plan, server
  <2>2. ProbeInv' /\ PlanInv'
    BY <1>0, <2>1, PlanKept, ProbeKept DEF Planned
  <2>3. PICK t \in ToSet(terms) : t.xorb \notin stored
    BY <1>8 DEF Refused
  <2>4. t.xorb \in Known \cup ToSet(xorbs)
    BY <2>1 DEF PlanInv, TermsBacked, Planned
  <2>5. t.xorb \in collected
    <3>1. CASE t.xorb \in Known
      BY <2>3, <3>1 DEF SentInv
    <3>2. CASE t.xorb \in ToSet(xorbs)
      <4>1. PICK k \in 1..Len(xorbs) : t.xorb = xorbs[k]
        BY <1>0, <3>2, SMTT(30) DEF ToSet
      <4>2. k < next /\ posting = {}
        BY <1>0, <2>1 DEF SentInv
      <4> QED
        BY <2>3, <4>1, <4>2 DEF SentInv
    <3> QED
      BY <2>4, <3>1, <3>2
  <2> QED
    BY <2>1, <2>2, <2>5 DEF SentInv, RefusedOnlyIfCollected
<1>9. ASSUME phase' = "failed", UNCHANGED <<chunks, session, plan, server>>
      PROVE  UploadInv'
  <2>1. UNCHANGED <<chunks, placement, covered, xorbs, terms, next, posting,
                    stored, collected>>
    BY <1>9 DEF session, plan, server
  <2>2. ProbeInv' /\ PlanInv'
    BY <1>0, <1>9, <2>1, PlanKept, ProbeKept DEF Planned
  <2> QED
    BY <1>9, <2>1, <2>2 DEF SentInv, RefusedOnlyIfCollected
<1>10. ASSUME NEW x \in stored, Collect(x) PROVE UploadInv'
  <2>1. /\ UNCHANGED <<chunks, placement, covered, xorbs, terms, next, posting, phase>>
        /\ stored' = stored \ {x} /\ collected' = collected \cup {x}
        /\ phase # "refused"
    BY <1>10 DEF Collect, session, plan
  <2>2. ProbeInv' /\ PlanInv'
    BY <1>0, <2>1, PlanKept, ProbeKept DEF Planned
  <2> QED
    BY <2>1, <2>2 DEF SentInv, RefusedOnlyIfCollected
<1>11. CASE UNCHANGED vars
  <2>1. UNCHANGED <<chunks, placement, covered, xorbs, terms, next, posting,
                  stored, collected, phase>>
    BY <1>11 DEF vars, session, plan, server
  <2> QED
    BY <1>0, <2>1, PlanKept, ProbeKept DEF SentInv, RefusedOnlyIfCollected, Planned
<1> QED
  BY <1>1, <1>2, <1>3, <1>4, <1>5, <1>6, <1>7, <1>8, <1>9, <1>10, <1>11
     DEF Next, Progress, ProbeFails, PostFails

(* build_plan: the shard's terms, read off the xorbs they name, are the     *)
(* file's chunks in order, and none continues the one before it.            *)
THEOREM PlanRight == Spec => []PlanSpellsFile
<1>1. UploadInv => PlanSpellsFile
  BY DEF UploadInv, PlanInv
<1> QED
  BY <1>1, UploadStarts, UploadSteps, PTL DEF Spec

(* build_plan: a new xorb is cut before it outgrows the format.             *)
THEOREM XorbsCutInTime == Spec => []XorbsWithinLimits
<1>1. UploadInv => XorbsWithinLimits
  BY DEF UploadInv, PlanInv
<1> QED
  BY <1>1, UploadStarts, UploadSteps, PTL DEF Spec

(* apply_dedup_shard: no chunk that an answer covers is sent.               *)
THEOREM KnownStaysHome == Spec => []KnownChunksNotSent
<1>1. UploadInv => KnownChunksNotSent
  BY DEF UploadInv, PlanInv
<1> QED
  BY <1>1, UploadStarts, UploadSteps, PTL DEF Spec

(* uploadFile: the shard goes out after the xorbs, so that registration is  *)
(* refused only for a xorb the server has collected since.                  *)
THEOREM ShardIsLast == Spec => []RefusedOnlyIfCollected
<1>1. UploadInv => RefusedOnlyIfCollected
  BY DEF UploadInv
<1> QED
  BY <1>1, UploadStarts, UploadSteps, PTL DEF Spec
=============================================================================
