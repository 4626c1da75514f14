------------------------- MODULE XetFileSystemProofs -------------------------
(***************************************************************************)
(* What XetFileSystem promises, for any files, any bounds of a read and    *)
(* any number of calls that write at once.                                 *)
(***************************************************************************)
EXTENDS XetFileSystem, TLAPS

Bound == Int \cup {NoBound}

WriterStates ==
    [pc : {"idle"}]
      \cup [pc : {"upload"}, data : Data]
      \cup [pc : {"stat"}, op : {"put"}, data : Data]
      \cup [pc : {"stat"}, op : {"rm"}, data : {<<>>}]
      \cup [pc : {"commit"}, op : {"put"}, data : Data, sha : {Missing} \cup Versions]
      \cup [pc : {"commit"}, op : {"rm"}, data : {<<>>}, sha : Versions]

ReaderStates ==
    [pc : {"stat", "blob", "read", "done", "failed"}, as : {"cat", "open"},
     version : {Missing} \cup Versions, start : Bound, end : Bound, got : Seq(Byte)]

TypeOK ==
    /\ forge \in {Missing} \cup Versions
    /\ registered \subseteq Data \ {<<>>}
    /\ lost \subseteq Data \ {<<>>}
    /\ writer \in [Writers -> WriterStates]
    /\ reader = Idle \/ reader \in ReaderStates
    /\ held \subseteq {Missing} \cup Versions

(* Files that were in the CAS at some time. *)
Seen == registered \cup lost

(* The empty file is never in the CAS, but pointers to it may be about. *)
Resolves(version) == version.kind = "cas" => version.bytes \in Seen \cup {<<>>}

(* What a call is about to commit is in the CAS. *)
Sent(w) == writer[w].pc \in {"stat", "commit"} /\ writer[w].op = "put"
             => writer[w].data \in Seen \cup {<<>>}

PointersInv ==
    /\ TypeOK
    /\ forge # Missing => Resolves(forge)
    /\ \A w \in Writers : Sent(w)

(* What a read has resolved was at the path since it began. *)
ReadInv ==
    reader.pc # "idle" =>
        /\ reader.pc \in {"stat", "blob"} => reader.version = Missing
        /\ reader.pc \in {"read", "done"} => reader.version # Missing
        /\ reader.version # Missing => reader.version \in held /\ Resolves(reader.version)
        /\ reader.pc = "done" =>
              reader.got = Slice(reader.version.bytes, reader.start, reader.end)
        /\ ReadFailsForCause

-----------------------------------------------------------------------------
(* Slices.                                                                   *)

LEMMA LenType == ASSUME NEW d \in Seq(Byte) PROVE Len(d) \in Nat
  OBVIOUS

LEMMA SliceType ==
    ASSUME NEW d \in Seq(Byte), NEW start \in Bound, NEW end \in Bound
    PROVE  /\ Lower(start, d) \in 0..Len(d)
           /\ Upper(end, d) \in 0..Len(d)
           /\ Slice(d, start, end) \in Seq(Byte)
<1>1. Lower(start, d) \in 0..Len(d)
  BY BoundsAssumption DEF Bound, Lower, Clipped, FromEnd
<1>2. Upper(end, d) \in 0..Len(d)
  BY BoundsAssumption DEF Bound, Upper, Clipped, FromEnd
<1>3. \A m \in 1..Len(d)+1, n \in 0..Len(d) : SubSeq(d, m, n) \in Seq(Byte)
  OBVIOUS
<1> QED
  BY <1>1, <1>2, <1>3 DEF Slice

(* Without bounds, all of it. *)
LEMMA SliceOfAll ==
    ASSUME NEW d \in Seq(Byte)
    PROVE  Slice(d, NoBound, NoBound) = d
<1>1. SubSeq(d, 1, Len(d)) = d
  OBVIOUS
<1> QED
  BY <1>1 DEF Slice, Lower, Upper

(* Where the range that is asked for is empty, so is the slice. *)
LEMMA SliceOfNothing ==
    ASSUME NEW d \in Seq(Byte), NEW start \in Bound, NEW end \in Bound,
           EmptyRange(AbsStart(start, Len(d)), AbsEnd(end, Len(d)))
    PROVE  Slice(d, start, end) = <<>>
<1>1. Upper(end, d) <= Lower(start, d)
  BY BoundsAssumption
     DEF Bound, EmptyRange, AbsStart, AbsEnd, Lower, Upper, Clipped, FromEnd
<1>2. \A m, n \in Nat : n <= m => SubSeq(d, m + 1, n) = <<>>
  OBVIOUS
<1> QED
  BY <1>1, <1>2, SliceType DEF Slice

(* What the server sends for the range is the slice; it refuses only one    *)
(* that begins before the file does.                                        *)
LEMMA SliceOfRange ==
    ASSUME NEW d \in Seq(Byte), NEW start \in Bound, NEW end \in Bound,
           ~EmptyRange(AbsStart(start, Len(d)), AbsEnd(end, Len(d)))
    PROVE  LET first == AbsStart(start, Len(d))
               last == AbsEnd(end, Len(d)) - 1
           IN  /\ RangeOk(d, first, last) => RangeOf(d, first, last) = Slice(d, start, end)
               /\ ~RangeOk(d, first, last) => start # NoBound /\ start + Len(d) < 0
<1> DEFINE first == AbsStart(start, Len(d))
           beyond == AbsEnd(end, Len(d))
<1>1. /\ first \in Int /\ beyond \in Int /\ first < beyond /\ beyond <= Len(d)
      /\ first >= 0 => Lower(start, d) = first /\ Upper(end, d) = beyond
      /\ first < 0 => start # NoBound /\ start + Len(d) < 0
  BY BoundsAssumption
     DEF Bound, EmptyRange, AbsStart, AbsEnd, Lower, Upper, Clipped, FromEnd
<1> HIDE DEF first, beyond
<1>2. /\ RangeOk(d, first, beyond - 1) <=> first >= 0
      /\ RangeOf(d, first, beyond - 1) = SubSeq(d, first + 1, beyond)
  <2>1. Len(d) \in Nat
    OBVIOUS
  <2>2. beyond - 1 < Len(d) /\ beyond - 1 + 1 = beyond
    BY <1>1, <2>1
  <2> QED
    BY <1>1, <2>1, <2>2 DEF RangeOk, RangeOf
<1>3. /\ RangeOk(d, first, beyond - 1) => RangeOf(d, first, beyond - 1) = Slice(d, start, end)
      /\ ~RangeOk(d, first, beyond - 1) => start # NoBound /\ start + Len(d) < 0
  BY <1>1, <1>2 DEF Slice
<1> QED
  BY <1>3 DEF first, beyond

LEMMA VersionFacts ==
    ASSUME NEW v \in Versions
    PROVE  /\ v.kind \in {"raw", "cas"}
           /\ v.bytes \in Data
           /\ v.bytes \in Seq(Byte)
           /\ v.kind = "cas" => v = Pointer(v.bytes)
           /\ v # Missing
  BY DataAssumption, MissingAssumption DEF Versions, Raw, Pointer

LEMMA NewVersions ==
    /\ \A d \in Data : Raw(d) \in Versions /\ Raw(d).kind = "raw"
    /\ \A d \in Data :
          Pointer(d) \in Versions /\ Pointer(d).kind = "cas" /\ Pointer(d).bytes = d
  BY DEF Versions, Raw, Pointer

(* What a read of part of a version should get. *)
Good(v, start, end, answer) ==
    \/ answer = Answer(Slice(v.bytes, start, end))
    \/ /\ answer = Failed
       /\ \/ v.bytes \in lost
          \/ v = Pointer(<<>>)
          \/ start # NoBound /\ start + Len(v.bytes) < 0

LEMMA AnswerFacts ==
    ASSUME TypeOK, NEW v \in Versions, Resolves(v), NEW start \in Bound, NEW end \in Bound
    PROVE  LET d      == v.bytes
               first  == AbsStart(start, Len(d))
               beyond == AbsEnd(end, Len(d))
           IN  /\ Slice(d, start, end) \in Seq(Byte)
               /\ EmptyRange(first, beyond) => Good(v, start, end, Answer(<<>>))
               /\ (v.kind = "cas" /\ ~EmptyRange(first, beyond))
                     => Good(v, start, end, Download(d, first, beyond - 1))
               /\ (v.kind = "cas" /\ start = NoBound /\ end = NoBound)
                     => Good(v, start, end, IF d \in registered THEN Answer(d) ELSE Failed)
<1> DEFINE d == v.bytes
<1>1. d \in Seq(Byte)
  BY VersionFacts
<1>2. v.kind = "cas" => d \in registered \/ d \in lost \/ v = Pointer(<<>>)
  BY VersionFacts DEF Resolves, Seen
<1> HIDE DEF d
<1>3. Slice(d, start, end) \in Seq(Byte)
  BY <1>1, SliceType
<1>4. EmptyRange(AbsStart(start, Len(d)), AbsEnd(end, Len(d))) => Slice(d, start, end) = <<>>
  BY <1>1, SliceOfNothing
<1>5. ASSUME v.kind = "cas", ~EmptyRange(AbsStart(start, Len(d)), AbsEnd(end, Len(d)))
      PROVE  LET answer == Download(d, AbsStart(start, Len(d)), AbsEnd(end, Len(d)) - 1)
             IN  \/ answer = Answer(Slice(d, start, end))
                 \/ /\ answer = Failed
                    /\ \/ d \in lost
                       \/ v = Pointer(<<>>)
                       \/ start # NoBound /\ start + Len(d) < 0
  BY <1>1, <1>2, <1>5, SliceOfRange DEF Download
<1>6. Slice(d, NoBound, NoBound) = d
  BY <1>1, SliceOfAll
<1> QED
  BY <1>2, <1>3, <1>4, <1>5, <1>6 DEF d, Good

-----------------------------------------------------------------------------
(* A step that answers: the end of a call, or a read of an open handle. *)
AnswerStep ==
    /\ reader.pc = "read"
    /\ \E start, end \in Bound, answer \in {Failed} \cup {Answer(d) : d \in Seq(Byte)} :
          /\ Good(reader.version, start, end, answer)
          /\ reader' = Answered(answer, start, end)

LEMMA Answers ==
    ASSUME TypeOK, ReadInv,
           (\E start, end \in Bounds : Cat(start, end))
              \/ (\E first, end \in Nat \cap Bounds : FetchRange(first, end))
    PROVE  AnswerStep
<1>1. ASSUME NEW v \in Versions, v = reader.version, reader.pc = "read", Resolves(v),
             NEW start \in Bound, NEW end \in Bound, NEW answer,
             reader' = Answered(answer, start, end),
             Good(v, start, end, answer)
      PROVE  AnswerStep
  <2>1. Slice(v.bytes, start, end) \in Seq(Byte)
    BY <1>1, AnswerFacts
  <2> QED
    BY <1>1, <2>1 DEF AnswerStep, Good
<1>2. ASSUME reader.pc = "read"
      PROVE  reader.version \in Versions /\ Resolves(reader.version)
  BY <1>2, MissingAssumption DEF TypeOK, ReadInv, ReaderStates, Idle
<1>3. ASSUME NEW start \in Bounds, NEW end \in Bounds, Cat(start, end)
      PROVE  AnswerStep
  <2> DEFINE v == reader.version
             d == v.bytes
             answer ==
               IF v.kind = "raw" THEN Answer(Slice(d, start, end))
               ELSE IF start = NoBound /\ end = NoBound
                      THEN IF d \in registered THEN Answer(d) ELSE Failed
               ELSE IF EmptyRange(AbsStart(start, Len(d)), AbsEnd(end, Len(d)))
                      THEN Answer(<<>>)
               ELSE Download(d, AbsStart(start, Len(d)), AbsEnd(end, Len(d)) - 1)
  <2>1. reader.pc = "read" /\ reader' = Answered(answer, start, end)
    BY <1>3 DEF Cat
  <2>2. v \in Versions /\ Resolves(v) /\ start \in Bound /\ end \in Bound
    BY <1>2, <2>1, BoundsAssumption DEF Bound
  <2>3. v.kind \in {"raw", "cas"}
    BY <2>2, VersionFacts
  <2>4. Good(v, start, end, answer)
    BY <2>2, <2>3, AnswerFacts DEF Good
  <2> HIDE DEF answer
  <2> QED
    BY <1>1, <2>1, <2>2, <2>4
<1>4. ASSUME NEW first \in Nat \cap Bounds, NEW end \in Nat \cap Bounds, FetchRange(first, end)
      PROVE  AnswerStep
  <2> DEFINE v == reader.version
             d == v.bytes
             answer ==
               IF v.kind = "raw" THEN Answer(Slice(d, first, end))
               ELSE IF EmptyRange(first, end) THEN Answer(<<>>)
               ELSE Download(d, first, end - 1)
  <2>1. /\ reader.pc = "read" /\ reader' = Answered(answer, first, end)
        /\ end <= Len(d)
    BY <1>4 DEF FetchRange, Source
  <2>2. v \in Versions /\ Resolves(v) /\ first \in Bound /\ end \in Bound
    BY <1>2, <2>1 DEF Bound
  <2>3. v.kind \in {"raw", "cas"} /\ d \in Seq(Byte)
    BY <2>2, VersionFacts
  <2>4. AbsStart(first, Len(d)) = first /\ AbsEnd(end, Len(d)) = end
    <3>1. Len(d) \in Nat
      BY <2>3
    <3> HIDE DEF d
    <3> QED
      BY <2>1, <3>1, BoundsAssumption DEF AbsStart, AbsEnd
  <2>5. Good(v, first, end, answer)
    <3>1. EmptyRange(first, end) => Good(v, first, end, Answer(<<>>))
      BY <2>2, <2>4, AnswerFacts
    <3>2. ~EmptyRange(first, end) /\ v.kind = "cas"
             => Good(v, first, end, Download(d, first, end - 1))
      BY <2>2, <2>4, AnswerFacts
    <3>3. v.kind = "raw" => Good(v, first, end, Answer(Slice(d, first, end)))
      BY <2>2, AnswerFacts DEF Good
    <3> QED
      BY <2>3, <3>1, <3>2, <3>3
  <2> HIDE DEF answer
  <2> QED
    BY <1>1, <2>1, <2>2, <2>5
<1> QED
  BY <1>3, <1>4

-----------------------------------------------------------------------------
(* Types.                                                                    *)

LEMMA ReaderTypes ==
    ASSUME TypeOK, ReadInv, Read
    PROVE  reader' = Idle \/ reader' \in ReaderStates
<1>0. /\ reader.pc # "idle" => reader \in ReaderStates
      /\ <<>> \in Seq(Byte)
  BY DEF TypeOK, Idle
<1>1. CASE \E as \in {"cat", "open"} : Begin(as)
  <2>1. PICK as \in {"cat", "open"} : Begin(as)
    BY <1>1
  <2>2. NoBound \in Bound /\ Missing \in {Missing} \cup Versions
    BY DEF Bound
  <2> QED
    BY <1>0, <2>1, <2>2 DEF Begin, ReaderStates
<1>2. CASE ReadStat \/ ReadBlob
  <2>1. \/ reader' = [reader EXCEPT !.pc = "failed"]
        \/ reader' = [reader EXCEPT !.pc = "blob"]
        \/ forge \in Versions /\ reader' = [reader EXCEPT !.pc = "read", !.version = forge]
    BY <1>2 DEF ReadStat, ReadBlob, NotFound, Resolved, TypeOK
  <2>2. reader \in ReaderStates
    BY <1>0, <1>2 DEF ReadStat, ReadBlob
  <2> QED
    BY <2>1, <2>2 DEF ReaderStates
<1>3. CASE AnswerStep
  <2>1. PICK start \in Bound, end \in Bound, answer \in {Failed} \cup {Answer(d) : d \in Seq(Byte)} :
           reader' = Answered(answer, start, end)
    BY <1>3 DEF AnswerStep
  <2>2. answer.pc \in {"done", "failed"} /\ answer.got \in Seq(Byte)
    <3>1. CASE answer = Failed
      BY <1>0, <3>1 DEF Failed
    <3>2. ASSUME NEW d \in Seq(Byte), answer = Answer(d)
          PROVE  answer.pc \in {"done", "failed"} /\ answer.got \in Seq(Byte)
      BY <3>2 DEF Answer
    <3> QED
      BY <3>1, <3>2
  <2>3. reader \in ReaderStates
    BY <1>0, <1>3 DEF AnswerStep
  <2> QED
    BY <2>1, <2>2, <2>3 DEF Answered, ReaderStates
<1>4. CASE ReadOn
  <2>1. reader \in ReaderStates
    BY <1>0, <1>4 DEF ReadOn
  <2> QED
    BY <1>0, <1>4, <2>1 DEF ReadOn, ReaderStates, Bound
<1>5. CASE Close
  BY <1>5 DEF Close
<1> QED
  BY <1>1, <1>2, <1>3, <1>4, <1>5, Answers DEF Read

LEMMA WriterTypes ==
    ASSUME TypeOK, NEW w \in Writers, Write(w)
    PROVE  /\ writer' \in [Writers -> WriterStates]
           /\ forge' \in {Missing} \cup Versions
           /\ registered' \subseteq Data \ {<<>>}
<1>0. writer[w] \in WriterStates /\ writer \in [Writers -> WriterStates]
  BY DEF TypeOK
<1>1. ASSUME NEW st \in WriterStates, writer' = [writer EXCEPT ![w] = st]
      PROVE  writer' \in [Writers -> WriterStates]
  BY <1>0, <1>1
<1> HIDE DEF WriterStates
<1>2. CASE BeginPipe(w) /\ UNCHANGED forge
  <2>1. \A d \in Data : [pc |-> "upload", data |-> d] \in WriterStates
    BY DEF WriterStates
  <2> QED
    BY <1>1, <1>2, <2>1 DEF BeginPipe, TypeOK
<1>3. CASE Upload(w) /\ UNCHANGED forge
  <2>1. writer[w].data \in Data
    BY <1>0, <1>3 DEF WriterStates, Upload, At
  <2>2. [pc |-> "stat", op |-> "put", data |-> writer[w].data] \in WriterStates
    BY <2>1 DEF WriterStates
  <2> QED
    BY <1>1, <1>3, <2>1, <2>2 DEF Upload, TypeOK
<1>4. CASE BeginRm(w) /\ UNCHANGED forge
  <2>1. [pc |-> "stat", op |-> "rm", data |-> <<>>] \in WriterStates
    BY DEF WriterStates
  <2> QED
    BY <1>1, <1>4, <2>1 DEF BeginRm, TypeOK
<1>5. CASE Stat(w)
  <2>1. (writer[w].op = "rm" /\ forge = Missing)
          \/ [pc |-> "commit", op |-> writer[w].op, data |-> writer[w].data,
              sha |-> forge] \in WriterStates
    BY <1>0, <1>5 DEF WriterStates, Stat, At, TypeOK
  <2>2. Idle \in WriterStates
    BY DEF Idle, WriterStates
  <2> QED
    BY <1>1, <1>5, <2>1, <2>2 DEF Stat, TypeOK
<1>6. CASE Commit(w)
  <2>1. writer[w].op = "put" => writer[w].data \in Data
    BY <1>0, <1>6 DEF WriterStates, Commit, At
  <2>2. Idle \in WriterStates
    BY DEF Idle, WriterStates
  <2> QED
    BY <1>1, <1>6, <2>1, <2>2, NewVersions DEF Commit, TypeOK
<1>7. CASE WriteFails(w)
  <2>2. Idle \in WriterStates
    BY DEF Idle, WriterStates
  <2> QED
    BY <1>1, <1>7, <2>2 DEF WriteFails, TypeOK
<1> QED
  BY <1>2, <1>3, <1>4, <1>5, <1>6, <1>7 DEF Write

LEMMA TypesStep ==
    ASSUME TypeOK, ReadInv, [Next]_vars
    PROVE  TypeOK'
<1>1. held' \subseteq {Missing} \cup Versions
  BY DEF TypeOK, Next, Observe, vars
<1>2. CASE Read
  BY <1>1, <1>2, ReaderTypes DEF TypeOK, Read
<1>3. CASE Push
  <2>1. forge' \in {Missing} \cup Versions
    BY <1>3, NewVersions DEF Push, TypeOK
  <2> QED
    BY <1>1, <1>3, <2>1 DEF Push, TypeOK
<1>4. CASE DeleteFile
  BY <1>1, <1>4 DEF DeleteFile, TypeOK
<1>5. CASE \E w \in Writers : Write(w)
  BY <1>1, <1>5, WriterTypes DEF TypeOK, Write
<1>6. CASE UNCHANGED vars
  BY <1>6 DEF vars, TypeOK
<1> QED
  BY <1>2, <1>3, <1>4, <1>5, <1>6 DEF Next

-----------------------------------------------------------------------------
(* Pointers.                                                                 *)

(* What was ever in the CAS stays known: a deletion only moves it. *)
LEMMA SeenGrows == ASSUME [Next]_vars PROVE Seen \subseteq Seen'
  BY DEF Next, vars, Seen, Read, Push, DeleteFile, Write, BeginPipe, Upload, BeginRm,
         Stat, Commit, WriteFails

LEMMA SentStep ==
    ASSUME TypeOK, NEW w \in Writers, NEW u \in Writers, Sent(u), Write(w)
    PROVE  Sent(u)'
<1>0. Seen \subseteq Seen' /\ writer \in [Writers -> WriterStates]
  BY DEF TypeOK, Seen, Write, BeginPipe, Upload, BeginRm, Stat, Commit, WriteFails
<1>1. CASE u # w
  <2>1. writer'[u] = writer[u]
    BY <1>0, <1>1
       DEF Write, BeginPipe, Upload, BeginRm, Stat, Commit, WriteFails
  <2> QED
    BY <1>0, <2>1 DEF Sent
<1>2. CASE u = w
  <2>1. CASE BeginPipe(w) \/ BeginRm(w) \/ Commit(w) \/ WriteFails(w)
    <3>1. writer'[w].pc \in {"upload", "idle"} \/ writer'[w].op = "rm"
      BY <1>0, <2>1 DEF BeginPipe, BeginRm, Commit, WriteFails, Idle
    <3> QED
      BY <1>2, <3>1 DEF Sent
  <2>2. CASE Upload(w)
    <3>1. writer'[w].data = writer[w].data /\ writer[w].data \in registered' \cup {<<>>}
      BY <1>0, <2>2 DEF Upload
    <3> QED
      BY <1>2, <3>1 DEF Sent, Seen
  <2>3. CASE Stat(w)
    <3>1. \/ writer'[w].pc = "idle"
          \/ writer'[w].op = writer[w].op /\ writer'[w].data = writer[w].data
      BY <1>0, <2>3 DEF Stat, Idle
    <3>2. writer[w].pc = "stat"
      BY <2>3 DEF Stat, At
    <3> QED
      BY <1>0, <1>2, <3>1, <3>2 DEF Sent
  <2> QED
    BY <2>1, <2>2, <2>3 DEF Write
<1> QED
  BY <1>1, <1>2

LEMMA PointersStep ==
    ASSUME PointersInv, TypeOK', [Next]_vars
    PROVE  PointersInv'
<1>0. TypeOK /\ Seen \subseteq Seen'
  BY SeenGrows DEF PointersInv
<1>1. ASSUME NEW w \in Writers PROVE Sent(w)'
  <2>1. Sent(w)
    BY DEF PointersInv
  <2>2. CASE UNCHANGED writer
    BY <1>0, <2>1, <2>2 DEF Sent
  <2>3. CASE \E v \in Writers : Write(v)
    BY <1>0, <2>1, <2>3, SentStep
  <2> QED
    BY <2>2, <2>3 DEF Next, vars, Read, Push, DeleteFile
<1>2. ASSUME forge' # Missing PROVE Resolves(forge)'
  <2>1. CASE UNCHANGED forge
    BY <1>0, <1>2, <2>1 DEF PointersInv, Resolves
  <2>2. CASE Push
    <3>1. (\E d \in Data : forge' = Raw(d)) \/ (\E d \in registered : forge' = Pointer(d))
      BY <1>2, <2>2 DEF Push
    <3> QED
      BY <1>0, <3>1 DEF Resolves, Raw, Pointer, Seen
  <2>3. ASSUME NEW w \in Writers, Commit(w) PROVE Resolves(forge)'
    <3>1. forge' = Pointer(writer[w].data) /\ writer[w].data \in Seen \cup {<<>>}
      BY <1>2, <2>3 DEF Commit, At, PointersInv, Sent
    <3> QED
      BY <1>0, <3>1 DEF Resolves, Pointer
  <2> QED
    BY <2>1, <2>2, <2>3 DEF Next, vars, Read, DeleteFile, Write, Stat, WriteFails
<1> QED
  BY <1>1, <1>2 DEF PointersInv

-----------------------------------------------------------------------------
(* Reads.                                                                    *)

LEMMA ReadStep ==
    ASSUME PointersInv, ReadInv, TypeOK', [Next]_vars
    PROVE  ReadInv'
<1>0. /\ TypeOK
      /\ \A v : Resolves(v) => Resolves(v)'
      /\ reader.pc # "idle" => reader \in ReaderStates
      /\ lost \subseteq lost'
  <2>1. lost \subseteq lost'
    BY DEF Next, vars, Read, Push, DeleteFile, Write
  <2>2. reader = Idle => reader.pc = "idle"
    BY DEF Idle
  <2> QED
    BY <2>1, <2>2, SeenGrows DEF PointersInv, TypeOK, Resolves
(* What others do: a read under way goes on, and may see more. *)
<1>1. CASE UNCHANGED reader
  <2>1. held \subseteq held' \/ reader.pc = "idle"
    BY <1>1 DEF Next, vars, Observe
  <2> QED
    BY <1>0, <1>1, <2>1 DEF ReadInv, ReadFailsForCause
<1> SUFFICES ASSUME Read, Observe
             PROVE  ReadInv'
  BY <1>1 DEF Next, vars, Push, DeleteFile, Write
<1>2. CASE \E as \in {"cat", "open"} : Begin(as)
  BY <1>2 DEF Begin, ReadInv, ReadFailsForCause
<1>3. CASE ReadStat \/ ReadBlob
  <2>1. /\ reader.pc \in {"stat", "blob"} /\ reader \in ReaderStates
        /\ reader.version = Missing
    BY <1>0, <1>3 DEF ReadStat, ReadBlob, ReadInv
  <2>2. \/ forge = Missing /\ reader' = [reader EXCEPT !.pc = "failed"]
        \/ reader' = [reader EXCEPT !.pc = "blob"]
        \/ forge # Missing /\ reader' = [reader EXCEPT !.pc = "read", !.version = forge]
    BY <1>3 DEF ReadStat, ReadBlob, NotFound, Resolved
  <2>3. reader'.pc # "idle"
    BY <2>1, <2>2 DEF ReaderStates
  <2>4. forge \in held'
    BY <2>1, <2>3 DEF Observe
  <2>5. forge # Missing /\ forge.kind = "cas" => forge.bytes \in Seen' \cup {<<>>}
    BY SeenGrows DEF PointersInv, Resolves
  <2>6. CASE forge = Missing /\ reader' = [reader EXCEPT !.pc = "failed"]
    BY <2>1, <2>4, <2>6 DEF ReaderStates, ReadInv, ReadFailsForCause
  <2>7. CASE reader' = [reader EXCEPT !.pc = "blob"]
    BY <2>1, <2>7 DEF ReaderStates, ReadInv, ReadFailsForCause
  <2>8. CASE forge # Missing /\ reader' = [reader EXCEPT !.pc = "read", !.version = forge]
    <3>1. reader'.pc = "read" /\ reader'.version = forge
      BY <2>1, <2>8 DEF ReaderStates
    <3> QED
      BY <2>4, <2>5, <2>8, <3>1 DEF ReadInv, ReadFailsForCause, Resolves
  <2> QED
    BY <2>2, <2>6, <2>7, <2>8
<1>4. CASE AnswerStep
  <2>1. PICK start \in Bound, end \in Bound, answer \in {Failed} \cup {Answer(d) : d \in Seq(Byte)} :
           Good(reader.version, start, end, answer) /\ reader' = Answered(answer, start, end)
    BY <1>4 DEF AnswerStep
  <2>2. reader.pc = "read" /\ reader \in ReaderStates /\ reader.version # Missing
    BY <1>0, <1>4 DEF AnswerStep, ReadInv
  <2>3. /\ reader'.pc = answer.pc /\ reader'.got = answer.got
        /\ reader'.start = start /\ reader'.end = end
        /\ reader'.version = reader.version
    BY <2>1, <2>2 DEF Answered, ReaderStates
  <2>4. reader.version \in held' /\ Resolves(reader.version)'
    <3>1. answer.pc # "idle"
      BY <2>1 DEF Failed, Answer
    <3> QED
      BY <1>0, <2>2, <2>3, <3>1 DEF Observe, ReadInv
  <2>5. CASE answer = Answer(Slice(reader.version.bytes, start, end))
    BY <2>2, <2>3, <2>4, <2>5 DEF Answer, ReadInv, ReadFailsForCause
  <2>6. CASE /\ answer = Failed
             /\ \/ reader.version.bytes \in lost
                \/ reader.version = Pointer(<<>>)
                \/ start # NoBound /\ start + Len(reader.version.bytes) < 0
    BY <1>0, <2>2, <2>3, <2>4, <2>6 DEF Failed, ReadInv, ReadFailsForCause
  <2> QED
    BY <2>1, <2>5, <2>6 DEF Good
<1>5. CASE ReadOn
  <2>1. /\ reader \in ReaderStates /\ reader.version # Missing
        /\ reader.pc \in {"done", "failed"}
    BY <1>0, <1>5 DEF ReadOn
  <2>2. reader'.pc = "read" /\ reader'.version = reader.version
    BY <1>5, <2>1 DEF ReadOn, ReaderStates
  <2> QED
    BY <1>0, <2>1, <2>2 DEF Observe, ReadInv, ReadFailsForCause
<1>6. CASE Close
  BY <1>6 DEF Close, Idle, ReadInv
<1> QED
  BY <1>0, <1>2, <1>3, <1>4, <1>5, <1>6, Answers DEF Read

-----------------------------------------------------------------------------
(* Both invariants are inductive together: a read that has resolved a path  *)
(* to a pointer may only fail because the file was deleted, which rests on  *)
(* pointers to what is in the CAS being all there are.                      *)
LEMMA PathCorrect == Spec => [](PointersInv /\ ReadInv)
<1>1. Init => PointersInv /\ ReadInv
  <2>1. ASSUME Init PROVE TypeOK
    BY <2>1, NewVersions DEF Init, TypeOK, WriterStates, Idle
  <2>2. ASSUME Init PROVE forge # Missing => Resolves(forge)
    BY <2>2 DEF Init, Resolves, Raw
  <2>3. ASSUME Init, NEW w \in Writers PROVE Sent(w)
    BY <2>3 DEF Init, Sent, Idle
  <2>4. ASSUME Init PROVE ReadInv
    BY <2>4 DEF Init, ReadInv, Idle
  <2> QED
    BY <2>1, <2>2, <2>3, <2>4 DEF PointersInv
<1>2. PointersInv /\ ReadInv /\ [Next]_vars => (PointersInv /\ ReadInv)'
  <2> SUFFICES ASSUME PointersInv, ReadInv, [Next]_vars
               PROVE  (PointersInv /\ ReadInv)'
    OBVIOUS
  <2>1. TypeOK'
    BY TypesStep DEF PointersInv
  <2> QED
    BY <2>1, PointersStep, ReadStep
<1> QED
  BY <1>1, <1>2, PTL DEF Spec

(* But for the empty file, a path of the forge never points at a file that  *)
(* was not in the CAS, however many calls write at once, fail or repeat.    *)
THEOREM PathsResolve == Spec => []PointersResolve
<1>1. PointersInv => PointersResolve
  BY DEF PointersInv, PointersResolve, Resolves, Seen
<1> QED
  BY <1>1, PathCorrect, PTL

(* A read, of whatever bounds, returns that part of one version that was at *)
(* the path since it began; an open handle keeps to its version.            *)
THEOREM OneVersionIsRead == Spec => []ReadsOneVersion
<1>1. ReadInv => ReadsOneVersion
  BY DEF ReadInv, ReadsOneVersion
<1> QED
  BY <1>1, PathCorrect, PTL

(* A read fails only where the path was missing or points at the empty      *)
(* file, the file was deleted, or the range began before the file.          *)
THEOREM FailuresHaveCause == Spec => []ReadFailsForCause
<1>1. ReadInv => ReadFailsForCause
  BY DEF ReadInv, ReadFailsForCause
<1> QED
  BY <1>1, PathCorrect, PTL
=============================================================================
