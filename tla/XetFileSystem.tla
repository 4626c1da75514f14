---------------------------- MODULE XetFileSystem ----------------------------
(***************************************************************************)
(* The Python file system (openxet_fsspec): a path of a git forge holds    *)
(* either bytes or a pointer, the hash and size of a file of the CAS.      *)
(* Writes upload to the CAS and then commit a pointer through the forge's  *)
(* contents API; reads resolve the path and then download from the CAS.    *)
(* Each request is one step, and other people push to the same path, and   *)
(* delete files of the CAS, between any two of them.                       *)
(*                                                                         *)
(* One path, since paths share nothing.  What a path holds is [kind,       *)
(* bytes]: kind "raw" for the bytes themselves, "cas" for a pointer to     *)
(* them (a hash stands for its bytes, and build_pointer records their      *)
(* number).  The forge identifies a version by what it holds (a blob id).  *)
(***************************************************************************)
EXTENDS Integers, Sequences

CONSTANTS
    Data,       \* byte sequences that are written
    Large,      \* those too large for the forge to send inline
    Writers,    \* pipe and rm calls that can run at once
    Bounds      \* start and end of a ranged read, NoBound included

CONSTANTS NoBound, Missing

Byte == 0..255

ASSUME DataAssumption == Data \subseteq Seq(Byte) /\ Large \subseteq Data

ASSUME BoundsAssumption == Bounds \subseteq Int \cup {NoBound} /\ NoBound \notin Int

VARIABLES
    forge,      \* what the path holds, or Missing
    registered, \* files of the CAS
    writer,     \* writer[w]: a call that changes the path
    reader,     \* a call or an open handle that reads it
    held,       \* history: what the path held since the read began
    lost        \* history: files deleted from the CAS by others

vars == <<forge, registered, writer, reader, held, lost>>

Raw(d) == [kind |-> "raw", bytes |-> d]
Pointer(d) == [kind |-> "cas", bytes |-> d]

Versions == {Raw(d) : d \in Data} \cup {Pointer(d) : d \in Data}

ASSUME MissingAssumption == Missing \notin Versions

Idle == [pc |-> "idle"]

Init ==
    /\ forge \in {Missing} \cup {Raw(d) : d \in Data}
    /\ registered = {}
    /\ writer = [w \in Writers |-> Idle]
    /\ reader = Idle
    /\ held = {}
    /\ lost = {}

-----------------------------------------------------------------------------
(* Writing (_pipe_file, the close of a handle opened for writing, _rm_file). *)

At(w, pc) == writer[w].pc = pc

BeginPipe(w) ==
    /\ At(w, "idle")
    /\ \E d \in Data :
          writer' = [writer EXCEPT ![w] = [pc |-> "upload", data |-> d]]
    /\ UNCHANGED registered

Upload_Later(w) ==
    /\ At(w, "upload")
    /\ writer' = [writer EXCEPT ![w] = [pc |-> "stat", op |-> "put", data |-> writer[w].data]]
    /\ UNCHANGED registered

(* hf_xet uploads and gives the hash back, or raises (WriteFails).  An empty *)
(* file has no terms, and the server refuses a file without any: whatever    *)
(* hash comes back for it, the CAS does not hold it.                         *)
Upload(w) ==
    /\ At(w, "upload")
    /\ registered' = registered \cup ({writer[w].data} \ {<<>>})
    /\ writer' = [writer EXCEPT ![w] = [pc |-> "stat", op |-> "put", data |-> writer[w].data]]

BeginRm(w) ==
    /\ At(w, "idle")
    /\ writer' = [writer EXCEPT ![w] = [pc |-> "stat", op |-> "rm", data |-> <<>>]]
    /\ UNCHANGED registered

(* A path that is not there cannot be removed; it can be created. *)
Stat(w) ==
    /\ At(w, "stat")
    /\ writer' = [writer EXCEPT ![w] =
          IF writer[w].op = "rm" /\ forge = Missing THEN Idle
          ELSE [pc |-> "commit", op |-> writer[w].op, data |-> writer[w].data,
                sha |-> forge]]
    /\ UNCHANGED <<forge, registered>>

(* The forge refuses a change of anything but the version the caller names.  *)
Accepts(w) == forge = writer[w].sha

Commit(w) ==
    /\ At(w, "commit")
    /\ Accepts(w)
    /\ forge' = IF writer[w].op = "put" THEN Pointer(writer[w].data) ELSE Missing
    /\ writer' = [writer EXCEPT ![w] = Idle]
    /\ UNCHANGED registered

(* 409 or 422, or any request that fails. *)
WriteFails(w) ==
    /\ ~At(w, "idle")
    /\ writer' = [writer EXCEPT ![w] = Idle]
    /\ UNCHANGED <<forge, registered>>

Write(w) ==
    /\ \/ (BeginPipe(w) \/ Upload(w) \/ BeginRm(w)) /\ UNCHANGED forge
       \/ Stat(w)
       \/ Commit(w)
       \/ WriteFails(w)
    /\ UNCHANGED <<reader, lost>>

-----------------------------------------------------------------------------
(* Reading.                                                                  *)

(* Bytes start to end - 1 of d, as Python slices them. *)
Clipped(i, d) == IF i < 0 THEN 0 ELSE IF i > Len(d) THEN Len(d) ELSE i
FromEnd(i, d) == IF i < 0 THEN i + Len(d) ELSE i
Lower(start, d) == IF start = NoBound THEN 0 ELSE Clipped(FromEnd(start, d), d)
Upper(end, d) == IF end = NoBound THEN Len(d) ELSE Clipped(FromEnd(end, d), d)
Slice(d, start, end) == SubSeq(d, Lower(start, d) + 1, Upper(end, d))

(* _process_limits_to_abs. *)
AbsStart(start, size) ==
    IF start = NoBound THEN 0 ELSE IF start < 0 THEN start + size ELSE start

AbsEnd_Inclusive(end, size) ==
    IF end = NoBound THEN size ELSE IF end < 0 THEN end + size + 1
    ELSE IF end < size THEN end ELSE size

AbsEnd(end, size) ==
    IF end = NoBound THEN size ELSE IF end < 0 THEN end + size
    ELSE IF end < size THEN end ELSE size

(* What the server sends for an inclusive range: nothing it can parse before *)
(* 0, nothing that starts at the end or later, and never beyond the end.     *)
RangeOk(d, first, last) == 0 <= first /\ first <= last /\ first < Len(d)
RangeOf(d, first, last) ==
    SubSeq(d, first + 1, IF last < Len(d) THEN last + 1 ELSE Len(d))

Answer(d) == [pc |-> "done", got |-> d]
Failed == [pc |-> "failed", got |-> <<>>]

(* cas.download, of the whole file or of a range. *)
Download(d, first, last) ==
    IF d \in registered /\ RangeOk(d, first, last) THEN Answer(RangeOf(d, first, last))
    ELSE Failed

Begin(as) ==
    /\ reader.pc = "idle"
    /\ reader' = [pc |-> "stat", as |-> as, version |-> Missing,
                  start |-> NoBound, end |-> NoBound, got |-> <<>>]

Resolved(version) == [reader EXCEPT !.pc = "read", !.version = version]

NotFound == [reader EXCEPT !.pc = "failed"]

Answered(answer, start, end) ==
    [reader EXCEPT !.pc = answer.pc, !.got = answer.got, !.start = start, !.end = end]

(* The contents API sends small files with the answer. *)
ReadStat ==
    /\ reader.pc = "stat"
    /\ reader' = IF forge = Missing THEN NotFound
                 ELSE IF forge.kind = "raw" /\ forge.bytes \in Large
                        THEN [reader EXCEPT !.pc = "blob"]
                        ELSE Resolved(forge)

(* ... and an address for others, of whatever the path holds by then. *)
ReadBlob ==
    /\ reader.pc = "blob"
    /\ reader' = IF forge = Missing THEN NotFound ELSE Resolved(forge)

EmptyRange_Never(first, end) == FALSE

EmptyRange(first, end) == first >= end

(* The end of _cat_file, whose bounds nothing has looked at before. *)
Cat(start, end) ==
    /\ reader.pc = "read" /\ reader.as = "cat"
    /\ LET version == reader.version
           d       == version.bytes
           first   == AbsStart(start, Len(d))
           beyond  == AbsEnd(end, Len(d))
           answer  ==
               IF version.kind = "raw" THEN Answer(Slice(d, start, end))
               ELSE IF start = NoBound /\ end = NoBound
                      THEN IF d \in registered THEN Answer(d) ELSE Failed
               ELSE IF EmptyRange(first, beyond) THEN Answer(<<>>)
               ELSE Download(d, first, beyond - 1)
       IN  reader' = Answered(answer, start, end)

(* XetFile._fetch_range: any part of the file, any number of times. *)
Source_Current == IF forge = Missing THEN reader.version ELSE forge

Source == reader.version

FetchRange(first, end) ==
    /\ reader.pc = "read" /\ reader.as = "open"
    /\ first <= end /\ end <= Len(reader.version.bytes)
    /\ LET answer == IF Source.kind = "raw" THEN Answer(Slice(Source.bytes, first, end))
                     ELSE IF EmptyRange(first, end) THEN Answer(<<>>)
                     ELSE Download(Source.bytes, first, end - 1)
       IN  reader' = Answered(answer, first, end)

(* The handle stays open; a read that failed may be tried again. *)
ReadOn ==
    /\ reader.pc \in {"done", "failed"} /\ reader.as = "open"
    /\ reader.version # Missing
    /\ reader' = [reader EXCEPT !.pc = "read", !.start = NoBound, !.end = NoBound,
                                !.got = <<>>]

Close ==
    /\ reader.pc \in {"done", "failed"}
    /\ reader' = Idle

Read ==
    /\ \/ \E as \in {"cat", "open"} : Begin(as)
       \/ ReadStat
       \/ ReadBlob
       \/ \E start, end \in Bounds : Cat(start, end)
       \/ \E first, end \in Nat \cap Bounds : FetchRange(first, end)
       \/ ReadOn
       \/ Close
    /\ UNCHANGED <<forge, registered, writer, lost>>

-----------------------------------------------------------------------------
(* Others: a push with git, which may put anything at the path but a pointer *)
(* to what is not in the CAS, and a deletion of a file of the CAS.           *)
Push ==
    /\ \E version \in {Missing} \cup {Raw(d) : d \in Data} \cup {Pointer(d) : d \in registered} :
          forge' = version
    /\ UNCHANGED <<registered, writer, reader, lost>>

DeleteFile ==
    /\ \E d \in registered : registered' = registered \ {d} /\ lost' = lost \cup {d}
    /\ UNCHANGED <<forge, writer, reader>>

Observe ==
    held' = IF reader'.pc = "idle" THEN {}
            ELSE IF reader.pc = "idle" THEN {forge}
            ELSE IF reader.pc \in {"stat", "blob"} THEN held \cup {forge}
            ELSE held

Next ==
    /\ Read \/ Push \/ DeleteFile \/ \E w \in Writers : Write(w)
    /\ Observe

Spec == Init /\ [][Next]_vars

-----------------------------------------------------------------------------
(* A read of a path, whole or in part, returns what Python's slice of one   *)
(* version is, and that version was at the path while the call ran or the   *)
(* handle was opened: never a mixture of two pushes, never a byte more or   *)
(* less at either end, and a handle keeps to the version it was opened on   *)
(* however often the path is overwritten before it is closed.               *)
ReadsOneVersion ==
    reader.pc = "done" =>
        \E v \in held \ {Missing} : reader.got = Slice(v.bytes, reader.start, reader.end)

(* A read fails only if the path was missing, the file has been deleted     *)
(* from the CAS, the path holds a pointer to the empty file, which the CAS  *)
(* never has, or the start of the range reaches back beyond the beginning   *)
(* of a file of the CAS (which Python's slices clip).                       *)
ReadFailsForCause ==
    reader.pc = "failed" =>
        \/ Missing \in held
        \/ /\ reader.version # Missing
           /\ \/ reader.version.bytes \in lost
              \/ reader.version = Pointer(<<>>)
              \/ reader.start # NoBound /\ reader.start + Len(reader.version.bytes) < 0

(* A pointer is committed after its file is in the CAS: but for the empty   *)
(* file, a path never points at a file that was not there, whichever writes *)
(* overlap, fail or repeat.                                                 *)
PointersResolve ==
    (forge # Missing /\ forge.kind = "cas" /\ forge.bytes # <<>>)
        => forge.bytes \in registered \cup lost
=============================================================================
