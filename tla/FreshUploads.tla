----------------------------- MODULE FreshUploads -----------------------------
(***************************************************************************)
(* What the grace period buys.  gc.rs leaves a young unreferenced xorb     *)
(* alone because "clients upload xorbs first and register them in a shard  *)
(* afterwards".  A pass takes the time after it has marked, so an upload   *)
(* that is registered while a pass marks has lost as much of its grace as  *)
(* the mark takes.  This module bounds the mark and says which uploads     *)
(* the grace period then protects.                                         *)
(***************************************************************************)
EXTENDS CasServer

CONSTANT MarkTicks  \* the longest a mark may take, in ticks

ASSUME MarkAssumption == MarkTicks \in Nat

VARIABLES
    began,  \* began[p]: when pass p read the root set
    fresh   \* files whose row was written while all they need was young

freshVars == <<vars, began, fresh>>

FreshInit ==
    /\ Init
    /\ began = [p \in Passes |-> 0]
    /\ fresh = {}

(* Written so lately that a pass whose mark is under way will spare it. *)
Young(written) == written # Absent /\ clock - written + MarkTicks < MinGrace

YoungFile(f) ==
    /\ Live(f)
    /\ Young(shards[fileIndex[f]])
    /\ \A x \in Terms[fileIndex[f]][f] : Young(xorbs[x])

ObserveFresh ==
    /\ began' = [p \in Passes |->
                    IF p \in Running THEN IF p \in Running' THEN began[p] ELSE 0
                    ELSE IF p \in Running' THEN clock ELSE 0]
    /\ fresh' = {f \in Files : IF fileIndex'[f] = fileIndex[f]
                                 THEN f \in fresh ELSE YoungFile(f)'}

MarkIsShort ==
    \A p \in Passes : PassAt(p, "mark") => clock - began[p] <= MarkTicks

FreshNext == Next /\ ObserveFresh /\ MarkIsShort'

FreshSpec == FreshInit /\ [][FreshNext]_freshVars

(* With one pass at a time: a file registered within the grace period of    *)
(* everything it is made of (less the time a mark takes) can be             *)
(* reconstructed for as long as its row stands, even when the pass that     *)
(* sweeps read the root set before the file was in it.                      *)
FreshFilesIntact == \A f \in fresh : Intact(f)
=============================================================================
