---------------------------- MODULE MCFreshUploads ----------------------------
(* One file, registered through s1 (which takes x1) at time 0, that may be   *)
(* registered again through s2 (which takes x2, not uploaded yet).           *)
EXTENDS FreshUploads

CONSTANTS f1, s1, s2, x1, x2

TermsEach == [s \in Shards |-> [f \in Files |-> IF s = s1 THEN {x1} ELSE {x2}]]

CasInfoNone == [s \in Shards |-> {}]

InitFirstVersion ==
    /\ clock = 0
    /\ xorbs = [x \in Xorbs |-> IF x = x1 THEN 0 ELSE Absent]
    /\ shards = [s \in Shards |-> IF s = s1 THEN 0 ELSE Absent]
    /\ fileIndex = [f \in Files |-> s1]
    /\ claims = Owners \X Files
    /\ chunkIndex = {x1}
    /\ layouts = {x1}
    /\ PostInit
    /\ RegInit
    /\ DelInit
    /\ PassInit
    /\ HistoryInit
    /\ began = [p \in Passes |-> 0]
    /\ fresh = Files

SpecFirstVersion == InitFirstVersion /\ [][FreshNext]_freshVars
=============================================================================
