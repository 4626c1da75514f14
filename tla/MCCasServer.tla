----------------------------- MODULE MCCasServer -----------------------------
(* Instances of CasServer for TLC.  Two shards describe f1: s1 by a term in  *)
(* x1, s2 (a re-upload under other chunk boundaries) by a term in x2.        *)
EXTENDS CasServer, TLC

CONSTANTS s1, s2, f1, f2, x1, x2

TermsTwo ==
    [s \in Shards |-> [f \in Files |->
        CASE s = s1 /\ f = f1 -> {x1}
          [] s = s1 /\ f # f1 -> {x2}
          [] s = s2 /\ f = f1 -> {x2}
          [] OTHER -> {}]]

(* One shard, whose file spans both xorbs. *)
TermsSpan == [s \in Shards |-> [f \in Files |-> Xorbs]]

(* A shard lists the xorbs its own terms name, and no other.               *)
CasInfoTerms == [s \in Shards |-> TermXorbs(s)]

CasInfoNone == [s \in Shards |-> {}]

(* Deletions are alike, where none of them is another kind of task as well. *)
Alike == Permutations(Deleters)

(* Every xorb uploaded at time 0, no shard registered yet: what a run of    *)
(* uploads leaves, so that a smaller instance starts after it.              *)
InitUploaded ==
    /\ clock = 0
    /\ xorbs = [x \in Xorbs |-> 0]
    /\ shards = [s \in Shards |-> Absent]
    /\ fileIndex = [f \in Files |-> NoShard]
    /\ claims = {}
    /\ chunkIndex = Xorbs
    /\ layouts = Xorbs
    /\ PostInit
    /\ RegInit
    /\ DelInit
    /\ PassInit
    /\ HistoryInit

SpecUploaded == InitUploaded /\ [][Next]_vars

(* Every owner has registered every shard, in some order. *)
InitRegistered ==
    /\ clock = 0
    /\ xorbs = [x \in Xorbs |-> 0]
    /\ shards = [s \in Shards |-> 0]
    /\ fileIndex \in {g \in [Files -> Shards] : \A f \in Files : f \in FilesOf(g[f])}
    /\ claims = Owners \X Files
    /\ chunkIndex = Xorbs
    /\ layouts = Xorbs
    /\ PostInit
    /\ RegInit
    /\ DelInit
    /\ PassInit
    /\ HistoryInit

SpecRegistered == InitRegistered /\ [][Next]_vars

(* Time passes, and passes are run again and again, as the loop of main.rs  *)
(* does; nothing obliges a client to send a request or finish one.          *)
SpecLoop ==
    /\ SpecUploaded
    /\ WF_vars(TimePasses /\ Observe)
    /\ \A p \in Passes :
          WF_vars(PassProgress(p) /\ UNCHANGED <<post, reg, del>> /\ Observe)

(* The last step of a pass looks like an abort, as it has nothing left to do. *)
Fails(p) == AbortPass(p) /\ ~EndPass(p)

=============================================================================
