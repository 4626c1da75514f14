------------------------------ MODULE MCCatalogue ------------------------------
(* Three files of two owners, one of them the account of all callers without *)
(* a subject; uploads have registered all of them, or all but the second.    *)
EXTENDS Catalogue

CONSTANT s1

MCTerms == [s \in {s1} |-> [f \in Files |-> {1}]]
MCCasInfo == [s \in {s1} |-> {}]
MCOwners == {"alice", "default"}
MCSizes == [f \in Files |-> f]

Conf(enabled, admin, default) ==
    [enabled |-> enabled, read |-> "r", write |-> "w", admin |-> admin, default |-> default]

MCConfigs ==
    {Conf(FALSE, "a", NoScope), Conf(TRUE, "a", NoScope),
     Conf(TRUE, "", NoScope), Conf(TRUE, "a", "read")}

Oidc(sub, grants) == [alg |-> "OIDC", sub |-> sub, scope |-> NoScope, grants |-> grants]

MCTokens ==
    {NoToken, Oidc("alice", {"a", "r"}), Oidc("alice", {"r"}), Oidc("alice", {""}),
     [alg |-> "HS256", sub |-> "", scope |-> "write", grants |-> {}]}

InitUsed ==
    /\ clock = 0
    /\ xorbs = [x \in Xorbs |-> 0]
    /\ shards = [s \in Shards |-> 0]
    /\ \E F \in {Files, {1, 3}} :
          /\ fileIndex = [f \in Files |-> IF f \in F THEN s1 ELSE NoShard]
          /\ claims \in SUBSET (Owners \X F)
    /\ chunkIndex = Xorbs /\ layouts \in {Xorbs, {2}}
    /\ CallInit

SpecUsed == InitUsed /\ [][Next]_vars
=============================================================================
