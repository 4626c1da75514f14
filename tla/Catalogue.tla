------------------------------ MODULE Catalogue ------------------------------
(***************************************************************************)
(* The calls that read the index for a person: the two paged listings      *)
(* (GET /v1/files, GET /v1/xorbs), the detail of a file, and accounting.   *)
(* Each takes several reads, a listing one per page, while other tasks     *)
(* change the tables between any two of them.                              *)
(*                                                                         *)
(* File and xorb hashes are numbers, since listings are in their order.    *)
(* call is the one request of a behaviour; requests that only read do not  *)
(* affect one another.  A listing is all its pages: the web pages and the  *)
(* other clients send the cursor of a page to ask for the next one.        *)
(***************************************************************************)
EXTENDS CasStore, Access, FiniteSetsExt

CONSTANTS
    MaxLimit,     \* MAX_LIMIT, the cap on a page's length
    DefaultLimit, \* DEFAULT_LIMIT
    NoLimit,      \* "the request has no limit"
    Limits,       \* limits that requests send, NoLimit included
    Configs,      \* the settings of authentication a server may have
    Tokens,       \* the tokens that may come, NoToken included
    Sizes,        \* Sizes[f]: logical bytes of f
    MaxChanges    \* bound: changes of the tables while a call runs

ASSUME CatalogueAssumption ==
    /\ (Files \cup Xorbs) \subseteq Nat \ {0}
    /\ IsFiniteSet(Files \cup Xorbs)
    /\ MaxLimit \in Nat /\ DefaultLimit \in 1..MaxLimit
    /\ Limits \subseteq Nat \cup {NoLimit}
    /\ Sizes \in [Files -> Nat]

ASSUME AccessAssumption ==
    /\ Configs \subseteq [enabled : BOOLEAN, read : STRING, write : STRING, admin : STRING,
                          default : Scopes \cup {NoScope}]
    /\ Tokens \ {NoToken} \subseteq [alg : {"HS256", "OIDC"}, sub : STRING,
                                     scope : Scopes \cup {NoScope}, grants : SUBSET STRING]

VARIABLES
    call,        \* the request
    caller,      \* history: who made it
    changes,     \* changes since it began
    throughout,  \* history: what it asks for that was so ever since it began
    ever         \* history: what it asks for that was so at some time of it

readVars == <<call, caller, changes, throughout, ever>>
vars     == <<storeVars, readVars>>

NotBegun == [pc |-> "idle", kind |-> "none"]

Refusal == [pc |-> "refused", kind |-> "none"]

-----------------------------------------------------------------------------
(* Pages (pagination.rs and the queries behind it).                         *)

Clamp_NoFloor(limit) ==
    IF limit = NoLimit THEN DefaultLimit ELSE Min({limit, MaxLimit})

Clamp(limit) ==
    IF limit = NoLimit THEN DefaultLimit ELSE Max({1, Min({limit, MaxLimit})})

(* SELECT ... ORDER BY key LIMIT n. *)
First(n, keys) == {k \in keys : Cardinality({j \in keys : j < k}) < n}

(* The page after a cursor, from one row more than asked for: the cursor of *)
(* the next page is the last key that is kept.                              *)
PageOf(keys, after, limit) ==
    LET rows == First(limit + 1, {k \in keys : k > after})
        kept == First(limit, rows)
        more == Cardinality(rows) > limit
    IN  [items |-> kept, next |-> IF more /\ kept # {} THEN Max(kept) ELSE 0]

(* What list_files selects, for one owner and for all. *)
FileKeys(owner) ==
    IF owner = "" THEN {f \in Files : Live(f)}
    ELSE {f \in Files : Live(f) /\ <<owner, f>> \in claims}

(* What a request asks for: facts about the tables.                         *)
Facts ==
    CASE call.kind = "files" -> FileKeys(call.owner)
      [] call.kind = "xorbs" -> layouts
      [] call.kind = "detail" ->
             {<<"shard", s>> : s \in {fileIndex[call.file]} \cap Shards}
               \cup {<<"claim", o>> : o \in Claimants(call.file)}
      [] call.kind = "accounting" ->
             {<<"claim", k>> : k \in claims} \cup {<<"row", f>> : f \in FileKeys("")}
      [] OTHER -> {}

-----------------------------------------------------------------------------
(* Whether a token makes its bearer an admin, said without Access: it has   *)
(* the admin role, or no role and admins for default, or there is no check. *)
IsAdmin(conf, token) ==
    \/ ~conf.enabled
    \/ token.alg = "HS256" /\ token.scope = "admin"
    \/ token.alg = "OIDC" /\ conf.admin \in token.grants \ {""}
    \/ /\ token.alg = "OIDC" /\ conf.default = "admin"
       /\ token.grants \cap {conf.read, conf.write, conf.admin} \subseteq {""}

(* A request begins with its token, on a server with these settings. *)
Start(conf, token, c) ==
    /\ call.pc = "idle"
    /\ call' = c
    /\ caller' = [admin |-> c.kind # "none" /\ IsAdmin(conf, token),
                  owner |-> IF conf.enabled /\ c.kind # "none" THEN OwnerOf(token.sub)
                            ELSE OwnerOf("")]
    /\ UNCHANGED changes

BeginFiles(conf, token, asked, limit) ==
    LET access == Authorize(token, conf, "read")
    IN  Start(conf, token,
              IF access.status # 200 THEN Refusal
              ELSE IF ~MayList(access, asked) THEN Refusal
              ELSE [pc |-> "page", kind |-> "files",
                    owner |-> ListedOwner(access, asked), limit |-> Clamp(limit),
                    after |-> 0, listed |-> {}, again |-> {}])

BeginXorbs(conf, token, limit) ==
    LET access == Authorize(token, conf, "admin")
    IN  Start(conf, token,
              IF access.status # 200 THEN Refusal
              ELSE [pc |-> "page", kind |-> "xorbs",
                    limit |-> Clamp(limit), after |-> 0, listed |-> {}, again |-> {}])

(* Cursor 0 is no cursor: that page was the last. *)
NextPage ==
    /\ call.pc = "page"
    /\ LET page == PageOf(Facts, call.after, call.limit)
       IN  call' = [call EXCEPT !.pc = IF page.next = 0 THEN "done" ELSE "page",
                                !.after = IF page.next = 0 THEN @ ELSE page.next,
                                !.listed = @ \cup page.items,
                                !.again = @ \cup (call.listed \cap page.items)]
    /\ UNCHANGED <<caller, changes>>

BeginDetail(conf, token, f) ==
    LET access == Authorize(token, conf, "read")
    IN  Start(conf, token,
              IF access.status # 200 THEN Refusal
              ELSE [pc |-> IF access.scope = "admin" THEN "row" ELSE "claimed",
                    kind |-> "detail", access |-> access,
                    file |-> f, shard |-> NoShard, owners |-> {}])

MayRead_Anyone(c) == TRUE

(* authorize_file_read: 404 for those who hold no claim. *)
MayRead(c) == c.access.owner \in Claimants(c.file)

AuthorizeRead ==
    /\ call.pc = "claimed"
    /\ call' = [call EXCEPT !.pc = IF MayRead(call) THEN "row" ELSE "refused"]
    /\ UNCHANGED <<caller, changes>>

ReadRow ==
    /\ call.pc = "row"
    /\ call' = [call EXCEPT !.pc = IF Live(call.file) THEN "owners" ELSE "refused",
                            !.shard = fileIndex[call.file]]
    /\ UNCHANGED <<caller, changes>>

(* Whoever is not an admin sees no claim but his own. *)
ReadOwners ==
    /\ call.pc = "owners"
    /\ call' = [call EXCEPT !.pc = "done",
                            !.owners = IF call.access.scope = "admin" THEN Claimants(call.file)
                                       ELSE Claimants(call.file) \cap {call.access.owner}]
    /\ UNCHANGED <<caller, changes>>

-----------------------------------------------------------------------------
(* Accounting: two aggregates of the claims, then the rows.                 *)

SizeOf(F) == MapThenSumSet(LAMBDA f : Sizes[f], F)

FilesClaimedBy(o) == {f \in Files : <<o, f>> \in claims}

Unique_PerClaim == MapThenSumSet(LAMBDA c : Sizes[c[2]], claims)

(* Each claimed file once: the inner query groups the claims by file. *)
Unique == SizeOf({f \in Files : Claimants(f) # {}})

BeginAccounting(conf, token) ==
    LET access == Authorize(token, conf, "admin")
    IN  Start(conf, token,
              IF access.status # 200 THEN Refusal
              ELSE [pc |-> "usage", kind |-> "accounting",
                    charged |-> [o \in Owners |-> 0], unique |-> 0, files |-> 0])

ReadCharges ==
    /\ call.pc = "usage"
    /\ call' = [call EXCEPT !.pc = "totals",
                            !.charged = [o \in Owners |-> SizeOf(FilesClaimedBy(o))]]
    /\ UNCHANGED <<caller, changes>>

ReadTotals ==
    /\ call.pc = "totals"
    /\ call' = [call EXCEPT !.pc = "count", !.unique = Unique]
    /\ UNCHANGED <<caller, changes>>

CountFiles ==
    /\ call.pc = "count"
    /\ call' = [call EXCEPT !.pc = "done", !.files = Cardinality(FileKeys(""))]
    /\ UNCHANGED <<caller, changes>>

-----------------------------------------------------------------------------
Begin ==
    \E conf \in Configs, token \in Tokens :
        \/ \E asked \in Owners \cup {""}, limit \in Limits :
              BeginFiles(conf, token, asked, limit)
        \/ \E limit \in Limits : BeginXorbs(conf, token, limit)
        \/ \E f \in Files : BeginDetail(conf, token, f)
        \/ BeginAccounting(conf, token)

(* A read that fails ends a request that has one answer; a client that lists *)
(* asks for the page again.  Neither is a state of its own.                  *)
Read ==
    /\ \/ Begin
       \/ NextPage
       \/ AuthorizeRead \/ ReadRow \/ ReadOwners
       \/ ReadCharges \/ ReadTotals \/ CountFiles
    /\ UNCHANGED storeVars

(* What other tasks do to the tables, one index call at a time.             *)
Change ==
    /\ call.pc \notin {"idle", "done", "refused"}
    /\ changes < MaxChanges
    /\ changes' = changes + 1
    /\ \/ /\ \E f \in Files, s \in Shards : PutFile(f, s)
          /\ UNCHANGED <<claims, chunkIndex, layouts>>
       \/ /\ \E o \in Owners, f \in Files : Claim(o, f) \/ Release(o, f)
          /\ UNCHANGED <<fileIndex, chunkIndex, layouts>>
       \/ \E f \in Files : RemoveFile(f) /\ UNCHANGED <<chunkIndex, layouts>>
       \/ \E x \in Xorbs : PutLayout(x) /\ UNCHANGED <<fileIndex, claims, chunkIndex>>
       \/ \E x \in Xorbs : PurgeXorb(x) /\ UNCHANGED <<fileIndex, claims>>
    /\ UNCHANGED <<clock, storageVars, call, caller>>

Observe ==
    /\ throughout' = IF call.pc = "idle" THEN Facts' ELSE throughout \cap Facts'
    /\ ever' = IF call.pc = "idle" THEN Facts' ELSE ever \cup Facts'

Next == (Read \/ Change) /\ Observe

CallInit ==
    /\ call = NotBegun
    /\ caller = [admin |-> FALSE, owner |-> ""]
    /\ changes = 0
    /\ throughout = {} /\ ever = {}

(* A request finds whatever tables earlier requests have left. *)
Init == StoreTypeOK /\ CallInit

Spec == Init /\ [][Next]_vars

-----------------------------------------------------------------------------
Answered(kinds) == call.pc = "done" /\ call.kind \in kinds

(* "Concurrent inserts/deletes never shift rows across page boundaries"     *)
(* (pagination.rs): a row that is there from the first page to the last is  *)
(* listed, no key is listed twice, and none is listed that was never there. *)
ListedOnce ==
    Answered({"files", "xorbs"}) =>
        /\ throughout \subseteq call.listed
        /\ call.listed \subseteq ever
        /\ call.again = {}

(* "Non-admin callers only ever see their own files" (files.rs): whatever   *)
(* a call that an admin did not make has answered, at the end and page by   *)
(* page, is about files that its caller had a claim on during that call,    *)
(* and names no other owner.                                                *)
OwnFilesOnly ==
    (call.pc \notin {"idle", "refused"} /\ ~caller.admin) =>
        LET me == caller.owner
        IN  \/ call.kind = "files" /\ call.owner = me /\ call.listed \subseteq ever
            \/ /\ call.kind = "detail"
               /\ call.owners \subseteq {me}
               /\ call.shard # NoShard => <<"claim", me>> \in ever

(* Every figure of the accounting lies between what was so throughout the   *)
(* call and what was so at some time of it, though the reads behind them    *)
(* are of different moments: each owner's bytes, the bytes of all claimed   *)
(* files counted once, and the number of files.                             *)
FiguresBounded ==
    Answered({"accounting"}) =>
        LET Claimed(facts, o) == {f \in Files : <<"claim", <<o, f>>>> \in facts}
            All(facts) == UNION {Claimed(facts, o) : o \in Owners}
            Indexed(facts) == {f \in Files : <<"row", f>> \in facts}
        IN  /\ \A o \in Owners :
                  call.charged[o] \in SizeOf(Claimed(throughout, o))..SizeOf(Claimed(ever, o))
            /\ call.unique \in SizeOf(All(throughout))..SizeOf(All(ever))
            /\ call.files \in Cardinality(Indexed(throughout))..Cardinality(Indexed(ever))
=============================================================================
