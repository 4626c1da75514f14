--------------------------- MODULE CatalogueProofs ---------------------------
(***************************************************************************)
(* What the listings and the detail of Catalogue promise, for any tables,  *)
(* any caps on a page's length and any number of changes under a request.  *)
(***************************************************************************)
EXTENDS Catalogue, FoldFacts

-----------------------------------------------------------------------------
(* Pages.                                                                   *)

(* SELECT ... LIMIT n: a first part of the keys, all of them if the limit   *)
(* is not reached, and some if there are any.                               *)
LEMMA FirstFacts ==
    ASSUME NEW S \in SUBSET Nat, IsFiniteSet(S), NEW n \in Nat
    PROVE  /\ First(n, S) \subseteq S
           /\ \A k \in First(n, S), j \in S : j < k => j \in First(n, S)
           /\ Cardinality(S) <= n => First(n, S) = S
           /\ Cardinality(First(n, S)) < n => First(n, S) = S
           /\ n > 0 /\ S # {} => First(n, S) # {}
<1>0. First(n, S) = {k \in S : Cardinality(Below(S, k)) < n}
  BY DEF First, Below
<1> DEFINE F == First(n, S)
<1>1. F \subseteq S /\ \A k \in S : k \in F <=> Cardinality(Below(S, k)) < n
  BY <1>0
<1> HIDE DEF F
<1>2. ASSUME NEW k \in F, NEW j \in S, j < k PROVE j \in F
  BY <1>1, <1>2, BelowCounts
<1>3. ASSUME Cardinality(S) <= n PROVE F = S
  <2>1. ASSUME NEW k \in S PROVE Cardinality(Below(S, k)) < n
    <3>1. /\ Cardinality(S) \in Nat /\ Cardinality(Below(S, k)) \in Nat
          /\ Cardinality(Below(S, k)) < Cardinality(S)
      BY BelowCounts
    <3> QED
      BY <1>3, <3>1
  <2> QED
    BY <1>1, <2>1
<1>4. ASSUME Cardinality(F) < n, F # S PROVE FALSE
  <2>1. S \ F # {} /\ S \ F \in SUBSET Nat
    BY <1>1, <1>4
  <2>2. PICK m \in S \ F : \A k \in S \ F : m <= k
    BY <2>1, Least
  <2>3. Below(S, m) \subseteq F
    <3>1. \A j \in S : j \in Nat
      OBVIOUS
    <3>2. \A j \in S : j < m => j \in F
      BY <2>2, <3>1
    <3> QED
      BY <3>2 DEF Below
  <2>4. IsFiniteSet(F) /\ Cardinality(F) \in Nat
    BY <1>1, FS_Subset, FS_CardinalityType
  <2>5. Cardinality(Below(S, m)) <= Cardinality(F) /\ Cardinality(Below(S, m)) \in Nat
    BY <2>3, <2>4, FS_Subset, BelowCounts
  <2>6. Cardinality(Below(S, m)) < n
    BY <1>4, <2>4, <2>5
  <2> QED
    BY <1>1, <2>2, <2>6
<1>5. ASSUME n > 0, S # {} PROVE F # {}
  <2>1. PICK m \in S : \A k \in S : m <= k
    BY <1>5, Least
  <2>2. Below(S, m) = {}
    <3>1. \A j \in S : j \in Nat
      OBVIOUS
    <3>2. \A j \in S : ~(j < m)
      BY <2>1, <3>1
    <3> QED
      BY <3>2 DEF Below
  <2> QED
    BY <1>1, <1>5, <2>1, <2>2, FS_EmptySet
<1> QED
  BY <1>1, <1>2, <1>3, <1>4, <1>5 DEF F

(* A page is the rows after the cursor, up to the cursor of the next page,  *)
(* which lies further on; the last page has all that are left.              *)
LEMMA PageFacts ==
    ASSUME NEW keys \in SUBSET (Nat \ {0}), IsFiniteSet(keys),
           NEW after \in Nat, NEW limit \in Nat \ {0}
    PROVE  LET page == PageOf(keys, after, limit)
           IN  /\ page.next \in Nat
               /\ page.next = 0 => page.items = {k \in keys : k > after}
               /\ page.next # 0 =>
                     /\ page.next > after
                     /\ page.items = {k \in keys : k > after /\ k <= page.next}
<1> DEFINE rest == {k \in keys : k > after}
           rows == First(limit + 1, rest)
           kept == First(limit, rows)
           more == Cardinality(rows) > limit
           next == IF more /\ kept # {} THEN Max(kept) ELSE 0
<1>1. rest \in SUBSET Nat /\ IsFiniteSet(rest)
  BY FS_Subset
<1>2. /\ rows \subseteq rest
      /\ \A k \in rows, j \in rest : j < k => j \in rows
      /\ Cardinality(rows) < limit + 1 => rows = rest
  <2> HIDE DEF rest
  <2> QED
    BY <1>1, FirstFacts
<1> HIDE DEF rows
<1>3. rows \in SUBSET Nat /\ IsFiniteSet(rows) /\ Cardinality(rows) \in Nat
  BY <1>1, <1>2, FS_Subset, FS_CardinalityType
<1>4. /\ kept \subseteq rows
      /\ \A k \in kept, j \in rows : j < k => j \in kept
      /\ Cardinality(rows) <= limit => kept = rows
      /\ rows # {} => kept # {}
  BY <1>3, FirstFacts
<1> HIDE DEF kept
<1>5. CASE more
  <2>1. rows # {}
    BY <1>5, FS_EmptySet
  <2>2. kept # {} /\ kept \in SUBSET Nat /\ IsFiniteSet(kept)
    BY <1>3, <1>4, <2>1, FS_Subset
  <2>3. next = Max(kept) /\ next \in kept /\ \A k \in kept : k <= next
    BY <1>5, <2>2, MaxIsGreatest
  <2>4. next \in Nat \ {0} /\ next > after
    BY <1>2, <1>4, <2>3
  <2>5. kept = {k \in keys : k > after /\ k <= next}
    <3>1. ASSUME NEW k \in keys, k > after, k <= next PROVE k \in kept
      <4>1. k \in rest
        BY <3>1
      <4>2. k = next \/ k < next
        BY <2>4, <3>1
      <4> QED
        BY <1>2, <1>4, <2>3, <4>1, <4>2
    <3> QED
      BY <1>2, <1>4, <2>3, <3>1
  <2> QED
    BY <2>4, <2>5 DEF PageOf, rows, kept
<1>6. CASE ~more
  <2>1. kept = rest /\ next = 0
    BY <1>2, <1>3, <1>4, <1>6
  <2> QED
    BY <2>1 DEF PageOf, rows, kept
<1> QED
  BY <1>5, <1>6

LEMMA ClampFacts == ASSUME NEW limit \in Limits PROVE Clamp(limit) \in Nat \ {0}
<1>1. ASSUME NEW a \in Int, NEW b \in Int
      PROVE  /\ Min({a, b}) \in {a, b}
             /\ Max({a, b}) \in {a, b} /\ Max({a, b}) >= a
  <2>1. \E m \in {a, b} : \A k \in {a, b} : m <= k
    OBVIOUS
  <2>2. \E m \in {a, b} : \A k \in {a, b} : m >= k
    OBVIOUS
  <2> QED
    BY <2>1, <2>2 DEF Min, Max
<1>2. CASE limit = NoLimit
  BY <1>2, CatalogueAssumption DEF Clamp
<1>3. CASE limit # NoLimit
  <2>1. limit \in Int /\ MaxLimit \in Int
    BY <1>3, CatalogueAssumption
  <2>2. Min({limit, MaxLimit}) \in Int
    BY <1>1, <2>1
  <2>3. Max({1, Min({limit, MaxLimit})}) \in Int /\ Max({1, Min({limit, MaxLimit})}) >= 1
    BY <1>1, <2>2
  <2> QED
    BY <1>3, <2>3 DEF Clamp
<1> QED
  BY <1>2, <1>3

-----------------------------------------------------------------------------
(* Who may ask.                                                             *)

Subjects == {OwnerOf(token.sub) : token \in Tokens} \cup {OwnerOf("")}

LEMMA BearersAreSubjects ==
    ASSUME NEW token \in Tokens PROVE OwnerOf(token.sub) \in Subjects
BY DEF Subjects

AccessGranted == [status : {200}, scope : Scopes, owner : Subjects]

(* Whom the server takes the bearer of a token for. *)
Bearer(conf, token) == IF conf.enabled THEN OwnerOf(token.sub) ELSE OwnerOf("")

(* Whoever is let in has the scope that was asked for, and admin scope only *)
(* if IsAdmin says so.                                                      *)
LetIn(access, conf, token, required) ==
    /\ access \in AccessGranted
    /\ required = "admin" => access.scope = "admin"
    /\ access.scope = "admin" => IsAdmin(conf, token)
    /\ access.owner = Bearer(conf, token)

LEMMA Authorized ==
    ASSUME NEW conf \in Configs, NEW token \in Tokens, NEW required \in Scopes,
           Authorize(token, conf, required).status = 200
    PROVE  LetIn(Authorize(token, conf, required), conf, token, required)
<1> DEFINE answer == Authorize(token, conf, required)
<1> SUFFICES /\ answer \in AccessGranted
             /\ required = "admin" => answer.scope = "admin"
             /\ answer.scope = "admin" => IsAdmin(conf, token)
             /\ answer.owner = Bearer(conf, token)
  BY DEF LetIn
<1>0. /\ conf.enabled \in BOOLEAN
      /\ conf.default \in Scopes \cup {NoScope}
      /\ token # NoToken => /\ token.alg \in {"HS256", "OIDC"} /\ token.sub \in STRING
                            /\ token.scope \in Scopes \cup {NoScope}
                            /\ token.grants \in SUBSET STRING
  BY AccessAssumption
<1> DEFINE scope == IF token.alg = "HS256" THEN token.scope
                    ELSE GrantedScope(token.grants, conf)
<1>1. CASE ~conf.enabled
  <2>1. Authorize(token, conf, required) = [status |-> 200, scope |-> "admin", owner |-> OwnerOf("")]
    BY <1>1 DEF Authorize
  <2> QED
    <3>1. OwnerOf("") \in Subjects /\ "admin" \in Scopes
      BY DEF Subjects, Scopes
    <3>2. IsAdmin(conf, token)
      BY <1>1 DEF IsAdmin
    <3> DEFINE access == Authorize(token, conf, required)
           me == OwnerOf("")
    <3>3. access = [status |-> 200, scope |-> "admin", owner |-> me] /\ me \in Subjects
      BY <2>1, <3>1
    <3> HIDE DEF access, me
    <3>4. access \in AccessGranted
      BY <3>1, <3>3 DEF AccessGranted
    <3>5. access.scope = "admin" /\ access.owner = me
      BY <3>3
    <3> QED
      BY <1>1, <3>2, <3>4, <3>5 DEF access, me, Bearer
<1>2. CASE conf.enabled
  <2>1. /\ token # NoToken /\ scope # NoScope /\ Satisfies(scope, required)
        /\ Authorize(token, conf, required)
              = [status |-> 200, scope |-> scope, owner |-> OwnerOf(token.sub)]
    BY <1>2 DEF Authorize, Refused
  <2>2. scope \in Scopes \cup {NoScope}
    BY <1>0, <2>1 DEF GrantedScope, Scopes
  <2>3. scope = "admin" => IsAdmin(conf, token)
    <3>1. CASE token.alg = "HS256"
      BY <3>1 DEF IsAdmin
    <3>2. CASE token.alg = "OIDC"
      BY <3>2, ZenonT(40) DEF GrantedScope, Carries, IsAdmin
    <3> QED
      BY <1>0, <2>1, <3>1, <3>2
  <2> HIDE DEF scope
  <2>4. required = "admin" => scope = "admin"
    BY <2>1, <2>2 DEF Satisfies, Rank, Scopes
  <2>5. OwnerOf(token.sub) \in Subjects
    BY BearersAreSubjects
  <2> DEFINE me == OwnerOf(token.sub)
  <2>6. answer = [status |-> 200, scope |-> scope, owner |-> me] /\ me \in Subjects
    BY <2>1, <2>5
  <2>7. Bearer(conf, token) = me
    BY <1>2 DEF Bearer
  <2>8. scope \in Scopes
    BY <2>1, <2>2
  <2> HIDE DEF answer, me
  <2>9. answer \in AccessGranted /\ answer.scope = scope /\ answer.owner = me
    BY <2>6, <2>8 DEF AccessGranted
  <2> QED
    BY <2>3, <2>4, <2>7, <2>9
<1> QED
  BY <1>0, <1>1, <1>2

-----------------------------------------------------------------------------
(* The request.                                                             *)

FileListings ==
    [pc : {"page", "done"}, kind : {"files"}, owner : Subjects \cup Owners \cup {""},
     limit : Nat \ {0}, after : Nat, listed : SUBSET Files, again : SUBSET Files]

XorbListings ==
    [pc : {"page", "done"}, kind : {"xorbs"},
     limit : Nat \ {0}, after : Nat, listed : SUBSET Xorbs, again : SUBSET Xorbs]

Details ==
    [pc : {"claimed", "row", "owners", "done", "refused"}, kind : {"detail"},
     access : AccessGranted, file : Files, shard : Shards \cup {NoShard},
     owners : SUBSET Owners]

IsAccount(c) ==
    \E pc \in {"usage", "totals", "count", "done"} : \E charged, unique, files :
        c = [pc |-> pc, kind |-> "accounting", charged |-> charged, unique |-> unique,
             files |-> files]

TypeOK ==
    /\ \/ call \in {NotBegun, Refusal} \cup FileListings \cup XorbListings \cup Details
       \/ IsAccount(call)
    /\ caller.admin \in BOOLEAN
    /\ fileIndex \in [Files -> Shards \cup {NoShard}]
    /\ layouts \subseteq Xorbs

(* What is so has been so at some time, and what always was is so. *)
SeenInv == call.pc # "idle" => throughout \subseteq Facts /\ Facts \subseteq ever

(* A listing that stands at a cursor has all that was there throughout up   *)
(* to it, and nothing beyond it.                                            *)
CursorInv ==
    call.kind \in {"files", "xorbs"} =>
        /\ call.listed \subseteq ever
        /\ call.again = {}
        /\ call.pc = "page" =>
              /\ \A k \in call.listed : k <= call.after
              /\ \A k \in throughout : k <= call.after => k \in call.listed
        /\ call.pc = "done" => throughout \subseteq call.listed

(* Who is no admin asks for what is his own, and is past the check of his   *)
(* claim only if he had one.                                                *)
OwnInv ==
    (call.pc \notin {"idle", "refused"} /\ ~caller.admin) =>
        \/ call.kind = "files" /\ call.owner = caller.owner
        \/ /\ call.kind = "detail"
           /\ call.access.scope # "admin"
           /\ call.access.owner = caller.owner
           /\ call.owners \subseteq {caller.owner}
           /\ IF call.pc = "claimed" THEN call.shard = NoShard
              ELSE <<"claim", caller.owner>> \in ever

(* What a request may be when it begins. *)
Begun ==
    /\ call.pc = "idle"
    /\ caller'.admin \in BOOLEAN
    /\ \/ call' = Refusal
       \/ /\ call' \in FileListings
          /\ call'.pc = "page" /\ call'.after = 0 /\ call'.listed = {} /\ call'.again = {}
          /\ ~caller'.admin => call'.owner = caller'.owner
       \/ /\ call' \in XorbListings
          /\ call'.pc = "page" /\ call'.after = 0 /\ call'.listed = {} /\ call'.again = {}
          /\ caller'.admin
       \/ /\ call' \in Details
          /\ call'.shard = NoShard /\ call'.owners = {}
          /\ call'.pc \in {"claimed", "row"}
          /\ ~caller'.admin => /\ call'.pc = "claimed"
                               /\ call'.access.scope # "admin"
                               /\ call'.access.owner = caller'.owner
       \/ IsAccount(call') /\ call'.pc = "usage" /\ caller'.admin

LEMMA BeginsSo == ASSUME Begin PROVE Begun
<1> SUFFICES ASSUME NEW conf \in Configs, NEW token \in Tokens,
                    \/ \E asked \in Owners \cup {""}, limit \in Limits :
                          BeginFiles(conf, token, asked, limit)
                    \/ \E limit \in Limits : BeginXorbs(conf, token, limit)
                    \/ \E f \in Files : BeginDetail(conf, token, f)
                    \/ BeginAccounting(conf, token)
             PROVE  Begun
  BY DEF Begin
<1> DEFINE me == Bearer(conf, token)
           reader == Authorize(token, conf, "read")
           admin == Authorize(token, conf, "admin")
<1>0. IsAdmin(conf, token) \in BOOLEAN
  BY DEF IsAdmin
<1>1. /\ reader.status = 200 =>
            /\ reader \in AccessGranted
            /\ reader.scope = "admin" => IsAdmin(conf, token)
            /\ reader.owner = me
      /\ admin.status = 200 => IsAdmin(conf, token)
  <2>1. "read" \in Scopes /\ "admin" \in Scopes
    BY DEF Scopes
  <2>2. ASSUME reader.status = 200
        PROVE  /\ reader \in AccessGranted
               /\ reader.scope = "admin" => IsAdmin(conf, token)
               /\ reader.owner = me
    <3>1. LetIn(reader, conf, token, "read")
      BY <2>1, <2>2, Authorized
    <3> HIDE DEF reader
    <3> QED
      BY <3>1 DEF LetIn
  <2>3. ASSUME admin.status = 200 PROVE IsAdmin(conf, token)
    <3>1. LetIn(admin, conf, token, "admin")
      BY <2>1, <2>3, Authorized
    <3> HIDE DEF admin
    <3> QED
      BY <3>1 DEF LetIn
  <2> HIDE DEF reader, admin, me
  <2> QED
    BY <2>2, <2>3
<1>2. ASSUME NEW c, Start(conf, token, c)
      PROVE  /\ call.pc = "idle" /\ call' = c
             /\ caller'.admin \in BOOLEAN
             /\ c.kind # "none" => /\ IsAdmin(conf, token) => caller'.admin
                                   /\ caller'.owner = me
  <2>1. caller' = [admin |-> c.kind # "none" /\ IsAdmin(conf, token),
                   owner |-> IF conf.enabled /\ c.kind # "none" THEN OwnerOf(token.sub)
                             ELSE OwnerOf("")]
    BY <1>2 DEF Start
  <2>2. caller'.admin = (c.kind # "none" /\ IsAdmin(conf, token))
    BY <2>1
  <2>3. caller'.admin \in BOOLEAN
    BY <2>2
  <2>4. c.kind # "none" => caller'.owner = me
    BY <2>1 DEF Bearer
  <2>5. c.kind # "none" /\ IsAdmin(conf, token) => caller'.admin
    BY <2>2
  <2>6. call.pc = "idle" /\ call' = c
    BY <1>2 DEF Start
  <2> HIDE DEF me
  <2> QED
    BY <2>3, <2>4, <2>5, <2>6
<1>3. Refusal.kind = "none"
  BY DEF Refusal
<1> HIDE DEF reader, admin, me
<1>4. ASSUME NEW asked \in Owners \cup {""}, NEW limit \in Limits,
             BeginFiles(conf, token, asked, limit)
      PROVE  Begun
  <2> DEFINE c == [pc |-> "page", kind |-> "files",
                   owner |-> ListedOwner(reader, asked), limit |-> Clamp(limit),
                   after |-> 0, listed |-> {}, again |-> {}]
  <2>1. CASE Start(conf, token, Refusal)
    BY <1>2, <2>1 DEF Begun
  <2>2. CASE reader.status = 200 /\ Start(conf, token, c)
    <3>1. /\ ListedOwner(reader, asked) \in Subjects \cup Owners \cup {""}
          /\ reader.scope # "admin" => ListedOwner(reader, asked) = me
      BY <1>1, <2>2 DEF ListedOwner, AccessGranted
    <3>2. c \in FileListings
      BY <3>1, ClampFacts DEF FileListings
    <3>3. c.kind = "files" /\ c.owner = ListedOwner(reader, asked)
      OBVIOUS
    <3>4. c.pc = "page" /\ c.after = 0 /\ c.listed = {} /\ c.again = {}
      OBVIOUS
    <3> HIDE DEF c
    <3>5. /\ call.pc = "idle" /\ call' = c /\ caller'.admin \in BOOLEAN
          /\ caller'.owner = me
          /\ IsAdmin(conf, token) => caller'.admin
      BY <1>2, <2>2, <3>3, ZenonT(40)
    <3>6. ASSUME ~caller'.admin PROVE c.owner = caller'.owner
      <4>1. ~IsAdmin(conf, token)
        BY <3>5, <3>6
      <4>2. reader.scope # "admin"
        BY <1>1, <2>2, <4>1
      <4> QED
        BY <3>1, <3>3, <3>5, <4>2
    <3> QED
      BY <3>2, <3>4, <3>5, <3>6 DEF Begun
  <2> QED
    BY <1>4, <2>1, <2>2 DEF BeginFiles, reader
<1>5. ASSUME NEW limit \in Limits, BeginXorbs(conf, token, limit)
      PROVE  Begun
  <2> DEFINE c == [pc |-> "page", kind |-> "xorbs",
                   limit |-> Clamp(limit), after |-> 0, listed |-> {}, again |-> {}]
  <2>1. CASE Start(conf, token, Refusal)
    BY <1>2, <2>1 DEF Begun
  <2>2. CASE admin.status = 200 /\ Start(conf, token, c)
    <3>1. c \in XorbListings
      BY ClampFacts DEF XorbListings
    <3>2. c.kind = "xorbs" /\ c.pc = "page" /\ c.after = 0 /\ c.listed = {} /\ c.again = {}
      OBVIOUS
    <3> HIDE DEF c
    <3>3. call.pc = "idle" /\ call' = c /\ caller'.admin /\ caller'.admin \in BOOLEAN
      BY <1>1, <1>2, <2>2, <3>2, ZenonT(40)
    <3> QED
      BY <3>1, <3>2, <3>3 DEF Begun
  <2> QED
    BY <1>5, <2>1, <2>2 DEF BeginXorbs, admin
<1>6. ASSUME NEW f \in Files, BeginDetail(conf, token, f)
      PROVE  Begun
  <2> DEFINE c == [pc |-> IF reader.scope = "admin" THEN "row" ELSE "claimed",
                   kind |-> "detail", access |-> reader,
                   file |-> f, shard |-> NoShard, owners |-> {}]
  <2>1. CASE Start(conf, token, Refusal)
    BY <1>2, <2>1 DEF Begun
  <2>2. CASE reader.status = 200 /\ Start(conf, token, c)
    <3>1. c \in Details
      BY <1>1, <2>2 DEF Details
    <3>2. /\ c.kind = "detail" /\ c.shard = NoShard /\ c.owners = {} /\ c.access = reader
          /\ c.pc \in {"claimed", "row"}
          /\ reader.scope # "admin" => c.pc = "claimed"
      OBVIOUS
    <3> HIDE DEF c
    <3>3. /\ call.pc = "idle" /\ call' = c /\ caller'.admin \in BOOLEAN
          /\ caller'.owner = me
          /\ IsAdmin(conf, token) => caller'.admin
      BY <1>2, <2>2, <3>2, ZenonT(40)
    <3>4. ASSUME ~caller'.admin
          PROVE  reader.scope # "admin" /\ reader.owner = caller'.owner
      <4>1. ~IsAdmin(conf, token)
        BY <3>3, <3>4
      <4> QED
        BY <1>1, <2>2, <3>3, <4>1
    <3> QED
      BY <3>1, <3>2, <3>3, <3>4 DEF Begun
  <2> QED
    BY <1>6, <2>1, <2>2 DEF BeginDetail, reader
<1>7. ASSUME BeginAccounting(conf, token)
      PROVE  Begun
  <2> DEFINE c == [pc |-> "usage", kind |-> "accounting",
                   charged |-> [o \in Owners |-> 0], unique |-> 0, files |-> 0]
  <2>1. CASE Start(conf, token, Refusal)
    BY <1>2, <2>1 DEF Begun
  <2>2. CASE admin.status = 200 /\ Start(conf, token, c)
    <3>1. IsAccount(c) /\ c.kind = "accounting" /\ c.pc = "usage"
      BY DEF IsAccount
    <3> HIDE DEF c
    <3>3. call.pc = "idle" /\ call' = c /\ caller'.admin /\ caller'.admin \in BOOLEAN
      BY <1>1, <1>2, <2>2, <3>1
    <3> QED
      BY <3>1, <3>3 DEF Begun
  <2> QED
    BY <1>7, <2>1, <2>2 DEF BeginAccounting, admin
<1> QED
  BY <1>4, <1>5, <1>6, <1>7

-----------------------------------------------------------------------------
(* The steps of a request.                                                  *)

LEMMA Keys ==
    ASSUME TypeOK, call.kind \in {"files", "xorbs"}
    PROVE  /\ Facts \in SUBSET (Nat \ {0}) /\ IsFiniteSet(Facts)
           /\ call.kind = "files" => Facts \subseteq Files
           /\ call.kind = "xorbs" => Facts \subseteq Xorbs
<1>1. /\ call.kind = "files" => Facts \subseteq Files
      /\ call.kind = "xorbs" => Facts \subseteq Xorbs
  BY DEF TypeOK, Facts, FileKeys
<1>2. Facts \in SUBSET (Files \cup Xorbs)
  BY <1>1
<1> QED
  BY <1>1, <1>2, FS_Subset, CatalogueAssumption

LEMMA KindOf ==
    \A c : /\ c \in FileListings => c.kind = "files"
           /\ c \in XorbListings => c.kind = "xorbs"
           /\ c \in Details => c.kind = "detail"
           /\ IsAccount(c) => c.kind = "accounting"
           /\ c = Refusal => c.kind = "none"
<1>1. \A c \in FileListings : c.kind = "files"
  BY DEF FileListings
<1>2. \A c \in XorbListings : c.kind = "xorbs"
  BY DEF XorbListings
<1>3. \A c \in Details : c.kind = "detail"
  BY DEF Details
<1>4. ASSUME NEW c, IsAccount(c) PROVE c.kind = "accounting"
  BY <1>4 DEF IsAccount
<1>5. Refusal.kind = "none"
  BY DEF Refusal
<1> QED
  BY <1>1, <1>2, <1>3, <1>4, <1>5

LEMMA Kinds ==
    ASSUME TypeOK
    PROVE  /\ call.pc = "page" => call \in FileListings \/ call \in XorbListings
           /\ call.pc \in {"claimed", "row", "owners"} => call \in Details
           /\ call.pc \in {"usage", "totals", "count"} => IsAccount(call)
           /\ call.pc = "idle" => call = NotBegun
           /\ call.kind \in {"files", "xorbs"} => call.pc \in {"page", "done"}
           /\ IsAccount(call) => call.kind = "accounting"
<1>1. ASSUME IsAccount(call)
      PROVE  call.kind = "accounting" /\ call.pc \in {"usage", "totals", "count", "done"}
  BY <1>1 DEF IsAccount
<1>2. ASSUME call \in FileListings \cup XorbListings
      PROVE  call.pc \in {"page", "done"}
  BY <1>2 DEF FileListings, XorbListings
<1>3. ASSUME call \in Details
      PROVE  call.kind = "detail" /\ call.pc \in {"claimed", "row", "owners", "done", "refused"}
  BY <1>3 DEF Details
<1>4. NotBegun.pc = "idle" /\ NotBegun.kind = "none"
      /\ Refusal.pc = "refused" /\ Refusal.kind = "none"
  BY DEF NotBegun, Refusal
<1> QED
  BY <1>1, <1>2, <1>3, <1>4 DEF TypeOK

(* A page is taken of what is there. *)
LEMMA PageTaken ==
    ASSUME TypeOK, NextPage
    PROVE  LET page == PageOf(Facts, call.after, call.limit)
           IN  /\ call \in FileListings => call' \in FileListings /\ call'.owner = call.owner
               /\ call \in XorbListings => call' \in XorbListings
               /\ call.pc = "page" /\ call'.kind = call.kind
               /\ call.after \in Nat /\ call.limit \in Nat \ {0}
               /\ call'.pc = IF page.next = 0 THEN "done" ELSE "page"
               /\ call'.after = IF page.next = 0 THEN call.after ELSE page.next
               /\ call'.listed = call.listed \cup page.items
               /\ call'.again = call.again \cup (call.listed \cap page.items)
<1> DEFINE page == PageOf(Facts, call.after, call.limit)
<1>1. /\ call.pc = "page"
      /\ call \in FileListings \/ call \in XorbListings
  BY Kinds DEF NextPage
<1>2. /\ call.kind \in {"files", "xorbs"} /\ call.after \in Nat /\ call.limit \in Nat \ {0}
      /\ call \in FileListings <=> call.kind = "files"
      /\ call \in XorbListings <=> call.kind = "xorbs"
  BY <1>1 DEF FileListings, XorbListings
<1>3. /\ page.next \in Nat /\ page.items \subseteq Facts
      /\ call.kind = "files" => Facts \subseteq Files
      /\ call.kind = "xorbs" => Facts \subseteq Xorbs
  <2>1. /\ Facts \in SUBSET (Nat \ {0}) /\ IsFiniteSet(Facts)
        /\ call.kind = "files" => Facts \subseteq Files
        /\ call.kind = "xorbs" => Facts \subseteq Xorbs
    BY <1>2, Keys
  <2>2. /\ page.next \in Nat
        /\ page.items = {k \in Facts : k > call.after}
             \/ page.items = {k \in Facts : k > call.after /\ k <= page.next}
    BY <1>2, <2>1, PageFacts
  <2> HIDE DEF page
  <2> QED
    BY <2>1, <2>2
<1>4. call' = [call EXCEPT !.pc = IF page.next = 0 THEN "done" ELSE "page",
                           !.after = IF page.next = 0 THEN @ ELSE page.next,
                           !.listed = @ \cup page.items,
                           !.again = @ \cup (call.listed \cap page.items)]
  BY DEF NextPage
<1> HIDE DEF page
<1>5. CASE call \in FileListings
  <2>1. page.items \subseteq Files
    BY <1>2, <1>3, <1>5
  <2> QED
    BY <1>1, <1>2, <1>3, <1>4, <1>5, <2>1 DEF FileListings, page
<1>6. CASE call \in XorbListings
  <2>1. page.items \subseteq Xorbs
    BY <1>2, <1>3, <1>6
  <2> QED
    BY <1>1, <1>2, <1>3, <1>4, <1>6, <2>1 DEF XorbListings, page
<1> QED
  BY <1>1, <1>5, <1>6

(* The reads of a detail. *)
LEMMA DetailRead ==
    ASSUME TypeOK, AuthorizeRead \/ ReadRow \/ ReadOwners
    PROVE  /\ call \in Details /\ call' \in Details
           /\ call'.access = call.access /\ call'.file = call.file
           /\ AuthorizeRead => /\ call'.shard = call.shard /\ call'.owners = call.owners
                               /\ call.pc = "claimed"
                               /\ call'.pc = IF MayRead(call) THEN "row" ELSE "refused"
           /\ ReadRow => /\ call'.owners = call.owners
                         /\ call.pc = "row" /\ call'.pc \in {"owners", "refused"}
           /\ ReadOwners => /\ call.pc = "owners" /\ call'.pc = "done"
                            /\ call.access.scope # "admin"
                                  => call'.owners \subseteq {call.access.owner}
<1>1. call \in Details
  BY Kinds DEF AuthorizeRead, ReadRow, ReadOwners
<1>2. CASE AuthorizeRead
  BY <1>1, <1>2 DEF AuthorizeRead, Details, ReadRow, ReadOwners
<1>3. CASE ReadRow
  <2>1. fileIndex[call.file] \in Shards \cup {NoShard}
    BY <1>1 DEF TypeOK, Details
  <2> QED
    BY <1>1, <1>3, <2>1 DEF AuthorizeRead, Details, ReadRow, ReadOwners
<1>4. CASE ReadOwners
  <2>1. Claimants(call.file) \in SUBSET Owners
    BY DEF Claimants
  <2> QED
    BY <1>1, <1>4, <2>1 DEF AuthorizeRead, Details, ReadRow, ReadOwners
<1> QED
  BY <1>2, <1>3, <1>4

LEMMA AccountRead ==
    ASSUME TypeOK, ReadCharges \/ ReadTotals \/ CountFiles
    PROVE  /\ IsAccount(call) /\ IsAccount(call')
           /\ ReadCharges =>
                 /\ call.pc = "usage" /\ call'.pc = "totals"
                 /\ \A o \in Owners : call'.charged[o] = SizeOf(FilesClaimedBy(o))
           /\ ReadTotals =>
                 /\ call.pc = "totals" /\ call'.pc = "count"
                 /\ call'.charged = call.charged /\ call'.unique = Unique
           /\ CountFiles =>
                 /\ call.pc = "count" /\ call'.pc = "done"
                 /\ call'.charged = call.charged /\ call'.unique = call.unique
                 /\ call'.files = Cardinality(FileKeys(""))
<1>1. IsAccount(call)
  BY Kinds DEF ReadCharges, ReadTotals, CountFiles
<1>2. PICK charged, unique, files : \E pc \in {"usage", "totals", "count", "done"} :
          call = [pc |-> pc, kind |-> "accounting", charged |-> charged, unique |-> unique,
                  files |-> files]
  BY <1>1 DEF IsAccount
<1>3. PICK pc \in {"usage", "totals", "count", "done"} :
          call = [pc |-> pc, kind |-> "accounting", charged |-> charged, unique |-> unique,
                  files |-> files]
  BY <1>2
<1>4. CASE ReadCharges
  <2> DEFINE new == [o \in Owners |-> SizeOf(FilesClaimedBy(o))]
  <2>1. call' = [call EXCEPT !.pc = "totals", !.charged = new]
    BY <1>4 DEF ReadCharges
  <2> HIDE DEF new
  <2>2. call' = [pc |-> "totals", kind |-> "accounting", charged |-> new,
                 unique |-> unique, files |-> files]
    BY <1>3, <2>1
  <2>3. \A o \in Owners : new[o] = SizeOf(FilesClaimedBy(o))
    BY DEF new
  <2>4. call.pc = "usage" /\ IsAccount(call')
    BY <1>4, <2>2 DEF IsAccount, ReadCharges
  <2> QED
    BY <1>1, <2>2, <2>3, <2>4 DEF ReadTotals, CountFiles
<1>5. CASE ReadTotals
  <2>1. call' = [pc |-> "count", kind |-> "accounting", charged |-> charged,
                 unique |-> Unique, files |-> files]
    BY <1>3, <1>5 DEF ReadTotals
  <2> QED
    BY <1>1, <1>3, <1>5, <2>1 DEF IsAccount, ReadCharges, ReadTotals, CountFiles
<1>6. CASE CountFiles
  <2>1. call' = [pc |-> "done", kind |-> "accounting", charged |-> charged,
                 unique |-> unique, files |-> Cardinality(FileKeys(""))]
    BY <1>3, <1>6 DEF CountFiles
  <2> QED
    BY <1>1, <1>3, <1>6, <2>1 DEF IsAccount, ReadCharges, ReadTotals, CountFiles
<1> QED
  BY <1>4, <1>5, <1>6

-----------------------------------------------------------------------------
(* The steps of the system.                                                 *)

(* A change leaves the request as it is. *)
LEMMA ChangeFacts ==
    ASSUME TypeOK, Change
    PROVE  /\ call' = call /\ caller' = caller
           /\ call.pc \notin {"idle", "done", "refused"}
           /\ fileIndex' \in [Files -> Shards \cup {NoShard}]
           /\ layouts' \subseteq Xorbs
<1>1. /\ call' = call /\ caller' = caller
      /\ call.pc \notin {"idle", "done", "refused"}
  BY DEF Change
<1>2. CASE \E f \in Files, s \in Shards : PutFile(f, s) /\ UNCHANGED layouts
  BY <1>1, <1>2 DEF PutFile, TypeOK
<1>3. CASE UNCHANGED <<fileIndex, layouts>>
  BY <1>1, <1>3 DEF TypeOK
<1>4. CASE \E f \in Files : RemoveFile(f) /\ UNCHANGED layouts
  BY <1>1, <1>4 DEF RemoveFile, TypeOK
<1>5. CASE \E x \in Xorbs : PutLayout(x) /\ UNCHANGED fileIndex
  BY <1>1, <1>5 DEF PutLayout, TypeOK
<1>6. CASE \E x \in Xorbs : PurgeXorb(x) /\ UNCHANGED fileIndex
  BY <1>1, <1>6 DEF PurgeXorb, TypeOK
<1> QED
  BY <1>2, <1>3, <1>4, <1>5, <1>6 DEF Change

LEMMA ReadFacts ==
    ASSUME Read
    PROVE  /\ UNCHANGED <<fileIndex, claims, layouts>>
           /\ ~Begin => UNCHANGED caller
  BY DEF Read, storeVars, NextPage, AuthorizeRead, ReadRow, ReadOwners, ReadCharges,
         ReadTotals, CountFiles

LEMMA TypesStep == ASSUME TypeOK, [Next]_vars PROVE TypeOK'
<1>1. CASE Begin /\ Read
  <2>1. caller'.admin \in BOOLEAN
    BY <1>1, BeginsSo DEF Begun
  <2>2. \/ call' \in {NotBegun, Refusal} \cup FileListings \cup XorbListings \cup Details
        \/ IsAccount(call')
    BY <1>1, BeginsSo DEF Begun
  <2> QED
    BY <1>1, <2>1, <2>2, ReadFacts DEF TypeOK, IsAccount
<1>2. CASE ~Begin /\ Read
  <2>1. \/ call' \in FileListings \cup XorbListings \cup Details
        \/ IsAccount(call')
    <3>1. CASE NextPage
      BY <3>1, PageTaken, Kinds
    <3>2. CASE AuthorizeRead \/ ReadRow \/ ReadOwners
      BY <3>2, DetailRead
    <3>3. CASE ReadCharges \/ ReadTotals \/ CountFiles
      BY <3>3, AccountRead
    <3> QED
      BY <1>2, <3>1, <3>2, <3>3 DEF Read
  <2> QED
    BY <1>2, <2>1, ReadFacts DEF TypeOK, IsAccount
<1>3. CASE Change
  BY <1>3, ChangeFacts DEF TypeOK, IsAccount
<1>4. CASE UNCHANGED vars
  BY <1>4 DEF vars, storeVars, readVars, TypeOK, IsAccount
<1> QED
  BY <1>1, <1>2, <1>3, <1>4 DEF Next

LEMMA SeenStep ==
    ASSUME TypeOK, SeenInv, [Next]_vars
    PROVE  /\ SeenInv'
           /\ call.pc # "idle" => throughout' \subseteq throughout /\ ever \subseteq ever'
           /\ Next => throughout' \subseteq Facts' /\ Facts' \subseteq ever'
<1>1. CASE Next
  BY <1>1 DEF Next, Observe, SeenInv
<1>2. CASE UNCHANGED vars
  <2>1. call' = call /\ throughout' = throughout /\ ever' = ever /\ Facts' = Facts
    BY <1>2 DEF vars, storeVars, readVars, Facts, FileKeys, Live, Claimants
  <2> QED
    BY <1>1, <2>1 DEF SeenInv
<1> QED
  BY <1>1, <1>2

LEMMA CursorStep ==
    ASSUME TypeOK, SeenInv, CursorInv, [Next]_vars
    PROVE  CursorInv'
<1>0. /\ TypeOK'
      /\ call.pc # "idle" => throughout' \subseteq throughout /\ ever \subseteq ever'
      /\ Next => throughout' \subseteq Facts' /\ Facts' \subseteq ever'
  BY TypesStep, SeenStep
<1>1. CASE Begin /\ Next
  <2>1. Begun
    BY <1>1, BeginsSo
  <2>2. CASE call' \in FileListings \cup XorbListings
    <3>1. /\ call'.listed = {} /\ call'.again = {} /\ call'.after = 0 /\ call'.pc = "page"
          /\ call'.kind \in {"files", "xorbs"}
      <4>1. call'.kind \in {"files", "xorbs"}
        BY <2>2, KindOf
      <4>2. call' # Refusal /\ call' \notin Details /\ ~IsAccount(call')
        BY <4>1, KindOf
      <4> QED
        BY <2>1, <4>1, <4>2 DEF Begun
    <3>2. Facts' \subseteq Files \cup Xorbs
      BY <1>0, <3>1 DEF TypeOK, Facts, FileKeys
    <3>3. \A k \in throughout' : ~(k <= 0)
      BY <1>0, <1>1, <3>2, CatalogueAssumption
    <3> QED
      BY <3>1, <3>3 DEF CursorInv
  <2>3. CASE call' = Refusal \/ call' \in Details \/ IsAccount(call')
    BY <2>3 DEF Refusal, Details, IsAccount, CursorInv
  <2> QED
    BY <2>1, <2>2, <2>3 DEF Begun
<1>2. CASE NextPage /\ Read /\ Next
  <2> DEFINE page == PageOf(Facts, call.after, call.limit)
  <2>1. /\ call.kind \in {"files", "xorbs"} /\ call.pc = "page"
        /\ call'.kind = call.kind
        /\ call.after \in Nat /\ call.limit \in Nat \ {0}
        /\ call'.pc = IF page.next = 0 THEN "done" ELSE "page"
        /\ call'.after = IF page.next = 0 THEN call.after ELSE page.next
        /\ call'.listed = call.listed \cup page.items
        /\ call'.again = call.again \cup (call.listed \cap page.items)
    BY <1>2, PageTaken, Kinds DEF FileListings, XorbListings
  <2>2. /\ Facts \in SUBSET (Nat \ {0}) /\ IsFiniteSet(Facts)
        /\ page.next \in Nat
        /\ page.next = 0 => page.items = {k \in Facts : k > call.after}
        /\ page.next # 0 =>
              /\ page.next > call.after
              /\ page.items = {k \in Facts : k > call.after /\ k <= page.next}
    BY <2>1, Keys, PageFacts
  <2> HIDE DEF page
  <2>3. /\ throughout' \subseteq Facts /\ throughout' \subseteq throughout
        /\ Facts \subseteq ever' /\ ever \subseteq ever'
    BY <1>0, <2>1 DEF SeenInv
  <2>4. /\ call.listed \subseteq ever /\ call.again = {}
        /\ \A k \in call.listed : k <= call.after
        /\ \A k \in throughout : k <= call.after => k \in call.listed
    BY <2>1 DEF CursorInv
  <2>5. call'.again = {}
    <3>1. \A k \in page.items : k \in Nat /\ k > call.after
      BY <2>2
    <3>2. call.listed \cap page.items = {}
      BY <2>1, <2>4, <3>1
    <3> QED
      BY <2>1, <2>4, <3>2
  <2>6. call'.listed \subseteq ever'
    BY <2>1, <2>2, <2>3, <2>4
  <2>7. CASE page.next = 0
    <3>1. \A k \in throughout' : k \in call'.listed
      BY <2>1, <2>2, <2>3, <2>4, <2>7
    <3> QED
      BY <2>1, <2>5, <2>6, <2>7, <3>1 DEF CursorInv
  <2>8. CASE page.next # 0
    <3>1. \A k \in throughout' : k <= page.next => k \in call'.listed
      BY <2>1, <2>2, <2>3, <2>4, <2>8
    <3>2. \A k \in call'.listed : k <= page.next
      <4>1. ASSUME NEW k \in call.listed PROVE k <= page.next
        <5>1. k <= call.after /\ k \in Nat
          <6>1. k \in Files \cup Xorbs
            BY <2>1, PageTaken, <1>2, Kinds DEF FileListings, XorbListings
          <6> QED
            BY <2>4, <6>1, CatalogueAssumption
        <5> QED
          BY <2>1, <2>2, <2>8, <5>1
      <4> QED
        BY <2>1, <2>2, <2>8, <4>1
    <3> QED
      BY <2>1, <2>5, <2>6, <2>8, <3>1, <3>2 DEF CursorInv
  <2> QED
    BY <2>7, <2>8
<1>3. CASE Read /\ ~Begin /\ ~NextPage
  <2>1. call' \in Details \/ IsAccount(call')
    BY <1>3, DetailRead, AccountRead DEF Read
  <2> QED
    BY <2>1 DEF Details, IsAccount, CursorInv
<1>4. CASE call' = call /\ throughout' \subseteq throughout /\ ever \subseteq ever'
  BY <1>4 DEF CursorInv
<1>5. CASE Change
  <2>1. call' = call /\ call.pc # "idle"
    BY <1>5, ChangeFacts
  <2> QED
    BY <1>0, <1>4, <2>1
<1> QED
  BY <1>1, <1>2, <1>3, <1>4, <1>5 DEF Next, vars, readVars, Read

LEMMA OwnStep ==
    ASSUME TypeOK, SeenInv, OwnInv, [Next]_vars
    PROVE  OwnInv'
<1>0. /\ call.pc # "idle" => ever \subseteq ever'
      /\ Next => Facts' \subseteq ever'
  BY SeenStep
<1> DEFINE me == caller.owner
<1>1. CASE Begin
  <2>1. Begun
    BY <1>1, BeginsSo
  <2>2. CASE call' = Refusal \/ (IsAccount(call') /\ caller'.admin)
    BY <2>2 DEF Refusal, OwnInv
  <2>3. CASE call' \in FileListings
    <3>1. call' # Refusal /\ call' \notin XorbListings \cup Details /\ ~IsAccount(call')
      BY <2>3, KindOf
    <3> QED
      BY <2>1, <2>3, <3>1 DEF Begun, OwnInv, FileListings
  <2>4. CASE call' \in XorbListings /\ caller'.admin
    BY <2>4 DEF OwnInv
  <2>5. CASE call' \in Details
    <3>1. call' # Refusal /\ call' \notin XorbListings \cup FileListings /\ ~IsAccount(call')
      BY <2>5, KindOf
    <3> QED
      BY <2>1, <2>5, <3>1 DEF Begun, OwnInv, Details
  <2> QED
    BY <2>1, <2>2, <2>3, <2>4, <2>5 DEF Begun
<1>2. CASE NextPage
  <2>1. /\ caller' = caller /\ call'.kind = call.kind
        /\ call.pc = "page" /\ call \in FileListings \cup XorbListings
        /\ call \in FileListings => call'.owner = call.owner
    BY <1>2, PageTaken, Kinds DEF NextPage
  <2>2. call.kind = "files" <=> call \in FileListings
    BY <2>1 DEF FileListings, XorbListings
  <2>3. call.kind # "detail"
    BY <2>1 DEF FileListings, XorbListings
  <2> QED
    BY <2>1, <2>2, <2>3 DEF OwnInv
<1>3. CASE Next /\ Read /\ (AuthorizeRead \/ ReadRow \/ ReadOwners)
  <2>1. /\ caller' = caller /\ call \in Details /\ call' \in Details
        /\ call'.access = call.access /\ call'.file = call.file
        /\ ever \subseteq ever'
        /\ call.kind = "detail" /\ call'.kind = "detail"
        /\ call.pc \in {"claimed", "row", "owners"}
    <3>1. call.pc \in {"claimed", "row", "owners"}
      BY <1>3 DEF AuthorizeRead, ReadRow, ReadOwners
    <3>2. call \in Details /\ call' \in Details
          /\ call'.access = call.access /\ call'.file = call.file
      BY <1>3, DetailRead
    <3>3. caller' = caller
      BY <1>3 DEF AuthorizeRead, ReadRow, ReadOwners
    <3> QED
      BY <1>0, <3>1, <3>2, <3>3 DEF Details
  <2> SUFFICES ASSUME ~caller.admin, call'.pc # "refused"
               PROVE  /\ call'.owners \subseteq {me}
                      /\ IF call'.pc = "claimed" THEN call'.shard = NoShard
                         ELSE <<"claim", me>> \in ever'
    BY <2>1 DEF OwnInv
  <2>2. /\ call.access.scope # "admin" /\ call.access.owner = me
        /\ call.owners \subseteq {me}
        /\ call.pc # "claimed" => <<"claim", me>> \in ever
    BY <2>1 DEF OwnInv
  <2>3. CASE AuthorizeRead
    <3>1. /\ call'.owners = call.owners /\ call'.pc = "row" /\ MayRead(call)
      BY <2>3, DetailRead
    <3>2. me \in Claimants(call.file)
      BY <2>2, <3>1 DEF MayRead
    <3>3. me \in Owners /\ <<me, call'.file>> \in claims'
      BY <1>3, <2>1, <3>2, ReadFacts DEF Claimants
    <3>4. <<"claim", me>> \in Facts'
      BY <2>1, <3>3 DEF Facts, Claimants
    <3> QED
      BY <1>0, <1>3, <2>2, <3>1, <3>4
  <2>4. CASE ReadRow
    BY <2>1, <2>2, <2>4, DetailRead
  <2>5. CASE ReadOwners
    BY <2>1, <2>2, <2>5, DetailRead
  <2> QED
    BY <1>3, <2>3, <2>4, <2>5
<1>4. CASE ReadCharges \/ ReadTotals \/ CountFiles
  <2>1. caller' = caller /\ call.pc \in {"usage", "totals", "count"}
    BY <1>4 DEF ReadCharges, ReadTotals, CountFiles
  <2>2. call.kind = "accounting"
    BY <1>4, AccountRead, Kinds
  <2> QED
    BY <2>1, <2>2 DEF OwnInv
<1>5. CASE call' = call /\ caller' = caller /\ (call.pc # "idle" => ever \subseteq ever')
  BY <1>5 DEF OwnInv
<1> QED
  BY <1>0, <1>1, <1>2, <1>3, <1>4, <1>5, ChangeFacts DEF Next, Read, vars, readVars

-----------------------------------------------------------------------------
(* The figures of an account.                                               *)

ClaimedIn(facts, o) == {f \in Files : <<"claim", <<o, f>>>> \in facts}

AllIn(facts) == UNION {ClaimedIn(facts, o) : o \in Owners}

IndexedIn(facts) == {f \in Files : <<"row", f>> \in facts}

(* n could have been counted at a moment when lo held, and no more than hi. *)
SizeBetween(n, lo, hi) == n \in SizeOf(lo)..SizeOf(hi)

CountBetween(n, lo, hi) == n \in Cardinality(lo)..Cardinality(hi)

(* Each figure that has been read is within what its facts allow.           *)
AccountInv ==
    call.kind = "accounting" =>
        /\ call.pc \in {"totals", "count", "done"} =>
              \A o \in Owners :
                 SizeBetween(call.charged[o], ClaimedIn(throughout, o), ClaimedIn(ever, o))
        /\ call.pc \in {"count", "done"} =>
              SizeBetween(call.unique, AllIn(throughout), AllIn(ever))
        /\ call.pc = "done" =>
              CountBetween(call.files, IndexedIn(throughout), IndexedIn(ever))

LEMMA FilesCount == Summable(Sizes, Files)
  BY CatalogueAssumption, FS_Subset DEF Summable

LEMMA SizeIsSum == ASSUME NEW F PROVE SizeOf(F) = SumOver(Sizes, F)
  BY DEF SizeOf, SumOver, SumIterator, MapThenSumSet, MapThenFoldSet

LEMMA SizesGrow ==
    ASSUME NEW F \in SUBSET Files, NEW G \in SUBSET Files, F \subseteq G
    PROVE  /\ SizeOf(F) \in Nat /\ SizeOf(F) <= SizeOf(G)
           /\ Cardinality(F) \in Nat /\ Cardinality(F) <= Cardinality(G)
<1>1. SumOver(Sizes, F) \in Nat
  BY FilesCount, SumSteps
<1>2. SumOver(Sizes, F) <= SumOver(Sizes, G)
  BY FilesCount, SumMonotone
<1>3. IsFiniteSet(F) /\ IsFiniteSet(G)
  BY FilesCount, FS_Subset DEF Summable
<1>4. Cardinality(F) \in Nat /\ Cardinality(F) <= Cardinality(G)
  BY <1>3, FS_Subset, FS_CardinalityType
<1> QED
  BY <1>1, <1>2, <1>4, SizeIsSum

(* With fewer facts throughout and more of them ever, the bounds are wider. *)
LEMMA BoundsWiden ==
    ASSUME NEW A \in SUBSET Files, NEW B \in SUBSET Files,
           NEW lo \in SUBSET A, NEW hi \in SUBSET Files, B \subseteq hi, NEW n
    PROVE  /\ SizeBetween(n, A, B) => SizeBetween(n, lo, hi)
           /\ CountBetween(n, A, B) => CountBetween(n, lo, hi)
<1>1. /\ SizeOf(lo) \in Nat /\ SizeOf(lo) <= SizeOf(A) /\ SizeOf(A) \in Nat
      /\ Cardinality(lo) \in Nat /\ Cardinality(lo) <= Cardinality(A)
      /\ Cardinality(A) \in Nat
  BY SizesGrow
<1>2. /\ SizeOf(B) \in Nat /\ SizeOf(B) <= SizeOf(hi) /\ SizeOf(hi) \in Nat
      /\ Cardinality(B) \in Nat /\ Cardinality(B) <= Cardinality(hi)
      /\ Cardinality(hi) \in Nat
  BY SizesGrow
<1> QED
  BY <1>1, <1>2 DEF SizeBetween, CountBetween

(* A figure read now is exactly what is so now. *)
LEMMA BetweenNow ==
    ASSUME NEW now \in SUBSET Files, NEW lo \in SUBSET now,
           NEW hi \in SUBSET Files, now \subseteq hi
    PROVE  SizeBetween(SizeOf(now), lo, hi) /\ CountBetween(Cardinality(now), lo, hi)
<1>1. /\ SizeOf(lo) \in Nat /\ SizeOf(lo) <= SizeOf(now) /\ SizeOf(now) \in Nat
      /\ Cardinality(lo) \in Nat /\ Cardinality(lo) <= Cardinality(now)
      /\ Cardinality(now) \in Nat
  BY SizesGrow
<1>2. /\ SizeOf(now) <= SizeOf(hi) /\ SizeOf(hi) \in Nat
      /\ Cardinality(now) <= Cardinality(hi) /\ Cardinality(hi) \in Nat
  BY SizesGrow
<1> QED
  BY <1>1, <1>2 DEF SizeBetween, CountBetween

LEMMA FactsGrow ==
    ASSUME NEW a, NEW b, a \subseteq b
    PROVE  /\ \A o : ClaimedIn(a, o) \subseteq ClaimedIn(b, o)
                       /\ ClaimedIn(b, o) \subseteq Files
           /\ AllIn(a) \subseteq AllIn(b) /\ AllIn(b) \subseteq Files
           /\ IndexedIn(a) \subseteq IndexedIn(b) /\ IndexedIn(b) \subseteq Files
<1>1. \A o : ClaimedIn(a, o) \subseteq ClaimedIn(b, o) /\ ClaimedIn(b, o) \subseteq Files
  BY DEF ClaimedIn
<1>2. AllIn(a) \subseteq AllIn(b) /\ AllIn(b) \subseteq Files
  BY <1>1 DEF AllIn
<1>3. IndexedIn(a) \subseteq IndexedIn(b) /\ IndexedIn(b) \subseteq Files
  BY DEF IndexedIn
<1> QED
  BY <1>1, <1>2, <1>3

LEMMA AccountFacts ==
    ASSUME call.kind = "accounting"
    PROVE  /\ \A o \in Owners : FilesClaimedBy(o) = ClaimedIn(Facts, o)
           /\ {f \in Files : Claimants(f) # {}} = AllIn(Facts)
           /\ FileKeys("") = IndexedIn(Facts)
<1>1. Facts = {<<"claim", k>> : k \in claims} \cup {<<"row", f>> : f \in FileKeys("")}
  BY DEF Facts
<1>2. \A o, f : <<"claim", <<o, f>>>> \in Facts <=> <<o, f>> \in claims
  BY <1>1
<1>3. \A f : <<"row", f>> \in Facts <=> f \in FileKeys("")
  BY <1>1
<1>4. FileKeys("") \subseteq Files
  BY DEF FileKeys
<1>5. \A o \in Owners : FilesClaimedBy(o) = ClaimedIn(Facts, o)
  BY <1>2 DEF FilesClaimedBy, ClaimedIn
<1>6. {f \in Files : Claimants(f) # {}} = AllIn(Facts)
  <2>1. \A f \in Files : Claimants(f) # {} <=> \E o \in Owners : <<o, f>> \in claims
    BY DEF Claimants
  <2>2. \A f : f \in AllIn(Facts) <=> \E o \in Owners : f \in FilesClaimedBy(o)
    BY <1>5 DEF AllIn
  <2>3. \A f, o : f \in FilesClaimedBy(o) <=> f \in Files /\ <<o, f>> \in claims
    BY DEF FilesClaimedBy
  <2> QED
    BY <2>1, <2>2, <2>3
<1>7. FileKeys("") = IndexedIn(Facts)
  BY <1>3, <1>4 DEF IndexedIn
<1> QED
  BY <1>5, <1>6, <1>7

LEMMA AccountStep ==
    ASSUME TypeOK, SeenInv, AccountInv, [Next]_vars
    PROVE  AccountInv'
<1>0. /\ call.pc # "idle" => throughout' \subseteq throughout /\ ever \subseteq ever'
      /\ Next => throughout' \subseteq Facts' /\ Facts' \subseteq ever'
  BY SeenStep
<1>1. CASE Begin
  <2>1. call'.kind = "accounting" => call'.pc = "usage"
    BY <1>1, BeginsSo, KindOf DEF Begun
  <2> QED
    BY <2>1 DEF AccountInv
<1>2. ASSUME call.pc # "idle"
      PROVE  /\ \A o \in Owners : \A n :
                   SizeBetween(n, ClaimedIn(throughout, o), ClaimedIn(ever, o))
                     => SizeBetween(n, ClaimedIn(throughout', o), ClaimedIn(ever', o))
             /\ \A n : SizeBetween(n, AllIn(throughout), AllIn(ever))
                         => SizeBetween(n, AllIn(throughout'), AllIn(ever'))
             /\ \A n : CountBetween(n, IndexedIn(throughout), IndexedIn(ever))
                         => CountBetween(n, IndexedIn(throughout'), IndexedIn(ever'))
  <2>1. /\ throughout' \subseteq throughout /\ ever \subseteq ever'
        /\ throughout \subseteq throughout /\ ever' \subseteq ever'
    BY <1>0, <1>2
  <2>2. /\ \A o : /\ ClaimedIn(throughout', o) \subseteq ClaimedIn(throughout, o)
                  /\ ClaimedIn(ever, o) \subseteq ClaimedIn(ever', o)
                  /\ ClaimedIn(throughout, o) \subseteq Files
                  /\ ClaimedIn(ever', o) \subseteq Files
        /\ AllIn(throughout') \subseteq AllIn(throughout) /\ AllIn(ever) \subseteq AllIn(ever')
        /\ AllIn(throughout) \subseteq Files /\ AllIn(ever') \subseteq Files
        /\ IndexedIn(throughout') \subseteq IndexedIn(throughout)
        /\ IndexedIn(ever) \subseteq IndexedIn(ever')
        /\ IndexedIn(throughout) \subseteq Files /\ IndexedIn(ever') \subseteq Files
    BY <2>1, FactsGrow
  <2> QED
    BY <2>2, BoundsWiden
<1>3. ASSUME Next, Read, call.kind = "accounting", call'.kind = "accounting"
      PROVE  /\ \A o \in Owners :
                   SizeBetween(SizeOf(FilesClaimedBy(o)),
                               ClaimedIn(throughout', o), ClaimedIn(ever', o))
             /\ SizeBetween(Unique, AllIn(throughout'), AllIn(ever'))
             /\ CountBetween(Cardinality(FileKeys("")),
                             IndexedIn(throughout'), IndexedIn(ever'))
  <2>1. Facts' = Facts
    BY <1>3, ReadFacts DEF Facts, FileKeys, Live
  <2>2. throughout' \subseteq Facts /\ Facts \subseteq ever' /\ ever' \subseteq ever'
    BY <1>0, <1>3, <2>1
  <2>3. /\ \A o : /\ ClaimedIn(throughout', o) \subseteq ClaimedIn(Facts, o)
                  /\ ClaimedIn(Facts, o) \subseteq ClaimedIn(ever', o)
                  /\ ClaimedIn(Facts, o) \subseteq Files /\ ClaimedIn(ever', o) \subseteq Files
        /\ AllIn(throughout') \subseteq AllIn(Facts) /\ AllIn(Facts) \subseteq AllIn(ever')
        /\ AllIn(Facts) \subseteq Files /\ AllIn(ever') \subseteq Files
        /\ IndexedIn(throughout') \subseteq IndexedIn(Facts)
        /\ IndexedIn(Facts) \subseteq IndexedIn(ever')
        /\ IndexedIn(Facts) \subseteq Files /\ IndexedIn(ever') \subseteq Files
    BY <2>2, FactsGrow
  <2>4. /\ \A o \in Owners : FilesClaimedBy(o) = ClaimedIn(Facts, o)
        /\ Unique = SizeOf(AllIn(Facts))
        /\ FileKeys("") = IndexedIn(Facts)
    BY <1>3, AccountFacts DEF Unique
  <2> QED
    BY <2>3, <2>4, BetweenNow
<1>4. CASE Next /\ Read /\ (ReadCharges \/ ReadTotals \/ CountFiles)
  <2>1. /\ call.kind = "accounting" /\ call'.kind = "accounting"
        /\ call.pc \in {"usage", "totals", "count"}
    BY <1>4, AccountRead, KindOf
  <2>2. CASE ReadCharges
    BY <1>3, <1>4, <2>1, <2>2, AccountRead DEF AccountInv
  <2>3. CASE ReadTotals
    BY <1>2, <1>3, <1>4, <2>1, <2>3, AccountRead DEF AccountInv
  <2>4. CASE CountFiles
    BY <1>2, <1>3, <1>4, <2>1, <2>4, AccountRead DEF AccountInv
  <2> QED
    BY <1>4, <2>2, <2>3, <2>4
<1>5. CASE NextPage
  <2>1. call'.kind # "accounting"
    BY <1>5, PageTaken, Kinds, KindOf
  <2> QED
    BY <2>1 DEF AccountInv
<1>6. CASE AuthorizeRead \/ ReadRow \/ ReadOwners
  <2>1. call'.kind # "accounting"
    BY <1>6, DetailRead, KindOf
  <2> QED
    BY <2>1 DEF AccountInv
<1>7. CASE Change
  <2>1. call' = call /\ call.pc # "idle"
    BY <1>7, ChangeFacts
  <2> QED
    BY <1>2, <2>1 DEF AccountInv
<1>8. CASE UNCHANGED vars
  BY <1>8 DEF AccountInv, vars, readVars
<1> QED
  BY <1>1, <1>4, <1>5, <1>6, <1>7, <1>8 DEF Next, Read

-----------------------------------------------------------------------------
CatalogueInv == TypeOK /\ SeenInv /\ CursorInv /\ OwnInv /\ AccountInv

LEMMA CatalogueCorrect == Spec => []CatalogueInv
<1>1. Init => CatalogueInv
  <2> SUFFICES ASSUME Init PROVE CatalogueInv
    OBVIOUS
  <2>1. call = NotBegun /\ call.pc = "idle" /\ call.kind = "none" /\ caller.admin = FALSE
    BY DEF Init, CallInit, NotBegun
  <2>2. TypeOK
    BY <2>1 DEF Init, StoreTypeOK, TypeOK
  <2> QED
    BY <2>1, <2>2 DEF CatalogueInv, SeenInv, CursorInv, OwnInv, AccountInv
<1>2. CatalogueInv /\ [Next]_vars => CatalogueInv'
  BY TypesStep, SeenStep, CursorStep, OwnStep, AccountStep DEF CatalogueInv
<1> QED
  BY <1>1, <1>2, PTL DEF Spec

(* A listing is complete and has nothing twice: whatever was there from the *)
(* first page to the last is listed, once, and nothing that never was.      *)
THEOREM ListingsAreWhole == Spec => []ListedOnce
<1>1. CatalogueInv => ListedOnce
  BY DEF CatalogueInv, CursorInv, ListedOnce, Answered
<1> QED
  BY <1>1, CatalogueCorrect, PTL

(* Whoever is no admin, by whatever token and settings, sees only files     *)
(* that he had a claim on during the request, and no other's name.          *)
THEOREM OwnFilesAreSeen == Spec => []OwnFilesOnly
<1>1. ASSUME CatalogueInv PROVE OwnFilesOnly
  <2> SUFFICES ASSUME call.pc \notin {"idle", "refused"}, ~caller.admin
               PROVE  \/ call.kind = "files" /\ call.owner = caller.owner
                            /\ call.listed \subseteq ever
                      \/ /\ call.kind = "detail"
                         /\ call.owners \subseteq {caller.owner}
                         /\ call.shard # NoShard => <<"claim", caller.owner>> \in ever
    BY DEF OwnFilesOnly
  <2> QED
    BY <1>1 DEF CatalogueInv, CursorInv, OwnInv
<1> QED
  BY <1>1, CatalogueCorrect, PTL

(* Every figure of an account lies between what was so throughout the       *)
(* request and what was so at some time of it, whatever changes meanwhile.  *)
THEOREM FiguresAreBounded == Spec => []FiguresBounded
<1>1. ASSUME CatalogueInv PROVE FiguresBounded
  BY <1>1 DEF CatalogueInv, AccountInv, FiguresBounded, Answered, ClaimedIn, AllIn,
              IndexedIn, SizeBetween, CountBetween
<1> QED
  BY <1>1, CatalogueCorrect, PTL
=============================================================================
