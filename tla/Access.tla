-------------------------------- MODULE Access --------------------------------
(***************************************************************************)
(* Who a request is and what it may do: auth/middleware.rs and auth/jwt.rs *)
(* after the signature of its token was found good (JwksCache has the      *)
(* keys).  No state.                                                       *)
(*                                                                         *)
(* A token is [alg, sub, scope, grants]: one the server signed itself      *)
(* (HS256) carries a scope; one of an identity provider carries grants,    *)
(* the strings of its scope and role claims.  conf is AuthConfig: whether  *)
(* authentication is on, the names of the three roles ("" is "no such      *)
(* role") and the default scope or NoScope.                                *)
(***************************************************************************)
EXTENDS Naturals

CONSTANTS NoScope, NoToken

Scopes == {"read", "write", "admin"}

Rank(scope) == CASE scope = "read" -> 0 [] scope = "write" -> 1 [] scope = "admin" -> 2

Satisfies(scope, required) == Rank(scope) >= Rank(required)

(* An unset role matches nothing, not even an empty grant. *)
Carries(grants, role) == role # "" /\ role \in grants

(* The strongest role wins; the default is for tokens with none of them. *)
GrantedScope(grants, conf) ==
    CASE Carries(grants, conf.admin) -> "admin"
      [] ~Carries(grants, conf.admin) /\ Carries(grants, conf.write) -> "write"
      [] ~Carries(grants, conf.admin) /\ ~Carries(grants, conf.write)
           /\ Carries(grants, conf.read) -> "read"
      [] OTHER -> conf.default

(* All callers without a subject share one account. *)
OwnerOf(sub) == IF sub = "" THEN "default" ELSE sub

Refused(status) == [status |-> status]

(* What a handler that requires a scope is given. *)
Authorize(token, conf, required) ==
    LET scope == IF token.alg = "HS256" THEN token.scope
                 ELSE GrantedScope(token.grants, conf)
    IN  IF ~conf.enabled THEN [status |-> 200, scope |-> "admin", owner |-> OwnerOf("")]
        ELSE IF token = NoToken THEN Refused(401)
        ELSE IF scope = NoScope THEN Refused(403)
        ELSE IF ~Satisfies(scope, required) THEN Refused(403)
        ELSE [status |-> 200, scope |-> scope, owner |-> OwnerOf(token.sub)]

(* The owner a file listing is restricted to, "" being all of them; asked   *)
(* is the request's owner parameter, "" when it is empty or absent.         *)
MayList(access, asked) ==
    access.scope = "admin" \/ asked \in {"", access.owner}

ListedOwner(access, asked) ==
    IF access.scope = "admin" THEN asked ELSE access.owner
=============================================================================
