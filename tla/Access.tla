------------------------------- MODULE Access -------------------------------
(***************************************************************************)
(* Sessions, second factor and API keys of one user (auth.service.ts,       *)
(* api-keys.service.ts and the guards).  A request loads a row, works on    *)
(* its copy and saves it: save writes every column the copy was loaded      *)
(* with, and inserts the row again if it is gone.  Nothing is in a          *)
(* transaction, so that a request may also end between two writes.          *)
(***************************************************************************)
EXTENDS Integers, Sequences, Functions, Rows

CONSTANTS
  Clients,       \* requests that may be in course
  AccessOps,     \* the operations they ask for
  Scopes,        \* scopes of the operations of the API
  MaxTokens,     \* bound: refresh tokens issued
  MaxPassword,   \* bound: passwords set
  MaxSaves       \* bound: requests begun

ASSUME AccessAssumption ==
  /\ MaxTokens \in Nat \ {0} /\ MaxPassword \in Nat /\ MaxSaves \in Nat
  /\ Scopes # {}

VARIABLES
  auth,        \* the row of authentications
  tokens,      \* refresh_tokens, in the order of their issue
  apiKey,      \* the row of api_keys; lives says whether it exists
  request,     \* what each client has in course
  begun,       \* requests begun
  contended,   \* history: two requests held the row of auth at once
  unrevoked,   \* history: a password was saved and its sessions were not ended
  forked,      \* history: sessions two rotations held at once
  keyEnded,    \* history: the key was revoked or removed
  keyContended \* history: two requests held the key at once

accessVars == <<auth, tokens, apiKey, request, begun, contended, unrevoked, forked, keyEnded, keyContended>>

FactorMethods == {"none", "totp", "email"}
Authentication == [password : 0 .. MaxPassword, method : FactorMethods, secret : BOOLEAN,
                   pending : BOOLEAN, code : BOOLEAN, reset : BOOLEAN]

\* password: the one whose holder opened the session; stale: the session goes on
\* from a request that was in course while sessions were being ended.
RefreshToken == [revoked : BOOLEAN, expired : BOOLEAN, session : Nat,
                 password : 0 .. MaxPassword, stale : BOOLEAN]

\* normalizeScopes: a key has at least one.
NormalizedScopes == (SUBSET Scopes) \ {{}}
ApiKey == [lives : BOOLEAN, revoked : BOOLEAN, expired : BOOLEAN, scopes : NormalizedScopes]

NoRequest == [stage |-> "none"]
IsActive(t) == ~t.revoked /\ ~t.expired

AccessInit ==
  /\ auth = [password |-> 0, method |-> "none", secret |-> FALSE, pending |-> FALSE,
             code |-> FALSE, reset |-> FALSE]
  /\ tokens = <<[revoked |-> FALSE, expired |-> FALSE, session |-> 1, password |-> 0, stale |-> FALSE]>>
  /\ apiKey = [lives |-> FALSE, revoked |-> FALSE, expired |-> FALSE, scopes |-> Scopes]
  /\ request = [c \in Clients |-> NoRequest]
  /\ begun = 0 /\ contended = FALSE /\ unrevoked = FALSE /\ forked = {} /\ keyEnded = FALSE /\ keyContended = FALSE

Begin(c, op) ==
  /\ op \in AccessOps /\ request[c].stage = "none" /\ begun < MaxSaves
  /\ begun' = begun + 1

-----------------------------------------------------------------------------
(* The row of authentications *)

\* The columns with select: false come only where the query asks for them.
Loaded(op) ==
  CASE op \in {"login", "loginCode"} -> {"method", "password", "secret", "code"}
    [] op = "requestReset" -> {"method"}
    [] op = "resetPassword" -> {"method", "reset"}
    [] OTHER -> {"method", "password", "secret", "pending", "code"}

\* Mutant of Accepts: the secret that is confirmed is not asked for.
Accepts_NoPending(op, row) ==
  CASE op = "confirmEmail" -> row.code
    [] op \in {"changePassword", "resetPassword"} -> row.password < MaxPassword
    [] OTHER -> TRUE

\* What each operation requires of the copy: the code the user types is right.
Accepts(op, row) ==
  CASE op = "login" -> row.method = "none"
    [] op = "loginCode" -> row.method = "totp" \/ (row.method = "email" /\ row.code)
    [] op = "sendCode" -> row.method = "email"
    [] op = "confirmTotp" -> row.pending
    [] op = "confirmEmail" -> row.code
    [] op = "disable" -> row.method = "totp" \/ (row.method = "email" /\ row.code)
    [] op = "changePassword" -> row.password < MaxPassword
    [] op = "resetPassword" -> row.reset /\ row.password < MaxPassword
    [] OTHER -> TRUE

\* The columns each operation assigns.
Assigned(op, row) ==
  CASE op \in {"login", "requestReset"} -> [reset |-> TRUE]
    [] op = "loginCode" -> [code |-> FALSE]
    [] op \in {"beginEmail", "sendCode"} -> [code |-> TRUE]
    [] op = "beginTotp" -> [pending |-> TRUE]
    [] op = "confirmTotp" -> [method |-> "totp", secret |-> row.pending, pending |-> FALSE, code |-> FALSE]
    [] op = "confirmEmail" -> [method |-> "email", secret |-> FALSE, pending |-> FALSE, code |-> FALSE]
    [] op = "disable" -> [method |-> "none", secret |-> FALSE, pending |-> FALSE]
    [] op = "changePassword" -> [password |-> row.password + 1]
    [] op = "resetPassword" -> [password |-> row.password + 1, reset |-> FALSE]

AuthOps == {"login", "loginCode", "sendCode", "beginTotp", "beginEmail", "confirmTotp", "confirmEmail",
            "disable", "changePassword", "requestReset", "resetPassword"}

\* A login without second factor saves nothing of this row.
BeginAuth(c, op) ==
  /\ Begin(c, op) /\ Accepts(op, auth)
  /\ request' = [request EXCEPT ![c] =
       [stage |-> IF op = "login" THEN "issue" ELSE "save", op |-> op, stale |-> FALSE,
        copy |-> Over(Assigned(op, auth), Restrict(auth, Loaded(op))),
        session |-> begun + 2, password |-> auth.password]]
  /\ contended' = (contended \/ \E d \in Clients : request[d].stage = "save")
  /\ UNCHANGED <<auth, tokens, apiKey, unrevoked, forked, keyEnded, keyContended>>

NextStage(op) ==
  CASE op \in {"changePassword", "resetPassword"} -> "revoke"
    [] op = "loginCode" -> "issue"
    [] OTHER -> "done"

SaveAuth(c) ==
  /\ request[c].stage = "save" /\ request[c].op \in AuthOps
  /\ auth' = Over(request[c].copy, auth)
  /\ request' = [request EXCEPT ![c] =
       IF NextStage(request[c].op) = "done" THEN NoRequest ELSE [@ EXCEPT !.stage = NextStage(request[c].op)]]
  /\ UNCHANGED <<tokens, apiKey, begun, contended, unrevoked, forked, keyEnded, keyContended>>

\* A code or a link that was sent lapses.
LapseCode ==
  /\ \E column \in {"code", "reset"} : auth[column] /\ auth' = [auth EXCEPT ![column] = FALSE]
  /\ UNCHANGED <<tokens, apiKey, request, begun, contended, unrevoked, forked, keyEnded, keyContended>>

-----------------------------------------------------------------------------
(* Sessions *)

\* Mutant of RevokeSessions: only those that had not been used.
RevokeSessions_NewestOnly(c) ==
  /\ request[c].stage = "revoke"
  /\ tokens' = [i \in DOMAIN tokens |-> IF i = Len(tokens) THEN [tokens[i] EXCEPT !.revoked = TRUE] ELSE tokens[i]]
  /\ request' = [d \in Clients |->
       IF d = c \/ request[d].stage = "none" THEN NoRequest ELSE [request[d] EXCEPT !.stale = TRUE]]
  /\ unrevoked' = FALSE
  /\ UNCHANGED <<auth, apiKey, begun, contended, forked, keyEnded, keyContended>>

\* The end of changePassword and of resetPassword.
RevokeSessions(c) ==
  /\ request[c].stage = "revoke"
  /\ tokens' = [i \in DOMAIN tokens |-> [tokens[i] EXCEPT !.revoked = TRUE]]
  /\ request' = [d \in Clients |->
       IF d = c \/ request[d].stage = "none" THEN NoRequest ELSE [request[d] EXCEPT !.stale = TRUE]]
  /\ unrevoked' = FALSE
  /\ UNCHANGED <<auth, apiKey, begun, contended, forked, keyEnded, keyContended>>

\* issueTokens
IssueTokens(c) ==
  /\ request[c].stage = "issue" /\ Len(tokens) < MaxTokens
  /\ tokens' = Append(tokens, [revoked |-> FALSE, expired |-> FALSE, session |-> request[c].session,
                               password |-> request[c].password, stale |-> request[c].stale])
  /\ request' = [request EXCEPT ![c] = NoRequest]
  /\ UNCHANGED <<auth, apiKey, begun, contended, unrevoked, forked, keyEnded, keyContended>>

OnToken(c, i) == request[c].stage = "rotate" /\ request[c].token = i

\* refreshTokens and logout find the token; logout saves nothing if it is revoked.
BeginToken(c, op, i) ==
  /\ Begin(c, op)
  /\ IF op = "refresh" THEN IsActive(tokens[i]) ELSE ~tokens[i].revoked
  /\ request' = [request EXCEPT ![c] = [stage |-> "rotate", op |-> op, token |-> i, stale |-> tokens[i].stale,
                                        session |-> tokens[i].session, password |-> tokens[i].password]]
  /\ forked' = IF \E d \in Clients : OnToken(d, i) THEN forked \cup {tokens[i].session} ELSE forked
  /\ UNCHANGED <<auth, tokens, apiKey, contended, unrevoked, keyEnded, keyContended>>

RotateToken(c) ==
  /\ request[c].stage = "rotate"
  /\ tokens' = [tokens EXCEPT ![request[c].token].revoked = TRUE]
  /\ request' = [request EXCEPT ![c] = IF @.op = "refresh" THEN [@ EXCEPT !.stage = "issue"] ELSE NoRequest]
  /\ UNCHANGED <<auth, apiKey, begun, contended, unrevoked, forked, keyEnded, keyContended>>

ExpireToken(i) ==
  /\ ~tokens[i].expired
  /\ tokens' = [tokens EXCEPT ![i].expired = TRUE]
  /\ UNCHANGED <<auth, apiKey, request, begun, contended, unrevoked, forked, keyEnded, keyContended>>

-----------------------------------------------------------------------------
(* API keys *)

CreateKey(scopes) ==
  /\ "createKey" \in AccessOps /\ ~apiKey.lives /\ ~keyEnded
  /\ apiKey' = [lives |-> TRUE, revoked |-> FALSE, expired |-> FALSE, scopes |-> scopes]
  /\ UNCHANGED <<auth, tokens, request, begun, contended, unrevoked, forked, keyEnded, keyContended>>

HoldsKey(c) == request[c].stage = "key"

\* update sets its columns, revoke the date unless it has one.
BeginKey(c, op) ==
  /\ Begin(c, op) /\ apiKey.lives /\ (op = "revokeKey" => ~apiKey.revoked)
  /\ \E scopes \in NormalizedScopes, expired \in {apiKey.expired, FALSE} :
       request' = [request EXCEPT ![c] = [stage |-> "key", op |-> op, stale |-> FALSE,
         copy |-> IF op = "updateKey" THEN [apiKey EXCEPT !.scopes = scopes, !.expired = expired]
                  ELSE [apiKey EXCEPT !.revoked = op = "revokeKey", !.lives = op # "removeKey"]]]
  /\ keyContended' = (keyContended \/ \E d \in Clients : HoldsKey(d))
  /\ UNCHANGED <<auth, tokens, apiKey, contended, unrevoked, forked, keyEnded>>

SaveKey(c) ==
  /\ HoldsKey(c)
  /\ apiKey' = request[c].copy
  /\ keyEnded' = (keyEnded \/ request[c].op # "updateKey")
  /\ request' = [request EXCEPT ![c] = NoRequest]
  /\ UNCHANGED <<auth, tokens, begun, contended, unrevoked, forked, keyContended>>

ExpireKey ==
  /\ apiKey.lives /\ ~apiKey.expired
  /\ apiKey' = [apiKey EXCEPT !.expired = TRUE]
  /\ UNCHANGED <<auth, tokens, request, begun, contended, unrevoked, forked, keyEnded, keyContended>>

\* verify.
KeyVerified == apiKey.lives /\ ~apiKey.revoked /\ ~apiKey.expired

\* canActivate, assertScopes: an operation that declares no scopes is not for keys.
KeyAdmitted(required) ==
  /\ KeyVerified
  /\ required # {} /\ ("ALL" \in apiKey.scopes \/ required \subseteq apiKey.scopes)

-----------------------------------------------------------------------------
\* The request ends before its next write: an error, or the process.
AbandonRequest(c) ==
  /\ request[c].stage # "none"
  /\ request' = [request EXCEPT ![c] = NoRequest]
  /\ unrevoked' = (unrevoked \/ request[c].stage = "revoke")
  /\ UNCHANGED <<auth, tokens, apiKey, begun, contended, forked, keyEnded, keyContended>>

AccessNext ==
  \/ \E c \in Clients :
       \/ \E op \in AuthOps : BeginAuth(c, op)
       \/ \E op \in {"refresh", "logout"}, i \in DOMAIN tokens : BeginToken(c, op, i)
       \/ \E op \in {"updateKey", "revokeKey", "removeKey"} : BeginKey(c, op)
       \/ SaveAuth(c) \/ RevokeSessions(c) \/ IssueTokens(c) \/ RotateToken(c) \/ SaveKey(c)
       \/ AbandonRequest(c)
  \/ LapseCode
  \/ \E i \in DOMAIN tokens : ExpireToken(i)
  \/ \E scopes \in NormalizedScopes : CreateKey(scopes)
  \/ ExpireKey

AccessSpec == AccessInit /\ [][AccessNext]_accessVars

-----------------------------------------------------------------------------
AccessTypeOK ==
  /\ auth \in Authentication /\ apiKey \in ApiKey
  /\ tokens \in Seq(RefreshToken) /\ Len(tokens) <= MaxTokens

Ending == unrevoked \/ \E c \in Clients : request[c].stage = "revoke"

\* "el token usado se revoca y se emite uno nuevo" (refreshTokens), "revocar es
\* irreversible" (api-keys.service.ts): a change of password leaves open only the
\* sessions opened with the new one, a session has one token that can be used, and
\* a key that was revoked or removed is never admitted again.  Each but for the
\* requests that were in course meanwhile on the same row, and for a failure
\* between the password and the end of the sessions.
RevocationHolds ==
  /\ \A i \in DOMAIN tokens :
       IsActive(tokens[i]) /\ ~tokens[i].stale /\ ~Ending /\ ~contended => tokens[i].password = auth.password
  /\ \A i, j \in DOMAIN tokens :
       IsActive(tokens[i]) /\ IsActive(tokens[j]) /\ tokens[i].session = tokens[j].session
         => i = j \/ tokens[i].session \in forked
  /\ keyEnded /\ ~keyContended => \A required \in SUBSET Scopes : ~KeyAdmitted(required)

\* "Así el usuario puede cancelar un cambio de método sin bloquear su próximo
\* login" (beginTwoFactor): however a change of method is begun, repeated,
\* abandoned or mixed with resets and logins, the method in force has what it
\* needs to check a code; but for two requests that held the row at once.
SecondFactorUsable == auth.method = "totp" /\ ~contended => auth.secret
=============================================================================
