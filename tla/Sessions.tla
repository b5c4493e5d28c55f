------------------------------ MODULE Sessions ------------------------------
(***************************************************************************)
(* The session of one account in its browsers: what the browser shows       *)
(* (AuthContext), the cookie, the proxy that owns the cookie and slides the  *)
(* session, and the control-api that signs tokens and revokes them through a *)
(* version number it caches.                                                *)
(*                                                                         *)
(* A token is its version and its age: "young" before half of its lifetime  *)
(* and "old" after.  HalfLife is the passing of half a lifetime (12 hours),  *)
(* during which no request stays open; CacheTick ends the life of a cache    *)
(* entry (15 seconds).                                                      *)
(***************************************************************************)
EXTENDS Naturals, FiniteSets

CONSTANTS
  Browsers,
  Requests,     \* requests that are open at a time
  Links,        \* sign-in links in the mailbox of the account
  NoToken,
  NoBrowser,
  Kinds,        \* the kinds of request that are sent
  Faults,       \* the kinds of fault that may happen
  MaxFaults,    \* bound: faults in a behaviour
  MaxVersion,   \* bound: token versions of the account
  MaxVisits     \* bound: visits of a sign-in link

AllKinds == {"me", "page", "logout", "login", "verify", "reset", "password", "revoke",
             "delete", "leave"}   \* "leave" is the sign-out after a deletion

ASSUME SessionsAssumption ==
  /\ Browsers # {} /\ Requests # {} /\ IsFiniteSet(Requests)
  /\ NoBrowser \notin Browsers
  /\ NoToken \notin [version: Nat, age: {"young", "old"}]
  /\ Kinds \subseteq AllKinds
  /\ Faults \subseteq {"refresh", "db", "backend"}
  /\ MaxFaults \in Nat /\ MaxVersion \in Nat \ {0} /\ MaxVisits \in Nat

VARIABLES
  version,   \* users.token_version
  deleted,   \* users.deleted_at is set
  cache,     \* the version cache of JWTMiddleware; 0 is no entry
  link,      \* the row of each sign-in link: valid, past its expires_at, or gone
  cookie,    \* the session cookie of each browser
  tab,       \* AuthContext and the page of each browser's tab
  req,       \* the open requests
  faults,    \* faults so far
  active,    \* history: browsers served with a token since the last HalfLife
  visits     \* history: how often each link was opened

vars == <<version, deleted, cache, link, cookie, tab, req, faults, active, visits>>

Versions == 1..MaxVersion
Tokens == [version: Versions, age: {"young", "old"}] \union {NoToken}
Minted == [version |-> version, age |-> "young"]

(* The first three stages are of the exchange of an old token, at the proxy.  *)
Exchanging == {"proxy", "refill", "exchange"}
Stages == Exchanging \union {"idle", "auth", "fill", "run", "consume", "mint", "bump", "answer"}
Request == [stage: Stages, kind: AllKinds, by: Browsers \union {NoBrowser},
            token: Tokens,      \* the cookie it was sent with, or its replacement
            fresh: Tokens,      \* refreshedToken
            seen: 0..MaxVersion,        \* the version the middleware read
            issued: Tokens,     \* the token in the answer
            status: {"none", "ok", "bad", "refused"},
            of: SUBSET Links,   \* the sign-in link it verifies
            clean: BOOLEAN]     \* no fault happened to it
Idle == [stage |-> "idle", kind |-> "me", by |-> NoBrowser, token |-> NoToken,
         fresh |-> NoToken, seen |-> 0, issued |-> NoToken, status |-> "none",
         of |-> {}, clean |-> TRUE]

Pages == {"home", "login", "work", "link"}
Tab == [user: BOOLEAN, loading: BOOLEAN, page: Pages,
        at: SUBSET Links,      \* the link in the address of the magic-link page
        asked: SUBSET Links,   \* request.current of that page
        failed: BOOLEAN]       \* it shows that the link could not be used
Mounted(page, ls) == [user |-> FALSE, loading |-> TRUE, page |-> page, at |-> ls,
                      asked |-> {}, failed |-> FALSE]

(* What the variables can hold. *)
TypeOK ==
  /\ version \in Versions /\ deleted \in BOOLEAN
  /\ cache \in 0..MaxVersion
  /\ link \in [Links -> {"valid", "expired", "gone"}]
  /\ cookie \in [Browsers -> Tokens]
  /\ tab \in [Browsers -> Tab]
  /\ req \in [Requests -> Request]
  /\ faults \in 0..MaxFaults
  /\ active \subseteq Browsers
  /\ visits \in [Links -> 0..MaxVisits]

-----------------------------------------------------------------------------
(* The routes the proxy and the middleware tell apart. *)

Public == {"login", "verify", "reset"}
IssuesTokens == {"login", "verify", "password", "revoke"}

OpenOf(b) == {r \in Requests : req[r].stage # "idle" /\ req[r].by = b}

(* Where the pages send the user when the context changes: the home page    *)
(* picks a page, and useRequireAuth leaves the workspace without a user.    *)
Routed(t) ==
  IF t.loading THEN t
  ELSE CASE t.page = "home" -> [t EXCEPT !.page = IF t.user THEN "work" ELSE "login"]
         [] t.page = "work" /\ ~t.user -> [t EXCEPT !.page = "login"]
         [] OTHER -> t

Fault(f) == f \in Faults /\ faults < MaxFaults /\ faults' = faults + 1

(* Bound: no request that raises the version is sent when it could not.     *)
Bumping == {"reset", "password", "revoke", "delete"}
RoomToBump ==
  version + Cardinality({r \in Requests : req[r].stage # "idle" /\ req[r].kind \in Bumping})
    < MaxVersion

(* The proxy answers a sign-out itself; any other request goes on to the    *)
(* backend, past half of the token's lifetime only after a refresh.        *)
Beyond(k) == IF k \in Public THEN "run" ELSE "auth"
Begin(r, b, k, ls) ==
  /\ k \in Kinds /\ (k \in Bumping => RoomToBump)
  /\ req[r].stage = "idle"
  /\ req' = [req EXCEPT ![r] =
       [Idle EXCEPT !.kind = k, !.by = b, !.token = cookie[b], !.of = ls,
                    !.stage = IF k = "logout" THEN "answer"
                              ELSE IF cookie[b] # NoToken /\ cookie[b].age = "old" THEN "proxy"
                              ELSE Beyond(k),
                    !.status = IF k = "logout" THEN "ok" ELSE "none"]]

Move(r, s) == req' = [req EXCEPT ![r].stage = s]
Reply(r, s) == req' = [req EXCEPT ![r].stage = "answer", ![r].status = s]

-----------------------------------------------------------------------------
(* The browser. *)

(* AuthProvider mounts with a page and asks who the user is; it may be the *)
(* page of a sign-in link.                                                  *)
Mount(b, r, page, ls) ==
  /\ OpenOf(b) = {}
  /\ tab' = [tab EXCEPT ![b] = Mounted(page, ls)]
  /\ Begin(r, b, "me", {})
  /\ UNCHANGED <<version, deleted, cache, link, cookie, faults, active>>

Open(b, r) == Mount(b, r, "home", {}) /\ UNCHANGED visits

OpenLink(b, r, l) ==
  /\ visits[l] < MaxVisits /\ visits' = [visits EXCEPT ![l] = @ + 1]
  /\ Mount(b, r, "link", {l})

(* Mutant: the effect does not remember that it has asked. *)
VerifyEffectTwice(b, r) ==
  /\ tab[b].page = "link"
  /\ Begin(r, b, "verify", tab[b].at)
  /\ UNCHANGED <<version, deleted, cache, link, cookie, tab, faults, active, visits>>

(* The effect of the magic-link page; it runs more than once, since         *)
(* verifyMagicLink changes and StrictMode mounts twice, and request.current *)
(* keeps it from asking twice.                                              *)
VerifyEffect(b, r) ==
  /\ tab[b].page = "link" /\ tab[b].asked # tab[b].at
  /\ tab' = [tab EXCEPT ![b].asked = tab[b].at]
  /\ Begin(r, b, "verify", tab[b].at)
  /\ UNCHANGED <<version, deleted, cache, link, cookie, faults, active, visits>>

(* The login page is usable while the provider still asks. *)
SubmitLogin(b, r) ==
  /\ tab[b].page = "login" /\ \A s \in OpenOf(b) : req[s].kind # "login"
  /\ tab' = [tab EXCEPT ![b].loading = TRUE]
  /\ Begin(r, b, "login", {})
  /\ UNCHANGED <<version, deleted, cache, link, cookie, faults, active, visits>>

SubmitReset(b, r) ==
  /\ tab[b].page = "login" /\ \A s \in OpenOf(b) : req[s].kind # "reset"
  /\ Begin(r, b, "reset", {})
  /\ UNCHANGED <<version, deleted, cache, link, cookie, tab, faults, active, visits>>

(* A page of the workspace loads or writes something; settings has the      *)
(* password, the sessions and the account, and asks again who the user is.  *)
UsePage(b, r, k) ==
  /\ k \in {"page", "me", "password", "revoke", "delete", "logout"}
  /\ tab[b].page = "work" /\ \A s \in OpenOf(b) : req[s].kind # k
  /\ Begin(r, b, k, {})
  /\ UNCHANGED <<version, deleted, cache, link, cookie, tab, faults, active, visits>>

-----------------------------------------------------------------------------
(* The control-api. *)

Fresh == cache # 0
Accepts(t, v) == t # NoToken /\ t.version = v

(* JWTMiddleware, before the exchange of an old token as before the request  *)
(* itself: a refused exchange leaves the request its old token.             *)
Admit(r) == IF req[r].stage \in Exchanging THEN "exchange" ELSE "run"
Refuse(r) ==
  IF req[r].stage \in Exchanging THEN Move(r, Beyond(req[r].kind)) ELSE Reply(r, "refused")

(* The cached version decides, and else the users row; a database error lets *)
(* the request pass.                                                        *)
Authenticate(r) ==
  LET t == req[r].token IN
  /\ req[r].stage \in {"proxy", "auth"}
  /\ \/ t = NoToken /\ Refuse(r) /\ UNCHANGED faults
     \/ /\ t # NoToken /\ Fresh /\ UNCHANGED faults
        /\ IF Accepts(t, cache) THEN Move(r, Admit(r)) ELSE Refuse(r)
     \/ /\ t # NoToken /\ ~Fresh /\ UNCHANGED faults
        /\ IF deleted THEN Refuse(r)
           ELSE req' = [req EXCEPT ![r].seen = version,
                          ![r].stage = IF @ = "proxy" THEN "refill" ELSE "fill"]
     \/ /\ t # NoToken /\ ~Fresh /\ Fault("db")
        /\ req' = [req EXCEPT ![r].stage = Admit(r), ![r].clean = FALSE]
  /\ UNCHANGED <<version, deleted, cache, link, cookie, tab, active, visits>>

(* The version just read goes into the cache, whatever happened since.      *)
FillCache(r) ==
  LET accepts == Accepts(req[r].token, req[r].seen)
      refused == IF req[r].stage = "fill" THEN "answer" ELSE Beyond(req[r].kind) IN
  /\ req[r].stage \in {"fill", "refill"}
  /\ cache' = req[r].seen
  /\ req' = [req EXCEPT ![r].seen = 0,
       ![r].stage = IF accepts THEN Admit(r) ELSE refused,
       ![r].status = IF ~accepts /\ refused = "answer" THEN "refused" ELSE @]
  /\ UNCHANGED <<version, deleted, link, cookie, tab, faults, active, visits>>

(* refreshSessionHandler, once the middleware has let the old token pass: it *)
(* signs with the version the row has by now.                              *)
Refresh(r) ==
  LET next == Beyond(req[r].kind) IN
  /\ req[r].stage = "exchange"
  /\ IF ~deleted
     THEN req' = [req EXCEPT ![r].stage = next, ![r].token = Minted, ![r].fresh = Minted]
     ELSE Move(r, next)
  /\ UNCHANGED <<version, deleted, cache, link, cookie, tab, faults, active, visits>>

(* The exchange fails, before the backend or on the way back: the request   *)
(* goes on with its old token.                                              *)
RefreshFails(r) ==
  /\ req[r].stage \in {"proxy", "exchange"}
  /\ Fault("refresh")
  /\ req' = [req EXCEPT ![r].stage = Beyond(req[r].kind), ![r].clean = FALSE]
  /\ UNCHANGED <<version, deleted, cache, link, cookie, tab, active, visits>>

Issue(r) == req' = [req EXCEPT ![r].stage = "answer", ![r].status = "ok", ![r].issued = Minted]

(* meHandler, and any other handler: it answers, or refuses the input. *)
Serve(r) ==
  /\ req[r].stage = "run" /\ req[r].kind \in {"me", "page"}
  /\ \/ (req[r].kind = "me" => ~deleted) /\ Reply(r, "ok")
     \/ req[r].kind = "me" /\ deleted /\ Reply(r, "bad")
     \/ req[r].kind = "page" /\ Reply(r, "bad")
  /\ UNCHANGED <<version, deleted, cache, link, cookie, tab, faults, active, visits>>

(* loginHandler, with the right password or a wrong one. *)
Login(r) ==
  /\ req[r].stage = "run" /\ req[r].kind = "login"
  /\ \/ ~deleted /\ Issue(r)
     \/ Reply(r, "refused")
  /\ UNCHANGED <<version, deleted, cache, link, cookie, tab, faults, active, visits>>

(* VerifyMagicLink: look up, consume, authenticate. *)
ValidateLink(r) ==
  /\ req[r].stage = "run" /\ req[r].kind = "verify"
  /\ IF \A l \in req[r].of : link[l] = "valid" THEN Move(r, "consume") ELSE Reply(r, "refused")
  /\ UNCHANGED <<version, deleted, cache, link, cookie, tab, faults, active, visits>>

ConsumeLink(r) ==
  /\ req[r].stage = "consume"
  /\ link' = [l \in Links |-> IF l \in req[r].of THEN "gone" ELSE link[l]]
  /\ Move(r, "mint")
  /\ UNCHANGED <<version, deleted, cache, cookie, tab, faults, active, visits>>

(* The checks of changePassword and ResetPassword; a reset ends every       *)
(* session in the transaction that sets the password.                      *)
CheckPassword(r) ==
  /\ req[r].stage = "run" /\ req[r].kind \in {"password", "reset"}
  /\ \/ Reply(r, "bad") /\ UNCHANGED version
     \/ /\ req[r].kind = "password" /\ ~deleted
        /\ Move(r, "bump") /\ UNCHANGED version
     \/ /\ req[r].kind = "reset"
        /\ version' = version + 1 /\ Reply(r, "ok")
  /\ UNCHANGED <<deleted, cache, link, cookie, tab, faults, active, visits>>

DeleteUser(r) ==
  /\ req[r].stage = "run" /\ req[r].kind = "delete"
  /\ deleted' = TRUE /\ Move(r, "bump")
  /\ UNCHANGED <<version, cache, link, cookie, tab, faults, active, visits>>

BumpTokenVersion(r) ==
  /\ req[r].stage = "bump" \/ (req[r].stage = "run" /\ req[r].kind = "revoke")
  /\ version' = version + 1
  /\ IF req[r].kind = "delete" THEN Reply(r, "ok") ELSE Move(r, "mint")
  /\ UNCHANGED <<deleted, cache, link, cookie, tab, faults, active, visits>>

(* changePassword and deleteAccount ignore a bump that fails. *)
BumpIsLost(r) ==
  /\ req[r].stage = "bump" /\ Fault("backend")
  /\ IF req[r].kind = "delete" THEN Reply(r, "ok") ELSE Move(r, "mint")
  /\ UNCHANGED <<version, deleted, cache, link, cookie, tab, active, visits>>

(* AuthenticateUserByID signs with the version the row has now. *)
AuthenticateUserByID(r) ==
  /\ req[r].stage = "mint"
  /\ IF ~deleted THEN Issue(r)
     ELSE Reply(r, IF req[r].kind = "verify" THEN "refused" ELSE "ok")
  /\ UNCHANGED <<version, deleted, cache, link, cookie, tab, faults, active, visits>>

(* The proxy cannot reach the backend, or a statement of the handler fails. *)
BackendFails(r) ==
  /\ req[r].stage \in {"run", "mint", "consume"}
  /\ Fault("backend")
  /\ req' = [req EXCEPT ![r].stage = "answer", ![r].status = "bad", ![r].clean = FALSE]
  /\ UNCHANGED <<version, deleted, cache, link, cookie, tab, active, visits>>

-----------------------------------------------------------------------------
(* The answer on its way back. *)

(* Mutant: a refreshed token is not given to the browser. *)
NewTokenIssued(r) ==
  IF req[r].kind \in IssuesTokens THEN req[r].issued ELSE NoToken

(* What the proxy does to the cookie: a token the handler issued, else the  *)
(* refreshed one of a request that succeeded, else a refusal clears it.     *)
NewToken(r) ==
  IF req[r].kind \in IssuesTokens /\ req[r].issued # NoToken THEN req[r].issued
  ELSE IF req[r].status = "ok" THEN req[r].fresh ELSE NoToken

ClearsCookie(r) ==
  \/ req[r].kind \in {"logout", "leave"}
  \/ NewToken(r) = NoToken /\ req[r].status = "refused" /\ req[r].kind # "login"

(* What AuthContext and the pages do with the answer. *)
Told(b, r) ==
  LET ok == req[r].status = "ok"
      t == tab[b] IN
  CASE req[r].kind = "me" -> [t EXCEPT !.user = ok, !.loading = FALSE]
    [] req[r].kind = "login" ->
         [t EXCEPT !.user = @ \/ ok, !.loading = FALSE,
                   !.page = IF ok THEN "work" ELSE @]
    [] req[r].kind = "verify" ->
         IF ok THEN [Mounted("work", {}) EXCEPT !.user = TRUE, !.loading = t.loading]
         ELSE [t EXCEPT !.failed = @ \/ t.page = "link"]
    [] req[r].kind = "logout" -> [t EXCEPT !.user = FALSE, !.page = "login"]
    [] req[r].kind = "leave" -> [t EXCEPT !.page = "login"]
    [] req[r].kind = "reset" /\ ok -> [t EXCEPT !.page = "login"]
    [] OTHER -> t

(* handleDeleteAccount goes on to sign out, and then to the login page. *)
Deliver(r) ==
  LET b == req[r].by IN
  /\ req[r].stage = "answer"
  /\ cookie' = [cookie EXCEPT ![b] =
       IF ClearsCookie(r) THEN NoToken
       ELSE IF NewToken(r) # NoToken THEN NewToken(r) ELSE @]
  /\ tab' = [tab EXCEPT ![b] = Routed(Told(b, r))]
  /\ active' = IF cookie'[b] = NoToken THEN active \ {b}
               ELSE IF /\ req[r].status = "ok" /\ req[r].kind \notin Public
                       /\ req[r].token # NoToken /\ req[r].clean
                 THEN active \union {b} ELSE active
  /\ req' = [req EXCEPT ![r] =
       IF req[r].kind = "delete" /\ req[r].status = "ok"
         THEN [Idle EXCEPT !.kind = "leave", !.by = b, !.token = cookie'[b],
                           !.stage = "answer", !.status = "ok"]
         ELSE Idle]
  /\ UNCHANGED <<version, deleted, cache, link, faults, visits>>

-----------------------------------------------------------------------------
(* Time. *)

(* Mutant: each use of an entry renews it. *)
CacheTickRenewed ==
  /\ Fresh /\ cache' = 0 /\ \A r \in Requests : req[r].stage = "idle"
  /\ UNCHANGED <<version, deleted, link, cookie, tab, req, faults, active, visits>>

(* An entry has been in the cache for 15 seconds. *)
CacheTick ==
  /\ Fresh /\ cache' = 0
  /\ UNCHANGED <<version, deleted, link, cookie, tab, req, faults, active, visits>>

(* A sign-in link passes its expires_at, whenever it was sent. *)
Expire(l) ==
  /\ link[l] = "valid" /\ link' = [link EXCEPT ![l] = "expired"]
  /\ UNCHANGED <<version, deleted, cache, cookie, tab, req, faults, active, visits>>

(* The cookie lives as long as its token. *)
Aged(t) ==
  IF t = NoToken \/ t.age = "old" THEN NoToken ELSE [t EXCEPT !.age = "old"]

HalfLife ==
  /\ \A r \in Requests : req[r].stage = "idle"
  /\ \E b \in Browsers : cookie[b] # NoToken
  /\ cookie' = [b \in Browsers |-> Aged(cookie[b])]
  /\ cache' = 0
  /\ active' = {}
  /\ UNCHANGED <<version, deleted, link, tab, req, faults, visits>>

-----------------------------------------------------------------------------
(* Each browser shows the login page, signed in from before or not.        *)
Init ==
  /\ version = 1 /\ deleted = FALSE
  /\ cache = 0
  /\ link = [l \in Links |-> "valid"]
  /\ cookie \in [Browsers -> {NoToken, [version |-> 1, age |-> "young"]}]
  /\ tab = [b \in Browsers |-> [Mounted("home", {}) EXCEPT !.page = "login", !.loading = FALSE]]
  /\ req = [r \in Requests |-> Idle]
  /\ faults = 0 /\ active = {}
  /\ visits = [l \in Links |-> 0]

Browse(b, r) ==
  \/ Open(b, r) \/ VerifyEffect(b, r) \/ SubmitLogin(b, r) \/ SubmitReset(b, r)
  \/ \E k \in Kinds : UsePage(b, r, k)
  \/ \E l \in Links : OpenLink(b, r, l)

Process(r) ==
  \/ Refresh(r) \/ Authenticate(r) \/ FillCache(r) \/ Serve(r) \/ Login(r)
  \/ ValidateLink(r) \/ ConsumeLink(r) \/ CheckPassword(r) \/ DeleteUser(r)
  \/ BumpTokenVersion(r) \/ AuthenticateUserByID(r) \/ Deliver(r)

Fails(r) == RefreshFails(r) \/ BackendFails(r) \/ BumpIsLost(r)

Next ==
  \/ \E b \in Browsers, r \in Requests : Browse(b, r)
  \/ \E r \in Requests : Process(r) \/ Fails(r)
  \/ \E l \in Links : Expire(l)
  \/ CacheTick \/ HalfLife

Spec == Init /\ [][Next]_vars

(* A request that is open is served, and seconds pass. *)
Fairness == WF_vars(CacheTick) /\ \A r \in Requests : WF_vars(Process(r))
FairSpec == Spec /\ Fairness

-----------------------------------------------------------------------------
(* Properties. *)

(* Sliding sessions: a browser that was served with its session during half *)
(* a lifetime, without a fault, still has a session when that half ends,    *)
(* unless its token is of an older version than the account, or the account  *)
(* was deleted.  A late exchange that puts a token of an older version over  *)
(* a newer cookie is excused with the revocation that made it older.        *)
ActiveStaysSignedIn ==
  [][\A b \in Browsers :
       (HalfLife /\ b \in active /\ ~deleted /\ Accepts(cookie[b], version)) => cookie'[b] # NoToken]_vars

(* The middleware has let a token of an older version pass, for a request or *)
(* for the exchange of that token.                                          *)
Outdated(r) ==
  /\ \/ req[r].kind \notin Public /\ req[r].stage \in {"run", "bump", "mint"}
     \/ req[r].stage = "exchange"
  /\ req[r].token.version # version

(* Revoking sessions, changing or resetting the password, and deleting the  *)
(* account end the use of every older token: from some time on none passes,  *)
(* neither for a request nor for an exchange, although versions are cached  *)
(* and a late read can cache an older one.  It is about tokens: a session   *)
(* whose token was exchanged, or whose owner changed the password or        *)
(* revoked, while the old version still passed has a token of the new       *)
(* version and goes on.                                                     *)
RevokedStops == <>[](\A r \in Requests : ~Outdated(r))

(* The first visit of a sign-in link is accepted, however often the effect  *)
(* of the page runs: the page shows an error only after a second visit, the *)
(* link's expiry, a fault, or the deletion of the account.  Whether the     *)
(* browser keeps the session it gets is not said: a refused `me` of the     *)
(* page's mount that is answered after the link takes it away again.        *)
FirstVisitAccepted ==
  \A b \in Browsers, l \in Links :
    tab[b].failed /\ tab[b].at = {l} /\ visits[l] = 1 =>
      link[l] = "expired" \/ deleted \/ faults > 0
=============================================================================
